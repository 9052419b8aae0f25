--------------------------- MODULE AccountsProofs ---------------------------
(***************************************************************************)
(* Accounts for any users, requests, clocks and failures.  The argument:   *)
(* the check of a token reads its own row unless the token has a twin; so  *)
(* a request past its check holds a token that was good when it was        *)
(* checked, and while it holds it no second one gets past the check        *)
(* unnoticed; once it was exchanged or its session was ended it is revoked *)
(* for good.                                                               *)
(***************************************************************************)
EXTENDS Accounts, TLAPS

Rows == DOMAIN tokens

\* A token that was exchanged is revoked.
ParentRevoked ==
    \A k \in Rows : tokens[k].from # None => tokens[tokens[k].from].revoked

\* So is one whose session was ended.
EndedRevoked == \A i \in ended : tokens[i].revoked

\* What a request knows of its user and token.
Request(r) ==
    /\ auth[r].pc # "idle" => auth[r].user \in registered
    /\ auth[r].pc = "idle" => auth[r].tok = None
    /\ auth[r].pc \in {"check", "revoke", "user"} => auth[r].tok # None
    /\ auth[r].tok # None => tokens[auth[r].tok].user = auth[r].user
    /\ auth[r].pc \in {"user", "mint", "insert"} /\ auth[r].tok # None =>
          tokens[auth[r].tok].revoked

Requests == \A r \in Req : Request(r)

\* A token without a twin that no two refreshes overtook each other with is
\* held by one request past its check, or has a successor, not both.
OneHolder ==
    \A r \in Req : Passed(r) /\ auth[r].tok \notin overlap /\ ~Twinned(auth[r].tok) =>
        /\ \A q \in Req : Passed(q) /\ auth[q].tok = auth[r].tok => q = r
        /\ \A k \in Rows : tokens[k].from # auth[r].tok

AccountsInv ==
    /\ AccountsTypeOK /\ ParentRevoked /\ EndedRevoked /\ Requests
    /\ OneHolder /\ OneSuccessor /\ LogoutEnds

-----------------------------------------------------------------------------
(* The two ways in which the rows change *)

\* A row at the end of a sequence.
LEMMA AppendedRow ==
  ASSUME NEW S, NEW s \in Seq(S), NEW e \in S
  PROVE  /\ Append(s, e) \in Seq(S)
         /\ Len(Append(s, e)) = Len(s) + 1
         /\ DOMAIN s = 1..Len(s)
         /\ DOMAIN Append(s, e) = DOMAIN s \cup {Len(s) + 1}
         /\ Len(s) + 1 \notin DOMAIN s
         /\ Append(s, e)[Len(s) + 1] = e
         /\ \A i \in DOMAIN s : Append(s, e)[i] = s[i]
  OBVIOUS

\* RevokeRefreshToken sets revoked where the name is the same, and no more.
LEMMA RevokedRows ==
  ASSUME AccountsTypeOK, NEW i \in Rows
  PROVE  /\ Revoked(i) \in Seq(TokenRow)
         /\ Len(Revoked(i)) = Len(tokens)
         /\ DOMAIN Revoked(i) = Rows
         /\ \A k \in Rows :
               /\ Revoked(i)[k].jti = tokens[k].jti /\ Revoked(i)[k].user = tokens[k].user
               /\ Revoked(i)[k].from = tokens[k].from /\ Revoked(i)[k].till = tokens[k].till
               /\ Revoked(i)[k].revoked \in BOOLEAN
               /\ Revoked(i)[k].revoked <=> tokens[k].revoked \/ tokens[k].jti = tokens[i].jti
  <1> USE DEF Rows
  <1>1. tokens \in Seq(TokenRow) /\ DOMAIN tokens = 1..Len(tokens) /\ Len(tokens) \in Nat
    BY DEF AccountsTypeOK
  <1>2. \A k \in DOMAIN tokens : tokens[k] \in TokenRow
    BY <1>1
  <1>3. DOMAIN Revoked(i) = 1..Len(tokens)
    BY <1>1 DEF Revoked
  <1>4. ASSUME NEW k \in DOMAIN tokens
        PROVE  /\ Revoked(i)[k] \in TokenRow
               /\ Revoked(i)[k].jti = tokens[k].jti /\ Revoked(i)[k].user = tokens[k].user
               /\ Revoked(i)[k].from = tokens[k].from /\ Revoked(i)[k].till = tokens[k].till
               /\ Revoked(i)[k].revoked \in BOOLEAN
               /\ Revoked(i)[k].revoked <=> tokens[k].revoked \/ tokens[k].jti = tokens[i].jti
    <2>1. Revoked(i)[k] = [tokens[k] EXCEPT !.revoked = @ \/ tokens[k].jti = tokens[i].jti]
      BY DEF Revoked
    <2>2. QED
      BY <1>2, <2>1 DEF TokenRow
  <1>5. Revoked(i) \in [1..Len(tokens) -> TokenRow]
    BY <1>1, <1>4 DEF Revoked
  <1>6. Revoked(i) \in Seq(TokenRow) /\ Len(Revoked(i)) = Len(tokens)
    BY <1>1, <1>5
  <1>7. QED
    BY <1>1, <1>3, <1>4, <1>6

-----------------------------------------------------------------------------
(* Steps *)

\* The states of a request.
Stage ==
    [pc : {"idle", "check", "revoke", "user", "mint", "insert"}, user : Email \cup {None},
     tok : {None} \cup Rows, jti : 0..clock]

\* The type of the requests, and what the types say of a row.
LEMMA Types ==
  ASSUME AccountsTypeOK
  PROVE  /\ auth \in [Req -> Stage] /\ tokens \in Seq(TokenRow) /\ clock \in Nat
         /\ Idle \in Stage /\ None \notin Rows
         /\ \A i \in Rows : i \in Nat /\ tokens[i] \in TokenRow
  <1>1. auth \in [Req -> Stage] /\ tokens \in Seq(TokenRow)
    BY DEF AccountsTypeOK, Stage, Rows
  <1>2. clock \in Nat
    BY AccountsAssumption DEF AccountsAssumption, AccountsTypeOK
  <1>3. None \notin Rows /\ \A i \in Rows : i \in Nat /\ tokens[i] \in TokenRow
    BY <1>1 DEF Rows, None
  <1>4. Idle \in Stage
    BY <1>2 DEF Idle, Stage
  <1>5. QED
    BY <1>1, <1>2, <1>3, <1>4

\* A token comes from a row.
LEMMA Parents ==
  ASSUME AccountsTypeOK, NEW k \in Rows, tokens[k].from # None
  PROVE  tokens[k].from \in Rows
  <1>1. tokens \in Seq(TokenRow) /\ k \in 1..Len(tokens) /\ Rows = 1..Len(tokens)
    BY DEF AccountsTypeOK, Rows
  <1>2. tokens[k].from \in 0..(k - 1)
    BY DEF AccountsTypeOK, Rows
  <1>3. QED
    BY <1>1, <1>2 DEF None

\* At the start nobody has an account and there are no tokens.
LEMMA InitInv == ASSUME AccountsInit PROVE AccountsInv
  <1> USE DEF AccountsInit, Rows
  <1>1. AccountsTypeOK
    <2>1. tokens \in Seq(TokenRow) /\ Len(tokens) = 0 /\ DOMAIN tokens = {}
      OBVIOUS
    <2>2. auth \in [Req -> [pc : {"idle", "check", "revoke", "user", "mint", "insert"},
                            user : Email \cup {None}, tok : {None} \cup DOMAIN tokens,
                            jti : 0..clock]]
      BY DEF Idle
    <2>3. QED
      BY <2>1, <2>2, AccountsAssumption DEF AccountsAssumption, AccountsTypeOK
  <1>2. ParentRevoked /\ EndedRevoked /\ OneSuccessor /\ LogoutEnds
    BY DEF ParentRevoked, EndedRevoked, OneSuccessor, LogoutEnds
  <1>3. Requests /\ OneHolder
    BY DEF Requests, Request, OneHolder, Passed, Idle
  <1>4. QED
    BY <1>1, <1>2, <1>3 DEF AccountsInv

\* A step that changes no row and takes no request past its check.
LEMMA NoneFurther ==
  ASSUME AccountsInv, UNCHANGED <<tokens, overlap, ended>>,
         \A r \in Req : Passed(r)' => Passed(r) /\ auth'[r].tok = auth[r].tok
  PROVE  (ParentRevoked /\ EndedRevoked /\ OneHolder /\ OneSuccessor /\ LogoutEnds)'
  <1>1. (ParentRevoked /\ EndedRevoked /\ OneSuccessor)'
    BY DEF AccountsInv, ParentRevoked, EndedRevoked, OneSuccessor, Twinned, Rows
  <1>2. \A i : Twinned(i)' <=> Twinned(i)
    BY DEF Twinned
  <1>3. OneHolder'
    BY <1>2 DEF AccountsInv, OneHolder, Rows
  <1>4. LogoutEnds'
    BY <1>2 DEF AccountsInv, LogoutEnds, Successors
  <1>5. QED
    BY <1>1, <1>3, <1>4

\* A request that takes a step of its own while no row changes.
LEMMA OneRequest ==
  ASSUME AccountsInv, NEW r \in Req, NEW e \in Stage,
         auth' = [auth EXCEPT ![r] = e],
         UNCHANGED <<tokens, clock, ended>>,
         registered \subseteq registered', registered' \subseteq Email,
         overlap' \subseteq Rows, Request(r)'
  PROVE  AccountsTypeOK' /\ Requests'
  <1> USE DEF Rows
  <1>1. auth' \in [Req -> Stage] /\ \A q \in Req \ {r} : auth'[q] = auth[q]
    BY Types DEF AccountsInv
  <1>2. AccountsTypeOK'
    BY <1>1 DEF AccountsInv, AccountsTypeOK, Stage
  <1>3. Requests'
    <2> SUFFICES ASSUME NEW q \in Req \ {r} PROVE Request(q)'
      BY DEF Requests
    <2>1. Request(q)
      BY DEF AccountsInv, Requests
    <2>2. QED
      BY <1>1, <2>1 DEF Request
  <1>4. QED
    BY <1>2, <1>3

LEMMA TickStep == ASSUME AccountsInv, Tick PROVE AccountsInv'
  <1>1. clock \in Nat /\ clock' = clock + 1 /\ clock' \in 0..MaxTime
    BY Types, AccountsAssumption DEF AccountsInv, Tick, AccountsAssumption, AccountsTypeOK
  <1>2. UNCHANGED <<registered, tokens, auth, overlap, ended>>
    BY DEF Tick
  <1>3. AccountsTypeOK'
    <2>1. auth \in [Req -> Stage] /\ 0..clock \subseteq 0..clock'
      BY <1>1, Types DEF AccountsInv
    <2>2. auth' \in [Req -> [pc : {"idle", "check", "revoke", "user", "mint", "insert"},
                            user : Email \cup {None}, tok : {None} \cup DOMAIN tokens,
                            jti : 0..clock']]
      BY <1>2, <2>1 DEF Stage, Rows
    <2>3. QED
      BY <1>1, <1>2, <2>2 DEF AccountsInv, AccountsTypeOK
  <1>4. (ParentRevoked /\ EndedRevoked /\ OneHolder /\ OneSuccessor /\ LogoutEnds)'
    BY <1>2, NoneFurther DEF Passed
  <1>5. Requests'
    BY <1>2 DEF AccountsInv, Requests, Request
  <1>6. QED
    BY <1>3, <1>4, <1>5 DEF AccountsInv

\* A request that takes a step of its own, gets no further past its check and
\* leaves the rows alone.
LEMMA QuietStep ==
  ASSUME AccountsInv, NEW r \in Req, NEW e \in Stage,
         auth' = [auth EXCEPT ![r] = e],
         UNCHANGED <<tokens, clock, overlap, ended>>,
         registered \subseteq registered', registered' \subseteq Email, Request(r)',
         Passed(r)' => Passed(r) /\ e.tok = auth[r].tok
  PROVE  AccountsInv'
  <1>1. AccountsTypeOK' /\ Requests'
    BY OneRequest DEF AccountsInv, AccountsTypeOK, Rows
  <1>2. \A q \in Req : auth'[q] = IF q = r THEN e ELSE auth[q]
    BY Types DEF AccountsInv
  <1>3. \A q \in Req : Passed(q)' => Passed(q) /\ auth'[q].tok = auth[q].tok
    BY <1>2 DEF Passed
  <1>4. (ParentRevoked /\ EndedRevoked /\ OneHolder /\ OneSuccessor /\ LogoutEnds)'
    BY <1>3, NoneFurther
  <1>5. QED
    BY <1>1, <1>4 DEF AccountsInv

\* Whoever has an account signs in; no token is presented.
LEMMA SignInStep ==
  ASSUME AccountsInv, NEW r \in Req, NEW u \in Email, SignIn(r, u), u \in registered',
         registered \subseteq registered', registered' \subseteq Email,
         UNCHANGED <<tokens, clock, overlap, ended>>
  PROVE  AccountsInv'
  <1> DEFINE e == [Idle EXCEPT !.pc = "mint", !.user = u]
  <1>1. e \in Stage /\ e.pc = "mint" /\ e.user = u /\ e.tok = None
    BY Types DEF AccountsInv, Stage, Idle
  <1>2. auth' = [auth EXCEPT ![r] = e] /\ auth'[r] = e
    BY Types DEF AccountsInv, SignIn
  <1> HIDE DEF e
  <1>3. Request(r)' /\ ~Passed(r)'
    BY <1>1, <1>2 DEF Request, Passed
  <1>4. QED
    BY <1>1, <1>2, <1>3, QuietStep

\* A request that is answered is forgotten.
LEMMA AnswerStep ==
  ASSUME AccountsInv, NEW r \in Req, Answer(r),
         UNCHANGED <<registered, tokens, clock, overlap, ended>>
  PROVE  AccountsInv'
  <1>1. Idle \in Stage /\ Idle.pc = "idle" /\ Idle.tok = None
    BY Types DEF AccountsInv, Stage, Idle
  <1>2. auth' = [auth EXCEPT ![r] = Idle] /\ auth'[r] = Idle
    BY Types DEF AccountsInv, Answer
  <1>3. Request(r)' /\ ~Passed(r)'
    BY <1>1, <1>2 DEF Request, Passed
  <1>4. registered \subseteq Email
    BY DEF AccountsInv, AccountsTypeOK
  <1>5. QED
    BY <1>1, <1>2, <1>3, <1>4, QuietStep

LEMMA StartRefreshStep ==
  ASSUME AccountsInv, NEW r \in Req, NEW i \in Rows, StartRefresh(r, i)
  PROVE  AccountsInv'
  <1> DEFINE e == [Idle EXCEPT !.pc = "check", !.user = tokens[i].user, !.tok = i]
  <1>1. tokens[i] \in TokenRow /\ tokens[i].user \in registered /\ i # None
    BY Types DEF AccountsInv, AccountsTypeOK, Rows
  <1>2. e \in Stage
    BY <1>1, Types DEF AccountsInv, Stage, TokenRow, Idle
  <1>3. auth' = [auth EXCEPT ![r] = e] /\ auth'[r] = e
    BY Types DEF AccountsInv, StartRefresh
  <1>4. e.pc = "check" /\ e.user = tokens[i].user /\ e.tok = i
    BY DEF Idle
  <1> HIDE DEF e
  <1>5. Request(r)' /\ ~Passed(r)'
    BY <1>1, <1>3, <1>4 DEF Request, Passed, StartRefresh
  <1>6. registered \subseteq Email /\ registered' = registered
        /\ UNCHANGED <<tokens, clock, overlap, ended>>
    BY DEF AccountsInv, AccountsTypeOK, StartRefresh
  <1>7. QED
    BY <1>2, <1>3, <1>5, <1>6, QuietStep

\* Whether the user still has a row makes no difference to the tokens.
LEMMA ReadUserStep ==
  ASSUME AccountsInv, NEW r \in Req, ReadUser(r)
  PROVE  AccountsInv'
  <1>1. UNCHANGED <<registered, tokens, clock, overlap, ended>>
    BY DEF ReadUser
  <1>2. CASE Go(r, "mint")
    <2> DEFINE e == [auth[r] EXCEPT !.pc = "mint"]
    <2>1. auth[r] \in Stage /\ auth[r].pc = "user" /\ Request(r)
      BY Types DEF AccountsInv, ReadUser, At, Requests
    <2>2. e \in Stage /\ e.pc = "mint" /\ e.user = auth[r].user /\ e.tok = auth[r].tok
      BY <2>1 DEF Stage
    <2>3. auth' = [auth EXCEPT ![r] = e] /\ auth'[r] = e
      BY <1>2, Types DEF AccountsInv, Go
    <2> HIDE DEF e
    <2>4. Request(r)' /\ (Passed(r)' => Passed(r))
      BY <1>1, <2>1, <2>2, <2>3 DEF Request, Passed
    <2>5. registered \subseteq Email
      BY DEF AccountsInv, AccountsTypeOK
    <2>6. QED
      BY <1>1, <2>2, <2>3, <2>4, <2>5, QuietStep
  <1>3. CASE Answer(r)
    BY <1>1, <1>3, AnswerStep
  <1>4. QED
    BY <1>2, <1>3 DEF ReadUser

\* To name a token touches no row.
LEMMA MintTokenStep ==
  ASSUME AccountsInv, NEW r \in Req, MintToken(r)
  PROVE  AccountsInv'
  <1> DEFINE e == [auth[r] EXCEPT !.pc = "insert", !.jti = clock]
  <1>1. auth[r] \in Stage /\ auth[r].pc = "mint" /\ Request(r) /\ clock \in 0..clock
    <2>1. clock \in Nat /\ auth[r] \in Stage
      BY Types DEF AccountsInv
    <2>2. QED
      BY <2>1 DEF AccountsInv, MintToken, At, Requests
  <1>2. e \in Stage /\ e.pc = "insert" /\ e.user = auth[r].user /\ e.tok = auth[r].tok
    BY <1>1 DEF Stage
  <1>3. auth' = [auth EXCEPT ![r] = e] /\ auth'[r] = e
    BY <1>1, Types DEF AccountsInv, MintToken
  <1> HIDE DEF e
  <1>4. UNCHANGED <<registered, tokens, clock, overlap, ended>> /\ registered \subseteq Email
    BY DEF MintToken, AccountsInv, AccountsTypeOK
  <1>5. Request(r)' /\ (Passed(r)' => Passed(r))
    BY <1>1, <1>2, <1>3, <1>4 DEF Request, Passed
  <1>6. QED
    BY <1>2, <1>3, <1>4, <1>5, QuietStep

\* A check that finds the token good: without a twin, nobody else is past its
\* check with it, or both are and it is counted as overtaken; it has no
\* successor and its session was not ended.
LEMMA PassStep ==
  ASSUME AccountsInv, NEW r \in Req, At(r, "check"), Go(r, "revoke"),
         Twinned(auth[r].tok) \/ ~tokens[auth[r].tok].revoked,
         UNCHANGED <<registered, tokens, clock, ended>>,
         overlap' = IF \E q \in Req \ {r} : At(q, "revoke") /\ auth[q].tok = auth[r].tok
                    THEN overlap \cup {auth[r].tok} ELSE overlap
  PROVE  AccountsInv'
  <1> DEFINE e == [auth[r] EXCEPT !.pc = "revoke"]
             t == auth[r].tok
  <1>1. auth[r] \in Stage /\ auth[r].pc = "check" /\ Request(r) /\ t \in Rows
    BY Types DEF AccountsInv, At, Requests, Request, Stage
  <1>2. e \in Stage /\ e.pc = "revoke" /\ e.user = auth[r].user /\ e.tok = t
    BY <1>1 DEF Stage
  <1>3. auth' = [auth EXCEPT ![r] = e] /\ auth'[r] = e /\ \A q \in Req \ {r} : auth'[q] = auth[q]
    BY Types DEF AccountsInv, Go
  <1> HIDE DEF e
  <1>4. \A i : Twinned(i)' <=> Twinned(i)
    BY DEF Twinned
  <1>5. Request(r)'
    BY <1>1, <1>2, <1>3 DEF Request
  <1>6. overlap' \subseteq Rows /\ overlap \subseteq overlap' /\ registered \subseteq Email
    BY <1>1 DEF AccountsInv, AccountsTypeOK, Rows
  <1>7. AccountsTypeOK' /\ Requests'
    BY <1>2, <1>3, <1>5, <1>6, OneRequest
  <1>8. (ParentRevoked /\ EndedRevoked /\ OneSuccessor)'
    BY <1>4, <1>6 DEF AccountsInv, ParentRevoked, EndedRevoked, OneSuccessor, Rows
  <1>9. LogoutEnds'
    <2> SUFFICES ASSUME NEW i \in ended, ~Twinned(i)
                 PROVE  Successors(i) = {} /\ \A q \in Req : Passed(q)' => auth'[q].tok # i
      BY <1>4 DEF LogoutEnds, Successors
    <2>1. Successors(i) = {} /\ \A q \in Req : Passed(q) => auth[q].tok # i
      BY DEF AccountsInv, LogoutEnds
    <2>2. t # i
      BY DEF AccountsInv, EndedRevoked
    <2>3. QED
      BY <1>2, <1>3, <2>1, <2>2 DEF Passed
  <1>10. OneHolder'
    <2> SUFFICES ASSUME NEW p \in Req, Passed(p)', auth'[p].tok \notin overlap', ~Twinned(auth'[p].tok)
                 PROVE  /\ \A q \in Req : Passed(q)' /\ auth'[q].tok = auth'[p].tok => q = p
                        /\ \A k \in Rows : tokens[k].from # auth'[p].tok
      BY <1>4 DEF OneHolder, Rows
    \* Of another request past its check with the token, overlap would tell.
    <2>1. ASSUME NEW q \in Req \ {r}, Passed(q)', auth'[q].tok = t, ~Twinned(t)
          PROVE  t \in overlap'
      <3>1. Passed(q) /\ auth[q].tok = t /\ Request(q)
        BY <1>3, <2>1 DEF Passed, AccountsInv, Requests
      <3>2. auth[q].pc = "revoke"
        BY <2>1, <3>1 DEF Passed, Request
      <3>3. QED
        BY <3>1, <3>2 DEF At
    <2>2. CASE p = r
      <3>1. \A k \in Rows : tokens[k].from # t
        BY <1>1, <1>2, <1>3, <2>2 DEF AccountsInv, ParentRevoked, Request
      <3>2. QED
        BY <1>2, <1>3, <2>1, <2>2, <3>1
    <2>3. CASE p # r
      <3>1. auth'[p] = auth[p] /\ Passed(p) /\ auth[p].tok # t
        BY <1>3, <2>1, <2>3 DEF Passed
      <3>2. auth[p].tok \notin overlap /\ ~Twinned(auth[p].tok)
        BY <1>6, <3>1
      <3>3. /\ \A q \in Req : Passed(q) /\ auth[q].tok = auth[p].tok => q = p
            /\ \A k \in Rows : tokens[k].from # auth[p].tok
        BY <3>1, <3>2 DEF AccountsInv, OneHolder
      <3>4. ASSUME NEW q \in Req, Passed(q)', auth'[q].tok = auth'[p].tok PROVE q = p
        <4>1. q # r
          BY <1>2, <1>3, <3>1, <3>4
        <4>2. QED
          BY <1>3, <3>1, <3>3, <3>4, <4>1 DEF Passed
      <3>5. QED
        BY <3>1, <3>3, <3>4
    <2>4. QED
      BY <2>2, <2>3
  <1>11. QED
    BY <1>7, <1>8, <1>9, <1>10 DEF AccountsInv

LEMMA CheckTokenStep ==
  ASSUME AccountsInv, NEW r \in Req, CheckToken(r)
  PROVE  AccountsInv'
  <1>1. PICK k \in Rows :
          /\ tokens[k].jti = tokens[auth[r].tok].jti
          /\ tokens[k].user = auth[r].user
          /\ IF Valid(k) THEN Go(r, "revoke") ELSE Answer(r)
          /\ overlap' = IF Valid(k) /\ \E q \in Req \ {r} : At(q, "revoke") /\ auth[q].tok = auth[r].tok
                        THEN overlap \cup {auth[r].tok} ELSE overlap
    BY DEF CheckToken, Rows
  <1>2. At(r, "check") /\ UNCHANGED <<registered, tokens, clock, ended>>
    BY DEF CheckToken
  <1>3. auth[r].tok \in Rows /\ tokens[auth[r].tok].user = auth[r].user
    BY <1>2, Types DEF AccountsInv, Stage, At, Requests, Request
  <1>4. CASE Valid(k)
    <2>1. Twinned(auth[r].tok) \/ ~tokens[auth[r].tok].revoked
      BY <1>1, <1>3, <1>4 DEF Twinned, Valid, Rows
    <2>2. QED
      BY <1>1, <1>2, <1>4, <2>1, PassStep
  <1>5. CASE ~Valid(k)
    BY <1>1, <1>2, <1>5, AnswerStep
  <1>6. QED
    BY <1>4, <1>5

\* The rows after a revocation.
LEMMA RevokeKeeps ==
  ASSUME AccountsInv, NEW i \in Rows, tokens' = Revoked(i), UNCHANGED overlap
  PROVE  /\ Rows' = Rows
         /\ \A k \in Rows :
               /\ tokens'[k].jti = tokens[k].jti /\ tokens'[k].user = tokens[k].user
               /\ tokens'[k].from = tokens[k].from
               /\ tokens[k].revoked => tokens'[k].revoked
         /\ tokens'[i].revoked
         /\ \A k \in Rows : Twinned(k)' <=> Twinned(k)
         /\ \A k : Successors(k)' = Successors(k)
         /\ (ParentRevoked /\ OneSuccessor)'
  <1>1. AccountsTypeOK /\ ParentRevoked /\ OneSuccessor
    BY DEF AccountsInv
  <1>2. Rows' = Rows
    BY <1>1, RevokedRows DEF Rows
  <1>3. \A k \in Rows :
           /\ tokens'[k].jti = tokens[k].jti /\ tokens'[k].user = tokens[k].user
           /\ tokens'[k].from = tokens[k].from /\ tokens'[k].revoked \in BOOLEAN
           /\ tokens'[k].revoked <=> tokens[k].revoked \/ tokens[k].jti = tokens[i].jti
    BY <1>1, RevokedRows
  <1>4. tokens'[i].revoked /\ \A k \in Rows : tokens[k].revoked => tokens'[k].revoked
    BY <1>3
  <1>5. \A k \in Rows : Twinned(k)' <=> Twinned(k)
    BY <1>2, <1>3 DEF Twinned, Rows
  <1>6. \A k : Successors(k)' = Successors(k)
    BY <1>2, <1>3 DEF Successors, Rows
  <1>7. ParentRevoked'
    <2> SUFFICES ASSUME NEW k \in Rows, tokens[k].from # None
                 PROVE  tokens'[tokens[k].from].revoked
      BY <1>2, <1>3 DEF ParentRevoked
    <2>1. tokens[tokens[k].from].revoked /\ tokens[k].from \in Rows
      BY <1>1, Parents DEF ParentRevoked
    <2>2. QED
      BY <1>4, <2>1
  <1>8. OneSuccessor'
    <2> SUFFICES ASSUME NEW j \in Rows, NEW k \in Rows, tokens[j].from = tokens[k].from,
                        tokens[j].from \notin {None} \cup overlap, ~Twinned(tokens[j].from)'
                 PROVE  j = k
      BY <1>2, <1>3 DEF OneSuccessor, Rows
    <2>1. tokens'[j].from = tokens[j].from /\ tokens[j].from \in Rows
      BY <1>1, <1>3, Parents
    <2>2. ~Twinned(tokens[j].from)
      BY <1>5, <2>1
    <2>3. QED
      BY <1>1, <2>2 DEF OneSuccessor, Rows
  <1>9. QED
    BY <1>2, <1>3, <1>4, <1>5, <1>6, <1>7, <1>8

\* The types and what the requests know, after a revocation.
LEMMA RevokeTypes ==
  ASSUME AccountsInv, NEW i \in Rows, tokens' = Revoked(i),
         UNCHANGED <<registered, clock, overlap>>,
         ended' \subseteq Rows, auth' \in [Req -> Stage]
  PROVE  AccountsTypeOK'
  <1>1. /\ AccountsTypeOK /\ Rows' = Rows
        /\ \A k \in Rows : tokens'[k].user = tokens[k].user /\ tokens'[k].from = tokens[k].from
    BY RevokeKeeps DEF AccountsInv
  <1>2. tokens' \in Seq(TokenRow) /\ Len(tokens') = Len(tokens)
    BY <1>1, RevokedRows
  <1>3. auth' \in [Req -> [pc : {"idle", "check", "revoke", "user", "mint", "insert"},
                           user : Email \cup {None}, tok : {None} \cup DOMAIN tokens',
                           jti : 0..clock']]
    BY <1>1 DEF Rows, Stage
  <1>4. ASSUME NEW k \in Rows
        PROVE  /\ tokens'[k].user \in registered
               /\ tokens'[k].from \in 0..(k - 1)
               /\ tokens'[k].from # None => tokens'[tokens'[k].from].user = tokens'[k].user
    <2>1. /\ tokens[k].user \in registered /\ tokens[k].from \in 0..(k - 1)
          /\ tokens[k].from # None => tokens[tokens[k].from].user = tokens[k].user
      BY <1>1 DEF AccountsTypeOK, Rows
    <2>2. tokens[k].from # None => tokens[k].from \in Rows
      BY <1>1, Parents
    <2>3. QED
      BY <1>1, <2>1, <2>2
  <1>5. overlap \subseteq Rows' /\ ended' \subseteq Rows'
    BY <1>1 DEF AccountsTypeOK, Rows
  <1>6. registered' \subseteq Email /\ Len(tokens') <= MaxTokens /\ clock' \in 0..MaxTime
    BY <1>1, <1>2 DEF AccountsTypeOK
  <1>7. QED
    BY <1>1, <1>2, <1>3, <1>4, <1>5, <1>6 DEF AccountsTypeOK, Rows

\* A token that was revoked under a request stays so.
LEMMA RevokeRequest ==
  ASSUME AccountsInv, NEW i \in Rows, tokens' = Revoked(i), UNCHANGED <<registered, overlap>>,
         NEW q \in Req, auth'[q] = auth[q]
  PROVE  Request(q)'
  <1>1. Request(q) /\ auth[q] \in Stage
    BY Types DEF AccountsInv, Requests
  <1>2. auth[q].tok # None => auth[q].tok \in Rows
    BY <1>1 DEF Stage
  <1>3. auth[q].tok # None =>
          /\ tokens'[auth[q].tok].user = tokens[auth[q].tok].user
          /\ tokens[auth[q].tok].revoked => tokens'[auth[q].tok].revoked
    BY <1>2, RevokeKeeps
  <1>4. QED
    BY <1>1, <1>3 DEF Request

\* Nor does a revocation take a request past its check.
LEMMA RevokeHolders ==
  ASSUME AccountsInv, NEW i \in Rows, tokens' = Revoked(i), UNCHANGED overlap,
         \A q \in Req : (Passed(q)' <=> Passed(q)) /\ auth'[q].tok = auth[q].tok
  PROVE  OneHolder'
  <1> SUFFICES ASSUME NEW p \in Req, Passed(p), auth[p].tok \notin overlap, ~Twinned(auth[p].tok)'
               PROVE  /\ \A q \in Req : Passed(q) /\ auth[q].tok = auth[p].tok => q = p
                      /\ \A k \in Rows : tokens[k].from # auth[p].tok
    <2>1. Rows' = Rows /\ \A k \in Rows : tokens'[k].from = tokens[k].from
      BY RevokeKeeps
    <2>2. QED
      BY <2>1 DEF OneHolder
  <1>1. auth[p].tok \in Rows
    BY Types DEF AccountsInv, Stage, Passed
  <1>2. ~Twinned(auth[p].tok)
    BY <1>1, RevokeKeeps
  <1>3. QED
    BY <1>2 DEF AccountsInv, OneHolder

LEMMA RevokeTokenStep ==
  ASSUME AccountsInv, NEW r \in Req, RevokeToken(r)
  PROVE  AccountsInv'
  <1> DEFINE e == [auth[r] EXCEPT !.pc = "user"]
             t == auth[r].tok
  <1>1. auth[r] \in Stage /\ auth[r].pc = "revoke" /\ Request(r)
    BY Types DEF AccountsInv, At, Requests, RevokeToken
  <1>2. t \in Rows /\ t # None
    BY <1>1 DEF Request, Stage
  <1>3. tokens' = Revoked(t) /\ UNCHANGED <<registered, clock, overlap, ended>>
    BY DEF RevokeToken
  <1>4. e \in Stage /\ e.pc = "user" /\ e.user = auth[r].user /\ e.tok = t
    BY <1>1 DEF Stage
  <1>5. /\ auth' = [auth EXCEPT ![r] = e] /\ auth'[r] = e
        /\ auth' \in [Req -> Stage] /\ \A q \in Req \ {r} : auth'[q] = auth[q]
    BY <1>4, Types DEF AccountsInv, RevokeToken, Go
  <1> HIDE DEF e
  <1>6. ended \subseteq Rows
    BY DEF AccountsInv, AccountsTypeOK, Rows
  <1>7. AccountsTypeOK'
    BY <1>2, <1>3, <1>5, <1>6, RevokeTypes
  <1>8. /\ tokens'[t].user = tokens[t].user /\ tokens'[t].revoked
        /\ \A k \in Rows : (tokens[k].revoked => tokens'[k].revoked) /\ (Twinned(k)' <=> Twinned(k))
        /\ \A k : Successors(k)' = Successors(k)
        /\ (ParentRevoked /\ OneSuccessor)'
    BY <1>2, <1>3, RevokeKeeps
  <1>9. Request(r)'
    BY <1>1, <1>2, <1>3, <1>4, <1>5, <1>8 DEF Request
  <1>10. Requests'
    BY <1>2, <1>3, <1>5, <1>9, RevokeRequest DEF Requests
  <1>11. \A q \in Req : (Passed(q)' <=> Passed(q)) /\ auth'[q].tok = auth[q].tok
    BY <1>1, <1>4, <1>5 DEF Passed
  <1>12. OneHolder'
    BY <1>2, <1>3, <1>11, RevokeHolders
  <1>13. EndedRevoked' /\ LogoutEnds'
    BY <1>3, <1>6, <1>8, <1>11 DEF AccountsInv, EndedRevoked, LogoutEnds
  <1>14. QED
    BY <1>7, <1>8, <1>10, <1>12, <1>13 DEF AccountsInv

LEMMA LogoutStep ==
  ASSUME AccountsInv, NEW i \in Rows, Logout(i)
  PROVE  AccountsInv'
  <1>1. /\ tokens' = Revoked(i) /\ UNCHANGED <<registered, clock, overlap>> /\ auth' = auth
        /\ ended' = IF Successors(i) = {} /\ \A r \in Req : Passed(r) => auth[r].tok # i
                    THEN ended \cup {i} ELSE ended
    BY DEF Logout
  <1>2. ended' \subseteq Rows /\ ended \subseteq Rows
    BY <1>1 DEF AccountsInv, AccountsTypeOK, Rows
  <1>3. AccountsTypeOK'
    BY <1>1, <1>2, Types, RevokeTypes DEF AccountsInv
  <1>4. Requests'
    BY <1>1, RevokeRequest DEF Requests
  <1>5. /\ \A k \in Rows : (tokens[k].revoked => tokens'[k].revoked) /\ (Twinned(k)' <=> Twinned(k))
        /\ \A k : Successors(k)' = Successors(k)
        /\ tokens'[i].revoked /\ (ParentRevoked /\ OneSuccessor)'
    BY <1>1, RevokeKeeps
  <1>6. OneHolder'
    BY <1>1, RevokeHolders DEF Passed
  <1>7. EndedRevoked'
    BY <1>1, <1>2, <1>5 DEF AccountsInv, EndedRevoked
  <1>8. LogoutEnds'
    <2> SUFFICES ASSUME NEW k \in ended', ~Twinned(k)
                 PROVE  Successors(k) = {} /\ \A r \in Req : Passed(r) => auth[r].tok # k
      BY <1>1, <1>2, <1>5 DEF LogoutEnds, Passed
    <2>1. CASE k \in ended
      BY <2>1 DEF AccountsInv, LogoutEnds
    <2>2. CASE k \notin ended
      BY <1>1, <2>2
    <2>3. QED
      BY <2>1, <2>2
  <1>9. QED
    BY <1>3, <1>4, <1>5, <1>6, <1>7, <1>8 DEF AccountsInv

\* The next token, the only one made from the token its request holds unless
\* that one has a twin.
LEMMA IssueTokenStep ==
  ASSUME AccountsInv, NEW r \in Req, IssueToken(r)
  PROVE  AccountsInv'
  <1> DEFINE t == auth[r].tok
             n == Len(tokens) + 1
  <1>1. /\ AccountsTypeOK /\ ParentRevoked /\ EndedRevoked /\ OneHolder /\ OneSuccessor
        /\ LogoutEnds /\ tokens \in Seq(TokenRow) /\ clock \in Nat
    BY Types DEF AccountsInv
  <1>2. auth[r] \in Stage /\ auth[r].pc = "insert" /\ Request(r)
    BY Types DEF AccountsInv, At, Requests, IssueToken
  <1>3. /\ auth[r].user \in registered /\ auth[r].user \in Email /\ t \in {None} \cup Rows
        /\ auth[r].jti \in 0..clock
    BY <1>1, <1>2 DEF Request, Stage, AccountsTypeOK
  <1>a. PICK c \in auth[r].jti..clock : tokens' = Append(tokens, NewToken(r, c + Ttl))
    BY DEF IssueToken
  <1> DEFINE row == NewToken(r, c + Ttl)
  <1>4. row \in TokenRow
    <2>1. auth[r].jti \in Nat /\ c + Ttl \in Nat /\ t \in Nat
      BY <1>1, <1>3, AccountsAssumption DEF AccountsAssumption, Rows, None
    <2>2. QED
      BY <1>1, <1>3, <2>1 DEF TokenRow, NewToken
  <1>5. /\ tokens' = Append(tokens, row) /\ Len(tokens) < MaxTokens
        /\ UNCHANGED <<registered, clock, overlap, ended>>
    BY <1>a DEF IssueToken
  <1>6. row.user = auth[r].user /\ row.from = t
    BY DEF NewToken
  <1> HIDE DEF row
  <1>7. /\ tokens' \in Seq(TokenRow) /\ Len(tokens') = n /\ Rows = 1..Len(tokens)
        /\ Rows' = Rows \cup {n} /\ n \notin Rows /\ tokens'[n] = row
        /\ \A k \in Rows : tokens'[k] = tokens[k]
    BY <1>1, <1>4, <1>5, AppendedRow DEF Rows
  <1>8. n \in Nat /\ n # None
    BY <1>1 DEF None
  <1> HIDE DEF n
  <1>9. Idle \in Stage /\ Idle.pc = "idle" /\ Idle.tok = None
    BY <1>1 DEF Stage, Idle
  <1>10. /\ auth' \in [Req -> Stage] /\ auth'[r] = Idle /\ \A q \in Req \ {r} : auth'[q] = auth[q]
    BY <1>9, Types DEF AccountsInv, IssueToken, Answer
  <1>11. AccountsTypeOK'
    <2>1. auth' \in [Req -> [pc : {"idle", "check", "revoke", "user", "mint", "insert"},
                             user : Email \cup {None}, tok : {None} \cup DOMAIN tokens',
                             jti : 0..clock]]
      <3>1. \A q \in Req : auth'[q] \in [pc : {"idle", "check", "revoke", "user", "mint", "insert"},
                             user : Email \cup {None}, tok : {None} \cup Rows', jti : 0..clock]
        BY <1>7, <1>10 DEF Stage
      <3>2. QED
        BY <1>10, <3>1 DEF Rows
    <2>2. ASSUME NEW k \in Rows
          PROVE  /\ tokens[k].user \in registered /\ tokens[k].from \in 0..(k - 1)
                 /\ tokens[k].from # None =>
                      tokens[k].from \in Rows /\ tokens[tokens[k].from].user = tokens[k].user
      <3>1. /\ tokens[k].user \in registered /\ tokens[k].from \in 0..(k - 1)
            /\ tokens[k].from # None => tokens[tokens[k].from].user = tokens[k].user
        BY <1>1 DEF AccountsTypeOK, Rows
      <3>2. k \in 1..Len(tokens) /\ Len(tokens) \in Nat
        BY <1>1, <1>7
      <3>3. tokens[k].from # None => tokens[k].from \in 1..Len(tokens)
        BY <3>1, <3>2 DEF None
      <3>4. QED
        BY <1>7, <3>1, <3>3
    <2>3. \A k \in Rows :
              /\ tokens'[k].user \in registered /\ tokens'[k].from \in 0..(k - 1)
              /\ tokens'[k].from # None => tokens'[tokens'[k].from].user = tokens'[k].user
      BY <1>7, <2>2
    <2>4. /\ row.user \in registered /\ row.from \in 0..(n - 1)
          /\ row.from # None => tokens'[row.from].user = row.user
      <3>1. row.from \in 0..(n - 1)
        BY <1>1, <1>3, <1>6, <1>7 DEF n, None
      <3>2. row.from # None => tokens'[row.from].user = row.user
        BY <1>2, <1>3, <1>6, <1>7 DEF Request
      <3>3. QED
        BY <1>3, <1>6, <3>1, <3>2
    <2>5. \A k \in Rows' :
              /\ tokens'[k].user \in registered /\ tokens'[k].from \in 0..(k - 1)
              /\ tokens'[k].from # None => tokens'[tokens'[k].from].user = tokens'[k].user
      BY <1>7, <2>3, <2>4
    <2>6. Len(tokens') <= MaxTokens
      BY <1>1, <1>5, <1>7, AccountsAssumption DEF AccountsAssumption, n
    <2>7. overlap \subseteq Rows' /\ ended \subseteq Rows'
      BY <1>1, <1>7 DEF AccountsTypeOK, Rows
    <2>8. registered \subseteq Email /\ clock \in 0..MaxTime
      BY <1>1 DEF AccountsTypeOK
    <2>9. QED
      BY <1>5, <1>7, <2>1, <2>5, <2>6, <2>7, <2>8 DEF AccountsTypeOK, Rows
  <1>12. \A k \in Rows : Twinned(k) => Twinned(k)'
    <2> SUFFICES ASSUME NEW k \in Rows, Twinned(k) PROVE Twinned(k)'
      OBVIOUS
    <2>1. PICK i \in Rows \ {k} : tokens[i].user = tokens[k].user /\ tokens[i].jti = tokens[k].jti
      BY DEF Twinned, Rows
    <2>2. i \in Rows' \ {k} /\ tokens'[i].user = tokens'[k].user /\ tokens'[i].jti = tokens'[k].jti
      BY <1>7, <2>1
    <2>3. QED
      BY <2>2 DEF Twinned, Rows
  <1>13. ParentRevoked' /\ EndedRevoked'
    <2>1. ASSUME NEW k \in Rows, tokens[k].from # None PROVE tokens'[tokens[k].from].revoked
      BY <1>1, <1>7, <2>1, Parents DEF ParentRevoked
    <2>2. t # None => tokens'[t].revoked
      BY <1>2, <1>3, <1>7 DEF Request
    <2>3. EndedRevoked'
      BY <1>1, <1>5, <1>7 DEF AccountsTypeOK, EndedRevoked, Rows
    <2>4. QED
      BY <1>6, <1>7, <2>1, <2>2, <2>3 DEF ParentRevoked
  <1>14. Requests'
    <2> SUFFICES ASSUME NEW q \in Req PROVE Request(q)'
      BY DEF Requests
    <2>1. CASE q = r
      BY <1>9, <1>10, <2>1 DEF Request
    <2>2. CASE q # r
      <3>1. auth'[q] = auth[q] /\ Request(q) /\ auth[q] \in Stage
        BY <1>10, <2>2, Types DEF AccountsInv, Requests
      <3>2. auth[q].tok # None => auth[q].tok \in Rows
        BY <3>1 DEF Stage
      <3>3. auth[q].tok # None => tokens'[auth[q].tok] = tokens[auth[q].tok]
        BY <1>7, <3>2
      <3>4. QED
        BY <1>5, <3>1, <3>3 DEF Request
    <2>3. QED
      BY <2>1, <2>2
  <1>15. Passed(r) <=> t # None
    BY <1>2 DEF Passed
  <1>16. OneHolder'
    <2> SUFFICES ASSUME NEW p \in Req, Passed(p)', auth'[p].tok \notin overlap, ~Twinned(auth[p].tok)'
                 PROVE  /\ \A q \in Req : Passed(q)' /\ auth'[q].tok = auth'[p].tok => q = p
                        /\ \A k \in Rows' : tokens'[k].from # auth'[p].tok
      BY <1>5 DEF OneHolder
    <2>1. p # r /\ Passed(p) /\ auth'[p].tok = auth[p].tok /\ auth[p].tok # None
      BY <1>9, <1>10 DEF Passed
    <2>2. auth[p].tok \in Rows
      BY <2>1, Types DEF AccountsInv, Stage
    <2>3. /\ \A q \in Req : Passed(q) /\ auth[q].tok = auth[p].tok => q = p
          /\ \A k \in Rows : tokens[k].from # auth[p].tok
      BY <1>1, <1>12, <2>1, <2>2 DEF OneHolder
    <2>4. t # auth[p].tok
      BY <1>15, <2>1, <2>3
    <2>5. \A q \in Req : Passed(q)' => Passed(q) /\ auth'[q].tok = auth[q].tok
      BY <1>9, <1>10 DEF Passed
    <2>6. \A k \in Rows' : tokens'[k].from # auth[p].tok
      BY <1>6, <1>7, <2>3, <2>4
    <2>7. QED
      BY <2>1, <2>3, <2>5, <2>6
  <1>17. OneSuccessor'
    <2> SUFFICES ASSUME NEW j \in Rows', NEW k \in Rows', tokens'[j].from = tokens'[k].from,
                        tokens'[j].from \notin {None} \cup overlap, ~Twinned(tokens[j].from)'
                 PROVE  j = k
      BY <1>5 DEF OneSuccessor, Rows
    <2>1. tokens'[j].from \in Rows
      BY <1>1, <1>3, <1>6, <1>7, Parents
    <2>2. ~Twinned(tokens'[j].from)
      BY <1>12, <2>1
    <2>3. tokens'[j].from = t => \A i \in Rows : tokens[i].from # t
      BY <1>1, <1>15, <2>2 DEF OneHolder
    <2>4. CASE j \in Rows /\ k \in Rows
      <3>1. tokens'[j] = tokens[j] /\ tokens'[k] = tokens[k]
        BY <1>7, <2>4
      <3>2. QED
        BY <1>1, <2>2, <2>4, <3>1 DEF OneSuccessor, Rows
    <2>5. CASE j = n /\ k \in Rows
      BY <1>6, <1>7, <2>3, <2>5
    <2>6. CASE k = n /\ j \in Rows
      BY <1>6, <1>7, <2>3, <2>6
    <2>7. QED
      BY <1>7, <2>4, <2>5, <2>6
  <1>18. LogoutEnds'
    <2> SUFFICES ASSUME NEW i \in ended, ~Twinned(i)'
                 PROVE  Successors(i)' = {} /\ \A q \in Req : Passed(q)' => auth'[q].tok # i
      BY <1>5 DEF LogoutEnds
    <2>1. i \in Rows /\ ~Twinned(i)
      BY <1>1, <1>12 DEF AccountsTypeOK, Rows
    <2>2. Successors(i) = {} /\ \A q \in Req : Passed(q) => auth[q].tok # i
      BY <1>1, <2>1 DEF LogoutEnds
    <2>3. t # i
      BY <1>8, <1>15, <2>1, <2>2, Types DEF AccountsInv
    <2>4. \A k \in Rows' : tokens'[k].from # i
      BY <1>6, <1>7, <2>2, <2>3 DEF Successors, Rows
    <2>5. \A q \in Req : Passed(q)' => Passed(q) /\ auth'[q].tok = auth[q].tok
      BY <1>9, <1>10 DEF Passed
    <2>6. QED
      BY <2>2, <2>4, <2>5 DEF Successors, Rows
  <1>19. QED
    BY <1>11, <1>13, <1>14, <1>16, <1>17, <1>18 DEF AccountsInv

-----------------------------------------------------------------------------
(* The invariant and what follows *)

LEMMA NextInv ==
  ASSUME AccountsInv, [AccountsNext]_accountsVars
  PROVE  AccountsInv'
  <1>1. CASE Tick
    BY <1>1, TickStep
  <1>2. ASSUME NEW r \in Req, NEW u \in Email, Register(r, u) \/ Login(r, u)
        PROVE  AccountsInv'
    <2>1. registered \subseteq Email
      BY DEF AccountsInv, AccountsTypeOK
    <2>2. QED
      BY <1>2, <2>1, SignInStep DEF Register, Login
  <1>3. ASSUME NEW r \in Req, NEW i \in Rows, StartRefresh(r, i) PROVE AccountsInv'
    BY <1>3, StartRefreshStep
  <1>4. ASSUME NEW r \in Req, CheckToken(r) PROVE AccountsInv'
    BY <1>4, CheckTokenStep
  <1>5. ASSUME NEW r \in Req, RevokeToken(r) PROVE AccountsInv'
    BY <1>5, RevokeTokenStep
  <1>6. ASSUME NEW r \in Req, ReadUser(r) PROVE AccountsInv'
    BY <1>6, ReadUserStep
  <1>7. ASSUME NEW r \in Req, IssueToken(r) PROVE AccountsInv'
    BY <1>7, IssueTokenStep
  <1>m. ASSUME NEW r \in Req, MintToken(r) PROVE AccountsInv'
    BY <1>m, MintTokenStep
  <1>8. ASSUME NEW r \in Req, FailAuth(r) PROVE AccountsInv'
    BY <1>8, AnswerStep DEF FailAuth
  <1>9. ASSUME NEW i \in Rows, Logout(i) PROVE AccountsInv'
    BY <1>9, LogoutStep
  <1>10. CASE UNCHANGED accountsVars
    <2>1. UNCHANGED <<registered, tokens, clock, auth, overlap, ended>>
      BY <1>10 DEF accountsVars
    <2>2. (ParentRevoked /\ EndedRevoked /\ OneHolder /\ OneSuccessor /\ LogoutEnds)'
      BY <2>1, NoneFurther DEF Passed
    <2>3. AccountsTypeOK' /\ Requests'
      BY <2>1 DEF AccountsInv, AccountsTypeOK, Requests, Request
    <2>4. QED
      BY <2>2, <2>3 DEF AccountsInv
  <1>11. QED
    BY <1>1, <1>2, <1>3, <1>4, <1>5, <1>6, <1>7, <1>m, <1>8, <1>9, <1>10 DEF AccountsNext, Rows

LEMMA AccountsInvariant == AccountsSpec => []AccountsInv
  <1>1. AccountsInit => AccountsInv
    BY InitInv
  <1>2. AccountsInv /\ [AccountsNext]_accountsVars => AccountsInv'
    BY NextInv
  <1>3. QED
    BY <1>1, <1>2, PTL DEF AccountsSpec

\* Rows, requests and references keep their types: who holds a token has an
\* account, and a token comes from a sign-in or an earlier token of its user.
THEOREM AccountsTypeCorrect == AccountsSpec => []AccountsTypeOK
  <1>1. AccountsInv => AccountsTypeOK
    BY DEF AccountsInv
  <1>2. QED
    BY <1>1, AccountsInvariant, PTL

\* Rotation, for any number of users and requests: a token without a twin that
\* no two refreshes had both checked before either revoked it is exchanged once.
THEOREM RefreshRotates == AccountsSpec => []OneSuccessor
  <1>1. AccountsInv => OneSuccessor
    BY DEF AccountsInv
  <1>2. QED
    BY <1>1, AccountsInvariant, PTL

\* A session whose token was logged out before any refresh of it passed the
\* check, and has no twin, is over: no request ever gets past the check with it.
THEOREM LogoutsEndSessions == AccountsSpec => []LogoutEnds
  <1>1. AccountsInv => LogoutEnds
    BY DEF AccountsInv
  <1>2. QED
    BY <1>1, AccountsInvariant, PTL
=============================================================================
