------------------------------ MODULE Accounts ------------------------------
(***************************************************************************)
(* Accounts and refresh tokens: service/auth_service.go with its handler,  *)
(* the part of user_repo.go that it calls, and the refresh tokens of       *)
(* pkg/jwt.                                                                *)
(*                                                                         *)
(* A refresh is four statements in a row: check, revoke, read the user and *)
(* insert the next token.  A token is named by the nanosecond it was       *)
(* minted in, some time before its row is inserted, and no index makes     *)
(* that name unique.  Access tokens are stateless and are left out;        *)
(* whoever signs in knows the password.                                    *)
(***************************************************************************)
EXTENDS Rest

CONSTANTS
    Email,      \* trimmed and lower-case; one account each
    Ttl,        \* life of a refresh token, in ticks of the clock
    MaxTime,    \* bound on the clock
    MaxTokens   \* bound on the rows of refresh_tokens, past which no request
                \* is taken

ASSUME AccountsAssumption == Ttl \in Nat /\ MaxTime \in Nat /\ MaxTokens \in Nat

VARIABLES
    registered, \* the users with a row
    tokens,     \* rows of refresh_tokens; from: the row whose refresh made it
    clock,
    auth,       \* what each request is at
    overlap,    \* tokens that two refreshes had checked before either revoked it
    ended       \* tokens that a logout revoked before any refresh passed its
                \* check with them

accountsVars == <<registered, tokens, clock, auth, overlap, ended>>

\* No user, no token presented, and where the token of a sign-in comes from.
None == 0

Idle == [pc |-> "idle", user |-> None, tok |-> None, jti |-> 0]

AccountsInit ==
    /\ registered = {}
    /\ tokens = <<>>
    /\ clock = 0
    /\ auth = [r \in Req |-> Idle]
    /\ overlap = {}
    /\ ended = {}

At(r, pc) == auth[r].pc = pc
Go(r, pc) == auth' = [auth EXCEPT ![r].pc = pc]
Answer(r) == auth' = [auth EXCEPT ![r] = Idle]
SignIn(r, u) == auth' = [auth EXCEPT ![r] = [Idle EXCEPT !.pc = "mint", !.user = u]]

\* Time passes between any two steps.
Tick ==
    /\ clock < MaxTime
    /\ clock' = clock + 1
    /\ UNCHANGED <<registered, tokens, auth, overlap, ended>>

Free(r) == At(r, "idle") /\ Len(tokens) < MaxTokens

\* Mutant: the row of the user is not written.
RegisterUnsaved(r, u) ==
    /\ Free(r)
    /\ u \notin registered
    /\ SignIn(r, u)
    /\ UNCHANGED <<registered, tokens, clock, overlap, ended>>

\* An email that has a row already is refused and nothing changes.
Register(r, u) ==
    /\ Free(r)
    /\ u \notin registered
    /\ registered' = registered \cup {u}
    /\ SignIn(r, u)
    /\ UNCHANGED <<tokens, clock, overlap, ended>>

Login(r, u) ==
    /\ Free(r)
    /\ u \in registered
    /\ SignIn(r, u)
    /\ UNCHANGED <<registered, tokens, clock, overlap, ended>>

\* The signature and the expiry of the token itself; a token comes back
\* later than the nanosecond it was minted in.
Presents(i) == tokens[i].jti < clock /\ clock <= tokens[i].jti + Ttl

StartRefresh(r, i) ==
    /\ Free(r)
    /\ Presents(i)
    /\ auth' = [auth EXCEPT ![r] = [Idle EXCEPT !.pc = "check", !.user = tokens[i].user, !.tok = i]]
    /\ UNCHANGED <<registered, tokens, clock, overlap, ended>>

\* Mutant: the check looks at the expiry only.
StillValid(k) == clock < tokens[k].till

Valid(k) == ~tokens[k].revoked /\ clock < tokens[k].till

\* IsRefreshTokenValid reads the first row of this user with this name.
CheckToken(r) ==
    /\ At(r, "check")
    /\ \E k \in DOMAIN tokens :
          /\ tokens[k].jti = tokens[auth[r].tok].jti
          /\ tokens[k].user = auth[r].user
          /\ IF Valid(k) THEN Go(r, "revoke") ELSE Answer(r)
          /\ overlap' = IF Valid(k) /\ \E q \in Req \ {r} : At(q, "revoke") /\ auth[q].tok = auth[r].tok
                        THEN overlap \cup {auth[r].tok} ELSE overlap
    /\ UNCHANGED <<registered, tokens, clock, ended>>

\* Every row with the name, whoever's it is.
Revoked(i) ==
    [k \in DOMAIN tokens |->
        [tokens[k] EXCEPT !.revoked = @ \/ tokens[k].jti = tokens[i].jti]]

\* Mutant: the old token stays as it was.
KeepToken(r) ==
    /\ At(r, "revoke")
    /\ Go(r, "user")
    /\ UNCHANGED <<registered, tokens, clock, overlap, ended>>

RevokeToken(r) ==
    /\ At(r, "revoke")
    /\ tokens' = Revoked(auth[r].tok)
    /\ Go(r, "user")
    /\ UNCHANGED <<registered, clock, overlap, ended>>

ReadUser(r) ==
    /\ At(r, "user")
    /\ IF auth[r].user \in registered THEN Go(r, "mint") ELSE Answer(r)
    /\ UNCHANGED <<registered, tokens, clock, overlap, ended>>

\* GenerateRefreshToken: the token is named and signed.
MintToken(r) ==
    /\ At(r, "mint")
    /\ auth' = [auth EXCEPT ![r].pc = "insert", ![r].jti = clock]
    /\ UNCHANGED <<registered, tokens, clock, overlap, ended>>

NewToken(r, t) ==
    [user |-> auth[r].user, jti |-> auth[r].jti, till |-> t, revoked |-> FALSE,
     from |-> auth[r].tok]

\* The expiry of the row is taken from the clock once more, then the row is
\* inserted and the tokens are answered.
IssueToken(r) ==
    /\ At(r, "insert")
    /\ Len(tokens) < MaxTokens
    /\ \E t \in auth[r].jti..clock : tokens' = Append(tokens, NewToken(r, t + Ttl))
    /\ Answer(r)
    /\ UNCHANGED <<registered, clock, overlap, ended>>

\* Any statement may fail: what was done before stays done.
FailAuth(r) ==
    /\ DbFails
    /\ ~At(r, "idle")
    /\ Answer(r)
    /\ UNCHANGED <<registered, tokens, clock, overlap, ended>>

\* A request that holds a token and is past its check.
Passed(r) == auth[r].pc \in {"revoke", "user", "mint", "insert"} /\ auth[r].tok # None

Successors(i) == {k \in DOMAIN tokens : tokens[k].from = i}

\* A logout whose statement fails is answered the same and changes nothing.
Logout(i) ==
    /\ Presents(i)
    /\ tokens' = Revoked(i)
    /\ ended' = IF Successors(i) = {} /\ \A r \in Req : Passed(r) => auth[r].tok # i
                THEN ended \cup {i} ELSE ended
    /\ UNCHANGED <<registered, clock, auth, overlap>>

AccountsNext ==
    \/ Tick
    \/ \E r \in Req :
          \/ \E u \in Email : Register(r, u) \/ Login(r, u)
          \/ \E i \in DOMAIN tokens : StartRefresh(r, i)
          \/ CheckToken(r) \/ RevokeToken(r) \/ ReadUser(r) \/ MintToken(r) \/ IssueToken(r)
          \/ FailAuth(r)
    \/ \E i \in DOMAIN tokens : Logout(i)

AccountsSpec == AccountsInit /\ [][AccountsNext]_accountsVars

----------------------------------------------------------------------------
(* Properties *)

TokenRow == [user : Email, jti : Nat, till : Nat, revoked : BOOLEAN, from : Nat]

\* Types, and the references: who is signed in has an account, a token comes
\* from a sign-in or an earlier token of the same user.
AccountsTypeOK ==
    /\ registered \subseteq Email
    /\ tokens \in Seq(TokenRow) /\ Len(tokens) <= MaxTokens
    /\ clock \in 0..MaxTime
    /\ auth \in [Req -> [pc : {"idle", "check", "revoke", "user", "mint", "insert"},
                         user : Email \cup {None}, tok : {None} \cup DOMAIN tokens, jti : 0..clock]]
    /\ overlap \subseteq DOMAIN tokens /\ ended \subseteq DOMAIN tokens
    /\ \A i \in DOMAIN tokens :
          /\ tokens[i].user \in registered
          /\ tokens[i].from \in 0..(i - 1)
          /\ tokens[i].from # None => tokens[tokens[i].from].user = tokens[i].user

\* Two tokens of one user that were minted in the same nanosecond: the check
\* may read the row of the one for the other, and finds it good if it was
\* inserted after the revocation of both.
Twinned(i) ==
    \E k \in DOMAIN tokens \ {i} :
        tokens[k].user = tokens[i].user /\ tokens[k].jti = tokens[i].jti

\* Rotation: a refresh token without a twin is exchanged for at most one
\* other, however refreshes, logouts and failures fall together, unless two
\* refreshes had both checked it before either revoked it.
OneSuccessor ==
    \A j, k \in DOMAIN tokens :
        LET i == tokens[j].from IN
        i = tokens[k].from /\ i \notin {None} \cup overlap /\ ~Twinned(i) => j = k

\* A logout ends the session: if no refresh of its token had passed the check
\* by then, and the token has no twin, none ever will and it is exchanged for
\* no other, whatever requests are in flight or come later.
LogoutEnds ==
    \A i \in ended : ~Twinned(i) =>
        Successors(i) = {} /\ \A r \in Req : Passed(r) => auth[r].tok # i
=============================================================================
