------------------------------- MODULE Sharing -------------------------------
(***************************************************************************)
(* Who may join the room of a canvas: the collaborators and share links of *)
(* a canvas, the share tokens given for a link, and the access checker of  *)
(* main.go that reads them when a user joins.                              *)
(*                                                                         *)
(* The requests of an owner check the ownership and write with a second    *)
(* statement.  An owner never changes and a canvas never comes back, so    *)
(* the write alone decides and is the step here.                           *)
(***************************************************************************)
EXTENDS Rest

CONSTANTS
    Canvas,
    OwnerOf,    \* canvases.owner_id
    Link,       \* ids of share links, each given out once
    Visit,      \* joins and validations that may be in flight together
    TokenTtl,   \* life of a share token: 24 hours, in ticks
    Never,      \* expires_at NULL
    MaxDay      \* bound on the clock

ASSUME SharingAssumption ==
    /\ OwnerOf \in [Canvas -> User]
    /\ TokenTtl \in Nat /\ MaxDay \in Nat /\ Never \notin Nat

Permission == {"readonly", "collaborate"}
NoPermission == "none"

VARIABLES
    canvases,   \* the canvases with a row
    collab,     \* rows of canvas_collaborators, one at most for canvas and user
    links,      \* rows of share_links
    row,        \* what the row of each link says, or said
    gone,       \* when the row of a link was deleted
    shareTokens, \* the share tokens given out, with their link
    day,
    ask         \* what each join or validation is at

sharingVars == <<canvases, collab, links, row, gone, shareTokens, day, ask>>

Waiting == [pc |-> "idle"]

SharingInit ==
    /\ canvases = Canvas
    /\ collab = [k \in Canvas |-> [u \in User |-> NoPermission]]
    /\ links = {}
    /\ row = [l \in Link |-> Waiting]
    /\ gone = [l \in Link |-> Never]
    /\ shareTokens = {}
    /\ day = 0
    /\ ask = [r \in Visit |-> Waiting]

NextDay ==
    /\ day < MaxDay
    /\ day' = day + 1
    /\ UNCHANGED <<canvases, collab, links, row, gone, shareTokens, ask>>

----------------------------------------------------------------------------
(* The owner's requests *)

\* What a user may do as the owner or a collaborator of a canvas, with these
\* rows in the tables.
Rights(there, table, u, k) ==
    {p \in Permission : \/ k \in there /\ OwnerOf[k] = u /\ p = "collaborate"
                        \/ table[k][u] = p}

\* The joins under way, each with what its user may now do as well.
Noting(there, table) ==
    [r \in Visit |->
        IF ask[r].pc \in {"canvas", "perm"}
        THEN [ask[r] EXCEPT !.due = @ \cup Rights(there, table, ask[r].user, ask[r].canvas)]
        ELSE ask[r]]

SetCollaborator(k, u, p) ==
    /\ collab' = [collab EXCEPT ![k][u] = p]
    /\ ask' = Noting(canvases, collab')
    /\ UNCHANGED <<canvases, links, row, gone, shareTokens, day>>

\* INSERT ... ON CONFLICT DO UPDATE; the foreign key asks for the canvas.
AddCollaborator(k, u, p) == k \in canvases /\ SetCollaborator(k, u, p)

UpdateCollaborator(k, u, p) == collab[k][u] # NoPermission /\ SetCollaborator(k, u, p)

RemoveCollaborator(k, u) == collab[k][u] # NoPermission /\ SetCollaborator(k, u, NoPermission)

LinkRow(k, p, exp) == [pc |-> "row", canvas |-> k, permission |-> p, exp |-> exp]

CreateLink(l, k, p, exp) ==
    /\ k \in canvases
    /\ row[l] = Waiting
    /\ links' = links \cup {l}
    /\ row' = [row EXCEPT ![l] = LinkRow(k, p, exp)]
    /\ UNCHANGED <<canvases, collab, gone, shareTokens, day, ask>>

\* The rows of these links are deleted now.
Unlink(S) ==
    /\ links' = links \ S
    /\ gone' = [l \in Link |-> IF l \in links \cap S THEN day ELSE gone[l]]

DeleteLink(l) ==
    /\ l \in links
    /\ Unlink({l})
    /\ UNCHANGED <<canvases, collab, row, shareTokens, day, ask>>

\* Mutant: the schema without ON DELETE CASCADE for share links.
KeepLinks(k) ==
    /\ k \in canvases
    /\ canvases' = canvases \ {k}
    /\ collab' = [collab EXCEPT ![k] = [u \in User |-> NoPermission]]
    /\ ask' = Noting(canvases', collab')
    /\ UNCHANGED <<links, row, gone, shareTokens, day>>

\* Collaborators and links go with the canvas.
DeleteCanvasRow(k) ==
    /\ k \in canvases
    /\ canvases' = canvases \ {k}
    /\ collab' = [collab EXCEPT ![k] = [u \in User |-> NoPermission]]
    /\ Unlink({l \in links : row[l].canvas = k})
    /\ ask' = Noting(canvases', collab')
    /\ UNCHANGED <<row, shareTokens, day>>

----------------------------------------------------------------------------
(* A visitor exchanges the code of a link for a share token *)

\* Mutant: the expiry of a link is not looked at.
NeverExpired(l) == FALSE

Expired(l) == row[l].exp # Never /\ day > row[l].exp

\* The row is there, not expired, and the password is right; otherwise the
\* answer is an error and nothing changes.
ReadLink(r, l) ==
    /\ ask[r] = Waiting
    /\ l \in links /\ ~Expired(l)
    /\ ask' = [ask EXCEPT ![r] = [pc |-> "info", link |-> l, read |-> day]]
    /\ UNCHANGED <<canvases, collab, links, row, gone, shareTokens, day>>

\* A token says what its link says, and nothing of the link itself.
ShareToken(l, read) ==
    [canvas |-> row[l].canvas, permission |-> row[l].permission, exp |-> day + TokenTtl,
     link |-> l, took |-> day - read]

\* GetCanvasOwnerInfo finds the canvas, and the token is signed.
GiveToken(r) ==
    /\ ask[r].pc = "info"
    /\ row[ask[r].link].canvas \in canvases
    /\ shareTokens' = shareTokens \cup {ShareToken(ask[r].link, ask[r].read)}
    /\ ask' = [ask EXCEPT ![r] = Waiting]
    /\ UNCHANGED <<canvases, collab, links, row, gone, day>>

----------------------------------------------------------------------------
(* wsAccessChecker *)

Asking(r, u, k, due) ==
    ask' = [ask EXCEPT ![r] = [pc |-> "canvas", user |-> u, canvas |-> k, due |-> due]]

\* The answer to the join that is at r.
Grant(r, p) ==
    ask' = [ask EXCEPT ![r] = [pc |-> "granted", user |-> ask[r].user, canvas |-> ask[r].canvas,
                               permission |-> p, due |-> ask[r].due]]

\* What the links behind these tokens give on a canvas, while the tokens live.
LinkRights(k, shown) ==
    {row[t.link].permission : t \in {s \in shown : row[s.link].canvas = k /\ day <= s.exp}}

Good(t, k) == day <= t.exp /\ t.canvas = k

\* A join comes in, with a token or none.  A good token for this canvas is
\* enough, whether the canvas is there or not; with any other, the canvas is
\* read next.
StartJoin(r, u, k, shown) ==
    LET due == Rights(canvases, collab, u, k) \cup LinkRights(k, shown) IN
    /\ ask[r] = Waiting
    /\ \/ \E t \in shown :
             /\ Good(t, k)
             /\ ask' = [ask EXCEPT ![r] = [pc |-> "granted", user |-> u, canvas |-> k,
                                           permission |-> t.permission, due |-> due]]
       \/ (\A t \in shown : ~Good(t, k)) /\ Asking(r, u, k, due)
    /\ UNCHANGED <<canvases, collab, links, row, gone, shareTokens, day>>

\* Mutant: whoever asks for a canvas that is there counts as its owner.
CanvasIsEnough(r) ==
    /\ ask[r].pc = "canvas"
    /\ ask[r].canvas \in canvases
    /\ Grant(r, "collaborate")
    /\ UNCHANGED <<canvases, collab, links, row, gone, shareTokens, day>>

JoinReadsCanvas(r) ==
    /\ ask[r].pc = "canvas"
    /\ ask[r].canvas \in canvases
    /\ IF OwnerOf[ask[r].canvas] = ask[r].user THEN Grant(r, "collaborate")
       ELSE ask' = [ask EXCEPT ![r].pc = "perm"]
    /\ UNCHANGED <<canvases, collab, links, row, gone, shareTokens, day>>

JoinReadsPermission(r) ==
    /\ ask[r].pc = "perm"
    /\ collab[ask[r].canvas][ask[r].user] # NoPermission
    /\ Grant(r, collab[ask[r].canvas][ask[r].user])
    /\ UNCHANGED <<canvases, collab, links, row, gone, shareTokens, day>>

\* A join denied, a validation that fails, or an answer that is out.
EndAsk(r) ==
    /\ ask[r] # Waiting
    /\ ask' = [ask EXCEPT ![r] = Waiting]
    /\ UNCHANGED <<canvases, collab, links, row, gone, shareTokens, day>>

SharingNext ==
    \/ NextDay
    \/ \E k \in Canvas, u \in User, p \in Permission :
          AddCollaborator(k, u, p) \/ UpdateCollaborator(k, u, p)
    \/ \E k \in Canvas, u \in User : RemoveCollaborator(k, u)
    \/ \E l \in Link, k \in Canvas, p \in Permission, exp \in 0..MaxDay \cup {Never} :
          CreateLink(l, k, p, exp)
    \/ \E l \in Link : DeleteLink(l)
    \/ \E k \in Canvas : DeleteCanvasRow(k)
    \/ \E r \in Visit :
          \/ \E l \in Link : ReadLink(r, l)
          \/ GiveToken(r)
          \/ \E u \in User, k \in Canvas, shown \in {{}} \cup {{t} : t \in shareTokens} :
                StartJoin(r, u, k, shown)
          \/ JoinReadsCanvas(r)
          \/ JoinReadsPermission(r)
          \/ EndAsk(r)

SharingSpec == SharingInit /\ [][SharingNext]_sharingVars

----------------------------------------------------------------------------
(* Properties *)

\* Types, and the foreign keys: collaborators and links are of canvases that
\* are there.
SharingTypeOK ==
    /\ canvases \subseteq Canvas
    /\ collab \in [Canvas -> [User -> Permission \cup {NoPermission}]]
    /\ \A k \in Canvas \ canvases, u \in User : collab[k][u] = NoPermission
    /\ links \subseteq {l \in Link : row[l] # Waiting}
    /\ \A l \in links : row[l].canvas \in canvases /\ row[l].permission \in Permission
    /\ \A t \in shareTokens : t.link \in Link /\ t.canvas = row[t.link].canvas
    /\ day \in 0..MaxDay
    /\ \A r \in Visit : ask[r].pc \in {"idle", "info", "canvas", "perm", "granted"}

\* A grant is right at some moment of the join: while it was under way the
\* user was the owner of the canvas, a collaborator with this permission, or
\* showed a live token of a link to this canvas that gives it, however the
\* owner's changes fall between the checker's reads (main.go:186-211).
GrantJustified ==
    \A r \in Visit : ask[r].pc = "granted" => ask[r].permission \in ask[r].due

\* What a link gave ends: every token of it expires within the life of a
\* token after the link was deleted or expired, counted from the last moment
\* the link was read, and says no more than the link did.
TokensEnd ==
    \A t \in shareTokens :
        LET l == t.link IN
        /\ t.permission = row[l].permission
        /\ gone[l] # Never => t.exp <= gone[l] + TokenTtl + t.took
        /\ row[l].exp # Never => t.exp <= row[l].exp + TokenTtl + t.took
=============================================================================
