------------------------------ MODULE MCServer ------------------------------
(***************************************************************************)
(* The parts of the server that share nothing but the database, and the    *)
(* operations of one canvas in every order, on small instances.  A         *)
(* behaviour is one of one part; the others stay as they began.            *)
(***************************************************************************)
EXTENDS Folders, Accounts, Rows, Sharing, Migrations, Heartbeat, MCCrdtOrders, TLC

CONSTANTS f1, f2, f3, u1, u2, k1, s1, s2

\* The third folder is another user's.
TwoOwners == f1 :> u1 @@ f2 :> u1 @@ f3 :> u2
OneOwner == k1 :> u1
\* The second server was shipped with one file more.
RollingDeploy == s1 :> 2 @@ s2 :> 3

VARIABLE part

restVars == <<foldersVars, accountsVars, rowsVars, sharingVars>>
vars == <<part, restVars, migrationsVars, heartbeatVars, ordersVars>>

Init ==
    /\ part \in {"folders", "accounts", "rows", "sharing", "migrations", "heartbeat", "orders"}
    /\ FoldersInit /\ AccountsInit /\ RowsInit /\ SharingInit /\ MigrationsInit /\ HeartbeatInit
    /\ OrdersInit
    /\ part # "rows" => table = "canvas"
    /\ part # "orders" => ops = {}

Only(p, A) == part = p /\ A /\ UNCHANGED part

Next ==
    \/ Only("folders", FoldersNext)
       /\ UNCHANGED <<accountsVars, rowsVars, sharingVars, migrationsVars, heartbeatVars, ordersVars>>
    \/ Only("accounts", AccountsNext)
       /\ UNCHANGED <<foldersVars, rowsVars, sharingVars, migrationsVars, heartbeatVars, ordersVars>>
    \/ Only("rows", RowsNext)
       /\ UNCHANGED <<foldersVars, accountsVars, sharingVars, migrationsVars, heartbeatVars, ordersVars>>
    \/ Only("sharing", SharingNext)
       /\ UNCHANGED <<foldersVars, accountsVars, rowsVars, migrationsVars, heartbeatVars, ordersVars>>
    \/ Only("migrations", MigrationsNext)
       /\ UNCHANGED <<restVars, heartbeatVars, ordersVars>>
    \/ Only("heartbeat", HeartbeatNext)
       /\ UNCHANGED <<restVars, migrationsVars, ordersVars>>
    \/ Only("orders", OrdersNext)
       /\ UNCHANGED <<restVars, migrationsVars, heartbeatVars>>

\* The fairness of Folders and Migrations, in the behaviours about them.
Fairness ==
    /\ \A r \in Req : WF_foldersVars(part = "folders" /\ MoveStep(r))
    /\ \A s \in Server : WF_migrationsVars(part = "migrations" /\ Advance(s))

Spec == Init /\ [][Next]_vars /\ Fairness
=============================================================================
