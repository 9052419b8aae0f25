---------------------------- MODULE MCSessionSave ----------------------------
(***************************************************************************)
(* Session with a history of what saves were asked for: the owner and a    *)
(* collaborator, a database that always answers, no REST, no restart: the  *)
(* room ends when all clients leave.                                       *)
(***************************************************************************)
EXTENDS MCSession

VARIABLE wanted   \* the part of acked that a save was ever asked for

WantedInit == Init /\ wanted = {}

WantedNext ==
    /\ \E c \in Conn : Client(c) \/ Handler(c) \/ Deliver(c)
    /\ wanted' = IF \E c \in Conn : AskSave(c) THEN wanted \cup acked ELSE wanted

WantedSpec == WantedInit /\ [][WantedNext]_<<vars, wanted>>

\* API.md:1143: when all clients leave, the last save has already persisted
\* the state that is discarded.
LastSavePersisted == room = NoRoom => Covers(row, wanted)
=============================================================================
