-------------------------------- MODULE Rest --------------------------------
(***************************************************************************)
(* What the modules of the REST interface share: the users, the requests   *)
(* in flight, and a database that may fail.  Handlers run concurrently and *)
(* each statement they send to the database is a step of its own: no       *)
(* handler opens a transaction.                                            *)
(***************************************************************************)
EXTENDS Naturals, Sequences, FiniteSets

CONSTANTS
    User,
    Req,      \* requests that may be in flight together
    DbFails   \* whether a statement may end in an error

ASSUME RestAssumption == DbFails \in BOOLEAN
=============================================================================
