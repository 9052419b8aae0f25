----------------------------- MODULE CrdtOrders -----------------------------
(***************************************************************************)
(* One set of operations, applied in the different orders in which the     *)
(* connections' goroutines may obtain the lock of a room.  Every member of *)
(* Order is a run of its own of the same canvas: the rooms do not see each *)
(* other and are compared once they have applied the same operations.  A   *)
(* client that missed an ack sends its operation again; a room may be      *)
(* saved and loaded again between two operations.                          *)
(***************************************************************************)
EXTENDS CrdtState

CONSTANTS
    Order,       \* the runs to compare
    OpSets,      \* the sets of operations to choose from
    MaxRepeats   \* bound: operations sent again, over all the runs

ASSUME OpSetsAssumption ==
    /\ \A S \in OpSets : S \subseteq Operation
    /\ MaxRepeats \in Nat

VARIABLES
    ops,      \* the operations of this behaviour
    room,     \* the state of the room in each run
    got,      \* the operations each run has applied
    repeats   \* how many were sent again

ordersVars == <<ops, room, got, repeats>>

OrdersInit ==
    /\ ops \in OpSets
    /\ room = [r \in Order |-> FreshState]
    /\ got = [r \in Order |-> {}]
    /\ repeats = 0

ApplyOp(r, op) == room' = [room EXCEPT ![r] = Apply(@, op).state]

Deliver(r) ==
    \E op \in ops \ got[r] :
        /\ ApplyOp(r, op)
        /\ got' = [got EXCEPT ![r] = @ \cup {op}]
        /\ UNCHANGED <<ops, repeats>>

Repeat(r) ==
    /\ repeats < MaxRepeats
    /\ \E op \in got[r] : ApplyOp(r, op)
    /\ repeats' = repeats + 1
    /\ UNCHANGED <<ops, got>>

Restart(r) ==
    /\ room' = [room EXCEPT ![r] = ParseState(Serialize(@)).state]
    /\ UNCHANGED <<ops, got, repeats>>

OrdersNext == \E r \in Order : Deliver(r) \/ Repeat(r) \/ Restart(r)

OrdersSpec == OrdersInit /\ [][OrdersNext]_ordersVars

----------------------------------------------------------------------------
(* What the rooms hold, read as registers *)

ElementOf(r, id) == room[r].elements[Min(Places(room[r].elements, id))]

Writes(r, id) == {op \in got[r] : op.elemId = id}

Newest(S) == CHOOSE op \in S : \A other \in S : other.version <= op.version

\* The clients' side of the bargain: an element's operations are an add and
\* updates of it, each with a version of its own, the add with the lowest;
\* and each names all the members it wants the element to have.
Disciplined(S) ==
    /\ \A op \in S : op.type \in {"element_add", "element_update"} /\ op.props.kind = "object"
    /\ \A op, other \in S : op.elemId = other.elemId /\ op # other =>
        /\ op.version # other.version
        /\ op.type = "element_add" => op.version < other.version
        /\ DOMAIN op.props.fields = DOMAIN other.props.fields

\* Operations with higher versions win (API.md, Conflict Resolution Rules),
\* in every order, with repeats and restarts in between: while the clients
\* are disciplined, an element exists once one of its writes was applied
\* and is what its newest applied write made it, version and data.
NewestWriteWins ==
    Disciplined(ops) =>
        \A r \in Order, id \in ElemId :
            IF Writes(r, id) = {}
            THEN id \notin Ids(room[r].elements)
            ELSE /\ id \in Ids(room[r].elements)
                 /\ ElementOf(r, id).version = Newest(Writes(r, id)).version
                 /\ ElementOf(r, id).data = Newest(Writes(r, id)).props

\* "Operations are commutative - they produce the same result regardless of
\* order" (API.md:1055): two rooms that applied the same operations hold the
\* same elements with the same data, whatever their z-order.
OpsCommute ==
    \A r, q \in Order : got[r] = got[q] =>
        /\ Ids(room[r].elements) = Ids(room[q].elements)
        /\ \A id \in Ids(room[r].elements) : ElementOf(r, id) = ElementOf(q, id)
=============================================================================
