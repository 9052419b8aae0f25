-------------------------- MODULE CrdtOrdersProofs --------------------------
(***************************************************************************)
(* Proofs about CrdtOrders: any number of runs over any set of operations  *)
(* of disciplined clients, in any order, with any number of repeats and    *)
(* restarts.                                                               *)
(***************************************************************************)
EXTENDS CrdtOrders, CrdtStateProofs

(***************************************************************************)
(* The inductive invariant speaks of the elements where the property       *)
(* speaks of the ids: in each run every element is what the newest of the  *)
(* writes of its id made it, and every applied write has its element.      *)
(***************************************************************************)

\* A newest write of S to the element is what it holds.
Wins(e, S) ==
    \E op \in S :
        /\ op.elemId = e.id /\ op.version = e.version /\ op.props = e.data
        /\ \A other \in S : other.elemId = e.id => other.version <= op.version

Holds(els, S) ==
    /\ \A i \in DOMAIN els : Wins(els[i], S)
    /\ \A op \in S : op.elemId \in Ids(els)

Inv ==
    /\ ops \in OpSets
    /\ got \in [Order -> SUBSET ops]
    /\ DOMAIN room = Order
    /\ Disciplined(ops) =>
        \A r \in Order : GoodState(room[r]) /\ Holds(room[r].elements, got[r])

\* A write whose element keeps a version at or above its own changes nothing
\* about who wins.
LEMMA LoserChangesNothing ==
    ASSUME NEW e, NEW S, Wins(e, S), NEW op,
           op.elemId = e.id => op.version <= e.version
    PROVE  Wins(e, S \cup {op})
BY DEF Wins

\* A write with the highest version of all wins.
LEMMA HighestWins ==
    ASSUME NEW S, NEW op, op.version \in Int,
           \A other \in S : other.elemId = op.elemId => other.version <= op.version
    PROVE  Wins(NewElement(op), S \cup {op})
BY DEF Wins, NewElement

\* The first write of an element appends it.
LEMMA AppendHolds ==
    ASSUME NEW els \in Seq(Element), NEW S, Holds(els, S), NEW op,
           op.version \in Int, NewElement(op) \in Element, op.elemId \notin Ids(els)
    PROVE  Holds(Append(els, NewElement(op)), S \cup {op})
<1> DEFINE n == Len(els)
           e == NewElement(op)
           new == Append(els, e)
<1>1. /\ n \in Nat /\ DOMAIN els = 1 .. n /\ DOMAIN new = 1 .. n + 1
      /\ \A i \in 1 .. n : new[i] = els[i]
      /\ new[n + 1] = e
    BY AppendProperties, LenProperties
<1>2. e.id = op.elemId BY DEF NewElement
<1> HIDE DEF n, e, new
<1>3. \A i \in 1 .. n + 1 : i \in 1 .. n \/ i = n + 1 BY <1>1
<1>4. Ids(els) \subseteq Ids(new) /\ op.elemId \in Ids(new)
    <2>1. 1 .. n \subseteq 1 .. n + 1 /\ n + 1 \in 1 .. n + 1 BY <1>1
    <2> QED BY <1>1, <1>2, <2>1 DEF Ids
<1>5. ASSUME NEW i \in 1 .. n PROVE Wins(els[i], S \cup {op})
    <2>1. els[i].id # op.elemId BY <1>1 DEF Ids
    <2> QED BY <1>1, <2>1, LoserChangesNothing DEF Holds
<1>6. Wins(e, S \cup {op})
    <2>1. \A other \in S : other.elemId # op.elemId BY DEF Holds
    <2> QED BY <2>1, HighestWins DEF e
<1> QED BY <1>1, <1>3, <1>4, <1>5, <1>6 DEF Holds, e, new

\* A merge of two objects with the same members is the patch.
LEMMA MergeOfSameMembers ==
    ASSUME NEW base \in Json, NEW patch \in Json,
           base.kind = "object", patch.kind = "object",
           DOMAIN patch.fields = DOMAIN base.fields
    PROVE  MergeJSON(base, patch) = patch
<1>1. PICK K \in SUBSET Key : patch.fields \in [K -> Val] BY DEF Json, Fields
<1>2. Over(patch.fields, base.fields) = patch.fields BY <1>1 DEF Over
<1>3. patch = [kind |-> "object", fields |-> patch.fields] BY DEF Json
<1> QED BY <1>2, <1>3 DEF MergeJSON, Object

\* applyElementAdd and applyElementUpdate, told apart by the state.
LEMMA WriteHolds ==
    ASSUME NEW S, Disciplined(S), S \subseteq Operation, NEW op \in S,
           NEW T \in SUBSET S, NEW s, GoodState(s), Holds(s.elements, T)
    PROVE  /\ GoodState(Apply(s, op).state)
           /\ Holds(Apply(s, op).state.elements, T \cup {op})
<1> DEFINE els == s.elements
           i == Min(Places(els, op.elemId))
<1>1. /\ op.elemId \in ElemId /\ op.version \in Int /\ op.props \in Json
      /\ op.type \in {"element_add", "element_update"} /\ op.props.kind = "object"
    BY DEF Operation, Disciplined
<1>2. s \in CanvasState /\ els \in Seq(Element) /\ DistinctIds(els)
    BY DEF GoodState, CanvasState
<1>3. Apply(s, op) = IF op.type = "element_add" THEN ApplyElementAdd(s, op)
                                                ELSE ApplyElementUpdate(s, op)
    BY <1>1 DEF Apply
<1>4. GoodState(Apply(s, op).state) BY <1>1, <1>3, AddGood, UpdateGood
<1>5. CASE op.elemId \notin Ids(els)
    <2> DEFINE t == [s EXCEPT !.elements = Append(@, NewElement(op))]
    <2>1. Apply(s, op).state.elements = Append(els, NewElement(op))
        <3>1. Apply(s, op) = Accepted(t)
            BY <1>3, <1>5 DEF ApplyElementAdd, ApplyElementUpdate
        <3>2. t.elements = Append(els, NewElement(op)) /\ "elements" \in DOMAIN t
            BY <1>2 DEF CanvasState
        <3> HIDE DEF t
        <3>3. Accepted(t).state.elements = t.elements BY <3>2 DEF Accepted
        <3> QED BY <3>1, <3>2, <3>3
    <2>2. NewElement(op) \in Element BY <1>1 DEF NewElement, Element
    <2> QED BY <1>1, <1>2, <1>4, <1>5, <2>1, <2>2, AppendHolds
<1>6. CASE op.elemId \in Ids(els)
    <2>1. /\ i \in DOMAIN els /\ els[i].id = op.elemId
          /\ \A j \in DOMAIN els : els[j].id = op.elemId => j = i
        BY <1>2, <1>6, FirstPlace DEF DistinctIds
    <2>2. els[i] \in Element BY <1>2, <2>1, LenProperties, ElementOfSeq
    <2>3. PICK w \in T : /\ w.elemId = op.elemId /\ w.version = els[i].version /\ w.props = els[i].data
                         /\ \A other \in T : other.elemId = op.elemId => other.version <= w.version
        BY <2>1 DEF Holds, Wins
    <2> HIDE DEF i
    <2>4. CASE op.version <= els[i].version
        <3>1. Apply(s, op).state = s
            <4>1. ApplyElementAdd(s, op).state = s BY <1>6 DEF ApplyElementAdd, Rejected
            <4>2. ApplyElementUpdate(s, op).state = s
                BY <1>6, <2>4 DEF ApplyElementUpdate, Rejected, i
            <4> QED BY <1>3, <4>1, <4>2
        <3>2. ASSUME NEW j \in DOMAIN els PROVE Wins(els[j], T \cup {op})
            <4>1. op.elemId = els[j].id => op.version <= els[j].version BY <2>1, <2>4
            <4> QED BY <4>1, LoserChangesNothing DEF Holds
        <3>3. \A x \in T \cup {op} : x.elemId \in Ids(els) BY <1>6 DEF Holds
        <3> QED BY <1>4, <3>1, <3>2, <3>3 DEF Holds
    <2>5. CASE ~(op.version <= els[i].version)
        <3>1. w \in S /\ op # w BY <2>3, <2>5
        <3>2. op.type # "element_add"
            <4>1. op.type = "element_add" => op.version < w.version
                BY <2>3, <3>1 DEF Disciplined
            <4>2. w.version \in Int BY <2>2, <2>3 DEF Element
            <4> QED BY <1>1, <2>3, <2>5, <4>1, <4>2
        <3> DEFINE new == [els EXCEPT ![i].data = MergeJSON(@, op.props), ![i].version = op.version]
        <3> DEFINE t == [s EXCEPT !.elements[i].data = MergeJSON(@, op.props),
                                  !.elements[i].version = op.version]
        <3>3. Apply(s, op).state.elements = new
            <4>1. Apply(s, op) = Accepted(t)
                BY <1>3, <1>6, <2>5, <3>2 DEF ApplyElementUpdate, i
            <4>2. t.elements = new /\ "elements" \in DOMAIN t BY <1>2 DEF CanvasState
            <4> HIDE DEF t, new
            <4>3. Accepted(t).state.elements = t.elements BY <4>2 DEF Accepted
            <4> QED BY <4>1, <4>2, <4>3
        <3>4. MergeJSON(els[i].data, op.props) = op.props
            <4>1. w.props \in Json /\ w.props.kind = "object" BY <3>1 DEF Operation, Disciplined
            <4>2. DOMAIN op.props.fields = DOMAIN w.props.fields
                BY <2>3, <3>1 DEF Disciplined
            <4> QED BY <1>1, <2>3, <4>1, <4>2, MergeOfSameMembers
        <3>5. /\ DOMAIN new = DOMAIN els /\ new[i] = NewElement(op)
              /\ \A j \in DOMAIN els \ {i} : new[j] = els[j]
            BY <2>1, <2>2, <3>4 DEF Element, NewElement
        <3>6. Wins(new[i], T \cup {op})
            <4>1. \A other \in T : other.elemId = op.elemId => other.version <= op.version
                <5> SUFFICES ASSUME NEW other \in T, other.elemId = op.elemId
                             PROVE  other.version <= op.version
                    OBVIOUS
                <5>1. other.version <= w.version BY <2>3
                <5>2. other.version \in Int /\ w.version \in Int BY DEF Operation
                <5> QED BY <1>1, <2>3, <2>5, <5>1, <5>2
            <4> QED BY <1>1, <3>5, <4>1, HighestWins
        <3>7. ASSUME NEW j \in DOMAIN els \ {i} PROVE Wins(new[j], T \cup {op})
            <4>1. els[j].id # op.elemId BY <2>1
            <4> QED BY <3>5, <4>1, LoserChangesNothing DEF Holds
        <3>8. Ids(new) = Ids(els)
            <4>1. \A j \in DOMAIN els : new[j].id = els[j].id
                BY <2>1, <3>5 DEF NewElement
            <4> QED BY <3>5, <4>1 DEF Ids
        <3> HIDE DEF new
        <3>9. Holds(new, T \cup {op}) BY <1>6, <3>5, <3>6, <3>7, <3>8 DEF Holds
        <3> QED BY <1>4, <3>3, <3>9
    <2> QED BY <2>4, <2>5
<1> QED BY <1>5, <1>6

\* A save and a load keep the data of every write: they are objects.
LEMMA SaveHolds ==
    ASSUME NEW S, Disciplined(S), NEW T \in SUBSET S, NEW s, GoodState(s), Holds(s.elements, T)
    PROVE  Holds(ParseState(Serialize(s)).state.elements, T)
<1> DEFINE els == s.elements
           new == [i \in DOMAIN els |-> [els[i] EXCEPT !.data = Encoded(@)]]
<1>1. s \in CanvasState /\ els \in Seq(Element) BY DEF GoodState, CanvasState
<1>2. ParseState(Serialize(s)).state.elements = new
    BY <1>1 DEF ParseState, Serialize, CanvasState
<1>3. ASSUME NEW i \in DOMAIN els PROVE new[i] = els[i]
    <2>1. els[i] \in Element BY <1>1, LenProperties, ElementOfSeq
    <2>2. els[i].data.kind = "object"
        <3>1. PICK op \in T : els[i].data = op.props BY DEF Holds, Wins
        <3> QED BY <3>1 DEF Disciplined
    <2>3. Encoded(els[i].data) = els[i].data BY <2>2 DEF Encoded
    <2>4. new[i] = [els[i] EXCEPT !.data = Encoded(els[i].data)] OBVIOUS
    <2> HIDE DEF els, new
    <2>5. [els[i] EXCEPT !.data = els[i].data] = els[i] BY <2>1 DEF Element
    <2> QED BY <2>3, <2>4, <2>5
<1>4. DOMAIN new = DOMAIN els OBVIOUS
<1> HIDE DEF new
<1>5. Ids(new) = Ids(els) BY <1>3, <1>4 DEF Ids
<1>6. Holds(new, T) BY <1>3, <1>5, <1>4 DEF Holds
<1> QED BY <1>2, <1>6

----------------------------------------------------------------------------

\* The invariant before the first operation.
LEMMA InvInit == ASSUME OrdersInit PROVE Inv
<1>1. \A r \in Order : GoodState(room[r]) BY FreshGood DEF OrdersInit
<1>2. \A r \in Order : room[r].elements = <<>> /\ got[r] = {} BY DEF OrdersInit, FreshState
<1>3. Holds(<<>>, {}) BY DEF Holds
<1> QED BY <1>1, <1>2, <1>3 DEF OrdersInit, Inv

\* An operation, sent for the first time or again.
LEMMA InvApply ==
    ASSUME Inv, NEW r \in Order, NEW op \in ops, ApplyOp(r, op),
           got' = [got EXCEPT ![r] = @ \cup {op}], UNCHANGED ops
    PROVE  Inv'
<1>1. /\ room' = [room EXCEPT ![r] = Apply(@, op).state]
      /\ DOMAIN room' = Order /\ got' \in [Order -> SUBSET ops]
    BY DEF ApplyOp, Inv
<1>2. ASSUME Disciplined(ops), NEW q \in Order
      PROVE  GoodState(room'[q]) /\ Holds(room'[q].elements, got'[q])
    <2>1. GoodState(room[q]) /\ Holds(room[q].elements, got[q]) /\ got[q] \in SUBSET ops
        BY <1>2 DEF Inv
    <2>2. CASE q = r
        <3>1. room'[q] = Apply(room[q], op).state /\ got'[q] = got[q] \cup {op}
            BY <1>1, <2>2 DEF Inv
        <3>2. ops \subseteq Operation BY OpSetsAssumption DEF Inv
        <3> QED BY <1>2, <2>1, <3>1, <3>2, WriteHolds
    <2>3. CASE q # r
        <3>1. room'[q] = room[q] /\ got'[q] = got[q] BY <1>1, <2>3 DEF Inv
        <3> QED BY <2>1, <3>1
    <2> QED BY <2>2, <2>3
<1> QED BY <1>1, <1>2 DEF Inv

\* A save and a load.
LEMMA InvRestart == ASSUME Inv, NEW r \in Order, Restart(r) PROVE Inv'
<1>1. /\ room' = [room EXCEPT ![r] = ParseState(Serialize(@)).state] /\ DOMAIN room' = Order
      /\ UNCHANGED <<ops, got>>
    BY DEF Restart, Inv
<1>2. ASSUME Disciplined(ops), NEW q \in Order
      PROVE  GoodState(room'[q]) /\ Holds(room'[q].elements, got[q])
    <2>1. GoodState(room[q]) /\ Holds(room[q].elements, got[q]) /\ got[q] \in SUBSET ops
        BY <1>2 DEF Inv
    <2>2. CASE q = r
        <3>1. room'[q] = ParseState(Serialize(room[q])).state BY <1>1, <2>2 DEF Inv
        <3>2. GoodState(ParseState(Serialize(room[q])).state)
            BY <2>1, SerializeGood DEF ParseState
        <3> QED BY <1>2, <2>1, <3>1, <3>2, SaveHolds
    <2>3. CASE q # r
        <3>1. room'[q] = room[q] BY <1>1, <2>3 DEF Inv
        <3> QED BY <2>1, <3>1
    <2> QED BY <2>2, <2>3
<1> QED BY <1>1, <1>2 DEF Inv

\* Every step of the room keeps it.
LEMMA InvNext == ASSUME Inv, [OrdersNext]_ordersVars PROVE Inv'
<1>1. ASSUME NEW r \in Order, Deliver(r) PROVE Inv'
    BY <1>1, InvApply DEF Deliver
<1>2. ASSUME NEW r \in Order, Repeat(r) PROVE Inv'
    <2>1. PICK op \in got[r] : ApplyOp(r, op) BY <1>2 DEF Repeat
    <2>2. op \in ops /\ got = [got EXCEPT ![r] = @ \cup {op}] BY DEF Inv
    <2> QED BY <1>2, <2>1, <2>2, InvApply DEF Repeat
<1>3. CASE UNCHANGED ordersVars BY <1>3 DEF ordersVars, Inv
<1> QED BY <1>1, <1>2, <1>3, InvRestart DEF OrdersNext

\* Where the versions differ there is one newest write, and the element of a
\* winner is its.
LEMMA WinnerIsNewest ==
    ASSUME Inv, Disciplined(ops), NEW r \in Order, NEW id \in ElemId, Writes(r, id) # {}
    PROVE  /\ id \in Ids(room[r].elements)
           /\ ElementOf(r, id).version = Newest(Writes(r, id)).version
           /\ ElementOf(r, id).data = Newest(Writes(r, id)).props
<1> DEFINE els == room[r].elements
           W == Writes(r, id)
<1>1. /\ got[r] \in SUBSET ops /\ ops \subseteq Operation /\ Holds(els, got[r]) /\ els \in Seq(Element)
    BY OpSetsAssumption DEF Inv, GoodState, CanvasState
<1>2. id \in Ids(els) BY <1>1 DEF Holds, Writes
<1>3. Wins(ElementOf(r, id), got[r]) /\ ElementOf(r, id).id = id
    BY <1>1, <1>2, FirstPlace DEF Holds, ElementOf
<1>4. PICK op \in W : /\ op.version = ElementOf(r, id).version /\ op.props = ElementOf(r, id).data
                      /\ \A other \in W : other.version <= op.version
    BY <1>3 DEF Wins, Writes
<1>5. ASSUME NEW x \in W, \A other \in W : other.version <= x.version
      PROVE  x = op
    <2>1. op.version <= x.version /\ x.version <= op.version BY <1>4, <1>5
    <2>2. x \in ops /\ op \in ops /\ x.elemId = op.elemId BY <1>1 DEF Writes
    <2>3. x.version \in Int /\ op.version \in Int BY <1>1, <2>2 DEF Operation
    <2>4. x.version = op.version BY ONLY <2>1, <2>3
    <2> QED BY <2>2, <2>4 DEF Disciplined
<1>6. Newest(W) = op
    <2> HIDE DEF W
    <2> QED BY <1>4, <1>5 DEF Newest
<1> QED BY <1>2, <1>4, <1>6

\* Whatever the order in which a room applies the operations of disciplined
\* clients, repeats and restarts included, an element is what its newest
\* applied write made it: crdt.Apply's last writer wins.
THEOREM NewestWins == OrdersSpec => []NewestWriteWins
<1>1. Inv => NewestWriteWins
    <2> SUFFICES ASSUME Inv, Disciplined(ops), NEW r \in Order, NEW id \in ElemId, Writes(r, id) = {}
                 PROVE  id \notin Ids(room[r].elements)
        BY WinnerIsNewest DEF NewestWriteWins
    <2> QED BY DEF Inv, Holds, Wins, Ids, Writes
<1> QED BY <1>1, InvInit, InvNext, PTL DEF OrdersSpec

\* "Operations are commutative" (API.md:1055) is so for disciplined clients:
\* two rooms that applied the same operations hold the same elements.
THEOREM DisciplinedCommute == OrdersSpec => [](Disciplined(ops) => OpsCommute)
<1>1. ASSUME Inv, Disciplined(ops), NEW r \in Order, NEW q \in Order, got[r] = got[q]
      PROVE  /\ Ids(room[r].elements) = Ids(room[q].elements)
             /\ \A id \in Ids(room[r].elements) : ElementOf(r, id) = ElementOf(q, id)
    <2>1. \A p \in Order : /\ room[p].elements \in Seq(Element)
                            /\ Holds(room[p].elements, got[p])
        BY <1>1 DEF Inv, GoodState, CanvasState
    <2>2. \A p \in Order : Ids(room[p].elements) = {op.elemId : op \in got[p]}
        BY <2>1 DEF Holds, Wins, Ids
    <2>3. Ids(room[r].elements) = Ids(room[q].elements) BY <1>1, <2>2
    <2>4. ASSUME NEW id \in Ids(room[r].elements) PROVE ElementOf(r, id) = ElementOf(q, id)
        <3>1. \A p \in {r, q} : ElementOf(p, id) \in Element /\ ElementOf(p, id).id = id
            BY <2>1, <2>3, FirstPlace, ElementOfSeq DEF ElementOf
        <3>2. id \in ElemId /\ Writes(r, id) # {} /\ Writes(r, id) = Writes(q, id)
            BY <1>1, <2>2, <3>1 DEF Writes, Element
        <3>3. /\ ElementOf(r, id).version = ElementOf(q, id).version
              /\ ElementOf(r, id).data = ElementOf(q, id).data
            BY <1>1, <3>2, WinnerIsNewest
        <3> QED BY <3>1, <3>3 DEF Element
    <2> QED BY <2>3, <2>4
<1>2. Inv => (Disciplined(ops) => OpsCommute) BY <1>1 DEF OpsCommute
<1> QED BY <1>2, InvInit, InvNext, PTL DEF OrdersSpec
=============================================================================
