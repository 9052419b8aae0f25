--------------------------- MODULE CrdtRoomProofs ---------------------------
(***************************************************************************)
(* Proofs about CrdtRoom: a canvas of any size, any ids, members and       *)
(* values, through any sequence of operations, saves, REST writes and      *)
(* reloads.                                                                *)
(***************************************************************************)
EXTENDS CrdtRoom, CrdtStateProofs

(***************************************************************************)
(* The inductive invariant: the room and the text hold good states.  Each  *)
(* of type correctness and unique ids needs the other's half of it: ids    *)
(* stay distinct because the operations search well-formed sequences, and  *)
(* a reorder is well formed because what it looks up exists.               *)
(***************************************************************************)
Inv ==
    /\ GoodState(room)
    /\ stored \in Document
    /\ GoodState(stored.state)

\* Loading a good text gives a good room.
LEMMA LoadedGood ==
    ASSUME NEW doc, GoodState(doc.state)
    PROVE  GoodState(Loaded(doc))
BY FreshGood DEF Loaded, ParseState

\* The room opened on any stored document is good, and so is the document.
LEMMA InvInit ==
    ASSUME Init
    PROVE  Inv
<1>1. stored \in Document BY DocumentsAssumption DEF Init
<1>2. GoodState(stored.state)
    BY <1>1, DocumentsAssumption DEF Init, Document, GoodState
<1> QED BY <1>1, <1>2, LoadedGood DEF Init, Inv

\* One operation, whichever it is.
LEMMA HandleGood ==
    ASSUME Inv, NEW op, Handle(op), GoodState(Apply(room, op).state)
    PROVE  Inv'
BY DEF Inv, Handle

\* No step of the room, of REST or of a crash breaks the invariant.
LEMMA InvNext ==
    ASSUME Inv, [Next]_vars
    PROVE  Inv'
<1> USE DocumentsAssumption
<1>0. GoodState(room) BY DEF Inv
<1>1. CASE ElementAdd
    <2>1. PICK id \in ElemId, v \in OpVersion, p \in Patch : Handle(AddOp(id, v, p))
        BY <1>1 DEF ElementAdd
    <2>2. GoodState(ApplyElementAdd(room, AddOp(id, v, p)).state)
        BY <1>0, AddGood DEF AddOp, AnOp
    <2>3. Apply(room, AddOp(id, v, p)) = ApplyElementAdd(room, AddOp(id, v, p))
        BY DEF Apply, AddOp, AnOp
    <2> QED BY <2>1, <2>2, <2>3, HandleGood
<1>2. CASE ElementUpdate
    <2>1. PICK id \in ElemId, v \in OpVersion, p \in Patch : Handle(UpdateOp(id, v, p))
        BY <1>2 DEF ElementUpdate
    <2>2. GoodState(ApplyElementUpdate(room, UpdateOp(id, v, p)).state)
        BY <1>0, UpdateGood DEF UpdateOp, AnOp
    <2>3. Apply(room, UpdateOp(id, v, p)) = ApplyElementUpdate(room, UpdateOp(id, v, p))
        BY DEF Apply, UpdateOp, AnOp
    <2> QED BY <2>1, <2>2, <2>3, HandleGood
<1>3. CASE ElementDelete
    <2>1. PICK id \in ElemId, v \in OpVersion : Handle(DeleteOp(id, v))
        BY <1>3 DEF ElementDelete
    <2>2. GoodState(ApplyElementDelete(room, DeleteOp(id, v)).state)
        BY <1>0, DeleteGood
    <2>3. Apply(room, DeleteOp(id, v)) = ApplyElementDelete(room, DeleteOp(id, v))
        BY DEF Apply, DeleteOp, AnOp
    <2> QED BY <2>1, <2>2, <2>3, HandleGood
<1>4. CASE ElementsReorder
    <2>1. PICK ids \in IdList : Handle(ReorderOp(ids)) BY <1>4 DEF ElementsReorder
    <2>2. GoodState(ApplyElementsReorder(room, ReorderOp(ids)).state)
        BY <1>0, ReorderGood DEF ReorderOp, AnOp
    <2>3. Apply(room, ReorderOp(ids)) = ApplyElementsReorder(room, ReorderOp(ids))
        BY DEF Apply, ReorderOp, AnOp
    <2> QED BY <2>1, <2>2, <2>3, HandleGood
<1>5. CASE CanvasUpdate
    <2>1. PICK p \in Patch : Handle(CanvasOp(p)) BY <1>5 DEF CanvasUpdate
    <2>2. GoodState(ApplyCanvasUpdate(room, CanvasOp(p)).state)
        BY <1>0, CanvasGood DEF CanvasOp, AnOp
    <2>3. Apply(room, CanvasOp(p)) = ApplyCanvasUpdate(room, CanvasOp(p))
        BY DEF Apply, CanvasOp, AnOp
    <2> QED BY <2>1, <2>2, <2>3, HandleGood
<1>6. CASE Save BY <1>0, <1>6, SerializeGood DEF Save, Inv
<1>7. CASE PutData BY <1>0, <1>7 DEF PutData, Inv, GoodState, Document
<1>8. CASE Reopen BY <1>8, LoadedGood DEF Reopen, Inv
<1>9. CASE ReopenBlank BY <1>9, FreshGood DEF ReopenBlank, Inv
<1>10. CASE UNCHANGED vars BY <1>10 DEF vars, Inv
<1> QED BY <1>1, <1>2, <1>3, <1>4, <1>5, <1>6, <1>7, <1>8, <1>9, <1>10 DEF Next

\* So the invariant holds in every behaviour.
LEMMA Invariant == Spec => []Inv
<1>1. Init => Inv BY InvInit
<1>2. Inv /\ [Next]_vars => Inv' BY InvNext
<1> QED BY <1>1, <1>2, PTL DEF Spec

\* The room and the text are well formed, whatever editors send, and
\* whatever well-formed texts REST stores.
THEOREM TypeCorrect == Spec => []TypeOK
<1>1. Inv => TypeOK BY DEF Inv, GoodState, TypeOK
<1> QED BY <1>1, Invariant, PTL

\* No two elements of a canvas ever share an id, in memory or in the
\* database: the loops of crdt.go that stop at the first match, and the map
\* of applyElementsReorder, lose nothing.
THEOREM IdsStayUnique == Spec => []UniqueIds
<1>1. Inv => UniqueIds BY DEF Inv, GoodState, UniqueIds
<1> QED BY <1>1, Invariant, PTL

\* In every room, and on a text written by hand that holds an id twice, the
\* closed form of a reorder is what the loops of applyElementsReorder do.
THEOREM ReordersAsLoops == Spec => []ReorderAsLoop
<1>1. ASSUME Inv PROVE ReorderAsLoop
    <2>1. room.elements \in Seq(Element) BY <1>1 DEF Inv, GoodState, CanvasState
    <2>2. WithRepeat(room.elements) \in Seq(Element)
        <3>1. CASE room.elements = <<>> BY <2>1, <3>1 DEF WithRepeat
        <3>2. CASE room.elements # <<>>
            <4> DEFINE e == [room.elements[1] EXCEPT !.version = 0]
            <4>1. room.elements[1] \in Element BY <2>1, <3>2, ElementOfSeq, EmptySeq, LenProperties
            <4>2. e \in Element BY <4>1 DEF Element
            <4> HIDE DEF e
            <4>3. Append(room.elements, e) \in Seq(Element) BY <2>1, <4>2, AppendProperties
            <4> QED BY <3>2, <4>3 DEF WithRepeat, e
        <3> QED BY <3>1, <3>2
    <2>3. IdList \subseteq Seq(ElemId) BY DocumentsAssumption DEF DocumentsAssumption
    <2> QED BY <2>1, <2>2, <2>3, ReorderIsLoop DEF ReorderAsLoop
<1> QED BY <1>1, Invariant, PTL
----------------------------------------------------------------------------
(* The room implements the map of registers                                *)

\* With distinct ids, every element is the register of its id.
LEMMA RegisterOfElement ==
    ASSUME NEW els \in Seq(Element), DistinctIds(els)
    PROVE  /\ DOMAIN RegistersOf(els) = Ids(els)
           /\ \A i \in DOMAIN els : RegistersOf(els)[els[i].id] =
                    [version |-> els[i].version, data |-> els[i].data]
<1>1. DOMAIN RegistersOf(els) = Ids(els) BY DEF RegistersOf
<1>2. ASSUME NEW i \in DOMAIN els
      PROVE  RegistersOf(els)[els[i].id] = [version |-> els[i].version, data |-> els[i].data]
    <2>1. els[i].id \in Ids(els) BY DEF Ids
    <2>2. Min(Places(els, els[i].id)) = i BY <2>1, FirstPlace DEF DistinctIds
    <2> QED BY <2>1, <2>2 DEF RegistersOf
<1> QED BY <1>1, <1>2

\* The registers of a well-formed list are a map as ElementMap knows it.
LEMMA RegistersAreMap ==
    ASSUME NEW els \in Seq(Element), DistinctIds(els)
    PROVE  Map!IsMap(RegistersOf(els))
<1>1. \A i \in DOMAIN els : els[i] \in Element BY LenProperties, ElementOfSeq
<1>2. Ids(els) \subseteq ElemId BY <1>1 DEF Ids, Element
<1>3. ASSUME NEW id \in Ids(els) PROVE RegistersOf(els)[id] \in [version : Int, data : Json]
    <2>1. PICK i \in DOMAIN els : els[i].id = id BY DEF Ids
    <2>2. els[i].version \in Int /\ els[i].data \in Json BY <1>1 DEF Element
    <2>3. RegistersOf(els)[els[i].id] = [version |-> els[i].version, data |-> els[i].data]
        BY RegisterOfElement
    <2> QED BY ONLY <2>1, <2>2, <2>3
<1> QED BY <1>2, <1>3, RegisterOfElement DEF Map!IsMap, Map!Register

\* Two lists with the same element for an id have the same register for it.
LEMMA SameElement ==
    ASSUME NEW els \in Seq(Element), DistinctIds(els),
           NEW new \in Seq(Element), DistinctIds(new),
           NEW i \in DOMAIN els, NEW j \in DOMAIN new, els[i] = new[j]
    PROVE  RegistersOf(new)[els[i].id] = RegistersOf(els)[els[i].id]
<1>1. RegistersOf(new)[new[j].id] = [version |-> new[j].version, data |-> new[j].data]
    BY RegisterOfElement
<1>2. RegistersOf(els)[els[i].id] = [version |-> els[i].version, data |-> els[i].data]
    BY RegisterOfElement
<1> QED BY <1>1, <1>2

\* What the operations do to the list, as registers.
LEMMA AppendCreates ==
    ASSUME NEW els \in Seq(Element), DistinctIds(els), NEW e \in Element, e.id \notin Ids(els),
           room.elements = els, room'.elements = Append(els, e), UNCHANGED stored
    PROVE  Map!Create(e.id)
<1> DEFINE new == Append(els, e)
           n == Len(els)
<1>1. new \in Seq(Element) /\ DistinctIds(new) BY AppendElement
<1>2. /\ n \in Nat /\ DOMAIN els = 1 .. n /\ DOMAIN new = 1 .. n + 1
      /\ \A i \in 1 .. n : new[i] = els[i]
      /\ new[n + 1] = e
    BY AppendProperties, LenProperties
<1> HIDE DEF new, n
<1>3. \A i \in 1 .. n + 1 : i \in 1 .. n \/ i = n + 1 BY <1>2
<1>4. 1 .. n \subseteq 1 .. n + 1 /\ n + 1 \in 1 .. n + 1 BY <1>2
<1>5. Ids(new) = Ids(els) \cup {e.id} BY <1>2, <1>3, <1>4 DEF Ids
<1>6. \A x \in Ids(els) : RegistersOf(new)[x] = RegistersOf(els)[x]
    <2> TAKE x \in Ids(els)
    <2>1. PICK i \in DOMAIN els : els[i].id = x BY DEF Ids
    <2> QED BY <1>1, <1>2, <1>4, <2>1, SameElement
<1>7. Map!IsMap(RegistersOf(new)) BY <1>1, RegistersAreMap
<1>8. /\ DOMAIN RegistersOf(els) = Ids(els) /\ DOMAIN RegistersOf(new) = Ids(new)
    BY <1>1, RegisterOfElement
<1>9. room'.elements = new BY DEF new
<1> QED BY <1>5, <1>6, <1>7, <1>8, <1>9 DEF Map!Create, Map!SameExcept, Map!IsMap

\* A write to one element with a higher version raises its register.
LEMMA WriteRaises ==
    ASSUME NEW els \in Seq(Element), DistinctIds(els), NEW i \in DOMAIN els,
           NEW new \in Seq(Element), DOMAIN new = DOMAIN els,
           new[i].id = els[i].id, new[i].version > els[i].version,
           \A j \in DOMAIN els \ {i} : new[j] = els[j],
           room.elements = els, room'.elements = new, UNCHANGED stored
    PROVE  Map!Raise(els[i].id)
<1>1. \A j \in DOMAIN els : new[j].id = els[j].id OBVIOUS
<1>2. DistinctIds(new) BY <1>1 DEF DistinctIds
<1>3. Ids(new) = Ids(els) BY <1>1 DEF Ids
<1>4. ASSUME NEW x \in Ids(els), x # els[i].id PROVE RegistersOf(new)[x] = RegistersOf(els)[x]
    <2>1. PICK j \in DOMAIN els : els[j].id = x BY DEF Ids
    <2>2. new[j] = els[j] BY <1>4, <2>1
    <2> QED BY <1>2, <2>1, <2>2, SameElement
<1>5. /\ DOMAIN RegistersOf(els) = Ids(els) /\ DOMAIN RegistersOf(new) = Ids(new)
      /\ RegistersOf(els)[els[i].id].version = els[i].version
      /\ RegistersOf(new)[els[i].id].version = new[i].version
    <2>1. RegistersOf(els)[els[i].id] = [version |-> els[i].version, data |-> els[i].data]
        BY RegisterOfElement
    <2>2. RegistersOf(new)[new[i].id] = [version |-> new[i].version, data |-> new[i].data]
        BY <1>2, RegisterOfElement
    <2>3. DOMAIN RegistersOf(els) = Ids(els) /\ DOMAIN RegistersOf(new) = Ids(new)
        BY <1>2, RegisterOfElement
    <2> QED BY <2>1, <2>2, <2>3
<1>6. els[i].id \in Ids(els) BY DEF Ids
<1>7. Map!IsMap(RegistersOf(new)) BY <1>2, RegistersAreMap
<1> QED BY <1>3, <1>4, <1>5, <1>6, <1>7 DEF Map!Raise, Map!SameExcept, Map!IsMap

\* Cutting an element out of the list drops its register.
LEMMA CutDrops ==
    ASSUME NEW els \in Seq(Element), DistinctIds(els), NEW i \in DOMAIN els,
           room.elements = els, room'.elements = Without(els, i), UNCHANGED stored
    PROVE  Map!Drop(els[i].id)
<1> DEFINE new == Without(els, i)
           n == Len(els)
           from(j) == IF j < i THEN j ELSE j + 1
           to(j) == IF j < i THEN j ELSE j - 1
<1>1. new \in Seq(Element) /\ DistinctIds(new) BY WithoutElement
<1>2. n \in Nat /\ DOMAIN els = 1 .. n /\ i \in 1 .. n BY LenProperties
<1>3. new = [j \in 1 .. n - 1 |-> els[from(j)]] BY <1>2 DEF Without
<1>4. \A j \in 1 .. n - 1 : from(j) \in 1 .. n /\ from(j) # i BY <1>2
<1>5. \A j \in 1 .. n : j # i => to(j) \in 1 .. n - 1 /\ from(to(j)) = j BY <1>2
<1> HIDE DEF new, n, from, to
<1>6. \A j \in 1 .. n - 1 : new[j] = els[from(j)] BY <1>3
<1>7. DOMAIN new = 1 .. n - 1 BY <1>3
<1>8. Ids(new) \subseteq Ids(els) \ {els[i].id}
    <2> SUFFICES ASSUME NEW j \in 1 .. n - 1
                 PROVE  new[j].id \in Ids(els) \ {els[i].id}
        BY <1>7 DEF Ids
    <2>1. new[j].id = els[from(j)].id /\ from(j) \in DOMAIN els /\ from(j) # i
        BY <1>2, <1>4, <1>6
    <2> QED BY <2>1 DEF Ids, DistinctIds
<1>9. ASSUME NEW x \in Ids(els), x # els[i].id
      PROVE  x \in Ids(new) /\ RegistersOf(new)[x] = RegistersOf(els)[x]
    <2>1. PICK j \in DOMAIN els : els[j].id = x BY DEF Ids
    <2>2. to(j) \in DOMAIN new /\ new[to(j)] = els[j] BY <1>2, <1>5, <1>6, <1>7, <1>9, <2>1
    <2>3. x \in Ids(new) BY <2>1, <2>2 DEF Ids
    <2> QED BY <1>1, <2>1, <2>2, <2>3, SameElement
<1>10. Ids(new) = Ids(els) \ {els[i].id} BY <1>8, <1>9
<1>11. /\ DOMAIN RegistersOf(els) = Ids(els) /\ DOMAIN RegistersOf(new) = Ids(new)
    BY <1>1, RegisterOfElement
<1>12. els[i].id \in Ids(els) /\ room'.elements = new BY DEF Ids, new
<1> QED BY <1>9, <1>10, <1>11, <1>12 DEF Map!Drop, Map!SameExcept

\* With distinct ids a reorder keeps every element.
LEMMA ReorderPermutes ==
    ASSUME NEW els \in Seq(Element), DistinctIds(els), NEW ids \in Seq(ElemId)
    PROVE  RegistersOf(Reordered(els, ids)) = RegistersOf(els)
<1> DEFINE new == Reordered(els, ids)
           K == Kept(els, ids)
           N == Cardinality(K)
<1>1. new \in Seq(Element) /\ DistinctIds(new) /\ Ids(new) \subseteq Ids(els)
    BY ReorderedProperties
<1>2. ASSUME NEW i \in DOMAIN els PROVE i \in K
    <2>1. Places(els, els[i].id) = {i} BY DEF Places, DistinctIds
    <2>2. i \in Int BY LenProperties
    <2>3. Max({i}) = i BY <2>2 DEF Max
    <2> QED BY <2>1, <2>3 DEF Kept
<1>3. ASSUME NEW i \in K PROVE \E n \in DOMAIN new : new[n] = els[i]
    <2>1. Rank(els, ids, i) \in 0 .. N - 1 /\ N \in Nat
        BY RankInRange, KeptIsFinite, FS_CardinalityType
    <2> DEFINE n == Rank(els, ids, i) + 1
    <2>2. n \in 1 .. N /\ n - 1 = Rank(els, ids, i) BY <2>1
    <2>3. (CHOOSE k \in K : Rank(els, ids, k) = n - 1) = i BY <2>2, RankBijective
    <2>4. DOMAIN new = 1 .. N /\ new[n] = els[CHOOSE k \in K : Rank(els, ids, k) = n - 1]
        BY <2>2 DEF Reordered
    <2> QED BY <2>2, <2>3, <2>4
<1> HIDE DEF new, K, N
<1>4. ASSUME NEW x \in Ids(els)
      PROVE  x \in Ids(new) /\ RegistersOf(new)[x] = RegistersOf(els)[x]
    <2>1. PICK i \in DOMAIN els : els[i].id = x BY DEF Ids
    <2>2. PICK n \in DOMAIN new : new[n] = els[i] BY <1>2, <1>3
    <2>3. x \in Ids(new) BY <2>1, <2>2 DEF Ids
    <2> QED BY <1>1, <2>1, <2>2, <2>3, SameElement
<1>5. Ids(new) = Ids(els) BY <1>1, <1>4
<1>6. RegistersOf(new) = [x \in Ids(els) |-> RegistersOf(new)[x]]
      /\ RegistersOf(els) = [x \in Ids(els) |-> RegistersOf(els)[x]]
    BY <1>5 DEF RegistersOf
<1>7. [x \in Ids(els) |-> RegistersOf(new)[x]] = [x \in Ids(els) |-> RegistersOf(els)[x]]
    BY <1>4
<1> QED BY <1>6, <1>7 DEF new

\* A save encodes every register and changes none of the room.
LEMMA SaveSaves ==
    ASSUME Inv, Save
    PROVE  Map!Save
<1> DEFINE els == room.elements
           new == [i \in DOMAIN els |-> [els[i] EXCEPT !.data = Encoded(@)]]
<1>1. els \in Seq(Element) /\ DistinctIds(els) BY DEF Inv, GoodState, CanvasState
<1>2. Loaded(stored)'.elements = new
    <2>1. stored' = Serialize(room) BY DEF Save
    <2>2. Serialize(room).kind = "state" /\ Serialize(room).state.elements = new
        BY DEF Serialize, Inv, GoodState, CanvasState
    <2> QED BY <2>1, <2>2 DEF Loaded, ParseState
<1>3. new \in Seq(Element) /\ DistinctIds(new)
    <2>1. GoodState(Serialize(room).state) BY SerializeGood DEF Inv
    <2>2. Serialize(room).state.elements = new
        BY DEF Serialize, Inv, GoodState, CanvasState
    <2> QED BY <2>1, <2>2 DEF GoodState, CanvasState
<1>4. \A i \in DOMAIN els : /\ new[i].id = els[i].id /\ new[i].version = els[i].version
                            /\ new[i].data = Encoded(els[i].data)
    BY <1>1, LenProperties, ElementOfSeq DEF Element
<1>5. DOMAIN new = DOMAIN els OBVIOUS
<1> HIDE DEF els, new
<1>6. Ids(new) = Ids(els) BY <1>4, <1>5 DEF Ids
<1>7. ASSUME NEW x \in Ids(els)
      PROVE  RegistersOf(new)[x] = [version |-> RegistersOf(els)[x].version,
                                    data |-> Encoded(RegistersOf(els)[x].data)]
    <2>1. PICK i \in DOMAIN els : els[i].id = x BY DEF Ids
    <2>2. RegistersOf(els)[x] = [version |-> els[i].version, data |-> els[i].data]
        BY <1>1, <2>1, RegisterOfElement
    <2>3. RegistersOf(new)[x] = [version |-> new[i].version, data |-> new[i].data]
        BY <1>3, <1>4, <1>5, <2>1, RegisterOfElement
    <2> QED BY <1>4, <2>2, <2>3
<1>8. RegistersOf(new) = [x \in Ids(els) |-> RegistersOf(new)[x]]
      /\ DOMAIN RegistersOf(els) = Ids(els)
    BY <1>6 DEF RegistersOf
<1>9. RegistersOf(new) = [x \in DOMAIN RegistersOf(els) |->
            [version |-> RegistersOf(els)[x].version, data |-> Encoded(RegistersOf(els)[x].data)]]
    BY <1>7, <1>8
<1> QED BY <1>2, <1>9 DEF Map!Save, Save, els
\* An add or update with a new id creates its register.
LEMMA InsertCreates ==
    ASSUME Inv, NEW op, op.elemId \in ElemId, op.version \in Int, op.props \in Json,
           op.elemId \notin Ids(room.elements), UNCHANGED stored,
           room' = ApplyElementAdd(room, op).state \/ room' = ApplyElementUpdate(room, op).state
    PROVE  Map!Create(op.elemId)
<1> DEFINE els == room.elements
           e == NewElement(op)
<1>1. room \in CanvasState /\ els \in Seq(Element) /\ DistinctIds(els)
    BY DEF Inv, GoodState, CanvasState
<1>2. e \in Element /\ e.id = op.elemId BY DEF NewElement, Element
<1>3. room'.elements = Append(els, e)
    BY <1>1 DEF ApplyElementAdd, ApplyElementUpdate, Accepted, CanvasState
<1> HIDE DEF e
<1> QED BY <1>1, <1>2, <1>3, AppendCreates

\* An update raises the version of its element or does nothing.
LEMMA UpdateRaises ==
    ASSUME Inv, NEW op, op.elemId \in Ids(room.elements), op.version \in Int, op.props \in Json,
           room' = ApplyElementUpdate(room, op).state, UNCHANGED stored
    PROVE  Map!Raise(op.elemId) \/ UNCHANGED room
<1> DEFINE els == room.elements
           i == Min(Places(els, op.elemId))
           new == [els EXCEPT ![i].data = MergeJSON(@, op.props), ![i].version = op.version]
<1>1. room \in CanvasState /\ els \in Seq(Element) /\ DistinctIds(els) /\ GoodState(room)
    BY DEF Inv, GoodState, CanvasState
<1>2. i \in DOMAIN els /\ els[i].id = op.elemId BY <1>1, FirstPlace
<1>3. els[i] \in Element BY <1>1, <1>2, LenProperties, ElementOfSeq
<1> HIDE DEF i
<1>4. CASE op.version <= els[i].version BY <1>4 DEF ApplyElementUpdate, Rejected, i
<1>5. CASE ~(op.version <= els[i].version)
    <2>1. room'.elements = new
        BY <1>1, <1>5 DEF ApplyElementUpdate, Accepted, CanvasState, i
    <2>2. /\ DOMAIN new = DOMAIN els /\ new[i].id = els[i].id /\ new[i].version = op.version
          /\ \A j \in DOMAIN els \ {i} : new[j] = els[j]
        BY <1>2, <1>3 DEF Element
    <2>3. op.elemId \in ElemId BY <1>2, <1>3 DEF Element
    <2>4. new \in Seq(Element)
        <3>1. GoodState(room') BY <1>1, <2>3, UpdateGood
        <3>2. room'.elements \in Seq(Element) BY <3>1 DEF GoodState, CanvasState
        <3> QED BY ONLY <2>1, <3>2
    <2>5. new[i].version > els[i].version BY <1>3, <1>5, <2>2 DEF Element
    <2> HIDE DEF new
    <2>6. Map!Raise(els[i].id) BY <1>1, <1>2, <2>1, <2>2, <2>4, <2>5, WriteRaises
    <2> QED BY <1>2, <2>6
<1> QED BY <1>4, <1>5

\* A delete drops the register of its element or does nothing.
LEMMA DeleteDrops ==
    ASSUME Inv, NEW op, room' = ApplyElementDelete(room, op).state, UNCHANGED stored
    PROVE  (\E id \in ElemId : Map!Drop(id)) \/ UNCHANGED room
<1> DEFINE els == room.elements
           i == Min(Places(els, op.elemId))
<1>1. room \in CanvasState /\ els \in Seq(Element) /\ DistinctIds(els)
    BY DEF Inv, GoodState, CanvasState
<1>2. CASE op.elemId \notin Ids(els) BY <1>2 DEF ApplyElementDelete, Rejected
<1>3. CASE op.elemId \in Ids(els)
    <2>1. i \in DOMAIN els BY <1>1, <1>3, FirstPlace
    <2>2. els[i] \in Element BY <1>1, <2>1, LenProperties, ElementOfSeq
    <2>3. room'.elements = Without(els, i)
        BY <1>1, <1>3 DEF ApplyElementDelete, Accepted, CanvasState
    <2> HIDE DEF i
    <2>4. Map!Drop(els[i].id) BY <1>1, <2>1, <2>3, CutDrops
    <2> QED BY <2>2, <2>4 DEF Element
<1> QED BY <1>2, <1>3

\* Every step of the room is a step of the map or invisible to it.
LEMMA StepImplements ==
    ASSUME Inv, Inv', [Next]_vars
    PROVE  [Map!Next]_(Map!vars)
<1> USE DocumentsAssumption
<1>1. ASSUME UNCHANGED <<room, stored>> PROVE UNCHANGED Map!vars
    BY <1>1 DEF Map!vars, Loaded, ParseState
<1>2. ASSUME UNCHANGED stored, RegistersOf(room'.elements) = RegistersOf(room.elements)
      PROVE  UNCHANGED Map!vars
    BY <1>2 DEF Map!vars, Loaded, ParseState
<1>3. room \in CanvasState /\ room.elements \in Seq(Element) /\ DistinctIds(room.elements)
    BY DEF Inv, GoodState, CanvasState
<1>4. CASE ElementAdd
    <2>1. PICK id \in ElemId, v \in OpVersion, p \in Patch : Handle(AddOp(id, v, p))
        BY <1>4 DEF ElementAdd
    <2> DEFINE op == AddOp(id, v, p)
    <2>2. op.elemId = id /\ op.version \in Int /\ op.props \in Json
          /\ room' = ApplyElementAdd(room, op).state /\ UNCHANGED stored
        BY <2>1 DEF Handle, Apply, AddOp, AnOp
    <2> HIDE DEF op
    <2>3. CASE id \in Ids(room.elements)
        BY <1>1, <2>2, <2>3 DEF ApplyElementAdd, Rejected
    <2>4. CASE id \notin Ids(room.elements)
        <3>1. Map!Create(id) BY <2>2, <2>4, InsertCreates
        <3> QED BY <3>1 DEF Map!Next
    <2> QED BY <2>3, <2>4
<1>5. CASE ElementUpdate
    <2>1. PICK id \in ElemId, v \in OpVersion, p \in Patch : Handle(UpdateOp(id, v, p))
        BY <1>5 DEF ElementUpdate
    <2> DEFINE op == UpdateOp(id, v, p)
    <2>2. op.elemId = id /\ op.version \in Int /\ op.props \in Json
          /\ room' = ApplyElementUpdate(room, op).state /\ UNCHANGED stored
        BY <2>1 DEF Handle, Apply, UpdateOp, AnOp
    <2> HIDE DEF op
    <2>3. CASE id \in Ids(room.elements)
        <3>1. Map!Raise(id) \/ UNCHANGED room BY <2>2, <2>3, UpdateRaises
        <3> QED BY <1>1, <2>2, <3>1 DEF Map!Next
    <2>4. CASE id \notin Ids(room.elements)
        <3>1. Map!Create(id) BY <2>2, <2>4, InsertCreates
        <3> QED BY <3>1 DEF Map!Next
    <2> QED BY <2>3, <2>4
<1>6. CASE ElementDelete
    <2>1. PICK id \in ElemId, v \in OpVersion : Handle(DeleteOp(id, v))
        BY <1>6 DEF ElementDelete
    <2> DEFINE op == DeleteOp(id, v)
    <2>2. room' = ApplyElementDelete(room, op).state /\ UNCHANGED stored
        BY <2>1 DEF Handle, Apply, DeleteOp, AnOp
    <2> HIDE DEF op
    <2>3. (\E x \in ElemId : Map!Drop(x)) \/ UNCHANGED room BY <2>2, DeleteDrops
    <2> QED BY <1>1, <2>2, <2>3 DEF Map!Next
<1>7. CASE ElementsReorder
    <2>1. PICK ids \in IdList : Handle(ReorderOp(ids)) BY <1>7 DEF ElementsReorder
    <2>2. ids \in Seq(ElemId) /\ UNCHANGED stored
          /\ room' = ApplyElementsReorder(room, ReorderOp(ids)).state
        BY <2>1 DEF Handle, Apply, ReorderOp, AnOp
    <2>3. room' = room \/ room'.elements = Reordered(room.elements, ids)
        BY <1>3, <2>2 DEF ApplyElementsReorder, ReorderOp, AnOp, Accepted, Rejected, CanvasState
    <2> QED BY <1>1, <1>2, <1>3, <2>2, <2>3, ReorderPermutes
<1>8. CASE CanvasUpdate
    <2>1. PICK p \in Patch : Handle(CanvasOp(p)) BY <1>8 DEF CanvasUpdate
    <2>2. UNCHANGED stored /\ room' = ApplyCanvasUpdate(room, CanvasOp(p)).state
        BY <2>1 DEF Handle, Apply, CanvasOp, AnOp
    <2>3. room'.elements = room.elements
        BY <1>3, <2>2 DEF ApplyCanvasUpdate, Accepted, CanvasState
    <2> QED BY <1>2, <2>2, <2>3
<1>9. CASE Save BY <1>9, SaveSaves DEF Map!Next
<1>10. CASE PutData
    <2>1. GoodState(Loaded(stored))' BY LoadedGood DEF Inv
    <2>2. Map!IsMap(RegistersOf(Loaded(stored).elements))'
        BY <2>1, RegistersAreMap DEF GoodState, CanvasState
    <2>3. Map!Import BY <1>10, <2>2 DEF PutData, Map!Import, Map!IsMap
    <2> QED BY <2>3 DEF Map!Next
<1>11. CASE Reopen
    <2>1. Map!Restore BY <1>11 DEF Reopen, Map!Restore, Loaded, ParseState
    <2> QED BY <2>1 DEF Map!Next
<1>12. CASE ReopenBlank
    <2>1. DOMAIN <<>> = {} BY EmptySeq
    <2>2. Map!Forget
        BY <1>12, <2>1 DEF ReopenBlank, Map!Forget, FreshState, RegistersOf, Ids, Loaded, ParseState
    <2> QED BY <2>2 DEF Map!Next
<1>13. CASE UNCHANGED vars BY <1>1, <1>13 DEF vars
<1> QED BY <1>4, <1>5, <1>6, <1>7, <1>8, <1>9, <1>10, <1>11, <1>12, <1>13 DEF Next

\* The room is a map of versioned registers, whatever the order of its list,
\* for canvases of any size: an operation touches one element at most, an
\* element is rewritten only with a higher version, a reorder touches none.
THEOREM RoomImplementsMap == Spec => ImplementsElementMap
<1>1. Init => Map!Init
    <2> SUFFICES ASSUME Init PROVE Map!Init OBVIOUS
    <2>1. GoodState(Loaded(stored)) /\ room = Loaded(stored) BY InvInit, LoadedGood DEF Init, Inv
    <2>2. Map!IsMap(RegistersOf(Loaded(stored).elements))
        BY <2>1, RegistersAreMap DEF GoodState, CanvasState
    <2> QED BY <2>1, <2>2 DEF Map!Init, Map!IsMap
<1>2. Inv /\ Inv' /\ [Next]_vars => [Map!Next]_(Map!vars) BY StepImplements
<1> QED BY <1>1, <1>2, Invariant, PTL DEF Spec, ImplementsElementMap, Map!Spec
----------------------------------------------------------------------------
(* A restart is invisible                                                  *)

Alike(e, f) ==
    e.id = f.id /\ e.version = f.version /\ Encoded(e.data) = Encoded(f.data)

AlikeLists(els, new) ==
    DOMAIN els = DOMAIN new /\ \A i \in DOMAIN els : Alike(els[i], new[i])

\* Two states of which a save writes the same text.
SameText(s, t) ==
    /\ GoodState(s) /\ GoodState(t)
    /\ AlikeLists(s.elements, t.elements)
    /\ Encoded(s.props) = Encoded(t.props) /\ s.version = t.version

\* They do write the same text.
LEMMA SameTextSaved ==
    ASSUME NEW s, NEW t, SameText(s, t)
    PROVE  Serialize(s) = Serialize(t)
<1> DEFINE els == s.elements
           new == t.elements
           enc(l) == [i \in DOMAIN l |-> [l[i] EXCEPT !.data = Encoded(@)]]
<1>1. s \in CanvasState /\ t \in CanvasState /\ els \in Seq(Element) /\ new \in Seq(Element)
    BY DEF SameText, GoodState, CanvasState
<1>2. \A i \in DOMAIN els : els[i] \in Element /\ new[i] \in Element /\ Alike(els[i], new[i])
    BY <1>1, LenProperties, ElementOfSeq DEF SameText, AlikeLists
<1>3. \A i \in DOMAIN els : [els[i] EXCEPT !.data = Encoded(@)] = [new[i] EXCEPT !.data = Encoded(@)]
    BY <1>2 DEF Alike, Element
<1>4. DOMAIN els = DOMAIN new BY DEF SameText, AlikeLists
<1>5. enc(els) = enc(new) BY <1>3, <1>4
<1>6. Serialize(s) = [kind |-> "state",
                      state |-> [s EXCEPT !.elements = enc(els), !.props = Encoded(@)]]
    BY DEF Serialize
<1>7. Serialize(t) = [kind |-> "state",
                      state |-> [t EXCEPT !.elements = enc(new), !.props = Encoded(@)]]
    BY DEF Serialize
<1> HIDE DEF enc, els, new
<1>8. [s EXCEPT !.elements = enc(els), !.props = Encoded(@)]
            = [t EXCEPT !.elements = enc(new), !.props = Encoded(@)]
    BY <1>1, <1>5 DEF SameText, CanvasState
<1> QED BY <1>6, <1>7, <1>8

\* What was saved and loaded reads as what was not.
LEMMA LoadedSame ==
    ASSUME NEW s, GoodState(s)
    PROVE  SameText(s, Loaded(Serialize(s)))
<1> DEFINE els == s.elements
           new == [i \in DOMAIN els |-> [els[i] EXCEPT !.data = Encoded(@)]]
           t == Serialize(s).state
<1>1. Loaded(Serialize(s)) = t BY DEF Loaded, ParseState, Serialize
<1>2. GoodState(t) BY SerializeGood
<1>3. s \in CanvasState /\ els \in Seq(Element) BY DEF GoodState, CanvasState
<1>4. t.elements = new /\ t.props = Encoded(s.props) /\ t.version = s.version
    BY <1>3 DEF Serialize, CanvasState
<1>5. \A j \in Json : Encoded(Encoded(j)) = Encoded(j) BY DEF Encoded, Null
<1>6. \A i \in DOMAIN els : els[i] \in Element BY <1>3, LenProperties, ElementOfSeq
<1>7. AlikeLists(els, new) BY <1>5, <1>6 DEF AlikeLists, Alike, Element
<1>8. Encoded(Encoded(s.props)) = Encoded(s.props) BY <1>3, <1>5 DEF CanvasState
<1> HIDE DEF t, new
<1> QED BY <1>1, <1>2, <1>4, <1>7, <1>8 DEF SameText

\* A patch that is an object, or none, gives the same text on nil as on null.
LEMMA MergeSame ==
    ASSUME NEW b \in Json, NEW c \in Json, Encoded(b) = Encoded(c),
           NEW p \in Json, p.kind \in {"object", "absent"}
    PROVE  Encoded(MergeJSON(b, p)) = Encoded(MergeJSON(c, p))
<1>1. ASSUME NEW j \in Json, j.kind = "absent"
      PROVE  Encoded(MergeJSON(j, p)) = Encoded(MergeJSON(Null, p))
    <2>1. CASE p.kind = "absent" BY <1>1, <2>1 DEF MergeJSON, Encoded, Null
    <2>2. CASE p.kind = "object"
        <3>1. PICK K \in SUBSET Key : p.fields \in [K -> Val] BY DEF Json, Fields
        <3>2. DOMAIN EmptyObject = {} BY DEF EmptyObject
        <3>3. Over(p.fields, EmptyObject) = p.fields BY <3>1, <3>2 DEF Over
        <3>4. p = [kind |-> "object", fields |-> p.fields] BY <2>2 DEF Json
        <3>5. MergeJSON(Null, p) = p BY <2>2, <3>3, <3>4 DEF MergeJSON, Null, Object
        <3> QED BY <1>1, <3>5 DEF MergeJSON
    <2> QED BY <2>1, <2>2
<1>2. CASE b.kind = "absent" /\ c.kind = "absent" BY <1>1, <1>2
<1>3. CASE b.kind = "absent" /\ c.kind # "absent"
    <2>1. c = Null BY <1>3 DEF Encoded
    <2> QED BY <1>1, <1>3, <2>1
<1>4. CASE b.kind # "absent" /\ c.kind = "absent"
    <2>1. b = Null BY <1>4 DEF Encoded
    <2> QED BY <1>1, <1>4, <2>1
<1>5. CASE b.kind # "absent" /\ c.kind # "absent" BY <1>5 DEF Encoded
<1> QED BY <1>2, <1>3, <1>4, <1>5

\* Alike lists have the same ids at the same places.
LEMMA SamePlaces ==
    ASSUME NEW els, NEW new, AlikeLists(els, new)
    PROVE  Ids(els) = Ids(new) /\ \A id : Places(els, id) = Places(new, id)
BY DEF AlikeLists, Alike, Ids, Places

\* Appending the same element, cutting at the same place and reordering by
\* the same ids keep lists alike.
LEMMA AppendSame ==
    ASSUME NEW els \in Seq(Element), NEW new \in Seq(Element), AlikeLists(els, new),
           NEW e \in Element
    PROVE  AlikeLists(Append(els, e), Append(new, e))
<1> DEFINE n == Len(els)
<1>1. DOMAIN els = 1 .. n /\ DOMAIN new = 1 .. n /\ n \in Nat /\ Len(new) = n
    BY LenProperties DEF AlikeLists
<1>2. /\ DOMAIN Append(els, e) = 1 .. n + 1 /\ Append(els, e)[n + 1] = e
      /\ \A i \in 1 .. n : Append(els, e)[i] = els[i]
    BY <1>1, AppendProperties, LenProperties
<1>3. /\ DOMAIN Append(new, e) = 1 .. n + 1 /\ Append(new, e)[n + 1] = e
      /\ \A i \in 1 .. n : Append(new, e)[i] = new[i]
    BY <1>1, AppendProperties, LenProperties
<1>4. \A i \in 1 .. n + 1 : i # n + 1 => i \in 1 .. n BY <1>1
<1> HIDE DEF n
<1> QED BY <1>1, <1>2, <1>3, <1>4 DEF AlikeLists, Alike

\* Without looks at places only.
LEMMA WithoutSame ==
    ASSUME NEW els \in Seq(Element), NEW new \in Seq(Element), AlikeLists(els, new),
           NEW i \in DOMAIN els
    PROVE  AlikeLists(Without(els, i), Without(new, i))
<1> DEFINE n == Len(els)
<1>1. DOMAIN els = 1 .. n /\ DOMAIN new = 1 .. n /\ n \in Nat /\ Len(new) = n /\ i \in 1 .. n
    BY LenProperties DEF AlikeLists
<1>2. \A j \in 1 .. n - 1 : (IF j < i THEN j ELSE j + 1) \in 1 .. n BY <1>1
<1>3. ASSUME NEW j \in 1 .. n - 1 PROVE Alike(Without(els, i)[j], Without(new, i)[j])
    <2>1. /\ Without(els, i)[j] = els[IF j < i THEN j ELSE j + 1]
          /\ Without(new, i)[j] = new[IF j < i THEN j ELSE j + 1]
        BY <1>1, <1>3 DEF Without
    <2> QED BY <1>1, <1>2, <2>1 DEF AlikeLists
<1> QED BY <1>1, <1>3 DEF AlikeLists, Without

\* A reorder looks at ids only.
LEMMA ReorderSame ==
    ASSUME NEW els \in Seq(Element), NEW new \in Seq(Element), AlikeLists(els, new),
           NEW ids \in Seq(ElemId)
    PROVE  AlikeLists(Reordered(els, ids), Reordered(new, ids))
<1> DEFINE K == Kept(els, ids)
           N == Cardinality(K)
           pick(n) == CHOOSE i \in K : Rank(els, ids, i) = n - 1
           other(n) == CHOOSE i \in K : Rank(new, ids, i) = n - 1
<1>1. DOMAIN els = DOMAIN new /\ \A i \in DOMAIN els : els[i].id = new[i].id
    BY DEF AlikeLists, Alike
<1>2. Kept(new, ids) = K BY <1>1, SamePlaces DEF Kept
<1>3. \A i \in DOMAIN els : Slot(new, ids, i) = Slot(els, ids, i) BY <1>1 DEF Slot
<1>4. K \subseteq DOMAIN els /\ N \in Nat BY KeptIsFinite, FS_CardinalityType
<1>5. ASSUME NEW i \in K PROVE Rank(new, ids, i) = Rank(els, ids, i)
    <2>1. {j \in K : Slot(new, ids, j) < Slot(new, ids, i)}
            = {j \in K : Slot(els, ids, j) < Slot(els, ids, i)}
        BY <1>3, <1>4
    <2> QED BY <1>2, <2>1 DEF Rank
<1>6. /\ Reordered(els, ids) = [n \in 1 .. N |-> els[pick(n)]]
      /\ Reordered(new, ids) = [n \in 1 .. N |-> new[other(n)]]
    BY <1>2 DEF Reordered
<1>7. ASSUME NEW n \in 1 .. N PROVE pick(n) \in K /\ other(n) = pick(n)
    <2>1. n - 1 \in 0 .. N - 1 BY <1>4
    <2>2. \E i \in K : Rank(els, ids, i) = n - 1 BY <2>1, RankBijective
    <2>3. pick(n) \in K /\ Rank(els, ids, pick(n)) = n - 1 BY <2>2
    <2>4. other(n) \in K /\ Rank(els, ids, other(n)) = n - 1 BY <1>5, <2>2
    <2> QED BY <2>3, <2>4, RankBijective
<1> HIDE DEF K, N, pick, other
<1>8. ASSUME NEW n \in 1 .. N PROVE Alike(els[pick(n)], new[other(n)])
    BY <1>4, <1>7 DEF AlikeLists
<1> QED BY <1>6, <1>8 DEF AlikeLists

SameAnswer(a, b) ==
    /\ a.ok = b.ok
    /\ AlikeLists(a.state.elements, b.state.elements)
    /\ Encoded(a.state.props) = Encoded(b.state.props)
    /\ a.state.version = b.state.version

\* Answers made of states with the same text, by the two ways to answer.
LEMMA RejectedSame ==
    ASSUME NEW s, NEW t, SameText(s, t)
    PROVE  SameAnswer(Rejected(s), Rejected(t))
BY DEF SameText, SameAnswer, Rejected

\* An accepted operation raises both versions by one.
LEMMA AcceptedSame ==
    ASSUME NEW a \in CanvasState, NEW b \in CanvasState, AlikeLists(a.elements, b.elements),
           Encoded(a.props) = Encoded(b.props), a.version = b.version
    PROVE  SameAnswer(Accepted(a), Accepted(b))
BY DEF Accepted, SameAnswer, CanvasState

\* States with the same text answer an operation alike. An add looks for the
\* id and appends.
LEMMA AddSame ==
    ASSUME NEW s, NEW t, SameText(s, t), NEW op,
           op.elemId \in ElemId, op.version \in Int, op.props \in Json
    PROVE  /\ SameAnswer(ApplyElementAdd(s, op), ApplyElementAdd(t, op))
           /\ op.elemId \notin Ids(s.elements) =>
                SameAnswer(ApplyElementUpdate(s, op), ApplyElementUpdate(t, op))
<1> DEFINE e == NewElement(op)
           a == [s EXCEPT !.elements = Append(@, e)]
           b == [t EXCEPT !.elements = Append(@, e)]
<1>1. /\ s \in CanvasState /\ t \in CanvasState /\ AlikeLists(s.elements, t.elements)
      /\ s.elements \in Seq(Element) /\ t.elements \in Seq(Element)
    BY DEF SameText, GoodState, CanvasState
<1>2. Ids(s.elements) = Ids(t.elements) BY <1>1, SamePlaces
<1>3. e \in Element BY DEF NewElement, Element
<1>4. CASE op.elemId \in Ids(s.elements)
    BY <1>2, <1>4, RejectedSame DEF ApplyElementAdd
<1>5. CASE op.elemId \notin Ids(s.elements)
    <2>1. /\ ApplyElementAdd(s, op) = Accepted(a) /\ ApplyElementUpdate(s, op) = Accepted(a)
          /\ ApplyElementAdd(t, op) = Accepted(b) /\ ApplyElementUpdate(t, op) = Accepted(b)
        BY <1>2, <1>5 DEF ApplyElementAdd, ApplyElementUpdate
    <2>2. /\ Append(s.elements, e) \in Seq(Element) /\ Append(t.elements, e) \in Seq(Element)
          /\ AlikeLists(Append(s.elements, e), Append(t.elements, e))
        BY <1>1, <1>3, AppendSame
    <2> HIDE DEF e
    <2>3. SameAnswer(Accepted(a), Accepted(b))
        BY <1>1, <2>2, AcceptedSame DEF SameText, CanvasState
    <2> QED BY <2>1, <2>3
<1> QED BY <1>4, <1>5

\* An update compares versions, which agree, and merges.
LEMMA UpdateSame ==
    ASSUME NEW s, NEW t, SameText(s, t), NEW op, op.elemId \in ElemId, op.version \in Int,
           op.props \in Json, op.props.kind \in {"object", "absent"}
    PROVE  SameAnswer(ApplyElementUpdate(s, op), ApplyElementUpdate(t, op))
<1> DEFINE els == s.elements
           new == t.elements
           i == Min(Places(els, op.elemId))
           write(l) == [l EXCEPT ![i].data = MergeJSON(@, op.props), ![i].version = op.version]
           a == [s EXCEPT !.elements = write(els)]
           b == [t EXCEPT !.elements = write(new)]
<1>1. /\ s \in CanvasState /\ t \in CanvasState /\ AlikeLists(els, new)
      /\ els \in Seq(Element) /\ new \in Seq(Element)
    BY DEF SameText, GoodState, CanvasState
<1>2. Ids(els) = Ids(new) /\ i = Min(Places(new, op.elemId)) BY <1>1, SamePlaces
<1>3. CASE op.elemId \notin Ids(els) BY <1>3, AddSame
<1>4. CASE op.elemId \in Ids(els)
    <2>1. i \in DOMAIN els /\ i \in DOMAIN new BY <1>1, <1>4, FirstPlace DEF AlikeLists
    <2>2. els[i] \in Element /\ new[i] \in Element /\ Alike(els[i], new[i])
        BY <1>1, <2>1, LenProperties, ElementOfSeq DEF AlikeLists
    <2>3. CASE op.version <= els[i].version
        BY <1>2, <1>4, <2>2, <2>3, RejectedSame DEF ApplyElementUpdate, Alike
    <2>4. CASE ~(op.version <= els[i].version)
        <3>1. ApplyElementUpdate(s, op) = Accepted(a)
            BY <1>1, <1>4, <2>4 DEF ApplyElementUpdate, CanvasState
        <3>2. ~(op.version <= new[i].version) /\ op.elemId \in Ids(new)
            BY <1>2, <1>4, <2>2, <2>4 DEF Alike
        <3>3. ApplyElementUpdate(t, op) = Accepted(b)
            BY ONLY <1>1, <1>2, <3>2 DEF ApplyElementUpdate, CanvasState
        <3> HIDE DEF i
        <3>4. Encoded(MergeJSON(els[i].data, op.props)) = Encoded(MergeJSON(new[i].data, op.props))
            BY <2>2, MergeSame DEF Alike, Element
        <3>5. AlikeLists(write(els), write(new))
            BY <1>1, <2>1, <2>2, <3>4 DEF AlikeLists, Alike, Element
        <3>6. write(els) \in Seq(Element) /\ write(new) \in Seq(Element)
            <4>1. GoodState(Accepted(a).state) /\ GoodState(Accepted(b).state)
                BY <3>1, <3>3, UpdateGood DEF SameText
            <4> HIDE DEF write
            <4>2. /\ Accepted(a).state.elements = write(els)
                  /\ Accepted(b).state.elements = write(new)
                BY <1>1 DEF Accepted, CanvasState
            <4> QED BY ONLY <4>1, <4>2 DEF GoodState, CanvasState
        <3> HIDE DEF write
        <3>7. SameAnswer(Accepted(a), Accepted(b))
            BY <1>1, <3>5, <3>6, AcceptedSame DEF SameText, CanvasState
        <3> QED BY <3>1, <3>3, <3>7
    <2> QED BY <2>3, <2>4
<1> QED BY <1>3, <1>4

\* A delete looks for the id.
LEMMA DeleteSame ==
    ASSUME NEW s, NEW t, SameText(s, t), NEW op
    PROVE  SameAnswer(ApplyElementDelete(s, op), ApplyElementDelete(t, op))
<1> DEFINE els == s.elements
           new == t.elements
           i == Min(Places(els, op.elemId))
           a == [s EXCEPT !.elements = Without(els, i)]
           b == [t EXCEPT !.elements = Without(new, i)]
<1>1. /\ s \in CanvasState /\ t \in CanvasState /\ AlikeLists(els, new)
      /\ els \in Seq(Element) /\ new \in Seq(Element) /\ DistinctIds(els) /\ DistinctIds(new)
    BY DEF SameText, GoodState, CanvasState
<1>2. Ids(els) = Ids(new) /\ i = Min(Places(new, op.elemId)) BY <1>1, SamePlaces
<1>3. CASE op.elemId \notin Ids(els) BY <1>2, <1>3, RejectedSame DEF ApplyElementDelete
<1>4. CASE op.elemId \in Ids(els)
    <2>1. i \in DOMAIN els /\ i \in DOMAIN new BY <1>1, <1>4, FirstPlace DEF AlikeLists
    <2>2. ApplyElementDelete(s, op) = Accepted(a) /\ ApplyElementDelete(t, op) = Accepted(b)
        BY <1>1, <1>2, <1>4 DEF ApplyElementDelete, CanvasState
    <2> HIDE DEF i
    <2>3. /\ Without(els, i) \in Seq(Element) /\ Without(new, i) \in Seq(Element)
          /\ AlikeLists(Without(els, i), Without(new, i))
        BY <1>1, <2>1, WithoutElement, WithoutSame
    <2>4. SameAnswer(Accepted(a), Accepted(b))
        BY <1>1, <2>3, AcceptedSame DEF SameText, CanvasState
    <2> QED BY <2>2, <2>4
<1> QED BY <1>3, <1>4

\* A reorder looks at the ids.
LEMMA OrderSame ==
    ASSUME NEW s, NEW t, SameText(s, t), NEW op, op.elemIds \in Seq(ElemId)
    PROVE  SameAnswer(ApplyElementsReorder(s, op), ApplyElementsReorder(t, op))
<1> DEFINE ids == op.elemIds
           a == [s EXCEPT !.elements = Reordered(s.elements, ids)]
           b == [t EXCEPT !.elements = Reordered(t.elements, ids)]
<1>1. /\ s \in CanvasState /\ t \in CanvasState /\ AlikeLists(s.elements, t.elements)
      /\ s.elements \in Seq(Element) /\ t.elements \in Seq(Element)
    BY DEF SameText, GoodState, CanvasState
<1>2. CASE ids = <<>> BY <1>2, RejectedSame DEF ApplyElementsReorder
<1>3. CASE ids # <<>>
    <2>1. ApplyElementsReorder(s, op) = Accepted(a) /\ ApplyElementsReorder(t, op) = Accepted(b)
        BY <1>3 DEF ApplyElementsReorder
    <2>2. /\ Reordered(s.elements, ids) \in Seq(Element) /\ Reordered(t.elements, ids) \in Seq(Element)
          /\ AlikeLists(Reordered(s.elements, ids), Reordered(t.elements, ids))
        BY <1>1, ReorderedProperties, ReorderSame
    <2>3. SameAnswer(Accepted(a), Accepted(b))
        BY <1>1, <2>2, AcceptedSame DEF SameText, CanvasState
    <2> QED BY <2>1, <2>3
<1> QED BY <1>2, <1>3

\* A canvas update merges the props.
LEMMA PropsSame ==
    ASSUME NEW s, NEW t, SameText(s, t), NEW op, op.props \in Json,
           op.props.kind \in {"object", "absent"}
    PROVE  SameAnswer(ApplyCanvasUpdate(s, op), ApplyCanvasUpdate(t, op))
<1> DEFINE a == [s EXCEPT !.props = MergeJSON(@, op.props)]
           b == [t EXCEPT !.props = MergeJSON(@, op.props)]
<1>1. s \in CanvasState /\ t \in CanvasState /\ s.props \in Json /\ t.props \in Json
    BY DEF SameText, GoodState, CanvasState
<1>2. MergeJSON(s.props, op.props) \in Json /\ MergeJSON(t.props, op.props) \in Json
    BY <1>1, MergeType
<1>3. Encoded(MergeJSON(s.props, op.props)) = Encoded(MergeJSON(t.props, op.props))
    BY <1>1, MergeSame DEF SameText
<1>4. SameAnswer(Accepted(a), Accepted(b))
    BY <1>1, <1>2, <1>3, AcceptedSame DEF SameText, CanvasState
<1> QED BY <1>4 DEF ApplyCanvasUpdate
\* So a state and the one its text is loaded as answer every operation alike,
\* and go on with the same text.
LEMMA ApplySame ==
    ASSUME NEW s, NEW t, SameText(s, t), NEW op \in Ops, op.props.kind \in {"object", "absent"}
    PROVE  Apply(s, op).ok = Apply(t, op).ok /\ SameText(Apply(s, op).state, Apply(t, op).state)
<1> USE DocumentsAssumption
<1>1. SUFFICES /\ SameAnswer(Apply(s, op), Apply(t, op))
               /\ GoodState(Apply(s, op).state) /\ GoodState(Apply(t, op).state)
    BY DEF SameText, SameAnswer
<1>2. GoodState(s) /\ GoodState(t) BY DEF SameText
<1>3. ASSUME NEW id \in ElemId, NEW v \in OpVersion, NEW p \in Patch, op = AddOp(id, v, p)
      PROVE  /\ SameAnswer(Apply(s, op), Apply(t, op))
             /\ GoodState(Apply(s, op).state) /\ GoodState(Apply(t, op).state)
    <2>1. op.elemId \in ElemId /\ op.version \in Int /\ op.props \in Json
        BY <1>3 DEF AddOp, AnOp
    <2>2. \A x : Apply(x, op) = ApplyElementAdd(x, op) BY <1>3 DEF Apply, AddOp, AnOp
    <2> QED BY <1>2, <2>1, <2>2, AddSame, AddGood
<1>4. ASSUME NEW id \in ElemId, NEW v \in OpVersion, NEW p \in Patch, op = UpdateOp(id, v, p)
      PROVE  /\ SameAnswer(Apply(s, op), Apply(t, op))
             /\ GoodState(Apply(s, op).state) /\ GoodState(Apply(t, op).state)
    <2>1. op.elemId \in ElemId /\ op.version \in Int /\ op.props \in Json
        BY <1>4 DEF UpdateOp, AnOp
    <2>2. \A x : Apply(x, op) = ApplyElementUpdate(x, op) BY <1>4 DEF Apply, UpdateOp, AnOp
    <2> QED BY <1>2, <2>1, <2>2, UpdateSame, UpdateGood
<1>5. ASSUME NEW id \in ElemId, NEW v \in OpVersion, op = DeleteOp(id, v)
      PROVE  /\ SameAnswer(Apply(s, op), Apply(t, op))
             /\ GoodState(Apply(s, op).state) /\ GoodState(Apply(t, op).state)
    <2>1. \A x : Apply(x, op) = ApplyElementDelete(x, op) BY <1>5 DEF Apply, DeleteOp, AnOp
    <2> QED BY <1>2, <2>1, DeleteSame, DeleteGood
<1>6. ASSUME NEW ids \in IdList, op = ReorderOp(ids)
      PROVE  /\ SameAnswer(Apply(s, op), Apply(t, op))
             /\ GoodState(Apply(s, op).state) /\ GoodState(Apply(t, op).state)
    <2>1. op.elemIds \in Seq(ElemId) BY <1>6 DEF ReorderOp, AnOp
    <2>2. \A x : Apply(x, op) = ApplyElementsReorder(x, op) BY <1>6 DEF Apply, ReorderOp, AnOp
    <2> QED BY <1>2, <2>1, <2>2, OrderSame, ReorderGood
<1>7. ASSUME NEW p \in Patch, op = CanvasOp(p)
      PROVE  /\ SameAnswer(Apply(s, op), Apply(t, op))
             /\ GoodState(Apply(s, op).state) /\ GoodState(Apply(t, op).state)
    <2>1. op.props \in Json BY <1>7 DEF CanvasOp, AnOp
    <2>2. \A x : Apply(x, op) = ApplyCanvasUpdate(x, op) BY <1>7 DEF Apply, CanvasOp, AnOp
    <2> QED BY <1>2, <2>1, <2>2, PropsSame, CanvasGood
<1> QED BY <1>3, <1>4, <1>5, <1>6, <1>7 DEF Ops

\* A restart is invisible, for canvases of any size: nil and null data, equal
\* in the text, never lead to different texts or different answers.
THEOREM RestartsAreInvisible == Spec => []RestartTransparent
<1>1. ASSUME Inv PROVE RestartTransparent
    <2> DEFINE back == Loaded(Serialize(room))
    <2>1. SameText(room, back) BY <1>1, LoadedSame DEF Inv
    <2> HIDE DEF back
    <2>2. ASSUME NEW op \in Ops, op.props.kind \in {"object", "absent"}
          PROVE  /\ Apply(room, op).ok = Apply(back, op).ok
                 /\ Serialize(Apply(room, op).state) = Serialize(Apply(back, op).state)
        BY <2>1, <2>2, ApplySame, SameTextSaved
    <2> QED BY <2>2 DEF RestartTransparent, back
<1>2. Inv => RestartTransparent BY <1>1
<1> QED BY <1>2, Invariant, PTL
=============================================================================
