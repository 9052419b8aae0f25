------------------------------ MODULE CrdtRoom ------------------------------
(***************************************************************************)
(* One canvas over time: the state a live room holds (Room.crdtState), the *)
(* text in canvases.data, the operations editors send, the saves, and the  *)
(* room being discarded and loaded again.  A room applies one operation at *)
(* a time under its lock, so every operation is one step here.             *)
(***************************************************************************)
EXTENDS CrdtState

CONSTANTS
    OpVersion,   \* versions that operations carry
    Patch,       \* props that operations carry
    IdList,      \* elem_ids of reorder operations
    Documents,   \* texts that canvases.data holds first, or REST writes later
    MaxVersion   \* bound: operations stop once the room's version reaches it

ASSUME DocumentsAssumption ==
    /\ OpVersion \subseteq Int
    /\ Patch \subseteq Json
    /\ IdList \subseteq Seq(ElemId)
    /\ Documents \subseteq Document
    /\ \A doc \in Documents : DistinctIds(doc.state.elements)

VARIABLES
    room,    \* Room.crdtState
    stored   \* canvases.data

vars == <<room, stored>>

\* addClient falls back to an empty state when the text does not parse.
Loaded(doc) == IF ParseState(doc).ok THEN ParseState(doc).state ELSE FreshState

\* An operation reads only the fields its type uses; the others do not matter.
AnOp(type, id, v, p, ids) ==
    [type |-> type, elemId |-> id, version |-> v, props |-> p, elemIds |-> ids]

AnyId == CHOOSE id \in ElemId : TRUE

AddOp(id, v, p)    == AnOp("element_add", id, v, p, <<>>)
UpdateOp(id, v, p) == AnOp("element_update", id, v, p, <<>>)
DeleteOp(id, v)    == AnOp("element_delete", id, v, Absent, <<>>)
ReorderOp(ids)     == AnOp("elements_reorder", AnyId, 0, Absent, ids)
CanvasOp(p)        == AnOp("canvas_update", AnyId, 0, p, <<>>)

Ops ==
    {AddOp(id, v, p) : id \in ElemId, v \in OpVersion, p \in Patch}
    \cup {UpdateOp(id, v, p) : id \in ElemId, v \in OpVersion, p \in Patch}
    \cup {DeleteOp(id, v) : id \in ElemId, v \in OpVersion}
    \cup {ReorderOp(ids) : ids \in IdList}
    \cup {CanvasOp(p) : p \in Patch}

Init ==
    /\ stored \in Documents
    /\ room = Loaded(stored)

Handle(op) ==
    /\ room.version < MaxVersion
    /\ room' = Apply(room, op).state
    /\ UNCHANGED stored

ElementAdd ==
    \E id \in ElemId, v \in OpVersion, p \in Patch : Handle(AddOp(id, v, p))

ElementUpdate ==
    \E id \in ElemId, v \in OpVersion, p \in Patch : Handle(UpdateOp(id, v, p))

ElementDelete == \E id \in ElemId, v \in OpVersion : Handle(DeleteOp(id, v))

ElementsReorder == \E ids \in IdList : Handle(ReorderOp(ids))

CanvasUpdate == \E p \in Patch : Handle(CanvasOp(p))

Save ==
    /\ stored' = Serialize(room)
    /\ UNCHANGED room

\* PUT /canvases/:id/data stores the request body as it is.
PutData ==
    /\ stored' \in Documents
    /\ UNCHANGED room

\* The last client left or the server restarted; the next join loads the text.
Reopen ==
    /\ room' = Loaded(stored)
    /\ UNCHANGED stored

\* The database did not answer the load: the room starts empty all the same,
\* while the text is still there.
ReopenBlank ==
    /\ room' = FreshState
    /\ UNCHANGED stored

Next ==
    \/ ElementAdd
    \/ ElementUpdate
    \/ ElementDelete
    \/ ElementsReorder
    \/ CanvasUpdate
    \/ Save
    \/ PutData
    \/ Reopen
    \/ ReopenBlank

Spec == Init /\ [][Next]_vars

----------------------------------------------------------------------------

\* The room and the stored text are well formed.
TypeOK ==
    /\ room \in CanvasState
    /\ stored \in Document

\* No sequence of adds, updates out of order, deletes, reorders and reloads
\* gives two elements of a canvas one id: every loop in crdt.go that stops at
\* the first match relies on it (applyElementUpdate, applyElementDelete), and
\* so does the map byID of applyElementsReorder, which would lose one of them.
UniqueIds ==
    /\ DistinctIds(room.elements)
    /\ DistinctIds(stored.state.elements)

\* A restart is invisible: a room that was saved and loaded again accepts
\* the operations the live room accepts and ends with the text it ends with.
\* Only props that are objects or absent have this property: a scalar patch
\* replaces nil data and is ignored by the null that nil data is saved as.
RestartTransparent ==
    LET back == Loaded(Serialize(room))
    IN  \A op \in Ops : op.props.kind \in {"object", "absent"} =>
            LET live == Apply(room, op)
                late == Apply(back, op)
            IN  live.ok = late.ok /\ Serialize(live.state) = Serialize(late.state)

\* A document written by hand may hold an id twice.
WithRepeat(els) ==
    IF els = <<>> THEN els ELSE Append(els, [els[1] EXCEPT !.version = 0])

\* The closed form agrees with the loops on the elements of every reachable
\* room, on lists with repeated and unknown ids, and on elements that hold
\* an id twice: listed elements first and once each, in the order of the
\* list, the rest after them in the order they had.
ReorderAsLoop ==
    \A ids \in IdList, els \in {room.elements, WithRepeat(room.elements)} :
        Reordered(els, ids) = ReorderLoop(els, ids)
----------------------------------------------------------------------------
(* The map of registers that the sequence of elements stands for. *)
RegistersOf(els) ==
    [id \in Ids(els) |->
        LET e == els[Min(Places(els, id))]
        IN  [version |-> e.version, data |-> e.data]]

Map == INSTANCE ElementMap WITH
    Data <- Json,
    Encode <- Encoded,
    reg <- RegistersOf(room.elements),
    saved <- RegistersOf(Loaded(stored).elements)

\* The room implements the map of registers: an element's data changes only
\* with a version above the one it has, a reorder or a canvas update touches
\* no element, an operation touches no other element than the one it names.
ImplementsElementMap == Map!Spec
=============================================================================
