------------------------------ MODULE CrdtState ------------------------------
(***************************************************************************)
(* The canvas document and its operations, internal/crdt/crdt.go: what     *)
(* every operation does to a CanvasState, and what the state becomes when  *)
(* it is written to canvases.data and read back.                           *)
(*                                                                         *)
(* A json.RawMessage is a record [kind, fields]: "absent" is the nil slice *)
(* (len = 0), "null" the text null, "object" a JSON object whose members   *)
(* are the function `fields', and "scalar" any other text (a number, a     *)
(* string, an array: what does not unmarshal into a map).                  *)
(***************************************************************************)
EXTENDS Integers, Sequences, FiniteSets, FiniteSetsExt

CONSTANTS
    ElemId,  \* element ids, generated by the clients
    Key,     \* member names of a JSON object
    Val      \* member values, opaque to the server

----------------------------------------------------------------------------
(* Raw JSON *)

EmptyObject == [k \in {} |-> k]

Fields == UNION {[K -> Val] : K \in SUBSET Key}

Json == [kind : {"absent", "null", "scalar", "object"}, fields : Fields]

Absent == [kind |-> "absent", fields |-> EmptyObject]
Null   == [kind |-> "null",   fields |-> EmptyObject]
Scalar == [kind |-> "scalar", fields |-> EmptyObject]
Object(f) == [kind |-> "object", fields |-> f]

\* The members of both, those of f where both have one of the same name.
Over(f, g) ==
    [k \in DOMAIN f \cup DOMAIN g |-> IF k \in DOMAIN f THEN f[k] ELSE g[k]]

\* Mutant: a base with no members keeps the patch out, null included.
MergeNullFails(base, patch) ==
    IF base.kind = "absent" THEN patch
    ELSE IF patch.kind # "object" \/ base.kind # "object" THEN base
    ELSE Object(Over(patch.fields, base.fields))

\* A null base or patch unmarshals into a nil map, which has no members.
MergeJSON(base, patch) ==
    IF base.kind = "absent" THEN patch
    ELSE IF patch.kind = "absent" THEN base
    ELSE IF base.kind = "scalar" THEN patch
    ELSE IF patch.kind = "scalar" THEN base
    ELSE Object(Over(patch.fields, base.fields))

\* encoding/json writes a nil RawMessage as null.
Encoded(json) == IF json.kind = "absent" THEN Null ELSE json

----------------------------------------------------------------------------
(* The document *)

Element == [id : ElemId, version : Int, data : Json]

CanvasState == [elements : Seq(Element), props : Json, version : Int]

Ids(els) == {els[i].id : i \in DOMAIN els}

Places(els, id) == {i \in DOMAIN els : els[i].id = id}

FreshState == [elements |-> <<>>, props |-> Absent, version |-> 0]

\* canvases.data: "blank" (no text, {} or null), "bad" (text that does not
\* unmarshal into a CanvasState) or the text of a state.
Document == [kind : {"blank", "bad", "state"}, state : CanvasState]

BlankDocument == [kind |-> "blank", state |-> FreshState]
BadDocument   == [kind |-> "bad",   state |-> FreshState]

ParseState(doc) == [ok |-> doc.kind # "bad", state |-> doc.state]

Serialize(s) ==
    [kind  |-> "state",
     state |-> [s EXCEPT
        !.elements = [i \in DOMAIN s.elements |->
                        [s.elements[i] EXCEPT !.data = Encoded(@)]],
        !.props = Encoded(@)]]

----------------------------------------------------------------------------
(* Operations: each returns what Apply returns and the state it leaves *)

OpType == {"element_add", "element_update", "element_delete",
           "elements_reorder", "canvas_update"}

Operation == [type : OpType \cup {"unknown"}, elemId : ElemId, version : Int,
              props : Json, elemIds : Seq(ElemId)]

Rejected(s) == [ok |-> FALSE, state |-> s]

Accepted(s) == [ok |-> TRUE, state |-> [s EXCEPT !.version = @ + 1]]

NewElement(op) == [id |-> op.elemId, version |-> op.version, data |-> op.props]

\* Mutant: the search for an element with the same id is left out.
AddUnchecked(s, op) == Accepted([s EXCEPT !.elements = Append(@, NewElement(op))])

ApplyElementAdd(s, op) ==
    IF op.elemId \in Ids(s.elements)
    THEN Rejected(s)
    ELSE Accepted([s EXCEPT !.elements = Append(@, NewElement(op))])

\* Mutant: < for <=, an update with the version of the element is applied.
UpdateEqualVersion(s, op) ==
    IF op.elemId \notin Ids(s.elements)
    THEN Accepted([s EXCEPT !.elements = Append(@, NewElement(op))])
    ELSE LET i == Min(Places(s.elements, op.elemId))
         IN  IF op.version < s.elements[i].version
             THEN Rejected(s)
             ELSE Accepted([s EXCEPT
                    !.elements[i].data    = MergeJSON(@, op.props),
                    !.elements[i].version = op.version])

\* Mutant: the version of an update is not looked at.
UpdateUnversioned(s, op) ==
    IF op.elemId \notin Ids(s.elements)
    THEN Accepted([s EXCEPT !.elements = Append(@, NewElement(op))])
    ELSE LET i == Min(Places(s.elements, op.elemId))
         IN  Accepted([s EXCEPT
                !.elements[i].data    = MergeJSON(@, op.props),
                !.elements[i].version = op.version])

ApplyElementUpdate(s, op) ==
    IF op.elemId \notin Ids(s.elements)
    THEN Accepted([s EXCEPT !.elements = Append(@, NewElement(op))])
    ELSE LET i == Min(Places(s.elements, op.elemId))
         IN  IF op.version <= s.elements[i].version
             THEN Rejected(s)
             ELSE Accepted([s EXCEPT
                    !.elements[i].data    = MergeJSON(@, op.props),
                    !.elements[i].version = op.version])

Without(els, i) ==
    [j \in 1 .. Len(els) - 1 |-> IF j < i THEN els[j] ELSE els[j + 1]]

\* Mutant: the element is cleared and its slot stays.
DeleteLeavesHole(s, op) ==
    IF op.elemId \notin Ids(s.elements)
    THEN Rejected(s)
    ELSE Accepted([s EXCEPT !.elements[Min(Places(s.elements, op.elemId))] = Null])

ApplyElementDelete(s, op) ==
    IF op.elemId \notin Ids(s.elements)
    THEN Rejected(s)
    ELSE Accepted([s EXCEPT
            !.elements = Without(@, Min(Places(@, op.elemId)))])

Listed(ids, id) == \E n \in DOMAIN ids : ids[n] = id

\* Mutant: the map keeps the first of several elements with one id.
KeptFirst(els, ids) ==
    {i \in DOMAIN els : Listed(ids, els[i].id) => i = Min(Places(els, els[i].id))}

\* The elements a reorder keeps: of several with one listed id, the map byID
\* holds only the last; elements that are not listed all stay.
Kept(els, ids) ==
    {i \in DOMAIN els : Listed(ids, els[i].id) => i = Max(Places(els, els[i].id))}

\* Listed elements come in the order of the list, the others after them in
\* the order they had.
Slot(els, ids, i) ==
    IF Listed(ids, els[i].id)
    THEN Min({n \in DOMAIN ids : ids[n] = els[i].id})
    ELSE Len(ids) + i

Rank(els, ids, i) ==
    Cardinality({j \in Kept(els, ids) : Slot(els, ids, j) < Slot(els, ids, i)})

Reordered(els, ids) ==
    [n \in 1 .. Cardinality(Kept(els, ids)) |->
        els[CHOOSE i \in Kept(els, ids) : Rank(els, ids, i) = n - 1]]

\* The same as the code computes it.  First the listed ids in their order:
\* the element of each is appended, and its id taken out of byID (left).
TakeOne(els, id, acc) ==
    IF id \in acc.left
    THEN [left |-> acc.left \ {id},
          out  |-> Append(acc.out, els[Max(Places(els, id))])]
    ELSE acc

TakeListed(els, ids) ==
    LET taken[n \in 0 .. Len(ids)] ==
            IF n = 0 THEN [left |-> Ids(els), out |-> <<>>]
            ELSE TakeOne(els, ids[n], taken[n - 1])
    IN  taken[Len(ids)]

\* Then the elements whose ids are still in byID, in the order they had.
AppendRest(els, first) ==
    LET all[n \in 0 .. Len(els)] ==
            IF n = 0 THEN first.out
            ELSE IF els[n].id \in first.left THEN Append(all[n - 1], els[n])
            ELSE all[n - 1]
    IN  all[Len(els)]

ReorderLoop(els, ids) == AppendRest(els, TakeListed(els, ids))

ApplyElementsReorder(s, op) ==
    IF op.elemIds = <<>>
    THEN Rejected(s)
    ELSE Accepted([s EXCEPT !.elements = Reordered(@, op.elemIds)])

ApplyCanvasUpdate(s, op) ==
    Accepted([s EXCEPT !.props = MergeJSON(@, op.props)])

Apply(s, op) ==
    CASE op.type = "element_add"      -> ApplyElementAdd(s, op)
      [] op.type = "element_update"   -> ApplyElementUpdate(s, op)
      [] op.type = "element_delete"   -> ApplyElementDelete(s, op)
      [] op.type = "elements_reorder" -> ApplyElementsReorder(s, op)
      [] op.type = "canvas_update"    -> ApplyCanvasUpdate(s, op)
      [] OTHER                        -> Rejected(s)

----------------------------------------------------------------------------
(* No two elements of a document share an id. *)
DistinctIds(els) ==
    \A i, j \in DOMAIN els : els[i].id = els[j].id => i = j
=============================================================================
