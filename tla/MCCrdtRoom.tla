----------------------------- MODULE MCCrdtRoom -----------------------------
(***************************************************************************)
(* CrdtRoom on a small instance.                                           *)
(***************************************************************************)
EXTENDS CrdtRoom, SequencesExt

MCPatch == {Absent, Scalar} \cup {Object(f) : f \in [Key -> Val]}

MCIdList == BoundedSeq(ElemId, 2)

Sample(ids) ==
    [kind |-> "state",
     state |-> [elements |-> [i \in DOMAIN ids |->
                    [id |-> ids[i], version |-> 1, data |-> Null]],
                props |-> Null, version |-> 0]]

MCDocuments ==
    {BlankDocument, BadDocument} \cup {Sample(ids) : ids \in SetToSeqs(ElemId)}

Symmetry == Permutations(ElemId)
=============================================================================
