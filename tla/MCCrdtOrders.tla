---------------------------- MODULE MCCrdtOrders ----------------------------
(***************************************************************************)
(* CrdtOrders on a small instance: sets of up to three writes of one        *)
(* element and one of the other, every way a disciplined client may write   *)
(* them, and pairs of updates that name some of the members only.           *)
(***************************************************************************)
EXTENDS CrdtOrders

Write(type, id, v, p) ==
    [type |-> type, elemId |-> id, version |-> v, props |-> p, elemIds |-> <<>>]

Props(keys) == {Object(f) : f \in [keys -> Val]}

\* Every write carries all the members.
FullWrites(id) ==
    {Write(type, id, v, p) : type \in {"element_add", "element_update"},
                             v \in 1 .. 3, p \in Props(Key)}

UpTo(n, S) == {T \in UNION {kSubset(k, S) : k \in 0 .. n} : Disciplined(T)}

MCDisciplined ==
    LET busy  == CHOOSE id \in ElemId : TRUE
        quiet == ElemId \ {busy}
    IN  {S \cup T : S \in UpTo(3, FullWrites(busy)),
                   T \in UpTo(1, UNION {FullWrites(id) : id \in quiet})}

\* Updates that name some of the members, versions distinct per element.
PartialWrites ==
    {Write("element_update", id, v, p) : id \in ElemId, v \in 1 .. 2,
                                         p \in UNION {Props(ks) : ks \in (SUBSET Key) \ {{}}}}

MCPartial ==
    {S \in kSubset(2, PartialWrites) :
        \A op, other \in S : op # other /\ op.elemId = other.elemId
                                => op.version # other.version}
=============================================================================
