----------------------------- MODULE ElementMap -----------------------------
(***************************************************************************)
(* What a canvas promises its editors, whatever the order of the elements: *)
(* a map from element ids to versioned registers.  A register is created   *)
(* with any version, is written only with a higher version than its own,   *)
(* and may be dropped; the map is saved as a whole and restored as a whole.*)
(***************************************************************************)
EXTENDS Integers

CONSTANTS
    ElemId,
    Data,
    Encode(_)   \* what becomes of a register's data when it is saved

VARIABLES
    reg,     \* the live registers, a function on the ids that exist
    saved    \* the registers a restart would find

vars == <<reg, saved>>

Register == [version : Int, data : Data]

IsMap(m) == DOMAIN m \subseteq ElemId /\ \A id \in DOMAIN m : m[id] \in Register

Init == IsMap(saved) /\ reg = saved

SameExcept(id) ==
    \A x \in (DOMAIN reg \cap DOMAIN reg') \ {id} : reg'[x] = reg[x]

Create(id) ==
    /\ id \notin DOMAIN reg
    /\ DOMAIN reg' = DOMAIN reg \cup {id}
    /\ reg'[id] \in Register
    /\ SameExcept(id)
    /\ UNCHANGED saved

Raise(id) ==
    /\ id \in DOMAIN reg
    /\ DOMAIN reg' = DOMAIN reg
    /\ reg'[id] \in Register
    /\ reg'[id].version > reg[id].version
    /\ SameExcept(id)
    /\ UNCHANGED saved

Drop(id) ==
    /\ id \in DOMAIN reg
    /\ DOMAIN reg' = DOMAIN reg \ {id}
    /\ SameExcept(id)
    /\ UNCHANGED saved

Save ==
    /\ saved' = [x \in DOMAIN reg |->
                    [version |-> reg[x].version, data |-> Encode(reg[x].data)]]
    /\ UNCHANGED reg

Import == IsMap(saved)' /\ UNCHANGED reg

Restore == reg' = saved /\ UNCHANGED saved

\* A restart that could not read the saved map goes on with none.
Forget == DOMAIN reg' = {} /\ UNCHANGED saved

Next ==
    \/ \E id \in ElemId : Create(id) \/ Raise(id) \/ Drop(id)
    \/ Save
    \/ Import
    \/ Restore
    \/ Forget

Spec == Init /\ [][Next]_vars
=============================================================================
