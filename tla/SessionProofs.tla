---------------------------- MODULE SessionProofs ----------------------------
(***************************************************************************)
(* For any number of connections, elements, operations and places in the   *)
(* buffers: the types of Session, and that an acknowledged operation that  *)
(* a later save stored is in the text and in every room loaded from it.    *)
(*                                                                         *)
(* Neither property is inductive.  A save is in three steps, so what it    *)
(* promises has to follow the operation through them: from the room, which *)
(* only takes higher versions while a pump is in it, to the snapshot, and  *)
(* to the row.  The row never falls behind because a write adds to what is *)
(* promised only if no other connection of the owner holds a snapshot.     *)
(*                                                                         *)
(* For replicas: versions meet because what an editor lacks is queued for  *)
(* it or about to be; the data of an element meets if its writers are      *)
(* disciplined, since the same version then means the same operation.      *)
(***************************************************************************)
EXTENDS Session, TLAPS

OpSteps == {"apply", "relay", "ack", "stale"}

\* The room has what was acknowledged, promised and asked for; the text has
\* what was promised.
Kept ==
    /\ room # NoRoom => /\ Covers(room.state, acked)
                        /\ Covers(room.state, promised)
                        /\ \A c \in Conn : Covers(room.state, asked[c])
    /\ room = NoRoom => acked = {}
    /\ IF row = NoRow THEN promised = {} ELSE Covers(row, promised)

\* What a pump carries from step to step.
Carried(c) ==
    /\ pc[c] \in OpSteps => doing[c] \in Op
    /\ pc[c] \in {"relay", "ack"} => Holds(room.state, doing[c])
    /\ pc[c] \in OpSteps \cup {"out", "idle"} => asked[c] = {}
    /\ pc[c] \in {"check", "write"} => Covers(snap[c], asked[c])
    /\ pc[c] = "write" => UserOf[c] = Owner
    /\ pc[c] \in {"check", "write"} /\ UserOf[c] = Owner => Covers(snap[c], promised)

SessionInv == SessionTypeOK /\ Kept /\ \A c \in Conn : Carried(c)

----------------------------------------------------------------------------
(* Documents *)

\* The parts of documents and operations.
LEMMA PartsTyped ==
    ASSUME NEW d \in Documents, NEW o \in Op
    PROVE  /\ o.elem \in Elem /\ o.version \in Nat /\ o.props \in Props
           /\ \A e \in Elem : /\ d[e] \in Register /\ d[e].version \in Nat
                              /\ d[e].props \in Props
           /\ Blank \in Documents /\ d # Behind /\ d # NoRow
<1>1. o \in [elem : Elem, version : Nat \ {0}, props : Props]
  BY SessionAssumption DEF SessionAssumption
<1>2. \A e \in Elem : d[e] \in Register
  BY DEF Documents
<1>3. Blank \in Documents
  BY DEF Blank, Documents, Register, Props
<1>4. d # Behind /\ d # NoRow
  BY SessionAssumption DEF SessionAssumption
<1> QED BY <1>1, <1>2, <1>3, <1>4 DEF Register

\* An update that is accepted: its version at its element, its members over
\* those that are there, and nothing else.
LEMMA WrittenParts ==
    ASSUME NEW d \in Documents, NEW o \in Op
    PROVE  /\ Written(d, o) \in Documents
           /\ \A e \in Elem \ {o.elem} : Written(d, o)[e] = d[e]
           /\ Written(d, o)[o.elem].version = o.version
           /\ \A k \in Key : Written(d, o)[o.elem].props[k] =
                 IF k \in Named(o) THEN o.props[k] ELSE d[o.elem].props[k]
<1> DEFINE r == [version |-> o.version,
                 props |-> [k \in Key |-> IF k \in Named(o) THEN o.props[k]
                                                            ELSE d[o.elem].props[k]]]
<1>1. /\ o.elem \in Elem /\ o.version \in Nat /\ o.props \in Props
      /\ d[o.elem].props \in Props
  BY PartsTyped
<1>2. r \in Register
  BY <1>1 DEF Register, Props
<1>3. d \in [Elem -> Register]
  BY DEF Documents
<1>4. Written(d, o) = [d EXCEPT ![o.elem] = r]
  BY <1>1, <1>3 DEF Written
<1>5. /\ r.version = o.version
      /\ \A k \in Key : r.props[k] = IF k \in Named(o) THEN o.props[k] ELSE d[o.elem].props[k]
  OBVIOUS
<1> HIDE DEF r
<1>6. Written(d, o) \in [Elem -> Register]
  BY <1>1, <1>2, <1>3, <1>4
<1>7. Written(d, o)[o.elem] = r /\ \A e \in Elem \ {o.elem} : Written(d, o)[e] = d[e]
  BY <1>1, <1>3, <1>4
<1> QED BY <1>5, <1>6, <1>7 DEF Documents

\* The operation that is written is held, and so is what was before: each
\* member either stays or is written by an operation of a higher version.
LEMMA WrittenHolds ==
    ASSUME NEW d \in Documents, NEW x \in Op, Accepts(d, x)
    PROVE  /\ Holds(Written(d, x), x)
           /\ \A o \in Op : Holds(d, o) => Holds(Written(d, x), o)
<1>1. /\ \A e \in Elem \ {x.elem} : Written(d, x)[e] = d[e]
      /\ Written(d, x)[x.elem].version = x.version
      /\ \A k \in Key : Written(d, x)[x.elem].props[k] =
            IF k \in Named(x) THEN x.props[k] ELSE d[x.elem].props[k]
  BY WrittenParts
<1>2. x.elem \in Elem /\ x.version \in Nat /\ d[x.elem].version \in Nat
  BY PartsTyped
<1>3. Holds(Written(d, x), x)
  <2>1. \A k \in Named(x) : Written(d, x)[x.elem].props[k] = x.props[k]
    BY <1>1 DEF Named
  <2> QED BY <1>1, <1>2, <2>1 DEF Holds
<1>4. ASSUME NEW o \in Op, Holds(d, o) PROVE Holds(Written(d, x), o)
  <2>1. o.elem \in Elem /\ o.version \in Nat
    BY PartsTyped
  <2>2. CASE o.elem # x.elem
    <3>1. Written(d, x)[o.elem] = d[o.elem]
      BY <1>1, <2>1, <2>2
    <3> QED BY <1>4, <3>1 DEF Holds
  <2>3. CASE o.elem = x.elem
    <3>1. o.version < x.version
      BY <1>2, <1>4, <2>1, <2>3 DEF Holds, Accepts
    <3>2. ASSUME NEW k \in Named(o)
          PROVE  \E y \in Op : /\ y.elem = o.elem /\ (y = o \/ o.version < y.version)
                               /\ k \in Named(y)
                               /\ y.props[k] = Written(d, x)[o.elem].props[k]
      <4>1. k \in Key
        BY DEF Named
      <4>2. CASE k \in Named(x)
        <5>1. x.props[k] = Written(d, x)[o.elem].props[k]
          BY <1>1, <2>3, <4>1, <4>2
        <5> QED BY <2>3, <3>1, <4>2, <5>1
      <4>3. CASE k \notin Named(x)
        <5>1. Written(d, x)[o.elem].props[k] = d[o.elem].props[k]
          BY <1>1, <2>3, <4>1, <4>3
        <5> QED BY <1>4, <5>1 DEF Holds
      <4> QED BY <4>2, <4>3
    <3>3. o.version <= Written(d, x)[o.elem].version
      BY <1>1, <1>2, <2>1, <2>3, <3>1
    <3> QED BY <3>2, <3>3 DEF Holds
  <2> QED BY <2>2, <2>3
<1> QED BY <1>3, <1>4

\* A replica stays a replica.
LEMMA TakenTyped ==
    ASSUME NEW v \in Documents \cup {Behind}, NEW o \in Op
    PROVE  Taken(v, o) \in Documents \cup {Behind}
BY WrittenParts DEF Taken

\* The buffers keep their type and their capacity.
BuffersOK ==
    /\ send \in [Conn -> Seq(Op \cup {Notice})]
    /\ \A c \in Conn : Len(send[c]) <= SendCap

LEMMA AppendTyped ==
    ASSUME NEW q \in Seq(Op \cup {Notice}), Len(q) < SendCap, NEW m \in Op \cup {Notice}
    PROVE  Append(q, m) \in Seq(Op \cup {Notice}) /\ Len(Append(q, m)) <= SendCap
BY SessionAssumption DEF SessionAssumption

LEMMA QueueTyped ==
    ASSUME BuffersOK, NEW to, NEW m \in Op \cup {Notice}, Queue(to, m)
    PROVE  BuffersOK'
<1>1. ASSUME NEW c \in Conn
      PROVE  send'[c] \in Seq(Op \cup {Notice}) /\ Len(send'[c]) <= SendCap
  <2>1. send[c] \in Seq(Op \cup {Notice}) /\ Len(send[c]) <= SendCap
    BY DEF BuffersOK
  <2>2. send'[c] = IF c \in to /\ Len(send[c]) < SendCap THEN Append(send[c], m) ELSE send[c]
    BY DEF Queue
  <2> QED BY <2>1, <2>2, AppendTyped
<1>2. send' = [c \in Conn |-> send'[c]]
  BY DEF Queue
<1> QED BY <1>1, <1>2 DEF BuffersOK

LEMMA SessionInit == ASSUME Init PROVE SessionInv
<1> USE DEF Init
<1>1. Blank \in Documents
  BY DEF Blank, Documents, Register, Props
<1>2. FirstText \in Documents /\ FirstText # NoRow
  BY SessionAssumption DEF SessionAssumption
<1>3. BuffersOK
  BY SessionAssumption DEF SessionAssumption, BuffersOK
<1>4. SessionTypeOK
  BY <1>1, <1>2, <1>3 DEF SessionTypeOK, BuffersOK, Permissions, Members
<1>5. Kept
  BY <1>2 DEF Kept, Covers
<1>6. \A c \in Conn : Carried(c)
  BY DEF Carried, OpSteps
<1> QED BY <1>4, <1>5, <1>6 DEF SessionInv

----------------------------------------------------------------------------
(* Steps *)

\* The members have an open connection, and every user with one is a member.
Present ==
    /\ Members \subseteq {c \in Conn : pc[c] # "out"}
    /\ \A c \in Conn : pc[c] # "out" => \E d \in Members : UserOf[d] = UserOf[c]

\* A pump that moves between two labels of an open connection leaves that as
\* it is.
LEMMA StillMembers ==
    ASSUME SessionTypeOK, NEW c \in Conn, NEW label \in Busy \cup {"idle"},
           pc[c] # "out", Goto(c, label), Members' = Members
    PROVE  /\ pc' \in [Conn -> Busy \cup {"out", "idle"}]
           /\ Present'
<1>1. label # "out"
  BY DEF Busy
<1>2. pc' = [pc EXCEPT ![c] = label] /\ pc \in [Conn -> Busy \cup {"out", "idle"}]
  BY DEF Goto, SessionTypeOK
<1>3. \A d \in Conn : pc'[d] # "out" <=> pc[d] # "out"
  BY <1>1, <1>2
<1>4. Present
  BY DEF SessionTypeOK, Present
<1>5. pc' \in [Conn -> Busy \cup {"out", "idle"}]
  BY <1>2
<1> QED BY <1>3, <1>4, <1>5 DEF Present

\* A pump that is somewhere has a room.
LEMMA InRoom ==
    ASSUME SessionTypeOK, NEW c \in Conn, pc[c] # "out"
    PROVE  /\ room # NoRoom
           /\ room \in [clients : SUBSET Conn, state : Documents]
           /\ room.state \in Documents
<1>1. Members # {}
  BY DEF SessionTypeOK
<1> QED BY <1>1 DEF SessionTypeOK, Members

\* Steps that touch the buffers and the replicas alone.
LEMMA OnlyPeers ==
    ASSUME SessionInv, UNCHANGED <<roomVars, pumpVars, ghostVars>>, BuffersOK',
           view' \in [Conn -> Documents \cup {Behind}]
    PROVE  SessionInv'
<1> USE DEF roomVars, pumpVars, ghostVars
<1>1. SessionTypeOK'
  BY DEF SessionInv, SessionTypeOK, BuffersOK, Members
<1>2. Kept'
  BY DEF SessionInv, Kept
<1>3. \A c \in Conn : Carried(c)'
  BY DEF SessionInv, Carried
<1> QED BY <1>1, <1>2, <1>3 DEF SessionInv

LEMMA RefuseKeeps == ASSUME SessionInv, NEW c \in Conn, Refuse(c) PROVE SessionInv'
<1>1. BuffersOK'
  BY QueueTyped DEF SessionInv, SessionTypeOK, BuffersOK, Refuse
<1> QED BY <1>1, OnlyPeers DEF Refuse, SessionInv, SessionTypeOK

LEMMA CursorKeeps == ASSUME SessionInv, NEW c \in Conn, Cursor(c) PROVE SessionInv'
<1>1. BuffersOK'
  BY QueueTyped DEF SessionInv, SessionTypeOK, BuffersOK, Cursor
<1> QED BY <1>1, OnlyPeers DEF Cursor, SessionInv, SessionTypeOK

LEMMA DeliverKeeps == ASSUME SessionInv, NEW c \in Conn, Deliver(c) PROVE SessionInv'
<1>1. /\ send[c] \in Seq(Op \cup {Notice}) /\ send[c] # <<>> /\ Len(send[c]) <= SendCap
      /\ send \in [Conn -> Seq(Op \cup {Notice})]
      /\ view \in [Conn -> Documents \cup {Behind}]
  BY DEF SessionInv, SessionTypeOK, Deliver
<1>2. /\ Head(send[c]) \in Op \cup {Notice} /\ Tail(send[c]) \in Seq(Op \cup {Notice})
      /\ Len(Tail(send[c])) <= SendCap
  BY <1>1, SessionAssumption DEF SessionAssumption
<1>3. BuffersOK'
  BY <1>1, <1>2 DEF SessionInv, SessionTypeOK, Deliver, BuffersOK
<1>4. view' \in [Conn -> Documents \cup {Behind}]
  <2>1. CASE Head(send[c]) = Notice
    BY <1>1, <2>1 DEF Deliver
  <2>2. CASE Head(send[c]) # Notice
    <3>1. Taken(view[c], Head(send[c])) \in Documents \cup {Behind}
      BY <1>1, <1>2, <2>2, TakenTyped
    <3> QED BY <1>1, <2>2, <3>1 DEF Deliver
  <2> QED BY <2>1, <2>2
<1> QED BY <1>3, <1>4, OnlyPeers DEF Deliver

\* Steps of one pump that leave the room, the row, what is asked for and what
\* is promised as they are.
LEMMA OnePumpMoves ==
    ASSUME SessionInv, NEW c \in Conn, NEW label \in Busy \cup {"idle"},
           pc[c] # "out", Goto(c, label), UNCHANGED <<roomVars, permission, asked, acked, promised>>,
           BuffersOK', view' \in [Conn -> Documents \cup {Behind}],
           doing' \in [Conn -> Op \cup {NoOp}], snap' \in [Conn -> Documents],
           \A d \in Conn \ {c} : doing'[d] = doing[d] /\ snap'[d] = snap[d],
           Carried(c)'
    PROVE  SessionInv'
<1> USE DEF roomVars
<1>1. SessionTypeOK'
  <2>1. /\ pc' \in [Conn -> Busy \cup {"out", "idle"}]
        /\ Present'
    BY StillMembers DEF SessionInv, Members
  <2> QED BY <2>1 DEF SessionInv, SessionTypeOK, Present, BuffersOK
<1>2. Kept'
  BY DEF SessionInv, Kept
<1>3. ASSUME NEW d \in Conn PROVE Carried(d)'
  <2>1. CASE d = c
    BY <2>1
  <2>2. CASE d # c
    <3>1. pc'[d] = pc[d]
      BY <2>2 DEF Goto, SessionInv, SessionTypeOK
    <3> QED BY <2>2, <3>1 DEF SessionInv, Carried
  <2> QED BY <2>1, <2>2
<1> QED BY <1>1, <1>2, <1>3 DEF SessionInv

LEMMA SendOpKeeps ==
    ASSUME SessionInv, NEW c \in Conn, NEW o \in Op, SendOp(c, o) PROVE SessionInv'
<1>1. pc[c] = "idle" /\ Goto(c, "apply") /\ doing' = [doing EXCEPT ![c] = o]
  BY DEF SendOp
<1>2. BuffersOK'
  BY DEF SendOp, SessionInv, SessionTypeOK, BuffersOK
<1>3. view' \in [Conn -> Documents \cup {Behind}]
  BY TakenTyped DEF SendOp, SessionInv, SessionTypeOK
<1>4. doing' \in [Conn -> Op \cup {NoOp}]
  BY <1>1 DEF SessionInv, SessionTypeOK
<1>5. Carried(c)'
  <2>1. pc'[c] = "apply" /\ doing'[c] = o /\ asked'[c] = {}
    BY <1>1 DEF SendOp, Goto, SessionInv, SessionTypeOK, Carried, ghostVars
  <2> QED BY <2>1 DEF Carried
<1> QED
  <2>1. UNCHANGED <<roomVars, permission, asked, acked, promised>> /\ snap' \in [Conn -> Documents]
    BY DEF SendOp, ghostVars, SessionInv, SessionTypeOK
  <2>2. \A d \in Conn \ {c} : doing'[d] = doing[d] /\ snap'[d] = snap[d]
    BY <1>1 DEF SendOp, SessionInv, SessionTypeOK
  <2> QED BY <1>1, <1>2, <1>3, <1>4, <1>5, <2>1, <2>2, OnePumpMoves DEF Busy

LEMMA RelayKeeps == ASSUME SessionInv, NEW c \in Conn, Relay(c) PROVE SessionInv'
<1>1. pc[c] = "relay" /\ Goto(c, "ack") /\ doing[c] \in Op
  BY DEF Relay, SessionInv, Carried, OpSteps
<1>2. BuffersOK'
  BY <1>1, QueueTyped DEF Relay, SessionInv, SessionTypeOK, BuffersOK
<1>3. view' \in [Conn -> Documents \cup {Behind}]
  BY DEF Relay, SessionInv, SessionTypeOK
<1>4. Carried(c)'
  <2>1. pc'[c] = "ack" /\ doing' = doing /\ asked' = asked /\ room' = room
    BY <1>1 DEF Relay, Goto, SessionInv, SessionTypeOK, ghostVars, roomVars
  <2>2. Holds(room.state, doing[c]) /\ asked[c] = {}
    BY <1>1 DEF SessionInv, Carried, OpSteps
  <2> QED BY <1>1, <2>1, <2>2 DEF Carried, OpSteps
<1> QED
  <2>1. /\ UNCHANGED <<roomVars, permission, asked, acked, promised>>
        /\ snap' = snap /\ doing' = doing
    BY DEF Relay, ghostVars
  <2> QED BY <1>1, <1>2, <1>3, <1>4, <2>1, OnePumpMoves DEF Busy, SessionInv, SessionTypeOK

LEMMA SnapshotKeeps == ASSUME SessionInv, NEW c \in Conn, Snapshot(c) PROVE SessionInv'
<1>1. pc[c] = "snapshot" /\ Goto(c, "check") /\ snap' = [snap EXCEPT ![c] = room.state]
  BY DEF Snapshot
<1>2. room # NoRoom /\ room.state \in Documents
  BY <1>1, InRoom DEF SessionInv
<1>3. BuffersOK' /\ view' \in [Conn -> Documents \cup {Behind}]
  BY DEF Snapshot, SessionInv, SessionTypeOK, BuffersOK, peerVars
<1>4. snap' \in [Conn -> Documents]
  BY <1>1, <1>2 DEF SessionInv, SessionTypeOK
<1>5. Carried(c)'
  <2>1. pc'[c] = "check" /\ snap'[c] = room.state /\ asked' = asked /\ promised' = promised
    BY <1>1 DEF Snapshot, Goto, SessionInv, SessionTypeOK, ghostVars
  <2>2. Covers(room.state, asked[c]) /\ Covers(room.state, promised)
    BY <1>2 DEF SessionInv, Kept
  <2> QED BY <2>1, <2>2 DEF Carried, OpSteps, Covers
<1> QED
  <2>1. UNCHANGED <<roomVars, permission, asked, acked, promised>> /\ doing' = doing
    BY DEF Snapshot, ghostVars
  <2>2. \A d \in Conn \ {c} : doing'[d] = doing[d] /\ snap'[d] = snap[d]
    BY <1>1, <2>1 DEF SessionInv, SessionTypeOK
  <2> QED BY <1>1, <1>3, <1>4, <1>5, <2>1, <2>2, OnePumpMoves DEF Busy, SessionInv, SessionTypeOK

LEMMA CheckOwnerKeeps == ASSUME SessionInv, NEW c \in Conn, CheckOwner(c) PROVE SessionInv'
<1>1. pc[c] = "check" /\ Goto(c, "write") /\ UserOf[c] = Owner
  BY DEF CheckOwner
<1>2. BuffersOK' /\ view' \in [Conn -> Documents \cup {Behind}]
  BY DEF CheckOwner, SessionInv, SessionTypeOK, BuffersOK, peerVars
<1>3. Carried(c)'
  <2>1. pc'[c] = "write" /\ snap' = snap /\ asked' = asked /\ promised' = promised
    BY <1>1 DEF CheckOwner, Goto, SessionInv, SessionTypeOK, ghostVars
  <2>2. Covers(snap[c], asked[c]) /\ Covers(snap[c], promised)
    BY <1>1 DEF SessionInv, Carried
  <2> QED BY <1>1, <2>1, <2>2 DEF Carried, OpSteps, Covers
<1> QED
  <2>1. /\ UNCHANGED <<roomVars, permission, asked, acked, promised>>
        /\ doing' = doing /\ snap' = snap
    BY DEF CheckOwner, ghostVars
  <2> QED BY <1>1, <1>2, <1>3, <2>1, OnePumpMoves DEF Busy, SessionInv, SessionTypeOK

LEMMA SavedKeeps == ASSUME SessionInv, NEW c \in Conn, Saved(c) PROVE SessionInv'
<1>1. pc[c] = "saved" /\ Goto(c, "tell") /\ Queue({c}, Notice)
  BY DEF Saved
<1>2. BuffersOK' /\ view' \in [Conn -> Documents \cup {Behind}]
  BY <1>1, QueueTyped DEF Saved, SessionInv, SessionTypeOK, BuffersOK
<1>3. Carried(c)'
  <2>1. pc'[c] = "tell"
    BY <1>1 DEF Goto, SessionInv, SessionTypeOK
  <2> QED BY <2>1 DEF Carried, OpSteps
<1> QED
  <2>1. /\ UNCHANGED <<roomVars, permission, asked, acked, promised>>
        /\ doing' = doing /\ snap' = snap
    BY DEF Saved, ghostVars
  <2> QED BY <1>1, <1>2, <1>3, <2>1, OnePumpMoves DEF Busy, SessionInv, SessionTypeOK

\* A pump that ends its save no longer asks for anything.
LEMMA SaveEnds ==
    ASSUME SessionInv, NEW c \in Conn, pc[c] # "out", Goto(c, "idle"), BuffersOK',
           UNCHANGED <<roomVars, permission, doing, view, acked, promised>>,
           snap' = [snap EXCEPT ![c] = Blank], asked' = [asked EXCEPT ![c] = {}]
    PROVE  SessionInv'
<1> USE DEF roomVars
<1>1. Blank \in Documents
  BY DEF Blank, Documents, Register, Props
<1>2. SessionTypeOK'
  <2>1. /\ pc' \in [Conn -> Busy \cup {"out", "idle"}]
        /\ Present'
    BY StillMembers DEF SessionInv, Members
  <2>2. snap' \in [Conn -> Documents] /\ asked' \in [Conn -> SUBSET Op]
    BY <1>1 DEF SessionInv, SessionTypeOK
  <2> QED BY <2>1, <2>2 DEF SessionInv, SessionTypeOK, Present, BuffersOK
<1>3. Kept'
  <2>1. ASSUME NEW d \in Conn, room # NoRoom
        PROVE  Covers(room.state, asked'[d])
    BY <2>1 DEF SessionInv, SessionTypeOK, Kept, Covers
  <2> QED BY <2>1 DEF SessionInv, Kept
<1>4. ASSUME NEW d \in Conn PROVE Carried(d)'
  <2>1. CASE d = c
    <3>1. pc'[d] = "idle" /\ asked'[d] = {}
      BY <2>1 DEF Goto, SessionInv, SessionTypeOK
    <3> QED BY <3>1 DEF Carried, OpSteps
  <2>2. CASE d # c
    <3>1. pc'[d] = pc[d] /\ snap'[d] = snap[d] /\ asked'[d] = asked[d]
      BY <2>2 DEF Goto, SessionInv, SessionTypeOK
    <3> QED BY <2>2, <3>1 DEF SessionInv, Carried
  <2> QED BY <2>1, <2>2
<1> QED BY <1>2, <1>3, <1>4 DEF SessionInv

LEMMA SaveFailsKeeps == ASSUME SessionInv, NEW c \in Conn, SaveFails(c) PROVE SessionInv'
<1>1. pc[c] # "out"
  BY DEF SaveFails
<1>2. BuffersOK'
  BY QueueTyped DEF SaveFails, EndSave, SessionInv, SessionTypeOK, BuffersOK
<1> QED BY <1>1, <1>2, SaveEnds DEF SaveFails, EndSave

LEMMA TellSavedKeeps == ASSUME SessionInv, NEW c \in Conn, TellSaved(c) PROVE SessionInv'
<1>1. pc[c] # "out"
  BY DEF TellSaved
<1>2. BuffersOK'
  BY QueueTyped DEF TellSaved, SessionInv, SessionTypeOK, BuffersOK
<1> QED BY <1>1, <1>2, SaveEnds DEF TellSaved

\* The save is asked for what was acknowledged, which the room has.
LEMMA AskSaveKeeps == ASSUME SessionInv, NEW c \in Conn, AskSave(c) PROVE SessionInv'
<1>1. /\ pc[c] = "idle" /\ Goto(c, "snapshot") /\ asked' = [asked EXCEPT ![c] = acked]
      /\ UNCHANGED <<roomVars, permission, doing, snap, peerVars, acked, promised>>
  BY DEF AskSave
<1>2. SessionTypeOK'
  <2>1. /\ pc' \in [Conn -> Busy \cup {"out", "idle"}]
        /\ Present'
    BY <1>1, StillMembers DEF SessionInv, Members, roomVars, Busy
  <2>2. asked' \in [Conn -> SUBSET Op]
    BY <1>1 DEF SessionInv, SessionTypeOK
  <2> QED BY <1>1, <2>1, <2>2 DEF SessionInv, SessionTypeOK, Present, roomVars, peerVars
<1>3. Kept'
  BY <1>1 DEF SessionInv, SessionTypeOK, Kept, roomVars
<1>4. ASSUME NEW d \in Conn PROVE Carried(d)'
  <2>1. CASE d = c
    <3>1. pc'[d] = "snapshot"
      BY <1>1, <2>1 DEF Goto, SessionInv, SessionTypeOK
    <3> QED BY <3>1 DEF Carried, OpSteps
  <2>2. CASE d # c
    <3>1. pc'[d] = pc[d] /\ asked'[d] = asked[d]
      BY <1>1, <2>2 DEF Goto, SessionInv, SessionTypeOK
    <3> QED BY <1>1, <2>2, <3>1 DEF SessionInv, Carried, roomVars
  <2> QED BY <2>1, <2>2
<1> QED BY <1>2, <1>3, <1>4 DEF SessionInv

\* What is added to what was acknowledged is in the room.
LEMMA AckKeeps == ASSUME SessionInv, NEW c \in Conn, Ack(c) PROVE SessionInv'
<1>1. /\ pc[c] \in {"ack", "stale"} /\ Goto(c, "idle") /\ Queue({c}, Notice)
      /\ acked' = IF pc[c] = "ack" THEN acked \cup {doing[c]} ELSE acked
      /\ doing' = [doing EXCEPT ![c] = NoOp]
      /\ UNCHANGED <<roomVars, permission, snap, view, asked, promised>>
  BY DEF Ack
<1>2. doing[c] \in Op /\ asked[c] = {} /\ (pc[c] = "ack" => Holds(room.state, doing[c]))
  BY <1>1 DEF SessionInv, Carried, OpSteps
<1>3. room # NoRoom
  BY <1>1, InRoom DEF SessionInv
<1>4. SessionTypeOK'
  <2>1. /\ pc' \in [Conn -> Busy \cup {"out", "idle"}]
        /\ Present'
    BY <1>1, StillMembers DEF SessionInv, Members, roomVars, Busy
  <2>2. acked' \in SUBSET Op /\ doing' \in [Conn -> Op \cup {NoOp}]
    BY <1>1, <1>2 DEF SessionInv, SessionTypeOK
  <2>3. BuffersOK'
    BY <1>1, QueueTyped DEF SessionInv, SessionTypeOK, BuffersOK
  <2>4. /\ row' = row /\ room' = room
        /\ UNCHANGED <<permission, snap, view, asked, promised>>
    BY <1>1 DEF roomVars
  <2> QED BY <2>1, <2>2, <2>3, <2>4 DEF SessionInv, SessionTypeOK, Present, BuffersOK
<1>5. Kept'
  <2>1. Covers(room.state, acked')
    BY <1>1, <1>2, <1>3 DEF SessionInv, Kept, Covers
  <2> QED BY <1>1, <1>3, <2>1 DEF SessionInv, Kept, roomVars
<1>6. ASSUME NEW d \in Conn PROVE Carried(d)'
  <2>1. CASE d = c
    <3>1. pc'[d] = "idle" /\ asked'[d] = {}
      BY <1>1, <1>2, <2>1 DEF Goto, SessionInv, SessionTypeOK
    <3> QED BY <3>1 DEF Carried, OpSteps
  <2>2. CASE d # c
    <3>1. pc'[d] = pc[d] /\ doing'[d] = doing[d]
      BY <1>1, <2>2 DEF Goto, SessionInv, SessionTypeOK
    <3> QED BY <1>1, <2>2, <3>1 DEF SessionInv, Carried, roomVars
  <2> QED BY <2>1, <2>2
<1> QED BY <1>4, <1>5, <1>6 DEF SessionInv

\* The room keeps what it held, and holds the operation if it accepts it.
LEMMA ApplyOpKeeps == ASSUME SessionInv, NEW c \in Conn, ApplyOp(c) PROVE SessionInv'
<1>1. pc[c] = "apply" /\ UNCHANGED <<row, permission, doing, snap, peerVars, ghostVars>>
  BY DEF ApplyOp
<1>2. doing[c] \in Op /\ asked[c] = {}
  BY <1>1 DEF SessionInv, Carried, OpSteps
<1>3. /\ room # NoRoom /\ room.state \in Documents
      /\ room \in [clients : SUBSET Conn, state : Documents]
  BY <1>1, InRoom DEF SessionInv
<1>4. /\ room' \in [clients : SUBSET Conn, state : Documents]
      /\ room'.clients = room.clients
      /\ \A o \in Op : Holds(room.state, o) => Holds(room'.state, o)
      /\ \/ Goto(c, "relay") /\ Holds(room'.state, doing[c])
         \/ Goto(c, "stale")
  <2>1. CASE Accepts(room.state, doing[c])
    <3>1. room' = [room EXCEPT !.state = Written(room.state, doing[c])] /\ Goto(c, "relay")
      BY <1>3, <2>1 DEF ApplyOp
    <3>2. Written(room.state, doing[c]) \in Documents
      BY <1>2, <1>3, WrittenParts
    <3>3. /\ room' \in [clients : SUBSET Conn, state : Documents]
          /\ room'.clients = room.clients /\ room'.state = Written(room.state, doing[c])
      BY <1>3, <3>1, <3>2
    <3> QED BY <1>2, <1>3, <2>1, <3>1, <3>3, WrittenHolds
  <2>2. CASE ~Accepts(room.state, doing[c])
    BY <1>3, <2>2 DEF ApplyOp
  <2> QED BY <2>1, <2>2
<1>5. PICK label \in {"relay", "stale"} :
            Goto(c, label) /\ (label = "relay" => Holds(room'.state, doing[c]))
  BY <1>4
<1>6. room' # NoRoom
  BY <1>4, SessionAssumption DEF SessionAssumption
<1>7. SessionTypeOK'
  <2>1. Members' = Members
    BY <1>3, <1>4, <1>6 DEF Members
  <2>2. /\ pc' \in [Conn -> Busy \cup {"out", "idle"}]
        /\ Present'
    BY <1>1, <1>5, <2>1, StillMembers DEF SessionInv, Busy
  <2>3. room'.clients # {}
    BY <1>3, <1>4 DEF SessionInv, SessionTypeOK
  <2> QED BY <1>1, <1>4, <2>2, <2>3 DEF SessionInv, SessionTypeOK, Present, peerVars, ghostVars
<1>8. ASSUME NEW S \in SUBSET Op, Covers(room.state, S) PROVE Covers(room'.state, S)
  BY <1>4, <1>8 DEF Covers
<1>9. Kept'
  <2>1. /\ Covers(room'.state, acked) /\ Covers(room'.state, promised)
        /\ \A d \in Conn : Covers(room'.state, asked[d])
    BY <1>3, <1>8 DEF SessionInv, SessionTypeOK, Kept
  <2> QED BY <1>1, <1>6, <2>1 DEF SessionInv, Kept, ghostVars
<1>10. ASSUME NEW d \in Conn PROVE Carried(d)'
  <2>1. CASE d = c
    <3>1. pc'[d] = label /\ doing'[d] = doing[c] /\ asked'[d] = {}
      BY <1>1, <1>2, <1>5, <2>1 DEF Goto, SessionInv, SessionTypeOK, ghostVars
    <3> QED BY <1>2, <1>5, <2>1, <3>1 DEF Carried, OpSteps
  <2>2. CASE d # c
    <3>1. pc'[d] = pc[d]
      BY <1>5, <2>2 DEF Goto, SessionInv, SessionTypeOK
    <3> QED BY <1>1, <1>4, <2>2, <3>1 DEF SessionInv, Carried, OpSteps, ghostVars
  <2> QED BY <2>1, <2>2
<1> QED BY <1>7, <1>9, <1>10 DEF SessionInv

\* The snapshot of an owner's connection has what was promised before and
\* what is now, and so has the room.  More is promised only if no other
\* connection of the owner holds a snapshot, which might lack it.
LEMMA UpdateDataKeeps == ASSUME SessionInv, NEW c \in Conn, UpdateData(c) PROVE SessionInv'
<1>1. /\ pc[c] = "write" /\ Goto(c, "saved")
      /\ row' = IF row = NoRow THEN NoRow ELSE snap[c]
      /\ promised' = IF row = NoRow \/ OlderCopy(c) THEN promised ELSE promised \cup asked[c]
      /\ UNCHANGED <<room, permission, doing, snap, peerVars, acked, asked>>
  BY DEF UpdateData
<1>2. UserOf[c] = Owner /\ Covers(snap[c], asked[c]) /\ Covers(snap[c], promised)
  BY <1>1 DEF SessionInv, Carried
<1>3. room # NoRoom
  BY <1>1, InRoom DEF SessionInv
<1>4. /\ snap[c] \in Documents /\ snap[c] # NoRow
      /\ asked[c] \in SUBSET Op /\ promised \in SUBSET Op
  BY SessionAssumption DEF SessionAssumption, SessionInv, SessionTypeOK
<1>5. SessionTypeOK'
  <2>1. /\ pc' \in [Conn -> Busy \cup {"out", "idle"}]
        /\ Present'
    BY <1>1, StillMembers DEF SessionInv, Members, Busy
  <2>2. row' \in Documents \cup {NoRow} /\ promised' \in SUBSET Op
    BY <1>1, <1>4
  <2> QED BY <1>1, <2>1, <2>2 DEF SessionInv, SessionTypeOK, Present, peerVars
<1>6. Kept'
  <2>1. IF row' = NoRow THEN promised' = {} ELSE Covers(row', promised')
    BY <1>1, <1>2, <1>4 DEF SessionInv, Kept, Covers
  <2>2. Covers(room.state, promised')
    BY <1>1, <1>3 DEF SessionInv, Kept, Covers
  <2> QED BY <1>1, <1>3, <2>1, <2>2 DEF SessionInv, Kept
<1>7. ASSUME NEW d \in Conn PROVE Carried(d)'
  <2>1. CASE d = c
    <3>1. pc'[d] = "saved"
      BY <1>1, <2>1 DEF Goto, SessionInv, SessionTypeOK
    <3> QED BY <3>1 DEF Carried, OpSteps
  <2>2. CASE d # c
    <3>1. pc'[d] = pc[d]
      BY <1>1, <2>2 DEF Goto, SessionInv, SessionTypeOK
    <3>2. pc[d] \in {"check", "write"} /\ UserOf[d] = Owner => promised' = promised
      BY <1>1, <2>2 DEF OlderCopy
    <3> QED BY <1>1, <3>1, <3>2 DEF SessionInv, Carried
  <2> QED BY <2>1, <2>2
<1> QED BY <1>5, <1>6, <1>7 DEF SessionInv

\* Whoever replaces the text or deletes the canvas takes back what was
\* promised.
LEMMA PromisesEnd ==
    ASSUME SessionInv, row' \in Documents \cup {NoRow}, promised' = {},
           UNCHANGED <<room, pumpVars, peerVars, acked, asked>>
    PROVE  SessionInv'
<1> USE DEF pumpVars, peerVars
<1>1. SessionTypeOK'
  BY DEF SessionInv, SessionTypeOK, Members
<1>2. Kept'
  BY DEF SessionInv, Kept, Covers
<1>3. ASSUME NEW d \in Conn PROVE Carried(d)'
  BY DEF SessionInv, Carried, Covers
<1> QED BY <1>1, <1>2, <1>3 DEF SessionInv

LEMMA RestKeeps ==
    ASSUME SessionInv, (\E t \in Texts : PutData(t)) \/ DeleteCanvas
    PROVE  SessionInv'
<1>1. Texts \subseteq Documents
  BY SessionAssumption DEF SessionAssumption
<1> QED BY <1>1, PromisesEnd DEF PutData, DeleteCanvas

\* All pumps are gone, and with them what they carried; the row stays.
LEMMA RestartKeeps == ASSUME SessionInv, Restart PROVE SessionInv'
<1> USE DEF Restart
<1>1. Blank \in Documents
  BY DEF Blank, Documents, Register, Props
<1>2. BuffersOK'
  BY SessionAssumption DEF SessionAssumption, BuffersOK
<1>3. SessionTypeOK'
  BY <1>1, <1>2 DEF SessionInv, SessionTypeOK, BuffersOK, Permissions, Members
<1>4. Kept'
  BY DEF SessionInv, Kept
<1>5. \A d \in Conn : Carried(d)'
  BY DEF Carried, OpSteps
<1> QED BY <1>3, <1>4, <1>5 DEF SessionInv

\* A room is made of the text, which has what was promised, or is blank and
\* nothing is promised any more.
LEMMA JoinKeeps ==
    ASSUME SessionInv, NEW c \in Conn, NEW p \in Permissions, NEW ok \in BOOLEAN, Join(c, p, ok)
    PROVE  SessionInv'
<1>1. /\ pc[c] = "out" /\ pc' = [pc EXCEPT ![c] = "idle"] /\ Queue({c}, Notice)
      /\ permission' = [permission EXCEPT ![c] = p]
      /\ UNCHANGED <<row, doing, snap, acked, asked>>
      /\ promised' = IF room = NoRoom /\ ~ok THEN {} ELSE promised
  BY DEF Join, Goto
<1>2. Blank \in Documents
  BY DEF Blank, Documents, Register, Props
<1>3. \A b \in BOOLEAN : Loaded(b) \in Documents
  BY <1>2 DEF Loaded, SessionInv, SessionTypeOK
<1>4. /\ room' \in [clients : SUBSET Conn, state : Documents]
      /\ room'.clients = (Members \ OtherTabs(c)) \cup {c}
      /\ room'.state = IF room = NoRoom THEN Loaded(ok) ELSE room.state
  <2>1. CASE room = NoRoom
    BY <1>3, <2>1 DEF Join, Members
  <2>2. CASE room # NoRoom
    BY <2>2 DEF Join, Members, SessionInv, SessionTypeOK
  <2> QED BY <2>1, <2>2
<1>5. room' # NoRoom
  BY <1>4, SessionAssumption DEF SessionAssumption
<1>6. promised' \in SUBSET Op
  BY <1>1 DEF SessionInv, SessionTypeOK
<1>7. SessionTypeOK'
  <2>1. pc' \in [Conn -> Busy \cup {"out", "idle"}] /\ permission' \in [Conn -> Permissions]
    BY <1>1 DEF SessionInv, SessionTypeOK
  <2>2. Present'
    <3>1. Members' = (Members \ OtherTabs(c)) \cup {c}
      BY <1>4, <1>5 DEF Members
    <3>2. \A d \in Conn : pc'[d] = IF d = c THEN "idle" ELSE pc[d]
      BY <1>1 DEF SessionInv, SessionTypeOK
    <3>3. Present
      BY DEF SessionInv, SessionTypeOK, Present
    <3>4. Members' \subseteq {d \in Conn : pc'[d] # "out"}
      BY <3>1, <3>2, <3>3 DEF Present
    <3>5. ASSUME NEW d \in Conn, pc'[d] # "out" PROVE \E x \in Members' : UserOf[x] = UserOf[d]
      <4>1. CASE UserOf[d] = UserOf[c]
        BY <3>1, <4>1
      <4>2. CASE UserOf[d] # UserOf[c]
        <5>1. PICK x \in Members : UserOf[x] = UserOf[d]
          BY <3>2, <3>3, <3>5, <4>2 DEF Present
        <5> QED BY <3>1, <4>2, <5>1 DEF OtherTabs
      <4> QED BY <4>1, <4>2
    <3> QED BY <3>4, <3>5 DEF Present
  <2>3. view' \in [Conn -> Documents \cup {Behind}]
    BY <1>3 DEF Join, SessionInv, SessionTypeOK
  <2>4. BuffersOK'
    BY <1>1, QueueTyped DEF SessionInv, SessionTypeOK, BuffersOK
  <2>5. room' \in [clients : SUBSET Conn, state : Documents] /\ room'.clients # {}
    BY <1>4
  <2>6. /\ row' \in Documents \cup {NoRow} /\ doing' \in [Conn -> Op \cup {NoOp}]
        /\ snap' \in [Conn -> Documents] /\ {acked', promised'} \subseteq SUBSET Op
        /\ asked' \in [Conn -> SUBSET Op]
    BY <1>1, <1>6 DEF SessionInv, SessionTypeOK
  <2> QED BY ONLY <2>1, <2>2, <2>3, <2>4, <2>5, <2>6 DEF SessionTypeOK, Present, BuffersOK
<1>8. Kept'
  <2>1. IF row' = NoRow THEN promised' = {} ELSE Covers(row', promised')
    BY <1>1 DEF SessionInv, SessionTypeOK, Kept, Covers
  <2>2. /\ Covers(room'.state, acked') /\ Covers(room'.state, promised')
        /\ \A d \in Conn : Covers(room'.state, asked'[d])
    <3>1. CASE room = NoRoom
      <4>1. acked = {} /\ room'.state = Loaded(ok) /\ room'.state \in Documents
        BY <1>4, <3>1 DEF SessionInv, Kept
      <4>2. ASSUME NEW d \in Conn PROVE asked[d] = {}
        <5>1. pc[d] = "out"
          BY <3>1 DEF SessionInv, SessionTypeOK, Members
        <5> QED BY <5>1 DEF SessionInv, Carried
      <4>3. Covers(room'.state, promised')
        BY <1>1, <3>1, <4>1 DEF SessionInv, Kept, Loaded, Covers
      <4> QED BY <1>1, <4>1, <4>2, <4>3 DEF Covers
    <3>2. CASE room # NoRoom
      BY <1>1, <1>4, <3>2 DEF SessionInv, Kept
    <3> QED BY <3>1, <3>2
  <2> QED BY <1>5, <2>1, <2>2 DEF Kept
<1>9. ASSUME NEW d \in Conn PROVE Carried(d)'
  <2>1. CASE d = c
    <3>1. pc'[d] = "idle" /\ asked'[d] = {}
      BY <1>1, <2>1 DEF SessionInv, SessionTypeOK, Carried
    <3> QED BY <3>1 DEF Carried, OpSteps
  <2>2. CASE d # c /\ pc[d] = "out"
    <3>1. pc'[d] = "out" /\ asked'[d] = {}
      BY <1>1, <2>2 DEF SessionInv, SessionTypeOK, Carried
    <3> QED BY <3>1 DEF Carried, OpSteps
  <2>3. CASE d # c /\ pc[d] # "out"
    <3>1. pc'[d] = pc[d] /\ room # NoRoom
      BY <1>1, <2>3, InRoom DEF SessionInv, SessionTypeOK
    <3>2. room'.state = room.state /\ promised' = promised
      BY <1>1, <1>4, <3>1
    <3> QED BY <1>1, <3>1, <3>2 DEF SessionInv, Carried
  <2> QED BY <2>1, <2>2, <2>3
<1> QED BY <1>7, <1>8, <1>9 DEF SessionInv

\* The last client takes the room with it, and what was only acknowledged.
LEMMA ExitKeeps == ASSUME SessionInv, NEW c \in Conn, Exit(c) PROVE SessionInv'
<1>1. /\ pc[c] = "idle" /\ OtherTabs(c) = {} /\ pc' = [pc EXCEPT ![c] = "out"]
      /\ permission' = [permission EXCEPT ![c] = "readonly"]
      /\ view' = [view EXCEPT ![c] = Behind]
      /\ room' = IF room.clients = {c} THEN NoRoom ELSE [room EXCEPT !.clients = @ \ {c}]
      /\ acked' = IF room.clients = {c} THEN {} ELSE acked
      /\ UNCHANGED <<row, doing, snap, asked, promised>>
  BY DEF Exit, Goto
<1>2. /\ room # NoRoom /\ room \in [clients : SUBSET Conn, state : Documents]
      /\ c \in room.clients
  <2>1. PICK d \in Members : UserOf[d] = UserOf[c]
    BY <1>1 DEF SessionInv, SessionTypeOK
  <2>2. d \in Conn /\ pc[d] # "out"
    BY <2>1 DEF SessionInv, SessionTypeOK
  <2>3. d = c
    BY <1>1, <2>1, <2>2 DEF OtherTabs
  <2>4. room # NoRoom /\ room \in [clients : SUBSET Conn, state : Documents]
    BY <1>1, InRoom DEF SessionInv
  <2> QED BY <2>1, <2>3, <2>4 DEF Members
<1>3. Present
  BY DEF SessionInv, SessionTypeOK, Present
<1>4. \/ /\ room.clients = {c} /\ room' = NoRoom /\ acked' = {}
      \/ /\ room.clients # {c} /\ acked' = acked /\ room' # NoRoom
         /\ room' \in [clients : SUBSET Conn, state : Documents]
         /\ room'.clients = room.clients \ {c} /\ room'.clients # {}
         /\ room'.state = room.state
  <2>1. CASE room.clients = {c}
    BY <1>1, <2>1
  <2>2. CASE room.clients # {c}
    <3>1. room' = [room EXCEPT !.clients = room.clients \ {c}] /\ acked' = acked
      BY <1>1, <2>2
    <3>2. /\ room' \in [clients : SUBSET Conn, state : Documents]
          /\ room'.clients = room.clients \ {c} /\ room'.state = room.state
      BY <1>2, <3>1
    <3>3. room' # NoRoom
      BY <3>2, SessionAssumption DEF SessionAssumption
    <3> QED BY <1>2, <2>2, <3>1, <3>2, <3>3
  <2> QED BY <2>1, <2>2
<1>5. SessionTypeOK'
  <2>1. pc' \in [Conn -> Busy \cup {"out", "idle"}] /\ permission' \in [Conn -> Permissions]
    BY <1>1 DEF SessionInv, SessionTypeOK, Permissions
  <2>2. Present'
    <3>1. Members = room.clients /\ Members' = Members \ {c}
      BY <1>2, <1>4 DEF Members
    <3>2. \A d \in Conn : pc'[d] = IF d = c THEN "out" ELSE pc[d]
      BY <1>1 DEF SessionInv, SessionTypeOK
    <3>3. ASSUME NEW d \in Conn, pc'[d] # "out" PROVE \E x \in Members' : UserOf[x] = UserOf[d]
      <4>1. d # c /\ pc[d] # "out"
        BY <3>2, <3>3
      <4>2. PICK x \in Members : UserOf[x] = UserOf[d]
        BY <1>3, <4>1 DEF Present
      <4>3. x # c
        BY <1>1, <4>1, <4>2 DEF OtherTabs
      <4> QED BY <3>1, <4>2, <4>3
    <3> QED BY <1>3, <3>1, <3>2, <3>3 DEF Present
  <2>3. BuffersOK'
    <3>1. send' = [d \in Conn |-> IF d = c THEN <<>>
                                 ELSE IF d \in Members /\ Len(send[d]) < SendCap
                                 THEN Append(send[d], Notice) ELSE send[d]]
      BY DEF Exit
    <3>2. ASSUME NEW d \in Conn
          PROVE  send'[d] \in Seq(Op \cup {Notice}) /\ Len(send'[d]) <= SendCap
      <4>1. send[d] \in Seq(Op \cup {Notice}) /\ Len(send[d]) <= SendCap
        BY DEF SessionInv, SessionTypeOK
      <4>2. CASE d = c
        BY <3>1, <4>2, SessionAssumption DEF SessionAssumption
      <4>3. CASE d # c
        <5>1. send'[d] = IF d \in Members /\ Len(send[d]) < SendCap
                         THEN Append(send[d], Notice) ELSE send[d]
          BY <3>1, <4>3
        <5> QED BY <4>1, <5>1, AppendTyped
      <4> QED BY <4>2, <4>3
    <3>3. send' = [d \in Conn |-> send'[d]]
      BY <3>1
    <3> QED BY <3>2, <3>3 DEF BuffersOK
  <2>4. view' \in [Conn -> Documents \cup {Behind}] /\ acked' \in SUBSET Op
    BY <1>1 DEF SessionInv, SessionTypeOK
  <2> QED BY <1>1, <1>4, <2>1, <2>2, <2>3, <2>4 DEF SessionInv, SessionTypeOK, Present, BuffersOK
<1>6. Kept'
  BY <1>1, <1>2, <1>4 DEF SessionInv, Kept
<1>7. ASSUME NEW d \in Conn PROVE Carried(d)'
  <2>1. CASE d = c
    <3>1. pc'[d] = "out" /\ asked'[d] = {}
      BY <1>1, <2>1 DEF SessionInv, SessionTypeOK, Carried
    <3> QED BY <3>1 DEF Carried, OpSteps
  <2>2. CASE d # c /\ pc[d] = "out"
    <3>1. pc'[d] = "out" /\ asked'[d] = {}
      BY <1>1, <2>2 DEF SessionInv, SessionTypeOK, Carried
    <3> QED BY <3>1 DEF Carried, OpSteps
  <2>3. CASE d # c /\ pc[d] # "out"
    <3>1. pc'[d] = pc[d]
      BY <1>1, <2>3 DEF SessionInv, SessionTypeOK
    <3>2. room'.state = room.state
      <4>1. PICK x \in Members : UserOf[x] = UserOf[d]
        BY <1>3, <2>3 DEF Present
      <4>2. x # c
        BY <1>1, <2>3, <4>1 DEF OtherTabs
      <4> QED BY <1>2, <1>4, <4>1, <4>2 DEF Members
    <3> QED BY <1>1, <3>1, <3>2 DEF SessionInv, Carried
  <2> QED BY <2>1, <2>2, <2>3
<1> QED BY <1>5, <1>6, <1>7 DEF SessionInv

LEMMA SessionNext == ASSUME SessionInv, [Next]_vars PROVE SessionInv'
<1>1. CASE UNCHANGED vars
  <2>1. UNCHANGED <<roomVars, pumpVars, ghostVars>> /\ UNCHANGED <<send, view>>
    BY <1>1 DEF vars, peerVars
  <2> QED BY <2>1, OnlyPeers DEF SessionInv, SessionTypeOK, BuffersOK
<1>2. ASSUME NEW c \in Conn, Client(c) PROVE SessionInv'
  BY <1>2, JoinKeeps, ExitKeeps, RefuseKeeps, CursorKeeps, AskSaveKeeps, SendOpKeeps DEF Client
<1>3. ASSUME NEW c \in Conn, Handler(c) PROVE SessionInv'
  BY <1>3, ApplyOpKeeps, RelayKeeps, AckKeeps, SnapshotKeeps, CheckOwnerKeeps, SaveFailsKeeps,
     UpdateDataKeeps, SavedKeeps, TellSavedKeeps DEF Handler
<1>4. ASSUME NEW c \in Conn, Deliver(c) PROVE SessionInv'
  BY <1>4, DeliverKeeps
<1> QED BY <1>1, <1>2, <1>3, <1>4, RestartKeeps, RestKeeps DEF Next

\* The inductive invariant holds in every behaviour of rooms, saves, REST
\* and restarts.
THEOREM SessionInvariant == Spec => []SessionInv
<1>1. Init => SessionInv
  BY SessionInit
<1>2. SessionInv /\ [Next]_vars => SessionInv'
  BY SessionNext
<1> QED BY <1>1, <1>2, PTL DEF Spec

\* The row, the room, the pumps and the buffers keep their types, and no
\* buffer grows over its capacity.
THEOREM SessionTypeCorrect == Spec => []SessionTypeOK
<1>1. SessionInv => SessionTypeOK
  BY DEF SessionInv
<1> QED BY <1>1, SessionInvariant, PTL

\* What was acknowledged is in the room while it lives, and what a save that
\* was asked for later has stored is in the text, through every interleaving
\* of operations, saves, failures, restarts and REST calls.
THEOREM AckedStays == Spec => []AckedIsKept
<1>1. SessionInv => AckedIsKept
  BY DEF SessionInv, Kept, AckedIsKept
<1> QED BY <1>1, SessionInvariant, PTL

\* A room of a later session holds all that a save promised in earlier ones.
THEOREM StoredIsReloaded == Spec => []RoomHoldsStored
<1>1. SessionInv => RoomHoldsStored
  BY DEF SessionInv, Kept, RoomHoldsStored
<1> QED BY <1>1, SessionInvariant, PTL

----------------------------------------------------------------------------
(* Saves *)

SaveSteps == {"snapshot", "check", "write", "saved", "tell"}

\* The owner has one connection.  With two of them one may write a snapshot
\* that is older than what the other has stored (MCSessionTabs).
OneOwner == \A c, d \in Conn : UserOf[c] = Owner /\ UserOf[d] = Owner => c = d

\* What is said of a save once its row is written: it is in the text.
Told(c) ==
    /\ pc[c] \in SaveSteps => c \in Savers
    /\ pc[c] \in {"saved", "tell"} => asked[c] \subseteq promised

SavesInv == row # NoRow /\ \A c \in Conn : Told(c)

\* A step of a pump that asks for no save and ends none.
LEMMA OtherSteps ==
    ASSUME SessionInv, SavesInv, NEW c \in Conn, UNCHANGED <<row, promised, asked>>,
           NEW label, Goto(c, label),
           label \in SaveSteps => pc[c] \in SaveSteps,
           label \in {"saved", "tell"} => pc[c] \in {"saved", "tell"}
    PROVE  SavesInv'
<1>1. ASSUME NEW d \in Conn PROVE Told(d)'
  <2>1. pc'[d] = IF d = c THEN label ELSE pc[d]
    BY DEF Goto, SessionInv, SessionTypeOK
  <2> QED BY <2>1 DEF SavesInv, Told
<1> QED BY <1>1 DEF SavesInv

\* A step after which the pump is not in a save, and has forgotten what it
\* was asked for; what the saves of others have stored stays.
LEMMA SaveIsOver ==
    ASSUME SessionInv, SavesInv, NEW c \in Conn, row' # NoRow,
           pc'[c] \notin SaveSteps,
           \A d \in Conn \ {c} : pc'[d] = pc[d] /\ asked'[d] = asked[d],
           promised' = promised \/ \A d \in Conn : pc[d] = "out"
    PROVE  SavesInv'
<1>1. ASSUME NEW d \in Conn PROVE Told(d)'
  <2>1. CASE d = c
    BY <2>1 DEF Told, SaveSteps
  <2>2. CASE d # c
    BY <2>2 DEF SavesInv, Told, SaveSteps
  <2> QED BY <2>1, <2>2
<1> QED BY <1>1 DEF SavesInv

\* The write of the owner adds what its save was asked for to what is
\* promised: no other connection of the owner holds a snapshot.
LEMMA UpdateDataTells ==
    ASSUME SessionInv, SavesInv, OneOwner, NEW c \in Conn, UpdateData(c)
    PROVE  SavesInv'
<1>1. ~OlderCopy(c)
  BY DEF UpdateData, OlderCopy, OneOwner, SessionInv, Carried
<1>2. /\ pc[c] = "write" /\ pc' = [pc EXCEPT ![c] = "saved"] /\ asked' = asked
      /\ row' = snap[c] /\ promised' = promised \cup asked[c]
  BY <1>1 DEF UpdateData, SavesInv, Goto
<1>3. row' # NoRow
  BY <1>2, SessionAssumption DEF SessionAssumption, SessionInv, SessionTypeOK
<1>4. ASSUME NEW d \in Conn PROVE Told(d)'
  <2>1. pc'[d] = IF d = c THEN "saved" ELSE pc[d]
    BY <1>2 DEF SessionInv, SessionTypeOK
  <2> QED BY <1>2, <2>1 DEF SavesInv, Told, SaveSteps
<1> QED BY <1>3, <1>4 DEF SavesInv

LEMMA SavesNext ==
    ASSUME SessionInv, SavesInv, ~Rest, OneOwner, [Next]_vars
    PROVE  SavesInv'
<1>1. ASSUME UNCHANGED <<row, pc, asked, promised>> PROVE SavesInv'
  BY <1>1 DEF SavesInv, Told
<1>2. ASSUME NEW c \in Conn, Client(c) PROVE SavesInv'
  <2>1. ASSUME NEW p \in Permissions, NEW ok \in BOOLEAN, Join(c, p, ok) PROVE SavesInv'
    <3>1. row' = row /\ asked' = asked /\ pc' = [pc EXCEPT ![c] = "idle"]
      BY <2>1 DEF Join, Goto
    <3>2. promised' = promised \/ \A d \in Conn : pc[d] = "out"
      BY <2>1 DEF Join, SessionInv, SessionTypeOK, Members
    <3> QED BY <3>1, <3>2, SaveIsOver DEF SavesInv, SessionInv, SessionTypeOK, SaveSteps
  <2>2. ASSUME Exit(c) PROVE SavesInv'
    <3>1. UNCHANGED <<row, asked, promised>> /\ Goto(c, "out")
      BY <2>2 DEF Exit
    <3> QED BY <3>1, OtherSteps DEF SaveSteps
  <2>3. ASSUME AskSave(c) PROVE SavesInv'
    <3>1. /\ c \in Savers /\ UNCHANGED <<row, promised>>
          /\ pc' = [pc EXCEPT ![c] = "snapshot"] /\ asked' = [asked EXCEPT ![c] = acked]
      BY <2>3 DEF AskSave, Goto, roomVars
    <3>2. ASSUME NEW d \in Conn PROVE Told(d)'
      BY <3>1 DEF SavesInv, Told, SessionInv, SessionTypeOK
    <3> QED BY <3>1, <3>2 DEF SavesInv
  <2>4. ASSUME NEW o \in Op, SendOp(c, o) PROVE SavesInv'
    <3>1. UNCHANGED <<row, asked, promised>> /\ Goto(c, "apply")
      BY <2>4 DEF SendOp, roomVars, ghostVars
    <3> QED BY <3>1, OtherSteps DEF SaveSteps
  <2>5. ASSUME Refuse(c) \/ Cursor(c) PROVE SavesInv'
    BY <1>1, <2>5 DEF Refuse, Cursor, roomVars, pumpVars, ghostVars
  <2> QED BY <1>2, <2>1, <2>2, <2>3, <2>4, <2>5 DEF Client
<1>3. ASSUME NEW c \in Conn, Handler(c) PROVE SavesInv'
  <2>1. ASSUME \/ ApplyOp(c) \/ Relay(c) \/ Ack(c) \/ Snapshot(c) \/ CheckOwner(c) \/ Saved(c)
        PROVE SavesInv'
    <3>1. /\ UNCHANGED <<row, asked, promised>>
          /\ \E label \in Busy \cup {"idle"} :
                /\ Goto(c, label)
                /\ label \in SaveSteps => pc[c] \in SaveSteps
                /\ label \in {"saved", "tell"} => pc[c] \in {"saved", "tell"}
      BY <2>1 DEF ApplyOp, Relay, Ack, Snapshot, CheckOwner, Saved, SaveSteps, Busy, roomVars, ghostVars
    <3> QED BY <3>1, OtherSteps
  <2>2. ASSUME SaveFails(c) \/ TellSaved(c) PROVE SavesInv'
    <3>1. /\ UNCHANGED <<row, promised>> /\ pc' = [pc EXCEPT ![c] = "idle"]
          /\ asked' = [asked EXCEPT ![c] = {}]
      BY <2>2 DEF SaveFails, EndSave, TellSaved, Goto, roomVars
    <3> QED BY <3>1, SaveIsOver DEF SavesInv, SessionInv, SessionTypeOK, SaveSteps
  <2> QED BY <1>3, <2>1, <2>2, UpdateDataTells DEF Handler
<1>4. ASSUME NEW c \in Conn, Deliver(c) PROVE SavesInv'
  BY <1>1, <1>4 DEF Deliver, roomVars, pumpVars, ghostVars
<1>5. CASE Restart
  BY <1>5 DEF Restart, SavesInv, Told, SaveSteps
<1>6. CASE UNCHANGED vars
  BY <1>1, <1>6 DEF vars, roomVars, pumpVars, ghostVars
<1> QED BY <1>2, <1>3, <1>4, <1>5, <1>6 DEF Next, PutData, DeleteCanvas

LEMMA SavesAlways == ASSUME ~Rest, OneOwner PROVE Spec => []SavesInv
<1>1. Init => SavesInv
  BY SessionAssumption DEF SessionAssumption, Init, SavesInv, Told, SaveSteps
<1>2. SessionInv /\ SavesInv /\ [Next]_vars => SavesInv'
  BY SavesNext
<1> QED BY <1>1, <1>2, SessionInvariant, PTL DEF Spec

\* "State persisted" (README.md:143): when a client is told that its canvas
\* is saved, the row has everything that was acknowledged when it asked,
\* through failed saves, the saves of collaborators and restarts, if the
\* owner has one connection and nobody stores or deletes the canvas over
\* REST meanwhile.  For an owner with two tabs it is false (MCSessionTabs).
THEOREM SavedIsStored ==
    ASSUME ~Rest, OneOwner
    PROVE  Spec => []ToldIsStored
<1>1. ASSUME SessionInv, SavesInv, NEW c \in Conn, pc[c] \in {"saved", "tell"}
      PROVE  row # NoRow /\ Covers(row, asked[c])
  BY <1>1 DEF SessionInv, Kept, SavesInv, Told, Covers
<1>2. SessionInv /\ SavesInv => ToldIsStored
  BY <1>1 DEF ToldIsStored
<1> QED BY <1>2, SavesAlways, SessionInvariant, PTL

SavesEndStored ==
    \A c \in Conn : pc[c] \in SaveSteps /\ pc'[c] \notin SaveSteps =>
        Restart \/ (row' # NoRow /\ Covers(row', asked[c]))

\* If only the owner saves and the database answers, no save ends with less:
\* the handler returns with the row holding what was asked for, unless the
\* process ends before.  The save of anyone else fails (MCSessionSave).
THEOREM OwnersSavesPersist ==
    ASSUME ~Rest, ~DbFails, OneOwner, \A c \in Savers : UserOf[c] = Owner
    PROVE  Spec => [][SavesEndStored]_vars
<1>1. ASSUME SessionInv, SavesInv, [Next]_vars, NEW c \in Conn,
             pc[c] \in SaveSteps, pc'[c] \notin SaveSteps, ~Restart
      PROVE  row' # NoRow /\ Covers(row', asked[c])
  <2>1. UserOf[c] = Owner /\ row # NoRow
    BY <1>1 DEF SavesInv, Told
  <2>2. PICK d \in Conn : Client(d) \/ Handler(d)
    BY <1>1 DEF Next, PutData, DeleteCanvas, Deliver, vars, pumpVars
  <2>3. d = c
    BY <1>1, <2>2 DEF Client, Handler, Join, Exit, Refuse, Cursor, AskSave, SendOp, ApplyOp, Relay,
                      Ack, Snapshot, CheckOwner, SaveFails, EndSave, UpdateData, Saved, TellSaved,
                      Goto, pumpVars, SessionInv, SessionTypeOK
  <2>4. TellSaved(c)
    <3>1. ~Client(c)
      BY <1>1 DEF Client, Join, Exit, Refuse, Cursor, AskSave, SendOp, SaveSteps
    <3>2. ~SaveFails(c)
      BY <2>1 DEF SaveFails
    <3>3. ~(ApplyOp(c) \/ Relay(c) \/ Ack(c))
      BY <1>1 DEF ApplyOp, Relay, Ack, SaveSteps
    <3>4. ~(Snapshot(c) \/ CheckOwner(c) \/ UpdateData(c) \/ Saved(c))
      BY <1>1 DEF Snapshot, CheckOwner, UpdateData, Saved, Goto, SaveSteps, SessionInv, SessionTypeOK
    <3> QED BY <2>2, <2>3, <3>1, <3>2, <3>3, <3>4 DEF Handler
  <2>5. pc[c] = "tell" /\ row' = row
    BY <2>4 DEF TellSaved, roomVars
  <2> QED BY <1>1, <2>1, <2>5 DEF SessionInv, Kept, SavesInv, Told, Covers
<1>2. SessionInv /\ SavesInv /\ [Next]_vars =>
        SavesEndStored
  BY <1>1 DEF SavesEndStored
<1> QED BY <1>2, SavesAlways, SessionInvariant, PTL DEF Spec

----------------------------------------------------------------------------
(* Convergence *)

\* The replica or room has the operation's version or a higher one.
Seen(d, o) == o.version <= d[o.elem].version

InQueue(d, m) == \E i \in DOMAIN send[d] : send[d][i] = m

\* A relay of o to d is queued, or a pump is about to send it.
OnItsWay(d, o) ==
    InQueue(d, o) \/ \E c \in Conn \ {d} : pc[c] = "relay" /\ doing[c] = o

\* What a level replica lacks is on its way to it.
Reached(d, e) ==
    \/ room.state[e].version <= view[d][e].version
    \/ \E o \in Op : o.elem = e /\ room.state[e].version <= o.version /\ OnItsWay(d, o)

\* It is ahead of the room only by the operation its own pump has not yet
\* applied.
NotAhead(d, e) ==
    \/ view[d][e].version <= room.state[e].version
    \/ pc[d] = "apply" /\ doing[d].elem = e /\ view[d][e].version <= doing[d].version

Level(d) ==
    view[d] # Behind =>
        /\ pc[d] # "out" /\ permission[d] = "collaborate"
        /\ \A e \in Elem : Reached(d, e) /\ NotAhead(d, e)
        /\ pc[d] = "apply" => Seen(view[d], doing[d])

\* Only open connections are sent anything, and no operation ahead of the room.
Sent(d) ==
    /\ pc[d] = "out" => send[d] = <<>>
    /\ \A o \in Op : InQueue(d, o) => Seen(room.state, o)

LevelInv == SessionInv /\ \A d \in Conn : Level(d) /\ Sent(d)

\* What Queue puts in the buffers.
LEMMA QueueAdds ==
    ASSUME SessionTypeOK, NEW to, NEW m \in Op \cup {Notice}, Queue(to, m), NEW d \in Conn
    PROVE  /\ d \notin to => send'[d] = send[d]
           /\ \A x : InQueue(d, x) => InQueue(d, x)'
           /\ \A x : InQueue(d, x)' => InQueue(d, x) \/ (d \in to /\ x = m)
           /\ d \in to /\ Len(send[d]) < SendCap => InQueue(d, m)'
<1>1. send'[d] = IF d \in to /\ Len(send[d]) < SendCap THEN Append(send[d], m) ELSE send[d]
  BY DEF Queue
<1>2. send[d] \in Seq(Op \cup {Notice})
  BY DEF SessionTypeOK
<1>3. CASE d \in to /\ Len(send[d]) < SendCap
  <2>1. send'[d] = Append(send[d], m)
    BY <1>1, <1>3
  <2>2. /\ DOMAIN Append(send[d], m) = DOMAIN send[d] \cup {Len(send[d]) + 1}
        /\ Append(send[d], m)[Len(send[d]) + 1] = m
        /\ \A i \in DOMAIN send[d] : Append(send[d], m)[i] = send[d][i]
    BY <1>2
  <2> QED BY <1>3, <2>1, <2>2 DEF InQueue
<1>4. CASE ~(d \in to /\ Len(send[d]) < SendCap)
  <2>1. send'[d] = send[d]
    BY <1>1, <1>4
  <2> QED BY <1>4, <2>1 DEF InQueue
<1> QED BY <1>3, <1>4

\* Steps that no replica, no relay and no operation in a buffer notices.
LEMMA Undisturbed ==
    ASSUME LevelInv, SessionInv', UNCHANGED <<room, permission, view>>,
           \A d \in Conn : /\ pc'[d] = "out" <=> pc[d] = "out"
                           /\ pc'[d] = "apply" <=> pc[d] = "apply"
                           /\ pc[d] = "relay" => pc'[d] = "relay"
                           /\ pc[d] \in {"apply", "relay"} => doing'[d] = doing[d]
                           /\ pc[d] = "out" => send'[d] = send[d]
                           /\ \A o \in Op : InQueue(d, o)' <=> InQueue(d, o)
    PROVE  LevelInv'
<1>1. ASSUME NEW d \in Conn PROVE Sent(d)'
  BY DEF LevelInv, Sent
<1>2. ASSUME NEW d \in Conn, view'[d] # Behind, NEW e \in Elem PROVE Reached(d, e)'
  <2>1. view[d] # Behind /\ Reached(d, e)
    BY <1>2 DEF LevelInv, Level
  <2>2. CASE room.state[e].version <= view[d][e].version
    BY <2>2 DEF Reached
  <2>3. CASE \E o \in Op : o.elem = e /\ room.state[e].version <= o.version /\ OnItsWay(d, o)
    <3>1. PICK o \in Op : o.elem = e /\ room.state[e].version <= o.version /\ OnItsWay(d, o)
      BY <2>3
    <3>2. OnItsWay(d, o)'
      BY <3>1 DEF OnItsWay
    <3> QED BY <3>1, <3>2 DEF Reached
  <2> QED BY <2>1, <2>2, <2>3 DEF Reached
<1>3. ASSUME NEW d \in Conn PROVE Level(d)'
  <2>1. ASSUME view'[d] # Behind, NEW e \in Elem PROVE NotAhead(d, e)'
    BY <2>1 DEF LevelInv, Level, NotAhead
  <2>2. ASSUME view'[d] # Behind
        PROVE  /\ pc'[d] # "out" /\ permission'[d] = "collaborate"
               /\ pc'[d] = "apply" => Seen(view'[d], doing'[d])
    BY <2>2 DEF LevelInv, Level
  <2> QED BY <1>2, <2>1, <2>2 DEF Level
<1> QED BY <1>1, <1>3 DEF LevelInv

\* The same for steps of one pump that put a notice in the buffers of some
\* open connections or leave the buffers alone.
LEMMA UndisturbedBy ==
    ASSUME LevelInv, SessionInv', NEW c \in Conn, NEW to \in SUBSET {d \in Conn : pc[d] # "out"},
           NEW label \in Busy \cup {"idle"}, label \notin {"apply", "relay"},
           pc[c] \notin {"out", "apply", "relay"}, Goto(c, label) \/ UNCHANGED pc,
           UNCHANGED <<room, permission, view>>, Queue(to, Notice) \/ UNCHANGED send,
           doing' = doing \/ doing' = [doing EXCEPT ![c] = NoOp]
    PROVE  LevelInv'
<1>1. ASSUME NEW d \in Conn
      PROVE  /\ pc'[d] = "out" <=> pc[d] = "out"
             /\ pc'[d] = "apply" <=> pc[d] = "apply"
             /\ pc[d] = "relay" => pc'[d] = "relay"
             /\ pc[d] \in {"apply", "relay"} => doing'[d] = doing[d]
  <2>1. pc \in [Conn -> Busy \cup {"out", "idle"}] /\ doing \in [Conn -> Op \cup {NoOp}]
    BY DEF LevelInv, SessionInv, SessionTypeOK
  <2>2. label # "out"
    BY DEF Busy
  <2>3. d # c => pc'[d] = pc[d] /\ doing'[d] = doing[d]
    BY <2>1 DEF Goto
  <2>4. pc'[c] \in {label, pc[c]}
    BY <2>1 DEF Goto
  <2> QED BY <2>2, <2>3, <2>4
<1>2. ASSUME NEW d \in Conn
      PROVE  /\ pc[d] = "out" => send'[d] = send[d]
             /\ \A o \in Op : InQueue(d, o)' <=> InQueue(d, o)
  <2>1. CASE Queue(to, Notice)
    <3>1. pc[d] = "out" => d \notin to
      OBVIOUS
    <3>2. Notice \notin Op
      BY SessionAssumption DEF SessionAssumption
    <3> QED BY <2>1, <3>1, <3>2, QueueAdds DEF LevelInv, SessionInv
  <2>2. CASE UNCHANGED send
    BY <2>2 DEF InQueue
  <2> QED BY <2>1, <2>2
<1> QED BY <1>1, <1>2, Undisturbed

LEMMA QuietSteps ==
    ASSUME LevelInv, SessionInv', NEW c \in Conn,
           \/ Refuse(c) \/ Cursor(c) \/ AskSave(c) \/ Ack(c) \/ Snapshot(c) \/ CheckOwner(c)
           \/ SaveFails(c) \/ UpdateData(c) \/ Saved(c) \/ TellSaved(c)
    PROVE  LevelInv'
<1>1. /\ pc[c] \notin {"out", "apply", "relay"}
      /\ UNCHANGED <<room, permission, view>>
      /\ doing' = doing \/ doing' = [doing EXCEPT ![c] = NoOp]
  BY DEF Refuse, Cursor, AskSave, Ack, Snapshot, CheckOwner, SaveFails, EndSave, UpdateData, Saved,
         TellSaved, roomVars, pumpVars, peerVars, ghostVars
<1>2. \/ UNCHANGED pc
      \/ \E label \in (Busy \cup {"idle"}) \ {"apply", "relay"} : Goto(c, label)
  BY DEF Refuse, Cursor, AskSave, Ack, Snapshot, CheckOwner, SaveFails, EndSave, UpdateData, Saved,
         TellSaved, pumpVars, Busy
<1>3. \/ UNCHANGED send
      \/ \E to \in {{c}, Members, {d \in Members : UserOf[d] # UserOf[c]}} : Queue(to, Notice)
  BY DEF Refuse, Cursor, AskSave, Ack, Snapshot, CheckOwner, SaveFails, EndSave, UpdateData, Saved,
         TellSaved, peerVars
<1>4. c \in {d \in Conn : pc[d] # "out"} /\ Members \subseteq {d \in Conn : pc[d] # "out"}
  BY <1>1 DEF LevelInv, SessionInv, SessionTypeOK
<1>5. PICK to \in SUBSET {d \in Conn : pc[d] # "out"} : Queue(to, Notice) \/ UNCHANGED send
  BY <1>3, <1>4
<1>6. "idle" \in (Busy \cup {"idle"}) \ {"apply", "relay"}
  OBVIOUS
<1>7. PICK label \in (Busy \cup {"idle"}) \ {"apply", "relay"} : Goto(c, label) \/ UNCHANGED pc
  BY <1>2, <1>6
<1>8. label \in Busy \cup {"idle"} /\ label \notin {"apply", "relay"}
  OBVIOUS
<1> QED BY <1>1, <1>5, <1>7, <1>8, UndisturbedBy

\* The version a replica has of an element, once it has taken an operation.
LEMMA TakenValues ==
    ASSUME NEW v \in Documents, NEW o \in Op
    PROVE  /\ v # Behind /\ Taken(v, o) \in Documents /\ Taken(v, o) # Behind
           /\ \A e \in Elem : Taken(v, o)[e].version = IF e = o.elem /\ v[e].version < o.version
                                                       THEN o.version ELSE v[e].version
           /\ o.elem \in Elem /\ o.version \in Nat
           /\ \A e \in Elem : v[e].version \in Nat
<1>1. o.elem \in Elem /\ o.version \in Nat /\ \A e \in Elem : v[e].version \in Nat
  BY PartsTyped
<1>2. \A d \in Documents : d # Behind
  BY PartsTyped
<1>3. CASE Accepts(v, o)
  <2>1. Taken(v, o) = Written(v, o)
    BY <1>2, <1>3 DEF Taken
  <2>2. /\ Written(v, o) \in Documents
        /\ \A e \in Elem \ {o.elem} : Written(v, o)[e] = v[e]
        /\ Written(v, o)[o.elem].version = o.version
    BY WrittenParts
  <2> QED BY <1>1, <1>2, <1>3, <2>1, <2>2 DEF Accepts
<1>4. CASE ~Accepts(v, o)
  <2>1. Taken(v, o) = v
    BY <1>4 DEF Taken
  <2> QED BY <1>1, <1>2, <1>4, <2>1 DEF Accepts
<1> QED BY <1>3, <1>4

\* An operation that its own replica has taken is ahead of the room.
LEMMA SendOpLevel ==
    ASSUME LevelInv, SessionInv', NEW c \in Conn, NEW o \in Op, SendOp(c, o)
    PROVE  LevelInv'
<1>1. /\ pc[c] = "idle" /\ pc' = [pc EXCEPT ![c] = "apply"]
      /\ doing' = [doing EXCEPT ![c] = o] /\ view' = [view EXCEPT ![c] = Taken(@, o)]
      /\ room' = room /\ permission' = permission /\ send' = send
  BY DEF SendOp, Goto, roomVars
<1>2. /\ pc'[c] = "apply" /\ doing'[c] = o /\ view'[c] = Taken(view[c], o)
      /\ \A d \in Conn \ {c} : pc'[d] = pc[d] /\ doing'[d] = doing[d] /\ view'[d] = view[d]
  BY <1>1 DEF LevelInv, SessionInv, SessionTypeOK
<1>3. ASSUME NEW d \in Conn, NEW x \in Op, OnItsWay(d, x) PROVE OnItsWay(d, x)'
  BY <1>1, <1>2, <1>3 DEF OnItsWay, InQueue
<1>4. ASSUME NEW d \in Conn PROVE Sent(d)'
  BY <1>1, <1>2 DEF LevelInv, Sent, InQueue
<1>5. ASSUME NEW d \in Conn \ {c} PROVE Level(d)'
  BY <1>1, <1>2, <1>3 DEF LevelInv, Level, Reached, NotAhead
<1>6. ASSUME view'[c] # Behind PROVE Level(c)'
  <2>1. view[c] # Behind
    BY <1>2, <1>6 DEF Taken
  <2>2. view[c] \in Documents
    BY <2>1 DEF LevelInv, SessionInv, SessionTypeOK
  <2>3. \A e \in Elem : view'[c][e].version = IF e = o.elem /\ view[c][e].version < o.version
                                      THEN o.version ELSE view[c][e].version
    BY <1>2, <2>2, TakenValues
  <2>4. o.elem \in Elem /\ o.version \in Nat
    BY <2>2, TakenValues
  <2>5. room.state \in Documents
    BY <1>1, InRoom DEF LevelInv, SessionInv
  <2>6. ASSUME NEW e \in Elem PROVE Reached(c, e)' /\ NotAhead(c, e)'
    <3>1. room.state[e].version \in Nat /\ view[c][e].version \in Nat
      BY <2>2, <2>5, PartsTyped
    <3>2. Reached(c, e) /\ view[c][e].version <= room.state[e].version
      BY <1>1, <2>1 DEF LevelInv, Level, NotAhead
    <3>3. view[c][e].version <= view'[c][e].version
      BY <2>3, <2>4, <3>1
    <3>4. room.state[e].version <= view[c][e].version => room.state[e].version <= view'[c][e].version
      BY <2>3, <2>4, <3>1
    <3>5. Reached(c, e)'
      BY <1>1, <1>3, <3>2, <3>4 DEF Reached
    <3>6. NotAhead(c, e)'
      <4>1. CASE e = o.elem /\ view[c][e].version < o.version
        BY <1>2, <2>3, <2>4, <4>1 DEF NotAhead
      <4>2. CASE ~(e = o.elem /\ view[c][e].version < o.version)
        BY <1>1, <2>3, <3>2, <4>2 DEF NotAhead
      <4> QED BY <4>1, <4>2
    <3> QED BY <3>5, <3>6
  <2>7. Seen(view'[c], o)
    <3>1. view[c][o.elem].version \in Nat
      BY <2>2, <2>4, PartsTyped
    <3> QED BY <2>3, <2>4, <3>1 DEF Seen
  <2>8. permission[c] = "collaborate"
    BY <2>1 DEF LevelInv, Level
  <2> QED BY <1>1, <1>2, <2>6, <2>7, <2>8 DEF Level
<1>7. Level(c)'
  BY <1>6 DEF Level
<1> QED BY <1>4, <1>5, <1>7 DEF LevelInv

\* The room takes the operation: its own replica has it, the others are about
\* to be sent it.
LEMMA ApplyOpLevel ==
    ASSUME LevelInv, SessionInv', NEW c \in Conn, ApplyOp(c)
    PROVE  LevelInv'
<1> DEFINE o == doing[c]
<1>1. /\ pc[c] = "apply" /\ permission' = permission /\ doing' = doing
      /\ send' = send /\ view' = view
  BY DEF ApplyOp, peerVars
<1>2. /\ room.state \in Documents /\ room \in [clients : SUBSET Conn, state : Documents]
  BY <1>1, InRoom DEF LevelInv, SessionInv
<1>3. o \in Op /\ o.elem \in Elem /\ o.version \in Nat
  <2>1. o \in Op
    BY <1>1 DEF LevelInv, SessionInv, Carried, OpSteps
  <2> HIDE DEF o
  <2> QED BY <1>2, <2>1, PartsTyped
<1>4. /\ pc' = [pc EXCEPT ![c] = "relay"] \/ pc' = [pc EXCEPT ![c] = "stale"]
      /\ \A d \in Conn \ {c} : pc'[d] = pc[d]
      /\ pc'[c] \in {"relay", "stale"}
  BY DEF ApplyOp, Goto, LevelInv, SessionInv, SessionTypeOK
<1>5. /\ \A e \in Elem : room.state[e].version <= room'.state[e].version /\ room'.state[e].version \in Nat
      /\ \A e \in Elem : \/ room'.state[e].version = room.state[e].version
                         \/ e = o.elem /\ room'.state[e].version = o.version /\ pc'[c] = "relay"
      /\ o.version <= room'.state[o.elem].version
  <2>1. \A e \in Elem : room.state[e].version \in Nat
    BY <1>2, <1>3, PartsTyped
  <2>2. CASE Accepts(room.state, o)
    <3>1. room'.state = Written(room.state, o)
      BY <1>2, <2>2 DEF ApplyOp
    <3>2. pc'[c] = "relay"
      BY <2>2 DEF ApplyOp, Goto, LevelInv, SessionInv, SessionTypeOK
    <3> HIDE DEF o
    <3>3. /\ \A e \in Elem \ {o.elem} : room'.state[e] = room.state[e]
          /\ room'.state[o.elem].version = o.version
      BY <1>2, <1>3, <3>1, WrittenParts
    <3> QED BY <1>3, <2>1, <2>2, <3>2, <3>3 DEF Accepts
  <2>3. CASE ~Accepts(room.state, o)
    <3>1. room' = room
      BY <2>3 DEF ApplyOp
    <3> HIDE DEF o
    <3> QED BY <1>3, <2>1, <2>3, <3>1 DEF Accepts
  <2> QED BY <2>2, <2>3
<1>6. ASSUME NEW d \in Conn, NEW x \in Op, OnItsWay(d, x) PROVE OnItsWay(d, x)'
  BY <1>1, <1>4, <1>6 DEF OnItsWay, InQueue
<1>7. ASSUME NEW d \in Conn PROVE Sent(d)'
  <2>1. pc'[d] = "out" => send'[d] = <<>>
    BY <1>1, <1>4 DEF LevelInv, Sent
  <2>2. ASSUME NEW x \in Op, InQueue(d, x)' PROVE Seen(room'.state, x)
    <3>1. x.version <= room.state[x.elem].version
      BY <1>1, <2>2 DEF LevelInv, Sent, InQueue, Seen
    <3>2. x.elem \in Elem /\ x.version \in Nat
      BY <1>2, PartsTyped
    <3>3. room.state[x.elem].version \in Nat
      BY <1>2, <3>2, PartsTyped
    <3> QED BY <1>5, <3>1, <3>2, <3>3 DEF Seen
  <2> QED BY <2>1, <2>2 DEF Sent
<1>8. ASSUME NEW d \in Conn, view[d] # Behind, NEW e \in Elem PROVE Reached(d, e)'
  <2>1. Reached(d, e)
    BY <1>8 DEF LevelInv, Level
  <2>2. CASE room'.state[e].version = room.state[e].version
    BY <1>1, <1>6, <2>1, <2>2 DEF Reached
  <2>3. CASE e = o.elem /\ room'.state[e].version = o.version /\ pc'[c] = "relay"
    <3>1. CASE d = c
      <4>1. Seen(view[c], o)
        BY <1>1, <1>8, <3>1 DEF LevelInv, Level
      <4> QED BY <1>1, <2>3, <3>1, <4>1 DEF Seen, Reached
    <3>2. CASE d # c
      <4>1. OnItsWay(d, o)'
        BY <1>1, <2>3, <3>2 DEF OnItsWay
      <4>2. o.version <= o.version
        BY <1>3
      <4> QED BY <1>1, <1>3, <2>3, <4>1, <4>2 DEF Reached
    <3> QED BY <3>1, <3>2
  <2> QED BY <1>5, <2>2, <2>3
<1>9. ASSUME NEW d \in Conn, view[d] # Behind, NEW e \in Elem PROVE NotAhead(d, e)'
  <2>1. view[d][e].version \in Nat /\ room.state[e].version \in Nat
    <3>1. view[d] \in Documents
      BY <1>9 DEF LevelInv, SessionInv, SessionTypeOK
    <3> HIDE DEF o
    <3> QED BY <1>2, <1>3, <3>1, PartsTyped
  <2>2. NotAhead(d, e)
    BY <1>9 DEF LevelInv, Level
  <2>3. CASE view[d][e].version <= room.state[e].version
    BY <1>1, <1>5, <2>1, <2>3 DEF NotAhead
  <2>4. CASE ~(view[d][e].version <= room.state[e].version)
    <3>1. pc[d] = "apply" /\ doing[d].elem = e /\ view[d][e].version <= doing[d].version
      BY <2>2, <2>4 DEF NotAhead
    <3>2. CASE d = c
      <4>1. e = o.elem /\ view[d][e].version <= o.version
        BY <3>1, <3>2
      <4>2. o.version <= room'.state[e].version /\ room'.state[e].version \in Nat
        BY <1>5, <4>1
      <4> HIDE DEF o
      <4>3. view[d][e].version <= room'.state[e].version
        BY <1>3, <2>1, <4>1, <4>2
      <4> QED BY <1>1, <4>3 DEF NotAhead
    <3>3. CASE d # c
      BY <1>1, <1>4, <3>1, <3>3 DEF NotAhead
    <3> QED BY <3>2, <3>3
  <2> QED BY <2>3, <2>4
<1>10. ASSUME NEW d \in Conn PROVE Level(d)'
  <2>1. ASSUME view'[d] # Behind
        PROVE  /\ pc'[d] # "out" /\ permission'[d] = "collaborate"
               /\ pc'[d] = "apply" => Seen(view'[d], doing'[d])
    <3>1. view[d] # Behind
      BY <1>1, <2>1
    <3> QED BY <1>1, <1>4, <3>1 DEF LevelInv, Level
  <2> QED BY <1>1, <1>8, <1>9, <2>1 DEF Level
<1> QED BY <1>7, <1>10 DEF LevelInv

\* Who is level is queued the operation, or is no longer level.
LEMMA RelayLevel ==
    ASSUME LevelInv, SessionInv', NEW c \in Conn, Relay(c)
    PROVE  LevelInv'
<1>1. PICK o \in Op : o = doing[c]
  BY DEF Relay, LevelInv, SessionInv, Carried, OpSteps
<1>2. PICK to \in SUBSET Conn : to = EditorsBut(c)
  BY DEF EditorsBut, LevelInv, SessionInv, SessionTypeOK
<1>3. /\ pc[c] = "relay" /\ room' = room /\ permission' = permission /\ doing' = doing
      /\ Queue(to, o)
      /\ \A d \in Conn : view'[d] = IF d \in Missing(c) THEN Behind ELSE view[d]
  BY <1>1, <1>2 DEF Relay, roomVars, LevelInv, SessionInv, SessionTypeOK
<1>4. pc'[c] = "ack" /\ \A d \in Conn \ {c} : pc'[d] = pc[d]
  BY DEF Relay, Goto, LevelInv, SessionInv, SessionTypeOK
<1>5. o \in Op /\ Seen(room.state, o)
  BY <1>3, <1>1 DEF LevelInv, SessionInv, Carried, OpSteps, Holds, Seen
<1>6. ASSUME NEW d \in Conn
      PROVE  /\ d \notin to => send'[d] = send[d]
             /\ \A x : InQueue(d, x) => InQueue(d, x)'
             /\ \A x : InQueue(d, x)' => InQueue(d, x) \/ (d \in to /\ x = o)
             /\ d \in to /\ Len(send[d]) < SendCap => InQueue(d, o)'
  BY <1>3, <1>5, QueueAdds DEF LevelInv, SessionInv
<1>7. ASSUME NEW d \in Conn PROVE Sent(d)'
  <2>1. pc'[d] = "out" => send'[d] = <<>>
    <3>1. d \in to => pc[d] # "out"
      BY <1>2 DEF EditorsBut, LevelInv, SessionInv, SessionTypeOK
    <3> QED BY <1>4, <1>6, <3>1 DEF LevelInv, Sent
  <2>2. \A x \in Op : InQueue(d, x)' => Seen(room.state, x)
    BY <1>5, <1>6 DEF LevelInv, Sent
  <2> QED BY <1>3, <2>1, <2>2 DEF Sent
<1>8. ASSUME NEW d \in Conn, view'[d] # Behind PROVE Level(d)'
  <2>1. view'[d] = view[d] /\ view[d] # Behind
    BY <1>3, <1>8
  <2>2. /\ pc[d] # "out" /\ permission[d] = "collaborate"
        /\ \A e \in Elem : Reached(d, e) /\ NotAhead(d, e)
        /\ pc[d] = "apply" => Seen(view[d], doing[d])
    BY <2>1 DEF LevelInv, Level
  <2>3. d # c => InQueue(d, o)'
    <3>1. d # c => UserOf[d] # UserOf[c] /\ d \in Members /\ Len(send[d]) # SendCap
      BY <1>3, <1>8 DEF Missing
    <3>2. d # c => d \in to
      BY <1>2, <2>2, <3>1 DEF EditorsBut
    <3>3. Len(send[d]) <= SendCap /\ Len(send[d]) \in Nat /\ SendCap \in Nat
      BY SessionAssumption DEF SessionAssumption, LevelInv, SessionInv, SessionTypeOK
    <3>4. d # c => Len(send[d]) < SendCap
      BY <3>1, <3>3
    <3> QED BY <1>6, <3>2, <3>4
  <2>4. ASSUME NEW x \in Op, OnItsWay(d, x) PROVE OnItsWay(d, x)'
    <3>1. CASE InQueue(d, x)
      BY <1>6, <3>1 DEF OnItsWay
    <3>2. CASE \E b \in Conn \ {d} : pc[b] = "relay" /\ doing[b] = x
      <4>1. PICK b \in Conn \ {d} : pc[b] = "relay" /\ doing[b] = x
        BY <3>2
      <4>2. CASE b = c
        BY <1>1, <2>3, <4>1, <4>2 DEF OnItsWay
      <4>3. CASE b # c
        BY <1>3, <1>4, <4>1, <4>3 DEF OnItsWay
      <4> QED BY <4>2, <4>3
    <3> QED BY <2>4, <3>1, <3>2 DEF OnItsWay
  <2>5. ASSUME NEW e \in Elem PROVE Reached(d, e)'
    BY <1>3, <2>1, <2>2, <2>4 DEF Reached
  <2>6. ASSUME NEW e \in Elem PROVE NotAhead(d, e)'
    BY <1>3, <1>4, <2>1, <2>2 DEF NotAhead
  <2>7. /\ pc'[d] # "out" /\ permission'[d] = "collaborate"
        /\ pc'[d] = "apply" => Seen(view'[d], doing'[d])
    BY <1>3, <1>4, <2>1, <2>2
  <2> QED BY <2>5, <2>6, <2>7 DEF Level
<1>9. ASSUME NEW d \in Conn PROVE Level(d)'
  BY <1>8 DEF Level
<1> QED BY <1>7, <1>9 DEF LevelInv

\* A relay that was queued is taken.
LEMMA DeliverLevel ==
    ASSUME LevelInv, SessionInv', NEW c \in Conn, Deliver(c)
    PROVE  LevelInv'
<1> DEFINE m == Head(send[c])
<1>1. /\ send[c] # <<>> /\ send[c] \in Seq(Op \cup {Notice})
      /\ send' = [send EXCEPT ![c] = Tail(send[c])]
      /\ view' = IF m = Notice THEN view ELSE [view EXCEPT ![c] = Taken(view[c], m)]
      /\ room' = room /\ permission' = permission /\ pc' = pc /\ doing' = doing
  BY DEF Deliver, roomVars, pumpVars, LevelInv, SessionInv, SessionTypeOK
<1>2. /\ send'[c] = Tail(send[c]) /\ \A d \in Conn \ {c} : send'[d] = send[d]
      /\ \A d \in Conn \ {c} : view'[d] = view[d]
  BY <1>1 DEF LevelInv, SessionInv, SessionTypeOK
<1>3. /\ m \in Op \cup {Notice} /\ InQueue(c, m)
      /\ \A x : InQueue(c, x)' => InQueue(c, x)
      /\ \A x : InQueue(c, x) => InQueue(c, x)' \/ x = m
  <2> DEFINE q == send[c]
  <2>1. /\ q \in Seq(Op \cup {Notice}) /\ q # <<>>
        /\ Len(q) \in Nat \ {0} /\ DOMAIN q = 1..Len(q) /\ Head(q) = q[1]
        /\ DOMAIN Tail(q) = 1..(Len(q) - 1)
        /\ \A i \in 1..(Len(q) - 1) : Tail(q)[i] = q[i + 1]
        /\ Head(q) \in Op \cup {Notice}
    BY <1>1
  <2> HIDE DEF q
  <2>2. \A x : (\E i \in DOMAIN Tail(q) : Tail(q)[i] = x) => \E i \in DOMAIN q : q[i] = x
    <3>1. \A i \in 1..(Len(q) - 1) : i + 1 \in 1..Len(q)
      BY <2>1
    <3> QED BY <2>1, <3>1
  <2>3. \A x : (\E i \in DOMAIN q : q[i] = x) => x = q[1] \/ \E i \in DOMAIN Tail(q) : Tail(q)[i] = x
    <3>1. ASSUME NEW i \in DOMAIN q, i # 1 PROVE \E j \in DOMAIN Tail(q) : Tail(q)[j] = q[i]
      <4>1. i - 1 \in 1..(Len(q) - 1) /\ (i - 1) + 1 = i
        BY <2>1, <3>1
      <4> QED BY <2>1, <4>1
    <3> QED BY <3>1
  <2>4. 1 \in DOMAIN q
    BY <2>1
  <2>5. send[c] = q
    BY DEF q
  <2>6. ASSUME NEW x
        PROVE  (\E i \in DOMAIN q : q[i] = x) <=> x = Head(q) \/ \E i \in DOMAIN Tail(q) : Tail(q)[i] = x
    BY ONLY <2>1, <2>2, <2>3, <2>4
  <2>7. \A x : InQueue(c, x) <=> \E i \in DOMAIN q : q[i] = x
    BY <2>5 DEF InQueue
  <2>8. \A x : InQueue(c, x)' <=> \E i \in DOMAIN Tail(q) : Tail(q)[i] = x
    BY <1>2, <2>5 DEF InQueue
  <2>9. m = Head(q)
    BY <2>5
  <2> HIDE DEF m
  <2> QED BY ONLY <2>1, <2>6, <2>7, <2>8, <2>9
<1> HIDE DEF m
<1>4. ASSUME NEW d \in Conn PROVE Sent(d)'
  <2>1. CASE d = c
    <3>1. pc[c] # "out"
      BY <1>1 DEF LevelInv, Sent
    <3> QED BY <1>1, <1>3, <2>1, <3>1 DEF LevelInv, Sent
  <2>2. CASE d # c
    BY <1>1, <1>2, <2>2 DEF LevelInv, Sent, InQueue
  <2> QED BY <2>1, <2>2
<1>5. ASSUME NEW d \in Conn, d # c PROVE Level(d)'
  <2>1. ASSUME NEW x \in Op, OnItsWay(d, x) PROVE OnItsWay(d, x)'
    BY <1>1, <1>2, <1>5, <2>1 DEF OnItsWay, InQueue
  <2> QED BY <1>1, <1>2, <1>5, <2>1 DEF LevelInv, Level, Reached, NotAhead
<1>6. ASSUME view'[c] # Behind PROVE Level(c)'
  <2>1. view[c] # Behind
    BY <1>1, <1>6 DEF Taken, LevelInv, SessionInv, SessionTypeOK
  <2>2. view[c] \in Documents
    BY <2>1 DEF LevelInv, SessionInv, SessionTypeOK
  <2>3. /\ pc[c] # "out" /\ permission[c] = "collaborate"
        /\ \A e \in Elem : Reached(c, e) /\ NotAhead(c, e)
        /\ pc[c] = "apply" => Seen(view[c], doing[c])
    BY <2>1 DEF LevelInv, Level
  <2>4. room.state \in Documents
    BY <2>3, InRoom DEF LevelInv, SessionInv
  <2>5. CASE m = Notice
    <3>1. view' = view /\ m \notin Op
      BY <1>1, <2>5, SessionAssumption DEF SessionAssumption
    <3>2. ASSUME NEW x \in Op, OnItsWay(c, x) PROVE OnItsWay(c, x)'
      BY <1>1, <1>3, <3>1, <3>2 DEF OnItsWay
    <3>3. ASSUME NEW e \in Elem PROVE Reached(c, e)' /\ NotAhead(c, e)'
      BY <1>1, <2>3, <3>1, <3>2 DEF Reached, NotAhead
    <3> QED BY <1>1, <2>3, <3>1, <3>3 DEF Level
  <2>6. CASE m # Notice
    <3>1. m \in Op /\ Seen(room.state, m) /\ view'[c] = Taken(view[c], m)
      BY <1>1, <1>3, <2>6 DEF LevelInv, Sent, SessionInv, SessionTypeOK
    <3>2. /\ \A e \in Elem : view'[c][e].version = IF e = m.elem /\ view[c][e].version < m.version
                                           THEN m.version ELSE view[c][e].version
          /\ m.elem \in Elem /\ m.version \in Nat
      BY <2>2, <3>1, TakenValues
    <3>3. ASSUME NEW e \in Elem
          PROVE  /\ view[c][e].version \in Nat /\ room.state[e].version \in Nat /\ view'[c][e].version \in Nat
                 /\ view[c][e].version <= view'[c][e].version
                 /\ e = m.elem => m.version <= view'[c][e].version
                 /\ view'[c][e].version = view[c][e].version \/ view'[c][e].version <= room.state[e].version
      <4>1. view[c][e].version \in Nat /\ room.state[e].version \in Nat
        BY <2>2, <2>4, <3>1, PartsTyped
      <4> QED BY <3>1, <3>2, <4>1 DEF Seen
    <3>4. ASSUME NEW x \in Op, OnItsWay(c, x), x # m PROVE OnItsWay(c, x)'
      BY <1>1, <1>3, <3>4 DEF OnItsWay
    <3>5. ASSUME NEW e \in Elem PROVE Reached(c, e)'
      <4>1. CASE room.state[e].version <= view[c][e].version
        <5>1. room.state[e].version <= view'[c][e].version
          BY <3>3, <4>1
        <5> QED BY <1>1, <5>1 DEF Reached
      <4>2. CASE \E x \in Op : x.elem = e /\ room.state[e].version <= x.version /\ OnItsWay(c, x)
        <5>1. PICK x \in Op : x.elem = e /\ room.state[e].version <= x.version /\ OnItsWay(c, x)
          BY <4>2
        <5>2. CASE x = m
          <6>1. room.state[e].version <= m.version /\ m.version <= view'[c][e].version
            BY <3>3, <5>1, <5>2
          <6>2. room.state[e].version <= view'[c][e].version
            BY <3>2, <3>3, <6>1
          <6> QED BY <1>1, <6>2 DEF Reached
        <5>3. CASE x # m
          BY <1>1, <3>4, <5>1, <5>3 DEF Reached
        <5> QED BY <5>2, <5>3
      <4> QED BY <2>3, <4>1, <4>2 DEF Reached
    <3>6. ASSUME NEW e \in Elem PROVE NotAhead(c, e)'
      BY <1>1, <2>3, <3>3 DEF NotAhead
    <3>7. pc[c] = "apply" => Seen(view'[c], doing[c])
      <4>1. ASSUME pc[c] = "apply" PROVE Seen(view'[c], doing[c])
        <5>1. doing[c] \in Op
          BY <4>1 DEF LevelInv, SessionInv, Carried, OpSteps
        <5>2. doing[c].elem \in Elem /\ doing[c].version \in Nat
          BY <2>2, <5>1, PartsTyped
        <5>3. doing[c].version <= view[c][doing[c].elem].version
          BY <2>3, <4>1 DEF Seen
        <5>4. view[c][doing[c].elem].version <= view'[c][doing[c].elem].version
          BY <3>3, <5>2
        <5>5. doing[c].version <= view'[c][doing[c].elem].version
          BY <3>3, <5>2, <5>3, <5>4
        <5> QED BY <5>5 DEF Seen
      <4> QED BY <4>1
    <3> QED BY <1>1, <2>3, <3>5, <3>6, <3>7 DEF Level
  <2> QED BY <2>5, <2>6
<1>7. Level(c)'
  BY <1>6 DEF Level
<1> QED BY <1>4, <1>5, <1>7 DEF LevelInv

\* Steps of the room's life: those who stay level stay in the same room, and
\* nothing but notices is put in their buffers.
LEMMA StayLevel ==
    ASSUME LevelInv, SessionInv', NEW c \in Conn, UNCHANGED doing,
           pc[c] \in {"out", "idle"}, pc'[c] \in {"out", "idle"},
           \A d \in Conn \ {c} : /\ pc'[d] = pc[d] /\ permission'[d] = permission[d]
                                 /\ view'[d] = view[d]
                                 /\ pc[d] # "out" => room'.state = room.state
                                 /\ pc[d] = "out" => send'[d] = send[d]
                                 /\ \A o \in Op : InQueue(d, o)' <=> InQueue(d, o),
           Level(c)', Sent(c)'
    PROVE  LevelInv'
<1>1. ASSUME NEW d \in Conn \ {c} PROVE Sent(d)'
  <2>1. CASE pc[d] = "out"
    <3>1. send'[d] = <<>>
      BY <2>1 DEF LevelInv, Sent
    <3> QED BY <3>1 DEF Sent, InQueue
  <2>2. CASE pc[d] # "out"
    BY <2>2 DEF LevelInv, Sent, Seen
  <2> QED BY <2>1, <2>2
<1>2. ASSUME NEW d \in Conn \ {c}, view'[d] # Behind PROVE Level(d)'
  <2>1. /\ view[d] # Behind /\ pc[d] # "out" /\ permission[d] = "collaborate"
        /\ \A e \in Elem : Reached(d, e) /\ NotAhead(d, e)
        /\ pc[d] = "apply" => Seen(view[d], doing[d])
    BY <1>2 DEF LevelInv, Level
  <2>2. ASSUME NEW x \in Op, OnItsWay(d, x) PROVE OnItsWay(d, x)'
    BY <2>2 DEF OnItsWay
  <2>3. ASSUME NEW e \in Elem PROVE Reached(d, e)' /\ NotAhead(d, e)'
    BY <2>1, <2>2 DEF Reached, NotAhead
  <2> QED BY <2>1, <2>3 DEF Level
<1>3. ASSUME NEW d \in Conn PROVE Level(d)' /\ Sent(d)'
  BY <1>1, <1>2 DEF Level
<1> QED BY <1>3 DEF LevelInv

LEMMA JoinLevel ==
    ASSUME LevelInv, SessionInv', NEW c \in Conn, NEW p \in Permissions, NEW ok \in BOOLEAN,
           Join(c, p, ok)
    PROVE  LevelInv'
<1>1. /\ pc[c] = "out" /\ pc'[c] = "idle" /\ permission'[c] = p /\ UNCHANGED doing
      /\ Queue({c}, Notice)
      /\ view'[c] = IF p = "collaborate" /\ Loaded(TRUE) = room'.state THEN Loaded(TRUE) ELSE Behind
      /\ \A d \in Conn \ {c} : /\ pc'[d] = pc[d] /\ permission'[d] = permission[d]
                               /\ view'[d] = view[d]
  BY DEF Join, Goto, LevelInv, SessionInv, SessionTypeOK
<1>2. Notice \notin Op
  BY SessionAssumption DEF SessionAssumption
<1>3. ASSUME NEW d \in Conn \ {c}
      PROVE  send'[d] = send[d] /\ \A o \in Op : InQueue(d, o)' <=> InQueue(d, o)
  <2>1. send'[d] = send[d]
    BY <1>1, QueueAdds DEF LevelInv, SessionInv
  <2> QED BY <2>1 DEF InQueue
<1>4. ASSUME NEW d \in Conn \ {c}, pc[d] # "out" PROVE room'.state = room.state
  <2>1. room # NoRoom /\ room \in [clients : SUBSET Conn, state : Documents]
    BY <1>4, InRoom DEF LevelInv, SessionInv
  <2> QED BY <2>1 DEF Join
<1>5. Sent(c)'
  <2>1. \A o \in Op : ~InQueue(c, o)'
    <3>1. \A o \in Op : ~InQueue(c, o)
      BY <1>1 DEF LevelInv, Sent, InQueue
    <3> QED BY <1>1, <1>2, <3>1, QueueAdds DEF LevelInv, SessionInv
  <2> QED BY <1>1, <2>1 DEF Sent
<1>6. Level(c)'
  <2>1. ASSUME view'[c] # Behind PROVE Level(c)'
    <3>1. p = "collaborate" /\ view'[c] = room'.state
      BY <1>1, <2>1
    <3>2. view'[c] \in Documents
      BY <2>1 DEF SessionInv, SessionTypeOK
    <3>3. \A e \in Elem : /\ room'.state[e].version <= view'[c][e].version
                         /\ view'[c][e].version <= room'.state[e].version
      BY <3>1, <3>2 DEF Documents, Register
    <3> QED BY <1>1, <3>1, <3>3 DEF Level, Reached, NotAhead
  <2> QED BY <2>1 DEF Level
<1> QED BY <1>1, <1>3, <1>4, <1>5, <1>6, StayLevel

LEMMA ExitLevel ==
    ASSUME LevelInv, SessionInv', NEW c \in Conn, Exit(c)
    PROVE  LevelInv'
<1>1. /\ pc[c] = "idle" /\ pc'[c] = "out" /\ view'[c] = Behind /\ send'[c] = <<>>
      /\ UNCHANGED doing
      /\ \A d \in Conn \ {c} : /\ pc'[d] = pc[d] /\ permission'[d] = permission[d]
                               /\ view'[d] = view[d]
                               /\ send'[d] = IF d \in Members /\ Len(send[d]) < SendCap
                                             THEN Append(send[d], Notice) ELSE send[d]
  BY DEF Exit, Goto, LevelInv, SessionInv, SessionTypeOK
<1>2. Notice \notin Op
  BY SessionAssumption DEF SessionAssumption
<1>3. ASSUME NEW d \in Conn \ {c}, pc[d] = "out" PROVE send'[d] = send[d]
  BY <1>1, <1>3 DEF LevelInv, SessionInv, SessionTypeOK
<1>4. ASSUME NEW d \in Conn \ {c}, NEW o \in Op PROVE InQueue(d, o)' <=> InQueue(d, o)
  <2>1. send[d] \in Seq(Op \cup {Notice})
    BY DEF LevelInv, SessionInv, SessionTypeOK
  <2>2. CASE send'[d] = Append(send[d], Notice)
    <3>1. /\ DOMAIN Append(send[d], Notice) = DOMAIN send[d] \cup {Len(send[d]) + 1}
          /\ Append(send[d], Notice)[Len(send[d]) + 1] = Notice
          /\ \A i \in DOMAIN send[d] : Append(send[d], Notice)[i] = send[d][i]
      BY <2>1
    <3> QED BY <1>2, <2>2, <3>1 DEF InQueue
  <2>3. CASE send'[d] = send[d]
    BY <2>3 DEF InQueue
  <2> QED BY <1>1, <2>2, <2>3
<1>5. ASSUME NEW d \in Conn \ {c}, pc[d] # "out" PROVE room'.state = room.state
  <2>1. room # NoRoom /\ room \in [clients : SUBSET Conn, state : Documents]
    BY <1>5, InRoom DEF LevelInv, SessionInv
  <2>2. PICK x \in Members : UserOf[x] = UserOf[d]
    BY <1>5 DEF LevelInv, SessionInv, SessionTypeOK
  <2>3. x # c
    BY <1>5, <2>2 DEF Exit, OtherTabs
  <2>4. room.clients # {c}
    BY <2>1, <2>2, <2>3 DEF Members
  <2>5. room' = [room EXCEPT !.clients = @ \ {c}]
    BY <2>4 DEF Exit
  <2> QED BY <2>1, <2>5
<1>6. Level(c)' /\ Sent(c)'
  BY <1>1 DEF Level, Sent, InQueue
<1> QED BY <1>1, <1>3, <1>4, <1>5, <1>6, StayLevel

LEMMA RestartLevel == ASSUME LevelInv, SessionInv', Restart PROVE LevelInv'
<1>1. ASSUME NEW d \in Conn PROVE view'[d] = Behind /\ send'[d] = <<>>
  BY DEF Restart
<1> QED BY <1>1 DEF LevelInv, Level, Sent, InQueue

\* REST and a stutter change nothing in the room.
LEMMA OutsideLevel ==
    ASSUME LevelInv, SessionInv', UNCHANGED <<room, pumpVars, peerVars>>
    PROVE  LevelInv'
<1>1. \A d \in Conn, o \in Op : InQueue(d, o)' <=> InQueue(d, o)
  BY DEF InQueue, peerVars
<1> QED BY <1>1, Undisturbed DEF pumpVars, peerVars

LEMMA LevelNext == ASSUME LevelInv, [Next]_vars PROVE LevelInv'
<1>1. SessionInv'
  BY SessionNext DEF LevelInv
<1>2. CASE UNCHANGED vars
  BY <1>1, <1>2, OutsideLevel DEF vars, roomVars
<1>3. ASSUME NEW c \in Conn, Client(c) \/ Handler(c) \/ Deliver(c) PROVE LevelInv'
  BY <1>1, <1>3, QuietSteps, JoinLevel, ExitLevel, SendOpLevel, ApplyOpLevel, RelayLevel,
     DeliverLevel DEF Client, Handler
<1>4. ASSUME (\E t \in Texts : PutData(t)) \/ DeleteCanvas PROVE LevelInv'
  BY <1>1, <1>4, OutsideLevel DEF PutData, DeleteCanvas
<1> QED BY <1>1, <1>2, <1>3, <1>4, RestartLevel DEF Next

\* The register is that of an operation that names all the members.
OfOp(e, r) == \E o \in Op : o.elem = e /\ r = [version |-> o.version, props |-> o.props]

\* Two documents, of which the one with the higher version of an element has
\* it from an operation.
Alike(d, f, e) ==
    /\ d[e].version = f[e].version => d[e] = f[e]
    /\ d[e].version <= f[e].version \/ OfOp(e, d[e])
    /\ f[e].version <= d[e].version \/ OfOp(e, f[e])

\* The elements whose writers are disciplined are the same in a level replica
\* and the room as soon as their versions are.
DataInv ==
    \A d \in Conn : view[d] # Behind =>
        \A e \in Elem : Disciplined(e) => Alike(view[d], room.state, e)

ConvergeInv == LevelInv /\ DataInv

LEMMA AlikeBothWays ==
    ASSUME NEW d, NEW f, NEW e, Alike(d, f, e) PROVE Alike(f, d, e)
BY DEF Alike

\* Two disciplined operations of the same version are the same operation, so
\* a document that takes one of them becomes equal to a document that has it.
LEMMA WrittenAlike ==
    ASSUME NEW d \in Documents, NEW f \in Documents, NEW o \in Op, NEW e \in Elem,
           Disciplined(e), Alike(d, f, e), Accepts(d, o)
    PROVE  Alike(Written(d, o), f, e)
<1> DEFINE w == Written(d, o)
<1>1. /\ w \in Documents
      /\ \A x \in Elem \ {o.elem} : w[x] = d[x]
      /\ w[o.elem].version = o.version
      /\ \A k \in Key : w[o.elem].props[k] = IF k \in Named(o) THEN o.props[k] ELSE d[o.elem].props[k]
  BY WrittenParts
<1>2. /\ w[e] \in Register /\ o.version \in Nat /\ o.props \in Props
      /\ d[e].version \in Nat /\ f[e].version \in Nat
  BY <1>1, PartsTyped
<1> HIDE DEF w
<1> SUFFICES Alike(w, f, e)
  BY DEF w
<1>3. CASE e # o.elem
  <2>1. w[e] = d[e]
    BY <1>1, <1>3
  <2> QED BY <2>1 DEF Alike
<1>4. CASE e = o.elem
  <2>1. Named(o) = Key
    BY <1>4 DEF Disciplined
  <2>2. w[e].version = o.version /\ \A k \in Key : w[e].props[k] = o.props[k]
    BY <1>1, <1>4, <2>1
  <2>3. w[e].props = o.props
    BY <1>2, <2>2 DEF Register, Props
  <2>4. w[e] = [version |-> o.version, props |-> o.props]
    BY <1>2, <2>2, <2>3 DEF Register
  <2>5. OfOp(e, w[e])
    BY <1>4, <2>4 DEF OfOp
  <2>6. d[e].version < o.version
    BY <1>4 DEF Accepts
  <2>7. f[e].version <= w[e].version \/ OfOp(e, f[e])
    BY <1>2, <2>2, <2>6 DEF Alike
  <2>8. ASSUME w[e].version = f[e].version PROVE w[e] = f[e]
    <3>1. OfOp(e, f[e])
      BY <1>2, <2>2, <2>6, <2>8 DEF Alike
    <3>2. PICK x \in Op : x.elem = e /\ f[e] = [version |-> x.version, props |-> x.props]
      BY <3>1 DEF OfOp
    <3>3. o.elem = e /\ x.elem = e /\ o.version = x.version
      BY <1>4, <2>2, <2>8, <3>2
    <3>4. x = o
      BY <3>3 DEF Disciplined
    <3> QED BY <2>4, <3>2, <3>4
  <2> QED BY <2>5, <2>7, <2>8 DEF Alike
<1> QED BY <1>3, <1>4

\* Replicas that are kept or take an operation, with the room as it was for
\* those who were there.
LEMMA ReplicasAlike ==
    ASSUME ConvergeInv, SessionInv',
           \A d \in Conn : view'[d] # Behind =>
               \/ view'[d] = room'.state
               \/ room'.state = room.state /\ view'[d] = view[d]
               \/ room'.state = room.state /\ \E o \in Op : view'[d] = Taken(view[d], o)
    PROVE  DataInv'
<1>1. ASSUME NEW d \in Conn, view'[d] # Behind, NEW e \in Elem, Disciplined(e)
      PROVE  Alike(view'[d], room'.state, e)
  <2>1. view'[d] \in Documents
    BY <1>1 DEF SessionInv, SessionTypeOK
  <2>2. CASE view'[d] = room'.state
    <3>1. view'[d][e].version \in Nat
      BY <2>1 DEF Documents, Register
    <3> QED BY <2>2, <3>1 DEF Alike
  <2>3. CASE room'.state = room.state /\ view'[d] = view[d]
    BY <1>1, <2>3 DEF ConvergeInv, DataInv
  <2>4. ASSUME room'.state = room.state, NEW o \in Op, view'[d] = Taken(view[d], o)
        PROVE  Alike(view'[d], room'.state, e)
    <3>1. view[d] # Behind
      BY <1>1, <2>4 DEF Taken
    <3>2. view[d] \in Documents /\ Alike(view[d], room.state, e) /\ pc[d] # "out"
      BY <1>1, <3>1 DEF ConvergeInv, DataInv, LevelInv, Level, SessionInv, SessionTypeOK
    <3>3. room.state \in Documents
      BY <3>2, InRoom DEF ConvergeInv, LevelInv, SessionInv
    <3>4. CASE Accepts(view[d], o)
      <4>1. view'[d] = Written(view[d], o)
        BY <2>4, <3>1, <3>4 DEF Taken
      <4>2. Alike(Written(view[d], o), room.state, e)
        BY <1>1, <3>2, <3>3, <3>4, WrittenAlike
      <4> QED BY <2>4, <4>1, <4>2
    <3>5. CASE ~Accepts(view[d], o)
      BY <2>4, <3>2, <3>5 DEF Taken
    <3> QED BY <3>4, <3>5
  <2> QED BY <1>1, <2>2, <2>3, <2>4
<1>2. \A e \in Elem : Disciplined(e)' <=> Disciplined(e)
  BY DEF Disciplined, Named
<1> QED BY <1>1, <1>2 DEF DataInv, Alike, OfOp

\* The room takes an operation and the replicas stay.
LEMMA RoomAlike ==
    ASSUME ConvergeInv, SessionInv', NEW c \in Conn, ApplyOp(c) PROVE DataInv'
<1>1. view' = view /\ doing[c] \in Op /\ room.state \in Documents
      /\ room \in [clients : SUBSET Conn, state : Documents]
  BY InRoom DEF ApplyOp, peerVars, ConvergeInv, LevelInv, SessionInv, Carried, OpSteps
<1>2. \/ room'.state = room.state
      \/ Accepts(room.state, doing[c]) /\ room'.state = Written(room.state, doing[c])
  BY <1>1 DEF ApplyOp
<1>3. ASSUME NEW d \in Conn, view[d] # Behind, NEW e \in Elem, Disciplined(e)
      PROVE  Alike(view[d], room'.state, e)
  <2>1. view[d] \in Documents /\ Alike(view[d], room.state, e)
    BY <1>3 DEF ConvergeInv, DataInv, LevelInv, SessionInv, SessionTypeOK
  <2>2. CASE Accepts(room.state, doing[c]) /\ room'.state = Written(room.state, doing[c])
    <3>1. Alike(Written(room.state, doing[c]), view[d], e)
      BY <1>1, <1>3, <2>1, <2>2, AlikeBothWays, WrittenAlike
    <3> QED BY <2>2, <3>1, AlikeBothWays
  <2> QED BY <1>2, <2>1, <2>2
<1>4. \A e \in Elem : Disciplined(e)' <=> Disciplined(e)
  BY DEF Disciplined, Named
<1> QED BY <1>1, <1>3, <1>4 DEF DataInv, Alike, OfOp

LEMMA DataNext == ASSUME ConvergeInv, SessionInv', [Next]_vars PROVE DataInv'
<1>1. CASE UNCHANGED vars
  BY <1>1, ReplicasAlike DEF vars, roomVars, peerVars
<1>2. ASSUME NEW c \in Conn, Client(c) PROVE DataInv'
  <2>1. ASSUME NEW p \in Permissions, NEW ok \in BOOLEAN, Join(c, p, ok) PROVE DataInv'
    <3>1. view'[c] = room'.state \/ view'[c] = Behind
      BY <2>1 DEF Join, ConvergeInv, LevelInv, SessionInv, SessionTypeOK
    <3>2. ASSUME NEW d \in Conn \ {c}, view'[d] # Behind
          PROVE  view'[d] = view[d] /\ room'.state = room.state
      <4>1. view'[d] = view[d]
        BY <2>1 DEF Join, ConvergeInv, LevelInv, SessionInv, SessionTypeOK
      <4>2. pc[d] # "out"
        BY <3>2, <4>1 DEF ConvergeInv, LevelInv, Level
      <4>3. room # NoRoom
        BY <4>2, InRoom DEF ConvergeInv, LevelInv, SessionInv
      <4> QED BY <2>1, <4>1, <4>3 DEF Join
    <3> QED BY <3>1, <3>2, ReplicasAlike
  <2>2. ASSUME Exit(c) PROVE DataInv'
    <3>1. view'[c] = Behind /\ \A d \in Conn \ {c} : view'[d] = view[d]
      BY <2>2 DEF Exit, ConvergeInv, LevelInv, SessionInv, SessionTypeOK
    <3>2. ASSUME NEW d \in Conn \ {c}, view'[d] # Behind PROVE room'.state = room.state
      <4>1. pc[d] # "out"
        BY <3>1, <3>2 DEF ConvergeInv, LevelInv, Level
      <4>2. room # NoRoom /\ room \in [clients : SUBSET Conn, state : Documents]
        BY <4>1, InRoom DEF ConvergeInv, LevelInv, SessionInv
      <4>3. PICK x \in Members : UserOf[x] = UserOf[d]
        BY <4>1 DEF ConvergeInv, LevelInv, SessionInv, SessionTypeOK
      <4>4. x # c
        BY <2>2, <4>1, <4>3 DEF Exit, OtherTabs
      <4> QED BY <2>2, <4>2, <4>3, <4>4 DEF Exit, Members
    <3> QED BY <3>1, <3>2, ReplicasAlike
  <2>3. ASSUME NEW o \in Op, SendOp(c, o) PROVE DataInv'
    <3>1. room' = room /\ view'[c] = Taken(view[c], o) /\ \A d \in Conn \ {c} : view'[d] = view[d]
      BY <2>3 DEF SendOp, roomVars, ConvergeInv, LevelInv, SessionInv, SessionTypeOK
    <3> QED BY <3>1, ReplicasAlike
  <2>4. ASSUME Refuse(c) \/ Cursor(c) \/ AskSave(c) PROVE DataInv'
    BY <2>4, ReplicasAlike DEF Refuse, Cursor, AskSave, roomVars, peerVars
  <2> QED BY <1>2, <2>1, <2>2, <2>3, <2>4 DEF Client
<1>3. ASSUME NEW c \in Conn, Handler(c) PROVE DataInv'
  <2>1. ASSUME Relay(c) PROVE DataInv'
    <3>1. room' = room /\ \A d \in Conn : view'[d] = Behind \/ view'[d] = view[d]
      BY <2>1 DEF Relay, roomVars, ConvergeInv, LevelInv, SessionInv, SessionTypeOK
    <3> QED BY <3>1, ReplicasAlike
  <2>2. ASSUME \/ Ack(c) \/ Snapshot(c) \/ CheckOwner(c) \/ SaveFails(c) \/ UpdateData(c)
               \/ Saved(c) \/ TellSaved(c)
        PROVE  DataInv'
    BY <2>2, ReplicasAlike DEF Ack, Snapshot, CheckOwner, SaveFails, EndSave, UpdateData, Saved,
                               TellSaved, roomVars, peerVars
  <2> QED BY <1>3, <2>1, <2>2, RoomAlike DEF Handler
<1>4. ASSUME NEW c \in Conn, Deliver(c) PROVE DataInv'
  <2>1. room' = room /\ send[c] # <<>> /\ send[c] \in Seq(Op \cup {Notice})
    BY <1>4 DEF Deliver, roomVars, ConvergeInv, LevelInv, SessionInv, SessionTypeOK
  <2>2. Head(send[c]) \in Op \cup {Notice}
    BY <2>1
  <2>3. /\ Head(send[c]) = Notice => view' = view
        /\ Head(send[c]) # Notice => view'[c] = Taken(view[c], Head(send[c]))
        /\ \A d \in Conn \ {c} : view'[d] = view[d]
    BY <1>4 DEF Deliver, ConvergeInv, LevelInv, SessionInv, SessionTypeOK
  <2> QED BY <2>1, <2>2, <2>3, ReplicasAlike
<1>5. CASE Restart
  <2>1. \A d \in Conn : view'[d] = Behind
    BY <1>5 DEF Restart
  <2> QED BY <2>1 DEF DataInv
<1>6. ASSUME (\E t \in Texts : PutData(t)) \/ DeleteCanvas PROVE DataInv'
  BY <1>6, ReplicasAlike DEF PutData, DeleteCanvas, peerVars
<1> QED BY <1>1, <1>2, <1>3, <1>4, <1>5, <1>6 DEF Next

LEMMA LevelIsEqual == ConvergeInv => Converged
<1> SUFFICES ASSUME ConvergeInv, Quiet, NEW c \in Conn, view[c] # Behind, NEW e \in Elem
             PROVE  /\ view[c][e].version = room.state[e].version
                    /\ Disciplined(e) => view[c][e] = room.state[e]
  BY DEF Converged
<1>1. pc[c] = "idle" /\ Reached(c, e) /\ NotAhead(c, e)
  BY DEF ConvergeInv, LevelInv, Level, Quiet
<1>2. view[c] \in Documents /\ room.state \in Documents
  BY <1>1, InRoom DEF ConvergeInv, LevelInv, SessionInv, SessionTypeOK
<1>3. view[c][e].version <= room.state[e].version
  BY <1>1 DEF NotAhead
<1>4. \A o \in Op : ~OnItsWay(c, o)
  BY DEF OnItsWay, InQueue, Quiet
<1>5. room.state[e].version <= view[c][e].version
  BY <1>1, <1>4 DEF Reached
<1>6. view[c][e].version \in Nat /\ room.state[e].version \in Nat
  BY <1>2 DEF Documents, Register
<1>7. view[c][e].version = room.state[e].version
  BY <1>3, <1>5, <1>6
<1> QED BY <1>7 DEF ConvergeInv, DataInv, Alike

\* However relays cross on their way, and whatever stale operations are
\* dropped, an editor that started level with the room and lost no relay has
\* the versions that the room has once all is quiet, and its data wherever
\* the operations of an element name all its members and have a version each.
THEOREM EditorsConverge == Spec => []Converged
<1>1. Init => ConvergeInv
  <2> SUFFICES ASSUME Init PROVE ConvergeInv
    OBVIOUS
  <2>1. \A d \in Conn : Level(d) /\ Sent(d)
    BY DEF Init, Level, Sent, InQueue
  <2> QED BY <2>1, SessionInit DEF ConvergeInv, LevelInv, DataInv, Init
<1>2. ConvergeInv /\ [Next]_vars => ConvergeInv'
  BY LevelNext, DataNext DEF ConvergeInv, LevelInv
<1> QED BY <1>1, <1>2, LevelIsEqual, PTL DEF Spec
=============================================================================
