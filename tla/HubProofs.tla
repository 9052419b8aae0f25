----------------------------- MODULE HubProofs -----------------------------
(***************************************************************************)
(* Proofs about Hub, for any connections, users, canvases, capacities and  *)
(* any mix of patient, impatient and moving clients.                       *)
(***************************************************************************)
EXTENDS Hub, SequenceTheorems, TLAPS

(***************************************************************************)
(* The inductive invariant.  TypeOK is not inductive: a pump indexes the   *)
(* rooms with its own canvasID, which must not be torn, and the hub works  *)
(* for a client and on a room, which must exist.  GrantConsistent is not   *)
(* either: it has to say what a join carries from the access checker's     *)
(* answer to the two assignments.                                          *)
(***************************************************************************)
PumpInv(c) ==
    /\ canvasID[c] = Torn => pc[c] = "settle"
    /\ pc[c] \in {"rejoin", "check"} => want[c] \in Canvas
    /\ pc[c] = "leave" => want[c] = NoCanvas
    /\ pc[c] \in {"assign", "settle"} /\ want[c] # NoCanvas =>
            \E p \in Permission : grant[c] = <<want[c], p>>
    /\ pc[c] \in {"idle", "use", "register", "rejoin", "leave", "check"} =>
            <<canvasID[c], permission[c]>> = grant[c]

HubBusy ==
    /\ hub.step # "select" => hub.conn \in Conn
    /\ hub.step \in {"publish", "add", "remove", "discard"} => hub.room \in RoomId

Inv == TypeOK /\ HubBusy /\ \A c \in Conn : PumpInv(c)

\* Only while its pump assigns it, a canvasID is torn.
LEMMA KeyReadable ==
    ASSUME Inv, NEW c \in Conn, pc[c] # "settle"
    PROVE  canvasID[c] \in Keys
<1>1. canvasID \in [Conn -> Keys \cup {Torn}] BY DEF Inv, TypeOK
<1>2. canvasID[c] # Torn BY DEF Inv, PumpInv
<1> QED BY <1>1, <1>2

\* Initially nobody has joined and nobody holds a grant.
LEMMA InvInit ==
    ASSUME Init
    PROVE  Inv
<1> USE HubAssumption DEF Init, Keys
<1>1. TypeOK
    <2>1. members \in [RoomId -> [User -> Conn \cup {NoConn}]] BY DEF Nobody
    <2>2. hub \in [step : {"select"}, conn : {NoConn}, room : {NoRoom}] BY DEF HubIdle
    <2>3. registerCh \in Seq(Conn) /\ Len(registerCh) <= ChanCap
        <3>1. <<>> \in Seq(Conn) /\ Len(<<>>) = 0 BY EmptySeq
        <3>2. registerCh = <<>> /\ ChanCap \in Nat OBVIOUS
        <3> QED BY ONLY <3>1, <3>2
    <2>4. unregisterCh \in Seq(Conn) /\ Len(unregisterCh) <= ChanCap
        <3>1. unregisterCh = registerCh OBVIOUS
        <3> QED BY ONLY <2>3, <3>1
    <2>5. /\ pc \in [Conn -> {"idle"}] /\ permission \in [Conn -> {""}]
          /\ want \in [Conn -> Keys] /\ canvasID \in [Conn -> Keys]
          /\ grant \in [Conn -> {NoGrant}] /\ using \in [Conn -> {NoRoom}]
          /\ rooms \in [Keys -> {NoRoom}] /\ loaded \in [RoomId -> {Blank}]
        OBVIOUS
    <2> QED BY <2>1, <2>2, <2>3, <2>4, <2>5 DEF TypeOK
<1>2. HubBusy BY DEF HubBusy, HubIdle
<1>3. ASSUME NEW c \in Conn PROVE PumpInv(c) BY <1>3 DEF PumpInv, NoGrant
<1> QED BY <1>1, <1>2, <1>3 DEF Inv

----------------------------------------------------------------------------
(* Type correctness *)

\* The steps of a pump that its client starts.
LEMMA TypeClient ==
    ASSUME Inv, NEW c \in Conn, Client(c)
    PROVE  TypeOK'
<1> USE HubAssumption DEF Inv, TypeOK, Keys, Goto, connVars, roomVars, Listening
<1>1. CASE \E k \in Canvas : Join(c, k)
    <2>1. PICK k \in Canvas : Join(c, k) BY <1>1
    <2> QED BY <2>1 DEF Join
<1>2. CASE Leave(c) BY <1>2 DEF Leave
<1>3. CASE Drop(c) BY <1>3 DEF Drop
<1>4. CASE \E type \in {"op", "save", "cursor", "awareness"} : Lookup(c, type)
    <2>1. PICK type : Lookup(c, type) BY <1>4
    <2>2. canvasID[c] \in Keys
        <3>1. pc[c] = "idle" BY <2>1 DEF Lookup
        <3> QED BY <3>1, KeyReadable
    <2>3. using' \in [Conn -> RoomId \cup {NoRoom}] BY <2>1, <2>2 DEF Lookup
    <2> QED BY <2>1, <2>3 DEF Lookup
<1> QED BY <1>1, <1>2, <1>3, <1>4 DEF Client

\* Garbage collection keeps the contents of rooms well formed.
LEMMA TypeCollect ==
    ASSUME TypeOK, Collect
    PROVE  /\ members' \in [RoomId -> [User -> Conn \cup {NoConn}]]
           /\ loaded' \in [RoomId -> Canvas \cup {Blank}]
BY DEF TypeOK, Collect, Nobody

\* A send that found room in a channel does not overfill it.
LEMMA SendBounded ==
    ASSUME NEW ch \in Seq(Conn), NEW c \in Conn, Len(ch) < ChanCap
    PROVE  Append(ch, c) \in Seq(Conn) /\ Len(Append(ch, c)) <= ChanCap
BY HubAssumption

\* What a receive takes from a channel, and what it leaves.
LEMMA TakeBounded ==
    ASSUME NEW ch \in Seq(Conn), ch # <<>>, Len(ch) <= ChanCap
    PROVE  Head(ch) \in Conn /\ Tail(ch) \in Seq(Conn) /\ Len(Tail(ch)) <= ChanCap
BY HubAssumption, HeadTailProperties

\* The steps a pump takes by itself.
LEMMA TypePump ==
    ASSUME Inv, NEW c \in Conn, Pump(c)
    PROVE  TypeOK'
<1> USE HubAssumption DEF Inv, TypeOK, Goto, connVars, roomVars
<1>1. CASE SendUnregister(c)
    <2>1. unregisterCh' \in Seq(Conn) /\ Len(unregisterCh') <= ChanCap
        BY <1>1, SendBounded DEF SendUnregister
    <2>2. pc' \in [Conn -> {"idle", "rejoin", "leave", "close", "check", "assign",
                            "settle", "register", "use", "closed"}]
        BY <1>1 DEF SendUnregister
    <2> QED BY <1>1, <2>1, <2>2 DEF SendUnregister
<1>2. CASE Deny(c) BY <1>2 DEF Deny, Keys
<1>3. CASE \E p \in Permission : Allow(c, p)
    <2>1. PICK p \in Permission : Allow(c, p) BY <1>3
    <2>2. want[c] \in Canvas BY <2>1 DEF Allow, PumpInv
    <2>3. grant' \in [Conn -> {NoGrant} \cup (Canvas \X Permission)]
        BY <2>1, <2>2 DEF Allow
    <2> QED BY <2>1, <2>3 DEF Allow
<1>4. CASE Assign(c)
    <2>1. canvasID' \in [Conn -> Keys \cup {Torn}] BY <1>4 DEF Assign
    <2> QED BY <1>4, <2>1 DEF Assign
<1>5. CASE Settle(c)
    <2>1. want[c] # NoCanvas => grant[c][2] \in Permission
        <3>1. want[c] # NoCanvas => \E p \in Permission : grant[c] = <<want[c], p>>
            BY <1>5 DEF Settle, PumpInv
        <3>2. ASSUME NEW p \in Permission, grant[c] = <<want[c], p>>
              PROVE  grant[c][2] \in Permission
            <4>1. <<want[c], p>>[2] = p OBVIOUS
            <4> QED BY ONLY <3>2, <4>1
        <3> QED BY <3>1, <3>2
    <2>2. permission' \in [Conn -> Permission \cup {""}] BY <1>5, <2>1 DEF Settle
    <2>3. grant' \in [Conn -> {NoGrant} \cup (Canvas \X Permission)] BY <1>5 DEF Settle
    <2>4. canvasID' \in [Conn -> Keys \cup {Torn}] BY <1>5 DEF Settle
    <2>5. want' \in [Conn -> Keys] BY <1>5 DEF Settle, Keys
    <2> QED BY <1>5, <2>2, <2>3, <2>4, <2>5 DEF Settle
<1>6. CASE SendRegister(c)
    <2>1. registerCh' \in Seq(Conn) /\ Len(registerCh') <= ChanCap
        BY <1>6, SendBounded DEF SendRegister
    <2> QED BY <1>6, <2>1 DEF SendRegister
<1>7. CASE Use(c)
    <2>1. using' \in [Conn -> RoomId \cup {NoRoom}] BY <1>7 DEF Use
    <2> QED BY <1>7, <2>1, TypeCollect DEF Use
<1> QED BY <1>1, <1>2, <1>3, <1>4, <1>5, <1>6, <1>7 DEF Pump

\* The steps of the hub.
LEMMA TypeHub ==
    ASSUME Inv, HubStep
    PROVE  TypeOK'
<1> USE HubAssumption DEF Inv, TypeOK, HubBusy, connVars, roomVars, At, HubGoto
<1>1. CASE TakeRegister
    <2>1. /\ Head(registerCh) \in Conn
          /\ Tail(registerCh) \in Seq(Conn) /\ Len(Tail(registerCh)) <= ChanCap
        BY <1>1, TakeBounded DEF TakeRegister
    <2> QED BY <1>1, <2>1 DEF TakeRegister
<1>2. CASE TakeUnregister
    <2>1. /\ Head(unregisterCh) \in Conn
          /\ Tail(unregisterCh) \in Seq(Conn) /\ Len(Tail(unregisterCh)) <= ChanCap
        BY <1>2, TakeBounded DEF TakeUnregister
    <2> QED BY <1>2, <2>1 DEF TakeUnregister
<1>3. ASSUME Readable, hub.conn \in Conn PROVE HubKey \in Keys
    BY <1>3 DEF Readable, HubKey
<1>4. CASE AddLookup
    <2>1. rooms[HubKey] \in RoomId \cup {NoRoom} BY <1>3, <1>4 DEF AddLookup
    <2> QED BY <1>4, <2>1 DEF AddLookup
<1>5. CASE AddLoad
    <2>1. HubKey \in Keys BY <1>3, <1>5 DEF AddLoad
    <2>2. PICK r \in RoomId, from \in {HubKey, Blank} :
            /\ hub' = [hub EXCEPT !.step = "publish", !.room = r]
            /\ from # NoCanvas
            /\ loaded' = [loaded EXCEPT ![r] = from]
        BY <1>5 DEF AddLoad
    <2>3. loaded' \in [RoomId -> Canvas \cup {Blank}] BY <2>1, <2>2 DEF Keys
    <2>4. hub' \in [step : {"publish"}, conn : Conn \cup {NoConn}, room : RoomId] BY <2>2
    <2> QED BY <1>5, <2>3, <2>4 DEF AddLoad
<1>6. CASE AddPublish
    <2>1. rooms' \in [Keys -> RoomId \cup {NoRoom}] BY <1>3, <1>6 DEF AddPublish
    <2> QED BY <1>6, <2>1, TypeCollect DEF AddPublish
<1>7. CASE AddMember
    <2>1. UserOf[hub.conn] \in User BY <1>7 DEF AddMember
    <2>2. members' \in [RoomId -> [User -> Conn \cup {NoConn}]] BY <1>7, <2>1 DEF AddMember
    <2> QED BY <1>7, <2>2 DEF AddMember, HubIdle
<1>8. CASE RemoveLookup
    <2>1. rooms[HubKey] \in RoomId \cup {NoRoom} BY <1>3, <1>8 DEF RemoveLookup
    <2> QED BY <1>8, <2>1 DEF RemoveLookup, HubIdle
<1>9. CASE RemoveMember
    <2>1. UserOf[hub.conn] \in User BY <1>9 DEF RemoveMember
    <2>2. members' \in [RoomId -> [User -> Conn \cup {NoConn}]]
        BY <1>9, <2>1 DEF RemoveMember
    <2> QED BY <1>9, <2>2 DEF RemoveMember
<1>10. CASE RemoveRoom
    <2>1. rooms' \in [Keys -> RoomId \cup {NoRoom}] BY <1>3, <1>10 DEF RemoveRoom
    <2> QED BY <1>10, <2>1, TypeCollect DEF RemoveRoom, HubIdle
<1>11. CASE HubCrash BY <1>11 DEF HubCrash
<1> QED BY <1>1, <1>2, <1>4, <1>5, <1>6, <1>7, <1>8, <1>9, <1>10, <1>11 DEF HubStep

----------------------------------------------------------------------------
(* The hub's client and room *)

\* No step leaves the hub at work without a client, or without the room
\* that the step it is at works on.
LEMMA BusyNext ==
    ASSUME Inv, [Next]_vars
    PROVE  HubBusy'
<1> USE DEF Inv, HubBusy, At, HubGoto
<1>1. CASE UNCHANGED hub BY <1>1
<1>2. ASSUME NEW c \in Conn, Client(c) \/ Pump(c) PROVE HubBusy'
    BY <1>1, <1>2 DEF Client, Pump, Join, Leave, Drop, Lookup, SendUnregister, Deny, Allow,
                      Assign, Settle, SendRegister, Use
<1>3. CASE HubStep
    <2> USE DEF TypeOK
    <2>1. CASE TakeRegister BY <2>1, TakeBounded DEF TakeRegister
    <2>2. CASE TakeUnregister BY <2>2, TakeBounded DEF TakeUnregister
    <2>3. CASE AddLookup
        <3>1. rooms[HubKey] \in RoomId \cup {NoRoom}
            BY <2>3 DEF AddLookup, Readable, HubKey
        <3> QED BY <2>3, <3>1 DEF AddLookup
    <2>4. CASE AddLoad BY <2>4 DEF AddLoad
    <2>5. CASE AddPublish BY <2>5 DEF AddPublish
    <2>6. CASE AddMember BY <2>6 DEF AddMember, HubIdle
    <2>7. CASE RemoveLookup
        <3>1. rooms[HubKey] \in RoomId \cup {NoRoom}
            BY <2>7 DEF RemoveLookup, Readable, HubKey
        <3> QED BY <2>7, <3>1 DEF RemoveLookup, HubIdle
    <2>8. CASE RemoveMember BY <2>8 DEF RemoveMember
    <2>9. CASE RemoveRoom BY <2>9 DEF RemoveRoom, HubIdle
    <2>10. CASE HubCrash BY <2>10 DEF HubCrash
    <2> QED BY <1>3, <2>1, <2>2, <2>3, <2>4, <2>5, <2>6, <2>7, <2>8, <2>9, <2>10 DEF HubStep
<1>4. CASE Stopped \/ UNCHANGED vars BY <1>1, <1>4 DEF Stopped, vars
<1> QED BY <1>2, <1>3, <1>4 DEF Next

----------------------------------------------------------------------------
(* What pumps carry *)

\* The steps of one pump keep the facts about every pump.
LEMMA PumpInvNext ==
    ASSUME Inv, NEW c \in Conn, Client(c) \/ Pump(c), NEW d \in Conn
    PROVE  PumpInv(d)'
<1> USE HubAssumption DEF Inv, TypeOK, PumpInv, Goto, Listening
<1>1. CASE \E k \in Canvas : Join(c, k)
    <2>1. PICK k \in Canvas : Join(c, k) BY <1>1
    <2> QED BY <2>1 DEF Join
<1>2. CASE Leave(c) BY <1>2 DEF Leave
<1>3. CASE Drop(c) BY <1>3 DEF Drop
<1>4. CASE \E type \in {"op", "save", "cursor", "awareness"} : Lookup(c, type)
    <2>1. PICK type : Lookup(c, type) BY <1>4
    <2> QED BY <2>1 DEF Lookup
<1>5. CASE SendUnregister(c) BY <1>5 DEF SendUnregister
<1>6. CASE Deny(c) BY <1>6 DEF Deny
<1>7. CASE \E p \in Permission : Allow(c, p)
    <2>1. PICK p \in Permission : Allow(c, p) BY <1>7
    <2>2. CASE d = c BY <2>1, <2>2 DEF Allow
    <2>3. CASE d # c BY <2>1, <2>3 DEF Allow
    <2> QED BY <2>2, <2>3
<1>8. CASE Assign(c) BY <1>8 DEF Assign
<1>9. CASE Settle(c)
    <2>1. CASE d # c BY <1>9, <2>1 DEF Settle
    <2>2. CASE d = c /\ want[c] = NoCanvas
        BY <1>9, <2>2 DEF Settle, NoGrant
    <2>3. CASE d = c /\ want[c] # NoCanvas
        <3>1. PICK p \in Permission : grant[c] = <<want[c], p>> BY <1>9, <2>3 DEF Settle
        <3>2. <<want[c], p>>[2] = p OBVIOUS
        <3>3. permission'[c] = grant[c][2]
            <4>1. permission \in [Conn -> Permission \cup {""}] OBVIOUS
            <4> QED BY ONLY <1>9, <2>3, <4>1, c \in Conn DEF Settle
        <3>4. permission'[c] = p BY ONLY <3>1, <3>2, <3>3
        <3>5. /\ canvasID'[c] = want[c] /\ grant'[c] = grant[c]
              /\ pc'[c] = "register"
            BY <1>9, <2>3 DEF Settle
        <3>6. want[c] # Torn
            <4>1. want[c] \in Keys OBVIOUS
            <4> QED BY ONLY <4>1, HubAssumption DEF Keys, HubAssumption
        <3> QED BY <2>3, <3>1, <3>4, <3>5, <3>6
    <2> QED BY <2>1, <2>2, <2>3
<1>10. CASE SendRegister(c) BY <1>10 DEF SendRegister
<1>11. CASE Use(c) BY <1>11 DEF Use
<1> QED BY <1>1, <1>2, <1>3, <1>4, <1>5, <1>6, <1>7, <1>8, <1>9, <1>10, <1>11
        DEF Client, Pump

\* The hub reads what the pumps write and writes none of it.
LEMMA HubKeepsPumps ==
    ASSUME HubStep
    PROVE  UNCHANGED connVars
BY DEF HubStep, TakeRegister, TakeUnregister, AddLookup, AddLoad, AddPublish, AddMember,
       RemoveLookup, RemoveMember, RemoveRoom, HubCrash

\* Every step keeps the inductive invariant.
LEMMA InvNext ==
    ASSUME Inv, [Next]_vars
    PROVE  Inv'
<1>1. HubBusy' BY BusyNext
<1>2. ASSUME NEW c \in Conn, Client(c) \/ Pump(c) PROVE Inv'
    BY <1>1, <1>2, TypeClient, TypePump, PumpInvNext DEF Inv
<1>3. ASSUME UNCHANGED connVars PROVE \A c \in Conn : PumpInv(c)'
    BY <1>3 DEF Inv, PumpInv, connVars
<1>4. CASE HubStep BY <1>1, <1>3, <1>4, TypeHub, HubKeepsPumps DEF Inv
<1>5. CASE Stopped \/ UNCHANGED vars
    <2>1. UNCHANGED vars BY <1>5 DEF Stopped
    <2>2. TypeOK' BY <2>1 DEF Inv, TypeOK, vars, connVars, roomVars
    <2> QED BY <1>1, <1>3, <2>1, <2>2 DEF Inv, vars
<1> QED BY <1>2, <1>4, <1>5 DEF Next

\* Type correctness: channels never hold more than their capacity, the hub
\* works for connections only, rooms hold connections under their users.
THEOREM TypeCorrect == Spec => []TypeOK
<1>1. Init => Inv BY InvInit
<1>2. Inv /\ [Next]_vars => Inv' BY InvNext
<1>3. Inv => TypeOK BY DEF Inv
<1> QED BY <1>1, <1>2, <1>3, PTL DEF Spec

\* Between messages a client's canvasID and permission are the two halves of
\* one answer of the access checker, through joins, denied joins, leaves and
\* moves in any order, whatever the hub has handled of them.
THEOREM GrantsConsistent == Spec => []GrantConsistent
<1>1. Init => Inv BY InvInit
<1>2. Inv /\ [Next]_vars => Inv' BY InvNext
<1>3. Inv => GrantConsistent BY DEF Inv, PumpInv, GrantConsistent
<1> QED BY <1>1, <1>2, <1>3, PTL DEF Spec

----------------------------------------------------------------------------
(* The rooms hold the data of their canvas, if clients that move wait for  *)
(* the answer to their join.                                               *)

After == {"idle", "use", "close", "closed"}

Adding(c) == ~Answered(c)

\* While the hub adds a client, or has it in the channel, its canvasID stays.
Coming(c) ==
    /\ Adding(c) => canvasID[c] \in Canvas /\ pc[c] \in After
    /\ pc[c] = "register" => canvasID[c] \in Canvas

\* What the hub loaded and has not yet published.
Fresh ==
    At("publish") => /\ loaded[hub.room] \in {HubKey, Blank}
                     /\ \A k \in Keys : rooms[k] # hub.room

LoadInv == Inv /\ (\A c \in Conn : Coming(c)) /\ Fresh /\ RoomHoldsItsCanvas

\* Who is in a channel after a send and after a receive.
LEMMA AppendQueued ==
    ASSUME NEW ch \in Seq(Conn), NEW c \in Conn
    PROVE  Queued(Append(ch, c)) = Queued(ch) \cup {c}
<1>1. /\ DOMAIN Append(ch, c) = DOMAIN ch \cup {Len(ch) + 1}
      /\ Append(ch, c)[Len(ch) + 1] = c
      /\ \A i \in DOMAIN ch : Append(ch, c)[i] = ch[i]
    OBVIOUS
<1> QED BY <1>1 DEF Queued

\* The head leaves the channel and the others stay in it.
LEMMA TailQueued ==
    ASSUME NEW ch \in Seq(Conn), ch # <<>>
    PROVE  /\ Queued(ch) = {Head(ch)} \cup Queued(Tail(ch))
           /\ Head(ch) \in Conn /\ Tail(ch) \in Seq(Conn)
<1>1. /\ Len(ch) \in Nat \ {0} /\ DOMAIN ch = 1..Len(ch) /\ Head(ch) = ch[1]
      /\ DOMAIN Tail(ch) = 1..(Len(ch) - 1)
      /\ \A i \in 1..(Len(ch) - 1) : Tail(ch)[i] = ch[i + 1]
      /\ Head(ch) \in Conn /\ Tail(ch) \in Seq(Conn)
    OBVIOUS
<1>2. ASSUME NEW i \in DOMAIN ch PROVE ch[i] \in {Head(ch)} \cup Queued(Tail(ch))
    <2>1. CASE i = 1 BY <1>1, <2>1
    <2>2. CASE i # 1
        <3>1. i - 1 \in 1..(Len(ch) - 1) /\ (i - 1) + 1 = i BY <1>1, <2>2
        <3>2. Tail(ch)[i - 1] = ch[i] BY <1>1, <3>1
        <3> QED BY <1>1, <3>1, <3>2 DEF Queued
    <2> QED BY <2>1, <2>2
<1>3. ASSUME NEW i \in DOMAIN Tail(ch) PROVE Tail(ch)[i] \in Queued(ch)
    <2>1. i + 1 \in DOMAIN ch /\ Tail(ch)[i] = ch[i + 1] BY <1>1
    <2> QED BY <2>1 DEF Queued
<1>4. Head(ch) \in Queued(ch)
    <2>1. 1 \in DOMAIN ch BY <1>1
    <2> QED BY <1>1, <2>1 DEF Queued
<1> QED BY <1>1, <1>2, <1>3, <1>4 DEF Queued

\* The steps of a pump: who is being added does not begin anything new.
LEMMA ComingPump ==
    ASSUME Moving \cap Impatient = {}, LoadInv, NEW c \in Conn, Client(c) \/ Pump(c),
           NEW d \in Conn
    PROVE  Coming(d)'
<1> USE HubAssumption DEF LoadInv, Inv, TypeOK, Coming, Adding, Answered, Goto, After
<1>1. CASE \E k \in Canvas : Join(c, k)
    <2>1. PICK k \in Canvas : Join(c, k) BY <1>1
    <2>2. Answered(c)
        <3>1. CASE c \in Impatient BY <2>1, <3>1 DEF Join
        <3>2. CASE c \notin Impatient BY <2>1, <3>2 DEF Join, Listening
        <3> QED BY <3>1, <3>2
    <2>3. Answered(d)' <=> Answered(d) BY <2>1 DEF Join
    <2> QED BY <2>1, <2>2, <2>3 DEF Join
<1>2. CASE Leave(c)
    <2>1. Answered(c) BY <1>2 DEF Leave, Listening
    <2> QED BY <1>2, <2>1 DEF Leave
<1>3. CASE Drop(c) BY <1>3 DEF Drop
<1>4. CASE \E type \in {"op", "save", "cursor", "awareness"} : Lookup(c, type)
    <2>1. PICK type : Lookup(c, type) BY <1>4
    <2> QED BY <2>1 DEF Lookup, Listening
<1>5. CASE SendUnregister(c)
    <2>1. UNCHANGED <<registerCh, hub, canvasID>> BY <1>5 DEF SendUnregister
    <2>2. pc[c] \in {"rejoin", "leave", "close"} BY <1>5 DEF SendUnregister
    <2>3. pc'[d] = IF d = c THEN CASE pc[c] = "rejoin" -> "check" [] pc[c] = "leave" -> "assign"
                                   [] pc[c] = "close" -> "closed"
                   ELSE pc[d]
        BY <1>5 DEF SendUnregister
    <2>4. pc'[d] = "register" => pc[d] = "register" BY <2>2, <2>3
    <2>5. pc[d] \in After => pc'[d] \in After BY <2>2, <2>3
    <2> QED BY <2>1, <2>4, <2>5
<1>6. CASE Deny(c) BY <1>6 DEF Deny
<1>7. CASE \E p \in Permission : Allow(c, p)
    <2>1. PICK p \in Permission : Allow(c, p) BY <1>7
    <2> QED BY <2>1 DEF Allow
<1>8. CASE Assign(c) BY <1>8 DEF Assign
<1>9. CASE Settle(c)
    <2>1. want[c] # NoCanvas => want[c] \in Canvas BY DEF Keys
    <2> QED BY <1>9, <2>1 DEF Settle
<1>10. CASE SendRegister(c)
    <2>1. Queued(registerCh') = Queued(registerCh) \cup {c} BY <1>10, AppendQueued DEF SendRegister
    <2>2. hub' = hub /\ canvasID' = canvasID /\ pc' = [pc EXCEPT ![c] = "idle"]
        BY <1>10 DEF SendRegister
    <2>3. pc[c] = "register" /\ canvasID[c] \in Canvas BY <1>10 DEF SendRegister
    <2> QED BY <2>1, <2>2, <2>3
<1>11. CASE Use(c) BY <1>11 DEF Use
<1> QED BY <1>1, <1>2, <1>3, <1>4, <1>5, <1>6, <1>7, <1>8, <1>9, <1>10, <1>11
        DEF Client, Pump

\* The hub is adding whom it was adding or takes from the channel.
LEMMA AddingHub ==
    ASSUME Inv, HubStep, NEW d \in Conn
    PROVE  Adding(d)' => Adding(d)
<1> USE DEF Inv, TypeOK, Adding, Answered, At, HubGoto, HubIdle
<1>1. CASE TakeRegister BY <1>1, TailQueued DEF TakeRegister
<1>2. CASE TakeUnregister BY <1>2 DEF TakeUnregister
<1>3. CASE AddLookup BY <1>3 DEF AddLookup
<1>4. CASE AddLoad BY <1>4 DEF AddLoad
<1>5. CASE AddPublish BY <1>5 DEF AddPublish
<1>6. CASE AddMember BY <1>6 DEF AddMember
<1>7. CASE RemoveLookup
    <2>1. rooms[HubKey] \in RoomId \cup {NoRoom}
        BY <1>7 DEF RemoveLookup, Readable, HubKey, HubBusy
    <2> QED BY <1>7, <2>1 DEF RemoveLookup
<1>8. CASE RemoveMember BY <1>8 DEF RemoveMember
<1>9. CASE RemoveRoom BY <1>9 DEF RemoveRoom
<1>10. CASE HubCrash BY <1>10 DEF HubCrash
<1> QED BY <1>1, <1>2, <1>3, <1>4, <1>5, <1>6, <1>7, <1>8, <1>9, <1>10 DEF HubStep

\* The steps of the hub write no canvasID.
LEMMA ComingHub ==
    ASSUME LoadInv, HubStep, NEW d \in Conn
    PROVE  Coming(d)'
BY AddingHub, HubKeepsPumps DEF LoadInv, Coming, connVars

\* A room that is published, in use or at work is not collected.
LEMMA KeptByCollect ==
    ASSUME TypeOK, Collect, NEW k \in Keys, rooms'[k] # NoRoom, rooms'[k] \in RoomId
    PROVE  members'[rooms'[k]] = members[rooms'[k]] /\ loaded'[rooms'[k]] = loaded[rooms'[k]]
<1>1. rooms'[k] \in Held' BY DEF Held
<1> QED BY <1>1 DEF Collect, TypeOK

\* A pump collects what it let go of, never a room that is published.
LEMMA HoldsPump ==
    ASSUME LoadInv, NEW c \in Conn, Client(c) \/ Pump(c), \A d \in Conn : Coming(d)
    PROVE  RoomHoldsItsCanvas' /\ Fresh'
<1> USE DEF LoadInv
<1>1. UNCHANGED <<hub, rooms>>
    BY DEF Client, Pump, Join, Leave, Drop, Lookup, SendUnregister, Deny, Allow, Assign, Settle,
           SendRegister, Use, roomVars
<1>2. CASE Use(c)
    <2>1. \A k \in Keys : rooms[k] # NoRoom => loaded'[rooms[k]] = loaded[rooms[k]]
        BY <1>1, <1>2, KeptByCollect DEF Use, Inv, TypeOK
    <2>2. RoomHoldsItsCanvas' BY <1>1, <2>1 DEF RoomHoldsItsCanvas
    <2>3. ASSUME At("publish") PROVE loaded'[hub.room] = loaded[hub.room] /\ canvasID' = canvasID
        <3>1. hub.room \in Held' BY <1>1 DEF Held
        <3>2. hub.room \in RoomId BY <2>3 DEF Inv, HubBusy, At
        <3> QED BY <1>2, <3>1, <3>2 DEF Use, Collect
    <2> QED BY <1>1, <2>2, <2>3 DEF Fresh, At, HubKey
<1>3. CASE ~Use(c)
    <2>1. UNCHANGED <<members, loaded>>
        BY <1>3 DEF Client, Pump, Join, Leave, Drop, Lookup, SendUnregister, Deny, Allow, Assign,
                    Settle, SendRegister, roomVars
    <2>2. At("publish") => canvasID'[hub.conn] = canvasID[hub.conn]
        <3>1. ASSUME At("publish") PROVE hub.conn \in Conn /\ pc[hub.conn] \in After
            BY <3>1 DEF Inv, HubBusy, At, Coming, Adding, Answered
        <3>2. \A d \in Conn : pc[d] \in After => canvasID'[d] = canvasID[d]
            BY <1>3 DEF Client, Pump, Join, Leave, Drop, Lookup, SendUnregister, Deny, Allow, Assign,
                        Settle, SendRegister, After, Inv, TypeOK
        <3> QED BY <3>1, <3>2
    <2> QED BY <1>1, <2>1, <2>2 DEF RoomHoldsItsCanvas, Fresh, At, HubKey
<1> QED BY <1>2, <1>3

\* The hub publishes a room under the key it loaded it for.
LEMMA HoldsHub ==
    ASSUME LoadInv, HubStep
    PROVE  RoomHoldsItsCanvas' /\ Fresh'
<1> USE DEF LoadInv, Inv, TypeOK
<1>0. canvasID' = canvasID BY HubKeepsPumps DEF connVars
<1>1. CASE AddLoad
    <2>1. PICK r \in RoomId \ Held, from \in {HubKey, Blank} :
            /\ hub' = [hub EXCEPT !.step = "publish", !.room = r]
            /\ loaded' = [loaded EXCEPT ![r] = from]
        BY <1>1 DEF AddLoad
    <2>2. rooms' = rooms /\ \A k \in Keys : rooms[k] # r
        <3>1. \A k \in Keys : rooms[k] \in Held BY DEF Held
        <3>2. r \notin Held OBVIOUS
        <3>3. rooms' = rooms BY <1>1 DEF AddLoad
        <3> QED BY ONLY <3>1, <3>2, <3>3
    <2>3. hub'.room = r /\ hub'.conn = hub.conn BY <2>1
    <2>4. loaded'[r] = from /\ \A q \in RoomId \ {r} : loaded'[q] = loaded[q] BY <2>1
    <2>5. RoomHoldsItsCanvas' BY <2>2, <2>4 DEF RoomHoldsItsCanvas
    <2>6. Fresh' BY <1>0, <2>1, <2>2, <2>3, <2>4 DEF Fresh, HubKey
    <2> QED BY <2>5, <2>6
<1>2. CASE AddPublish
    <2>1. HubKey \in Keys /\ hub.room \in RoomId /\ loaded[hub.room] \in {HubKey, Blank}
        BY <1>2 DEF AddPublish, At, HubBusy, Fresh, Readable, HubKey
    <2>2. rooms' = [rooms EXCEPT ![HubKey] = hub.room] /\ Collect
        BY <1>2 DEF AddPublish
    <2>3. ASSUME NEW k \in Keys, rooms'[k] # NoRoom PROVE loaded'[rooms'[k]] \in {k, Blank}
        <3>1. rooms'[k] \in RoomId BY <2>1, <2>2, <2>3
        <3>2. loaded'[rooms'[k]] = loaded[rooms'[k]] BY <2>2, <2>3, <3>1, KeptByCollect
        <3>3. loaded[rooms'[k]] \in {k, Blank} BY <2>1, <2>2, <2>3 DEF RoomHoldsItsCanvas
        <3> QED BY <3>2, <3>3
    <2>4. hub'.step = "add" BY <1>2 DEF AddPublish, HubGoto
    <2> QED BY <2>3, <2>4 DEF RoomHoldsItsCanvas, Fresh, At
<1>3. CASE RemoveRoom
    <2>1. HubKey \in Keys /\ Collect
        BY <1>3 DEF RemoveRoom, At, HubBusy, Readable, HubKey
    <2>2. rooms' = IF IsEmpty(hub.room) THEN [rooms EXCEPT ![HubKey] = NoRoom] ELSE rooms
        BY <1>3 DEF RemoveRoom
    <2>3. ASSUME NEW k \in Keys, rooms'[k] # NoRoom PROVE loaded'[rooms'[k]] \in {k, Blank}
        <3>1. rooms'[k] = rooms[k] BY <2>1, <2>2, <2>3
        <3>2. loaded'[rooms'[k]] = loaded[rooms'[k]] BY <2>1, <2>3, <3>1, KeptByCollect
        <3> QED BY <2>3, <3>1, <3>2 DEF RoomHoldsItsCanvas
    <2>4. hub'.step = "select" BY <1>3 DEF RemoveRoom, HubIdle
    <2> QED BY <2>3, <2>4 DEF RoomHoldsItsCanvas, Fresh, At
<1>4. ASSUME UNCHANGED <<rooms, loaded>>, hub'.step # "publish"
      PROVE  RoomHoldsItsCanvas' /\ Fresh'
    BY <1>4 DEF RoomHoldsItsCanvas, Fresh, At
<1> USE DEF roomVars, HubGoto, HubIdle
<1>5. CASE TakeRegister BY <1>4, <1>5 DEF TakeRegister
<1>6. CASE TakeUnregister BY <1>4, <1>6 DEF TakeUnregister
<1>7. CASE AddLookup BY <1>4, <1>7 DEF AddLookup
<1>8. CASE AddMember BY <1>4, <1>8 DEF AddMember
<1>9. CASE RemoveLookup BY <1>4, <1>9 DEF RemoveLookup, At
<1>10. CASE RemoveMember BY <1>4, <1>10 DEF RemoveMember
<1>11. CASE HubCrash BY <1>4, <1>11 DEF HubCrash
<1> QED BY <1>1, <1>2, <1>3, <1>5, <1>6, <1>7, <1>8, <1>9, <1>10, <1>11 DEF HubStep

\* No client is coming and no room is open at first.
LEMMA LoadInvInit == ASSUME Init PROVE LoadInv
<1>1. ASSUME NEW c \in Conn PROVE Coming(c)
    <2>1. Queued(registerCh) = {}
        <3>1. registerCh = <<>> BY DEF Init
        <3>2. <<>> \in Seq(Conn) /\ Len(<<>>) = 0 BY EmptySeq
        <3>3. DOMAIN registerCh = {} BY <3>1, <3>2
        <3> QED BY <3>3 DEF Queued
    <2>2. hub.step = "select" /\ pc[c] = "idle" BY DEF Init, HubIdle
    <2> QED BY <2>1, <2>2 DEF Coming, Adding, Answered
<1>2. Fresh /\ RoomHoldsItsCanvas BY DEF Init, Fresh, At, HubIdle, RoomHoldsItsCanvas
<1> QED BY <1>1, <1>2, InvInit DEF LoadInv

\* Every step keeps what is loaded with its canvas.
LEMMA LoadInvNext ==
    ASSUME Moving \cap Impatient = {}, LoadInv, [Next]_vars
    PROVE  LoadInv'
<1>1. Inv' BY InvNext DEF LoadInv
<1>2. ASSUME NEW c \in Conn, Client(c) \/ Pump(c) PROVE LoadInv'
    BY <1>1, <1>2, ComingPump, HoldsPump DEF LoadInv
<1>3. CASE HubStep BY <1>1, <1>3, ComingHub, HoldsHub DEF LoadInv
<1>4. CASE Stopped \/ UNCHANGED vars
    <2>1. UNCHANGED vars BY <1>4 DEF Stopped
    <2>2. \A c \in Conn : Coming(c)'
        BY <2>1 DEF LoadInv, Coming, Adding, Answered, vars, connVars
    <2>3. Fresh' /\ RoomHoldsItsCanvas'
        BY <2>1 DEF LoadInv, Fresh, At, HubKey, RoomHoldsItsCanvas, vars, connVars, roomVars
    <2> QED BY <1>1, <2>2, <2>3 DEF LoadInv
<1> QED BY <1>2, <1>3, <1>4 DEF Next

\* If the clients that move wait for their answers, no room holds the data of
\* another canvas, whatever the others do and wherever the hub is.
THEOREM RoomsHoldTheirCanvas ==
    ASSUME Moving \cap Impatient = {}
    PROVE  Spec => []RoomHoldsItsCanvas
<1>1. Init => LoadInv BY LoadInvInit
<1>2. LoadInv /\ [Next]_vars => LoadInv' BY LoadInvNext
<1>3. LoadInv => RoomHoldsItsCanvas BY DEF LoadInv
<1> QED BY <1>1, <1>2, <1>3, PTL DEF Spec
----------------------------------------------------------------------------
(* The rooms and their members, if connections join once (Moving = {})     *)

Removing(c) ==
    \/ c \in Queued(unregisterCh)
    \/ hub.conn = c /\ hub.step \in {"find", "remove", "discard"}

\* A connection has no canvas until it joins, then keeps it, and is removed
\* only when it is closed; a patient one waits to be added.
Once(c) ==
    /\ pc[c] \notin {"rejoin", "leave"}
    /\ pc[c] \in {"check", "assign"} => canvasID[c] = NoCanvas
    /\ pc[c] \in {"assign", "settle"} => want[c] # NoCanvas
    /\ Removing(c) => pc[c] = "closed"
    /\ c \notin Impatient /\ Adding(c) => pc[c] = "idle"

OnceInv == LoadInv /\ hub.step # "crashed" /\ \A c \in Conn : Once(c)

\* A connection that has a canvas for good.
Home(c) == canvasID[c] \in Canvas /\ pc[c] \in After

\* The room the hub works on is the room of its client's canvas.
AtWork ==
    /\ hub.step \in {"load", "publish"} => rooms[HubKey] = NoRoom
    /\ hub.step \in {"add", "remove", "discard"} => rooms[HubKey] = hub.room

Distinct ==
    \A k, l \in Keys : rooms[k] = rooms[l] /\ rooms[k] # NoRoom => k = l

\* Members are in the room of their canvas, under their user.
Tenant(r, u) ==
    members[r][u] # NoConn =>
        /\ UserOf[members[r][u]] = u /\ Home(members[r][u])
        /\ rooms[canvasID[members[r][u]]] = r

\* No room is empty but the one the hub is about to fill or to discard.
Occupied ==
    \A k \in Keys : rooms[k] # NoRoom =>
        \/ ~IsEmpty(rooms[k])
        \/ hub.step \in {"add", "discard"} /\ k = HubKey

Joined(c) ==
    c \notin Impatient /\ Sole(c) /\ Answered(c) /\ pc[c] \in {"idle", "use", "close"}
    /\ canvasID[c] # NoCanvas =>
        /\ rooms[canvasID[c]] \in RoomId
        /\ members[rooms[canvasID[c]]][UserOf[c]] = c
        /\ pc[c] = "use" => using[c] = rooms[canvasID[c]]

PlaceInv ==
    /\ AtWork /\ Distinct /\ Occupied
    /\ \A r \in RoomId, u \in User : Tenant(r, u)
    /\ \A c \in Conn : Joined(c)

\* What a step of a pump does to a connection past its join.
LEMMA AfterPump ==
    ASSUME Moving = {}, OnceInv, NEW c \in Conn, Client(c) \/ Pump(c),
           NEW d \in Conn, pc[d] \in After
    PROVE  /\ canvasID'[d] = canvasID[d]
           /\ canvasID[d] # NoCanvas \/ pc[d] = "closed" => pc'[d] \in After
           /\ pc[d] = "closed" => pc'[d] = "closed"
<1> USE DEF OnceInv, Once, LoadInv, Inv, TypeOK, Goto, After, Listening
<1>1. CASE d # c
    <2>1. pc'[d] = pc[d] /\ canvasID'[d] = canvasID[d]
        <3>1. pc \in [Conn -> {pc[x] : x \in Conn}] /\ canvasID \in [Conn -> Keys \cup {Torn}]
            OBVIOUS
        <3> QED BY ONLY <1>1, <3>1, Client(c) \/ Pump(c)
            DEF Client, Pump, Join, Leave, Drop, Lookup, SendUnregister, Deny, Allow, Assign,
                Settle, SendRegister, Use, Goto
    <2> QED BY <2>1
<1>2. CASE d = c
    <2>1. CASE \E k \in Canvas : Join(c, k) BY <1>2, <2>1 DEF Join
    <2>2. CASE Drop(c) BY <1>2, <2>2 DEF Drop
    <2>3. CASE \E type \in {"op", "save", "cursor", "awareness"} : Lookup(c, type)
        BY <1>2, <2>3 DEF Lookup
    <2>4. CASE SendUnregister(c) BY <1>2, <2>4 DEF SendUnregister
    <2>5. CASE Use(c) BY <1>2, <2>5 DEF Use
    <2>6. CASE Leave(c) BY <1>2, <2>6 DEF Leave
    <2>7. ~(Deny(c) \/ (\E p \in Permission : Allow(c, p)) \/ Assign(c) \/ Settle(c)
            \/ SendRegister(c))
        BY <1>2 DEF Deny, Allow, Assign, Settle, SendRegister
    <2> QED BY <2>1, <2>2, <2>3, <2>4, <2>5, <2>6, <2>7 DEF Client, Pump
<1> QED BY <1>1, <1>2

\* The steps of pumps keep each connection on its way from join to close.
LEMMA OncePump ==
    ASSUME Moving = {}, OnceInv, NEW c \in Conn, Client(c) \/ Pump(c), NEW d \in Conn
    PROVE  Once(d)' /\ hub' = hub
<1>0. /\ \E S : pc \in [Conn -> S]
      /\ want \in [Conn -> Keys] /\ canvasID \in [Conn -> Keys \cup {Torn}]
      /\ registerCh \in Seq(Conn) /\ unregisterCh \in Seq(Conn)
      /\ Once(d) /\ Once(c) /\ (pc[c] \in {"rejoin", "check"} => want[c] \in Canvas)
    BY DEF OnceInv, LoadInv, Inv, TypeOK, PumpInv
<1> USE <1>0 DEF Once, Goto, Adding, Answered, Removing
<1>1. CASE \E k \in Canvas : Join(c, k)
    <2>1. PICK k \in Canvas : Join(c, k) BY <1>1
    <2> QED BY <2>1, HubAssumption DEF Join, Listening
<1>2. CASE Leave(c) BY <1>2 DEF Leave
<1>3. CASE Drop(c) BY <1>3 DEF Drop, Listening
<1>4. CASE \E type \in {"op", "save", "cursor", "awareness"} : Lookup(c, type)
    <2>1. PICK type : Lookup(c, type) BY <1>4
    <2> QED BY <2>1 DEF Lookup, Listening
<1>5. CASE SendUnregister(c)
    <2>1. Queued(unregisterCh') = Queued(unregisterCh) \cup {c}
        BY <1>5, AppendQueued DEF SendUnregister
    <2>2. pc[c] = "close" /\ pc' = [pc EXCEPT ![c] = "closed"]
        BY <1>5 DEF SendUnregister
    <2>3. UNCHANGED <<hub, registerCh, canvasID, want>> BY <1>5 DEF SendUnregister
    <2> QED BY <2>1, <2>2, <2>3
<1>6. CASE Deny(c) BY <1>6 DEF Deny
<1>7. CASE \E p \in Permission : Allow(c, p)
    <2>1. PICK p \in Permission : Allow(c, p) BY <1>7
    <2> QED BY <2>1, HubAssumption DEF Allow
<1>8. CASE Assign(c) BY <1>8 DEF Assign
<1>9. CASE Settle(c) BY <1>9 DEF Settle
<1>10. CASE SendRegister(c)
    <2>1. Queued(registerCh') = Queued(registerCh) \cup {c} BY <1>10, AppendQueued DEF SendRegister
    <2>2. pc[c] = "register" /\ pc' = [pc EXCEPT ![c] = "idle"] BY <1>10 DEF SendRegister
    <2>3. UNCHANGED <<hub, unregisterCh, canvasID, want>> BY <1>10 DEF SendRegister
    <2> QED BY <2>1, <2>2, <2>3
<1>11. CASE Use(c) BY <1>11 DEF Use
<1> QED BY <1>1, <1>2, <1>3, <1>4, <1>5, <1>6, <1>7, <1>8, <1>9, <1>10, <1>11
        DEF Client, Pump

\* The key of the hub's client is not torn, and it is a canvas while the hub
\* adds the client.
LEMMA HubKeyKnown ==
    ASSUME OnceInv, hub.step # "select"
    PROVE  /\ hub.conn \in Conn /\ HubKey \in Keys
           /\ hub.step \in {"lookup", "load", "publish", "add"} => HubKey \in Canvas /\ Home(hub.conn)
           /\ hub.step \in {"find", "remove", "discard"} => pc[hub.conn] = "closed"
<1>1. hub.conn \in Conn BY DEF OnceInv, LoadInv, Inv, HubBusy
<1>2. hub.step \in {"lookup", "load", "publish", "add"} => HubKey \in Canvas /\ Home(hub.conn)
    BY <1>1 DEF OnceInv, LoadInv, Coming, Adding, Answered, HubKey, Home
<1>3. hub.step \in {"find", "remove", "discard"} => pc[hub.conn] = "closed"
    BY <1>1 DEF OnceInv, Once, Removing
<1>4. hub.step \in {"lookup", "load", "publish", "add", "find", "remove", "discard"}
    BY DEF OnceInv, LoadInv, Inv, TypeOK
<1>5. pc[hub.conn] = "closed" => HubKey \in Keys
    BY <1>1, KeyReadable DEF OnceInv, LoadInv, HubKey
<1> QED BY <1>1, <1>2, <1>3, <1>4, <1>5 DEF Keys

\* The hub never reads a torn canvasID.
LEMMA HubLives ==
    ASSUME OnceInv, HubStep
    PROVE  ~HubCrash /\ hub'.step # "crashed"
<1> USE DEF OnceInv, LoadInv, Inv, TypeOK, At, HubGoto, HubIdle
<1>1. ~HubCrash
    <2>1. HubKey # Torn \/ hub.step = "select" BY HubKeyKnown, HubAssumption DEF Keys
    <2> QED BY <2>1 DEF HubCrash, Readable, HubKey
<1>2. CASE TakeRegister BY <1>1, <1>2 DEF TakeRegister
<1>3. CASE TakeUnregister BY <1>1, <1>3 DEF TakeUnregister
<1>4. CASE AddLookup BY <1>1, <1>4 DEF AddLookup
<1>5. CASE AddLoad BY <1>1, <1>5 DEF AddLoad
<1>6. CASE AddPublish BY <1>1, <1>6 DEF AddPublish
<1>7. CASE AddMember BY <1>1, <1>7 DEF AddMember
<1>8. CASE RemoveLookup BY <1>1, <1>8 DEF RemoveLookup
<1>9. CASE RemoveMember BY <1>1, <1>9 DEF RemoveMember
<1>10. CASE RemoveRoom BY <1>1, <1>10 DEF RemoveRoom
<1> QED BY <1>1, <1>2, <1>3, <1>4, <1>5, <1>6, <1>7, <1>8, <1>9, <1>10 DEF HubStep

\* The hub removes only who has closed.
LEMMA OnceHub ==
    ASSUME OnceInv, HubStep, NEW d \in Conn
    PROVE  Once(d)'
<1> USE DEF OnceInv, LoadInv, Inv, TypeOK, At, HubGoto, HubIdle, Removing
<1>1. UNCHANGED connVars BY HubKeepsPumps
<1>2. Adding(d)' => Adding(d) BY AddingHub
<1>3. CASE ~Removing(d)' \/ Removing(d) BY <1>1, <1>2, <1>3 DEF Once, connVars
<1>4. CASE TakeRegister BY <1>3, <1>4 DEF TakeRegister
<1>5. CASE TakeUnregister BY <1>3, <1>5, TailQueued DEF TakeUnregister
<1>6. CASE AddLookup
    <2>1. hub'.step \in {"load", "add"} BY <1>6 DEF AddLookup
    <2> QED BY <1>3, <1>6, <2>1 DEF AddLookup
<1>7. CASE AddLoad BY <1>3, <1>7 DEF AddLoad
<1>8. CASE AddPublish BY <1>3, <1>8 DEF AddPublish
<1>9. CASE AddMember BY <1>3, <1>9 DEF AddMember
<1>10. CASE RemoveLookup
    <2>1. hub'.step \in {"select", "remove"} /\ (hub'.step = "remove" => hub'.conn = hub.conn)
        BY <1>10 DEF RemoveLookup
    <2> QED BY <1>3, <1>10, <2>1 DEF RemoveLookup
<1>11. CASE RemoveMember BY <1>3, <1>11 DEF RemoveMember
<1>12. CASE RemoveRoom BY <1>3, <1>12 DEF RemoveRoom
<1> QED BY HubLives, <1>4, <1>5, <1>6, <1>7, <1>8, <1>9, <1>10, <1>11, <1>12 DEF HubStep

\* The steps of pumps move no member: what they let go is collected only if
\* no canvas has it.
LEMMA PlacePump ==
    ASSUME Moving = {}, OnceInv, PlaceInv, NEW c \in Conn, Client(c) \/ Pump(c)
    PROVE  PlaceInv'
<1>1. /\ UNCHANGED <<hub, rooms>>
      /\ (UNCHANGED <<members, loaded>>) \/ (Use(c) /\ Collect)
    <2>1. UNCHANGED <<hub, rooms>>
        BY DEF Client, Pump, Join, Leave, Drop, Lookup, SendUnregister, Deny, Allow, Assign, Settle,
               SendRegister, Use, roomVars
    <2>2. CASE Use(c) BY <2>1, <2>2 DEF Use
    <2>3. CASE ~Use(c)
        <3>1. UNCHANGED <<members, loaded>>
            BY <2>3 DEF Client, Pump, Join, Leave, Drop, Lookup, SendUnregister, Deny, Allow, Assign,
                        Settle, SendRegister, roomVars
        <3> QED BY <2>1, <3>1
    <2> QED BY <2>2, <2>3
<1> USE DEF OnceInv, LoadInv, Inv, PlaceInv
<1>2. \A d \in Conn : Home(d) => Home(d)' /\ canvasID'[d] = canvasID[d]
    BY AfterPump, HubAssumption DEF Home
<1>3. hub.step # "select" => HubKey' = HubKey
    <2>1. ASSUME hub.step # "select" PROVE hub.conn \in Conn /\ pc[hub.conn] \in After
        <3>1. /\ hub.conn \in Conn
              /\ hub.step \in {"lookup", "load", "publish", "add"} => Home(hub.conn)
              /\ hub.step \in {"find", "remove", "discard"} => pc[hub.conn] = "closed"
            BY <2>1, HubKeyKnown
        <3>2. hub.step \in {"lookup", "load", "publish", "add", "find", "remove", "discard"}
            BY <2>1 DEF TypeOK
        <3> QED BY <3>1, <3>2 DEF Home, After
    <2> QED BY <1>1, <2>1, AfterPump DEF HubKey
<1>4. AtWork' BY <1>1, <1>3 DEF AtWork
<1>5. Distinct' BY <1>1 DEF Distinct
<1>6. ASSUME NEW k \in Keys, rooms[k] # NoRoom PROVE members'[rooms[k]] = members[rooms[k]]
    BY <1>1, <1>6, KeptByCollect DEF TypeOK
<1>7. Occupied' BY <1>1, <1>3, <1>6 DEF Occupied, IsEmpty
<1>8. ASSUME NEW r \in RoomId, NEW u \in User PROVE Tenant(r, u)'
    <2>1. members'[r][u] \in {members[r][u], NoConn}
        <3>1. CASE UNCHANGED <<members, loaded>> BY <3>1
        <3>2. CASE Collect
            <4>1. members'[r] \in {members[r], Nobody} BY <3>2 DEF Collect
            <4> QED BY ONLY <4>1, u \in User DEF Nobody
        <3> QED BY <1>1, <3>1, <3>2
    <2>2. members[r][u] \in Conn \cup {NoConn}
        <3>1. members \in [RoomId -> [User -> Conn \cup {NoConn}]] BY DEF TypeOK
        <3> QED BY ONLY <3>1, r \in RoomId, u \in User
    <2>3. Tenant(r, u) OBVIOUS
    <2> QED BY <1>1, <1>2, <2>1, <2>2, <2>3 DEF Tenant
<1>9. ASSUME NEW d \in Conn PROVE Joined(d)'
    <2> SUFFICES ASSUME d \notin Impatient, Sole(d), Answered(d)',
                        pc'[d] \in {"idle", "use", "close"}, canvasID'[d] # NoCanvas
                 PROVE  /\ rooms'[canvasID'[d]] \in RoomId
                        /\ members'[rooms'[canvasID'[d]]][UserOf[d]] = d
                        /\ pc'[d] = "use" => using'[d] = rooms'[canvasID'[d]]
        BY DEF Joined
    <2>1. Answered(d) /\ canvasID'[d] = canvasID[d]
          /\ \/ pc[d] \in {"idle", "use", "close"} /\ (pc'[d] = "use" => pc[d] = "use" /\ using'[d] = using[d])
             \/ using'[d] = rooms[canvasID[d]] /\ pc[d] = "idle"
        <3> USE DEF TypeOK, Goto, Answered, Once
        <3>1. CASE \E k \in Canvas : Join(c, k) BY <3>1 DEF Join
        <3>2. CASE Leave(c) BY <3>2 DEF Leave
        <3>3. CASE Drop(c) BY <3>3 DEF Drop, Listening
        <3>4. CASE \E type \in {"op", "save", "cursor", "awareness"} : Lookup(c, type)
            <4>1. PICK type : Lookup(c, type) BY <3>4
            <4> QED BY <4>1 DEF Lookup, Listening
        <3>5. CASE SendUnregister(c) BY <3>5 DEF SendUnregister
        <3>6. CASE Deny(c) BY <3>6 DEF Deny
        <3>7. CASE \E p \in Permission : Allow(c, p) BY <3>7 DEF Allow
        <3>8. CASE Assign(c) BY <3>8 DEF Assign
        <3>9. CASE Settle(c) BY <3>9 DEF Settle
        <3>10. CASE SendRegister(c)
            <4>1. Queued(registerCh') = Queued(registerCh) \cup {c}
                BY <3>10, AppendQueued DEF SendRegister
            <4>2. hub' = hub /\ canvasID' = canvasID /\ using' = using
                  /\ pc' = [pc EXCEPT ![c] = "idle"]
                BY <3>10 DEF SendRegister
            <4> QED BY <4>1, <4>2
        <3>11. CASE Use(c) BY <3>11 DEF Use
        <3> QED BY <3>1, <3>2, <3>3, <3>4, <3>5, <3>6, <3>7, <3>8, <3>9, <3>10, <3>11
                DEF Client, Pump
    <2>2. canvasID[d] \in Keys BY <2>1, KeyReadable
    <2>3. /\ rooms[canvasID[d]] \in RoomId /\ members[rooms[canvasID[d]]][UserOf[d]] = d
          /\ pc[d] = "use" => using[d] = rooms[canvasID[d]]
        BY <2>1 DEF Joined
    <2>4. members'[rooms[canvasID[d]]] = members[rooms[canvasID[d]]]
        BY <1>6, <2>2, <2>3, HubAssumption
    <2> QED BY <1>1, <2>1, <2>3, <2>4
<1> QED BY <1>4, <1>5, <1>7, <1>8, <1>9

\* A step of the hub that leaves rooms and members as they are.
LEMMA PlaceStill ==
    ASSUME PlaceInv, UNCHANGED <<connVars, rooms, members>>, AtWork',
           hub.step \notin {"add", "discard"},
           \A d \in Conn : Answered(d)' => Answered(d)
    PROVE  PlaceInv'
<1> USE DEF PlaceInv
<1>1. Distinct' BY DEF Distinct
<1>2. Occupied' BY DEF Occupied, IsEmpty, HubKey, connVars
<1>3. ASSUME NEW r \in RoomId, NEW u \in User PROVE Tenant(r, u)'
    BY DEF Tenant, Home, connVars
<1>4. ASSUME NEW d \in Conn PROVE Joined(d)' BY DEF Joined, Sole, connVars
<1> QED BY <1>1, <1>2, <1>3, <1>4
\* The hub answers a client by adding it, and no other client.
LEMMA AnsweredHub ==
    ASSUME OnceInv, HubStep, NEW d \in Conn, Answered(d)'
    PROVE  Answered(d) \/ (AddMember /\ hub.conn = d)
<1>0. Inv /\ hub'.step # "crashed" BY HubLives DEF OnceInv, LoadInv
<1> USE <1>0 DEF Inv, TypeOK, Answered, At, HubGoto, HubIdle
<1>1. CASE TakeRegister BY <1>1, TailQueued DEF TakeRegister
<1>2. CASE TakeUnregister BY <1>2 DEF TakeUnregister
<1>3. CASE AddLookup
    <2>1. hub'.conn = hub.conn /\ hub'.step \in {"load", "add"} BY <1>3 DEF AddLookup
    <2> QED BY <1>3, <2>1 DEF AddLookup
<1>4. CASE AddLoad BY <1>4 DEF AddLoad
<1>5. CASE AddPublish BY <1>5 DEF AddPublish
<1>6. CASE AddMember BY <1>6 DEF AddMember
<1>7. CASE RemoveLookup BY <1>7 DEF RemoveLookup
<1>8. CASE RemoveMember BY <1>8 DEF RemoveMember
<1>9. CASE RemoveRoom BY <1>9 DEF RemoveRoom
<1>10. CASE HubCrash BY <1>10 DEF HubCrash
<1> QED BY <1>1, <1>2, <1>3, <1>4, <1>5, <1>6, <1>7, <1>8, <1>9, <1>10 DEF HubStep

\* The client that is added enters the room of its canvas.
LEMMA PlaceAddMember ==
    ASSUME OnceInv, PlaceInv, AddMember
    PROVE  PlaceInv'
<1> DEFINE c == hub.conn  r == hub.room
<1> USE DEF PlaceInv
<1>1. /\ c \in Conn /\ r \in RoomId /\ HubKey \in Canvas /\ Home(c)
      /\ rooms[HubKey] = r /\ UserOf[c] \in User /\ c # NoConn
    BY HubKeyKnown, HubAssumption DEF AddMember, At, OnceInv, LoadInv, Inv, HubBusy, AtWork
<1>2. /\ UNCHANGED connVars /\ UNCHANGED <<registerCh, unregisterCh, rooms>>
      /\ hub'.step = "select"
    BY DEF AddMember, HubIdle
<1>3. members \in [RoomId -> [User -> Conn \cup {NoConn}]] BY DEF OnceInv, LoadInv, Inv, TypeOK
<1>4. /\ members'[r][UserOf[c]] = c
      /\ \A q \in RoomId, u \in User : q # r \/ u # UserOf[c] => members'[q][u] = members[q][u]
    BY <1>1, <1>3 DEF AddMember
<1>5. AtWork' /\ Distinct' BY <1>2 DEF AtWork, Distinct
<1>6. ASSUME NEW k \in Keys, rooms[k] # NoRoom PROVE ~IsEmpty(rooms[k])'
    <2>1. rooms[k] \in RoomId BY <1>6 DEF OnceInv, LoadInv, Inv, TypeOK
    <2>2. CASE rooms[k] = r BY <1>1, <1>2, <1>4, <2>2 DEF IsEmpty
    <2>3. CASE rooms[k] # r
        <3>1. k # HubKey BY <1>1, <2>3
        <3>2. ~IsEmpty(rooms[k]) BY <1>6, <3>1 DEF Occupied
        <3> QED BY <1>2, <1>4, <2>1, <2>3, <3>2 DEF IsEmpty
    <2> QED BY <2>2, <2>3
<1>7. Occupied' BY <1>2, <1>6 DEF Occupied
<1>8. ASSUME NEW q \in RoomId, NEW u \in User PROVE Tenant(q, u)'
    <2>1. CASE q = r /\ u = UserOf[c]
        BY <1>1, <1>2, <1>4, <2>1 DEF Tenant, Home, connVars, HubKey
    <2>2. CASE ~(q = r /\ u = UserOf[c])
        <3>1. members'[q][u] = members[q][u] BY <1>4, <2>2
        <3> QED BY <1>2, <3>1 DEF Tenant, Home, connVars
    <2> QED BY <2>1, <2>2
<1>9. ASSUME NEW d \in Conn PROVE Joined(d)'
    <2>1. CASE d = c
        <3>1. ~Answered(c) BY <1>1 DEF Answered, AddMember, At
        <3>2. c \notin Impatient => pc[c] = "idle" BY <1>1, <3>1 DEF OnceInv, Once, Adding
        <3>3. rooms'[canvasID'[c]] = r BY <1>1, <1>2 DEF connVars, HubKey
        <3>4. pc' = pc BY <1>2 DEF connVars
        <3> QED BY <1>1, <1>4, <2>1, <3>2, <3>3, <3>4 DEF Joined
    <2>2. CASE d # c
        <3>1. Answered(d)' => Answered(d) BY <2>2, AnsweredHub DEF HubStep
        <3>2. Sole(d) => UserOf[d] # UserOf[c] BY <1>1, <2>2 DEF Sole
        <3>3. UserOf[d] \in User BY HubAssumption
        <3>4. UNCHANGED <<pc, canvasID, using, rooms>> BY <1>2 DEF connVars
        <3> QED BY <1>4, <3>1, <3>2, <3>3, <3>4 DEF Joined, Sole
    <2> QED BY <2>1, <2>2
<1> QED BY <1>5, <1>7, <1>8, <1>9

\* The client that is removed has closed; nobody else loses a place.
LEMMA PlaceRemoveMember ==
    ASSUME OnceInv, PlaceInv, RemoveMember
    PROVE  PlaceInv'
<1> DEFINE c == hub.conn  r == hub.room
<1> USE DEF PlaceInv
<1>1. /\ c \in Conn /\ r \in RoomId /\ HubKey \in Keys /\ pc[c] = "closed"
      /\ rooms[HubKey] = r /\ UserOf[c] \in User
    BY HubKeyKnown, HubAssumption DEF RemoveMember, At, OnceInv, LoadInv, Inv, HubBusy, AtWork
<1>2. UNCHANGED connVars /\ UNCHANGED <<registerCh, unregisterCh, rooms>> BY DEF RemoveMember
<1>3. members \in [RoomId -> [User -> Conn \cup {NoConn}]]
      /\ hub'.step = "discard" /\ hub'.conn = c /\ hub'.room = r
    BY DEF OnceInv, LoadInv, Inv, TypeOK, RemoveMember, HubGoto
<1>4. /\ members'[r][UserOf[c]] = NoConn
      /\ \A q \in RoomId, u \in User : q # r \/ u # UserOf[c] => members'[q][u] = members[q][u]
    BY <1>1, <1>3 DEF RemoveMember
<1>5. HubKey' = HubKey BY <1>2, <1>3 DEF HubKey, connVars
<1>6. AtWork' /\ Distinct' BY <1>1, <1>2, <1>3, <1>5 DEF AtWork, Distinct
<1>7. ASSUME NEW k \in Keys, rooms[k] # NoRoom, k # HubKey PROVE ~IsEmpty(rooms[k])'
    <2>1. rooms[k] \in RoomId BY <1>7 DEF OnceInv, LoadInv, Inv, TypeOK
    <2>2. rooms[k] # r BY <1>1, <1>7 DEF Distinct
    <2>3. ~IsEmpty(rooms[k]) BY <1>7 DEF Occupied
    <2> QED BY <1>2, <1>4, <2>1, <2>2, <2>3 DEF IsEmpty
<1>8. Occupied' BY <1>2, <1>3, <1>5, <1>7 DEF Occupied
<1>9. ASSUME NEW q \in RoomId, NEW u \in User PROVE Tenant(q, u)'
    BY <1>2, <1>4 DEF Tenant, Home, connVars
<1>10. ASSUME NEW d \in Conn PROVE Joined(d)'
    <2>1. CASE d = c
        <3>1. pc'[d] = "closed" BY <1>1, <1>2, <2>1 DEF connVars
        <3> QED BY <3>1 DEF Joined
    <2>2. CASE d # c
        <3>1. Answered(d)' => Answered(d)
            BY AnsweredHub DEF HubStep, RemoveMember, AddMember, At
        <3>2. Sole(d) => UserOf[d] # UserOf[c] BY <1>1, <2>2 DEF Sole
        <3>3. UserOf[d] \in User BY HubAssumption
        <3>4. UNCHANGED <<pc, canvasID, using, rooms>> BY <1>2 DEF connVars
        <3> QED BY <1>4, <3>1, <3>2, <3>3, <3>4 DEF Joined, Sole
    <2> QED BY <2>1, <2>2
<1> QED BY <1>6, <1>8, <1>9, <1>10

\* The new room takes a free key and no address in use.
LEMMA PlaceAddPublish ==
    ASSUME OnceInv, PlaceInv, AddPublish
    PROVE  PlaceInv'
<1> DEFINE r == hub.room
<1> USE DEF PlaceInv
<1>1. /\ hub.conn \in Conn /\ r \in RoomId /\ HubKey \in Keys /\ r # NoRoom
      /\ rooms[HubKey] = NoRoom /\ \A k \in Keys : rooms[k] # r
    BY HubKeyKnown, HubAssumption
    DEF AddPublish, At, OnceInv, LoadInv, Inv, HubBusy, AtWork, Fresh
<1>2. /\ UNCHANGED connVars /\ UNCHANGED <<registerCh, unregisterCh>> /\ Collect
      /\ rooms' = [rooms EXCEPT ![HubKey] = r]
    BY DEF AddPublish
<1>3. TypeOK /\ TypeOK' BY TypeHub DEF OnceInv, LoadInv, Inv, HubStep
<1>4. hub'.step = "add" /\ hub'.conn = hub.conn /\ hub'.room = r
    BY <1>3 DEF TypeOK, AddPublish, HubGoto
<1>5. HubKey' = HubKey BY <1>2, <1>4 DEF HubKey, connVars
<1>6. rooms'[HubKey] = r /\ \A k \in Keys \ {HubKey} : rooms'[k] = rooms[k]
    BY <1>1, <1>2, <1>3 DEF TypeOK
<1>7. AtWork' BY <1>4, <1>5, <1>6 DEF AtWork
<1>8. Distinct' BY <1>1, <1>6 DEF Distinct
<1>9. ASSUME NEW k \in Keys, rooms[k] # NoRoom
      PROVE  k # HubKey /\ rooms'[k] = rooms[k] /\ members'[rooms[k]] = members[rooms[k]]
    <2>1. k # HubKey /\ rooms'[k] = rooms[k] BY <1>1, <1>6, <1>9
    <2>2. rooms'[k] \in RoomId BY <1>3, <1>9, <2>1 DEF TypeOK
    <2> QED BY <1>2, <1>3, <1>9, <2>1, <2>2, KeptByCollect
<1>10. Occupied'
    <2>1. ASSUME NEW k \in Keys, rooms'[k] # NoRoom, k # HubKey PROVE ~IsEmpty(rooms[k])'
        <3>1. rooms[k] # NoRoom BY <1>6, <2>1
        <3>2. k # HubKey /\ ~IsEmpty(rooms[k]) BY <2>1, <3>1 DEF Occupied
        <3> QED BY <1>9, <3>1, <3>2 DEF IsEmpty
    <2> QED BY <1>4, <1>5, <2>1 DEF Occupied
<1>11. ASSUME NEW q \in RoomId, NEW u \in User PROVE Tenant(q, u)'
    <2>1. members'[q] \in {members[q], Nobody} BY <1>2 DEF Collect
    <2>2. Nobody[u] = NoConn BY DEF Nobody
    <2>3. members[q][u] \in Conn \cup {NoConn}
        <3>1. members \in [RoomId -> [User -> Conn \cup {NoConn}]] BY <1>3 DEF TypeOK
        <3> QED BY ONLY <3>1, q \in RoomId, u \in User
    <2>4. members'[q][u] = members[q][u] \/ members'[q][u] = NoConn BY <2>1, <2>2
    <2>5. Tenant(q, u) OBVIOUS
    <2>6. ASSUME members[q][u] # NoConn
          PROVE  rooms'[canvasID[members[q][u]]] = rooms[canvasID[members[q][u]]]
        <3>1. canvasID[members[q][u]] \in Keys /\ rooms[canvasID[members[q][u]]] = q
            BY <2>5, <2>6 DEF Tenant, Home, Keys
        <3>2. q # NoRoom BY HubAssumption
        <3> QED BY <1>9, <3>1, <3>2
    <2> QED BY <1>2, <2>4, <2>5, <2>6 DEF Tenant, Home, connVars
<1>12. ASSUME NEW d \in Conn PROVE Joined(d)'
    <2>1. Answered(d)' => Answered(d)
        BY AnsweredHub DEF HubStep, AddPublish, AddMember, At
    <2>2. UNCHANGED <<pc, canvasID, using>> BY <1>2 DEF connVars
    <2> SUFFICES ASSUME d \notin Impatient, Sole(d), Answered(d)',
                        pc'[d] \in {"idle", "use", "close"}, canvasID'[d] # NoCanvas
                 PROVE  /\ rooms'[canvasID'[d]] \in RoomId
                        /\ members'[rooms'[canvasID'[d]]][UserOf[d]] = d
                        /\ pc'[d] = "use" => using'[d] = rooms'[canvasID'[d]]
        BY DEF Joined
    <2>3. /\ rooms[canvasID[d]] \in RoomId /\ members[rooms[canvasID[d]]][UserOf[d]] = d
          /\ pc[d] = "use" => using[d] = rooms[canvasID[d]]
        BY <2>1, <2>2 DEF Joined
    <2>4. canvasID[d] \in Keys
        BY <2>2, KeyReadable DEF OnceInv, LoadInv
    <2>5. rooms'[canvasID[d]] = rooms[canvasID[d]]
          /\ members'[rooms[canvasID[d]]] = members[rooms[canvasID[d]]]
        BY <1>9, <2>3, <2>4, HubAssumption
    <2> QED BY <2>2, <2>3, <2>5
<1> QED BY <1>7, <1>8, <1>10, <1>11, <1>12
\* A room is discarded only when it is empty.
LEMMA PlaceRemoveRoom ==
    ASSUME OnceInv, PlaceInv, RemoveRoom
    PROVE  PlaceInv'
<1> DEFINE r == hub.room
<1> USE DEF PlaceInv
<1>1. /\ hub.conn \in Conn /\ r \in RoomId /\ HubKey \in Keys /\ rooms[HubKey] = r
    BY HubKeyKnown DEF RemoveRoom, At, OnceInv, LoadInv, Inv, HubBusy, AtWork
<1>2. /\ UNCHANGED connVars /\ UNCHANGED <<registerCh, unregisterCh>> /\ Collect
      /\ rooms' = IF IsEmpty(r) THEN [rooms EXCEPT ![HubKey] = NoRoom] ELSE rooms
      /\ hub'.step = "select"
    BY DEF RemoveRoom, HubIdle
<1>3. TypeOK /\ TypeOK' BY TypeHub DEF OnceInv, LoadInv, Inv, HubStep
<1>4. \A k \in Keys : rooms'[k] = IF k = HubKey /\ IsEmpty(r) THEN NoRoom ELSE rooms[k]
    BY <1>1, <1>2, <1>3 DEF TypeOK
<1>5. AtWork' BY <1>2 DEF AtWork
<1>6. Distinct' BY <1>4 DEF Distinct
<1>7. ASSUME NEW k \in Keys, rooms'[k] # NoRoom
      PROVE  rooms'[k] = rooms[k] /\ members'[rooms[k]] = members[rooms[k]]
    <2>1. rooms'[k] = rooms[k] BY <1>4, <1>7
    <2>2. rooms'[k] \in RoomId BY <1>3, <1>7 DEF TypeOK
    <2> QED BY <1>2, <1>3, <1>7, <2>1, <2>2, KeptByCollect
<1>8. ASSUME NEW k \in Keys, rooms'[k] # NoRoom PROVE ~IsEmpty(rooms[k])'
    <2>1. ~IsEmpty(rooms[k])
        <3>1. CASE k = HubKey BY <1>1, <1>4, <1>8, <3>1
        <3>2. CASE k # HubKey BY <1>7, <1>8, <3>2 DEF Occupied
        <3> QED BY <3>1, <3>2
    <2> QED BY <1>7, <1>8, <2>1 DEF IsEmpty
<1>9. Occupied' BY <1>8 DEF Occupied
\* The room of a member is not empty, so it is not the one discarded.
<1>10. ASSUME NEW k \in Keys, rooms[k] # NoRoom, ~IsEmpty(rooms[k]) PROVE rooms'[k] = rooms[k]
    BY <1>1, <1>4, <1>10
<1>11. ASSUME NEW q \in RoomId, NEW u \in User PROVE Tenant(q, u)'
    <2>1. members'[q] \in {members[q], Nobody} BY <1>2 DEF Collect
    <2>2. Nobody[u] = NoConn BY DEF Nobody
    <2>3. members'[q][u] = members[q][u] \/ members'[q][u] = NoConn BY <2>1, <2>2
    <2>4. Tenant(q, u) OBVIOUS
    <2>5. ASSUME members[q][u] # NoConn
          PROVE  rooms'[canvasID[members[q][u]]] = rooms[canvasID[members[q][u]]]
        <3>1. canvasID[members[q][u]] \in Keys /\ rooms[canvasID[members[q][u]]] = q
            BY <2>4, <2>5 DEF Tenant, Home, Keys
        <3>2. q # NoRoom /\ ~IsEmpty(q) BY <2>5, HubAssumption DEF IsEmpty
        <3> QED BY <1>10, <3>1, <3>2
    <2> QED BY <1>2, <2>3, <2>4, <2>5 DEF Tenant, Home, connVars
<1>12. ASSUME NEW d \in Conn PROVE Joined(d)'
    <2>1. Answered(d)' => Answered(d)
        BY AnsweredHub DEF HubStep, RemoveRoom, AddMember, At
    <2>2. UNCHANGED <<pc, canvasID, using>> BY <1>2 DEF connVars
    <2> SUFFICES ASSUME d \notin Impatient, Sole(d), Answered(d)',
                        pc'[d] \in {"idle", "use", "close"}, canvasID'[d] # NoCanvas
                 PROVE  /\ rooms'[canvasID'[d]] \in RoomId
                        /\ members'[rooms'[canvasID'[d]]][UserOf[d]] = d
                        /\ pc'[d] = "use" => using'[d] = rooms'[canvasID'[d]]
        BY DEF Joined
    <2>3. /\ rooms[canvasID[d]] \in RoomId /\ members[rooms[canvasID[d]]][UserOf[d]] = d
          /\ pc[d] = "use" => using[d] = rooms[canvasID[d]]
        BY <2>1, <2>2 DEF Joined
    <2>4. canvasID[d] \in Keys
        BY <2>2, KeyReadable DEF OnceInv, LoadInv
    <2>5. rooms[canvasID[d]] # NoRoom /\ ~IsEmpty(rooms[canvasID[d]])
        BY <2>3, HubAssumption DEF IsEmpty
    <2>6. rooms'[canvasID[d]] = rooms[canvasID[d]]
          /\ members'[rooms[canvasID[d]]] = members[rooms[canvasID[d]]]
        <3>1. rooms'[canvasID[d]] = rooms[canvasID[d]] BY <1>10, <2>4, <2>5
        <3> QED BY <1>7, <2>4, <2>5, <3>1
    <2> QED BY <2>2, <2>3, <2>6
<1> QED BY <1>5, <1>6, <1>9, <1>11, <1>12

\* Every step of the hub keeps rooms and members together.
LEMMA PlaceHub ==
    ASSUME OnceInv, PlaceInv, HubStep
    PROVE  PlaceInv'
<1> USE DEF HubGoto, HubIdle, At, roomVars
<1>1. UNCHANGED connVars BY HubKeepsPumps
<1>2. ASSUME ~AddMember, UNCHANGED <<rooms, members>>, AtWork', hub.step \notin {"add", "discard"}
      PROVE  PlaceInv'
    <2>1. \A d \in Conn : Answered(d)' => Answered(d) BY <1>2, AnsweredHub
    <2> QED BY <1>1, <1>2, <2>1, PlaceStill
<1>3. TypeOK BY DEF OnceInv, LoadInv, Inv
<1>4. CASE TakeRegister
    <2>1. AtWork' BY <1>4 DEF TakeRegister, AtWork
    <2> QED BY <1>2, <1>4, <2>1 DEF TakeRegister, AddMember
<1>5. CASE TakeUnregister
    <2>1. AtWork' BY <1>5 DEF TakeUnregister, AtWork
    <2> QED BY <1>2, <1>5, <2>1 DEF TakeUnregister, AddMember
<1>6. CASE AddLookup
    <2>1. /\ hub'.step = IF rooms[HubKey] = NoRoom THEN "load" ELSE "add"
          /\ hub'.conn = hub.conn /\ hub'.room = rooms[HubKey] /\ rooms' = rooms
        BY <1>3, <1>6 DEF AddLookup, TypeOK
    <2>2. AtWork' BY <1>1, <2>1 DEF AtWork, HubKey, connVars
    <2> QED BY <1>2, <1>6, <2>2 DEF AddLookup, AddMember
<1>7. CASE AddLoad
    <2>1. hub'.step = "publish" /\ hub'.conn = hub.conn /\ rooms' = rooms
        BY <1>3, <1>7 DEF AddLoad, TypeOK
    <2>2. AtWork' BY <1>1, <1>7, <2>1 DEF AddLoad, AtWork, HubKey, connVars, PlaceInv
    <2> QED BY <1>2, <1>7, <2>2 DEF AddLoad, AddMember
<1>8. CASE RemoveLookup
    <2>1. CASE rooms[HubKey] = NoRoom
        <3>1. hub'.step = "select" BY <1>8, <2>1 DEF RemoveLookup
        <3>2. AtWork' BY <3>1 DEF AtWork
        <3> QED BY <1>2, <1>8, <3>2 DEF RemoveLookup, AddMember
    <2>2. CASE rooms[HubKey] # NoRoom
        <3>1. hub'.step = "remove" /\ hub'.conn = hub.conn /\ hub'.room = rooms[HubKey]
              /\ rooms' = rooms
            BY <1>3, <1>8, <2>2 DEF RemoveLookup, TypeOK
        <3>2. AtWork' BY <1>1, <3>1 DEF AtWork, HubKey, connVars
        <3> QED BY <1>2, <1>8, <3>2 DEF RemoveLookup, AddMember
    <2> QED BY <2>1, <2>2
<1>9. ~HubCrash BY HubLives
<1> QED BY <1>4, <1>5, <1>6, <1>7, <1>8, <1>9, PlaceAddPublish, PlaceAddMember,
           PlaceRemoveMember, PlaceRemoveRoom DEF HubStep

\* At first there is no room and no member.
LEMMA PlaceInit == ASSUME Init PROVE OnceInv /\ PlaceInv
<1>1. LoadInv BY LoadInvInit
<1>2. Queued(registerCh) = {} /\ Queued(unregisterCh) = {}
    <2>1. registerCh = <<>> /\ unregisterCh = <<>> BY DEF Init
    <2>2. <<>> \in Seq(Conn) /\ Len(<<>>) = 0 BY EmptySeq
    <2>3. DOMAIN registerCh = {} /\ DOMAIN unregisterCh = {} BY <2>1, <2>2
    <2> QED BY <2>3 DEF Queued
<1>3. hub.step = "select" /\ (\A k \in Keys : rooms[k] = NoRoom)
      /\ \A d \in Conn : pc[d] = "idle" /\ canvasID[d] = NoCanvas
    BY DEF Init, HubIdle
<1>4. OnceInv BY <1>1, <1>2, <1>3 DEF OnceInv, Once, Removing, Adding, Answered
<1>5. \A q \in RoomId, u \in User : members[q][u] = NoConn BY DEF Init, Nobody
<1>6. PlaceInv BY <1>3, <1>5 DEF PlaceInv, AtWork, Distinct, Occupied, Tenant, Joined
<1> QED BY <1>4, <1>6

\* Every step keeps rooms and members together.
LEMMA PlaceNext ==
    ASSUME Moving = {}, OnceInv, PlaceInv, [Next]_vars
    PROVE  OnceInv' /\ PlaceInv'
<1>1. LoadInv' BY LoadInvNext DEF OnceInv
<1>2. ASSUME NEW c \in Conn, Client(c) \/ Pump(c) PROVE OnceInv' /\ PlaceInv'
    <2>1. \A d \in Conn : Once(d)' /\ hub' = hub BY <1>2, OncePump
    <2>2. OnceInv' BY <1>1, <1>2, <2>1 DEF OnceInv
    <2> QED BY <1>2, <2>2, PlacePump
<1>3. CASE HubStep
    <2>1. \A d \in Conn : Once(d)' BY <1>3, OnceHub
    <2>2. hub'.step # "crashed" BY <1>3, HubLives DEF OnceInv
    <2> QED BY <1>1, <1>3, <2>1, <2>2, PlaceHub DEF OnceInv
<1>4. CASE Stopped \/ UNCHANGED vars
    <2>1. UNCHANGED vars BY <1>4 DEF Stopped
    <2>2. OnceInv' BY <1>1, <2>1 DEF OnceInv, Once, Removing, Adding, Answered, vars, connVars
    <2>3. PlaceInv'
        BY <2>1 DEF PlaceInv, AtWork, Distinct, Occupied, IsEmpty, Tenant, Home, Joined, Sole,
                    Answered, HubKey, vars, connVars, roomVars
    <2> QED BY <2>2, <2>3
<1> QED BY <1>2, <1>3, <1>4 DEF Next

\* If connections join once, a room exists between two clients of the hub
\* exactly while it has members, and every member is in the room of its
\* canvas, in no other and in none the hub forgot.
THEOREM MembersStayTogether ==
    ASSUME Moving = {}
    PROVE  Spec => []RoomsAreMembers
<1>1. Init => OnceInv /\ PlaceInv BY PlaceInit
<1>2. OnceInv /\ PlaceInv /\ [Next]_vars => OnceInv' /\ PlaceInv' BY PlaceNext
<1>3. OnceInv /\ PlaceInv => RoomsAreMembers
    BY HubAssumption DEF PlaceInv, Occupied, Tenant, RoomsAreMembers, MemberOf, At
<1> QED BY <1>1, <1>2, <1>3, PTL DEF Spec

\* If connections join once, one that had its answer is in its room until it
\* closes and works on that room, whatever the others do.
THEOREM JoinedStay ==
    ASSUME Moving = {}
    PROVE  Spec => []JoinedIsMember
<1>1. Init => OnceInv /\ PlaceInv BY PlaceInit
<1>2. OnceInv /\ PlaceInv /\ [Next]_vars => OnceInv' /\ PlaceInv' BY PlaceNext
<1>3. OnceInv /\ PlaceInv => JoinedIsMember
    BY DEF PlaceInv, Joined, JoinedIsMember, MemberOf
<1> QED BY <1>1, <1>2, <1>3, PTL DEF Spec
=============================================================================
