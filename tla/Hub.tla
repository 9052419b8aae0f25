--------------------------------- MODULE Hub ---------------------------------
(***************************************************************************)
(* Who is in which room: internal/ws/hub.go and the join, leave and close  *)
(* paths of internal/ws/client.go.                                         *)
(*                                                                         *)
(* Every connection has a goroutine, ReadPump, that handles one message of *)
(* its client at a time.  One more goroutine, Hub.Run, owns the rooms: the *)
(* pumps hand it clients over two bounded channels, register and           *)
(* unregister, and a select picks from either at random.  A client's       *)
(* canvasID is written by its pump and read by the hub, again at every use *)
(* and with no lock, so each use is a step of its own here.                *)
(***************************************************************************)
EXTENDS Naturals, Sequences, FiniteSets

CONSTANTS
    Conn,       \* connections, each with a Client and a ReadPump
    User,
    UserOf,     \* the user of a connection: rooms key their clients by user
    Canvas,
    RoomId,     \* addresses of Room objects, collected once nobody holds them
    ChanCap,    \* capacity of the two channels, 256 in the code
    Impatient,  \* connections that may send a message or drop before the
                \* answer to their join; the others wait for it
    Moving,     \* connections that may join again or leave
    NoCanvas,   \* the empty canvasID
    Torn,       \* a canvasID of which one word of two is written
    NoRoom, NoConn, Blank

ASSUME HubAssumption ==
    /\ UserOf \in [Conn -> User]
    /\ ChanCap \in Nat \ {0}
    /\ Impatient \subseteq Conn /\ Moving \subseteq Conn
    /\ NoCanvas \notin Canvas /\ Torn \notin Canvas \cup {NoCanvas}
    /\ NoRoom \notin RoomId /\ NoConn \notin Conn /\ Blank \notin Canvas

VARIABLES
    pc,            \* where each ReadPump is
    want,          \* the canvasID a join or leave is about to assign
    canvasID,      \* Client.canvasID
    permission,    \* Client.permission
    grant,         \* the access checker's last answer that was not a denial,
                   \* given back by a leave
    using,         \* the room a pump looked up and still works on
    registerCh, unregisterCh,
    hub,           \* where Hub.Run is: its step, its client, its room
    rooms,         \* Hub.rooms
    members,       \* Room.clients of every room
    loaded         \* the canvas whose data every room was created with

connVars == <<pc, want, canvasID, permission, grant, using>>
roomVars == <<rooms, members, loaded>>
vars == <<connVars, registerCh, unregisterCh, hub, roomVars>>

Permission == {"readonly", "collaborate"}
Keys == Canvas \cup {NoCanvas}
NoGrant == <<NoCanvas, "">>
HubIdle == [step |-> "select", conn |-> NoConn, room |-> NoRoom]
Nobody == [u \in User |-> NoConn]

Init ==
    /\ pc = [c \in Conn |-> "idle"]
    /\ want = [c \in Conn |-> NoCanvas]
    /\ canvasID = [c \in Conn |-> NoCanvas]
    /\ permission = [c \in Conn |-> ""]
    /\ grant = [c \in Conn |-> NoGrant]
    /\ using = [c \in Conn |-> NoRoom]
    /\ registerCh = <<>>
    /\ unregisterCh = <<>>
    /\ hub = HubIdle
    /\ rooms = [k \in Keys |-> NoRoom]
    /\ members = [r \in RoomId |-> Nobody]
    /\ loaded = [r \in RoomId |-> Blank]

\* Room objects that are still reachable; the others are collected.
Held == {rooms[k] : k \in Keys} \cup {using[c] : c \in Conn} \cup {hub.room}

Collect ==
    /\ members' = [r \in RoomId |-> IF r \in Held' THEN members[r] ELSE Nobody]
    /\ loaded' = [r \in RoomId |-> IF r \in Held' THEN loaded[r] ELSE Blank]

----------------------------------------------------------------------------
(* ReadPump *)

Queued(ch) == {ch[i] : i \in DOMAIN ch}

\* The answer to a join is sent once the hub has added the client.
Answered(c) ==
    /\ c \notin Queued(registerCh)
    /\ ~(hub.conn = c /\ hub.step \in {"lookup", "load", "publish", "add"})

\* The process is up, the pump waits in ReadMessage, the client may write.
Listening(c) ==
    /\ hub.step # "crashed"
    /\ pc[c] = "idle"
    /\ c \in Impatient \/ Answered(c)

Goto(c, label) == pc' = [pc EXCEPT ![c] = label]

\* A join leaves the current room first, if there is one.
Join(c, k) ==
    /\ Listening(c)
    /\ c \in Moving \/ canvasID[c] = NoCanvas
    /\ want' = [want EXCEPT ![c] = k]
    /\ Goto(c, IF canvasID[c] = NoCanvas THEN "check" ELSE "rejoin")
    /\ UNCHANGED <<canvasID, permission, grant, using, registerCh, unregisterCh, hub, roomVars>>

Leave(c) ==
    /\ Listening(c)
    /\ c \in Moving
    /\ canvasID[c] # NoCanvas
    /\ want' = [want EXCEPT ![c] = NoCanvas]
    /\ Goto(c, "leave")
    /\ UNCHANGED <<canvasID, permission, grant, using, registerCh, unregisterCh, hub, roomVars>>

\* A read error: the client closed, its keepalive ran out, a frame too large.
Drop(c) ==
    /\ Listening(c)
    /\ Goto(c, "close")
    /\ UNCHANGED <<want, canvasID, permission, grant, using, registerCh, unregisterCh, hub, roomVars>>

\* Hub.Unregister blocks while the channel is full.
SendUnregister(c) ==
    /\ hub.step # "crashed"
    /\ pc[c] \in {"rejoin", "leave", "close"}
    /\ Len(unregisterCh) < ChanCap
    /\ unregisterCh' = Append(unregisterCh, c)
    /\ Goto(c, CASE pc[c] = "rejoin" -> "check"
                 [] pc[c] = "leave"  -> "assign"
                 [] pc[c] = "close"  -> "closed")
    /\ UNCHANGED <<want, canvasID, permission, grant, using, registerCh, hub, roomVars>>

\* A denied join answers with an error and changes nothing: the client keeps
\* the canvasID and the permission it had before.
Deny(c) ==
    /\ hub.step # "crashed"
    /\ pc[c] = "check"
    /\ Goto(c, "idle")
    /\ want' = [want EXCEPT ![c] = NoCanvas]
    /\ UNCHANGED <<canvasID, permission, grant, using, registerCh, unregisterCh, hub, roomVars>>

Allow(c, p) ==
    /\ hub.step # "crashed"
    /\ pc[c] = "check"
    /\ grant' = [grant EXCEPT ![c] = <<want[c], p>>]
    /\ Goto(c, "assign")
    /\ UNCHANGED <<want, canvasID, permission, using, registerCh, unregisterCh, hub, roomVars>>

\* A Go string is a pointer and a length, written one after the other: while
\* one of the values is empty and the other is not, a reader may see the
\* length of one with the pointer of the other.
Assign(c) ==
    /\ hub.step # "crashed"
    /\ pc[c] = "assign"
    /\ canvasID' = [canvasID EXCEPT ![c] =
            IF (@ = NoCanvas) # (want[c] = NoCanvas) THEN Torn ELSE want[c]]
    /\ Goto(c, "settle")
    /\ UNCHANGED <<want, permission, grant, using, registerCh, unregisterCh, hub, roomVars>>

\* Mutant: a leave forgets to reset the permission.
SettleKeepsPermission(c) ==
    /\ hub.step # "crashed"
    /\ pc[c] = "settle"
    /\ canvasID' = [canvasID EXCEPT ![c] = want[c]]
    /\ permission' = [permission EXCEPT ![c] =
            IF want[c] = NoCanvas THEN @ ELSE grant[c][2]]
    /\ grant' = [grant EXCEPT ![c] = IF want[c] = NoCanvas THEN NoGrant ELSE @]
    /\ want' = [want EXCEPT ![c] = NoCanvas]
    /\ Goto(c, IF want[c] = NoCanvas THEN "idle" ELSE "register")
    /\ UNCHANGED <<using, registerCh, unregisterCh, hub, roomVars>>

Settle(c) ==
    /\ hub.step # "crashed"
    /\ pc[c] = "settle"
    /\ canvasID' = [canvasID EXCEPT ![c] = want[c]]
    /\ permission' = [permission EXCEPT ![c] =
            IF want[c] = NoCanvas THEN "" ELSE grant[c][2]]
    /\ grant' = [grant EXCEPT ![c] = IF want[c] = NoCanvas THEN NoGrant ELSE @]
    /\ want' = [want EXCEPT ![c] = NoCanvas]
    /\ Goto(c, IF want[c] = NoCanvas THEN "idle" ELSE "register")
    /\ UNCHANGED <<using, registerCh, unregisterCh, hub, roomVars>>

\* Mutant: the channel takes any number of clients.
SendRegisterUnbounded(c) ==
    /\ hub.step # "crashed"
    /\ pc[c] = "register"
    /\ registerCh' = Append(registerCh, c)
    /\ Goto(c, "idle")
    /\ UNCHANGED <<want, canvasID, permission, grant, using, unregisterCh, hub, roomVars>>

SendRegister(c) ==
    /\ hub.step # "crashed"
    /\ pc[c] = "register"
    /\ Len(registerCh) < ChanCap
    /\ registerCh' = Append(registerCh, c)
    /\ Goto(c, "idle")
    /\ UNCHANGED <<want, canvasID, permission, grant, using, unregisterCh, hub, roomVars>>

\* An op, a save, a cursor or an awareness finds its room under a read lock,
\* which addClient excludes while it loads, and works on it after the lock
\* is released.  Only ops and saves ask for a permission.
Lookup(c, type) ==
    /\ Listening(c)
    /\ type \in {"op", "save"} => permission[c] = "collaborate"
    /\ hub.step \notin {"load", "publish"}
    /\ rooms[canvasID[c]] # NoRoom
    /\ using' = [using EXCEPT ![c] = rooms[canvasID[c]]]
    /\ Goto(c, "use")
    /\ UNCHANGED <<want, canvasID, permission, grant, registerCh, unregisterCh, hub, roomVars>>

Use(c) ==
    /\ hub.step # "crashed"
    /\ pc[c] = "use"
    /\ using' = [using EXCEPT ![c] = NoRoom]
    /\ Goto(c, "idle")
    /\ UNCHANGED <<want, canvasID, permission, grant, registerCh, unregisterCh, hub, rooms>>
    /\ Collect

Pump(c) ==
    \/ SendUnregister(c)
    \/ Deny(c)
    \/ \E p \in Permission : Allow(c, p)
    \/ Assign(c)
    \/ Settle(c)
    \/ SendRegister(c)
    \/ Use(c)

----------------------------------------------------------------------------
(* Hub.Run *)

At(step) == hub.step = step

HubGoto(step) == hub' = [hub EXCEPT !.step = step]

\* The key the hub reads now.  A torn string is not read: see HubCrash.
Readable == canvasID[hub.conn] # Torn
HubKey == canvasID[hub.conn]

TakeRegister ==
    /\ At("select")
    /\ registerCh # <<>>
    /\ hub' = [step |-> "lookup", conn |-> Head(registerCh), room |-> NoRoom]
    /\ registerCh' = Tail(registerCh)
    /\ UNCHANGED <<connVars, unregisterCh, roomVars>>

TakeUnregister ==
    /\ At("select")
    /\ unregisterCh # <<>>
    /\ hub' = [step |-> "find", conn |-> Head(unregisterCh), room |-> NoRoom]
    /\ unregisterCh' = Tail(unregisterCh)
    /\ UNCHANGED <<connVars, registerCh, roomVars>>

\* Mutant: the test whether the room exists is left out.
AddLookupAlwaysLoads ==
    /\ At("lookup") /\ Readable
    /\ HubGoto("load")
    /\ UNCHANGED <<connVars, registerCh, unregisterCh, roomVars>>

AddLookup ==
    /\ At("lookup") /\ Readable
    /\ hub' = [hub EXCEPT
            !.step = IF rooms[HubKey] = NoRoom THEN "load" ELSE "add",
            !.room = rooms[HubKey]]
    /\ UNCHANGED <<connVars, registerCh, unregisterCh, roomVars>>

\* Mutant: the loader takes the id from a field that all connections share.
AddLoadShared ==
    /\ At("load") /\ Readable
    /\ RoomId \ Held # {}
    /\ LET r == CHOOSE x \in RoomId \ Held : TRUE
       IN  /\ hub' = [hub EXCEPT !.step = "publish", !.room = r]
           /\ \E from \in {canvasID[c] : c \in Conn} \ {NoCanvas, Torn} :
                loaded' = [loaded EXCEPT ![r] = from]
    /\ UNCHANGED <<connVars, registerCh, unregisterCh, rooms, members>>

\* A failed load leaves the room blank; the empty id is no canvas to load.
AddLoad ==
    /\ At("load") /\ Readable
    /\ RoomId \ Held # {}
    /\ LET r == CHOOSE x \in RoomId \ Held : TRUE
       IN  /\ hub' = [hub EXCEPT !.step = "publish", !.room = r]
           /\ \E from \in {HubKey, Blank} :
                /\ from # NoCanvas
                /\ loaded' = [loaded EXCEPT ![r] = from]
    /\ UNCHANGED <<connVars, registerCh, unregisterCh, rooms, members>>

AddPublish ==
    /\ At("publish") /\ Readable
    /\ rooms' = [rooms EXCEPT ![HubKey] = hub.room]
    /\ HubGoto("add")
    /\ UNCHANGED <<connVars, registerCh, unregisterCh>>
    /\ Collect

AddMember ==
    /\ At("add")
    /\ members' = [members EXCEPT ![hub.room][UserOf[hub.conn]] = hub.conn]
    /\ hub' = HubIdle
    /\ UNCHANGED <<connVars, registerCh, unregisterCh, rooms, loaded>>

\* Mutant: a client whose room does not exist is waited for.
RemoveLookupWaits ==
    /\ At("find") /\ Readable
    /\ rooms[HubKey] # NoRoom
    /\ hub' = [hub EXCEPT !.step = "remove", !.room = rooms[HubKey]]
    /\ UNCHANGED <<connVars, registerCh, unregisterCh, roomVars>>

RemoveLookup ==
    /\ At("find") /\ Readable
    /\ hub' = IF rooms[HubKey] = NoRoom
              THEN HubIdle
              ELSE [hub EXCEPT !.step = "remove", !.room = rooms[HubKey]]
    /\ UNCHANGED <<connVars, registerCh, unregisterCh, roomVars>>

RemoveMember ==
    /\ At("remove")
    /\ members' = [members EXCEPT ![hub.room][UserOf[hub.conn]] = NoConn]
    /\ HubGoto("discard")
    /\ UNCHANGED <<connVars, registerCh, unregisterCh, rooms, loaded>>

IsEmpty(r) == \A u \in User : members[r][u] = NoConn

\* Mutant: the room is deleted while others are in it.
RemoveRoomAlways ==
    /\ At("discard") /\ Readable
    /\ rooms' = [rooms EXCEPT ![HubKey] = NoRoom]
    /\ hub' = HubIdle
    /\ UNCHANGED <<connVars, registerCh, unregisterCh>>
    /\ Collect

\* Mutant: an empty room stays in the map.
RemoveRoomNever ==
    /\ At("discard") /\ Readable
    /\ hub' = HubIdle
    /\ UNCHANGED <<connVars, registerCh, unregisterCh, roomVars>>

RemoveRoom ==
    /\ At("discard") /\ Readable
    /\ rooms' = IF IsEmpty(hub.room) THEN [rooms EXCEPT ![HubKey] = NoRoom] ELSE rooms
    /\ hub' = HubIdle
    /\ UNCHANGED <<connVars, registerCh, unregisterCh>>
    /\ Collect

\* The length of one string with the nil pointer of the other: the process
\* dies of the read.  At "add" and "remove" the read is for the message that
\* follows the change of the members, which die with it.  The next process
\* starts from Init.
HubCrash ==
    /\ hub.step \in {"lookup", "load", "publish", "add", "find", "remove", "discard"}
    /\ ~Readable
    /\ HubGoto("crashed")
    /\ UNCHANGED <<connVars, registerCh, unregisterCh, roomVars>>

HubStep ==
    \/ TakeRegister \/ TakeUnregister
    \/ AddLookup \/ AddLoad \/ AddPublish \/ AddMember
    \/ RemoveLookup \/ RemoveMember \/ RemoveRoom
    \/ HubCrash

----------------------------------------------------------------------------

\* What clients do, at any time or never.
Client(c) ==
    \/ \E k \in Canvas : Join(c, k)
    \/ Leave(c)
    \/ Drop(c)
    \/ \E type \in {"op", "save", "cursor", "awareness"} : Lookup(c, type)

\* The process died, or every connection has closed and the hub has nothing
\* left to do.
Stopped ==
    /\ \/ At("crashed")
       \/ /\ \A c \in Conn : pc[c] = "closed"
          /\ hub = HubIdle /\ registerCh = <<>> /\ unregisterCh = <<>>
    /\ UNCHANGED vars

Next ==
    \/ \E c \in Conn : Client(c) \/ Pump(c)
    \/ HubStep
    \/ Stopped

\* The goroutines run: each pump takes its next step, and so does the hub,
\* whose select chooses between two ready channels at random, so neither is
\* passed over for ever.  Clients owe nothing.
Fairness ==
    /\ \A c \in Conn : WF_vars(Pump(c))
    /\ WF_vars(HubStep)
    /\ SF_vars(TakeRegister)
    /\ SF_vars(TakeUnregister)

Spec == Init /\ [][Next]_vars /\ Fairness

----------------------------------------------------------------------------
(* Every connection *)

\* Every connection's fields, every channel and every room hold values of
\* their kind, and no channel holds more than its capacity.
TypeOK ==
    /\ pc \in [Conn -> {"idle", "rejoin", "leave", "close", "check", "assign",
                        "settle", "register", "use", "closed"}]
    /\ want \in [Conn -> Keys]
    /\ canvasID \in [Conn -> Keys \cup {Torn}]
    /\ permission \in [Conn -> Permission \cup {""}]
    /\ grant \in [Conn -> {NoGrant} \cup (Canvas \X Permission)]
    /\ using \in [Conn -> RoomId \cup {NoRoom}]
    /\ registerCh \in Seq(Conn) /\ Len(registerCh) <= ChanCap
    /\ unregisterCh \in Seq(Conn) /\ Len(unregisterCh) <= ChanCap
    /\ hub \in [step : {"select", "lookup", "load", "publish", "add", "find",
                        "remove", "discard", "crashed"},
                conn : Conn \cup {NoConn}, room : RoomId \cup {NoRoom}]
    /\ rooms \in [Keys -> RoomId \cup {NoRoom}]
    /\ members \in [RoomId -> [User -> Conn \cup {NoConn}]]
    /\ loaded \in [RoomId -> Canvas \cup {Blank}]

\* Whatever a client joins, leaves, is denied or moves between: when its next
\* message is handled, its canvasID and its permission are the two halves of
\* one answer of the access checker, never the canvas of one join with the
\* permission of another.
GrantConsistent ==
    \A c \in Conn : pc[c] \in {"idle", "use", "register", "rejoin", "leave", "check"} =>
        <<canvasID[c], permission[c]>> = grant[c]

\* A pump that blocks on a full channel gets back to its client or to its
\* end, unless the process dies: the hub never waits for a pump.
PumpsProgress ==
    \A c \in Conn : pc[c] \notin {"idle", "closed"}
                      ~> pc[c] \in {"idle", "closed"} \/ At("crashed")

----------------------------------------------------------------------------
(* Connections that join once and then only work and drop (Moving = {}) *)

MemberOf(c) == {r \in RoomId : members[r][UserOf[c]] = c}

\* The only connection of its user.
Sole(c) == \A d \in Conn : UserOf[d] = UserOf[c] => d = c

\* The room of a canvas was created with that canvas's data (or blank, if
\* the load failed): nobody edits one canvas and saves it over another.
RoomHoldsItsCanvas ==
    \A k \in Keys : rooms[k] # NoRoom => loaded[rooms[k]] \in {k, Blank}

\* Between two clients of the hub, rooms and memberships agree: the in-memory
\* state of a canvas exists exactly while the canvas has members, every member
\* is in the room its canvasID names, so in one room at most, and no room is
\* left to members after the hub forgot it.
RoomsAreMembers ==
    At("select") =>
        /\ \A k \in Keys : rooms[k] # NoRoom => ~IsEmpty(rooms[k])
        /\ \A c \in Conn : \A r \in MemberOf(c) : rooms[canvasID[c]] = r

\* A client that had its answer is in the room of its canvas until it closes,
\* and the room it looked up for an operation is that room, not one that was
\* discarded meanwhile, whatever the other connections do.
JoinedIsMember ==
    \A c \in Conn \ Impatient : Sole(c) /\ Answered(c) /\ pc[c] \in {"idle", "use", "close"}
                                 /\ canvasID[c] # NoCanvas =>
        /\ rooms[canvasID[c]] \in MemberOf(c)
        /\ pc[c] = "use" => using[c] = rooms[canvasID[c]]

\* Everybody who waited for the answer is out of its room some time after
\* closing, and by then the room of its canvas is gone unless others are in
\* it: no room outlives its last client, with the canvas in memory.
ClosedLeaves ==
    \A c \in Conn \ Impatient :
        Sole(c) /\ pc[c] = "closed" ~>
            /\ MemberOf(c) = {}
            /\ \A k \in Keys : k = canvasID[c] /\ rooms[k] # NoRoom => ~IsEmpty(rooms[k])

----------------------------------------------------------------------------
(* What the documents say of every client *)

\* "`leave` | Leave current room" (README.md:126): a client whose leave and
\* whatever followed it has been handled by pump and hub, and that is in no
\* canvas by its own canvasID, is in no room.
LeaveLeaves ==
    \A c \in Conn :
        /\ At("select")
        /\ c \notin Queued(registerCh) \cup Queued(unregisterCh)
        /\ pc[c] = "idle" /\ canvasID[c] = NoCanvas
        => MemberOf(c) = {}
=============================================================================
