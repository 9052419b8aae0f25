------------------------------- MODULE Session -------------------------------
(***************************************************************************)
(* What the members of one canvas send each other and what reaches the     *)
(* database: the op, cursor, save and ping handlers and WritePump of       *)
(* internal/ws/client.go, the broadcasts of a room, the save handler and   *)
(* the state loader of cmd/server/main.go, PUT /canvases/:id/data and the  *)
(* deletion of the canvas.                                                 *)
(*                                                                         *)
(* Membership is taken as one step, for clients that wait for the answer   *)
(* to their join: Hub shows that they are members from then on until they  *)
(* close.  A user may have several connections, of which a room knows the  *)
(* one that joined last; such a user stays until the process ends (what    *)
(* happens when one of them closes is Hub's subject).                      *)
(*                                                                         *)
(* The document is a register per element, what CrdtRoom implements        *)
(* (ElementMap): a version and the members of its data.  Operations are    *)
(* updates: one with a higher version puts its members over those that     *)
(* are there, any other is dropped whole, and the first one to an element  *)
(* creates it, as its add would.  Left out are deletes, which have no      *)
(* version, and adds of an element that is there, which change nothing.    *)
(***************************************************************************)
EXTENDS Naturals, Sequences, FiniteSets

CONSTANTS
    Conn, User,
    UserOf,   \* the user of a connection
    Owner,    \* the user that owns the canvas
    Elem,
    Key, Val, \* members of an element's data, and their values
    Unset,    \* in data: not there; in an operation: not named
    Op,       \* operations: an element, a version and the members named
    OpsOf,    \* the operations a client may send, each as often as it likes
    Savers,   \* connections whose clients send save
    Texts,    \* what PUT /canvases/:id/data may store
    FirstText,
    SendCap,  \* capacity of Client.send, 256 in the code
    DbFails,  \* whether the database may fail to answer
    Rest,     \* whether the owner also uses the REST interface
    NoRow, NoRoom, Notice, NoOp, Behind

Props == [Key -> Val \cup {Unset}]
Register == [version : Nat, props : Props]
Documents == [Elem -> Register]

ASSUME SessionAssumption ==
    /\ UserOf \in [Conn -> User]
    /\ Op \subseteq [elem : Elem, version : Nat \ {0}, props : Props]
    /\ OpsOf \in [Conn -> SUBSET Op] /\ Savers \subseteq Conn
    /\ Texts \subseteq Documents /\ FirstText \in Documents
    /\ SendCap \in Nat \ {0}
    /\ DbFails \in BOOLEAN /\ Rest \in BOOLEAN
    /\ NoRow \notin Documents /\ Behind \notin Documents
    /\ NoRoom \notin [clients : SUBSET Conn, state : Documents]
    /\ Notice \notin Op /\ NoOp \notin Op

VARIABLES
    row,       \* canvases.data of the canvas, or no such row
    room,      \* Hub.rooms[canvas]: its clients and its CRDT state
    pc,        \* where each ReadPump is
    permission,
    doing,     \* the operation a pump handles
    snap,      \* the snapshot a pump is about to store
    send,      \* Client.send
    view,      \* the replica an editor keeps from what it was sent, until it
               \* starts behind the room or loses a relay
    acked,     \* the operations applied and acknowledged in the room's life
    asked,     \* the part of acked a pump's save was asked for
    promised   \* the part of acked that a save has stored

roomVars == <<row, room>>
pumpVars == <<pc, permission, doing, snap>>
peerVars == <<send, view>>
ghostVars == <<acked, asked, promised>>
vars == <<roomVars, pumpVars, peerVars, ghostVars>>

Permissions == {"readonly", "collaborate"}
Busy == {"apply", "relay", "ack", "stale",
         "snapshot", "check", "write", "saved", "tell"}

\* An element that is not there has version 0: every update counts.
Blank == [e \in Elem |-> [version |-> 0, props |-> [k \in Key |-> Unset]]]

Named(o) == {k \in Key : o.props[k] # Unset}

Accepts(d, o) == d[o.elem].version < o.version

\* An update that is accepted: its members over those that are there.
Written(d, o) ==
    [d EXCEPT ![o.elem] =
        [version |-> o.version,
         props   |-> [k \in Key |-> IF k \in Named(o) THEN o.props[k] ELSE @.props[k]]]]

\* A replica takes the updates that the room would, as API.md asks of
\* clients.
Taken(replica, o) ==
    IF replica = Behind \/ ~Accepts(replica, o) THEN replica ELSE Written(replica, o)

Init ==
    /\ row = FirstText
    /\ room = NoRoom
    /\ pc = [c \in Conn |-> "out"]
    /\ permission = [c \in Conn |-> "readonly"]
    /\ doing = [c \in Conn |-> NoOp]
    /\ snap = [c \in Conn |-> Blank]
    /\ send = [c \in Conn |-> <<>>]
    /\ view = [c \in Conn |-> Behind]
    /\ acked = {}
    /\ asked = [c \in Conn |-> {}]
    /\ promised = {}

Members == IF room = NoRoom THEN {} ELSE room.clients
Goto(c, label) == pc' = [pc EXCEPT ![c] = label]

\* The connections of c's user that are open, c aside.
OtherTabs(c) == {d \in Conn \ {c} : UserOf[d] = UserOf[c] /\ pc[d] # "out"}

\* Mutant: a full buffer grows.
QueueUnbounded(to, m) == send' = [c \in Conn |-> IF c \in to THEN Append(send[c], m) ELSE send[c]]

\* Mutant: sendJSON waits for a place in the buffer.
QueueWaits(to, m) ==
    /\ \A c \in to : Len(send[c]) < SendCap
    /\ send' = [c \in Conn |-> IF c \in to THEN Append(send[c], m) ELSE send[c]]

\* sendJSON: a full buffer drops the message, the sender goes on.
Queue(to, m) ==
    send' = [c \in Conn |-> IF c \in to /\ Len(send[c]) < SendCap
                            THEN Append(send[c], m) ELSE send[c]]

----------------------------------------------------------------------------
(* Joining and going *)

\* Mutant: a new room does not load the text.
LoadedNever(ok) == Blank

\* What addClient loads into a room it creates: the text, or nothing at all
\* if the row is not there or the database fails.
Loaded(ok) == IF ok /\ row # NoRow THEN row ELSE Blank

\* The access checker gave the user p: anybody, the owner too, may come with a
\* share token, which is checked without the row.  The room keys its clients
\* by user: another connection of the user is a member no longer, and goes on
\* all the same.  The client has read the text over REST, the joined answer
\* does not carry the room's state.
Join(c, p, ok) ==
    /\ pc[c] = "out"
    /\ ok \/ DbFails
    /\ room' = [clients |-> (Members \ OtherTabs(c)) \cup {c},
                state   |-> IF room = NoRoom THEN Loaded(ok) ELSE room.state]
    /\ permission' = [permission EXCEPT ![c] = p]
    /\ Goto(c, "idle")
    /\ view' = [view EXCEPT ![c] = IF p = "collaborate" /\ Loaded(TRUE) = room'.state
                                   THEN Loaded(TRUE) ELSE Behind]
    /\ Queue({c}, Notice)
    \* A room that starts blank over a text is not held to what was stored.
    /\ promised' = IF room = NoRoom /\ ~ok THEN {} ELSE promised
    /\ UNCHANGED <<row, doing, snap, acked, asked>>

\* The only connection of its user closed and the hub took the client out;
\* peers are told and an empty room is discarded with whatever it holds.
Exit(c) ==
    /\ pc[c] = "idle" /\ OtherTabs(c) = {}
    /\ room' = IF room.clients = {c} THEN NoRoom ELSE [room EXCEPT !.clients = @ \ {c}]
    /\ send' = [d \in Conn |-> IF d = c THEN <<>>
                               ELSE IF d \in Members /\ Len(send[d]) < SendCap
                               THEN Append(send[d], Notice) ELSE send[d]]
    /\ Goto(c, "out")
    /\ permission' = [permission EXCEPT ![c] = "readonly"]
    /\ view' = [view EXCEPT ![c] = Behind]
    /\ acked' = IF room.clients = {c} THEN {} ELSE acked
    /\ UNCHANGED <<row, doing, snap, asked, promised>>

\* The process ends, by a signal or a crash: main stores no room.
Restart ==
    /\ row' = row
    /\ room' = NoRoom
    /\ pc' = [c \in Conn |-> "out"]
    /\ permission' = [c \in Conn |-> "readonly"]
    /\ doing' = [c \in Conn |-> NoOp]
    /\ snap' = [c \in Conn |-> Blank]
    /\ send' = [c \in Conn |-> <<>>]
    /\ view' = [c \in Conn |-> Behind]
    /\ acked' = {}
    /\ asked' = [c \in Conn |-> {}]
    /\ UNCHANGED promised

----------------------------------------------------------------------------
(* An operation: looked up, applied under the room's lock, relayed, answered *)

\* op and save of a client that may only read are answered with an error; a
\* ping is answered with a pong.
Refuse(c) ==
    /\ pc[c] = "idle"
    /\ Queue({c}, Notice)
    /\ UNCHANGED <<roomVars, pumpVars, view, ghostVars>>

SendOp(c, o) ==
    /\ pc[c] = "idle" /\ permission[c] = "collaborate"
    /\ o \in OpsOf[c]
    /\ doing' = [doing EXCEPT ![c] = o]
    /\ view' = [view EXCEPT ![c] = Taken(@, o)]
    /\ Goto(c, "apply")
    /\ UNCHANGED <<roomVars, permission, snap, send, ghostVars>>

ApplyOp(c) ==
    /\ pc[c] = "apply"
    /\ IF Accepts(room.state, doing[c])
       THEN /\ room' = [room EXCEPT !.state = Written(@, doing[c])]
            /\ Goto(c, "relay")
       ELSE /\ room' = room
            /\ Goto(c, "stale")
    /\ UNCHANGED <<row, permission, doing, snap, peerVars, ghostVars>>

\* Mutant: an operation is relayed to those who may only read.
ReadersBut(c) == {d \in Members : UserOf[d] # UserOf[c] /\ permission[d] = "readonly"}

\* broadcastOpExcept: clients that may only read are not sent operations, nor
\* is the user they come from.
EditorsBut(c) == {d \in Members : UserOf[d] # UserOf[c] /\ permission[d] = "collaborate"}

\* Connections that a relay does not reach: the user's other tabs, those that
\* another tab replaced in the room, and those whose buffer is full.
Missing(c) ==
    {d \in Conn \ {c} : UserOf[d] = UserOf[c] \/ d \notin Members \/ Len(send[d]) = SendCap}

Relay(c) ==
    /\ pc[c] = "relay"
    /\ Queue(EditorsBut(c), doing[c])
    /\ view' = [d \in Conn |-> IF d \in Missing(c) THEN Behind ELSE view[d]]
    /\ Goto(c, "ack")
    /\ UNCHANGED <<roomVars, permission, doing, snap, ghostVars>>

\* An operation that was not applied is acknowledged like one that was.
Ack(c) ==
    /\ pc[c] \in {"ack", "stale"}
    /\ Queue({c}, Notice)
    /\ acked' = IF pc[c] = "ack" THEN acked \cup {doing[c]} ELSE acked
    /\ doing' = [doing EXCEPT ![c] = NoOp]
    /\ Goto(c, "idle")
    /\ UNCHANGED <<roomVars, permission, snap, view, asked, promised>>

\* Cursor and awareness go to all others and touch nothing else.
Cursor(c) ==
    /\ pc[c] = "idle"
    /\ Queue({d \in Members : UserOf[d] # UserOf[c]}, Notice)
    /\ UNCHANGED <<roomVars, pumpVars, view, ghostVars>>

\* WritePump hands a message to the client.
Deliver(c) ==
    /\ send[c] # <<>>
    /\ send' = [send EXCEPT ![c] = Tail(@)]
    /\ view' = IF Head(send[c]) = Notice THEN view
               ELSE [view EXCEPT ![c] = Taken(@, Head(send[c]))]
    /\ UNCHANGED <<roomVars, pumpVars, ghostVars>>

----------------------------------------------------------------------------
(* A save: looked up, copied under the room's lock, checked, stored, told *)

AskSave(c) ==
    /\ pc[c] = "idle" /\ permission[c] = "collaborate"
    /\ c \in Savers
    /\ asked' = [asked EXCEPT ![c] = acked]
    /\ Goto(c, "snapshot")
    /\ UNCHANGED <<roomVars, permission, doing, snap, peerVars, acked, promised>>

\* Mutant: what is stored is the copy of the client that asks.
SnapshotOfClient(c) ==
    /\ pc[c] = "snapshot"
    /\ snap' = [snap EXCEPT ![c] = IF view[c] = Behind THEN Blank ELSE view[c]]
    /\ Goto(c, "check")
    /\ UNCHANGED <<roomVars, permission, doing, peerVars, ghostVars>>

Snapshot(c) ==
    /\ pc[c] = "snapshot"
    /\ snap' = [snap EXCEPT ![c] = room.state]
    /\ Goto(c, "check")
    /\ UNCHANGED <<roomVars, permission, doing, peerVars, ghostVars>>

EndSave(c, m) ==
    /\ Queue({c}, m)
    /\ snap' = [snap EXCEPT ![c] = Blank]
    /\ asked' = [asked EXCEPT ![c] = {}]
    /\ Goto(c, "idle")

\* SaveData reads the row first: it must be there and belong to the user.
CheckOwner(c) ==
    /\ pc[c] = "check"
    /\ row # NoRow /\ UserOf[c] = Owner
    /\ Goto(c, "write")
    /\ UNCHANGED <<roomVars, permission, doing, snap, peerVars, ghostVars>>

SaveFails(c) ==
    /\ \/ pc[c] = "check" /\ (row = NoRow \/ UserOf[c] # Owner)
       \/ pc[c] \in {"check", "write"} /\ DbFails
    /\ EndSave(c, Notice)
    /\ UNCHANGED <<roomVars, permission, doing, view, acked, promised>>

\* Another connection of the owner holds a snapshot that it may write later.
OlderCopy(c) ==
    \E d \in Conn \ {c} : UserOf[d] = Owner /\ pc[d] \in {"check", "write"}

\* UPDATE touches no row if the canvas was deleted since, and no error says
\* so: the client is told that its canvas is saved.  Nor does it last if
\* another tab of the owner writes an older snapshot over it.
UpdateData(c) ==
    /\ pc[c] = "write"
    /\ row' = IF row = NoRow THEN NoRow ELSE snap[c]
    /\ promised' = IF row = NoRow \/ OlderCopy(c) THEN promised ELSE promised \cup asked[c]
    /\ Goto(c, "saved")
    /\ UNCHANGED <<room, permission, doing, snap, peerVars, acked, asked>>

Saved(c) ==
    /\ pc[c] = "saved"
    /\ Queue({c}, Notice)
    /\ Goto(c, "tell")
    /\ UNCHANGED <<roomVars, permission, doing, snap, view, ghostVars>>

\* broadcastToAll: the client that asked is told a second time.
TellSaved(c) ==
    /\ pc[c] = "tell"
    /\ Queue(Members, Notice)
    /\ snap' = [snap EXCEPT ![c] = Blank]
    /\ asked' = [asked EXCEPT ![c] = {}]
    /\ Goto(c, "idle")
    /\ UNCHANGED <<roomVars, permission, doing, view, acked, promised>>

----------------------------------------------------------------------------
(* REST, by the owner: what was stored before is given up *)

PutData(t) ==
    /\ Rest /\ row # NoRow
    /\ row' = t
    /\ promised' = {}
    /\ UNCHANGED <<room, pumpVars, peerVars, acked, asked>>

DeleteCanvas ==
    /\ Rest /\ row # NoRow
    /\ row' = NoRow
    /\ promised' = {}
    /\ UNCHANGED <<room, pumpVars, peerVars, acked, asked>>

----------------------------------------------------------------------------

Handler(c) ==
    \/ ApplyOp(c) \/ Relay(c) \/ Ack(c)
    \/ Snapshot(c) \/ CheckOwner(c) \/ SaveFails(c) \/ UpdateData(c) \/ Saved(c) \/ TellSaved(c)

Client(c) ==
    \/ \E p \in Permissions, ok \in BOOLEAN : Join(c, p, ok)
    \/ Exit(c) \/ Refuse(c) \/ Cursor(c) \/ AskSave(c)
    \/ \E o \in Op : SendOp(c, o)

Next ==
    \/ \E c \in Conn : Client(c) \/ Handler(c) \/ Deliver(c)
    \/ Restart
    \/ \E t \in Texts : PutData(t)
    \/ DeleteCanvas

\* Handlers run to their end; no client is fair, neither in what it sends nor
\* in reading what it is sent.
Spec == Init /\ [][Next]_vars /\ \A c \in Conn : WF_vars(Handler(c))

----------------------------------------------------------------------------
(* Properties *)

\* The row, the room, the pumps and the buffers keep their types.
SessionTypeOK ==
    /\ row \in Documents \cup {NoRow}
    /\ \/ room = NoRoom
       \/ room \in [clients : SUBSET Conn, state : Documents] /\ room.clients # {}
    /\ pc \in [Conn -> Busy \cup {"out", "idle"}]
    /\ permission \in [Conn -> Permissions]
    /\ doing \in [Conn -> Op \cup {NoOp}]
    /\ snap \in [Conn -> Documents]
    /\ send \in [Conn -> Seq(Op \cup {Notice})]
    /\ \A c \in Conn : Len(send[c]) <= SendCap
    /\ view \in [Conn -> Documents \cup {Behind}]
    /\ {acked, promised} \subseteq SUBSET Op
    /\ asked \in [Conn -> SUBSET Op]
    /\ Members \subseteq {c \in Conn : pc[c] # "out"}
    /\ \A c \in Conn : pc[c] # "out" => \E d \in Members : UserOf[d] = UserOf[c]

Quiet == \A c \in Conn : pc[c] \in {"out", "idle"} /\ send[c] = <<>>

\* The clients' side of the bargain, as in CrdtOrders: the updates of an
\* element have a version each and name all the members.
Disciplined(e) ==
    \A o, x \in Op : o.elem = e /\ x.elem = e =>
        /\ Named(o) = Key
        /\ o.version = x.version => o = x

\* Relays leave after the room's lock is released, so peers may receive two
\* updates in the other order; still, once all is quiet, an editor that
\* started level with the room and lost no relay has every element at the
\* room's version, and with the room's data if its writers are disciplined.
Converged ==
    Quiet => \A c \in Conn : view[c] # Behind =>
        \A e \in Elem :
            /\ view[c][e].version = room.state[e].version
            /\ Disciplined(e) => view[c][e] = room.state[e]

\* A document holds an operation if each member it named has the value it
\* gave or that of an operation with a higher version.
Holds(d, o) ==
    /\ o.version <= d[o.elem].version
    /\ \A k \in Named(o) : \E x \in Op :
          /\ x.elem = o.elem /\ (x = o \/ o.version < x.version)
          /\ k \in Named(x) /\ x.props[k] = d[o.elem].props[k]

Covers(d, S) == \A o \in S : Holds(d, o)

\* What was applied and acknowledged is in the room as long as the room
\* lives, and from the moment a save that was asked for later is stored it is
\* in the text, through failed saves, other saves, restarts and rooms
\* reloaded from it, until REST replaces the text or a room starts blank over
\* it; except a save stored while another tab of the owner held a snapshot.
AckedIsKept ==
    /\ room # NoRoom => Covers(room.state, acked)
    /\ row # NoRow => Covers(row, promised)

\* A room that is reloaded holds what the last stored save promised: nothing
\* acknowledged and stored is missing from the room of a later session.
RoomHoldsStored == room # NoRoom => Covers(room.state, promised)

\* A handler never waits for anybody, also while no peer reads what it is
\* sent: its next step can always be taken, so it returns to read the next
\* message.
PumpsNeverWait == \A c \in Conn : pc[c] \in Busy => ENABLED Handler(c)

----------------------------------------------------------------------------
(* What the documents say *)

\* "`saved` ... State persisted" (README.md:143): from the moment a save is
\* stored until all are told, the text holds what was acknowledged when it
\* was asked for.
ToldIsStored ==
    \A c \in Conn : pc[c] \in {"saved", "tell"} => row # NoRow /\ Covers(row, asked[c])
=============================================================================
