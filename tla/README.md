# TLA+ models and proofs of modraw-server

modraw-server is the back end of a collaborative drawing board: a REST API over
PostgreSQL for accounts, folders, canvases, libraries, collaborators and share
links, and a WebSocket endpoint on which the editors of a canvas exchange
operations. The server keeps the state of every canvas that is being edited in
memory, as a CRDT, and writes it to `canvases.data` when a client says `save`.

This directory holds models of it, the TLC configurations that check them, and
proofs that TLAPS checks. Paths below are relative to `src/`.

## 1. Inventory

| Component | Code | State | Operations | Modelled in |
|---|---|---|---|---|
| CRDT engine | `internal/crdt/crdt.go` | `CanvasState`: elements, props, version | Apply (add, update, delete, reorder, canvas update), ParseState, Serialize | `CrdtState`, `CrdtRoom`, `CrdtOrders` |
| Hub and rooms | `internal/ws/hub.go` | `rooms`, two channels of 256; per room `clients` and `crdtState` | Run, addClient, removeClient, broadcasts, ApplyOp, Snapshot | `Hub`, `Session` |
| Clients | `internal/ws/client.go`, `handler.go` | `canvasID`, `permission`, `send` (256), timers | ReadPump: join, leave, op, cursor, awareness, save, ping, close; WritePump | `Hub`, `Session`, `Heartbeat` |
| Persistence of a canvas | `service/canvas_service.go`, `repository/canvas_repo.go`, save handler of `main.go` | row of `canvases` | Create, Update, SaveData, Move, Delete | `CrdtRoom`, `Session`, `Rows` |
| Access checker | `cmd/server/main.go:186` | none (share token, `canvases`, `canvas_collaborators`) | one question per join, in up to two reads | `Sharing`, answers in `Hub` |
| Collaborators, share links | `service/collaborator_service.go`, `share_link_service.go` | their tables, share tokens in the hands of visitors | CRUD, Validate | `Sharing` |
| Accounts, refresh tokens | `service/auth_service.go`, `repository/user_repo.go`, `pkg/jwt` | `users`, `refresh_tokens` | Register, Login, Refresh, Logout, UpdateMe, ChangePassword | `Accounts`, `Rows` |
| Folders | `service/folder_service.go` | `folders.parent_id` | Create, Update, Move, Delete, tree | `Folders`, `Rows` |
| Libraries | `service/library_service.go` | `libraries` | Create, Update, Delete | `Rows` |
| Migrations | `database/postgres.go` | `schema_migrations` | RunMigrations, at every start of a server | `Migrations` |
| Configuration, CORS, recovery, responses, row types | `internal/config`, `middleware`, `pkg/httputil`, `internal/model` | none | | not modelled |

How they interact. REST handlers share nothing but the database, and open no
transaction: each statement is atomic, a handler is not. ReadPump (one goroutine
per connection) talks to the hub's goroutine over two channels and to the rooms
under locks; the hub calls the state loader, ReadPump the access checker and the
save handler, all of which go to the database. A peer is reached by putting a
message in its `send` buffer, which its WritePump empties.

What is hard:

* **Concurrency.** A `Client` belongs to two goroutines: the pump writes
  `canvasID` and `permission` with no lock while the hub reads them, at every use
  again. Room pointers outlive the lock they were read under. Register and
  unregister are two channels, so their order is lost.
* **Failure.** A load that fails leaves a blank room; a shutdown saves nothing;
  messages to a client whose buffer is full are dropped; a refresh may fail after
  it revoked the token.
* **Ordering.** Operations of several clients reach a room in any order, are sent
  again after a lost ack, and are relayed after the lock is released. A save is
  written after its snapshot.
* **Check then act** on the database: folder moves, token refreshes, row updates,
  joins against changes of access, migrations.
* **Timing.** A read deadline of 60 s that only pongs move, against pings every
  54 s.

What makes each component correct:

* CRDT engine: ids are unique; an update changes an element only with a higher
  version; the newest write wins in every order, if clients are disciplined; a
  restart is invisible.
* Hub: a room exists exactly while it has members, every member is in the one
  room its canvas names, a room holds the data of its canvas, nobody blocks for
  ever, who closes leaves.
* A session: peers that lost nothing agree with the room; what was applied,
  acknowledged and then saved is in the text and in every later room; a handler
  waits for nobody.
* Access: a permission given was right at some moment of the join; what a link
  gave ends.
* Accounts: a refresh token buys one successor; a logout ends its session.
* Folders: a forest, all of it shown. Rows: no edit is lost but to a request that
  leaves its column out.
* Migrations: each applied once and in order. Keep-alive: the living stay, the
  dead go.

`PROJECT.json` lists the hazards one by one, with the line where each bites.

## 2. Modules

| Module | Stands for |
|---|---|
| `CrdtState` | `crdt.go`: raw JSON by kind and members, documents, every operation as an operator |
| `ElementMap` | abstract specification: a map of versioned registers, saved and restored as a whole |
| `CrdtRoom` | one canvas over time: room state and `canvases.data`; operations, saves, REST writes, reloads |
| `CrdtOrders` | one set of operations applied in every order, with repeats and restarts |
| `Hub` | `hub.go` and the join, leave, close and lookup paths of `client.go`, step by step |
| `Session` | what the members of one room do: op, relay, ack, cursor, save, send buffers, and REST on the same row |
| `Heartbeat` | pings, pongs and the read deadline of one connection |
| `Rest` | users, requests and failures that the REST modules share |
| `Folders` | the folder tree, with moves that walk it statement by statement |
| `Accounts` | register, login, refresh, logout against `refresh_tokens` |
| `Rows` | every endpoint that reads one row and writes it back |
| `Sharing` | collaborators, share links, share tokens and the access checker |
| `Migrations` | servers that start, migrate and die against one database |
| `MCCrdtRoom`, `MCCrdtOrders`, `MCHub`, `MCSession`, `MCSessionSave`, `MCFolders`, `MCServer` | instances for TLC; `MCServer` holds the six parts that share only the database, and `MCCrdtOrders` as a seventh |
| `CrdtStateProofs`, `CrdtRoomProofs`, `CrdtOrdersProofs`, `HubProofs`, `SessionProofs`, `AccountsProofs`, `FoldersProofs` | proofs about the module of that name |
| `ServerProofs` | proofs about `Rows`, `Sharing`, `Migrations` and `Heartbeat` |

Operators named in a comment "Mutant: ..." are not part of a model. Each is a
plausible bug in the definition that follows it; with it in place of that
definition the run of a property must fail, which shows the property can.

Variables that are not in the code are called ghosts below. They remember what a
property compares with and no action of the code reads them.

### CrdtState, CrdtRoom, CrdtOrders

`json.RawMessage` is a record: nil, the text `null`, an object with members, or
anything else. These four are what `mergeJSON` tells apart. An operation returns
what `Apply` returns and the new state. `applyElementsReorder`, two loops over a
Go map, is given in closed form (which elements are kept, `Kept`; where each
goes, `Slot`) and, as recursive functions, in the loops of the code (`ReorderLoop`);
a run compares the two and a theorem says that they agree on every document.

A room applies one operation at a time under its lock, so an operation is one
step. `Reopen` is the last client leaving, or the server restarting, and the next
join loading the text; `ReopenBlank` is the same with a database that does not
answer; `PutData` is `PUT /canvases/:id/data`.

`ImplementsElementMap` maps the sequence of elements to a function from ids to
(version, data). Every accepted add or update is a `Create` or a `Raise`, a
delete is a `Drop`, a reorder or a canvas update is a stutter.

### Hub

Every shared access is a step of its own. A pump is at a label (`pc`): a join is
SendUnregister (if it was in a room), Allow or Deny, Assign, Settle,
SendRegister. The hub is at a label too (`hub.step`): lookup, load, publish, add
for a join; find, remove, discard for a leave. The load and the publish are under
the write lock of the hub, so no pump looks up a room meanwhile.

`canvasID` is a Go string, two words written one after the other with no lock.
Between Assign and Settle it is `Torn` if one of the two values is empty; a hub
that reads it then may follow a nil pointer, `HubCrash`, or read later; this may
happen at every one of its reads, those for its messages included.
Rooms are identified by their address; an address is reused only when nothing
refers to the room (`Collect`), as the garbage collector does.

`grant` is a ghost: the checker's last answer, for `GrantConsistent`.

Clients come in three kinds: all may drop at any time; those in `Moving` may join
again and leave; those in `Impatient` may write before the answer to their join.
The runs with properties of membership say which kinds they need, and the two
violation runs show why.

### Session

The canvas of `Hub` from the inside. `Hub` shows that clients that wait for the
answer to their join are members from the join to the close; for those a join and
an exit are one step here. A user may have several connections. The room knows the
one that joined last, so the other tabs go on without being sent anything
(`Missing`); what happens to the room when one of several closes is `Hub`'s
subject, and such a user stays here until the process ends.

The document is a register per element, as `ElementMap` says a room implements: a
version and the members of its data. An operation is an update. If its version is
higher its members are put over those that are there, and any other member stays
(`Written`); otherwise it is dropped whole (`Accepts`) and acknowledged like one that
was applied, without a relay (the pump's label `stale`). The first update of an
element creates it, as its add would. Deletes have no version and are left out.

What is step by step is what other goroutines can see half of: an op is looked up,
applied under the lock, relayed, acknowledged; a save is a snapshot, the read of
the row, the write, two answers. `Queue` is `sendJSON`: a full buffer drops the
message. `Restart` is the end of the process, by signal or crash: `main` saves no
room.

Ghosts: `view`, the replica of an editor that takes what it is sent as a room would,
which is what `API.md` asks of clients, until it starts behind the room or a relay
to it is dropped; `acked`, `asked` and `promised`, the operations applied and
acknowledged, those of them a save under way was asked for, and those a stored save
held. A save promises nothing while another tab of the owner has a snapshot it may
write later (`OlderCopy`).

### Heartbeat

Time runs in units and stops where something must happen first: a tick that fires,
the deadline, or a ping at the bound of how late it may be. A ping is as late as the
time from its tick to the reading of its pong, in which a write before it (10 s at
most, `writeWait`), the network, the peer and the messages that ReadPump handles
first have their part; `MaxLate` bounds all of it together. The code guarantees
nothing about that sum but that the period is below the deadline, so no more is
assumed: peers that answer are dropped in the run, and `LiveIsKept` says when.

### Folders, Accounts, Rows, Sharing, Migrations

Each statement is a step, each handler a sequence of them, and several requests
are in flight. A handler that only reads is not a step.

* `Folders`: a move checks the owner, walks the children depth first (one
  statement per folder, in any order of the rows), compares, writes. A delete
  takes all below. Ghosts: `stale` (requests during which another move was
  written) and `torn` (such a request wrote).
* `Accounts`: a refresh is check, revoke, read the user, mint, insert. A token is
  named by the nanosecond it is minted in (`MintToken`), its row is inserted some time
  later with an expiry taken from the clock anew (`IssueToken`), and no index makes
  the name unique; revoke and check go by the name. So a row may be inserted under a
  name that was revoked already. Ghosts: `from`, `overlap`, `ended`.
* `Rows`: seven endpoints as records of what they write and what becomes of a column
  that the request leaves out: written back from the row that was read ("kept":
  libraries, folders, profiles), written over with the empty string or NULL
  ("blank": name and folder of a canvas, `canvas_service.go:60`), or "refused". The
  value of a column is the number of the request that set it, or blank. Ghosts:
  `last`, `undone`, `missed`.
* `Sharing`: the owner's writes against the reads of joins and validations. The
  owner of a canvas never changes and ids are not used again, so the check before
  an owner's write decides nothing and the write alone is the step. Ghosts: `due` of
  a join, which is what the tables (owner, collaborators) and the links behind the
  tokens shown gave its user at its start, and what the tables gave at each change
  of them since, written by `StartJoin` and by the owner's actions (`Noting`) and
  never by the answer; `took`, `gone`, and `link` of a token.
* `Migrations`: check, execute, record, commit per file; the insert of a version
  waits for another server's transaction that holds it, a server dies anywhere. The
  statements of a file are a counter of their effects.

## 3. Runs

| Run | Bounds | Shows |
|---|---|---|
| `crdt_room` | 3 ids, versions 1..2, three kinds of props, reorder lists of up to 2, two accepted operations in the history of a text | type, `UniqueIds`, `RestartTransparent`, `ReorderAsLoop`, refinement of `ElementMap` |
| `crdt_commute` | 2 updates, 2 members | violation: operations do not commute |
| `hub_once` | 3 connections of 2 users (one with two tabs), 2 canvases, channels of 1, nobody moves | type, rooms and memberships agree |
| `hub_live` | the same with 1 canvas | progress of pumps, closed clients leave |
| `hub_moving` | 2 connections, 2 canvases, one moves and waits for answers | `GrantConsistent`, `RoomHoldsItsCanvas` |
| `hub_mixed` | 1 connection that moves and does not wait | violation: a room with another canvas's data |
| `hub_leave` | 1 connection that leaves | violation: it stays a member |
| `session` | 3 connections (owner and two others), 1 element with 1 member, versions 1 and 2 with different values, sent by different clients as often as they like, buffers of 1, failing database, restarts, REST; the owner saves | type, `Converged`, `AckedIsKept`, `RoomHoldsStored`, `PumpsNeverWait` |
| `session_save` | the same, the collaborator saves too, nothing fails | violation: a save that persists nothing |
| `session_tabs` | the owner has two tabs that both save, one other user, nothing fails | violation: told "saved", not in the row |
| `server` | seven parts, see below | 19 invariants, 3 temporal properties |
| `folders_cycle` | 3 folders, 2 moves at once | violation: a cycle |

Why the bounds are enough. `crdt_room`: every loop of `crdt.go` stops at the
first match, so three elements give a match before, at and after the one an
operation names; lists of two ids cover absent, repeated and reversed ids. A
document starts with three elements, so two operations reach delete-then-update,
update-then-stale-update and reorder-after-delete, and saves, loads and REST
writes are unbounded. What depends on length is proved (section 5). `MaxVersion`
stops only operations. Ids are symmetric: the documents hold them in every order.
Hub: a
channel of one place fills at once, so every blocking send happens; the third
connection makes a last member leave while another joins; the number of room
addresses is one more than can be held, so `AddLoad` never lacks one. Rooms and
canvases are symmetric in the runs that check invariants only.

`session`: a buffer of one place drops a relay, an ack and an answer in a few
steps. Two writers and a third peer give the two relays that cross; two versions
of one element are enough to cross, and their values tell which of them a document
holds. Only the owner saves, since the save of anyone else ends at the owner check
(`SaveFails`); the proofs are for any savers, any members and several tabs. Nothing
else is bounded: the run has no limit on joins, operations or saves.

`server`: a behaviour exercises one part, chosen at the start, while the others
stay in their initial states, so the run is the sum of seven instances and not
their product (the parts share no state). Folders: three folders of two users,
two requests, two moves: the least in which two moves can close a cycle, with a
third folder to walk. Accounts: one account, two requests, three tokens, a clock
of 0..2 with a life of 1, so tokens expire, share a nanosecond, are inserted after
the revocation of a twin and are refreshed twice. Rows: two requests, three edits,
one row of any table. Sharing: one canvas, two users, one link, one join or
validation at a time against all the owner's changes, days 0..2; joins read nothing
that another join writes. Migrations: two servers with two and three files and four
starts, so each can die and start again. Heartbeat: period 5, deadline 7, pings up
to 6 late: the slack is 2, so pings arrive in time, at the edge and too late, and
two may be outstanding together. Orders: writes of different elements commute by
`ImplementsElementMap`, so up to three writes of one busy element are the case, in
every order, with a repeat and restarts anywhere; one write of another shows that
they do not disturb.

Deadlock is not checked in `server` and `folders_cycle`: bounded moves, tokens,
days and edits run out, and a connection that has closed is done.

Scope of the properties. `JoinedIsMember` and `ClosedLeaves` are about clients
that wait for the answer to their join and whose user has no second connection.
Both conditions are needed: an impatient client that drops can be unregistered
before it is registered (the two channels), and the second tab of a user takes
the place of the first in `Room.clients`. `RoomHoldsItsCanvas` admits a blank
room, since a failed load leaves one. `RestartTransparent` is about props that are
objects or missing: a scalar patch replaces nil but not the `null` that nil is
saved as.

`NewestWriteWins` needs disciplined clients, with one version per write, the add
first, and all members in each: without the last, `crdt_commute` fails. For the same
reason `Converged` says two things of an editor whose replica started level with the
room and lost no relay: that it has the room's version of every element, whatever
the clients write, and the room's data of the elements whose writers are
disciplined (`Disciplined`: one operation per version, every member named). Of two
crossing updates that name different members, the editor whose own update has the
lower version keeps its member and the room never has it. Nothing tells an editor
that it is behind, because `joined` carries no room state.

`AckedIsKept` is about operations that were applied: an acknowledged one that lost
to a higher version is in no document. A document holds an operation if each member
it named has its value or that of a higher version. The property gives up what was
promised when REST replaces the text or a failed load starts a blank room over it,
since either loses it, and never promises a save stored while another tab of the
owner has a snapshot; `session_tabs` shows why.

`CycleNeedsOverlap` and `OneSuccessor` say exactly which overlap is needed for the
harm, and `LostOnlyIfOmitted` which request, which is the strongest that holds.
`OneSuccessor` and `LogoutEnds` exempt a token with a twin, another of the same user
and nanosecond: its check may read the twin's row, which may be inserted after the
revocation of both. Without the exemption the run finds `LogoutEnds` violated, and
with a fourth token `OneSuccessor` (two twins and two successors); with it
`OneSuccessor` passes for four tokens too, and is proved for any number.
`LiveIsKept` is what 54 s and 60 s are worth: a peer that answers is dropped only if
a ping of its is late by the 6 s between them, or more.
`PumpsNeverWait` is stated with ENABLED, as an invariant: at every step a handler has
a next one. That it then returns is the fairness of goroutines and no more.

Fairness. `hub_live`: weak fairness of each pump's own steps and of the hub:
goroutines that can run do run. Strong fairness of the two receives of
`Hub.Run`: Go's `select` picks among ready cases at random, so neither channel is
passed over for ever. Clients owe nothing: no fairness for join, leave or drop.
A load ends, with data or an error. `session` checks invariants only; its
specification has weak fairness of the handlers, which run to their end once a
message is read, and none of clients or of the delivery of messages. `server`: weak
fairness of the statements of a move, and of the steps of a server that is migrating;
requests and crashes are not fair.

## 4. Findings

* `crdt_commute`: `API.md:1055` says operations are commutative. An update with a
  lower version is dropped whole, so updates of different members give different
  elements in the two orders.
* `hub_mixed`: a second join sent before the first is answered changes `canvasID`
  between the hub's load and its publish (`hub.go:50`, `hub.go:61`): the room of
  one canvas holds the data of another (`API.md:1143`), and a save would write it.
* `hub_leave`: `handleLeave` clears `canvasID` after queueing the client and the
  hub looks the room up later, so the client stays a member (`README.md:126`) and
  the room is never discarded.
* `session_save`: the save of a collaborator is refused by the owner check of
  `SaveData` (`canvas_service.go:73`), so a room that the owner is not in cannot
  be saved, and is discarded when it empties (`API.md:1143`).
* `session_tabs`: a save copies the room and writes the copy later, and nothing orders
  two of them. An owner with two tabs is told "saved" (`README.md:143`, "State
  persisted") while the row has the older snapshot of the other tab (`client.go:292`).
* `folders_cycle`: two overlapping moves each find no circle and close one
  (`folder_service.go:59`, `API.md:301`); the folders vanish from the tree.

Seen while modelling, with no run of its own: a client that may only read is sent
no operations, which `API.md:961` promises; `GET` of a canvas is the owner's only,
against `API.md:394`; deleting a folder deletes what is below, against
`API.md:293`; overlapping updates of a library write back omitted fields, against
`API.md:774` (`LostOnlyIfOmitted` says when); moving to the root with an empty id
fails in the database; a canvas update without a name sets an empty one and one
without a folder takes the canvas out of its folder, against `API.md:420`; a share
token still admits to the room of a deleted canvas, which is then blank.

## 5. Proofs

All proofs are for any values of the constants that meet the named assumptions of
the modules. They ask that constants meant to be distinct are, that capacities
and periods are positive, and nothing about how many connections, users, requests,
servers or elements there are. Beyond that `DocumentsAssumption` asks that the
texts REST stores be well typed with distinct ids (the server checks neither), and
`HeartbeatAssumption` that the period is below the deadline.

* `CrdtRoomProofs!TypeCorrect`, `IdsStayUnique`. The inductive invariant says the
  room, and the stored text, are *good* (well formed, ids distinct). The two halves
  need each other: an operation keeps ids distinct because it searches a well-formed
  sequence, and a reorder is well formed because the elements it picks exist.
  `CrdtStateProofs` has one lemma per operation. The interesting one is
  `ReorderedProperties`: slots are injective on kept elements (`SlotInjective`; here
  the choice of the last element of an id matters), so ranks are (`RankMonotonic`),
  so by counting every place of the result is the rank of exactly one element
  (`RankBijective`). `MinIsLeast` comes from well-foundedness of finite subsets.
* `CrdtRoomProofs!RoomImplementsMap`: every behaviour of `CrdtRoom` is one of
  `ElementMap`. With distinct ids every element is the register of its id
  (`RegisterOfElement`), so an append creates, a write raises, a cut drops
  (`AppendCreates`, `WriteRaises`, `CutDrops`), and a reorder, which then keeps every
  element, changes no register (`ReorderPermutes`). The rest is `StepImplements`, one
  step of the proof per action.
* `CrdtRoomProofs!RestartsAreInvisible`. A state and the one loaded from its text
  differ in nil against null (`SameText`); every operation answers both alike and
  leaves them with the same text (`AddSame` to `PropsSame`). A reorder sees ids only
  (`ReorderSame`), and a merge with an object, or nothing, cannot tell nil from null
  in the text (`MergeSame`).
* `CrdtStateProofs!ReorderIsLoop`, `CrdtRoomProofs!ReordersAsLoops`: the closed form of
  a reorder is what the two loops build, for every document, also with repeated ids,
  and every list. The induction over the turns of a loop is one over sets of numbers
  (`EveryTurn`), and `LoopExists`, `LoopsAgree` say that a recursive function is what its
  equations say. The invariant of a turn is that the result so far is the kept elements
  whose slots have passed, in the order of their slots (`Sorted`, `Picked`); at the end
  that is all of them, and there is one such sequence (`SortedIsReordered`).
* `CrdtStateProofs!RepeatsAreRejected` (`API.md:1130`): an add or an update leaves an
  element of at least its version behind, a delete none (`UpdateIsKnown`, `DeleteIsGone`),
  so the same operation again is rejected. A reorder and a canvas update have no such
  check and are applied each time.
* `CrdtOrdersProofs!NewestWins`, `DisciplinedCommute`. The invariant speaks of each
  element alone: it is one of the writes the room applied that none exceeds in version
  (`Wins`), and it is there exactly if something wrote it (`Holds`). Disciplined
  writes of one element have distinct versions and name all members, so that write is
  one and leaves nothing of the older ones. What an element is then depends on the set
  of applied writes only, and so commutativity (`API.md:1055`) holds for them.
* `HubProofs!TypeCorrect`, `GrantsConsistent`. `TypeOK` is not inductive: a pump
  indexes the rooms with its own `canvasID`, which must not be torn, and the hub
  works for a client and on a room that must exist (`HubBusy`). `GrantConsistent`
  is not either: `PumpInv` adds what a join carries from the answer of the checker
  to its two assignments.
* `HubProofs!RoomsHoldTheirCanvas`, if the clients that move wait for their answers
  (`Moving \cap Impatient = {}`; `hub_mixed` shows what happens otherwise). A client in
  the channel, or at which the hub is, keeps its `canvasID` (`Coming`), so the key
  under which the hub publishes a room is the key it loaded it for (`Fresh`), and what
  is published is not collected.
* `HubProofs!MembersStayTogether`, `JoinedStay`, if connections join once
  (`Moving = {}`; `hub_leave` shows what happens otherwise). A connection that has a
  canvas keeps it (`Home`), so the hub removes it from where it added it, reads no torn
  key, and works on the room of its client's canvas between any two of its steps
  (`AtWork`). Rooms of different canvases differ (`Distinct`), so a step on one
  disturbs no member of another (`Tenant`), and only the room at work may be empty
  (`Occupied`). A patient client that was answered is a member: it was added before it
  was answered, and nothing but its own close takes it out (`Joined`).
* `SessionProofs!SessionTypeCorrect`, `AckedStays`, `StoredIsReloaded`. A document that
  takes an operation holds it, and goes on to hold what it held, since a member that
  is overwritten is so by a higher version (`WrittenHolds`). A save takes three steps,
  so the invariant follows the operation through them (`Carried`): it is in the room
  when it is acknowledged, the snapshot has what the save was asked for, and a snapshot
  of the owner has all that is promised, since nothing is promised while another tab
  of the owner has one. `Kept` ties room, text and promises together across the life
  of rooms.
* `SessionProofs!EditorsConverge`. What the replica of a level editor lacks of an
  element's version is in its buffer or about to be relayed to it (`Reached`), and it
  is ahead of the room only by its own operation that is not applied yet (`NotAhead`);
  when all is quiet both are empty, so the versions are equal. Of an element with
  disciplined writers, replica and room are `Alike` at all times: with equal versions
  they have equal data, and the one that is ahead has it whole from an operation. A
  document that takes an operation stays alike to the other (`WrittenAlike`), because
  the same version is the same operation and leaves nothing of what was there.
* `SessionProofs!SavedIsStored`, `OwnersSavesPersist`, the other side of `session_save` and
  `session_tabs`, for an owner with one connection (`OneOwner`). A save that has written
  its row has added what it was asked for to `promised` (`Told`), and nothing but REST, or
  a blank room, which needs that no pump is in one, takes from it. So "saved" is true
  when it is told if REST is not used; and if only the owner saves and the database
  answers, every save gets there.
* `AccountsProofs!AccountsTypeCorrect`, `RefreshRotates`, `LogoutsEndSessions`. The check
  of a token without a twin reads its own row. A token that was exchanged is revoked
  (`ParentRevoked`), and so is one whose session a logout ended (`EndedRevoked`), for
  good, since a row is never made good again. Outside `overlap` one request at most is
  past the check with a token, which then has no successor yet (`OneHolder`).
* `FoldersProofs!FoldersTypeCorrect`, `CyclesNeedOverlap`, `RefusalsAreRight`,
  `TreesAreWhole`. What is below a folder is the least set closed under children
  (`BelowIsLeast`). For a walk that no move overtook, what it found is below its folder
  (`FoundBelow`), and what is below is found already or below a folder it still has to
  visit (`WillFind`), whatever is created and deleted meanwhile; so at its write the
  target is not below, and the forest stays one (`CreateKeepsForest`,
  `DeleteKeepsForest`, `MoveKeepsForest`). In a forest every set of folders has one
  whose parent is outside (`ParentsEnd`, by well-foundedness of finite sets), so none
  can be missing from the tree. `MovesAloneAreSafe`: with one move in flight at a time
  the overlap that `folders_cycle` needs cannot be.
* `ServerProofs!RowsTypeCorrect`, `EditsAreKept`. Of the row that an edit in flight has
  in memory, each column is what the last edit that named it wrote, unless it was made
  blank, or one was written since, or the column was undone before (`CopyIsLast`). An
  edit of a canvas writes back blanks only, and none over the data (`InFlight`).
* `ServerProofs!SharingTypeCorrect`, `GrantsAreJustified`, `LinksEnd`. A visitor
  that has read a link read it before it went or expired (`ReadInTime`), and a token
  takes over from there (`FromLink`). A join under way is due all that the tables give
  its user now (`AskedInTime`), so what the checker reads next is among it; a token
  that it shows says what its link did.
* `ServerProofs!MigrationsTypeCorrect`, `MigrationsApplyOnce`,
  `MigrationsApplyInOrder`, `ServersAreMigrated`. The files below the one a server is
  at are applied (`Place`), and of the servers that have recorded a version in an open
  transaction there is one, by the primary key (`Holder`).
* `ServerProofs!HeartbeatTypeCorrect`, `LivePeersAreKept`, `DeadPeersAreDropped`.
  Since the deadline was last moved, less than a period has gone by, or a ping is
  outstanding that is as late as the time since, but for a period (`Supplied`); when the
  deadline is reached that is a ping late by deadline minus period. For a peer that is
  gone, the time it has been silent and the time left add up to the bound (`Counted`).

Only model-checked: what needs fairness or ENABLED (`PumpsProgress`, `ClosedLeaves`,
`MoveEnds`, `StartEnds`; `PumpsNeverWait`). Every other invariant and action property
that a passing run checks is also proved.

## 6. What is left

Worth proving next: that membership as `Session` takes it, one step for a join and one
for an exit, is what `Hub` does step by step, beyond `JoinedStay`; and that the registers
of `Session` are those of `ElementMap`. For more runs: deletes in `Session`, and closing
one of several connections of a user there.

Not modelled, and why:

* Configuration, CORS, recovery, JSON responses, row types: no state.
* Endpoints that only read (List, Get, search, pagination), except the tree of
  folders, which shows a property of what was written.
* Access tokens: stateless, checked by signature and expiry alone. Passwords,
  hashes and signatures: right or refused.
* The upgrade of the HTTP connection, messages that do not parse, and a write to a
  socket that fails, which ends like a close.
* Deletes in `Session` (an update that overtakes one brings the element back; a
  delete has no version to compare), the closing of one of a user's connections in
  `Session` (`Hub` has it), and the rare harm of `canvasID` torn there.
* What the SQL of a migration does, beyond whether it took effect.
