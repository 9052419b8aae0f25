------------------------------- MODULE Folders -------------------------------
(***************************************************************************)
(* The folders of the users: service/folder_service.go with its repository *)
(* and handler, and the foreign key of folders.parent_id (ON DELETE        *)
(* CASCADE).                                                               *)
(*                                                                         *)
(* A move reads the children of one folder per statement, depth first,     *)
(* before it compares and writes; other requests run in between.           *)
(***************************************************************************)
EXTENDS Rest

CONSTANTS
    Folder,     \* ids of folders, each given out once
    FolderUser, \* folders.user_id
    Root,       \* parent_id NULL, and the empty parent_id of a request
    MaxMoves,   \* bound on the moves of a behaviour
    MaxTodo     \* bound on the folders a walk has still to read

ASSUME FoldersAssumption ==
    /\ FolderUser \in [Folder -> User]
    /\ Root \notin Folder
    /\ MaxMoves \in Nat /\ MaxTodo \in Nat

VARIABLES
    folders,    \* ids of the rows of the table
    born,       \* ids ever given out
    parent,     \* folders.parent_id
    move,       \* the move a request handles
    moves,      \* how many moves were started
    stale,      \* requests during which another move was written
    torn        \* whether a stale move was written

foldersVars == <<folders, born, parent, move, moves, stale, torn>>

NoMove == [pc |-> "idle", id |-> Root, to |-> Root, own |-> FALSE,
           todo |-> <<>>, found |-> {}]

FoldersInit ==
    /\ folders = {}
    /\ born = {}
    /\ parent = [f \in Folder |-> Root]
    /\ move = [r \in Req |-> NoMove]
    /\ moves = 0
    /\ stale = {}
    /\ torn = FALSE

----------------------------------------------------------------------------
(* The tree *)

Children(f) == {g \in folders : parent[g] = f}

\* f and all below it: what is in every set that holds f and the children of
\* its members.
Closed(S) == \A g \in folders : parent[g] \in S => g \in S
Below(f) == {g \in Folder : \A S \in SUBSET Folder : f \in S /\ Closed(S) => g \in S}

Orders(S) == {s \in [1..Cardinality(S) -> S] : \A x \in S : \E i \in DOMAIN s : s[i] = x}

\* No folder is below one of its children.
Acyclic == \A f \in folders : \A g \in Children(f) : f \notin Below(g)

----------------------------------------------------------------------------
(* Create and Delete *)

\* The parent must exist, whoever owns it.
CreateFolder(f, p) ==
    /\ f \notin born
    /\ p \in folders \cup {Root}
    /\ folders' = folders \cup {f}
    /\ born' = born \cup {f}
    /\ parent' = [parent EXCEPT ![f] = p]
    /\ UNCHANGED <<move, moves, stale, torn>>

\* Mutant: only the row goes, as if the schema had no cascade.
DeleteRowOnly(f) ==
    /\ f \in folders
    /\ folders' = folders \ {f}
    /\ UNCHANGED <<born, parent, move, moves, stale, torn>>

\* The database deletes all below with the folder.
DeleteFolder(f) ==
    /\ f \in folders
    /\ folders' = folders \ Below(f)
    /\ parent' = [g \in Folder |-> IF g \in Below(f) THEN Root ELSE parent[g]]
    /\ UNCHANGED <<born, move, moves, stale, torn>>

----------------------------------------------------------------------------
(* Move *)

Walking(r) == move[r].pc = "walk"

EndMove(r) == move' = [move EXCEPT ![r] = NoMove] /\ stale' = stale \ {r}

\* A move into itself is refused at once; one to the top level needs no walk
\* and fails, as the empty string is no UUID.  Neither changes anything.
StartMove(r, id, to, own) ==
    /\ ~Walking(r)
    /\ moves < MaxMoves
    /\ moves' = moves + 1
    /\ id # to /\ to # Root
    /\ move' = [move EXCEPT ![r] = [pc |-> "walk", id |-> id, to |-> to, own |-> own,
                                   todo |-> <<id>>, found |-> {}]]
    /\ stale' = stale \ {r}
    /\ UNCHANGED <<folders, born, parent, torn>>

\* Mutant: the children are found but not descended into.
ReadOneLevel(r) ==
    /\ Walking(r) /\ move[r].todo # <<>>
    /\ move' = [move EXCEPT ![r].todo = Tail(@),
                            ![r].found = @ \cup Children(move[r].id)]
    /\ UNCHANGED <<folders, born, parent, moves, stale, torn>>

\* Mutant: the folder read stays among those to read.
ReadAgain(r) ==
    /\ Walking(r) /\ Len(move[r].todo) \in 1..MaxTodo
    /\ \E s \in Orders(Children(Head(move[r].todo))) :
          move' = [move EXCEPT ![r].todo = s \o @,
                               ![r].found = @ \cup Children(Head(move[r].todo))]
    /\ UNCHANGED <<folders, born, parent, moves, stale, torn>>

\* GetDescendantIDs: one query per folder, rows in any order.
ReadChildren(r) ==
    /\ Walking(r) /\ Len(move[r].todo) \in 1..MaxTodo
    /\ \E s \in Orders(Children(Head(move[r].todo))) :
          move' = [move EXCEPT ![r].todo = s \o Tail(@),
                               ![r].found = @ \cup Children(Head(move[r].todo))]
    /\ UNCHANGED <<folders, born, parent, moves, stale, torn>>

Walked(r) == Walking(r) /\ move[r].todo = <<>>

\* Mutant: a move to where the folder is already counts as a circle.
RefuseHere(r) ==
    /\ Walked(r)
    /\ move[r].to \in move[r].found \cup {parent[move[r].id]}
    /\ EndMove(r)
    /\ UNCHANGED <<folders, born, parent, moves, torn>>

RefuseMove(r) ==
    /\ Walked(r)
    /\ move[r].to \in move[r].found
    /\ EndMove(r)
    /\ UNCHANGED <<folders, born, parent, moves, torn>>

\* UPDATE matches no row if the folder is gone or another user's, and the
\* request is answered "moved" all the same; a new parent that is gone
\* breaks the foreign key.
MissMove(r) ==
    /\ Walked(r)
    /\ move[r].to \notin move[r].found
    /\ ~({move[r].id, move[r].to} \subseteq folders /\ move[r].own)
    /\ EndMove(r)
    /\ UNCHANGED <<folders, born, parent, moves, torn>>

WriteMove(r) ==
    /\ Walked(r)
    /\ move[r].to \notin move[r].found
    /\ {move[r].id, move[r].to} \subseteq folders /\ move[r].own
    /\ parent' = [parent EXCEPT ![move[r].id] = move[r].to]
    /\ move' = [move EXCEPT ![r] = NoMove]
    /\ stale' = (stale \ {r}) \cup {q \in Req \ {r} : Walking(q)}
    /\ torn' = (torn \/ r \in stale)
    /\ UNCHANGED <<folders, born, moves>>

\* A query fails, or the client went away and the request is cancelled.
FailMove(r) ==
    /\ DbFails
    /\ Walking(r)
    /\ EndMove(r)
    /\ UNCHANGED <<folders, born, parent, moves, torn>>

\* A walk over a cycle recurses without end; past the bound it is cut off, as
\* when the client gives up.
CutMove(r) ==
    /\ Walking(r) /\ Len(move[r].todo) > MaxTodo
    /\ EndMove(r)
    /\ UNCHANGED <<folders, born, parent, moves, torn>>

MoveStep(r) ==
    ReadChildren(r) \/ RefuseMove(r) \/ MissMove(r) \/ WriteMove(r) \/ CutMove(r)

FoldersNext ==
    \/ \E f \in Folder, p \in Folder \cup {Root} : CreateFolder(f, p)
    \/ \E f \in Folder : DeleteFolder(f)
    \/ \E r \in Req, id \in born, to \in born \cup {Root}, own \in BOOLEAN : StartMove(r, id, to, own)
    \/ \E r \in Req : MoveStep(r) \/ FailMove(r)

FoldersSpec ==
    FoldersInit /\ [][FoldersNext]_foldersVars /\ \A r \in Req : WF_foldersVars(MoveStep(r))

----------------------------------------------------------------------------
(* The tree as the client is shown it *)

Mine(u) == {f \in folders : FolderUser[f] = u}

\* Mutant: a folder whose parent is not in the list is dropped.
RootsOnly(u) == {f \in Mine(u) : parent[f] = Root}

\* BuildTree: a folder without a parent, or whose parent is not in the list,
\* is a root.
TreeRoots(u) == {f \in Mine(u) : parent[f] \notin Mine(u)}

\* What hangs below the roots over parents of the same list.
Shown(u) ==
    {g \in Mine(u) : \A S \in SUBSET Mine(u) :
        TreeRoots(u) \subseteq S /\ (\A h \in Mine(u) : parent[h] \in S => h \in S) => g \in S}

----------------------------------------------------------------------------
(* Properties *)

\* Types, and the foreign key: a parent is a row of the table.
FoldersTypeOK ==
    /\ folders \subseteq born /\ born \subseteq Folder
    /\ parent \in [Folder -> folders \cup {Root}]
    /\ move \in [Req -> [pc : {"idle", "walk"}, id : born \cup {Root}, to : born \cup {Root},
                         own : BOOLEAN, todo : Seq(born), found : SUBSET born]]
    /\ moves \in 0..MaxMoves
    /\ stale \subseteq Req
    /\ torn \in BOOLEAN

\* Whatever is created, deleted or refused while a move walks, the folders
\* stay a forest unless a move was written that another had overtaken.
CycleNeedsOverlap == ~torn => Acyclic

\* As long as the folders are a forest a user is shown every folder, also
\* those below a folder of another user.
TreeShowsAll == Acyclic => \A u \in User : Shown(u) = Mine(u)

\* A move that no other overtook is refused only if its target is below it
\* or gone by now.
RefusedIsBelow ==
    [][\A r \in Req : RefuseMove(r) /\ r \notin stale /\ move[r].to \in folders
          => move[r].to \in Below(move[r].id)]_foldersVars

\* The walk comes to an end, unless the folders have a cycle.
MoveEnds == \A r \in Req : Walking(r) ~> ~Walking(r) \/ ~Acyclic
=============================================================================
