---------------------------- MODULE FoldersProofs ----------------------------
(***************************************************************************)
(* Proofs about Folders: any number of folders, users and requests, trees  *)
(* of any shape, and walks of any length.                                  *)
(***************************************************************************)
EXTENDS Folders, FiniteSetTheorems, SequenceTheorems, WellFoundedInduction, TLAPS

\* The table: ids are born once, a parent is a row, and what is not a row has
\* none.
Table ==
    /\ folders \subseteq born /\ born \subseteq Folder
    /\ IsFiniteSet(born)
    /\ parent \in [Folder -> folders \cup {Root}]
    /\ \A g \in Folder \ folders : parent[g] = Root

\* What a walk has still to read.
Todo(r) == Range(move[r].todo)

Moves ==
    /\ move \in [Req -> [pc : {"idle", "walk"}, id : born \cup {Root}, to : born \cup {Root},
                         own : BOOLEAN, todo : Seq(born), found : SUBSET born]]
    /\ moves \in 0..MaxMoves /\ stale \subseteq Req /\ torn \in BOOLEAN
    /\ \A r \in Req : Walking(r) =>
          /\ move[r].id \in born /\ move[r].to \in born /\ move[r].id # move[r].to
          /\ Todo(r) \subseteq move[r].found \cup {move[r].id}

\* A walk that no other move overtook will find its target if it is below:
\* it has, or the target is below a folder it has still to read.
WillFind ==
    \A r \in Req \ stale : Walking(r) /\ move[r].to \in Below(move[r].id) =>
        move[r].to \in move[r].found \/ \E t \in Todo(r) : move[r].to \in Below(t)

\* What it has found is below, or gone.
FoundBelow ==
    \A r \in Req \ stale : Walking(r) =>
        (move[r].found \cup Todo(r)) \cap folders \subseteq Below(move[r].id)

FoldersInv == Table /\ Moves /\ WillFind /\ FoundBelow /\ CycleNeedsOverlap

----------------------------------------------------------------------------
(* Below *)

\* Below(f) is the least closed set that holds f.
LEMMA BelowIsLeast ==
    ASSUME NEW f \in Folder, folders \subseteq Folder
    PROVE  /\ f \in Below(f) /\ Below(f) \subseteq Folder
           /\ Closed(Below(f))
           /\ \A S \in SUBSET Folder : f \in S /\ Closed(S) => Below(f) \subseteq S
<1>1. ASSUME NEW g \in folders, parent[g] \in Below(f) PROVE g \in Below(f)
    BY <1>1 DEF Below, Closed
<1> QED BY <1>1 DEF Below, Closed

\* The same of the state after a step.
LEMMA BelowIsLeastAfter ==
    ASSUME NEW f \in Folder, folders' \subseteq Folder
    PROVE  /\ f \in Below(f)' /\ Below(f)' \subseteq Folder
           /\ \A g \in folders' : parent'[g] \in Below(f)' => g \in Below(f)'
           /\ \A S \in SUBSET Folder :
                f \in S /\ (\A g \in folders' : parent'[g] \in S => g \in S) => Below(f)' \subseteq S
<1>1. ASSUME NEW g \in folders', parent'[g] \in Below(f)' PROVE g \in Below(f)'
    <2>1. \A S \in SUBSET Folder : f \in S /\ Closed(S)' => parent'[g] \in S
        BY <1>1 DEF Below
    <2>2. \A S \in SUBSET Folder : f \in S /\ Closed(S)' => g \in S
        BY <1>1, <2>1 DEF Closed
    <2>3. g \in Folder BY <1>1
    <2> QED BY <2>2, <2>3 DEF Below
<1>2. f \in Below(f)' /\ Below(f)' \subseteq Folder BY DEF Below
<1>3. ASSUME NEW S \in SUBSET Folder, f \in S, \A g \in folders' : parent'[g] \in S => g \in S
      PROVE  Below(f)' \subseteq S
    <2>1. Closed(S)' BY <1>3 DEF Closed
    <2> QED BY <1>3, <2>1 DEF Below
<1> QED BY <1>1, <1>2, <1>3

\* What is below f and not f is a row, also after a step.
LEMMA BelowIsRowAfter ==
    ASSUME NEW f \in Folder, folders' \subseteq Folder, NEW g \in Below(f)', g # f
    PROVE  g \in folders'
<1>1. SUFFICES ASSUME g \notin folders' PROVE FALSE
    OBVIOUS
<1>2. SUFFICES ASSUME NEW S, S = Below(f)' \ {g} PROVE FALSE
    OBVIOUS
<1>3. f \in S /\ S \in SUBSET Folder /\ \A x \in folders' : parent'[x] \in S => x \in S
    BY <1>1, <1>2, BelowIsLeastAfter
<1> QED BY <1>2, <1>3, BelowIsLeastAfter

\* What is below one below f is below f.
LEMMA BelowIsTransitive ==
    ASSUME NEW f \in Folder, folders \subseteq Folder, NEW g \in Below(f)
    PROVE  Below(g) \subseteq Below(f)
BY BelowIsLeast

\* What is below f is f or below a child of f.
LEMMA BelowAChild ==
    ASSUME NEW f \in Folder, folders \subseteq Folder, NEW g \in Below(f), g # f
    PROVE  \E h \in Children(f) : g \in Below(h)
<1> DEFINE S == {f} \cup UNION {Below(h) : h \in Children(f)}
<1>1. \A h \in Children(f) : h \in Folder /\ Below(h) \subseteq Folder /\ h \in Below(h) /\ Closed(Below(h))
    BY BelowIsLeast DEF Children
<1>2. f \in S /\ S \in SUBSET Folder BY <1>1
<1>3. ASSUME NEW x \in folders, parent[x] \in S PROVE x \in S
    <2>1. CASE parent[x] = f BY <1>1, <2>1 DEF Children
    <2>2. CASE parent[x] # f
        <3>1. PICK h \in Children(f) : parent[x] \in Below(h) BY <1>3, <2>2
        <3>2. x \in Below(h) BY <1>1, <3>1 DEF Closed
        <3> QED BY <3>2
    <2> QED BY <2>1, <2>2
<1>4. Below(f) \subseteq S
    <2> HIDE DEF S
    <2> QED BY <1>2, <1>3, BelowIsLeast DEF Closed
<1> QED BY <1>4

----------------------------------------------------------------------------
(* What a step does to Below *)

\* A new folder has nothing below it, and is the only one more below others.
LEMMA CreateBelow ==
    ASSUME Table, NEW f \in Folder, NEW p \in Folder \cup {Root}, CreateFolder(f, p)
    PROVE  /\ folders' \subseteq Folder
           /\ Below(f)' = {f}
           /\ \A g \in Folder : Below(g) \subseteq Below(g)' /\ Below(g)' \subseteq Below(g) \cup {f}
<1>1. /\ folders' = folders \cup {f} /\ f \notin born /\ f \notin folders /\ folders \subseteq Folder
      /\ p \in folders \cup {Root} /\ parent' = [parent EXCEPT ![f] = p]
      /\ folders' \subseteq Folder
    BY DEF CreateFolder, Table
<1>2. /\ \A g \in folders : parent'[g] = parent[g] /\ parent[g] # f /\ parent'[g] # f
      /\ parent'[f] # f
    BY <1>1, FoldersAssumption DEF Table, FoldersAssumption
<1>3. Below(f)' = {f}
    <2>1. {f} \in SUBSET Folder OBVIOUS
    <2>2. \A g \in folders' : parent'[g] \notin {f} BY <1>1, <1>2
    <2> QED BY <1>1, <2>1, <2>2, BelowIsLeastAfter
<1>4. ASSUME NEW g \in Folder
      PROVE  Below(g) \subseteq Below(g)' /\ Below(g)' \subseteq Below(g) \cup {f}
    <2>1. Below(g) \subseteq Below(g)'
        <3>1. Closed(Below(g)')
            BY <1>1, <1>2, BelowIsLeastAfter DEF Closed
        <3> QED BY <1>1, <3>1, BelowIsLeast, BelowIsLeastAfter
    <2>2. Below(g) \in SUBSET Folder /\ Closed(Below(g)) /\ g \in Below(g)
        BY <1>1, BelowIsLeast
    <2>3. \A x \in folders' : parent'[x] \in Below(g) \cup {f} => x \in Below(g) \cup {f}
        BY <1>1, <1>2, <2>2 DEF Closed
    <2>4. Below(g)' \subseteq Below(g) \cup {f}
        <3> SUFFICES ASSUME NEW S, S = Below(g) \cup {f} PROVE Below(g)' \subseteq S
            OBVIOUS
        <3>1. /\ S \in SUBSET Folder /\ g \in S
              /\ \A x \in folders' : parent'[x] \in S => x \in S
            BY <2>2, <2>3
        <3> QED BY <1>1, <3>1, BelowIsLeastAfter
    <2> QED BY <2>1, <2>4
<1> QED BY <1>1, <1>3, <1>4

\* A delete takes the folder's tree out of what is below others.
LEMMA DeleteBelow ==
    ASSUME Table, NEW f \in Folder, DeleteFolder(f)
    PROVE  /\ folders' = folders \ Below(f) /\ folders' \subseteq Folder
           /\ \A g \in folders' : parent'[g] = parent[g]
           /\ \A g \in Folder : Below(g)' \subseteq Below(g) /\ Below(g) \subseteq Below(g)' \cup Below(f)
<1>1. /\ folders' = folders \ Below(f) /\ folders \subseteq Folder /\ folders' \subseteq Folder
      /\ \A g \in folders' : parent'[g] = parent[g]
    BY DEF DeleteFolder, Table
<1>2. ASSUME NEW g \in Folder PROVE Below(g)' \subseteq Below(g)
    <2>1. Below(g) \in SUBSET Folder /\ Closed(Below(g)) /\ g \in Below(g)
        BY <1>1, BelowIsLeast
    <2>2. \A x \in folders' : parent'[x] \in Below(g) => x \in Below(g) BY <1>1, <2>1 DEF Closed
    <2> QED BY <1>1, <2>1, <2>2, BelowIsLeastAfter
<1>3. ASSUME NEW g \in Folder PROVE Below(g) \subseteq Below(g)' \cup Below(f)
    <2>1. /\ Below(f) \subseteq Folder /\ Closed(Below(f))
          /\ Below(g)' \subseteq Folder /\ g \in Below(g)'
          /\ \A x \in folders' : parent'[x] \in Below(g)' => x \in Below(g)'
        BY <1>1, BelowIsLeast, BelowIsLeastAfter
    <2>2. Closed(Below(g)' \cup Below(f)) BY <1>1, <2>1 DEF Closed
    <2>3. Below(g)' \cup Below(f) \in SUBSET Folder /\ g \in Below(g)' \cup Below(f) BY <2>1
    <2> QED BY <1>1, <2>2, <2>3, BelowIsLeast
<1> QED BY <1>1, <1>2, <1>3

\* A move adds its tree to what is below its target, and to nothing else.
LEMMA MoveBelow ==
    ASSUME Table, NEW id \in folders, NEW to \in folders,
           UNCHANGED folders, parent' = [parent EXCEPT ![id] = to]
    PROVE  \A g \in Folder :
              /\ Below(g)' \subseteq Below(g) \cup Below(id)
              /\ to \notin Below(g) => Below(g)' \subseteq Below(g)
<1>1. /\ folders \subseteq Folder /\ folders' \subseteq Folder /\ folders' = folders
      /\ parent'[id] = to /\ \A x \in folders \ {id} : parent'[x] = parent[x]
    BY DEF Table
<1>2. ASSUME NEW g \in Folder
      PROVE  /\ Below(g)' \subseteq Below(g) \cup Below(id)
             /\ to \notin Below(g) => Below(g)' \subseteq Below(g)
    <2>1. /\ Below(g) \in SUBSET Folder /\ Closed(Below(g)) /\ g \in Below(g)
          /\ Below(id) \in SUBSET Folder /\ Closed(Below(id)) /\ id \in Below(id)
        BY <1>1, BelowIsLeast
    <2>2. \A x \in folders' : parent'[x] \in Below(g) \cup Below(id) => x \in Below(g) \cup Below(id)
        BY <1>1, <2>1 DEF Closed
    <2>3. to \notin Below(g) => \A x \in folders' : parent'[x] \in Below(g) => x \in Below(g)
        BY <1>1, <2>1 DEF Closed
    <2>4. Below(g) \cup Below(id) \in SUBSET Folder /\ g \in Below(g) \cup Below(id) BY <2>1
    <2>5. Below(g)' \subseteq Below(g) \cup Below(id) BY <1>1, <2>2, <2>4, BelowIsLeastAfter
    <2>6. to \notin Below(g) => Below(g)' \subseteq Below(g) BY <1>1, <2>1, <2>3, BelowIsLeastAfter
    <2> QED BY <2>5, <2>6
<1> QED BY <1>2

\* Where the tree is as it was, so is what is below one.
LEMMA SameBelow ==
    ASSUME UNCHANGED <<folders, parent>>
    PROVE  /\ \A g : Below(g)' = Below(g) /\ Children(g)' = Children(g)
           /\ Acyclic' <=> Acyclic
BY DEF Below, Closed, Children, Acyclic

----------------------------------------------------------------------------
(* The forest *)

\* A new folder closes no circle.
LEMMA CreateKeepsForest ==
    ASSUME Table, Acyclic, NEW f \in Folder, NEW p \in Folder \cup {Root}, CreateFolder(f, p)
    PROVE  Acyclic'
<1>1. /\ folders' = folders \cup {f} /\ f \notin folders /\ folders \subseteq Folder
      /\ parent' = [parent EXCEPT ![f] = p] /\ p \in folders \cup {Root}
    BY DEF CreateFolder, Table
<1>2. ASSUME NEW h \in folders', NEW k \in folders', parent'[k] = h
      PROVE  h \notin Below(k)'
    <2>1. h # f /\ h \in folders
        BY <1>1, <1>2, FoldersAssumption DEF Table, FoldersAssumption
    <2>2. CASE k = f BY <2>1, <2>2, CreateBelow
    <2>3. CASE k # f
        <3>1. k \in folders /\ parent[k] = h BY <1>1, <1>2, <2>3 DEF Table
        <3>2. h \notin Below(k) BY <2>1, <3>1 DEF Acyclic, Children
        <3> QED BY <1>1, <2>1, <3>1, <3>2, CreateBelow
    <2> QED BY <2>2, <2>3
<1> QED BY <1>2 DEF Acyclic, Children

\* A delete closes no circle.
LEMMA DeleteKeepsForest ==
    ASSUME Table, Acyclic, NEW f \in Folder, DeleteFolder(f)
    PROVE  Acyclic'
<1>1. ASSUME NEW h \in folders', NEW k \in folders', parent'[k] = h
      PROVE  h \notin Below(k)'
    <2>1. h \in folders /\ k \in folders /\ k \in Folder /\ parent[k] = h
        BY <1>1, DeleteBelow DEF Table
    <2>2. h \notin Below(k) BY <2>1 DEF Acyclic, Children
    <2> QED BY <2>1, <2>2, DeleteBelow
<1> QED BY <1>1 DEF Acyclic, Children

\* A move to a folder that is not below the one moved closes no circle.
LEMMA MoveKeepsForest ==
    ASSUME Table, Acyclic, NEW id \in folders, NEW to \in folders, to \notin Below(id),
           UNCHANGED folders, parent' = [parent EXCEPT ![id] = to]
    PROVE  Acyclic'
<1>1. folders \subseteq Folder /\ folders' = folders BY DEF Table
<1>2. ASSUME NEW h \in folders, NEW k \in folders, parent'[k] = h
      PROVE  h \notin Below(k)'
    <2>1. CASE k = id
        <3>1. h = to BY <1>1, <1>2, <2>1 DEF Table
        <3> QED BY <1>1, <2>1, <3>1, MoveBelow
    <2>2. CASE k # id
        <3>1. parent[k] = h BY <1>1, <1>2, <2>2 DEF Table
        <3>2. h \notin Below(k) BY <3>1 DEF Acyclic, Children
        <3>3. CASE to \notin Below(k) BY <1>1, <3>2, <3>3, MoveBelow
        <3>4. CASE to \in Below(k)
            <4>1. h \notin Below(id)
                <5> SUFFICES ASSUME h \in Below(id) PROVE FALSE
                    OBVIOUS
                <5>1. k \in Below(id) BY <1>1, <3>1, BelowIsLeast DEF Closed
                <5>2. to \in Below(id) BY <1>1, <3>4, <5>1, BelowIsTransitive
                <5> QED BY <5>2
            <4> QED BY <1>1, <3>2, <4>1, MoveBelow
        <3> QED BY <3>3, <3>4
    <2> QED BY <2>1, <2>2
<1> QED BY <1>1, <1>2 DEF Acyclic, Children
----------------------------------------------------------------------------
(* The steps *)

\* What is in a sequence is its head or in its tail.
LEMMA RangeOfTail ==
    ASSUME NEW S, NEW s \in Seq(S), s # <<>>
    PROVE  /\ Head(s) \in S /\ Tail(s) \in Seq(S)
           /\ Range(s) = {Head(s)} \cup Range(Tail(s))
<1>1. /\ Len(s) \in Nat \ {0} /\ DOMAIN s = 1..Len(s) /\ Head(s) = s[1]
      /\ Tail(s) \in Seq(S) /\ DOMAIN Tail(s) = 1..(Len(s) - 1) /\ Head(s) \in S
      /\ \A i \in 1..(Len(s) - 1) : Tail(s)[i] = s[i + 1]
    BY HeadTailProperties, LenProperties, EmptySeq
<1>2. ASSUME NEW i \in 1..Len(s), i # 1 PROVE i - 1 \in 1..(Len(s) - 1) /\ Tail(s)[i - 1] = s[i]
    BY <1>1, <1>2
<1>3. Range(s) \subseteq {Head(s)} \cup Range(Tail(s))
    <2> SUFFICES ASSUME NEW i \in 1..Len(s) PROVE s[i] \in {Head(s)} \cup Range(Tail(s))
        BY <1>1 DEF Range
    <2>1. CASE i = 1 BY <1>1, <2>1
    <2>2. CASE i # 1 BY <1>1, <1>2, <2>2 DEF Range
    <2> QED BY <2>1, <2>2
<1>4. \A i \in 1..(Len(s) - 1) : i + 1 \in 1..Len(s) BY <1>1
<1>5. Range(Tail(s)) \subseteq Range(s)
    <2> SUFFICES ASSUME NEW i \in 1..(Len(s) - 1) PROVE Tail(s)[i] \in Range(s)
        BY <1>1 DEF Range
    <2> QED BY <1>1, <1>4 DEF Range
<1>6. Head(s) \in Range(s) BY <1>1 DEF Range
<1> QED BY <1>1, <1>3, <1>5, <1>6

\* What is known of a walk.
LEMMA WalkOf ==
    ASSUME Table, Moves, NEW r \in Req, Walking(r)
    PROVE  /\ move[r].id \in born /\ move[r].id \in Folder
           /\ move[r].to \in born /\ move[r].to \in Folder
           /\ move[r].id # move[r].to
           /\ move[r].found \subseteq born /\ Todo(r) \subseteq born
           /\ move[r].todo \in Seq(born)
           /\ Todo(r) \subseteq move[r].found \cup {move[r].id}
<1>1. move[r].todo \in Seq(born) BY DEF Moves
<1>2. Todo(r) \subseteq born BY <1>1, RangeOfSeq DEF Todo
<1> QED BY <1>1, <1>2 DEF Table, Moves

\* Where nothing but the bookkeeping of a move that ends is changed, the
\* invariant stays.
LEMMA EndKeeps ==
    ASSUME FoldersInv, NEW r \in Req, EndMove(r),
           UNCHANGED <<folders, born, parent, moves, torn>>
    PROVE  FoldersInv'
<1>1. /\ move' = [move EXCEPT ![r] = NoMove] /\ stale' = stale \ {r}
    BY DEF EndMove
<1>2. \A q \in Req \ {r} : move'[q] = move[q] BY <1>1 DEF FoldersInv, Moves
<1>3. \A q \in Req : Walking(q)' => q # r /\ Walking(q) /\ move'[q] = move[q] /\ Todo(q)' = Todo(q)
    BY <1>1, <1>2 DEF FoldersInv, Moves, Walking, NoMove, Todo
<1>4. NoMove \in [pc : {"idle", "walk"}, id : born \cup {Root}, to : born \cup {Root},
                   own : BOOLEAN, todo : Seq(born), found : SUBSET born]
    BY EmptySeq DEF NoMove
<1>5. Table' BY DEF FoldersInv, Table
<1>6. Moves' BY <1>1, <1>3, <1>4 DEF FoldersInv, Moves
<1>7. WillFind' /\ FoundBelow' /\ CycleNeedsOverlap'
    BY <1>1, <1>3, SameBelow DEF FoldersInv, WillFind, FoundBelow, CycleNeedsOverlap
<1> QED BY <1>5, <1>6, <1>7 DEF FoldersInv

\* A walk starts with the folder itself, below which its target is if it is
\* below the folder.
LEMMA StartKeeps ==
    ASSUME FoldersInv, NEW r \in Req, NEW id \in born, NEW to \in born \cup {Root},
           NEW own \in BOOLEAN, StartMove(r, id, to, own)
    PROVE  FoldersInv'
<1> DEFINE m == [pc |-> "walk", id |-> id, to |-> to, own |-> own, todo |-> <<id>>, found |-> {}]
<1>1. /\ move' = [move EXCEPT ![r] = m] /\ stale' = stale \ {r} /\ moves' = moves + 1
      /\ moves < MaxMoves /\ id # to /\ to \in born
      /\ UNCHANGED <<folders, born, parent, torn>>
    BY DEF StartMove
<1>2. \A q \in Req \ {r} : move'[q] = move[q] BY <1>1 DEF FoldersInv, Moves
<1>3. move'[r] = m BY <1>1 DEF FoldersInv, Moves
<1>4. Todo(r)' = {id} BY <1>3 DEF Todo, Range
<1>5. \A q \in Req \ {r} : (Walking(q)' <=> Walking(q)) /\ Todo(q)' = Todo(q)
    BY <1>2 DEF Walking, Todo
<1>6. m \in [pc : {"idle", "walk"}, id : born \cup {Root}, to : born \cup {Root},
              own : BOOLEAN, todo : Seq(born), found : SUBSET born]
    OBVIOUS
<1>7. Table' BY <1>1 DEF FoldersInv, Table
<1>8. Moves'
    <2>1. moves' \in 0..MaxMoves BY <1>1, FoldersAssumption DEF FoldersAssumption, FoldersInv, Moves
    <2> QED BY <1>1, <1>2, <1>3, <1>4, <1>5, <1>6, <2>1 DEF FoldersInv, Moves
<1>9. id \in Below(id) BY BelowIsLeast DEF FoldersInv, Table
<1>10. ASSUME NEW q \in Req \ stale', Walking(q)', move'[q].to \in Below(move'[q].id)
       PROVE  move'[q].to \in move'[q].found \/ \E t \in Todo(q)' : move'[q].to \in Below(t)
    <2>1. CASE q = r BY <1>3, <1>4, <1>10, <2>1
    <2>2. CASE q # r BY <1>1, <1>2, <1>5, <1>10, <2>2 DEF FoldersInv, WillFind
    <2> QED BY <2>1, <2>2
<1>11. ASSUME NEW q \in Req \ stale', Walking(q)'
       PROVE  (move'[q].found \cup Todo(q)') \cap folders \subseteq Below(move'[q].id)
    <2>1. CASE q = r BY <1>3, <1>4, <1>9, <2>1
    <2>2. CASE q # r BY <1>1, <1>2, <1>5, <1>11, <2>2 DEF FoldersInv, FoundBelow
    <2> QED BY <2>1, <2>2
<1>12. WillFind' /\ FoundBelow' /\ CycleNeedsOverlap'
    BY <1>1, <1>10, <1>11, SameBelow DEF FoldersInv, WillFind, FoundBelow, CycleNeedsOverlap
<1> QED BY <1>7, <1>8, <1>12 DEF FoldersInv

\* A folder created meanwhile is no target, and nothing that existed is below
\* it.
LEMMA CreateKeeps ==
    ASSUME FoldersInv, NEW f \in Folder, NEW p \in Folder \cup {Root}, CreateFolder(f, p)
    PROVE  FoldersInv'
<1>1. /\ folders' = folders \cup {f} /\ born' = born \cup {f} /\ f \notin born
      /\ parent' = [parent EXCEPT ![f] = p] /\ p \in folders \cup {Root}
      /\ UNCHANGED <<move, moves, stale, torn>>
    BY DEF CreateFolder
<1>2. Table /\ Moves BY DEF FoldersInv
<1>3. Table' BY <1>1, <1>2, FS_AddElement DEF Table
<1>4. \A q \in Req : (Walking(q)' <=> Walking(q)) /\ Todo(q)' = Todo(q)
    BY <1>1 DEF Walking, Todo
<1>5. Moves'
    <2>1. Seq(born) \subseteq Seq(born')
        <3> SUFFICES ASSUME NEW s \in Seq(born) PROVE s \in Seq(born')
            OBVIOUS
        <3>1. s \in [1..Len(s) -> born] /\ Len(s) \in Nat BY LenProperties
        <3>2. s \in [1..Len(s) -> born'] BY <1>1, <3>1
        <3> QED BY <3>1, <3>2
    <2>2. SUBSET born \subseteq SUBSET born' /\ born \subseteq born' BY <1>1
    <2>3. move \in [Req -> [pc : {"idle", "walk"}, id : born' \cup {Root}, to : born' \cup {Root},
                            own : BOOLEAN, todo : Seq(born'), found : SUBSET born']]
        BY <1>2, <2>1, <2>2 DEF Moves
    <2> QED BY <1>1, <1>2, <1>4, <2>2, <2>3 DEF Moves
<1>6. ASSUME NEW q \in Req \ stale, Walking(q), move[q].to \in Below(move[q].id)'
      PROVE  move[q].to \in move[q].found \/ \E t \in Todo(q) : move[q].to \in Below(t)'
    <2>1. move[q].id \in Folder /\ move[q].to # f /\ Todo(q) \subseteq Folder
        BY <1>1, <1>2, <1>6, WalkOf DEF Table
    <2>2. move[q].to \in Below(move[q].id) BY <1>1, <1>2, <1>6, <2>1, CreateBelow
    <2>3. move[q].to \in move[q].found \/ \E t \in Todo(q) : move[q].to \in Below(t)
        BY <1>6, <2>2 DEF FoldersInv, WillFind
    <2> QED BY <1>2, <2>1, <2>3, CreateBelow
<1>7. ASSUME NEW q \in Req \ stale, Walking(q)
      PROVE  (move[q].found \cup Todo(q)) \cap folders' \subseteq Below(move[q].id)'
    <2>1. /\ move[q].id \in Folder /\ f \notin move[q].found \cup Todo(q)
        BY <1>1, <1>2, <1>7, WalkOf
    <2>2. (move[q].found \cup Todo(q)) \cap folders \subseteq Below(move[q].id)
        BY <1>7 DEF FoldersInv, FoundBelow
    <2> QED BY <1>1, <1>2, <2>1, <2>2, CreateBelow
<1>8. WillFind' /\ FoundBelow'
    <2>1. WillFind' BY <1>1, <1>4, <1>6 DEF WillFind
    <2>2. FoundBelow' BY <1>1, <1>4, <1>7 DEF FoundBelow
    <2> QED BY <2>1, <2>2
<1>9. CycleNeedsOverlap'
    BY <1>1, <1>2, CreateKeepsForest DEF FoldersInv, CycleNeedsOverlap
<1> QED BY <1>3, <1>5, <1>8, <1>9 DEF FoldersInv

\* A delete cuts out what is gone, and neither what was found nor what is to
\* be read of the rest changes its place.
LEMMA DeleteKeeps ==
    ASSUME FoldersInv, NEW f \in Folder, DeleteFolder(f)
    PROVE  FoldersInv'
<1>1. /\ folders' = folders \ Below(f)
      /\ parent' = [g \in Folder |-> IF g \in Below(f) THEN Root ELSE parent[g]]
      /\ UNCHANGED <<born, move, moves, stale, torn>>
    BY DEF DeleteFolder
<1>2. Table /\ Moves /\ folders \subseteq Folder BY DEF FoldersInv, Table
<1>3. Table'
    <2>1. \A g \in Folder : parent'[g] \in folders' \cup {Root}
        <3> SUFFICES ASSUME NEW g \in Folder, g \notin Below(f), parent[g] # Root
                     PROVE  parent[g] \in folders \ Below(f)
            BY <1>1
        <3>1. g \in folders /\ parent[g] \in folders BY <1>2 DEF Table
        <3> QED BY <1>2, <3>1, BelowIsLeast DEF Closed
    <2>2. \A g \in Folder \ folders' : parent'[g] = Root BY <1>1, <1>2 DEF Table
    <2> QED BY <1>1, <1>2, <2>1, <2>2 DEF Table
<1>4. \A q \in Req : (Walking(q)' <=> Walking(q)) /\ Todo(q)' = Todo(q)
    BY <1>1 DEF Walking, Todo
<1>5. Moves' BY <1>1, <1>2, <1>4 DEF Moves
<1>6. ASSUME NEW q \in Req \ stale, Walking(q), move[q].to \in Below(move[q].id)'
      PROVE  move[q].to \in move[q].found \/ \E t \in Todo(q) : move[q].to \in Below(t)'
    <2> DEFINE id == move[q].id
               to == move[q].to
    <2>1. id \in Folder /\ to \in Folder /\ id # to /\ Todo(q) \subseteq Folder
        BY <1>2, <1>6, WalkOf DEF Table
    <2>2. to \in Below(id)' /\ to \in Below(id)
        <3>1. to \in Below(id)' BY <1>1, <1>6
        <3> QED BY <1>1, <1>2, <2>1, <3>1, DeleteBelow
    <2>3. to \notin Below(f)
        <3>1. to \in folders'
            BY <1>1, <1>2, <2>1, <2>2, BelowIsRowAfter, DeleteBelow
        <3> QED BY <1>1, <3>1
    <2>4. to \in move[q].found \/ \E t \in Todo(q) : to \in Below(t)
        BY <1>6, <2>2 DEF FoldersInv, WillFind
    <2> QED BY <1>1, <1>2, <2>1, <2>3, <2>4, DeleteBelow
<1>7. ASSUME NEW q \in Req \ stale, Walking(q)
      PROVE  (move[q].found \cup Todo(q)) \cap folders' \subseteq Below(move[q].id)'
    <2>1. move[q].id \in Folder BY <1>2, <1>7, WalkOf
    <2>2. (move[q].found \cup Todo(q)) \cap folders \subseteq Below(move[q].id)
        BY <1>7 DEF FoldersInv, FoundBelow
    <2> QED BY <1>1, <1>2, <2>1, <2>2, DeleteBelow
<1>8. WillFind' /\ FoundBelow'
    <2>1. WillFind' BY <1>1, <1>4, <1>6 DEF WillFind
    <2>2. FoundBelow' BY <1>1, <1>4, <1>7 DEF FoundBelow
    <2> QED BY <2>1, <2>2
<1>9. CycleNeedsOverlap'
    BY <1>1, <1>2, DeleteKeepsForest DEF FoldersInv, CycleNeedsOverlap
<1> QED BY <1>3, <1>5, <1>8, <1>9 DEF FoldersInv

\* The read of one folder's children: they are found, and take its place
\* among those to read.
LEMMA ReadKeeps ==
    ASSUME FoldersInv, NEW r \in Req, ReadChildren(r)
    PROVE  FoldersInv'
<1> DEFINE id == move[r].id
           todo == move[r].todo
           h == Head(todo)
           C == Children(h)
<1>1. PICK s \in Orders(C) :
          move' = [move EXCEPT ![r].todo = s \o Tail(@), ![r].found = @ \cup C]
    BY DEF ReadChildren
<1>2. /\ Walking(r) /\ Len(todo) \in 1..MaxTodo /\ UNCHANGED <<folders, born, parent, moves, stale, torn>>
    BY DEF ReadChildren
<1>3. Table /\ Moves /\ folders \subseteq Folder /\ born \subseteq Folder BY DEF FoldersInv, Table
<1>4. C \subseteq folders /\ C \subseteq born /\ IsFiniteSet(C)
    BY <1>3, FS_Subset DEF Children, Table
<1>5. s \in Seq(born) /\ Range(s) = C
    <2>1. Cardinality(C) \in Nat BY <1>4, FS_CardinalityType
    <2> HIDE DEF C
    <2>2. s \in [1..Cardinality(C) -> C] /\ \A x \in C : \E i \in DOMAIN s : s[i] = x
        BY <1>1 DEF Orders
    <2>3. s \in [1..Cardinality(C) -> born] BY <1>4, <2>2
    <2>4. Range(s) = C BY <2>2 DEF Range
    <2> QED BY <2>1, <2>3, <2>4
<1>6. todo \in Seq(born) /\ todo # <<>>
    <2>1. todo \in Seq(born) BY <1>2, <1>3, WalkOf
    <2> QED BY <1>2, <2>1, EmptySeq
<1>7. /\ Tail(todo) \in Seq(born) /\ h \in born
      /\ Todo(r) = {h} \cup Range(Tail(todo)) /\ h \in Todo(r)
    BY <1>6, RangeOfTail DEF Todo
<1> DEFINE rest == Range(Tail(todo))
           m == [move[r] EXCEPT !.todo = s \o Tail(@), !.found = @ \cup C]
<1>8. s \o Tail(todo) \in Seq(born) /\ Range(s \o Tail(todo)) = C \cup rest
    <2> DEFINE t == Tail(todo)
    <2>1. s \in Seq(born) /\ t \in Seq(born) BY <1>5, <1>7
    <2> HIDE DEF t
    <2>2. Range(s \o t) = Range(s) \cup Range(t) BY <2>1, RangeConcatenation
    <2>3. s \o t \in Seq(born) BY <2>1, ConcatProperties
    <2> QED BY <1>5, <2>2, <2>3 DEF t
<1> HIDE DEF C, h, rest
<1>9. /\ move'[r] = m /\ m.todo = s \o Tail(todo) /\ m.found = move[r].found \cup C
      /\ m.pc = "walk" /\ m.id = id /\ m.to = move[r].to
      /\ m \in [pc : {"idle", "walk"}, id : born \cup {Root}, to : born \cup {Root},
                own : BOOLEAN, todo : Seq(born), found : SUBSET born]
    <2> DEFINE M == [pc : {"idle", "walk"}, id : born \cup {Root}, to : born \cup {Root},
                     own : BOOLEAN, todo : Seq(born), found : SUBSET born]
    <2>1. move \in [Req -> M] /\ move[r] \in M /\ move[r].pc = "walk" BY <1>2, <1>3 DEF Moves, Walking
    <2>2. move'[r] = m BY <1>1, <2>1
    <2>3. /\ m.todo = s \o Tail(todo) /\ m.found = move[r].found \cup C
          /\ m.pc = "walk" /\ m.id = id /\ m.to = move[r].to
        BY <2>1
    <2>4. m \in M
        <3> DEFINE new == s \o Tail(todo)
                   all == move[r].found \cup C
        <3>1. new \in Seq(born) /\ all \in SUBSET born BY <1>4, <1>8, <2>1
        <3>2. m = [move[r] EXCEPT !.todo = new, !.found = all] OBVIOUS
        <3> HIDE DEF m, new, all
        <3> QED BY <2>1, <3>1, <3>2
    <2> QED BY <2>2, <2>3, <2>4
<1> HIDE DEF m
<1>10. Todo(r)' = C \cup rest BY <1>8, <1>9 DEF Todo
<1>11. \A q \in Req \ {r} : move'[q] = move[q] BY <1>1, <1>3 DEF Moves
<1>12. \A q \in Req \ {r} : (Walking(q)' <=> Walking(q)) /\ Todo(q)' = Todo(q)
    BY <1>11 DEF Walking, Todo
<1>13. Table' BY <1>2, <1>3 DEF Table
<1>14. Moves'
    <2>1. move' \in [Req -> [pc : {"idle", "walk"}, id : born \cup {Root}, to : born \cup {Root},
                             own : BOOLEAN, todo : Seq(born), found : SUBSET born]]
        <3> DEFINE M == [pc : {"idle", "walk"}, id : born \cup {Root}, to : born \cup {Root},
                         own : BOOLEAN, todo : Seq(born), found : SUBSET born]
        <3>0. move \in [Req -> M] BY <1>3 DEF Moves
        <3>1. move'[r] \in M BY <1>9
        <3> HIDE DEF M
        <3>2. DOMAIN move' = Req /\ move' = [q \in Req |-> move'[q]] BY <1>1, <3>0
        <3>3. \A q \in Req : move'[q] \in M BY <1>11, <3>0, <3>1
        <3>4. move' \in [Req -> M] BY <3>2, <3>3
        <3>5. born' = born BY <1>2
        <3> QED BY <3>4, <3>5 DEF M
    <2>2. ASSUME NEW q \in Req, Walking(q)'
          PROVE  /\ move'[q].id \in born /\ move'[q].to \in born /\ move'[q].id # move'[q].to
                 /\ Todo(q)' \subseteq move'[q].found \cup {move'[q].id}
        <3>1. CASE q = r
            <4>1. Todo(r) \subseteq move[r].found \cup {id} BY <1>2, <1>3, WalkOf
            <4> QED BY <1>2, <1>3, <1>7, <1>9, <1>10, <3>1, <4>1, WalkOf DEF rest
        <3>2. CASE q # r BY <1>3, <1>11, <1>12, <2>2, <3>2, WalkOf
        <3> QED BY <3>1, <3>2
    <2> QED BY <1>2, <1>3, <2>1, <2>2 DEF Moves
<1>15. ASSUME NEW q \in Req \ stale, Walking(q)', move'[q].to \in Below(move'[q].id)
       PROVE  move'[q].to \in move'[q].found \/ \E t \in Todo(q)' : move'[q].to \in Below(t)
    <2>1. CASE q = r
        <3> DEFINE to == move[r].to
        <3>1. to \in Below(id) /\ id # to /\ h \in Folder /\ Todo(r) \subseteq move[r].found \cup {id}
            BY <1>2, <1>3, <1>7, <1>9, <1>15, <2>1, WalkOf
        <3>2. to \in move[r].found \/ \E t \in Todo(r) : to \in Below(t)
            BY <1>2, <1>15, <2>1, <3>1 DEF FoldersInv, WillFind
        <3>3. CASE to \in move[r].found \/ \E t \in rest : to \in Below(t)
            BY <1>9, <1>10, <2>1, <3>3
        <3>4. CASE to \in Below(h)
            <4>1. CASE to = h BY <1>7, <1>9, <2>1, <3>1, <4>1
            <4>2. CASE to # h
                <5>1. \E t \in C : to \in Below(t)
                    BY <1>3, <3>1, <3>4, <4>2, BelowAChild DEF C
                <5> QED BY <1>9, <1>10, <2>1, <5>1
            <4> QED BY <4>1, <4>2
        <3> QED BY <1>7, <3>2, <3>3, <3>4 DEF rest
    <2>2. CASE q # r BY <1>11, <1>12, <1>15, <2>2 DEF FoldersInv, WillFind
    <2> QED BY <2>1, <2>2
<1>16. ASSUME NEW q \in Req \ stale, Walking(q)'
       PROVE  (move'[q].found \cup Todo(q)') \cap folders \subseteq Below(move'[q].id)
    <2>1. CASE q = r
        <3>1. (move[r].found \cup Todo(r)) \cap folders \subseteq Below(id) /\ id \in Folder
            BY <1>2, <1>3, <1>16, <2>1, WalkOf DEF FoldersInv, FoundBelow
        <3>2. C \subseteq Below(id)
            <4> SUFFICES ASSUME NEW x \in folders, parent[x] = h PROVE x \in Below(id)
                BY DEF C, Children
            <4>1. h \in folders BY <1>3, <1>7, FoldersAssumption DEF Table, FoldersAssumption
            <4>2. h \in Below(id) BY <1>7, <3>1, <4>1
            <4> QED BY <1>3, <3>1, <4>2, BelowIsLeast DEF Closed
        <3> QED BY <1>7, <1>9, <1>10, <2>1, <3>1, <3>2 DEF rest
    <2>2. CASE q # r BY <1>11, <1>12, <1>16, <2>2 DEF FoldersInv, FoundBelow
    <2> QED BY <2>1, <2>2
<1>17. WillFind' /\ FoundBelow' /\ CycleNeedsOverlap'
    BY <1>2, <1>15, <1>16, SameBelow DEF FoldersInv, WillFind, FoundBelow, CycleNeedsOverlap
<1> QED BY <1>13, <1>14, <1>17 DEF FoldersInv

\* The write of a move makes every other walk stale, and if its own is not,
\* its target is not below it.
LEMMA WriteKeeps ==
    ASSUME FoldersInv, NEW r \in Req, WriteMove(r)
    PROVE  FoldersInv'
<1> DEFINE id == move[r].id
           to == move[r].to
<1>1. /\ Walking(r) /\ move[r].todo = <<>> /\ to \notin move[r].found
      /\ id \in folders /\ to \in folders
      /\ parent' = [parent EXCEPT ![id] = to]
      /\ move' = [move EXCEPT ![r] = NoMove]
      /\ stale' = (stale \ {r}) \cup {q \in Req \ {r} : Walking(q)}
      /\ torn' = (torn \/ r \in stale)
      /\ UNCHANGED <<folders, born, moves>>
    BY DEF WriteMove, Walked
<1>2. Table /\ Moves BY DEF FoldersInv
<1>3. \A q \in Req \ {r} : move'[q] = move[q] BY <1>1, <1>2 DEF Moves
<1>4. \A q \in Req : Walking(q)' => q # r /\ Walking(q) /\ move'[q] = move[q] /\ Todo(q)' = Todo(q)
    BY <1>1, <1>2, <1>3 DEF Moves, Walking, NoMove, Todo
<1>5. NoMove \in [pc : {"idle", "walk"}, id : born \cup {Root}, to : born \cup {Root},
                   own : BOOLEAN, todo : Seq(born), found : SUBSET born]
    BY EmptySeq DEF NoMove
<1>6. Table' BY <1>1, <1>2 DEF Table
<1>7. Moves'
    <2>1. torn' \in BOOLEAN /\ stale' \subseteq Req BY <1>1, <1>2 DEF Moves
    <2>2. move' \in [Req -> [pc : {"idle", "walk"}, id : born \cup {Root}, to : born \cup {Root},
                             own : BOOLEAN, todo : Seq(born), found : SUBSET born]]
        BY <1>1, <1>2, <1>5 DEF Moves
    <2>3. \A q \in Req : Walking(q)' =>
              /\ move'[q].id \in born /\ move'[q].to \in born /\ move'[q].id # move'[q].to
              /\ Todo(q)' \subseteq move'[q].found \cup {move'[q].id}
        BY <1>2, <1>4, WalkOf
    <2> QED BY <1>1, <1>2, <2>1, <2>2, <2>3 DEF Moves
<1>8. \A q \in Req \ stale' : ~Walking(q)' BY <1>1, <1>4
<1>9. ASSUME ~torn' PROVE Acyclic'
    <2>1. Acyclic /\ r \notin stale BY <1>1, <1>9 DEF FoldersInv, CycleNeedsOverlap
    <2>2. Todo(r) = {} BY <1>1 DEF Todo, Range
    <2>3. to \notin Below(id) BY <1>1, <2>1, <2>2 DEF FoldersInv, WillFind
    <2> QED BY <1>1, <1>2, <2>1, <2>3, MoveKeepsForest
<1>10. WillFind' /\ FoundBelow' /\ CycleNeedsOverlap'
    BY <1>8, <1>9 DEF WillFind, FoundBelow, CycleNeedsOverlap
<1> QED BY <1>6, <1>7, <1>10 DEF FoldersInv

\* The empty table, with no request in flight, satisfies the invariant.
LEMMA FoldersStart == ASSUME FoldersInit PROVE FoldersInv
<1>1. Table BY FS_EmptySet DEF FoldersInit, Table
<1>2. NoMove \in [pc : {"idle", "walk"}, id : born \cup {Root}, to : born \cup {Root},
                   own : BOOLEAN, todo : Seq(born), found : SUBSET born]
    BY EmptySeq DEF NoMove
<1>3. \A r \in Req : ~Walking(r) BY DEF FoldersInit, Walking, NoMove
<1>4. Moves
    <2>1. moves \in 0..MaxMoves /\ stale \subseteq Req /\ torn \in BOOLEAN
        <3>1. moves = 0 /\ stale = {} /\ torn = FALSE BY DEF FoldersInit
        <3>2. 0 \in 0..MaxMoves BY FoldersAssumption DEF FoldersAssumption
        <3> QED BY <3>1, <3>2
    <2>2. move \in [Req -> [pc : {"idle", "walk"}, id : born \cup {Root}, to : born \cup {Root},
                            own : BOOLEAN, todo : Seq(born), found : SUBSET born]]
        BY <1>2 DEF FoldersInit
    <2> QED BY <1>3, <2>1, <2>2 DEF Moves
<1>5. CycleNeedsOverlap BY DEF FoldersInit, CycleNeedsOverlap, Acyclic
<1> QED BY <1>1, <1>3, <1>4, <1>5 DEF FoldersInv, WillFind, FoundBelow

\* Every step keeps the invariant.
LEMMA FoldersStep == ASSUME FoldersInv, [FoldersNext]_foldersVars PROVE FoldersInv'
<1>1. ASSUME NEW r \in Req, MoveStep(r) \/ FailMove(r) PROVE FoldersInv'
    <2>1. CASE RefuseMove(r) \/ MissMove(r) \/ FailMove(r) \/ CutMove(r)
        BY <2>1, EndKeeps DEF RefuseMove, MissMove, FailMove, CutMove
    <2> QED BY <1>1, <2>1, ReadKeeps, WriteKeeps DEF MoveStep
<1>2. ASSUME NEW r \in Req, NEW id \in born, NEW to \in born \cup {Root}, NEW own \in BOOLEAN,
             StartMove(r, id, to, own)
      PROVE  FoldersInv'
    BY <1>2, StartKeeps
<1>3. CASE UNCHANGED foldersVars
    <2>1. \A q \in Req : (Walking(q)' <=> Walking(q)) /\ Todo(q)' = Todo(q)
        BY <1>3 DEF foldersVars, Walking, Todo
    <2>2. Table' /\ Moves' BY <1>3, <2>1 DEF foldersVars, FoldersInv, Table, Moves
    <2>3. WillFind' /\ FoundBelow' /\ CycleNeedsOverlap'
        BY <1>3, <2>1, SameBelow
        DEF foldersVars, FoldersInv, WillFind, FoundBelow, CycleNeedsOverlap
    <2> QED BY <2>2, <2>3 DEF FoldersInv
<1> QED BY <1>1, <1>2, <1>3, CreateKeeps, DeleteKeeps DEF FoldersNext

----------------------------------------------------------------------------
(* The theorems *)

\* The inductive invariant holds in every behaviour of creates, deletes and
\* moves, however the reads of the walks fall between them.
THEOREM FoldersInvariant == FoldersSpec => []FoldersInv
BY FoldersStart, FoldersStep, PTL DEF FoldersSpec

\* Folders and moves keep their types, and a parent is a row of the table.
THEOREM FoldersTypeCorrect == FoldersSpec => []FoldersTypeOK
<1>1. FoldersInv => FoldersTypeOK BY DEF FoldersInv, Table, Moves, FoldersTypeOK
<1> QED BY <1>1, FoldersInvariant, PTL

\* The check of folder_service.Move is enough for one move at a time: only
\* the write of a walk that another move overtook can close a circle.
THEOREM CyclesNeedOverlap == FoldersSpec => []CycleNeedsOverlap
BY FoldersInvariant, PTL DEF FoldersInv

\* A move that no other overtook is refused with good reason.
THEOREM RefusalsAreRight == FoldersSpec => RefusedIsBelow
<1>1. FoldersInv => \A r \in Req : RefuseMove(r) /\ r \notin stale /\ move[r].to \in folders
                                  => move[r].to \in Below(move[r].id)
    BY DEF FoldersInv, FoundBelow, RefuseMove, Walked
<1> QED BY <1>1, FoldersInvariant, PTL DEF RefusedIsBelow

\* In a finite set of folders that each have their parent in it there is a
\* circle: what is below one grows strictly from child to parent.
LEMMA ParentsEnd ==
    ASSUME Table, Acyclic, NEW N \in SUBSET folders, N # {}
    PROVE  \E n \in N : parent[n] \notin N
<1>1. SUFFICES ASSUME \A n \in N : parent[n] \in N PROVE FALSE
    OBVIOUS
<1> DEFINE above(n) == folders \ Below(n)
           T == {above(n) : n \in N}
           R == StrictSubsetOrdering(folders)
<1>2. folders \subseteq Folder /\ IsFiniteSet(folders) BY FS_Subset DEF Table
<1>3. T \subseteq FiniteSubsetsOf(folders) BY <1>2, FS_Subset DEF FiniteSubsetsOf
<1>4. PICK X \in T : \A Y \in T : ~ (<<Y, X>> \in R)
    <2> HIDE DEF T, R
    <2>1. IsWellFoundedOn(R, FiniteSubsetsOf(folders))
        BY FS_StrictSubsetOrderingWellFounded DEF R
    <2>2. T # {} BY DEF T
    <2> QED BY <1>3, <2>1, <2>2, WFMin
<1>5. PICK n \in N : X = above(n) OBVIOUS
<1>6. parent[n] \in N /\ n \in Children(parent[n]) BY <1>1 DEF Children
<1>7. parent[n] \notin Below(n) BY <1>6 DEF Acyclic
<1>8. Below(n) \subseteq Below(parent[n]) /\ parent[n] \in Below(parent[n])
    <2>1. n \in Below(parent[n]) BY <1>2, <1>6, BelowIsLeast DEF Closed
    <2> QED BY <1>2, <1>6, <2>1, BelowIsTransitive, BelowIsLeast
<1>9. above(parent[n]) \subseteq X /\ above(parent[n]) # X BY <1>5, <1>6, <1>7, <1>8
<1>10. <<above(parent[n]), X>> \in R
    <2>1. above(parent[n]) \in SUBSET folders /\ X \in SUBSET folders BY <1>5
    <2> QED BY <1>9, <2>1 DEF StrictSubsetOrdering
<1> QED BY <1>4, <1>6, <1>10

\* The tree that BuildTree hangs together shows a user every folder of theirs,
\* as long as no circle was closed: a folder that it does not reach would
\* have its parent, and that one's, among those it does not reach.
THEOREM TreesAreWhole == FoldersSpec => []TreeShowsAll
<1>1. ASSUME Table, Acyclic, NEW u \in User PROVE Shown(u) = Mine(u)
    <2> SUFFICES ASSUME NEW g \in Mine(u), NEW S \in SUBSET Mine(u), TreeRoots(u) \subseteq S,
                        \A h \in Mine(u) : parent[h] \in S => h \in S, g \notin S
                 PROVE  FALSE
        BY DEF Shown
    <2> DEFINE N == Mine(u) \ S
    <2>1. N \in SUBSET folders /\ N # {} BY DEF Mine
    <2>2. \A n \in N : parent[n] \in N BY DEF TreeRoots
    <2> HIDE DEF N
    <2> QED BY <1>1, <2>1, <2>2, ParentsEnd
<1>2. FoldersInv => TreeShowsAll BY <1>1 DEF FoldersInv, TreeShowsAll
<1> QED BY <1>2, FoldersInvariant, PTL

\* If moves come one at a time there is never a circle, whatever is created
\* and deleted during one ("Validates against circular references",
\* API.md:301); MCFolders shows that two are enough for one.
THEOREM MovesAloneAreSafe ==
    ASSUME \A r, q \in Req : r = q
    PROVE  FoldersSpec => []Acyclic
<1> DEFINE Alone == stale = {} /\ ~torn
<1>1. FoldersInit => Alone BY DEF FoldersInit
<1>2. Alone /\ [FoldersNext]_foldersVars => Alone'
    <2> SUFFICES ASSUME Alone, [FoldersNext]_foldersVars PROVE Alone' OBVIOUS
    <2>1. ASSUME NEW r \in Req, MoveStep(r) \/ FailMove(r) PROVE Alone'
        <3>1. CASE WriteMove(r) BY <3>1 DEF WriteMove
        <3> QED BY <2>1, <3>1
            DEF MoveStep, ReadChildren, RefuseMove, MissMove, CutMove, FailMove, EndMove
    <2>2. ASSUME NEW r \in Req, NEW id, NEW to, NEW own, StartMove(r, id, to, own) PROVE Alone'
        BY <2>2 DEF StartMove
    <2> QED BY <2>1, <2>2 DEF FoldersNext, CreateFolder, DeleteFolder, foldersVars
<1>3. FoldersInv /\ Alone => Acyclic BY DEF FoldersInv, CycleNeedsOverlap
<1> QED BY <1>1, <1>2, <1>3, FoldersInvariant, PTL DEF FoldersSpec
=============================================================================
