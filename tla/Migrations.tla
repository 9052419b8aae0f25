----------------------------- MODULE Migrations -----------------------------
(***************************************************************************)
(* RunMigrations of database/postgres.go: servers that start against one   *)
(* database, together or one after another, apply the numbered files that  *)
(* each was shipped with.  Every file is a transaction that also records   *)
(* its version; an error ends the process, which may be started again.     *)
(***************************************************************************)
EXTENDS Naturals, FiniteSets

CONSTANTS
    Server,
    Files,      \* how many files each server was shipped with
    MaxStarts   \* bound on the starts of a behaviour

ASSUME MigrationsAssumption == Files \in [Server -> Nat] /\ MaxStarts \in Nat

Version == UNION {1..Files[s] : s \in Server}

VARIABLES
    applied,    \* rows of schema_migrations
    effects,    \* how often the statements of each file were committed
    proc,       \* what each server is at
    file,       \* the file it is at
    starts

migrationsVars == <<applied, effects, proc, file, starts>>

MigrationsInit ==
    /\ applied = {}
    /\ effects = [v \in Version |-> 0]
    /\ proc = [s \in Server |-> "down"]
    /\ file = [s \in Server |-> 1]
    /\ starts = 0

Start(s) ==
    /\ proc[s] = "down"
    /\ starts < MaxStarts
    /\ starts' = starts + 1
    /\ proc' = [proc EXCEPT ![s] = "check"]
    /\ file' = [file EXCEPT ![s] = 1]
    /\ UNCHANGED <<applied, effects>>

Step(s, from, to) == proc[s] = from /\ proc' = [proc EXCEPT ![s] = to]

\* Mutant: the walk does not stop at the server's last file.
SkipBeyond(s) ==
    /\ file[s] \in applied
    /\ Step(s, "check", "check")
    /\ file' = [file EXCEPT ![s] = @ + 1]
    /\ UNCHANGED <<applied, effects, starts>>

SkipApplied(s) ==
    /\ file[s] \in applied /\ file[s] <= Files[s]
    /\ Step(s, "check", "check")
    /\ file' = [file EXCEPT ![s] = @ + 1]
    /\ UNCHANGED <<applied, effects, starts>>

\* The check is a query of its own, before the transaction begins.
BeginFile(s) ==
    /\ file[s] <= Files[s] /\ file[s] \notin applied
    /\ Step(s, "check", "execute")
    /\ UNCHANGED <<applied, effects, file, starts>>

\* Mutant: a file that fails is logged and the next one is tried.
ExecuteOrGoOn(s) ==
    /\ \/ Step(s, "execute", "record") /\ UNCHANGED file
       \/ Step(s, "execute", "check") /\ file' = [file EXCEPT ![s] = @ + 1]
    /\ UNCHANGED <<applied, effects, starts>>

\* The statements of the file may wait for another server that executes it;
\* when they conflict with what it left they fail.
Execute(s) ==
    /\ Step(s, "execute", "record")
    /\ UNCHANGED <<applied, effects, file, starts>>

\* Another transaction has inserted the row and is not over.
Locked(s) == \E q \in Server \ {s} : proc[q] = "commit" /\ file[q] = file[s]

\* Mutant: the table has no primary key.
RecordAnyway(s) ==
    /\ Step(s, "record", "commit")
    /\ UNCHANGED <<applied, effects, file, starts>>

\* INSERT waits for the primary key.
Record(s) ==
    /\ ~Locked(s) /\ file[s] \notin applied
    /\ Step(s, "record", "commit")
    /\ UNCHANGED <<applied, effects, file, starts>>

Commit(s) ==
    /\ Step(s, "commit", "check")
    /\ applied' = applied \cup {file[s]}
    /\ effects' = [effects EXCEPT ![file[s]] = @ + 1]
    /\ file' = [file EXCEPT ![s] = @ + 1]
    /\ UNCHANGED starts

\* Mutant: a server serves after its first file.
ServeEarly(s) ==
    /\ file[s] > 1
    /\ Step(s, "check", "serving")
    /\ UNCHANGED <<applied, effects, file, starts>>

Serve(s) ==
    /\ file[s] > Files[s]
    /\ Step(s, "check", "serving")
    /\ UNCHANGED <<applied, effects, file, starts>>

\* The insert fails: the other server has committed the version.
Conflict(s) ==
    /\ file[s] \in applied
    /\ Step(s, "record", "down")
    /\ UNCHANGED <<applied, effects, file, starts>>

\* A statement fails, the process is killed or stopped: an open transaction
\* is rolled back.
Down(s) ==
    /\ proc[s] # "down"
    /\ proc' = [proc EXCEPT ![s] = "down"]
    /\ UNCHANGED <<applied, effects, file, starts>>

\* Mutant: the insert waits for the row of a version for ever.
AdvanceNoConflict(s) ==
    SkipApplied(s) \/ BeginFile(s) \/ Execute(s) \/ Record(s) \/ Commit(s) \/ Serve(s)

Advance(s) ==
    \/ SkipApplied(s) \/ BeginFile(s) \/ Execute(s) \/ Record(s) \/ Commit(s) \/ Serve(s)
    \/ Conflict(s)

MigrationsNext == \E s \in Server : Start(s) \/ Advance(s) \/ Down(s)

MigrationsFair == \A s \in Server : WF_migrationsVars(Advance(s))

MigrationsSpec == MigrationsInit /\ [][MigrationsNext]_migrationsVars /\ MigrationsFair

----------------------------------------------------------------------------
(* Properties *)

Running == {"check", "execute", "record", "commit"}

MigrationsTypeOK ==
    /\ applied \subseteq Version
    /\ effects \in [Version -> Nat]
    /\ proc \in [Server -> Running \cup {"down", "serving"}]
    /\ file \in [Server -> Nat \ {0}] /\ \A s \in Server : file[s] <= Files[s] + 1
    /\ starts \in 0..MaxStarts

\* However many servers start together and whichever die, the statements of a
\* file take effect once, exactly when its version is recorded.
AppliedOnce == \A v \in Version : effects[v] = IF v \in applied THEN 1 ELSE 0

\* A version is applied after those before it, whatever files the servers
\* were shipped with.
InOrder == \A v \in applied : 1..v \subseteq applied

\* A server that serves has the schema of all its files.
ServesMigrated == \A s \in Server : proc[s] = "serving" => 1..Files[s] \subseteq applied

\* Every start ends, in a server that serves or a process that exits, though
\* servers wait for each other's transactions.
StartEnds == \A s \in Server : proc[s] \in Running ~> proc[s] \notin Running
=============================================================================
