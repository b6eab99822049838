------------------------------ MODULE Migrate ------------------------------
(***************************************************************************)
(* The migrate entry (db/migrate.go): deployment runs of different         *)
(* versions of a component migrate one schema at the same time.            *)
(*                                                                         *)
(* A runner applies its sets in order (the SDK's, then the component's).   *)
(* golang-migrate, which runs the files under an advisory lock with a      *)
(* dirty mark around each, is external: its Up is the steps Up, RunFile,   *)
(* FileFails and Unlock.  A file is one transaction, so a failed one       *)
(* leaves nothing.                                                         *)
(***************************************************************************)
EXTENDS Integers, Sequences, FiniteSets

CONSTANTS
    Runners,
    MigrationLockAttempts,  \* 5 in the code
    Scenarios       \* the newest file each runner ships of each set; faults

VARIABLES
    scenario,
    state,          \* per set, the state table: version and dirty mark
    applied,        \* per set, the files that took effect, in order
    lock,           \* per set, who holds the migration lock
    run,            \* per runner, where it is
    odds         \* faults left

vars == <<scenario, state, applied, lock, run, odds>>

-----------------------------------------------------------------------------
Sets == 1 .. 2
Nobody == "nobody"

Starting == [at |-> "check", set |-> 1, attempt |-> 1, failed |-> FALSE]

Newest(r) == scenario.newest[r][run[r].set]

Chance(kind) == odds[kind] > 0 /\ odds' = [odds EXCEPT ![kind] = @ - 1]

Ends(r, at) == run' = [run EXCEPT ![r].at = at]

\* The set is done: the next one, or the entry ends.
SetDone(r) ==
    run' = [run EXCEPT ![r] = IF run[r].set = Cardinality(Sets) THEN [@ EXCEPT !.at = "done"]
                              ELSE [Starting EXCEPT !.set = run[r].set + 1]]

\* Migrate: a refused file ends the entry before anything ran.
Lint(r) ==
    /\ run[r] = Starting /\ Chance("lint")
    /\ Ends(r, "refused")
    /\ UNCHANGED <<scenario, state, applied, lock>>

\* applyOnce reads the version before it locks: a schema a newer version has
\* migrated further is done.
Check(r) ==
    LET s == state[run[r].set]
    IN /\ run[r].at = "check"
       /\ IF ~s.dirty /\ s.version > Newest(r) THEN SetDone(r) ELSE Ends(r, "up")
       /\ UNCHANGED <<scenario, state, applied, lock, odds>>

\* migrateSet: a lock not granted is waited for a few times.
LockTimeout(r) ==
    /\ run' = [run EXCEPT ![r] = IF @.attempt < MigrationLockAttempts
                 THEN [Starting EXCEPT !.set = run[r].set, !.attempt = run[r].attempt + 1]
                 ELSE [@ EXCEPT !.at = "blocked"]]

\* Up takes the lock; it refuses a dirty state and a version it has no file of.
Up(r) ==
    LET n == run[r].set
        s == state[n]
    IN /\ run[r].at = "up" /\ lock[n] = Nobody
       /\ IF s.dirty THEN Ends(r, "dirty") /\ UNCHANGED lock
          ELSE IF s.version > Newest(r) THEN Ends(r, "unknown") /\ UNCHANGED lock
          ELSE Ends(r, "files") /\ lock' = [lock EXCEPT ![n] = r]
       /\ UNCHANGED <<scenario, state, applied, odds>>

\* Another runner holds the lock for longer than the wait.
UpBlocked(r) ==
    /\ run[r].at = "up" /\ lock[run[r].set] # Nobody
    /\ LockTimeout(r)
    /\ UNCHANGED <<scenario, state, applied, lock, odds>>

\* The next file is marked dirty before it runs.
Mark(r) ==
    LET n == run[r].set
    IN /\ run[r].at = "files" /\ state[n].version < Newest(r)
       /\ state' = [state EXCEPT ![n] = [version |-> @.version + 1, dirty |-> TRUE]]
       /\ Ends(r, "file")
       /\ UNCHANGED <<scenario, applied, lock, odds>>

RunFile(r) ==
    LET n == run[r].set
    IN /\ run[r].at = "file"
       /\ applied' = [applied EXCEPT ![n] = Append(@, state[n].version)]
       /\ Ends(r, "ran")
       /\ UNCHANGED <<scenario, state, lock, odds>>

Unmark(r) ==
    LET n == run[r].set
    IN /\ run[r].at = "ran"
       /\ state' = [state EXCEPT ![n].dirty = FALSE]
       /\ Ends(r, "files")
       /\ UNCHANGED <<scenario, applied, lock, odds>>

Unlock(r) ==
    LET n == run[r].set
    IN /\ run[r].at = "files" /\ state[n].version = Newest(r)
       /\ lock' = [lock EXCEPT ![n] = Nobody]
       /\ SetDone(r)
       /\ UNCHANGED <<scenario, state, applied, odds>>

\* The file fails, or a table lock it needs is not granted (waits): Up gives
\* the lock back and the dirty mark stays until resetFailed.
FileFails(r, waits) ==
    LET n == run[r].set
    IN /\ run[r].at = "file" /\ Chance("fail")
       /\ lock' = [lock EXCEPT ![n] = Nobody]
       /\ run' = [run EXCEPT ![r].at = "reset", ![r].failed = ~waits]
       /\ UNCHANGED <<scenario, state, applied>>

\* resetFailed: under the lock, a dirty mark goes back to the file before it;
\* then the entry ends with the file's error, or tries the lock again.
resetFailed(r) ==
    LET n == run[r].set
        s == state[n]
    IN /\ run[r].at = "reset" /\ lock[n] = Nobody
       /\ state' = IF s.dirty THEN [state EXCEPT ![n] = [version |-> s.version - 1, dirty |-> FALSE]]
                   ELSE state
       /\ IF run[r].failed THEN Ends(r, "failed") ELSE LockTimeout(r)
       /\ UNCHANGED <<scenario, applied, lock, odds>>

\* The runner dies: its session's lock is gone, its dirty mark stays.
Crash(r) ==
    /\ run[r].at \in {"files", "file", "ran", "reset"} /\ Chance("crash")
    /\ lock' = [n \in Sets |-> IF lock[n] = r THEN Nobody ELSE lock[n]]
    /\ Ends(r, "crashed")
    /\ UNCHANGED <<scenario, state, applied>>

\* The operator checks whether the marked file was applied and corrects the
\* state table, no runner being at work.
Correct(n) ==
    /\ state[n].dirty /\ lock[n] = Nobody
    /\ \A r \in Runners : run[r].at \notin {"files", "file", "ran", "reset"}
    /\ state' = [state EXCEPT ![n] = [version |-> Len(applied[n]), dirty |-> FALSE]]
    /\ UNCHANGED <<scenario, applied, lock, run, odds>>

\* The deployment runs the entry again.
Again(r) ==
    /\ run[r].at \in {"failed", "blocked", "dirty", "unknown", "crashed"} /\ Chance("again")
    /\ run' = [run EXCEPT ![r] = Starting]
    /\ UNCHANGED <<scenario, state, applied, lock>>

Init ==
    /\ scenario \in Scenarios
    /\ state = [n \in Sets |-> [version |-> scenario.from, dirty |-> FALSE]]
    /\ applied = [n \in Sets |-> [i \in 1 .. scenario.from |-> i]]
    /\ lock = [n \in Sets |-> Nobody]
    /\ run = [r \in Runners |-> Starting]
    /\ odds = scenario.odds

Step(r) ==
    \/ Check(r) \/ Up(r) \/ UpBlocked(r) \/ Mark(r) \/ RunFile(r) \/ Unmark(r) \/ Unlock(r)
    \/ resetFailed(r)

Next ==
    \/ \E r \in Runners :
        Step(r) \/ Lint(r) \/ Crash(r) \/ Again(r) \/ \E waits \in BOOLEAN : FileFails(r, waits)
    \/ \E n \in Sets : Correct(n)

Spec == Init /\ [][Next]_vars

-----------------------------------------------------------------------------
(* Properties.                                                             *)

\* Files take effect once each and in order, and a clean state table tells
\* which: a failed, blocked or crashed run never leaves a clean version whose
\* file did not run (applyOnce, resetFailed).
StateTellsApplied ==
    \A n \in Sets :
        /\ applied[n] = [i \in DOMAIN applied[n] |-> i]
        /\ ~state[n].dirty => state[n].version = Len(applied[n])

=============================================================================
