----------------------------- MODULE WorkItems -----------------------------
(***************************************************************************)
(* Background work items (package work): the table be_work_item, the       *)
(* workers of every replica that claim, run, renew, commit and fail its    *)
(* rows, the operator's actions and the recovery of the database.          *)
(*                                                                         *)
(* Every transaction of the code is one atomic action.  Wall-clock time is *)
(* not counted: a lease may expire, an item may become due and a wait may  *)
(* pass its limit at any moment, each by an action of its own.  Failures   *)
(* (a crash, a stall past the lease, a restart, a failed read, an operator *)
(* action, a database recovery) draw on one budget, MaxFaults.             *)
(***************************************************************************)
EXTENDS Naturals, FiniteSets

CONSTANTS
    Items,        \* work item IDs
    Workers,      \* the worker goroutines of all replicas
    Scenarios,    \* the jobs of the items, with the faults that may happen (see Scenario)
    MaxAttempts,  \* Job.MaxAttempts
    Segments,     \* how many checkpointed segments a singleton's run has
    MaxFaults,    \* bound: how many faults may happen
    MaxClaims     \* bound: how often one item is claimed

ErrorKinds == {"retryable", "permanent", "not_effective", "wait"}

\* A registered job: its kind and effect class, whether it bounds its business waits (MaxWait > 0), and the kinds
\* of errors its handler returns.
Job == [kind    : {"queue", "singleton"},
        effect  : {"local", "non_idempotent_external"},
        maxWait : BOOLEAN,
        errors  : SUBSET ErrorKinds]

\* What a behaviour starts from and never changes: every item's job, and the faults and operator actions that happen.
Scenario == [job    : [Items -> Job],
             faults : SUBSET {"crash", "stall", "stop", "renew", "read", "requeue", "verify",
                              "resolve", "hold", "failover", "restore"}]

ASSUME WorkConstants ==
    /\ Items # {} /\ Workers # {}
    /\ Scenarios \subseteq Scenario
    /\ MaxAttempts \in Nat \ {0} /\ Segments \in Nat
    /\ MaxFaults \in Nat /\ MaxClaims \in Nat

VARIABLES
    scenario,  \* the member of Scenarios this behaviour is about
    rows,      \* be_work_item, and the business rows its transactions write
    dbEpoch,   \* be_current_db_epoch(): raised by every failover and restore
    backup,    \* the rows a restore brings back
    run,       \* what each worker's goroutine knows of its claim (type Run)
    happened,  \* how often the item's external call took effect, outside the database
    faults     \* the faults spent so far

vars == <<scenario, rows, dbEpoch, backup, run, happened, faults>>

States == {"absent", "pending", "running", "retry_wait", "done", "dead", "paused", "resolved", "gone"}

(***************************************************************************)
(* A row.  cepoch is (claim_db_generation, claim_db_timeline); expired and *)
(* due stand for lease_until <= now() and run_at <= now(); waiting for     *)
(* waiting_since (unset, set, longer ago than MaxWait).  applied counts    *)
(* the effects the item's own transactions committed to business tables.   *)
(***************************************************************************)
Row == [state    : States,
        reason   : {"none", "outcome_unknown", "business_hold"},
        epoch    : Nat,
        cepoch   : Nat,
        attempts : Nat,
        expired  : BOOLEAN,
        due      : BOOLEAN,
        unknown  : BOOLEAN,
        waiting  : {"no", "yes", "over"},
        progress : Nat,
        applied  : Nat]

AbsentRow == [state |-> "absent", reason |-> "none", epoch |-> 0, cepoch |-> 0, attempts |-> 0,
              expired |-> FALSE, due |-> FALSE, unknown |-> FALSE, waiting |-> "no",
              progress |-> 0, applied |-> 0]

(***************************************************************************)
(* A worker's run: phase is where its goroutine is (a cancelled run may    *)
(* only return), call what its handler knows of the external call.         *)
(***************************************************************************)
Run == [phase    : {"idle", "handling", "cancelled", "completed"},
        item     : Items,
        epoch    : Nat,
        cepoch   : Nat,
        attempts : Nat,
        progress : Nat,
        call     : {"none", "marked", "effective", "not_effective", "unanswered"}]

Idle == [phase |-> "idle", item |-> CHOOSE i \in Items : TRUE, epoch |-> 0, cepoch |-> 0,
         attempts |-> 0, progress |-> 0, call |-> "none"]

Init ==
    /\ scenario \in Scenarios
    /\ rows = [i \in Items |-> AbsentRow]
    /\ dbEpoch = 1
    /\ backup = rows
    /\ run = [w \in Workers |-> Idle]
    /\ happened = [i \in Items |-> 0]
    /\ faults = 0

Kind(i) == scenario.job[i].kind
Effect(i) == scenario.job[i].effect
MaxWait(i) == scenario.job[i].maxWait

\* One fault of the budget: f must be among the faults of the scenario.
Spend(f) == f \in scenario.faults /\ faults < MaxFaults /\ faults' = faults + 1

\* One row changes.
Becomes(i, row) == rows' = [rows EXCEPT ![i] = row]

\* Mutation of Guard: the claim's database epoch is not compared.
GuardWithoutDbEpoch(w) ==
    rows[run[w].item].state = "running" /\ rows[run[w].item].epoch = run[w].epoch

\* The claim check every commit of a run carries.
Guard(w) ==
    LET r == run[w]  x == rows[r.item] IN
    /\ x.state = "running" /\ x.epoch = r.epoch
    /\ x.cepoch = r.cepoch /\ r.cepoch = dbEpoch

\* A run that is live and still holds its item.
Holds(w) == run[w].phase # "idle" /\ Guard(w)

-----------------------------------------------------------------------------
(* Items enter, become due, lose their leases.                             *)

\* EnqueueAt in a business transaction; ensureSingleton at the start of a replica.
Enqueue(i) ==
    /\ rows[i].state = "absent"
    /\ \E due \in BOOLEAN :
         /\ Kind(i) = "singleton" => due
         /\ Becomes(i, [rows[i] EXCEPT !.state = "pending", !.due = due])
    /\ UNCHANGED <<scenario, dbEpoch, backup, run, happened, faults>>

\* run_at passes.
BecomesDue(i) ==
    /\ rows[i].state \in {"pending", "retry_wait"} /\ ~rows[i].due
    /\ Becomes(i, [rows[i] EXCEPT !.due = TRUE])
    /\ UNCHANGED <<scenario, dbEpoch, backup, run, happened, faults>>

\* lease_until passes: by itself when nobody renews it, as a fault when the holder only stalled.
LeaseExpires(i) ==
    /\ rows[i].state = "running" /\ ~rows[i].expired
    /\ IF \E w \in Workers : run[w].item = i /\ run[w].phase = "handling" /\ Guard(w)
         THEN Spend("stall")
         ELSE UNCHANGED faults
    /\ Becomes(i, [rows[i] EXCEPT !.expired = TRUE])
    /\ UNCHANGED <<scenario, dbEpoch, backup, run, happened>>

\* waiting_since falls behind now() - MaxWait.
WaitPasses(i) ==
    /\ MaxWait(i) /\ rows[i].waiting = "yes"
    /\ Becomes(i, [rows[i] EXCEPT !.waiting = "over"])
    /\ UNCHANGED <<scenario, dbEpoch, backup, run, happened, faults>>

-----------------------------------------------------------------------------
(* Claims and leases.                                                      *)

Expired(i) == rows[i].state = "running" /\ rows[i].expired

\* Mutation of Claimable: expired leases are not taken over.
ClaimableNoTakeover(i) == rows[i].state \in {"pending", "retry_wait"} /\ rows[i].due

\* An expired lease first, else a due item.
Claimable(i) ==
    \/ Expired(i)
    \/ /\ rows[i].state \in {"pending", "retry_wait"} /\ rows[i].due
       /\ ~\E j \in Items : Expired(j)

\* The row as the claiming UPDATE leaves it.
Claimed(i) ==
    [rows[i] EXCEPT !.state = "running", !.epoch = @ + 1, !.attempts = @ + 1,
                    !.expired = FALSE, !.cepoch = dbEpoch]

\* Mutation of MustPause: outcome_unknown is not looked at when an item is claimed.
MustPauseNever(i) == FALSE

\* The claimed item goes to an operator instead of a handler: a call may have been sent before.
MustPause(i) == Effect(i) = "non_idempotent_external" /\ rows[i].unknown

claim(w, i) ==
    /\ run[w].phase = "idle"
    /\ Claimable(i) /\ rows[i].epoch < MaxClaims
    /\ IF MustPause(i)
         THEN /\ Becomes(i, [Claimed(i) EXCEPT !.state = "paused", !.reason = "outcome_unknown"])
              /\ UNCHANGED run
         ELSE /\ Becomes(i, Claimed(i))
              /\ run' = [run EXCEPT ![w] =
                    [phase |-> "handling", item |-> i, epoch |-> rows[i].epoch + 1,
                     cepoch |-> dbEpoch, attempts |-> rows[i].attempts + 1,
                     progress |-> rows[i].progress, call |-> "none"]]
    /\ UNCHANGED <<scenario, dbEpoch, backup, happened, faults>>

\* Mutation of exec: the update is not fenced by the claim.
execUnfenced(w, row, next) ==
    /\ Becomes(run[w].item, row)
    /\ run' = [run EXCEPT ![w] = next]

\* exec: the update `row' on the run's item if the claim still holds; a lost claim cancels the run.
exec(w, row, next) ==
    IF Guard(w)
      THEN /\ Becomes(run[w].item, row)
           /\ run' = [run EXCEPT ![w] = next]
      ELSE /\ run' = [run EXCEPT ![w].phase = "cancelled"]
           /\ UNCHANGED rows

\* The renewal goroutine: a renewal that fails, for whatever reason, cancels the run.
Renew(w) ==
    /\ run[w].phase = "handling"
    /\ \/ exec(w, [rows[run[w].item] EXCEPT !.expired = FALSE], run[w]) /\ UNCHANGED faults
       \/ /\ run' = [run EXCEPT ![w].phase = "cancelled"]
          /\ Spend("renew") /\ UNCHANGED rows
    /\ UNCHANGED <<scenario, dbEpoch, backup, happened>>

-----------------------------------------------------------------------------
(* What a handler does with its Run.                                       *)

\* BeforeCall: the row says "a call may have been sent" before the call is made.
BeforeCall(w) ==
    /\ run[w].phase = "handling" /\ run[w].call = "none"
    /\ Effect(run[w].item) = "non_idempotent_external"
    /\ exec(w, [rows[run[w].item] EXCEPT !.unknown = TRUE], [run[w] EXCEPT !.call = "marked"])
    /\ UNCHANGED <<scenario, dbEpoch, backup, happened, faults>>

\* The external call itself, after BeforeCall returned: it takes effect or not, and the answer may be lost.
\* A handler that was just cancelled may be past the point of noticing.
ExternalCall(w) ==
    /\ run[w].phase \in {"handling", "cancelled"} /\ run[w].call = "marked"
    /\ \E effective, answered \in BOOLEAN :
         /\ happened' = [happened EXCEPT ![run[w].item] = IF effective THEN @ + 1 ELSE @]
         /\ run' = [run EXCEPT ![w].call = IF ~answered THEN "unanswered"
                                          ELSE IF effective THEN "effective" ELSE "not_effective"]
    /\ UNCHANGED <<scenario, rows, dbEpoch, backup, faults>>

\* Checkpoint: a singleton's next segment, its progress and its effect in one transaction.
Checkpoint(w) ==
    /\ run[w].phase = "handling" /\ Kind(run[w].item) = "singleton"
    /\ run[w].progress < Segments
    /\ exec(w, [rows[run[w].item] EXCEPT !.progress = run[w].progress + 1, !.applied = @ + 1],
               [run[w] EXCEPT !.progress = @ + 1])
    /\ UNCHANGED <<scenario, dbEpoch, backup, happened, faults>>

\* Mutation of CompletedRow: the effect is committed in a transaction that does not finish the item.
CompletedRowLater(i, effect) == [rows[i] EXCEPT !.applied = @ + effect]

\* The row Complete writes; effect is 1 when the transaction carries the item's business effect.
CompletedRow(i, effect) ==
    IF Kind(i) = "singleton"
      THEN [rows[i] EXCEPT !.state = "pending", !.unknown = FALSE, !.waiting = "no", !.expired = FALSE,
                           !.attempts = 0, !.progress = 0, !.due = FALSE, !.applied = 0]
      ELSE [rows[i] EXCEPT !.state = "done", !.unknown = FALSE, !.waiting = "no", !.expired = FALSE,
                           !.applied = @ + effect]

\* A singleton's handler completes once it has committed its last segment.
MayComplete(w) == Kind(run[w].item) = "singleton" => run[w].progress = Segments

\* Complete called by the handler with its effect; a handler that made a call completes once it is effective.
Complete(w) ==
    /\ run[w].phase = "handling" /\ MayComplete(w)
    /\ run[w].call \in {"none", "effective"}
    /\ exec(w, CompletedRow(run[w].item, 1), [run[w] EXCEPT !.phase = "completed"])
    /\ UNCHANGED <<scenario, dbEpoch, backup, happened, faults>>

-----------------------------------------------------------------------------
(* The end of a run.                                                       *)

DeadRow(i) == [rows[i] EXCEPT !.state = "dead", !.unknown = FALSE, !.expired = FALSE]

\* Mutation of FailedRow: the attempt limit is judged before the unknown outcome.
FailedRowLimitFirst(w, kind, unknown, over) ==
    LET i == run[w].item IN
    IF kind = "permanent" \/ run[w].attempts >= MaxAttempts
      THEN DeadRow(i)
      ELSE IF unknown THEN [rows[i] EXCEPT !.state = "paused", !.reason = "outcome_unknown"]
                      ELSE [rows[i] EXCEPT !.state = "retry_wait", !.due = FALSE, !.expired = FALSE]

\* fail: the row a failed run leaves.  unknown is what the row's outcome_unknown read as, over whether
\* waiting_since read as longer ago than MaxWait.
FailedRow(w, kind, unknown, over) ==
    LET i == run[w].item IN
    CASE kind = "wait" /\ over      -> DeadRow(i)
      [] kind = "wait" /\ ~over     -> [rows[i] EXCEPT !.state = "retry_wait", !.attempts = @ - 1,
                                           !.waiting = IF @ = "no" THEN "yes" ELSE @,
                                           !.expired = FALSE, !.due = FALSE]
      [] kind = "permanent"         -> DeadRow(i)
      [] /\ kind \in {"retryable", "not_effective"}
         /\ Effect(i) = "non_idempotent_external" /\ kind # "not_effective" /\ unknown
                                    -> [rows[i] EXCEPT !.state = "paused", !.reason = "outcome_unknown",
                                           !.expired = FALSE]
      [] OTHER                      ->
           IF run[w].attempts >= MaxAttempts
             THEN DeadRow(i)
             ELSE [rows[i] EXCEPT !.state = "retry_wait", !.unknown = FALSE, !.expired = FALSE,
                                  !.due = FALSE]

\* What the handler may truthfully return: not_effective and permanent say the call had no effect.
Truthful(w, kind) ==
    kind \in {"not_effective", "permanent"} => run[w].call \in {"none", "not_effective"}

\* The handler returned an error: fail() reads the row and commits its verdict under the claim.  The two
\* reads of fail() ignore their errors and then see "not unknown" and "not waiting too long".
HandlerFails(w, kind) ==
    /\ run[w].phase = "handling" /\ kind \in scenario.job[run[w].item].errors /\ Truthful(w, kind)
    /\ LET x == rows[run[w].item] IN
       \/ exec(w, FailedRow(w, kind, x.unknown, MaxWait(run[w].item) /\ x.waiting = "over"), Idle) /\ UNCHANGED faults
       \/ exec(w, FailedRow(w, kind, FALSE, FALSE), Idle) /\ Spend("read")
    /\ UNCHANGED <<scenario, dbEpoch, backup, happened>>

\* The handler returned nil without calling Complete: the run completes the item with no further effect.
HandlerReturns(w) ==
    /\ run[w].phase = "handling" /\ MayComplete(w)
    /\ run[w].call \in {"none", "effective"}
    /\ exec(w, CompletedRow(run[w].item, 0), Idle)
    /\ UNCHANGED <<scenario, dbEpoch, backup, happened, faults>>

\* A cancelled or completed run has nothing more to commit.
RunEnds(w) ==
    /\ run[w].phase \in {"cancelled", "completed"}
    /\ run' = [run EXCEPT ![w] = Idle]
    /\ UNCHANGED <<scenario, rows, dbEpoch, backup, happened, faults>>

\* The lease released and the attempt given back.
GivenBack(i) == [rows[i] EXCEPT !.expired = TRUE, !.attempts = @ - 1]

\* Mutation of StopRun: the attempt is given back without the claim check.
StopRunUnfenced(w) ==
    /\ run[w].phase \in {"handling", "completed"} /\ Spend("stop")
    /\ Becomes(run[w].item, GivenBack(run[w].item))
    /\ run' = [run EXCEPT ![w] = Idle]
    /\ UNCHANGED <<scenario, dbEpoch, backup, happened>>

\* The replica stops: the run releases its lease and gives its attempt back.
StopRun(w) ==
    /\ run[w].phase \in {"handling", "completed"} /\ Spend("stop")
    /\ IF Guard(w) THEN Becomes(run[w].item, GivenBack(run[w].item)) ELSE UNCHANGED rows
    /\ run' = [run EXCEPT ![w] = Idle]
    /\ UNCHANGED <<scenario, dbEpoch, backup, happened>>

\* The process dies (or the last transaction of the run fails): the row stays as it is until its lease expires.
Crash(w) ==
    /\ run[w].phase # "idle" /\ Spend("crash")
    /\ run' = [run EXCEPT ![w] = Idle]
    /\ UNCHANGED <<scenario, rows, dbEpoch, backup, happened>>

-----------------------------------------------------------------------------
(* The operator, the cleanup and the recovery of the database.             *)

\* The operator truthfully records that the call did not take effect, and no handler is still about to make it.
VerifiedNotEffective(i) ==
    /\ happened[i] = 0
    /\ ~\E w \in Workers : run[w].item = i /\ run[w].call = "marked"

\* Mutation of Requeueable: everything that is not queued or running may be put back.
RequeueableFinished(i, verified) ==
    rows[i].state \in {"dead", "done", "resolved"} \/ (rows[i].state = "paused" /\ verified)

\* The states Requeue accepts.
Requeueable(i, verified) ==
    \/ rows[i].state = "dead" /\ ~rows[i].unknown
    \/ rows[i].state = "paused" /\ rows[i].reason = "business_hold"
    \/ rows[i].state = "paused" /\ rows[i].reason = "outcome_unknown" /\ verified

Requeue(i) ==
    /\ \/ Requeueable(i, FALSE) /\ Spend("requeue")
       \/ Requeueable(i, TRUE) /\ VerifiedNotEffective(i) /\ Spend("verify")
    /\ Becomes(i, [rows[i] EXCEPT !.state = "pending", !.reason = "none", !.attempts = 0,
                                  !.due = TRUE, !.unknown = FALSE, !.expired = FALSE])
    /\ UNCHANGED <<scenario, dbEpoch, backup, run, happened>>

Resolve(i) ==
    /\ rows[i].state \in {"dead", "paused"} /\ Spend("resolve")
    /\ Becomes(i, [rows[i] EXCEPT !.state = "resolved", !.reason = "none"])
    /\ UNCHANGED <<scenario, dbEpoch, backup, run, happened>>

Hold(i) ==
    /\ rows[i].state \in {"pending", "retry_wait"} /\ Spend("hold")
    /\ Becomes(i, [rows[i] EXCEPT !.state = "paused", !.reason = "business_hold"])
    /\ UNCHANGED <<scenario, dbEpoch, backup, run, happened>>

\* Purge: finished queue items past their retention; dead and paused ones stay.
Purge(i) ==
    /\ Kind(i) = "queue" /\ rows[i].state \in {"done", "resolved"}
    /\ Becomes(i, [rows[i] EXCEPT !.state = "gone"])
    /\ UNCHANGED <<scenario, dbEpoch, backup, run, happened, faults>>

\* External: the state a later restore brings back.
Backup ==
    /\ "restore" \in scenario.faults /\ backup # rows
    /\ backup' = rows
    /\ UNCHANGED <<scenario, rows, dbEpoch, run, happened, faults>>

\* External: a failover keeps the rows, a restore brings an earlier state back; both start a database epoch.
Recover ==
    /\ \/ UNCHANGED rows /\ Spend("failover")
       \/ rows' = backup /\ Spend("restore")
    /\ dbEpoch' = dbEpoch + 1
    /\ UNCHANGED <<scenario, backup, run, happened>>

-----------------------------------------------------------------------------
\* A worker's own step, other than the ones a fault causes.
WorkerStep(w) ==
    \/ \E i \in Items : claim(w, i)
    \/ BeforeCall(w) \/ ExternalCall(w) \/ Checkpoint(w) \/ Complete(w)
    \/ \E kind \in ErrorKinds : HandlerFails(w, kind)
    \/ HandlerReturns(w) \/ RunEnds(w)

\* Time passes for an item.
Passes(i) == BecomesDue(i) \/ LeaseExpires(i) \/ WaitPasses(i)

Next ==
    \/ \E w \in Workers : WorkerStep(w) \/ Renew(w) \/ StopRun(w) \/ Crash(w)
    \/ \E i \in Items : \/ Enqueue(i) \/ Passes(i)
                        \/ Requeue(i) \/ Resolve(i) \/ Hold(i) \/ Purge(i)
    \/ Backup \/ Recover

Spec == Init /\ [][Next]_vars

\* The poll keeps waking workers, every run has a deadline, and clocks advance.
Fairness ==
    /\ \A w \in Workers : WF_vars(WorkerStep(w))
    /\ \A i \in Items : WF_vars(Passes(i))

FairSpec == Spec /\ Fairness

-----------------------------------------------------------------------------
\* Every row and run is well formed; in particular no attempt is given back twice (attempts stays a natural
\* number through stops, waits and takeovers: StopRun, fail).
TypeOK ==
    /\ scenario \in Scenarios
    /\ rows \in [Items -> Row]
    /\ backup \in [Items -> Row]
    /\ dbEpoch \in Nat
    /\ run \in [Workers -> Run]
    /\ happened \in [Items -> Nat]
    /\ faults \in Nat

\* Two runs never both pass the claim check for one item, however claims, expired leases, failovers and
\* restores that reuse epoch counters interleave (run.go: guard).
AtMostOneHolder ==
    \A v, w \in Workers : (v # w /\ Holds(v) /\ Holds(w)) => run[v].item # run[w].item

\* A queue item's business effect is committed at most once, and only by the commit that finishes it
\* (Run.Complete), whatever crashes, takeovers and requeues happen.
EffectOnce ==
    \A i \in Items : Kind(i) = "queue" =>
        /\ rows[i].applied <= 1
        /\ rows[i].applied = 1 => rows[i].state \in {"done", "gone"}

\* A singleton's segments are committed in order and once each within a cycle: a takeover continues behind
\* the last committed progress (Run.Checkpoint).
SegmentsOnce ==
    \A i \in Items : Kind(i) = "singleton" => rows[i].applied = rows[i].progress

\* A non-idempotent call takes effect at most once per item: no later claim, retry or requeue sends it
\* again (runner.go: claim, fail; operator.go: Requeue).
CallSentAtMostOnce ==
    \A i \in Items : Effect(i) = "non_idempotent_external" => happened[i] <= 1

\* A dead item never has an unknown outcome: a call that took effect does not end in "dead"
\* (operator.go: Requeue accepts every dead item).
DeadOutcomeKnown ==
    \A i \in Items : rows[i].state = "dead" => happened[i] = 0

\* Within one database epoch a finished item never runs again.
FinishedStays ==
    [][dbEpoch' = dbEpoch =>
         \A i \in Items : /\ rows[i].state = "done" => rows'[i].state \in {"done", "gone"}
                          /\ rows[i].state = "resolved" => rows'[i].state \in {"resolved", "gone"}]_vars

Settled == {"done", "dead", "paused", "resolved", "gone"}

\* Every enqueued queue item is eventually finished or handed to an operator, through crashes, stalls, stops
\* and failovers (runner.go: work, claim, run, fail), unless a restore loses it or it is claimed as often as the
\* bound allows.
EverySettles ==
    \A i \in Items : (Kind(i) = "queue" /\ rows[i].state = "pending")
                        ~> (rows[i].state \in Settled \cup {"absent"} \/ rows[i].epoch = MaxClaims)
=============================================================================
