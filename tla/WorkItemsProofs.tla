-------------------------- MODULE WorkItemsProofs --------------------------
(***************************************************************************)
(* Proofs about WorkItems for any number of items and workers, any kinds   *)
(* and effects, any limits and any mixture of faults.                      *)
(*                                                                         *)
(* AtMostOneHolder is not inductive: that two runs do not pass the claim   *)
(* check together rests on every claim of the current database epoch       *)
(* having drawn a new item epoch.  ClaimsBehind says that no such claim is *)
(* ahead of its row, so that the next claim is new; EpochsBehind that no   *)
(* row, backup or run has seen a later database epoch, so that a recovery  *)
(* makes every earlier claim void.  HeldAttempts is what keeps attempts a  *)
(* natural number when a stop or a wait gives an attempt back.             *)
(*                                                                         *)
(* Who may write a row is settled by that; then comes what the writer      *)
(* knows of it.  EffectInv says that the rows and the backup carry an      *)
(* effect only when they are finished, and that a holder's progress is its *)
(* row's.  CallInv follows the external call: an item whose call may still *)
(* be sent, or took effect, is marked outcome_unknown or finished, and the *)
(* mark is on a held row exactly when its holder set it.                   *)
(***************************************************************************)
EXTENDS WorkItems, TLAPS

\* No row, backup or run comes from a database epoch later than the current one.
EpochsBehind ==
    /\ \A i \in Items : rows[i].cepoch <= dbEpoch /\ backup[i].cepoch <= dbEpoch
    /\ \A w \in Workers : run[w].cepoch <= dbEpoch

\* A live run whose claim was made in the current database epoch.
Current(w) == run[w].phase # "idle" /\ run[w].cepoch = dbEpoch

\* No current claim is ahead of its row.
ClaimsBehind ==
    \A w \in Workers : Current(w) => run[w].epoch <= rows[run[w].item].epoch

\* Two current claims of one item have different epochs.
ClaimsDistinct ==
    \A v, w \in Workers :
        (v # w /\ Current(v) /\ Current(w) /\ run[v].item = run[w].item) => run[v].epoch # run[w].epoch

\* A held item has an attempt to give back.
HeldAttempts == \A w \in Workers : Holds(w) => rows[run[w].item].attempts >= 1

\* The inductive invariant.
IInv == TypeOK /\ EpochsBehind /\ ClaimsBehind /\ ClaimsDistinct /\ HeldAttempts

-----------------------------------------------------------------------------
(* Types.                                                                  *)

\* The idle run is a run: there is an item for it to name.
LEMMA IdleIsRun == Idle \in Run
  BY WorkConstants, Zenon DEF Idle, Run

\* What matters of the idle run.
LEMMA IdleFields == Idle.phase = "idle" /\ Idle.cepoch = 0
  BY Zenon DEF Idle

\* The initial state satisfies the inductive invariant (Init: nothing enqueued, every worker idle).
LEMMA InitIInv == Init => IInv
  <1> SUFFICES ASSUME Init PROVE IInv
    BY Zenon
  <1>1. AbsentRow \in Row
    BY Zenon DEF AbsentRow, Row, States
  <1>2. TypeOK
    BY <1>1, IdleIsRun, Zenon DEF Init, TypeOK
  <1>3. \A w \in Workers : run[w].phase = "idle" /\ run[w].cepoch = 0
    BY Zenon DEF Init, Idle
  <1>4. EpochsBehind
    BY <1>3, SMTT(30) DEF Init, EpochsBehind, AbsentRow
  <1> QED
    BY <1>2, <1>3, <1>4, Zenon DEF IInv, ClaimsBehind, ClaimsDistinct, HeldAttempts, Current, Holds

\* A well formed row may take the place of another one.
LEMMA BecomesType ==
  ASSUME rows \in [Items -> Row], NEW i \in Items, NEW row \in Row, Becomes(i, row)
  PROVE  rows' \in [Items -> Row]
  BY Zenon DEF Becomes

\* exec keeps the tables well formed when the row and the run it writes are (run.go: exec).
LEMMA ExecTypes ==
  ASSUME TypeOK, NEW w \in Workers, NEW row, NEW next,
         exec(w, row, next), Guard(w) => row \in Row, next \in Run
  PROVE  rows' \in [Items -> Row] /\ run' \in [Workers -> Run]
  <1>1. run[w] \in Run /\ run[w].item \in Items
    BY Zenon DEF TypeOK, Run
  <1>2. CASE Guard(w)
    BY <1>1, <1>2, BecomesType, Zenon DEF exec, TypeOK
  <1>3. CASE ~Guard(w)
    <2>1. [run[w] EXCEPT !.phase = "cancelled"] \in Run
      BY <1>1, Zenon DEF Run
    <2> QED
      BY <1>3, <2>1, Zenon DEF exec, TypeOK
  <1> QED
    BY <1>2, <1>3, Zenon

\* A held row has an attempt to give back: one less is still a natural number.
LEMMA GiveBack ==
  ASSUME IInv, NEW w \in Workers, run[w].phase # "idle", Guard(w)
  PROVE  rows[run[w].item].attempts - 1 \in Nat
  <1>1. rows[run[w].item].attempts \in Nat
    BY Zenon DEF IInv, TypeOK, Run, Row
  <1>2. rows[run[w].item].attempts >= 1
    BY Zenon DEF IInv, HeldAttempts, Holds
  <1> QED
    BY <1>1, <1>2, SMTT(30)

\* The row a failed run leaves is well formed (runner.go: fail).
LEMMA FailedRowType ==
  ASSUME IInv, NEW w \in Workers, run[w].phase # "idle", Guard(w),
         NEW kind \in ErrorKinds, NEW unknown \in BOOLEAN, NEW over \in BOOLEAN
  PROVE  FailedRow(w, kind, unknown, over) \in Row
  <1> DEFINE r == rows[run[w].item]
  <1>1. r \in Row
    BY Zenon DEF IInv, TypeOK, Run
  <1>2. r.attempts - 1 \in Nat
    BY GiveBack, Zenon
  <1>3. kind \in {"retryable", "permanent", "not_effective", "wait"}
    BY Zenon DEF ErrorKinds
  <1>4. DeadRow(run[w].item) \in Row
    BY <1>1, Zenon DEF DeadRow, Row, States
  <1>5. [r EXCEPT !.state = "retry_wait", !.attempts = @ - 1, !.waiting = IF @ = "no" THEN "yes" ELSE @,
                  !.expired = FALSE, !.due = FALSE] \in Row
    BY <1>1, <1>2, Zenon DEF Row, States
  <1>6. [r EXCEPT !.state = "paused", !.reason = "outcome_unknown", !.expired = FALSE] \in Row
    BY <1>1, Zenon DEF Row, States
  <1>7. [r EXCEPT !.state = "retry_wait", !.unknown = FALSE, !.expired = FALSE, !.due = FALSE] \in Row
    BY <1>1, ZenonT(30) DEF Row, States
  <1> HIDE DEF r
  <1> QED
    BY <1>3, <1>4, <1>5, <1>6, <1>7, Zenon DEF FailedRow, r

\* The row a completed run leaves is well formed (run.go: Complete).
LEMMA CompletedRowType ==
  ASSUME TypeOK, NEW i \in Items, NEW effect \in Nat
  PROVE  CompletedRow(i, effect) \in Row
  <1>1. rows[i] \in Row
    BY Zenon DEF TypeOK
  <1>2. rows[i].applied + effect \in Nat
    BY <1>1, SMTT(30) DEF Row
  <1> QED
    BY <1>1, <1>2, Zenon DEF CompletedRow, Row, States

\* A step of a worker keeps the tables well formed.
LEMMA WorkerTypes ==
  ASSUME IInv, NEW w \in Workers,
         WorkerStep(w) \/ Renew(w) \/ StopRun(w) \/ Crash(w)
  PROVE  rows' \in [Items -> Row] /\ run' \in [Workers -> Run] /\ happened' \in [Items -> Nat]
  <1> DEFINE i == run[w].item
             r == rows[i]
  <1>0. /\ TypeOK
        /\ run[w] \in Run /\ i \in Items /\ r \in Row /\ happened[i] \in Nat
        /\ rows \in [Items -> Row] /\ run \in [Workers -> Run] /\ happened \in [Items -> Nat]
        /\ dbEpoch \in Nat
    BY Zenon DEF IInv, TypeOK, Run
  <1>a. happened' \in [Items -> Nat]
    <2>1. CASE ExternalCall(w)
      BY <1>0, <2>1, SMTT(30) DEF ExternalCall
    <2>2. CASE UNCHANGED happened
      BY <1>0, <2>2, Zenon
    <2> QED
      BY <2>1, <2>2, Zenon DEF WorkerStep, claim, BeforeCall, Checkpoint, Complete, HandlerFails, HandlerReturns, RunEnds,
                        Renew, StopRun, Crash
  <1> SUFFICES rows' \in [Items -> Row] /\ run' \in [Workers -> Run]
    BY <1>a, Zenon
  <1>1. ASSUME NEW j \in Items, claim(w, j) PROVE rows' \in [Items -> Row] /\ run' \in [Workers -> Run]
    <2>1. rows[j] \in Row /\ rows[j].epoch + 1 \in Nat /\ rows[j].attempts + 1 \in Nat
      BY <1>0, SMTT(30) DEF Row
    <2>2. Claimed(j) \in Row
      BY <1>0, <2>1, Zenon DEF Claimed, Row, States
    <2>4. [Claimed(j) EXCEPT !.state = "paused", !.reason = "outcome_unknown"] \in Row
      BY <2>2, Zenon DEF Row, States
    <2>3. [phase |-> "handling", item |-> j, epoch |-> rows[j].epoch + 1, cepoch |-> dbEpoch,
           attempts |-> rows[j].attempts + 1, progress |-> rows[j].progress, call |-> "none"] \in Run
      BY <1>0, <2>1, Zenon DEF Run, Row
    <2> QED
      BY <1>0, <1>1, <2>2, <2>3, <2>4, BecomesType, Zenon DEF claim
  <1>2. CASE BeforeCall(w)
    <2>1. [r EXCEPT !.unknown = TRUE] \in Row /\ [run[w] EXCEPT !.call = "marked"] \in Run
      BY <1>0, Zenon DEF Row, Run
    <2> QED
      BY <1>0, <1>2, <2>1, ExecTypes, Zenon DEF BeforeCall
  <1>3. CASE ExternalCall(w)
    BY <1>0, <1>3, SMTT(30) DEF ExternalCall, Run
  <1>4. CASE Checkpoint(w)
    <2>1. run[w].progress + 1 \in Nat /\ r.applied + 1 \in Nat
      BY <1>0, SMTT(30) DEF Row, Run
    <2>2. [r EXCEPT !.progress = run[w].progress + 1, !.applied = @ + 1] \in Row
      BY <1>0, <2>1, Zenon DEF Row
    <2>3. [run[w] EXCEPT !.progress = @ + 1] \in Run
      BY <1>0, <2>1, Zenon DEF Run
    <2> QED
      BY <1>0, <1>4, <2>2, <2>3, ExecTypes, Zenon DEF Checkpoint
  <1>5. CASE Complete(w)
    <2>1. CompletedRow(i, 1) \in Row /\ [run[w] EXCEPT !.phase = "completed"] \in Run
      BY <1>0, CompletedRowType, Zenon DEF Run
    <2> QED
      BY <1>0, <1>5, <2>1, ExecTypes, Zenon DEF Complete
  <1>6. ASSUME NEW kind \in ErrorKinds, HandlerFails(w, kind)
        PROVE  rows' \in [Items -> Row] /\ run' \in [Workers -> Run]
    <2>1. run[w].phase # "idle"
      BY <1>6, Zenon DEF HandlerFails
    <2>2. r.unknown \in BOOLEAN /\ (MaxWait(run[w].item) /\ r.waiting = "over") \in BOOLEAN
      BY <1>0, WorkConstants, Zenon DEF Row
    <2>3. /\ Guard(w) => FailedRow(w, kind, r.unknown, MaxWait(run[w].item) /\ r.waiting = "over") \in Row
          /\ Guard(w) => FailedRow(w, kind, FALSE, FALSE) \in Row
      BY <2>1, <2>2, FailedRowType, Zenon
    <2>4. \/ exec(w, FailedRow(w, kind, r.unknown, MaxWait(run[w].item) /\ r.waiting = "over"), Idle)
          \/ exec(w, FailedRow(w, kind, FALSE, FALSE), Idle)
      BY <1>6, Zenon DEF HandlerFails
    <2> QED
      BY <1>0, <2>3, <2>4, IdleIsRun, ExecTypes, Zenon
  <1>7. CASE HandlerReturns(w)
    <2>1. CompletedRow(i, 0) \in Row
      BY <1>0, CompletedRowType, Zenon
    <2> QED
      BY <1>0, <1>7, <2>1, IdleIsRun, ExecTypes, Zenon DEF HandlerReturns
  <1>8. CASE RunEnds(w) \/ Crash(w)
    BY <1>0, <1>8, IdleIsRun, Zenon DEF RunEnds, Crash
  <1>9. CASE Renew(w)
    <2>1. [r EXCEPT !.expired = FALSE] \in Row /\ [run[w] EXCEPT !.phase = "cancelled"] \in Run
      BY <1>0, Zenon DEF Row, Run
    <2>2. CASE exec(w, [r EXCEPT !.expired = FALSE], run[w])
      BY <1>0, <2>1, <2>2, ExecTypes, Zenon
    <2>3. CASE run' = [run EXCEPT ![w].phase = "cancelled"] /\ UNCHANGED rows
      BY <1>0, <2>1, <2>3, Zenon
    <2> QED
      BY <1>9, <2>2, <2>3, Zenon DEF Renew
  <1>10. CASE StopRun(w)
    <2>1. run' \in [Workers -> Run]
      BY <1>0, <1>10, IdleIsRun, Zenon DEF StopRun
    <2>2. CASE Guard(w)
      <3>1. r.attempts - 1 \in Nat
        BY <1>10, <2>2, GiveBack, Zenon DEF StopRun
      <3>2. GivenBack(i) \in Row
        BY <1>0, <3>1, Zenon DEF Row, GivenBack
      <3> QED
        BY <1>0, <1>10, <2>1, <2>2, <3>2, BecomesType, Zenon DEF StopRun
    <2>3. CASE ~Guard(w)
      BY <1>0, <1>10, <2>1, <2>3, Zenon DEF StopRun
    <2> QED
      BY <2>2, <2>3, Zenon
  <1> QED
    BY <1>1, <1>2, <1>3, <1>4, <1>5, <1>6, <1>7, <1>8, <1>9, <1>10, Zenon DEF WorkerStep

\* The type invariant is kept by every step.
LEMMA TypeStep == IInv /\ [Next]_vars => TypeOK'
  <1> SUFFICES ASSUME IInv, [Next]_vars PROVE TypeOK'
    BY Zenon
  <1>0. /\ rows \in [Items -> Row] /\ backup \in [Items -> Row] /\ run \in [Workers -> Run]
        /\ happened \in [Items -> Nat] /\ dbEpoch \in Nat /\ faults \in Nat /\ scenario \in Scenarios
    BY Zenon DEF IInv, TypeOK
  <1>1. scenario' \in Scenarios /\ faults' \in Nat /\ dbEpoch' \in Nat /\ backup' \in [Items -> Row]
    <2>1. /\ scenario' = scenario /\ faults' \in {faults, faults + 1}
          /\ dbEpoch' \in {dbEpoch, dbEpoch + 1} /\ backup' \in {backup, rows}
      BY ZenonT(30) DEF Next, vars, WorkerStep, Passes, Spend, claim, BeforeCall, ExternalCall, Checkpoint, Complete,
             HandlerFails, HandlerReturns, RunEnds, Renew, StopRun, Crash, Enqueue, BecomesDue, LeaseExpires,
             WaitPasses, Requeue, Resolve, Hold, Purge, Backup, Recover
    <2> QED
      BY <1>0, <2>1, SMTT(30)
  <1>2. ASSUME NEW w \in Workers, WorkerStep(w) \/ Renew(w) \/ StopRun(w) \/ Crash(w)
        PROVE  rows' \in [Items -> Row] /\ run' \in [Workers -> Run] /\ happened' \in [Items -> Nat]
    BY <1>2, WorkerTypes, Zenon
  <1>3. ASSUME NEW i \in Items,
               Enqueue(i) \/ Passes(i) \/ Requeue(i) \/ Resolve(i) \/ Hold(i) \/ Purge(i)
        PROVE  rows' \in [Items -> Row] /\ UNCHANGED <<run, happened>>
    <2>1. rows[i] \in Row
      BY <1>0, Zenon
    <2>2. UNCHANGED <<run, happened>>
      BY <1>3, Zenon DEF Enqueue, Passes, BecomesDue, LeaseExpires, WaitPasses, Requeue, Resolve, Hold, Purge
    <2>3. ASSUME NEW due \in BOOLEAN, Becomes(i, [rows[i] EXCEPT !.state = "pending", !.due = due])
          PROVE  rows' \in [Items -> Row]
      <3>1. [rows[i] EXCEPT !.state = "pending", !.due = due] \in Row
        BY <2>1, Zenon DEF Row, States
      <3> QED
        BY <1>0, <2>3, <3>1, BecomesType, Zenon
    <2>4. /\ [rows[i] EXCEPT !.due = TRUE] \in Row
          /\ [rows[i] EXCEPT !.expired = TRUE] \in Row
          /\ [rows[i] EXCEPT !.waiting = "over"] \in Row
      BY <2>1, Zenon DEF Row
    <2>5. [rows[i] EXCEPT !.state = "pending", !.reason = "none", !.attempts = 0, !.due = TRUE, !.unknown = FALSE,
                          !.expired = FALSE] \in Row
      BY <2>1, Zenon DEF Row, States
    <2>6. /\ [rows[i] EXCEPT !.state = "resolved", !.reason = "none"] \in Row
          /\ [rows[i] EXCEPT !.state = "paused", !.reason = "business_hold"] \in Row
          /\ [rows[i] EXCEPT !.state = "gone"] \in Row
      BY <2>1, Zenon DEF Row, States
    <2>7. CASE Enqueue(i)
      BY <2>2, <2>3, <2>7, Zenon DEF Enqueue
    <2>8. CASE Passes(i)
      BY <1>0, <2>2, <2>4, <2>8, BecomesType, Zenon DEF Passes, BecomesDue, LeaseExpires, WaitPasses
    <2>9. CASE Requeue(i) \/ Resolve(i) \/ Hold(i) \/ Purge(i)
      BY <1>0, <2>2, <2>5, <2>6, <2>9, BecomesType, Zenon DEF Requeue, Resolve, Hold, Purge
    <2> QED
      BY <1>3, <2>7, <2>8, <2>9, Zenon
  <1>4. ASSUME Backup \/ Recover \/ UNCHANGED vars PROVE rows' \in [Items -> Row] /\ UNCHANGED <<run, happened>>
    BY <1>0, <1>4, Zenon DEF Backup, Recover, vars
  <1> QED
    <2>1. rows' \in [Items -> Row] /\ run' \in [Workers -> Run] /\ happened' \in [Items -> Nat]
      BY <1>0, <1>2, <1>3, <1>4, Zenon DEF Next
    <2> QED
      BY <1>1, <2>1, Zenon DEF TypeOK

-----------------------------------------------------------------------------
(* Claims.                                                                 *)

\* A worker makes no claim: its run ends or keeps what it has.
KeepsClaim(w) ==
    \/ run'[w] = Idle
    \/ /\ run'[w].phase # "idle" => run[w].phase # "idle"
       /\ run'[w].item = run[w].item
       /\ run'[w].epoch = run[w].epoch
       /\ run'[w].cepoch = run[w].cepoch

\* Steps that make no claim: runs keep theirs or end, rows keep their epochs and start to be "running" never, and
\* what is still held keeps its attempts.
Calm ==
    /\ dbEpoch' = dbEpoch
    /\ backup' \in {backup, rows}
    /\ \A i \in Items : /\ rows'[i].epoch = rows[i].epoch
                        /\ rows'[i].cepoch = rows[i].cepoch
                        /\ rows'[i].state = "running" => rows[i].state = "running"
    /\ \A w \in Workers : KeepsClaim(w)
    /\ \A w \in Workers : Holds(w)' => rows'[run[w].item].attempts = rows[run[w].item].attempts

\* After a calm step an item is held only by the run that held it before.
LEMMA CalmHolds ==
  ASSUME IInv, Calm, NEW w \in Workers, Holds(w)'
  PROVE  Holds(w) /\ run'[w].item = run[w].item
  <1>1. run[w].item \in Items
    BY Zenon DEF IInv, TypeOK, Run
  <1>2. /\ run'[w].phase # "idle" /\ run[w].phase # "idle" /\ run'[w].item = run[w].item
        /\ run'[w].epoch = run[w].epoch /\ run'[w].cepoch = run[w].cepoch
    BY IdleFields, Zenon DEF Calm, KeepsClaim, Holds
  <1> QED
    BY <1>1, <1>2, Zenon DEF Holds, Guard, Calm

\* A calm step keeps the inductive invariant.
LEMMA CalmStep == ASSUME IInv, TypeOK', Calm PROVE IInv'
  <1>0. /\ rows \in [Items -> Row] /\ backup \in [Items -> Row] /\ run \in [Workers -> Run] /\ dbEpoch \in Nat
        /\ \A w \in Workers : run[w].item \in Items /\ run[w].cepoch \in Nat /\ run[w].epoch \in Nat
        /\ \A w \in Workers : run'[w].phase # "idle" => run[w].phase # "idle" /\ run'[w].item = run[w].item
                                /\ run'[w].epoch = run[w].epoch /\ run'[w].cepoch = run[w].cepoch
    BY IdleFields, Zenon DEF IInv, TypeOK, Run, Calm, KeepsClaim
  <1>1. EpochsBehind'
    <2>1. \A i \in Items : rows'[i].cepoch <= dbEpoch /\ backup'[i].cepoch <= dbEpoch
      BY Zenon DEF IInv, EpochsBehind, Calm
    <2>2. Idle.cepoch <= dbEpoch
      BY <1>0, IdleFields, SMTT(30)
    <2>3. \A w \in Workers : run'[w].cepoch <= dbEpoch
      BY <2>2, Zenon DEF IInv, EpochsBehind, Calm, KeepsClaim
    <2> QED
      BY <2>1, <2>3, Zenon DEF EpochsBehind, Calm
  <1>2. ClaimsBehind'
    BY <1>0, SMTT(30) DEF IInv, ClaimsBehind, Current, Calm
  <1>3. ClaimsDistinct'
    BY <1>0, SMTT(30) DEF IInv, ClaimsDistinct, Current, Calm
  <1>4. HeldAttempts'
    <2> SUFFICES ASSUME NEW w \in Workers, Holds(w)' PROVE rows'[run'[w].item].attempts >= 1
      BY Zenon DEF HeldAttempts
    <2> QED
      BY CalmHolds, Zenon DEF IInv, HeldAttempts, Calm
  <1> QED
    BY <1>1, <1>2, <1>3, <1>4, Zenon DEF IInv

\* A new row that keeps the epochs of the old one, and runs that keep their claims, make a calm step.
LEMMA BecomesCalm ==
  ASSUME IInv, NEW i \in Items, NEW row, Becomes(i, row),
         row.epoch = rows[i].epoch, row.cepoch = rows[i].cepoch,
         row.state = "running" => rows[i].state = "running" /\ row.attempts = rows[i].attempts,
         UNCHANGED <<dbEpoch, backup>>,
         \A w \in Workers : KeepsClaim(w)
  PROVE  Calm
  <1>1. rows \in [Items -> Row] /\ \A w \in Workers : run[w].item \in Items
    BY Zenon DEF IInv, TypeOK, Run
  <1>2. \A j \in Items : rows'[j] = IF j = i THEN row ELSE rows[j]
    BY <1>1, Zenon DEF Becomes
  <1>3. ASSUME NEW w \in Workers, Holds(w)'
        PROVE  rows'[run[w].item].attempts = rows[run[w].item].attempts
    <2>1. run'[w].item = run[w].item
      BY <1>3, IdleFields, Zenon DEF Holds, KeepsClaim
    <2>2. rows'[run[w].item].state = "running"
      BY <1>3, <2>1, Zenon DEF Holds, Guard
    <2> QED
      BY <1>1, <1>2, <2>2, Zenon
  <1> QED
    BY <1>2, <1>3, Zenon DEF Calm

\* exec makes a calm step when the row keeps its epochs and, while it stays "running", its attempts
\* (run.go: exec).
LEMMA ExecCalm ==
  ASSUME IInv, NEW w \in Workers, NEW row, NEW next, run[w].phase # "idle", exec(w, row, next),
         UNCHANGED <<dbEpoch, backup>>,
         row.epoch = rows[run[w].item].epoch, row.cepoch = rows[run[w].item].cepoch,
         row.state = "running" => row.attempts = rows[run[w].item].attempts,
         next = Idle \/ (next.item = run[w].item /\ next.epoch = run[w].epoch /\ next.cepoch = run[w].cepoch)
  PROVE  Calm
  <1>1. run \in [Workers -> Run] /\ run[w] \in Run /\ run[w].item \in Items
    BY Zenon DEF IInv, TypeOK, Run
  <1>2. CASE Guard(w)
    <2>1. run' = [run EXCEPT ![w] = next] /\ Becomes(run[w].item, row)
      BY <1>2, Zenon DEF exec
    <2>2. \A v \in Workers : KeepsClaim(v)
      BY <1>1, <2>1, Zenon DEF KeepsClaim
    <2>3. rows[run[w].item].state = "running"
      BY <1>2, Zenon DEF Guard
    <2> QED
      BY <1>1, <2>1, <2>2, <2>3, BecomesCalm, Zenon
  <1>3. CASE ~Guard(w)
    <2>1. rows' = rows /\ run' = [run EXCEPT ![w].phase = "cancelled"]
      BY <1>3, Zenon DEF exec
    <2>2. \A v \in Workers : KeepsClaim(v)
      BY <1>1, <2>1, Zenon DEF Run, KeepsClaim
    <2> QED
      BY <2>1, <2>2, Zenon DEF Calm
  <1> QED
    BY <1>2, <1>3, Zenon

\* Every step of a worker that is neither a claim nor the release of a lease is calm.
LEMMA WorkerCalm ==
  ASSUME IInv, NEW w \in Workers,
         \/ BeforeCall(w) \/ ExternalCall(w) \/ Checkpoint(w) \/ Complete(w) \/ HandlerReturns(w)
         \/ \E kind \in ErrorKinds : HandlerFails(w, kind)
         \/ RunEnds(w) \/ Renew(w) \/ Crash(w)
  PROVE  Calm
  <1> DEFINE i == run[w].item
             r == rows[i]
  <1>0. run \in [Workers -> Run] /\ run[w] \in Run /\ i \in Items /\ r \in Row
    BY Zenon DEF IInv, TypeOK, Run
  <1>a. UNCHANGED <<dbEpoch, backup>>
    BY Zenon DEF BeforeCall, ExternalCall, Checkpoint, Complete, HandlerReturns, HandlerFails, RunEnds, Renew, Crash
  <1>1. CASE BeforeCall(w)
    BY <1>0, <1>1, <1>a, ExecCalm, Zenon DEF BeforeCall, Row, Run
  <1>2. CASE Checkpoint(w)
    <2>1. /\ [r EXCEPT !.progress = run[w].progress + 1, !.applied = @ + 1].epoch = r.epoch
          /\ [r EXCEPT !.progress = run[w].progress + 1, !.applied = @ + 1].cepoch = r.cepoch
          /\ [r EXCEPT !.progress = run[w].progress + 1, !.applied = @ + 1].attempts = r.attempts
      BY <1>0, Zenon DEF Row
    <2>2. /\ [run[w] EXCEPT !.progress = @ + 1].item = run[w].item
          /\ [run[w] EXCEPT !.progress = @ + 1].epoch = run[w].epoch
          /\ [run[w] EXCEPT !.progress = @ + 1].cepoch = run[w].cepoch
      BY <1>0, Zenon DEF Run
    <2> QED
      BY <1>0, <1>2, <1>a, <2>1, <2>2, ExecCalm, Zenon DEF Checkpoint
  <1>3. CASE Complete(w)
    <2>1. /\ CompletedRow(i, 1).epoch = r.epoch /\ CompletedRow(i, 1).cepoch = r.cepoch
          /\ CompletedRow(i, 1).state # "running"
      BY <1>0, Zenon DEF CompletedRow, Row
    <2> QED
      BY <1>0, <1>3, <1>a, <2>1, ExecCalm, Zenon DEF Complete, Run
  <1>4. CASE HandlerReturns(w)
    <2>1. /\ CompletedRow(i, 0).epoch = r.epoch /\ CompletedRow(i, 0).cepoch = r.cepoch
          /\ CompletedRow(i, 0).state # "running"
      BY <1>0, Zenon DEF CompletedRow, Row
    <2> QED
      BY <1>0, <1>4, <1>a, <2>1, ExecCalm, Zenon DEF HandlerReturns
  <1>5. ASSUME NEW kind \in ErrorKinds, HandlerFails(w, kind) PROVE Calm
    <2>1. \A unknown, over \in BOOLEAN :
            /\ FailedRow(w, kind, unknown, over).epoch = r.epoch
            /\ FailedRow(w, kind, unknown, over).cepoch = r.cepoch
            /\ FailedRow(w, kind, unknown, over).state # "running"
      BY <1>0, WorkConstants, SMTT(30) DEF FailedRow, DeadRow, Row
    <2>2. PICK unknown, over \in BOOLEAN : exec(w, FailedRow(w, kind, unknown, over), Idle)
      <3>1. r.unknown \in BOOLEAN /\ (MaxWait(run[w].item) /\ r.waiting = "over") \in BOOLEAN
        BY <1>0, WorkConstants, Zenon DEF Row
      <3> QED
        BY <1>5, <3>1, Zenon DEF HandlerFails
    <2>3. run[w].phase # "idle"
      BY <1>5, Zenon DEF HandlerFails
    <2> QED
      BY <1>0, <1>a, <2>1, <2>2, <2>3, ExecCalm, Zenon
  <1>6. CASE Renew(w)
    <2>1. CASE exec(w, [r EXCEPT !.expired = FALSE], run[w])
      BY <1>0, <1>6, <1>a, <2>1, ExecCalm, Zenon DEF Renew, Row, Run
    <2>2. CASE run' = [run EXCEPT ![w].phase = "cancelled"] /\ UNCHANGED rows
      <3>1. \A v \in Workers : KeepsClaim(v)
        BY <1>0, <1>6, <2>2, Zenon DEF KeepsClaim, Run, Renew
      <3> QED
        BY <1>a, <2>2, <3>1, Zenon DEF Calm
    <2> QED
      BY <1>6, <2>1, <2>2, Zenon DEF Renew
  <1>7. CASE ExternalCall(w) \/ RunEnds(w) \/ Crash(w)
    <2>1. rows' = rows
      BY <1>7, Zenon DEF ExternalCall, RunEnds, Crash
    <2>2. \A v \in Workers : KeepsClaim(v)
      BY <1>0, <1>7, SMTT(30) DEF KeepsClaim, Run, ExternalCall, RunEnds, Crash
    <2> QED
      BY <1>a, <2>1, <2>2, Zenon DEF Calm
  <1> QED
    BY <1>1, <1>2, <1>3, <1>4, <1>5, <1>6, <1>7, Zenon

\* Time, the operator, the purge, a backup and stuttering are calm.
LEMMA ItemCalm ==
  ASSUME IInv,
         \/ \E i \in Items : Enqueue(i) \/ Passes(i) \/ Requeue(i) \/ Resolve(i) \/ Hold(i) \/ Purge(i)
         \/ Backup \/ UNCHANGED vars
  PROVE  Calm
  <1>1. dbEpoch' = dbEpoch /\ backup' \in {backup, rows} /\ run' = run
    BY Zenon DEF Enqueue, Passes, BecomesDue, LeaseExpires, WaitPasses, Requeue, Resolve, Hold, Purge, Backup, vars
  <1>2. \A w \in Workers : KeepsClaim(w)
    BY <1>1, Zenon DEF KeepsClaim
  <1>3. CASE rows' = rows
    BY <1>1, <1>2, <1>3, Zenon DEF Calm
  <1>4. ASSUME NEW i \in Items,
               Enqueue(i) \/ Passes(i) \/ Requeue(i) \/ Resolve(i) \/ Hold(i) \/ Purge(i)
        PROVE  Calm
    <2>0. rows[i] \in Row
      BY Zenon DEF IInv, TypeOK
    <2>1. backup' = backup
      BY <1>4, Zenon DEF Enqueue, Passes, BecomesDue, LeaseExpires, WaitPasses, Requeue, Resolve, Hold, Purge
    <2> DEFINE Fine(row) ==
                 /\ row.epoch = rows[i].epoch /\ row.cepoch = rows[i].cepoch
                 /\ row.state = "running" => rows[i].state = "running" /\ row.attempts = rows[i].attempts
    <2>2. \A due \in BOOLEAN : Fine([rows[i] EXCEPT !.state = "pending", !.due = due])
      BY <2>0, Zenon DEF Row
    <2>3. /\ Fine([rows[i] EXCEPT !.due = TRUE])
          /\ Fine([rows[i] EXCEPT !.expired = TRUE])
          /\ Fine([rows[i] EXCEPT !.waiting = "over"])
      BY <2>0, Zenon DEF Row
    <2>4. /\ Fine([rows[i] EXCEPT !.state = "pending", !.reason = "none", !.attempts = 0, !.due = TRUE,
                                  !.unknown = FALSE, !.expired = FALSE])
          /\ Fine([rows[i] EXCEPT !.state = "resolved", !.reason = "none"])
          /\ Fine([rows[i] EXCEPT !.state = "paused", !.reason = "business_hold"])
          /\ Fine([rows[i] EXCEPT !.state = "gone"])
      BY <2>0, Zenon DEF Row
    <2>5. ASSUME NEW row, Becomes(i, row), Fine(row) PROVE Calm
      BY <1>1, <1>2, <2>1, <2>5, BecomesCalm, Zenon
    <2> HIDE DEF Fine
    <2>6. CASE Enqueue(i)
      BY <2>2, <2>5, <2>6, Zenon DEF Enqueue
    <2>7. CASE Passes(i)
      BY <2>3, <2>5, <2>7, Zenon DEF Passes, BecomesDue, LeaseExpires, WaitPasses
    <2>8. CASE Requeue(i) \/ Resolve(i) \/ Hold(i) \/ Purge(i)
      BY <2>4, <2>5, <2>8, Zenon DEF Requeue, Resolve, Hold, Purge
    <2> QED
      BY <1>4, <2>6, <2>7, <2>8, Zenon
  <1> QED
    BY <1>3, <1>4, Zenon DEF Backup, vars

\* A claim draws an item epoch no other current claim has (runner.go: claim).
LEMMA ClaimStep ==
  ASSUME IInv, TypeOK', NEW w \in Workers, NEW i \in Items, claim(w, i)
  PROVE  IInv'
  <1>0. /\ rows \in [Items -> Row] /\ rows[i] \in Row /\ run \in [Workers -> Run] /\ dbEpoch \in Nat
        /\ \A v \in Workers : run[v].item \in Items /\ run[v].epoch \in Nat /\ run[v].cepoch \in Nat
        /\ rows[i].epoch \in Nat /\ rows[i].attempts \in Nat
        /\ dbEpoch' = dbEpoch /\ backup' = backup
    BY Zenon DEF IInv, TypeOK, Row, Run, claim
  <1>1. PICK row : /\ Becomes(i, row) /\ row.epoch = rows[i].epoch + 1 /\ row.cepoch = dbEpoch
                   /\ row.attempts = rows[i].attempts + 1
    <2>1. /\ Claimed(i).epoch = rows[i].epoch + 1 /\ Claimed(i).cepoch = dbEpoch
          /\ Claimed(i).attempts = rows[i].attempts + 1
          /\ DOMAIN Claimed(i) = DOMAIN rows[i]
      BY <1>0, Zenon DEF Claimed, Row
    <2>2. LET paused == [Claimed(i) EXCEPT !.state = "paused", !.reason = "outcome_unknown"] IN
          /\ paused.epoch = Claimed(i).epoch /\ paused.cepoch = Claimed(i).cepoch
          /\ paused.attempts = Claimed(i).attempts
      BY <1>0, Zenon DEF Claimed, Row
    <2> QED
      BY <2>1, <2>2, Zenon DEF claim
  <1>2. \A j \in Items : rows'[j] = IF j = i THEN row ELSE rows[j]
    BY <1>0, <1>1, Zenon DEF Becomes
  <1>3. \A v \in Workers :
          \/ run'[v] = run[v]
          \/ v = w /\ run'[v].item = i /\ run'[v].epoch = rows[i].epoch + 1 /\ run'[v].cepoch = dbEpoch
    BY <1>0, SMTT(30) DEF claim
  <1>4. EpochsBehind'
    BY <1>0, <1>1, <1>2, <1>3, SMTT(30) DEF IInv, EpochsBehind
  <1>5. ClaimsBehind'
    BY <1>0, <1>1, <1>2, <1>3, SMTT(30) DEF IInv, ClaimsBehind, Current
  <1>6. ClaimsDistinct'
    BY <1>0, <1>3, SMTT(30) DEF IInv, ClaimsBehind, ClaimsDistinct, Current
  <1>7. HeldAttempts'
    <2> SUFFICES ASSUME NEW v \in Workers, Holds(v)' PROVE rows'[run'[v].item].attempts >= 1
      BY Zenon DEF HeldAttempts
    <2>1. CASE run'[v].item = i
      BY <1>0, <1>1, <1>2, <2>1, SMTT(30)
    <2>2. CASE run'[v].item # i
      BY <1>0, <1>2, <1>3, <2>2, SMTT(30) DEF IInv, HeldAttempts, Holds, Guard
    <2> QED
      BY <2>1, <2>2, Zenon
  <1> QED
    BY <1>4, <1>5, <1>6, <1>7, Zenon DEF IInv

\* A stopping replica gives its attempt back; nobody else held the item (runner.go: run).
LEMMA StopCalm ==
  ASSUME IInv, NEW w \in Workers, StopRun(w)
  PROVE  Calm
  <1>0. /\ rows \in [Items -> Row] /\ run \in [Workers -> Run] /\ run[w].phase # "idle"
        /\ \A v \in Workers : run[v].item \in Items
        /\ UNCHANGED <<dbEpoch, backup>> /\ run' = [run EXCEPT ![w] = Idle]
    BY Zenon DEF IInv, TypeOK, Run, StopRun
  <1>1. \A v \in Workers : KeepsClaim(v)
    BY <1>0, Zenon DEF KeepsClaim
  <1>2. CASE ~Guard(w)
    BY <1>0, <1>1, <1>2, Zenon DEF StopRun, Calm
  <1>3. CASE Guard(w)
    <2> DEFINE i == run[w].item
    <2>1. /\ GivenBack(i).epoch = rows[i].epoch /\ GivenBack(i).cepoch = rows[i].cepoch
          /\ GivenBack(i).state = rows[i].state
      BY <1>0, SMTT(30) DEF GivenBack, Row
    <2>2. \A j \in Items : rows'[j] = IF j = i THEN GivenBack(i) ELSE rows[j]
      BY <1>0, <1>3, Zenon DEF StopRun, Becomes
    <2>3. ASSUME NEW v \in Workers, Holds(v)' PROVE run[v].item # i
      <3>1. v # w /\ run'[v] = run[v]
        BY <1>0, <2>3, IdleFields, Zenon DEF Holds
      <3>2. Holds(v) /\ Holds(w)
        BY <1>0, <1>3, <2>1, <2>2, <2>3, <3>1, Zenon DEF Holds, Guard
      <3> QED
        BY <3>1, <3>2, Zenon DEF IInv, ClaimsDistinct, Current, Holds, Guard
    <2> HIDE DEF i
    <2> QED
      BY <1>0, <1>1, <2>1, <2>2, <2>3, Zenon DEF Calm
  <1> QED
    BY <1>2, <1>3, Zenon

\* A failover or a restore makes every earlier claim void.
LEMMA RecoverStep ==
  ASSUME IInv, TypeOK', Recover
  PROVE  IInv'
  <1>0. /\ dbEpoch \in Nat /\ dbEpoch' = dbEpoch + 1 /\ run' = run /\ backup' = backup /\ rows' \in {rows, backup}
        /\ rows \in [Items -> Row] /\ backup \in [Items -> Row]
        /\ \A w \in Workers : run[w].cepoch \in Nat /\ run[w].cepoch <= dbEpoch
        /\ \A i \in Items : rows[i].cepoch \in Nat /\ backup[i].cepoch \in Nat
    BY Zenon DEF IInv, TypeOK, Run, Row, EpochsBehind, Recover
  <1>1. EpochsBehind'
    BY <1>0, SMTT(30) DEF IInv, EpochsBehind
  <1>2. \A w \in Workers : ~Current(w)' /\ ~Holds(w)'
    BY <1>0, SMTT(30) DEF Current, Holds, Guard
  <1> QED
    BY <1>1, <1>2, Zenon DEF IInv, ClaimsBehind, ClaimsDistinct, HeldAttempts

-----------------------------------------------------------------------------
(* The invariant and what follows from it.                                 *)

\* Every step keeps the inductive invariant.
LEMMA NextIInv == IInv /\ [Next]_vars => IInv'
  <1> SUFFICES ASSUME IInv, [Next]_vars PROVE IInv'
    BY Zenon
  <1>0. TypeOK'
    BY TypeStep, Zenon
  <1>1. ASSUME NEW w \in Workers, NEW i \in Items, claim(w, i) PROVE IInv'
    BY <1>0, <1>1, ClaimStep, Zenon
  <1>2. ASSUME NEW w \in Workers, StopRun(w) PROVE IInv'
    BY <1>0, <1>2, StopCalm, CalmStep, Zenon
  <1>3. CASE Recover
    BY <1>0, <1>3, RecoverStep, Zenon
  <1>4. ASSUME NEW w \in Workers,
               \/ BeforeCall(w) \/ ExternalCall(w) \/ Checkpoint(w) \/ Complete(w) \/ HandlerReturns(w)
               \/ \E kind \in ErrorKinds : HandlerFails(w, kind)
               \/ RunEnds(w) \/ Renew(w) \/ Crash(w)
        PROVE  IInv'
    BY <1>0, <1>4, WorkerCalm, CalmStep, Zenon
  <1>5. CASE \/ \E i \in Items : Enqueue(i) \/ Passes(i) \/ Requeue(i) \/ Resolve(i) \/ Hold(i) \/ Purge(i)
             \/ Backup \/ UNCHANGED vars
    BY <1>0, <1>5, ItemCalm, CalmStep, Zenon
  <1> QED
    BY <1>1, <1>2, <1>3, <1>4, <1>5, Zenon DEF Next, WorkerStep

\* Two runs that hold one item would have the same claim.
LEMMA OneHolder == IInv => AtMostOneHolder
  BY SMTT(30) DEF IInv, ClaimsDistinct, Current, AtMostOneHolder, Holds, Guard

\* The inductive invariant holds in every reachable state.
THEOREM Inductive == Spec => []IInv
  BY InitIInv, NextIInv, PTL DEF Spec

\* Rows and runs stay well formed; in particular no stop or wait gives back an attempt that was already given
\* back (runner.go: run, fail).
THEOREM TypeCorrect == Spec => []TypeOK
  <1>1. IInv => TypeOK
    BY Zenon DEF IInv
  <1> QED
    BY <1>1, Inductive, PTL

\* At most one run passes the claim check of an item at a time, for any number of replicas and through any
\* failovers and restores (run.go: guard).
THEOREM MutualExclusion == Spec => []AtMostOneHolder
  BY OneHolder, Inductive, PTL

-----------------------------------------------------------------------------
(* What items do: the effects they commit, the segments of singletons, the *)
(* external calls, and that a finished item stays finished.                *)

\* What a row, of the table or of its backup, says of the effects committed for its item.
RowEffects(i, row) ==
    /\ Kind(i) = "queue" => row.applied <= 1 /\ (row.applied = 1 => row.state \in {"done", "gone"})
    /\ Kind(i) = "singleton" => row.applied = row.progress

\* A holder continues behind the last committed segment.
HeldProgress == \A w \in Workers : Holds(w) => run[w].progress = rows[run[w].item].progress

EffectInv ==
    /\ \A i \in Items : RowEffects(i, rows[i]) /\ RowEffects(i, backup[i])
    /\ HeldProgress

-----------------------------------------------------------------------------
External(i) == Effect(i) = "non_idempotent_external"

\* What keeps a call from being sent twice: a queue item, whose business waits are not cut short, in a database that
\* keeps its rows and answers, and no operator's hold, which forgets why an item was paused.
CallsKept ==
    \A i \in Items : External(i) =>
        /\ Kind(i) = "queue"
        /\ MaxWait(i) => "wait" \notin scenario.job[i].errors
        /\ scenario.faults \cap {"hold", "read", "restore"} = {}

\* A handler is about to send the item's call.
Sending(w, i) == run[w].item = i /\ run[w].call = "marked"

\* The item's call did not take effect and is not about to.
Clear(i) == happened[i] = 0 /\ \A w \in Workers : ~Sending(w, i)

\* An item whose call may be sent or took effect is marked or finished; at most one handler sends it, once.
CallRow(i) ==
    /\ happened[i] <= 1
    /\ \A w \in Workers : Sending(w, i) => happened[i] = 0
    /\ \A v, w \in Workers : Sending(v, i) /\ Sending(w, i) => v = w
    /\ Clear(i) \/ rows[i].unknown \/ rows[i].state \in {"done", "resolved", "gone"}
    /\ rows[i].state = "dead" => Clear(i)
    /\ rows[i].reason # "business_hold"

\* A held row is marked when its holder has marked it, and a refused call leaves the item clear.
CallRun(w) ==
    Holds(w) /\ External(run[w].item) =>
        /\ rows[run[w].item].unknown <=> run[w].call # "none"
        /\ run[w].call = "not_effective" => Clear(run[w].item)

CallInv ==
    /\ \A w \in Workers : run[w].call # "none" => External(run[w].item)
    /\ \A i \in Items : ~External(i) => happened[i] = 0
    /\ CallsKept => /\ \A i \in Items : External(i) => CallRow(i)
                    /\ \A w \in Workers : CallRun(w)

-----------------------------------------------------------------------------
(* The effects an item's own transactions commit.                          *)

\* Nothing is enqueued: nothing was committed.
LEMMA InitEffects == Init => EffectInv
  <1> SUFFICES ASSUME Init PROVE EffectInv
    BY Zenon
  <1>1. \A i \in Items : rows[i] = AbsentRow /\ backup[i] = AbsentRow
    BY Zenon DEF Init
  <1>2. \A w \in Workers : ~Holds(w)
    BY IdleFields, Zenon DEF Init, Holds
  <1> QED
    BY <1>1, <1>2, SMTT(30) DEF EffectInv, HeldProgress, RowEffects, AbsentRow

\* A calm step that leaves the rows alone.
LEMMA SameRows ==
  ASSUME IInv, EffectInv, Calm, UNCHANGED <<scenario, rows>>,
         \A w \in Workers : Holds(w)' => run'[w].progress = run[w].progress
  PROVE  EffectInv'
  <1>1. \A i \in Items : RowEffects(i, rows[i])' /\ RowEffects(i, backup[i])'
    BY SMTT(30) DEF EffectInv, RowEffects, Kind, Calm
  <1>2. HeldProgress'
    BY CalmHolds, Zenon DEF EffectInv, HeldProgress
  <1> QED
    BY <1>1, <1>2, Zenon DEF EffectInv

\* A calm step that writes one row, in agreement with the run that holds it.
LEMMA OneRow ==
  ASSUME IInv, EffectInv, Calm, UNCHANGED scenario, NEW i \in Items, NEW row, Becomes(i, row), RowEffects(i, row),
         \A w \in Workers : Holds(w)' =>
             run'[w].progress = IF run[w].item = i THEN row.progress ELSE run[w].progress
  PROVE  EffectInv'
  <1>0. rows \in [Items -> Row] /\ \A w \in Workers : run[w].item \in Items
    BY Zenon DEF IInv, TypeOK, Run
  <1>1. \A j \in Items : rows'[j] = IF j = i THEN row ELSE rows[j]
    BY <1>0, Zenon DEF Becomes
  <1>2. \A j \in Items : RowEffects(j, rows[j])' /\ RowEffects(j, backup[j])'
    BY <1>1, SMTT(30) DEF EffectInv, RowEffects, Kind, Calm
  <1>3. HeldProgress'
    BY <1>0, <1>1, CalmHolds, SMTT(30) DEF EffectInv, HeldProgress
  <1> QED
    BY <1>2, <1>3, Zenon DEF EffectInv

\* A calm step that writes one row and keeps its counts, and the state of a finished one.
LEMMA KeepsCounts ==
  ASSUME IInv, EffectInv, Calm, UNCHANGED scenario, NEW i \in Items, NEW row, Becomes(i, row),
         row.applied = rows[i].applied, row.progress = rows[i].progress,
         rows[i].state \in {"done", "gone"} => row.state \in {"done", "gone"},
         \A w \in Workers : Holds(w)' => run'[w].progress = run[w].progress
  PROVE  EffectInv'
  <1>1. RowEffects(i, row)
    BY Zenon DEF EffectInv, RowEffects
  <1>2. \A w \in Workers : Holds(w)' => run[w].progress = rows[run[w].item].progress
    BY CalmHolds, Zenon DEF EffectInv, HeldProgress
  <1> QED
    BY <1>1, <1>2, OneRow, SMTT(30)

\* exec with a row that keeps its counts.
LEMMA ExecKeeps ==
  ASSUME IInv, EffectInv, Calm, UNCHANGED scenario, NEW w \in Workers, NEW row, NEW next, exec(w, row, next),
         row.applied = rows[run[w].item].applied, row.progress = rows[run[w].item].progress,
         next = Idle \/ next.progress = run[w].progress
  PROVE  EffectInv'
  <1>0. run \in [Workers -> Run] /\ run[w] \in Run /\ run[w].item \in Items
    BY Zenon DEF IInv, TypeOK, Run
  <1>1. CASE Guard(w)
    <2>1. Becomes(run[w].item, row) /\ run' = [run EXCEPT ![w] = next] /\ rows[run[w].item].state = "running"
      BY <1>1, Zenon DEF exec, Guard
    <2>2. \A v \in Workers : Holds(v)' => run'[v].progress = run[v].progress
      BY <1>0, <2>1, IdleFields, Zenon DEF Holds
    <2> QED
      BY <1>0, <2>1, <2>2, KeepsCounts, Zenon
  <1>2. CASE ~Guard(w)
    <2>1. rows' = rows /\ run' = [run EXCEPT ![w].phase = "cancelled"]
      BY <1>2, Zenon DEF exec
    <2>2. \A v \in Workers : run'[v].progress = run[v].progress
      BY <1>0, <2>1, Zenon DEF Run
    <2> QED
      BY <2>1, <2>2, SameRows, Zenon
  <1> QED
    BY <1>1, <1>2, Zenon

\* A segment is committed behind the one before it, by the only holder (run.go: Checkpoint).
LEMMA CheckpointEffects ==
  ASSUME IInv, EffectInv, NEW w \in Workers, Checkpoint(w)
  PROVE  EffectInv'
  <1> DEFINE i == run[w].item
             row == [rows[i] EXCEPT !.progress = run[w].progress + 1, !.applied = @ + 1]
             next == [run[w] EXCEPT !.progress = @ + 1]
  <1>0. /\ run \in [Workers -> Run] /\ run[w] \in Run /\ i \in Items /\ rows[i] \in Row
        /\ run[w].progress \in Nat /\ rows[i].progress \in Nat /\ rows[i].applied \in Nat
        /\ \A v \in Workers : run[v] \in Run
    BY Zenon DEF IInv, TypeOK, Run, Row
  <1>1. Calm /\ UNCHANGED scenario /\ run[w].phase = "handling" /\ Kind(i) = "singleton" /\ exec(w, row, next)
    BY WorkerCalm, Zenon DEF Checkpoint
  <1>2. CASE Guard(w)
    <2>1. Becomes(i, row) /\ run' = [run EXCEPT ![w] = next]
      BY <1>1, <1>2, Zenon DEF exec
    <2>2. row.progress = run[w].progress + 1 /\ row.applied = rows[i].applied + 1
      BY <1>0, Zenon DEF Row
    <2>3. Holds(w)
      BY <1>1, <1>2, Zenon DEF Holds
    <2>4. RowEffects(i, row)
      BY <1>0, <1>1, <2>2, <2>3, Zenon DEF EffectInv, RowEffects, HeldProgress
    <2>5. ASSUME NEW v \in Workers, Holds(v)'
          PROVE  run'[v].progress = IF run[v].item = i THEN row.progress ELSE run[v].progress
      <3>1. CASE v = w
        BY <1>0, <2>1, <2>2, <3>1, Zenon DEF Run
      <3>2. CASE v # w
        <4>1. Holds(v)
          BY <1>1, <2>5, CalmHolds, Zenon
        <4>2. run[v].item # i
          BY <2>3, <3>2, <4>1, OneHolder, Zenon DEF AtMostOneHolder
        <4> QED
          BY <1>0, <2>1, <3>2, <4>2, Zenon
      <3> QED
        BY <3>1, <3>2, Zenon
    <2> HIDE DEF i, row
    <2> QED
      BY <1>0, <1>1, <2>1, <2>4, <2>5, OneRow, SMTT(30)
  <1>3. CASE ~Guard(w)
    <2>1. rows' = rows /\ run' = [run EXCEPT ![w].phase = "cancelled"]
      BY <1>1, <1>3, Zenon DEF exec
    <2>2. \A v \in Workers : run'[v].progress = run[v].progress
      BY <1>0, <2>1, Zenon DEF Run
    <2> QED
      BY <1>1, <2>1, <2>2, SameRows, Zenon
  <1> QED
    BY <1>2, <1>3, Zenon

\* The commit that finishes an item carries its effect; a held queue item had none before (run.go: Complete).
LEMMA CompleteEffects ==
  ASSUME IInv, EffectInv, Calm, UNCHANGED scenario, NEW w \in Workers, NEW effect \in {0, 1}, NEW next,
         exec(w, CompletedRow(run[w].item, effect), next),
         next.phase # "idle" => next.progress = run[w].progress
  PROVE  EffectInv'
  <1> DEFINE i == run[w].item
             row == CompletedRow(i, effect)
  <1>0. /\ run \in [Workers -> Run] /\ run[w] \in Run /\ i \in Items /\ rows[i] \in Row
        /\ rows[i].applied \in Nat /\ Kind(i) \in {"queue", "singleton"}
        /\ \A v \in Workers : run[v] \in Run
    BY WorkConstants, SMTT(30) DEF IInv, TypeOK, Run, Row, Scenario, Job, Kind
  <1>1. CASE Guard(w)
    <2>1. Becomes(i, row) /\ run' = [run EXCEPT ![w] = next] /\ rows[i].state = "running"
      BY <1>1, Zenon DEF exec, Guard
    <2>2. ASSUME Kind(i) = "queue" PROVE RowEffects(i, row)
      <3>1. row.state = "done" /\ row.applied = rows[i].applied + effect
        BY <1>0, <2>2, Zenon DEF CompletedRow, Row
      <3>2. rows[i].applied = 0
        BY <1>0, <2>1, <2>2, SMTT(30) DEF EffectInv, RowEffects
      <3> QED
        BY <2>2, <3>1, <3>2, SMTT(30) DEF RowEffects
    <2>3. ASSUME Kind(i) = "singleton" PROVE RowEffects(i, row)
      BY <1>0, <2>3, Zenon DEF CompletedRow, Row, RowEffects
    <2>4. row.state # "running"
      BY <1>0, Zenon DEF CompletedRow, Row
    <2>5. ASSUME NEW v \in Workers, Holds(v)'
          PROVE  run'[v].progress = IF run[v].item = i THEN row.progress ELSE run[v].progress
      <3>1. Holds(v) /\ run'[v].item = run[v].item
        BY <2>5, CalmHolds, Zenon
      <3>2. rows'[run[v].item].state = "running"
        BY <2>5, <3>1, Zenon DEF Holds, Guard
      <3>3. run[v].item # i
        BY <1>0, <2>1, <2>4, <3>2, Zenon DEF Becomes, IInv, TypeOK
      <3> QED
        BY <1>0, <2>1, <3>3, Zenon
    <2> HIDE DEF i, row
    <2> QED
      BY <1>0, <2>1, <2>2, <2>3, <2>5, OneRow, SMTT(30)
  <1>2. CASE ~Guard(w)
    <2>1. rows' = rows /\ run' = [run EXCEPT ![w].phase = "cancelled"]
      BY <1>2, Zenon DEF exec
    <2>2. \A v \in Workers : run'[v].progress = run[v].progress
      BY <1>0, <2>1, Zenon DEF Run
    <2> QED
      BY <2>1, <2>2, SameRows, Zenon
  <1> QED
    BY <1>1, <1>2, Zenon

\* The rows fail writes keep the counts (runner.go: fail).
LEMMA FailEffects ==
  ASSUME IInv, EffectInv, NEW w \in Workers, NEW kind \in ErrorKinds, HandlerFails(w, kind)
  PROVE  EffectInv'
  <1> DEFINE r == rows[run[w].item]
  <1>0. r \in Row
    BY Zenon DEF IInv, TypeOK, Run
  <1>1. Calm /\ UNCHANGED scenario
    BY WorkerCalm, Zenon DEF HandlerFails
  <1>2. \A unknown, over \in BOOLEAN :
          /\ FailedRow(w, kind, unknown, over).applied = r.applied
          /\ FailedRow(w, kind, unknown, over).progress = r.progress
    BY <1>0, WorkConstants, Zenon DEF FailedRow, DeadRow, Row
  <1>3. PICK unknown, over \in BOOLEAN : exec(w, FailedRow(w, kind, unknown, over), Idle)
    <2>1. r.unknown \in BOOLEAN /\ (MaxWait(run[w].item) /\ r.waiting = "over") \in BOOLEAN
      BY <1>0, WorkConstants, Zenon DEF Row
    <2> QED
      BY <2>1, Zenon DEF HandlerFails
  <1> QED
    BY <1>1, <1>2, <1>3, ExecKeeps, Zenon

\* The steps of a worker keep EffectInv.
LEMMA WorkerEffects ==
  ASSUME IInv, EffectInv, NEW w \in Workers,
         \/ BeforeCall(w) \/ ExternalCall(w) \/ Checkpoint(w) \/ Complete(w) \/ HandlerReturns(w)
         \/ \E kind \in ErrorKinds : HandlerFails(w, kind)
         \/ RunEnds(w) \/ Renew(w) \/ Crash(w) \/ StopRun(w)
  PROVE  EffectInv'
  <1> DEFINE i == run[w].item
             r == rows[i]
  <1>0. run \in [Workers -> Run] /\ run[w] \in Run /\ i \in Items /\ r \in Row
    BY Zenon DEF IInv, TypeOK, Run
  <1>a. Calm
    BY WorkerCalm, StopCalm, Zenon
  <1>b. UNCHANGED scenario
    BY Zenon DEF BeforeCall, ExternalCall, Checkpoint, Complete, HandlerReturns, HandlerFails, RunEnds, Renew, Crash,
                 StopRun
  <1>1. CASE BeforeCall(w)
    BY <1>0, <1>1, <1>a, <1>b, ExecKeeps, SMTT(30) DEF BeforeCall, Row, Run
  <1>2. CASE Checkpoint(w)
    BY <1>2, CheckpointEffects, Zenon
  <1>3. CASE Complete(w)
    BY <1>0, <1>3, <1>a, <1>b, CompleteEffects, Zenon DEF Complete, Run
  <1>4. CASE HandlerReturns(w)
    BY <1>0, <1>4, <1>a, <1>b, CompleteEffects, IdleFields, Zenon DEF HandlerReturns
  <1>5. CASE \E kind \in ErrorKinds : HandlerFails(w, kind)
    BY <1>5, FailEffects, Zenon
  <1>6. CASE Renew(w)
    <2>1. CASE exec(w, [r EXCEPT !.expired = FALSE], run[w])
      BY <1>0, <1>a, <1>b, <2>1, ExecKeeps, Zenon DEF Row
    <2>2. CASE run' = [run EXCEPT ![w].phase = "cancelled"] /\ UNCHANGED rows
      <3>1. \A v \in Workers : run'[v].progress = run[v].progress
        BY <1>0, <2>2, Zenon DEF Run
      <3> QED
        BY <1>a, <1>b, <2>2, <3>1, SameRows, Zenon
    <2> QED
      BY <1>6, <2>1, <2>2, Zenon DEF Renew
  <1>7. CASE ExternalCall(w) \/ RunEnds(w) \/ Crash(w)
    <2>1. rows' = rows
      BY <1>7, Zenon DEF ExternalCall, RunEnds, Crash
    <2>2. \A v \in Workers : Holds(v)' => run'[v].progress = run[v].progress
      BY <1>0, <1>7, IdleFields, SMTT(30) DEF Run, Holds, ExternalCall, RunEnds, Crash
    <2> QED
      BY <1>a, <1>b, <2>1, <2>2, SameRows, Zenon
  <1>8. CASE StopRun(w)
    <2>1. \A v \in Workers : Holds(v)' => run'[v].progress = run[v].progress
      BY <1>0, <1>8, IdleFields, Zenon DEF Holds, StopRun
    <2>2. /\ GivenBack(i).applied = r.applied /\ GivenBack(i).progress = r.progress /\ GivenBack(i).state = r.state
      BY <1>0, Zenon DEF GivenBack, Row
    <2> QED
      BY <1>0, <1>8, <1>a, <1>b, <2>1, <2>2, KeepsCounts, SameRows, Zenon DEF StopRun
  <1> QED
    BY <1>1, <1>2, <1>3, <1>4, <1>5, <1>6, <1>7, <1>8, Zenon

\* Time, the operator, the purge and a backup keep EffectInv: none of them puts a finished item back.
LEMMA ItemEffects ==
  ASSUME IInv, EffectInv,
         \/ \E i \in Items : Enqueue(i) \/ Passes(i) \/ Requeue(i) \/ Resolve(i) \/ Hold(i) \/ Purge(i)
         \/ Backup \/ UNCHANGED vars
  PROVE  EffectInv'
  <1>1. Calm
    BY ItemCalm, Zenon
  <1>2. scenario' = scenario /\ run' = run
    BY Zenon DEF Enqueue, Passes, BecomesDue, LeaseExpires, WaitPasses, Requeue, Resolve, Hold, Purge, Backup, vars
  <1>3. CASE rows' = rows
    BY <1>1, <1>2, <1>3, SameRows, Zenon
  <1>4. ASSUME NEW i \in Items,
               Enqueue(i) \/ Passes(i) \/ Requeue(i) \/ Resolve(i) \/ Hold(i) \/ Purge(i)
        PROVE  EffectInv'
    <2>0. rows[i] \in Row
      BY Zenon DEF IInv, TypeOK
    <2> DEFINE Fine(row) ==
                 /\ row.applied = rows[i].applied /\ row.progress = rows[i].progress
                 /\ rows[i].state \in {"done", "gone"} => row.state \in {"done", "gone"}
    <2>1. ASSUME NEW row, Becomes(i, row), Fine(row) PROVE EffectInv'
      BY <1>1, <1>2, <2>1, KeepsCounts, Zenon
    <2>2. /\ Fine([rows[i] EXCEPT !.due = TRUE])
          /\ Fine([rows[i] EXCEPT !.expired = TRUE])
          /\ Fine([rows[i] EXCEPT !.waiting = "over"])
          /\ Fine([rows[i] EXCEPT !.state = "gone"])
      BY <2>0, Zenon DEF Row
    <2>3. ASSUME rows[i].state \notin {"done", "gone"}
          PROVE  /\ \A due \in BOOLEAN : Fine([rows[i] EXCEPT !.state = "pending", !.due = due])
                 /\ Fine([rows[i] EXCEPT !.state = "pending", !.reason = "none", !.attempts = 0, !.due = TRUE,
                                         !.unknown = FALSE, !.expired = FALSE])
                 /\ Fine([rows[i] EXCEPT !.state = "resolved", !.reason = "none"])
                 /\ Fine([rows[i] EXCEPT !.state = "paused", !.reason = "business_hold"])
      BY <2>0, <2>3, Zenon DEF Row
    <2> HIDE DEF Fine
    <2>4. CASE Passes(i) \/ Purge(i)
      BY <2>1, <2>2, <2>4, Zenon DEF Passes, BecomesDue, LeaseExpires, WaitPasses, Purge
    <2>5. CASE Enqueue(i)
      <3>1. rows[i].state \notin {"done", "gone"}
        BY <2>5, Zenon DEF Enqueue
      <3> QED
        BY <2>1, <2>3, <2>5, <3>1, Zenon DEF Enqueue
    <2>6. CASE Requeue(i) \/ Resolve(i) \/ Hold(i)
      <3>1. rows[i].state \notin {"done", "gone"}
        BY <2>6, Zenon DEF Requeue, Requeueable, Resolve, Hold
      <3> QED
        BY <2>1, <2>3, <2>6, <3>1, Zenon DEF Requeue, Resolve, Hold
    <2> QED
      BY <1>4, <2>4, <2>5, <2>6, Zenon
  <1> QED
    BY <1>3, <1>4, Zenon DEF Backup, vars

\* What a claim writes: the claimed row keeps what the item has done, nobody else holds it any more, and the run, if
\* there is one, starts with it (runner.go: claim).
LEMMA ClaimShape ==
  ASSUME IInv, NEW w \in Workers, NEW i \in Items, claim(w, i)
  PROVE  /\ rows[i].state \in {"pending", "retry_wait", "running"}
         /\ rows'[i].applied = rows[i].applied /\ rows'[i].progress = rows[i].progress
         /\ rows'[i].unknown = rows[i].unknown
         /\ rows'[i].state = IF MustPause(i) THEN "paused" ELSE "running"
         /\ rows'[i].reason = IF MustPause(i) THEN "outcome_unknown" ELSE rows[i].reason
         /\ \A j \in Items : j # i => rows'[j] = rows[j]
         /\ MustPause(i) => run' = run
         /\ ~MustPause(i) => run'[w].item = i /\ run'[w].call = "none" /\ run'[w].progress = rows[i].progress
         /\ \A v \in Workers : v # w => run'[v] = run[v]
         /\ \A v \in Workers : Holds(v)' => \/ Holds(v) /\ run'[v] = run[v] /\ run[v].item # i
                                            \/ v = w /\ ~MustPause(i)
  <1>0. /\ rows \in [Items -> Row] /\ rows[i] \in Row /\ run \in [Workers -> Run] /\ rows[i].epoch \in Nat
        /\ \A v \in Workers : run[v].item \in Items /\ run[v].epoch \in Nat
        /\ dbEpoch' = dbEpoch /\ run[w].phase = "idle"
    BY Zenon DEF IInv, TypeOK, Row, Run, claim
  <1>1. rows[i].state \in {"pending", "retry_wait", "running"}
    BY Zenon DEF claim, Claimable, Expired
  <1>2. LET paused == [Claimed(i) EXCEPT !.state = "paused", !.reason = "outcome_unknown"] IN
        /\ Claimed(i).applied = rows[i].applied /\ Claimed(i).progress = rows[i].progress
        /\ Claimed(i).unknown = rows[i].unknown /\ Claimed(i).state = "running"
        /\ Claimed(i).reason = rows[i].reason /\ Claimed(i).epoch = rows[i].epoch + 1
        /\ paused.applied = rows[i].applied /\ paused.progress = rows[i].progress
        /\ paused.unknown = rows[i].unknown /\ paused.state = "paused"
        /\ paused.reason = "outcome_unknown" /\ paused.epoch = rows[i].epoch + 1
    BY <1>0, Zenon DEF Claimed, Row
  <1>3. rows'[i] = IF MustPause(i) THEN [Claimed(i) EXCEPT !.state = "paused", !.reason = "outcome_unknown"]
                                   ELSE Claimed(i)
    BY <1>0, Zenon DEF claim, Becomes
  <1>4. \A j \in Items : j # i => rows'[j] = rows[j]
    BY <1>0, Zenon DEF claim, Becomes
  <1>5. /\ MustPause(i) => run' = run
        /\ ~MustPause(i) => run'[w].item = i /\ run'[w].call = "none" /\ run'[w].progress = rows[i].progress
        /\ \A v \in Workers : v # w => run'[v] = run[v]
    BY <1>0, SMTT(30) DEF claim
  <1>6. ASSUME NEW v \in Workers, Holds(v)'
        PROVE  \/ Holds(v) /\ run'[v] = run[v] /\ run[v].item # i
               \/ v = w /\ ~MustPause(i)
    <2>1. CASE v = w
      BY <1>0, <1>5, <1>6, <2>1, Zenon DEF Holds
    <2>2. CASE v # w
      <3>1. run'[v] = run[v]
        BY <1>5, <2>2, Zenon
      <3>2. run[v].item # i
        <4> SUFFICES ASSUME run[v].item = i PROVE FALSE
          BY Zenon
        <4>1. run[v].epoch = rows[i].epoch + 1 /\ Current(v)
          <5>1. run[v].phase # "idle" /\ rows'[i].epoch = run[v].epoch /\ run[v].cepoch = dbEpoch'
            BY <1>6, <3>1, SMTT(30) DEF Holds, Guard
          <5>2. rows'[i].epoch = rows[i].epoch + 1
            BY <1>2, <1>3, Zenon
          <5> QED
            BY <1>0, <5>1, <5>2, Zenon DEF Current
        <4> QED
          BY <1>0, <4>1, SMTT(30) DEF IInv, ClaimsBehind
      <3> QED
        BY <1>0, <1>4, <1>6, <3>1, <3>2, Zenon DEF Holds, Guard
    <2> QED
      BY <2>1, <2>2, Zenon
  <1> QED
    BY <1>1, <1>2, <1>3, <1>4, <1>5, <1>6, Zenon

\* A claim starts behind the last committed segment.
LEMMA ClaimEffects ==
  ASSUME IInv, EffectInv, NEW w \in Workers, NEW i \in Items, claim(w, i)
  PROVE  EffectInv'
  <1>0. UNCHANGED <<scenario, backup>> /\ \A v \in Workers : run[v].item \in Items
    BY Zenon DEF claim, IInv, TypeOK, Run
  <1>1. \A j \in Items : RowEffects(j, rows[j])' /\ RowEffects(j, backup[j])'
    BY <1>0, ClaimShape, SMTT(30) DEF EffectInv, RowEffects, Kind
  <1>2. HeldProgress'
    BY <1>0, ClaimShape, SMTT(30) DEF EffectInv, HeldProgress
  <1> QED
    BY <1>1, <1>2, Zenon DEF EffectInv

\* After a failover or a restore nobody holds an item.
LEMMA RecoverHolds == ASSUME IInv, Recover PROVE \A w \in Workers : ~Holds(w)'
  <1>1. /\ dbEpoch \in Nat /\ dbEpoch' = dbEpoch + 1 /\ run' = run
        /\ \A w \in Workers : run[w].cepoch \in Nat /\ run[w].cepoch <= dbEpoch
    BY Zenon DEF IInv, TypeOK, Run, EpochsBehind, Recover
  <1> QED
    BY <1>1, SMTT(30) DEF Holds, Guard

\* Every step keeps EffectInv.
LEMMA NextEffects == IInv /\ EffectInv /\ [Next]_vars => EffectInv'
  <1> SUFFICES ASSUME IInv, EffectInv, [Next]_vars PROVE EffectInv'
    BY Zenon
  <1>1. CASE Recover
    <2>1. rows' \in {rows, backup} /\ UNCHANGED <<scenario, backup>>
      BY <1>1, Zenon DEF Recover
    <2>2. \A i \in Items : RowEffects(i, rows[i])' /\ RowEffects(i, backup[i])'
      BY <2>1, Zenon DEF EffectInv, RowEffects, Kind
    <2> QED
      BY <1>1, <2>2, RecoverHolds, Zenon DEF EffectInv, HeldProgress
  <1>2. ASSUME NEW w \in Workers, NEW i \in Items, claim(w, i) PROVE EffectInv'
    BY <1>2, ClaimEffects, Zenon
  <1>3. ASSUME NEW w \in Workers,
               \/ BeforeCall(w) \/ ExternalCall(w) \/ Checkpoint(w) \/ Complete(w) \/ HandlerReturns(w)
               \/ \E kind \in ErrorKinds : HandlerFails(w, kind)
               \/ RunEnds(w) \/ Renew(w) \/ Crash(w) \/ StopRun(w)
        PROVE  EffectInv'
    BY <1>3, WorkerEffects, Zenon
  <1>4. CASE \/ \E i \in Items : Enqueue(i) \/ Passes(i) \/ Requeue(i) \/ Resolve(i) \/ Hold(i) \/ Purge(i)
             \/ Backup \/ UNCHANGED vars
    BY <1>4, ItemEffects, Zenon
  <1> QED
    BY <1>1, <1>2, <1>3, <1>4, Zenon DEF Next, WorkerStep

\* EffectInv holds in every reachable state.
THEOREM EffectsInductive == Spec => []EffectInv
  BY InitEffects, NextEffects, Inductive, PTL DEF Spec

\* A queue item's effect is committed at most once, by the commit that finishes it, whatever crashes, takeovers,
\* requeues, failovers and restores happen (run.go: Complete, exec).
THEOREM EffectsCommitOnce == Spec => []EffectOnce
  <1>1. EffectInv => EffectOnce
    BY Zenon DEF EffectInv, RowEffects, EffectOnce
  <1> QED
    BY <1>1, EffectsInductive, PTL

\* A singleton commits its segments in order, each once in a cycle (run.go: Checkpoint).
THEOREM SegmentsCommitOnce == Spec => []SegmentsOnce
  <1>1. EffectInv => SegmentsOnce
    BY Zenon DEF EffectInv, RowEffects, SegmentsOnce
  <1> QED
    BY <1>1, EffectsInductive, PTL

-----------------------------------------------------------------------------
(* The external calls.                                                     *)

Finished == {"done", "resolved", "gone"}

\* A run ends, starts, or keeps what it knows of its call.
KeepsCall(w) == run'[w].call # "none" => run'[w].call = run[w].call /\ run'[w].item = run[w].item

\* What a step that sends nothing may do to an item's row.
KeepsMark(i) ==
    /\ rows[i].unknown => rows'[i].unknown \/ rows'[i].state \in Finished \/ Clear(i)
    /\ rows[i].state \in Finished => rows'[i].state \in Finished
    /\ rows'[i].state = "dead" => rows[i].state = "dead" \/ Clear(i)
    /\ rows'[i].reason = "business_hold" => rows[i].reason = "business_hold"

\* A held row's mark is its holder's.
MarkIsHolders(w) ==
    External(run[w].item) => (rows[run[w].item].unknown <=> run[w].call # "none")

\* What External and CallsKept say depends on the scenario alone.
LEMMA ScenarioKept ==
  ASSUME UNCHANGED scenario
  PROVE  (CallsKept' <=> CallsKept) /\ \A i \in Items : (External(i)' <=> External(i))
  BY Zenon DEF CallsKept, External, Effect, Kind, MaxWait

\* A step that sends no call and changes no mark but truthfully.
LEMMA QuietCalls ==
  ASSUME IInv, TypeOK', CallInv, UNCHANGED <<scenario, happened>>,
         \A w \in Workers : KeepsCall(w),
         \A w \in Workers : Holds(w)' /\ run'[w].call # "none" => Holds(w),
         CallsKept => \A i \in Items : External(i) => KeepsMark(i),
         CallsKept => \A w \in Workers : Holds(w)' => MarkIsHolders(w)'
  PROVE  CallInv'
  <1>0. \A w \in Workers : run[w].item \in Items /\ run'[w].item \in Items
    BY Zenon DEF IInv, TypeOK, Run
  <1>1. (CallsKept' <=> CallsKept) /\ \A i \in Items : (External(i)' <=> External(i))
    BY ScenarioKept, Zenon
  <1>2. \A w \in Workers, i \in Items : Sending(w, i)' => Sending(w, i)
    BY Zenon DEF KeepsCall, Sending
  <1>3. \A i \in Items : Clear(i) => Clear(i)'
    BY <1>2, Zenon DEF Clear
  <1>4. \A w \in Workers : run'[w].call # "none" => External(run[w].item)'
    BY <1>0, <1>1, Zenon DEF KeepsCall, CallInv
  <1>5. \A i \in Items : ~External(i)' => happened'[i] = 0
    BY <1>1, Zenon DEF CallInv
  <1>6. ASSUME CallsKept, NEW i \in Items, External(i) PROVE CallRow(i)'
    <2>1. CallRow(i) /\ KeepsMark(i)
      BY <1>6, Zenon DEF CallInv
    <2>2. Clear(i)' \/ rows'[i].unknown \/ rows'[i].state \in Finished
      BY <1>3, <2>1, Zenon DEF CallRow, KeepsMark, Finished
    <2>3. rows'[i].state = "dead" => Clear(i)'
      BY <1>3, <2>1, Zenon DEF CallRow, KeepsMark
    <2>4. rows'[i].reason # "business_hold"
      BY <2>1, Zenon DEF CallRow, KeepsMark
    <2>5. /\ happened'[i] <= 1
          /\ \A w \in Workers : Sending(w, i)' => happened'[i] = 0
          /\ \A v, w \in Workers : Sending(v, i)' /\ Sending(w, i)' => v = w
      BY <1>2, <2>1, Zenon DEF CallRow
    <2> QED
      BY <2>2, <2>3, <2>4, <2>5, Zenon DEF CallRow, Finished
  <1>7. ASSUME CallsKept, NEW w \in Workers PROVE CallRun(w)'
    <2> SUFFICES ASSUME Holds(w)', External(run[w].item)'
                 PROVE  /\ rows'[run'[w].item].unknown <=> run'[w].call # "none"
                        /\ run'[w].call = "not_effective" => Clear(run[w].item)'
      BY Zenon DEF CallRun
    <2>1. rows'[run'[w].item].unknown <=> run'[w].call # "none"
      BY <1>7, Zenon DEF MarkIsHolders
    <2>2. ASSUME run'[w].call = "not_effective" PROVE Clear(run[w].item)'
      <3>1. Holds(w) /\ run[w].call = "not_effective" /\ run[w].item = run'[w].item
        BY <2>2, Zenon DEF KeepsCall
      <3>2. External(run[w].item)
        BY <1>0, <1>1, <3>1, Zenon
      <3> QED
        BY <1>0, <1>3, <1>7, <3>1, <3>2, Zenon DEF CallInv, CallRun
    <2> QED
      BY <2>1, <2>2, Zenon
  <1> QED
    BY <1>1, <1>4, <1>5, <1>6, <1>7, Zenon DEF CallInv

\* Nothing was sent.
LEMMA InitCalls == Init => CallInv
  <1> SUFFICES ASSUME Init PROVE CallInv
    BY Zenon
  <1>1. \A w \in Workers : run[w].call = "none" /\ ~Holds(w)
    BY Zenon DEF Init, Idle, Holds
  <1>2. \A i \in Items : happened[i] = 0 /\ rows[i].state = "absent" /\ rows[i].reason = "none"
    BY Zenon DEF Init, AbsentRow
  <1> QED
    BY <1>1, <1>2, SMTT(30) DEF CallInv, CallRow, CallRun, Clear, Sending

\* Under CallsKept a row whose holder has not marked it is clear.
LEMMA UnmarkedIsClear ==
  ASSUME IInv, CallInv, CallsKept, NEW w \in Workers, Holds(w), External(run[w].item)
  PROVE  /\ rows[run[w].item].unknown <=> run[w].call # "none"
         /\ run[w].call \in {"none", "not_effective"} => Clear(run[w].item)
  <1>1. run[w].item \in Items /\ rows[run[w].item].state = "running"
    BY Zenon DEF IInv, TypeOK, Run, Holds, Guard
  <1> QED
    BY <1>1, Zenon DEF CallInv, CallRow, CallRun

\* A fenced update that sends nothing.
LEMMA ExecCalls ==
  ASSUME IInv, TypeOK', CallInv, Calm, UNCHANGED <<scenario, happened>>,
         NEW w \in Workers, NEW row, NEW next, run[w].phase # "idle", exec(w, row, next),
         next = Idle \/ (next.call = run[w].call /\ next.item = run[w].item),
         Guard(w) /\ CallsKept /\ External(run[w].item) =>
             /\ rows[run[w].item].unknown => row.unknown \/ row.state \in Finished \/ Clear(run[w].item)
             /\ row.state = "dead" => Clear(run[w].item)
             /\ row.reason = "business_hold" => rows[run[w].item].reason = "business_hold"
             /\ row.state = "running" => row.unknown = rows[run[w].item].unknown
  PROVE  CallInv'
  <1>0. /\ run \in [Workers -> Run] /\ run[w] \in Run /\ rows \in [Items -> Row]
        /\ \A v \in Workers : run[v].item \in Items
    BY Zenon DEF IInv, TypeOK, Run
  <1>1. \A v \in Workers : KeepsCall(v)
    BY <1>0, SMTT(30) DEF KeepsCall, exec, Idle, Run
  <1>2. \A v \in Workers : Holds(v)' => Holds(v) /\ run'[v].item = run[v].item
    BY CalmHolds, Zenon
  <1>3. CASE ~Guard(w)
    <2>1. rows' = rows /\ \A v \in Workers : run'[v].call = run[v].call
      BY <1>0, <1>3, Zenon DEF exec, Run
    <2>2. \A i \in Items : KeepsMark(i)
      BY <2>1, Zenon DEF KeepsMark
    <2>3. ASSUME CallsKept, NEW v \in Workers, Holds(v)' PROVE MarkIsHolders(v)'
      <3>1. External(run[v].item)' => External(run[v].item)
        BY <1>0, <1>2, <2>3, ScenarioKept, Zenon
      <3> QED
        BY <1>2, <2>1, <2>3, <3>1, UnmarkedIsClear, Zenon DEF MarkIsHolders
    <2> QED
      BY <1>1, <1>2, <2>2, <2>3, QuietCalls, Zenon
  <1>4. CASE Guard(w)
    <2> DEFINE i == run[w].item
    <2>1. /\ \A j \in Items : rows'[j] = IF j = i THEN row ELSE rows[j]
          /\ \A v \in Workers : run'[v] = IF v = w THEN next ELSE run[v]
          /\ rows[i].state = "running"
      BY <1>0, <1>4, Zenon DEF exec, Becomes, Guard
    <2>2. ASSUME CallsKept, NEW j \in Items, External(j) PROVE KeepsMark(j)
      BY <1>4, <2>1, <2>2, Zenon DEF KeepsMark, Finished
    <2>3. ASSUME CallsKept, NEW v \in Workers, Holds(v)' PROVE MarkIsHolders(v)'
      <3> SUFFICES ASSUME External(run[v].item)' PROVE (rows[run[v].item].unknown <=> run[v].call # "none")'
        BY Zenon DEF MarkIsHolders
      <3>1. External(run[v].item) /\ Holds(v) /\ run'[v].item = run[v].item
        BY <1>0, <1>2, <2>3, ScenarioKept, Zenon
      <3>2. rows[run[v].item].unknown <=> run[v].call # "none"
        BY <2>3, <3>1, UnmarkedIsClear, Zenon
      <3>3. CASE v # w
        <4>1. run[v].item # i
          BY <1>4, <3>1, <3>3, OneHolder, Zenon DEF AtMostOneHolder, Holds
        <4> QED
          BY <1>0, <2>1, <3>2, <3>3, <4>1, SMTT(30)
      <3>4. CASE v = w
        <4>1. next # Idle
          BY <2>1, <2>3, <3>4, IdleFields, Zenon DEF Holds
        <4>2. rows'[i].state = "running" /\ rows'[i] = row
          BY <1>0, <2>1, <2>3, <3>1, <3>4, Zenon DEF Holds, Guard
        <4> QED
          BY <1>0, <1>4, <2>1, <2>3, <3>1, <3>2, <3>4, <4>1, <4>2, Zenon
      <3> QED
        BY <3>3, <3>4, Zenon
    <2> QED
      BY <1>1, <1>2, <2>2, <2>3, QuietCalls, Zenon
  <1> QED
    BY <1>3, <1>4, Zenon

\* What fail may make of a marked row: only a verdict that names the outcome, or a wait that was too long, ends or
\* unmarks it (runner.go: fail).
LEMMA FailedMark ==
  ASSUME IInv, NEW w \in Workers, NEW kind \in ErrorKinds, NEW over \in BOOLEAN, External(run[w].item)
  PROVE  LET r == rows[run[w].item]
             row == FailedRow(w, kind, r.unknown, over)
         IN  /\ row.state \in {"dead", "retry_wait", "paused"}
             /\ row.reason \in {r.reason, "outcome_unknown"}
             /\ row.state = "dead" \/ row.unknown # r.unknown =>
                    (kind = "wait" /\ over) \/ kind \in {"permanent", "not_effective"} \/ ~r.unknown
  <1> DEFINE r == rows[run[w].item]
             row == FailedRow(w, kind, r.unknown, over)
  <1>0. r \in Row /\ r.unknown \in BOOLEAN
    BY Zenon DEF IInv, TypeOK, Run, Row
  <1>1. CASE (kind = "wait" /\ over) \/ kind = "permanent"
    BY <1>0, <1>1, Zenon DEF FailedRow, DeadRow, Row
  <1>2. CASE kind = "wait" /\ ~over
    BY <1>0, <1>2, Zenon DEF FailedRow, Row
  <1>3. CASE kind = "retryable" /\ r.unknown
    BY <1>0, <1>3, Zenon DEF FailedRow, Row, External
  <1>4. CASE kind = "not_effective"
    BY <1>0, <1>4, Zenon DEF FailedRow, DeadRow, Row
  <1>5. CASE kind = "retryable" /\ ~r.unknown
    BY <1>0, <1>5, Zenon DEF FailedRow, DeadRow, Row
  <1> QED
    BY <1>1, <1>2, <1>3, <1>4, <1>5, WorkConstants, Zenon DEF ErrorKinds

\* A failed run leaves its item marked unless it knows the outcome.
LEMMA FailCalls ==
  ASSUME IInv, TypeOK', CallInv, NEW w \in Workers, NEW kind \in ErrorKinds, HandlerFails(w, kind)
  PROVE  CallInv'
  <1> DEFINE i == run[w].item
             r == rows[i]
  <1>0. i \in Items /\ r \in Row /\ run[w].phase # "idle"
    BY Zenon DEF IInv, TypeOK, Run, HandlerFails
  <1>1. Calm /\ UNCHANGED <<scenario, happened>>
    BY WorkerCalm, Zenon DEF HandlerFails
  <1>2. PICK unknown \in BOOLEAN, over \in BOOLEAN :
          /\ exec(w, FailedRow(w, kind, unknown, over), Idle)
          /\ "read" \in scenario.faults \/ (unknown = r.unknown /\ over = (MaxWait(i) /\ r.waiting = "over"))
    <2>1. r.unknown \in BOOLEAN /\ (MaxWait(i) /\ r.waiting = "over") \in BOOLEAN
      BY <1>0, WorkConstants, Zenon DEF Row
    <2>2. CASE exec(w, FailedRow(w, kind, r.unknown, MaxWait(i) /\ r.waiting = "over"), Idle)
      BY <2>1, <2>2, Zenon
    <2>3. CASE exec(w, FailedRow(w, kind, FALSE, FALSE), Idle) /\ Spend("read")
      BY <2>3, Zenon DEF Spend
    <2> QED
      BY <2>2, <2>3, Zenon DEF HandlerFails
  <1>3. ASSUME Guard(w), CallsKept, External(i)
        PROVE  LET row == FailedRow(w, kind, unknown, over)
               IN  /\ r.unknown => row.unknown \/ Clear(i)
                   /\ row.state = "dead" => Clear(i)
                   /\ row.reason = "business_hold" => r.reason = "business_hold"
                   /\ row.state # "running"
    <2>1. /\ unknown = r.unknown /\ over = (MaxWait(i) /\ r.waiting = "over")
          /\ ~(kind = "wait" /\ over)
      BY <1>0, <1>2, <1>3, Zenon DEF CallsKept, HandlerFails
    <2>2. /\ r.unknown <=> run[w].call # "none"
          /\ run[w].call \in {"none", "not_effective"} => Clear(i)
      BY <1>0, <1>3, UnmarkedIsClear, Zenon DEF Holds
    <2>3. kind \in {"permanent", "not_effective"} \/ ~r.unknown => Clear(i)
      BY <2>2, Zenon DEF HandlerFails, Truthful
    <2>4. r.unknown \in BOOLEAN /\ FailedRow(w, kind, unknown, over).unknown \in BOOLEAN
      BY <1>0, <1>3, FailedRowType, Zenon DEF Row, HandlerFails
    <2> QED
      BY <1>0, <1>3, <2>1, <2>3, <2>4, FailedMark, Zenon
  <1> QED
    BY <1>0, <1>1, <1>2, <1>3, ExecCalls, Zenon

\* BeforeCall marks a clear item, and its handler becomes the only one about to send (run.go: BeforeCall).
LEMMA BeforeCalls ==
  ASSUME IInv, TypeOK', CallInv, NEW w \in Workers, BeforeCall(w)
  PROVE  CallInv'
  <1> DEFINE i == run[w].item
             r == rows[i]
  <1>0. /\ run \in [Workers -> Run] /\ run[w] \in Run /\ rows \in [Items -> Row] /\ r \in Row
        /\ \A v \in Workers : run[v].item \in Items
        /\ run[w].phase # "idle" /\ run[w].call = "none" /\ External(i) /\ UNCHANGED <<scenario, happened>>
    BY Zenon DEF IInv, TypeOK, Run, BeforeCall, External
  <1>1. Calm
    BY WorkerCalm, Zenon
  <1>2. CASE ~Guard(w)
    <2>1. exec(w, r, run[w])
      BY <1>2, Zenon DEF BeforeCall, exec
    <2> QED
      BY <1>0, <1>1, <1>2, <2>1, ExecCalls, Zenon
  <1>3. CASE Guard(w)
    <2>1. /\ \A j \in Items : rows'[j] = IF j = i THEN [r EXCEPT !.unknown = TRUE] ELSE rows[j]
          /\ \A v \in Workers : run'[v] = IF v = w THEN [run[w] EXCEPT !.call = "marked"] ELSE run[v]
      BY <1>0, <1>3, Zenon DEF BeforeCall, exec, Becomes
    <2>2. /\ rows'[i].unknown = TRUE /\ rows'[i].state = "running" /\ rows'[i].reason = r.reason
          /\ run'[w].call = "marked" /\ run'[w].item = i
      BY <1>0, <1>3, <2>1, SMTT(30) DEF Row, Run, Guard
    <2>3. (CallsKept' <=> CallsKept) /\ \A j \in Items : (External(j)' <=> External(j))
      BY <1>0, ScenarioKept, Zenon
    <2>4. \A v \in Workers, j \in Items : Sending(v, j)' <=> Sending(v, j) \/ (v = w /\ j = i)
      BY <1>0, <2>1, <2>2, SMTT(30) DEF Sending
    <2>5. ASSUME CallsKept PROVE Clear(i) /\ CallRow(i)
      BY <1>0, <1>3, <2>5, UnmarkedIsClear, Zenon DEF CallInv, Holds
    <2>6. ASSUME CallsKept, NEW j \in Items, External(j) PROVE CallRow(j)'
      <3>1. CASE j = i
        BY <1>0, <2>2, <2>4, <2>5, <2>6, <3>1, Zenon DEF CallRow, Clear
      <3>2. CASE j # i
        <4>1. CallRow(j) /\ rows'[j] = rows[j] /\ (Clear(j)' <=> Clear(j))
          BY <1>0, <2>1, <2>4, <2>6, <3>2, Zenon DEF CallInv, Clear
        <4> QED
          BY <1>0, <2>4, <3>2, <4>1, Zenon DEF CallRow
      <3> QED
        BY <3>1, <3>2, Zenon
    <2>7. ASSUME CallsKept, NEW v \in Workers PROVE CallRun(v)'
      <3> SUFFICES ASSUME Holds(v)', External(run[v].item)'
                   PROVE  (/\ rows[run[v].item].unknown <=> run[v].call # "none"
                           /\ run[v].call = "not_effective" => Clear(run[v].item))'
        BY Zenon DEF CallRun
      <3>1. CASE v = w
        BY <2>2, <3>1, Zenon
      <3>2. CASE v # w
        <4>1. Holds(v) /\ run'[v] = run[v] /\ External(run[v].item)
          BY <1>0, <1>1, <2>1, <2>3, <3>2, CalmHolds, Zenon
        <4>2. run[v].item # i
          BY <1>0, <1>3, <3>2, <4>1, OneHolder, Zenon DEF AtMostOneHolder, Holds
        <4>3. rows'[run[v].item] = rows[run[v].item] /\ (Clear(run[v].item) => Clear(run[v].item)')
          BY <1>0, <2>1, <2>4, <4>1, <4>2, Zenon DEF Clear
        <4> QED
          BY <2>7, <4>1, <4>3, Zenon DEF CallInv, CallRun
      <3> QED
        BY <3>1, <3>2, Zenon
    <2>8. \A v \in Workers : run'[v].call # "none" => External(run[v].item)'
      BY <1>0, <2>1, <2>2, <2>3, SMTT(30) DEF CallInv
    <2>9. \A j \in Items : ~External(j)' => happened'[j] = 0
      BY <1>0, <2>3, Zenon DEF CallInv
    <2> QED
      BY <2>3, <2>6, <2>7, <2>8, <2>9, Zenon DEF CallInv
  <1> QED
    BY <1>2, <1>3, Zenon

\* The call itself is sent by the only handler that may, which is then no longer about to.
LEMMA ExternalCalls ==
  ASSUME IInv, TypeOK', CallInv, NEW w \in Workers, ExternalCall(w)
  PROVE  CallInv'
  <1> DEFINE i == run[w].item
  <1>0. /\ run \in [Workers -> Run] /\ run[w] \in Run /\ happened \in [Items -> Nat] /\ happened[i] \in Nat
        /\ \A v \in Workers : run[v].item \in Items
        /\ Sending(w, i) /\ UNCHANGED <<scenario, rows, dbEpoch>> /\ run[w].phase # "idle"
    BY Zenon DEF IInv, TypeOK, Run, ExternalCall, Sending
  <1>1. PICK effective \in BOOLEAN, answered \in BOOLEAN :
          /\ happened' = [happened EXCEPT ![i] = IF effective THEN @ + 1 ELSE @]
          /\ run' = [run EXCEPT ![w].call = IF ~answered THEN "unanswered"
                                            ELSE IF effective THEN "effective" ELSE "not_effective"]
    BY Zenon DEF ExternalCall
  <1>2. /\ \A v \in Workers : v # w => run'[v] = run[v]
        /\ run'[w].item = i /\ run'[w].phase = run[w].phase /\ run'[w].epoch = run[w].epoch
        /\ run'[w].cepoch = run[w].cepoch
        /\ run'[w].call \in {"unanswered", "effective", "not_effective"}
        /\ run'[w].call = "not_effective" => happened'[i] = happened[i]
        /\ happened'[i] \in {happened[i], happened[i] + 1}
        /\ \A j \in Items : j # i => happened'[j] = happened[j]
    BY <1>0, <1>1, Zenon DEF Run
  <1>3. (CallsKept' <=> CallsKept) /\ \A j \in Items : (External(j)' <=> External(j))
    BY <1>0, ScenarioKept, Zenon
  <1>4. \A v \in Workers, j \in Items : Sending(v, j)' <=> Sending(v, j) /\ v # w
    BY <1>0, <1>2, Zenon DEF Sending
  <1>5. \A v \in Workers : Holds(v)' => Holds(v)
    BY <1>0, <1>2, Zenon DEF Holds, Guard
  <1>6. External(i)
    BY <1>0, Zenon DEF CallInv, Sending
  <1>7. \A j \in Items : j # i /\ Clear(j) => Clear(j)'
    BY <1>0, <1>2, <1>4, Zenon DEF Clear
  <1>8. ASSUME CallsKept PROVE CallRow(i) /\ happened[i] = 0 /\ \A v \in Workers : Sending(v, i) => v = w
    BY <1>0, <1>6, <1>8, Zenon DEF CallInv, CallRow
  <1>9. ASSUME CallsKept, NEW j \in Items, External(j) PROVE CallRow(j)'
    <2>1. CASE j = i
      <3>1. CallRow(j) /\ ~Clear(j) /\ \A v \in Workers : ~Sending(v, j)'
        BY <1>0, <1>4, <1>8, <1>9, <2>1, Zenon DEF Clear
      <3>2. happened'[j] <= 1 /\ rows' = rows
        BY <1>0, <1>2, <1>8, <1>9, <2>1, SMTT(30)
      <3> QED
        BY <3>1, <3>2, Zenon DEF CallRow
    <2>2. CASE j # i
      BY <1>0, <1>2, <1>4, <1>7, <1>9, <2>2, Zenon DEF CallRow, CallInv
    <2> QED
      BY <2>1, <2>2, Zenon
  <1>10. ASSUME CallsKept, NEW v \in Workers PROVE CallRun(v)'
    <2> SUFFICES ASSUME Holds(v)', External(run[v].item)'
                 PROVE  (/\ rows[run[v].item].unknown <=> run[v].call # "none"
                         /\ run[v].call = "not_effective" => Clear(run[v].item))'
      BY Zenon DEF CallRun
    <2>1. CASE v = w
      BY <1>0, <1>2, <1>3, <1>4, <1>5, <1>8, <1>10, <2>1, SMTT(30) DEF CallInv, CallRun, Sending, Clear
    <2>2. CASE v # w
      <3>1. Holds(v) /\ run'[v] = run[v] /\ External(run[v].item)
        BY <1>0, <1>2, <1>3, <1>5, <2>2, Zenon
      <3>2. ASSUME run[v].call = "not_effective" PROVE run[v].item # i
        BY <1>0, <1>10, <3>1, <3>2, Zenon DEF CallInv, CallRun, Clear
      <3> QED
        BY <1>0, <1>7, <1>10, <3>1, <3>2, Zenon DEF CallInv, CallRun
    <2> QED
      BY <2>1, <2>2, Zenon
  <1> QED
    BY <1>0, <1>2, <1>3, <1>6, <1>9, <1>10, Zenon DEF CallInv

\* A step that makes no claim, forgets calls at most, and leaves every row's mark alone.
LEMMA SameMarks ==
  ASSUME IInv, TypeOK', CallInv, Calm, UNCHANGED <<scenario, happened>>,
         \A w \in Workers : run'[w] = Idle \/ run'[w].call = run[w].call,
         CallsKept => \A i \in Items : External(i) => KeepsMark(i),
         CallsKept => \A w \in Workers : Holds(w)' => rows'[run[w].item].unknown = rows[run[w].item].unknown
  PROVE  CallInv'
  <1>0. \A w \in Workers : run[w].item \in Items
    BY Zenon DEF IInv, TypeOK, Run
  <1>1. \A w \in Workers : Holds(w)' => Holds(w) /\ run'[w].item = run[w].item /\ run'[w].call = run[w].call
    BY CalmHolds, IdleFields, Zenon DEF Holds
  <1>2. \A w \in Workers : KeepsCall(w)
    <2>1. Idle.call = "none"
      BY Zenon DEF Idle
    <2> QED
      BY <2>1, Zenon DEF KeepsCall, Calm, KeepsClaim
  <1>3. ASSUME CallsKept, NEW w \in Workers, Holds(w)' PROVE MarkIsHolders(w)'
    <2>1. External(run[w].item)' => External(run[w].item)
      BY <1>0, <1>1, <1>3, ScenarioKept, Zenon
    <2> QED
      BY <1>1, <1>3, <2>1, UnmarkedIsClear, Zenon DEF MarkIsHolders
  <1> QED
    BY <1>1, <1>2, <1>3, QuietCalls, Zenon

\* The remaining steps of a worker send nothing and unmark an item only when they finish it.
LEMMA WorkerCalls ==
  ASSUME IInv, TypeOK', CallInv, NEW w \in Workers,
         \/ BeforeCall(w) \/ ExternalCall(w) \/ Checkpoint(w) \/ Complete(w) \/ HandlerReturns(w)
         \/ \E kind \in ErrorKinds : HandlerFails(w, kind)
         \/ RunEnds(w) \/ Renew(w) \/ Crash(w) \/ StopRun(w)
  PROVE  CallInv'
  <1> DEFINE i == run[w].item
             r == rows[i]
  <1>0. run \in [Workers -> Run] /\ run[w] \in Run /\ rows \in [Items -> Row] /\ i \in Items /\ r \in Row
    BY Zenon DEF IInv, TypeOK, Run
  <1>a. Calm
    BY WorkerCalm, StopCalm, Zenon
  <1>1. CASE BeforeCall(w)
    BY <1>1, BeforeCalls, Zenon
  <1>2. CASE ExternalCall(w)
    BY <1>2, ExternalCalls, Zenon
  <1>3. CASE Checkpoint(w)
    <2> DEFINE row == [r EXCEPT !.progress = run[w].progress + 1, !.applied = @ + 1]
               next == [run[w] EXCEPT !.progress = @ + 1]
    <2>1. row.unknown = r.unknown /\ row.state = r.state /\ row.reason = r.reason
      BY <1>0, Zenon DEF Row
    <2>2. next.call = run[w].call /\ next.item = run[w].item
      BY <1>0, Zenon DEF Run
    <2>3. exec(w, row, next) /\ run[w].phase # "idle" /\ UNCHANGED <<scenario, happened>>
      BY <1>3, Zenon DEF Checkpoint
    <2>4. Guard(w) => r.state = "running"
      BY Zenon DEF Guard
    <2> HIDE DEF row, next
    <2> QED
      BY <1>a, <2>1, <2>2, <2>3, <2>4, ExecCalls, Zenon
  <1>4. CASE Complete(w) \/ HandlerReturns(w)
    <2>1. PICK effect \in {0, 1}, next \in {[run[w] EXCEPT !.phase = "completed"], Idle} :
            exec(w, CompletedRow(i, effect), next)
      BY <1>4, Zenon DEF Complete, HandlerReturns
    <2>2. next = Idle \/ (next.call = run[w].call /\ next.item = i)
      BY <1>0, <2>1, Zenon DEF Run
    <2>3. CompletedRow(i, effect).reason = r.reason
      BY <1>0, Zenon DEF CompletedRow, Row
    <2>4. ASSUME CallsKept, External(i) PROVE CompletedRow(i, effect).state = "done"
      BY <1>0, <2>4, Zenon DEF CompletedRow, Row, CallsKept
    <2>5. run[w].phase # "idle" /\ UNCHANGED <<scenario, happened>>
      BY <1>4, Zenon DEF Complete, HandlerReturns
    <2> QED
      BY <1>a, <2>1, <2>2, <2>3, <2>4, <2>5, ExecCalls, Zenon DEF Finished
  <1>5. CASE \E kind \in ErrorKinds : HandlerFails(w, kind)
    BY <1>5, FailCalls, Zenon
  <1>6. CASE Renew(w)
    <2>1. CASE exec(w, [r EXCEPT !.expired = FALSE], run[w])
      <3> DEFINE row == [r EXCEPT !.expired = FALSE]
      <3>1. row.unknown = r.unknown /\ row.state = r.state /\ row.reason = r.reason
        BY <1>0, Zenon DEF Row
      <3>2. run[w].phase # "idle" /\ UNCHANGED <<scenario, happened>> /\ (Guard(w) => r.state = "running")
        BY <1>6, Zenon DEF Renew, Guard
      <3> HIDE DEF row
      <3> QED
        BY <1>a, <2>1, <3>1, <3>2, ExecCalls, Zenon DEF row
    <2>2. CASE run' = [run EXCEPT ![w].phase = "cancelled"] /\ UNCHANGED rows
      <3>1. UNCHANGED <<scenario, happened>> /\ \A v \in Workers : run'[v].call = run[v].call
        BY <1>0, <1>6, <2>2, Zenon DEF Renew, Run
      <3>2. \A j \in Items : KeepsMark(j)
        BY <2>2, Zenon DEF KeepsMark
      <3> QED
        BY <1>a, <2>2, <3>1, <3>2, SameMarks, Zenon
    <2> QED
      BY <1>6, <2>1, <2>2, Zenon DEF Renew
  <1>7. CASE RunEnds(w) \/ Crash(w) \/ StopRun(w)
    <2>1. UNCHANGED <<scenario, happened>> /\ run' = [run EXCEPT ![w] = Idle]
      BY <1>7, Zenon DEF RunEnds, Crash, StopRun
    <2>2. \A v \in Workers : run'[v] = Idle \/ run'[v].call = run[v].call
      BY <1>0, <2>1, Zenon
    <2>3. GivenBack(i).unknown = r.unknown /\ GivenBack(i).state = r.state /\ GivenBack(i).reason = r.reason
      BY <1>0, Zenon DEF GivenBack, Row
    <2>4. \A j \in Items : rows'[j].unknown = rows[j].unknown /\ rows'[j].state = rows[j].state
                           /\ rows'[j].reason = rows[j].reason
      BY <1>0, <1>7, <2>3, Zenon DEF RunEnds, Crash, StopRun, Becomes
    <2>5. \A j \in Items : KeepsMark(j)
      BY <2>4, Zenon DEF KeepsMark
    <2>6. \A v \in Workers : run[v].item \in Items
      BY Zenon DEF IInv, TypeOK, Run
    <2> QED
      BY <1>a, <2>1, <2>2, <2>4, <2>5, <2>6, SameMarks, Zenon
  <1> QED
    BY <1>1, <1>2, <1>3, <1>4, <1>5, <1>6, <1>7, Zenon

\* Time, the operator and the purge: an item is put back only when its call is known to have had no effect
\* (operator.go: Requeue).
LEMMA ItemCalls ==
  ASSUME IInv, TypeOK', CallInv,
         \/ \E i \in Items : Enqueue(i) \/ Passes(i) \/ Requeue(i) \/ Resolve(i) \/ Hold(i) \/ Purge(i)
         \/ Backup \/ UNCHANGED vars
  PROVE  CallInv'
  <1>1. Calm
    BY ItemCalm, Zenon
  <1>2. UNCHANGED <<scenario, happened>> /\ run' = run
    BY Zenon DEF Enqueue, Passes, BecomesDue, LeaseExpires, WaitPasses, Requeue, Resolve, Hold, Purge, Backup, vars
  <1>3. CASE rows' = rows
    <2>1. \A j \in Items : KeepsMark(j)
      BY <1>3, Zenon DEF KeepsMark
    <2> QED
      BY <1>1, <1>2, <1>3, <2>1, SameMarks, Zenon
  <1>4. ASSUME NEW i \in Items,
               Enqueue(i) \/ Passes(i) \/ Requeue(i) \/ Resolve(i) \/ Hold(i) \/ Purge(i)
        PROVE  CallInv'
    <2>0. rows \in [Items -> Row] /\ rows[i] \in Row /\ \A w \in Workers : run[w].item \in Items
      BY Zenon DEF IInv, TypeOK, Run
    <2> DEFINE Fine(row) ==
                 /\ rows[i].unknown => row.unknown \/ row.state \in Finished \/ Clear(i)
                 /\ rows[i].state \in Finished => row.state \in Finished
                 /\ row.state = "dead" => rows[i].state = "dead"
                 /\ row.reason = "business_hold" => rows[i].reason = "business_hold"
                 /\ row.state = "running" => row.unknown = rows[i].unknown
    <2>1. ASSUME NEW row, Becomes(i, row), CallsKept /\ External(i) => Fine(row) PROVE CallInv'
      <3>1. \A j \in Items : rows'[j] = IF j = i THEN row ELSE rows[j]
        BY <2>0, <2>1, Zenon DEF Becomes
      <3>2. ASSUME CallsKept, NEW j \in Items, External(j) PROVE KeepsMark(j)
        BY <2>1, <3>1, <3>2, Zenon DEF KeepsMark
      <3>3. ASSUME CallsKept, NEW w \in Workers, Holds(w)' PROVE MarkIsHolders(w)'
        <4> SUFFICES ASSUME External(run[w].item)' PROVE (rows[run[w].item].unknown <=> run[w].call # "none")'
          BY Zenon DEF MarkIsHolders
        <4>1. Holds(w) /\ External(run[w].item)
          BY <1>1, <1>2, <2>0, <3>3, CalmHolds, ScenarioKept, Zenon
        <4>2. rows'[run[w].item].unknown = rows[run[w].item].unknown
          BY <1>2, <2>0, <2>1, <3>1, <3>3, <4>1, Zenon DEF Holds, Guard
        <4> QED
          BY <1>2, <3>3, <4>1, <4>2, UnmarkedIsClear, Zenon
      <3>4. \A w \in Workers : KeepsCall(w) /\ (Holds(w)' => Holds(w))
        BY <1>1, <1>2, CalmHolds, Zenon DEF KeepsCall
      <3> QED
        BY <1>2, <3>2, <3>3, <3>4, QuietCalls, Zenon
    <2>2. CASE Passes(i) \/ Purge(i) \/ Resolve(i)
      <3>1. /\ Fine([rows[i] EXCEPT !.due = TRUE])
            /\ Fine([rows[i] EXCEPT !.expired = TRUE])
            /\ Fine([rows[i] EXCEPT !.waiting = "over"])
            /\ Fine([rows[i] EXCEPT !.state = "gone"])
            /\ Fine([rows[i] EXCEPT !.state = "resolved", !.reason = "none"])
        BY <2>0, Zenon DEF Row, Finished
      <3> HIDE DEF Fine
      <3> QED
        BY <2>1, <2>2, <3>1, Zenon DEF Passes, BecomesDue, LeaseExpires, WaitPasses, Purge, Resolve
    <2>3. CASE Enqueue(i)
      <3>1. PICK due \in BOOLEAN : Becomes(i, [rows[i] EXCEPT !.state = "pending", !.due = due])
        BY <2>3, Zenon DEF Enqueue
      <3>2. Fine([rows[i] EXCEPT !.state = "pending", !.due = due])
        BY <2>0, <2>3, Zenon DEF Row, Finished, Enqueue
      <3> HIDE DEF Fine
      <3> QED
        BY <2>1, <3>1, <3>2, Zenon
    <2>4. CASE Requeue(i)
      <3> DEFINE row == [rows[i] EXCEPT !.state = "pending", !.reason = "none", !.attempts = 0, !.due = TRUE,
                                        !.unknown = FALSE, !.expired = FALSE]
      <3>1. ASSUME CallsKept, External(i) PROVE Clear(i)
        BY <2>4, <3>1, Zenon DEF CallInv, CallRow, Requeue, Requeueable, VerifiedNotEffective, Clear, Sending
      <3>2. rows[i].state \notin Finished
        BY <2>4, Zenon DEF Requeue, Requeueable, Finished
      <3>3. row.state = "pending" /\ row.reason = "none"
        BY <2>0, Zenon DEF Row
      <3>4. Becomes(i, row)
        BY <2>4, Zenon DEF Requeue
      <3> HIDE DEF row
      <3> QED
        BY <2>1, <3>1, <3>2, <3>3, <3>4, Zenon
    <2>5. CASE Hold(i)
      <3>1. ~(CallsKept /\ External(i))
        BY <2>5, Zenon DEF Hold, Spend, CallsKept
      <3> QED
        BY <2>1, <2>5, <3>1, Zenon DEF Hold
    <2> QED
      BY <1>4, <2>2, <2>3, <2>4, <2>5, Zenon
  <1> QED
    BY <1>3, <1>4, Zenon DEF Backup, vars

\* A marked item is not given to a handler again (runner.go: claim).
LEMMA ClaimCalls ==
  ASSUME IInv, TypeOK', CallInv, NEW w \in Workers, NEW i \in Items, claim(w, i)
  PROVE  CallInv'
  <1>0. UNCHANGED <<scenario, happened>> /\ \A v \in Workers : run[v].item \in Items /\ run'[v].item \in Items
    BY Zenon DEF claim, IInv, TypeOK, Run
  <1>1. \A v \in Workers : KeepsCall(v)
    BY ClaimShape, Zenon DEF KeepsCall
  <1>2. \A v \in Workers : Holds(v)' /\ run'[v].call # "none" => Holds(v)
    BY ClaimShape, Zenon
  <1>3. \A j \in Items : KeepsMark(j)
    BY ClaimShape, SMTT(30) DEF KeepsMark, Finished
  <1>4. ASSUME CallsKept, NEW v \in Workers, Holds(v)' PROVE MarkIsHolders(v)'
    <2> SUFFICES ASSUME External(run[v].item)' PROVE (rows[run[v].item].unknown <=> run[v].call # "none")'
      BY Zenon DEF MarkIsHolders
    <2>1. \A j \in Items : (External(j)' <=> External(j))
      BY <1>0, ScenarioKept, Zenon
    <2>2. CASE Holds(v) /\ run'[v] = run[v] /\ run[v].item # i
      BY <1>0, <1>4, <2>1, <2>2, ClaimShape, UnmarkedIsClear, SMTT(30)
    <2>3. CASE v = w /\ ~MustPause(i)
      BY <1>0, <2>1, <2>3, ClaimShape, SMTT(30) DEF MustPause, External
    <2> QED
      BY <1>4, <2>2, <2>3, ClaimShape, SMTT(30)
  <1> QED
    BY <1>0, <1>1, <1>2, <1>3, <1>4, QuietCalls, Zenon

\* Every step keeps CallInv.
LEMMA NextCalls == IInv /\ CallInv /\ [Next]_vars => CallInv'
  <1> SUFFICES ASSUME IInv, CallInv, [Next]_vars PROVE CallInv'
    BY Zenon
  <1>0. TypeOK'
    BY TypeStep, Zenon
  <1>1. CASE Recover
    <2>1. UNCHANGED <<scenario, happened>> /\ run' = run
      BY <1>1, Zenon DEF Recover
    <2>2. CallsKept => \A i \in Items : External(i) => rows' = rows
      BY <1>1, Zenon DEF Recover, Spend, CallsKept
    <2>3. CallsKept => \A i \in Items : External(i) => KeepsMark(i)
      BY <2>2, Zenon DEF KeepsMark
    <2> QED
      BY <1>0, <1>1, <2>1, <2>3, RecoverHolds, QuietCalls, Zenon DEF KeepsCall
  <1>2. ASSUME NEW w \in Workers, NEW i \in Items, claim(w, i) PROVE CallInv'
    BY <1>0, <1>2, ClaimCalls, Zenon
  <1>3. ASSUME NEW w \in Workers,
               \/ BeforeCall(w) \/ ExternalCall(w) \/ Checkpoint(w) \/ Complete(w) \/ HandlerReturns(w)
               \/ \E kind \in ErrorKinds : HandlerFails(w, kind)
               \/ RunEnds(w) \/ Renew(w) \/ Crash(w) \/ StopRun(w)
        PROVE  CallInv'
    BY <1>0, <1>3, WorkerCalls, Zenon
  <1>4. CASE \/ \E i \in Items : Enqueue(i) \/ Passes(i) \/ Requeue(i) \/ Resolve(i) \/ Hold(i) \/ Purge(i)
             \/ Backup \/ UNCHANGED vars
    BY <1>0, <1>4, ItemCalls, Zenon
  <1> QED
    BY <1>1, <1>2, <1>3, <1>4, Zenon DEF Next, WorkerStep

\* CallInv holds in every reachable state.
THEOREM CallsInductive == Spec => []CallInv
  BY InitCalls, NextCalls, Inductive, PTL DEF Spec

\* A non-idempotent call takes effect at most once per item, whatever crashes, stalls, stops, failovers, retries and
\* truthful requeues happen; CallsKept names what the code leaves to its callers (runner.go: claim, fail).
THEOREM CallsTakeEffectOnce == Spec => [](CallsKept => CallSentAtMostOnce)
  <1>1. CallInv => (CallsKept => CallSentAtMostOnce)
    BY Zenon DEF CallInv, CallRow, CallSentAtMostOnce, External
  <1> QED
    BY <1>1, CallsInductive, PTL

\* A dead item's call had no effect, so that an operator may put it back (runner.go: fail; operator.go: Requeue).
THEOREM DeadHasNoEffect == Spec => [](CallsKept => DeadOutcomeKnown)
  <1>1. CallInv => (CallsKept => DeadOutcomeKnown)
    BY Zenon DEF CallInv, CallRow, Clear, DeadOutcomeKnown
  <1> QED
    BY <1>1, CallsInductive, PTL

-----------------------------------------------------------------------------
(* Finished items.                                                         *)

\* What one step may do to an item: a finished one stays finished or is purged.
LEMMA FinishedStep ==
  ASSUME IInv, [Next]_vars, dbEpoch' = dbEpoch, NEW i \in Items
  PROVE  /\ rows[i].state = "done" => rows'[i].state \in {"done", "gone"}
         /\ rows[i].state = "resolved" => rows'[i].state \in {"resolved", "gone"}
  <1>0. /\ rows \in [Items -> Row] /\ rows[i] \in Row /\ dbEpoch \in Nat
        /\ \A w \in Workers : run[w].item \in Items
    BY Zenon DEF IInv, TypeOK, Run
  <1> SUFFICES ASSUME rows[i].state \in {"done", "resolved"}
               PROVE  rows'[i].state \in {rows[i].state, "gone"}
    BY Zenon
  <1>1. ASSUME NEW w \in Workers, NEW row, NEW next, exec(w, row, next) PROVE rows'[i] = rows[i]
    BY <1>0, <1>1, Zenon DEF exec, Becomes, Guard
  <1>2. ASSUME NEW j \in Items, NEW row, Becomes(j, row), rows[j].state \notin {"done", "resolved"}
        PROVE  rows'[i] = rows[i]
    BY <1>0, <1>2, Zenon DEF Becomes
  <1>3. CASE \E w \in Workers, j \in Items : claim(w, j)
    BY <1>2, <1>3, Zenon DEF claim, Claimable, Expired
  <1>4. CASE \E w \in Workers : \/ BeforeCall(w) \/ Checkpoint(w) \/ Complete(w) \/ HandlerReturns(w)
                                \/ \E kind \in ErrorKinds : HandlerFails(w, kind)
    BY <1>1, <1>4, Zenon DEF BeforeCall, Checkpoint, Complete, HandlerReturns, HandlerFails
  <1>5. CASE \E w \in Workers : ExternalCall(w) \/ RunEnds(w) \/ Renew(w) \/ Crash(w)
    BY <1>1, <1>5, Zenon DEF ExternalCall, RunEnds, Renew, Crash
  <1>6. CASE \E w \in Workers : StopRun(w)
    BY <1>0, <1>6, Zenon DEF StopRun, Becomes, Guard
  <1>7. CASE \E j \in Items : Enqueue(j) \/ Passes(j) \/ Requeue(j) \/ Resolve(j) \/ Hold(j)
    <2>1. PICK j \in Items : Enqueue(j) \/ Passes(j) \/ Requeue(j) \/ Resolve(j) \/ Hold(j)
      BY <1>7, Zenon
    <2>2. CASE WaitPasses(j)
      BY <1>0, <2>2, Zenon DEF WaitPasses, Becomes, Row
    <2>3. CASE ~WaitPasses(j)
      <3>1. rows[j].state \notin {"done", "resolved"}
        BY <2>1, <2>3, Zenon DEF Enqueue, Passes, BecomesDue, LeaseExpires, Requeue, Requeueable, Resolve, Hold
      <3> QED
        BY <1>2, <2>1, <2>3, <3>1, Zenon
           DEF Enqueue, Passes, BecomesDue, LeaseExpires, Requeue, Resolve, Hold
    <2> QED
      BY <2>2, <2>3, Zenon
  <1>8. CASE \E j \in Items : Purge(j)
    BY <1>0, <1>8, SMTT(30) DEF Purge, Becomes, Row
  <1>9. CASE Backup \/ UNCHANGED vars
    BY <1>9, Zenon DEF Backup, vars
  <1>10. ~Recover
    BY <1>0, SMTT(30) DEF Recover
  <1> QED
    BY <1>3, <1>4, <1>5, <1>6, <1>7, <1>8, <1>9, <1>10, Zenon DEF Next, WorkerStep

\* Within one database epoch a finished item never runs again: not after a late worker's commit, not after a requeue
\* (run.go: guard; operator.go: Requeue).
THEOREM FinishedForGood == Spec => FinishedStays
  <1>1. IInv /\ [Next]_vars =>
          [dbEpoch' = dbEpoch =>
             \A i \in Items : /\ rows[i].state = "done" => rows'[i].state \in {"done", "gone"}
                              /\ rows[i].state = "resolved" => rows'[i].state \in {"resolved", "gone"}]_vars
    BY FinishedStep, Zenon
  <1> QED
    BY <1>1, Inductive, PTL DEF Spec, FinishedStays
=============================================================================
