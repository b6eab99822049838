------------------------------- MODULE Calls -------------------------------
(***************************************************************************)
(* The outbound side of a member (calls/): per (member, dependency) a      *)
(* concurrency limit, a circuit breaker and a retry budget, shared by all  *)
(* the callers that run Dependency.do at the same time.                    *)
(*                                                                         *)
(* One attempt is a step for sending, one for the breaker, one for the     *)
(* budget and one for the retry, so calls admitted before the breaker      *)
(* opened come back after it did.  Permit numbers are reused once nobody   *)
(* holds them.  A deadline is a choice: whether enough time is left is     *)
(* decided where the code reads the clock, and a call that finds too       *)
(* little ends there.  What the dependency does wrong is drawn from        *)
(* `faults`.                                                               *)
(***************************************************************************)
EXTENDS Integers, FiniteSets, FiniteSetsExt, Sequences, SequencesExt

CONSTANTS
    Callers,                \* the goroutines that call this dependency
    MaxAttempts,            \* 3 in the code
    OutboundLimit,          \* 64
    BreakerWindow,          \* 20
    BreakerTrialsToClose,   \* 3
    BreakerOpenFirst,       \* 5 s
    BreakerOpenMax,         \* 30 s
    budgetMax,              \* 10000, in thousandths of a token
    budgetSuccess,          \* 100
    budgetFailure,          \* 1000
    budgetThreshold,        \* 5000
    Scenarios               \* what each caller's calls are, and the faults

VARIABLES
    scenario,
    dep,        \* the Dependency: slots in use, Breaker and Budget
    call,       \* per caller, the call it is in
    faults,     \* how many more results may be bad
    seen        \* history: trials passed since the breaker opened, retries of
                \* failures since an attempt last succeeded, who failed since

vars == <<scenario, dep, call, faults, seen>>

-----------------------------------------------------------------------------
(* Classes of results.                                                     *)

\* What the transport reported of one attempt; "dial" sent nothing.
Results == {"ok", "dial", "reset", "unavailable", "deadline", "relayed",
            "refused", "cancelled"}

Classify(r) ==
    CASE r = "ok" -> "success"
      [] r = "dial" -> "connect_failed"
      [] r \in {"reset", "unavailable"} -> "unavailable"
      [] r = "refused" -> "other"
      [] OTHER -> r

Failed(class) == class \in {"unavailable", "connect_failed"}

BreakerOutcome(class) ==
    CASE class = "success" -> "success"
      [] Failed(class) \/ class = "deadline" -> "failure"
      [] OTHER -> "ignored"

\* The caller's answer when `class` was the last attempt.
Upward(class, idempotent) ==
    CASE class = "success" -> "OK"
      [] Failed(class) -> "DEPENDENCY_UNAVAILABLE"
      [] class = "deadline" -> IF idempotent THEN "DEADLINE_EXCEEDED" ELSE "RESULT_UNKNOWN"
      [] class = "cancelled" -> "REQUEST_CANCELLED"
      [] OTHER -> "REMOTE"

-----------------------------------------------------------------------------
(* The retry budget and the retry decision.                                *)

Record(tokens, class) ==
    CASE class = "success" -> Min({budgetMax, tokens + budgetSuccess})
      [] Failed(class) -> Max({0, tokens - budgetFailure})
      [] OTHER -> tokens

AllowsRetry(tokens) == tokens > budgetThreshold

ShouldRetry(idempotent, class, made, tokens, left) ==
    /\ idempotent /\ Failed(class)
    /\ made < MaxAttempts
    /\ AllowsRetry(tokens)
    /\ left

-----------------------------------------------------------------------------
(* The circuit breaker.                                                    *)

Permits == 1 .. Cardinality(Callers) + 1

Held == {call[c].permit : c \in Callers} \cup {dep.trial}

Admits ==
    \/ dep.state = "closed"
    \/ dep.state = "open" /\ dep.wait = 0
    \/ dep.state = "half_open" /\ dep.trial = 0

\* Breaker.Start of an admitted call with permit p.
Started(p) ==
    IF dep.state = "closed" THEN dep
    ELSE [dep EXCEPT !.state = "half_open", !.trial = p,
                     !.trialOK = IF dep.state = "open" THEN 0 ELSE @]

Opened(d) == [d EXCEPT !.state = "open", !.wait = d.openFor]

EndTrial(d, p, outcome) ==
    IF d.trial # p THEN d
    ELSE IF outcome = "failure" THEN
            Opened([d EXCEPT !.trial = 0, !.trialOK = 0,
                             !.openFor = Min({2 * @, BreakerOpenMax})])
    ELSE IF outcome = "success" /\ d.trialOK + 1 >= BreakerTrialsToClose THEN
            [d EXCEPT !.trial = 0, !.trialOK = @ + 1, !.state = "closed",
                      !.window = <<>>, !.openFor = BreakerOpenFirst]
    ELSE IF outcome = "success" THEN [d EXCEPT !.trial = 0, !.trialOK = @ + 1]
    ELSE [d EXCEPT !.trial = 0]

EndClosed(d, outcome) ==
    LET all == Append(d.window, outcome)
        window == SubSeq(all, Max({1, Len(all) - BreakerWindow + 1}), Len(all))
        failures == Cardinality({i \in DOMAIN window : window[i] = "failure"})
    IN IF outcome = "ignored" THEN d
       ELSE IF Len(window) = BreakerWindow /\ failures * 2 > BreakerWindow THEN
               Opened([d EXCEPT !.window = <<>>])
       ELSE [d EXCEPT !.window = window]

End(d, p, outcome) ==
    CASE d.state = "half_open" -> EndTrial(d, p, outcome)
      [] d.state = "closed" -> EndClosed(d, outcome)
      [] OTHER -> d

-----------------------------------------------------------------------------
(* Dependency.do.                                                          *)

Idle == [at |-> "idle", n |-> 0, last |-> "none", permit |-> 0,
         trial |-> FALSE, sent |-> 0, answer |-> "none"]

Idempotent(c) == scenario.calls[c] # "command"
Background(c) == scenario.calls[c] = "background"

\* do returns: the answer stays to be looked at, the slot is given back.
Return(c, answer, d) ==
    /\ call' = [call EXCEPT ![c] = [Idle EXCEPT !.sent = call[c].sent, !.answer = answer]]
    /\ dep' = [d EXCEPT !.inUse = @ - 1]

Begin(c) ==
    /\ call[c].at = "idle" /\ scenario.calls[c] # "none"
    /\ IF dep.inUse < OutboundLimit
       THEN /\ call' = [call EXCEPT ![c] = [Idle EXCEPT !.at = "loop", !.n = 1]]
            /\ dep' = [dep EXCEPT !.inUse = @ + 1]
       ELSE /\ call' = [call EXCEPT ![c] = [Idle EXCEPT !.answer = "OUTBOUND_LIMIT"]]
            /\ UNCHANGED dep
    /\ UNCHANGED <<scenario, faults, seen>>

\* The answer when the next attempt is not sent.
Unsent(c, refusal) ==
    IF call[c].n > 1 THEN Upward(call[c].last, Idempotent(c)) ELSE refusal

\* Less than DeadlineReserve is left.
OutOfTime(c) ==
    /\ call[c].at = "loop" /\ faults > 0
    /\ Return(c, Unsent(c, "DEADLINE_BUDGET_EXHAUSTED"), dep)
    /\ faults' = faults - 1
    /\ UNCHANGED <<scenario, seen>>

Rejected(c) ==
    /\ call[c].at = "loop" /\ ~Background(c) /\ ~Admits
    /\ Return(c, Unsent(c, "CIRCUIT_OPEN"), dep)
    /\ UNCHANGED <<scenario, faults, seen>>

Send(c) ==
    /\ call[c].at = "loop" /\ (Background(c) \/ Admits)
    /\ LET p == IF Background(c) THEN 0 ELSE Min(Permits \ Held)
       IN /\ dep' = IF Background(c) THEN dep ELSE Started(p)
          /\ call' = [call EXCEPT ![c].at = "sent", ![c].permit = p,
                        ![c].trial = ~Background(c) /\ dep.state # "closed"]
    /\ UNCHANGED <<scenario, faults, seen>>

\* The attempt's result r: the breaker counts it.
Result(c, r) ==
    LET class == Classify(r)
        d == IF Background(c) THEN dep ELSE End(dep, call[c].permit, BreakerOutcome(class))
    IN /\ call[c].at = "sent"
       /\ r # "ok" => faults > 0
       /\ faults' = IF r = "ok" THEN faults ELSE faults - 1
       /\ dep' = d
       /\ call' = [call EXCEPT ![c] = [Idle EXCEPT !.at = "record", !.n = call[c].n, !.last = class,
                                         !.sent = call[c].sent + (IF r = "dial" THEN 0 ELSE 1)]]
       /\ seen' = [seen EXCEPT !.passed = IF dep.state # "open" /\ d.state = "open" THEN 0
                                          ELSE @ + (IF class = "success" /\ call[c].trial THEN 1 ELSE 0)]
       /\ UNCHANGED scenario

\* The budget counts it, and a success is returned.
RecordResult(c) ==
    LET class == call[c].last
        d == [dep EXCEPT !.tokens = Record(@, class)]
    IN /\ call[c].at = "record"
       /\ IF class = "success"
          THEN /\ Return(c, Upward(class, Idempotent(c)), d)
               /\ seen' = [seen EXCEPT !.retries = 0, !.failed = {}]
          ELSE /\ call' = [call EXCEPT ![c].at = "decide"] /\ dep' = d
               /\ seen' = [seen EXCEPT !.failed = @ \cup {c}]
       /\ UNCHANGED <<scenario, faults>>

\* The budget is read again, which other callers may have changed: do ends or, after the backoff, tries again.
Decide(c, left) ==
    LET retry == ShouldRetry(Idempotent(c), call[c].last, call[c].n, dep.tokens, left)
    IN /\ call[c].at = "decide"
       /\ IF retry
          THEN call' = [call EXCEPT ![c].at = "loop", ![c].n = @ + 1] /\ UNCHANGED dep
          ELSE Return(c, Upward(call[c].last, Idempotent(c)), dep)
       /\ seen' = [seen EXCEPT !.failed = @ \ {c}, !.retries = @ + (IF retry /\ c \in seen.failed THEN 1 ELSE 0)]
       /\ UNCHANGED <<scenario, faults>>

\* The caller's context ends during the backoff.
CancelledSleep(c) ==
    /\ call[c].at = "loop" /\ call[c].n > 1 /\ faults > 0
    /\ Return(c, Upward("cancelled", Idempotent(c)), dep)
    /\ faults' = faults - 1
    /\ UNCHANGED <<scenario, seen>>

\* The breaker's monotonic clock.
Tick ==
    /\ dep.state = "open" /\ dep.wait > 0
    /\ dep' = [dep EXCEPT !.wait = @ - 1]
    /\ UNCHANGED <<scenario, call, faults, seen>>

-----------------------------------------------------------------------------
Init ==
    /\ scenario \in Scenarios
    /\ dep = [inUse |-> 0, state |-> "closed", window |-> <<>>, wait |-> 0,
              openFor |-> BreakerOpenFirst, trial |-> 0, trialOK |-> 0, tokens |-> budgetMax]
    /\ call = [c \in Callers |-> Idle]
    /\ faults = scenario.faults
    /\ seen = [passed |-> 0, retries |-> 0, failed |-> {}]

Step(c) ==
    \/ Begin(c) \/ Rejected(c) \/ Send(c)
    \/ \E r \in Results : Result(c, r)
    \/ RecordResult(c)
    \/ \E left \in BOOLEAN : Decide(c, left)

Next ==
    \/ \E c \in Callers : Step(c) \/ OutOfTime(c) \/ CancelledSleep(c)
    \/ Tick

Spec == Init /\ [][Next]_vars

-----------------------------------------------------------------------------
(* Properties.                                                             *)

\* The breaker closes only after BreakerTrialsToClose attempts that were sent
\* after it opened have succeeded: the late success of a call admitted before
\* it opened proves nothing (Breaker.End's trial # p.id).
ClosesAfterTrials ==
    dep.state # "closed" /\ dep'.state = "closed"
        => seen'.passed >= BreakerTrialsToClose

\* While no attempt succeeds, all callers together start at most the retries a
\* full budget pays for, however many calls fail at once and whatever happens
\* between a failure's Record and its AllowsRetry.  A failure counted before the
\* last success may still be retried once on top (Dependency.do).
RetriesAreBounded ==
    seen.retries * budgetFailure < budgetMax - budgetThreshold

\* A call refused before sending (circuit open, outbound limit, no time left)
\* sent nothing, so its caller may repeat a command: after an earlier attempt
\* that attempt's own failure is answered instead (Dependency.do's n > 1).
RefusedIsUnsent ==
    \A c \in Callers :
        call[c].answer \in {"CIRCUIT_OPEN", "OUTBOUND_LIMIT", "DEADLINE_BUDGET_EXHAUSTED"}
            => call[c].sent = 0
=============================================================================
