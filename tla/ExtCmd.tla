------------------------------- MODULE ExtCmd -------------------------------
(***************************************************************************)
(* An adapter's external command (package extcmd): the job that claims,    *)
(* sends and queries it, the state table Step, the registration of a       *)
(* manual command by a person, and the reconciliation after a restore of   *)
(* the whole set, against an external system that deduplicates, expires    *)
(* and processes requests as its Capabilities declare.                     *)
(*                                                                         *)
(* One command: commands share nothing but the job.  A transaction is one  *)
(* atomic action.  Times are kept as ages (ticks since) or, for deadlines, *)
(* as the ticks left (below 0: past), so that time never ends; a time that *)
(* may be NULL is a set of at most one.                                    *)
(***************************************************************************)
EXTENDS Integers, FiniteSets

CONSTANTS
    Scenarios,    \* external operations and what goes wrong (see Scenario)
    Margin,       \* of the resend deadline (MinMargin)
    ManualAfter,
    SendLease,
    Transit,      \* assumption: how long a request is under way when no MaxProcessing is declared
    MaxAge        \* ages are counted up to this: above every limit they are compared with

Terminal == {"succeeded", "failed", "rejected"}
States == {"absent", "prepared", "retry_wait", "sending", "unknown", "accepted", "manual"} \cup Terminal

Ages == 0..MaxAge
Left == -1..MaxAge
Optional(S) == {{}} \cup {{x} : x \in S}

Capabilities == [dedupe : Nat, lastUse : BOOLEAN, query : BOOLEAN, maxProcessing : Nat,
                 finality : Nat, irrevocable : BOOLEAN]

\* What a behaviour starts from and never changes: the operation, the command's expiry (honoured by the external
\* system), whether the external system refuses it, the faults and the bound on them.
Scenario == [caps      : Capabilities,
             expires   : Optional(Left),
             refuses   : BOOLEAN,
             faults    : SUBSET {"not_reached", "maybe_reached", "unavailable", "crash", "evidence", "register",
                                 "restore"},
             maxFaults : Nat]

ASSUME ExtCmdConstants ==
    /\ Scenarios \subseteq Scenario
    /\ Margin \in Nat /\ MaxAge \in Nat
    /\ {ManualAfter, SendLease, Transit} \subseteq 0..(MaxAge - 1)
    /\ \A s \in Scenarios : {s.caps.dedupe, s.caps.maxProcessing, s.caps.finality} \subseteq 0..(MaxAge - 1)

VARIABLES
    scenario,
    cmd,       \* the row of be_external_command with its unfinished attempts
    run,       \* what the run of the job holds in memory (the job is a singleton)
    ext,       \* external: the system's record of the reference, the requests under way to it and their expiry
    issued,    \* the evidence store has the command's issue record
    recovery,  \* the member's phase, the restore it recovers from, what the reconciliation concluded, and whether the
               \* requester asked again for a command that was sent before the restore lost it
    backup,    \* what a restore brings back
    faults

vars == <<scenario, cmd, run, ext, issued, recovery, backup, faults>>

caps == scenario.caps

Cmd == [state : States,
        deadline      : Optional(Left),
        expires       : Optional(Left),
        first         : Optional(Ages),
        last          : Optional(Ages),
        unknownSince  : Optional(Ages),
        acceptedSince : Optional(Ages),
        unrecorded    : Optional(Ages),
        claimed       : Ages,
        attempts      : SUBSET (Nat \X Ages)]

NoCmd == [state |-> "absent", deadline |-> {}, expires |-> {}, first |-> {}, last |-> {}, unknownSince |-> {},
          acceptedSince |-> {}, unrecorded |-> {}, claimed |-> 0, attempts |-> {}]

\* A run: row is the command as load read it, n its attempt, answer what a query said.
Run == [phase   : {"idle", "claimed", "issuing", "calling", "awaiting", "querying", "answered"},
        row     : Cmd,
        n       : Nat,
        answer  : {"none", "not_found", "unavailable", "accepted"} \cup Terminal,
        ticked  : BOOLEAN]

Idle == [phase |-> "idle", row |-> NoCmd, n |-> 0, answer |-> "none", ticked |-> FALSE]

Init ==
    /\ scenario \in Scenarios
    /\ cmd = NoCmd
    /\ run = Idle
    /\ ext = [record |-> "none", used |-> {}, effects |-> 0, flight |-> {}, sent |-> 0, expires |-> {}]
    /\ issued = FALSE
    /\ recovery = [phase |-> "normal", t |-> {}, failed |-> {}, asked |-> {}, conclusion |-> "none", again |-> FALSE]
    /\ backup = [cmd |-> NoCmd, age |-> 0]
    /\ faults = 0

Spend(f) == f \in scenario.faults /\ faults < scenario.maxFaults /\ faults' = faults + 1

-----------------------------------------------------------------------------
(* The state table.                                                        *)

\* Mutation of Deadline: no safety margin.
DeadlineNoMargin(c) ==
    IF caps.dedupe = 0 THEN {}
    ELSE {IF a > caps.dedupe THEN -1 ELSE caps.dedupe - a :
            a \in IF caps.lastUse /\ c.last # {} THEN c.last ELSE c.first}

\* The resend deadline: the dedupe window from the first (or last) send that may have reached, less the margin.
Deadline(c) ==
    IF caps.dedupe = 0 THEN {}
    ELSE {IF a > caps.dedupe - Margin THEN -1 ELSE caps.dedupe - Margin - a :
            a \in IF caps.lastUse /\ c.last # {} THEN c.last ELSE c.first}

Passed(left) == \E x \in left : x < 0
Longer(ages, limit) == \E a \in ages : a > limit

\* The latest moment a request may have left: the last recorded one, or the end of what is not recorded.
LatestSend(c) ==
    IF c.last # {} /\ c.unrecorded # {}
      THEN {IF u < l THEN u ELSE l : u \in c.unrecorded, l \in c.last}
      ELSE c.last \cup c.unrecorded

\* A query found nothing: the earlier request can no longer land, or would be taken for the same one.
resendable(c) ==
    \/ Deadline(c) # {} /\ ~Passed(Deadline(c))
    \/ Passed(c.expires)
    \/ caps.maxProcessing > 0 /\ Longer(LatestSend(c), caps.maxProcessing)

\* Mutation of AfterSend: an error of the call counts as a failure.
AfterSendFails(class) ==
    CASE class = "not_reached" -> "retry_wait" [] class = "maybe_reached" -> "failed" [] OTHER -> class

\* The state after a send's result.
AfterSend(class) ==
    CASE class = "not_reached" -> "retry_wait" [] class = "maybe_reached" -> "unknown" [] OTHER -> class

\* Step: what an event of a kind makes of a command.
Step(c, kind, arg) ==
    CASE kind = "claim" /\ c.state \in {"prepared", "retry_wait"} -> IF Passed(c.deadline) THEN "unknown" ELSE "sending"
      [] kind = "before_send" /\ c.state = "sending" -> IF Passed(c.deadline) THEN "unknown" ELSE "sending"
      [] kind = "lease_lost" /\ c.state = "sending" -> "unknown"
      [] kind = "send_result" /\ c.state = "sending" -> AfterSend(arg)
      [] kind = "query_found" /\ c.state \in {"unknown", "accepted"} -> arg
      [] kind = "query_unavailable" /\ c.state \in {"unknown", "accepted"} ->
           IF Longer(IF c.state = "accepted" THEN c.acceptedSince ELSE c.unknownSince, ManualAfter)
             THEN "manual" ELSE c.state
      [] kind = "query_not_found" /\ c.state = "unknown" -> IF resendable(c) THEN "sending" ELSE "manual"
      [] kind = "finality_passed" /\ c.state = "accepted" ->
           IF ~caps.query /\ Longer(c.acceptedSince, ManualAfter) THEN "manual" ELSE "accepted"
      [] OTHER -> c.state

\* Mutation of set: since when the state is unknown starts again with every write.
setRestarts(c, state) ==
    [c EXCEPT !.state = state,
              !.unknownSince = IF state # "unknown" THEN {} ELSE {0},
              !.acceptedSince = IF state # "accepted" THEN {} ELSE {0},
              !.claimed = 0]

\* set: the row with a new state, whatever its state was.
set(c, state) ==
    [c EXCEPT !.state = state,
              !.unknownSince = IF state # "unknown" THEN {} ELSE IF @ = {} THEN {0} ELSE @,
              !.acceptedSince = IF state # "accepted" THEN {} ELSE IF @ = {} THEN {0} ELSE @,
              !.claimed = 0]

-----------------------------------------------------------------------------
(* The business and the job.                                               *)

QueryOnly == recovery.phase # "normal"

\* Request, in a business transaction, of which a recovering member runs none; again under the same reference it changes
\* nothing, unless a restore has lost the row.
Request ==
    /\ cmd.state = "absent" /\ ~QueryOnly
    /\ cmd' = [NoCmd EXCEPT !.state = "prepared", !.expires = scenario.expires]
    /\ recovery' = [recovery EXCEPT !.again = @ \/ ext.sent > 0]
    /\ UNCHANGED <<scenario, run, ext, issued, backup, faults>>

Moves(c) == cmd' = c /\ UNCHANGED run
Goes(phase) == run' = [Idle EXCEPT !.phase = phase, !.row = cmd']

\* process: one command a step forward.
process ==
    /\ run.phase = "idle"
    /\ \/ /\ cmd.state \in {"prepared", "retry_wait"} /\ ~QueryOnly
          /\ LET next == Step(cmd, "claim", "none") IN
             /\ cmd' = set(cmd, next)
             /\ IF next = "unknown" THEN UNCHANGED run ELSE Goes("claimed")
       \/ /\ cmd.state = "sending" /\ cmd.claimed >= SendLease
          /\ Moves(set(cmd, Step(cmd, "lease_lost", "none")))
       \/ /\ cmd.state = "unknown"
          /\ cmd' = cmd /\ Goes("querying")
       \/ /\ cmd.state = "accepted" /\ \A a \in cmd.acceptedSince : a >= caps.finality
          /\ LET next == Step(cmd, "finality_passed", "none") IN
             IF next = "accepted" /\ caps.query
               THEN cmd' = cmd /\ Goes("querying")
               ELSE next # "accepted" /\ Moves(set(cmd, next))
    /\ UNCHANGED <<scenario, ext, issued, recovery, backup, faults>>

\* send, its first transaction: the deadline once more, and the attempt.
BeforeSend ==
    /\ run.phase = "claimed"
    /\ IF Step(run.row, "before_send", "none") = "unknown"
         THEN /\ cmd' = set(cmd, "unknown") /\ run' = Idle /\ UNCHANGED ext
         ELSE /\ ext' = [ext EXCEPT !.sent = @ + 1, !.expires = cmd.expires]
              /\ cmd' = [cmd EXCEPT !.attempts = @ \cup {<<ext'.sent, 0>>}]
              /\ run' = [run EXCEPT !.phase = IF caps.irrevocable THEN "issuing" ELSE "calling",
                                         !.n = ext'.sent]
    /\ UNCHANGED <<scenario, issued, recovery, backup, faults>>

\* The unfinished attempts without the n-th.
Ended(n) == {t \in cmd.attempts : t[1] # n}

\* issued: the issue record of an irrevocable command, or no send.
Issue ==
    /\ run.phase = "issuing"
    /\ \/ /\ issued' = TRUE
          /\ run' = [run EXCEPT !.phase = "calling"] /\ UNCHANGED <<cmd, faults>>
       \/ /\ Spend("evidence") /\ UNCHANGED issued
          /\ cmd' = set([cmd EXCEPT !.attempts = Ended(run.n)], "retry_wait")
          /\ run' = Idle
    /\ UNCHANGED <<scenario, ext, recovery, backup>>

\* Adapter.Send: the request leaves.
Call ==
    /\ run.phase = "calling"
    /\ ext' = [ext EXCEPT !.flight = @ \cup {<<run.n, 0>>}]
    /\ run' = [run EXCEPT !.phase = "awaiting"]
    /\ UNCHANGED <<scenario, cmd, issued, recovery, backup, faults>>

\* send's last transaction: the attempt's end, the times (as this run knows them) and the new state.
SendResult(class) ==
    LET row == run.row
        reached == IF class = "not_reached" THEN row
                   ELSE [row EXCEPT !.first = IF @ = {} THEN {0} ELSE @, !.last = {0}]
    IN /\ cmd' = set([cmd EXCEPT !.first = reached.first, !.last = reached.last, !.deadline = Deadline(reached),
                                 !.attempts = Ended(run.n)],
                     Step(row, "send_result", class))
       /\ run' = Idle

UnderWay(n) == \E x \in ext.flight : x[1] = n

\* Adapter.Send returns what it can know: certainly not there, perhaps, refused as expired, or the system's answer.
SendReturns ==
    /\ run.phase = "awaiting"
    /\ \/ /\ UnderWay(run.n) /\ Spend("not_reached")
          /\ SendResult("not_reached")
          /\ ext' = [ext EXCEPT !.flight = {x \in @ : x[1] # run.n}]
       \/ /\ Spend("maybe_reached") /\ SendResult("maybe_reached") /\ UNCHANGED ext
       \/ /\ UnderWay(run.n) /\ Passed(ext.expires) /\ SendResult("rejected")
          /\ ext' = [ext EXCEPT !.flight = {x \in @ : x[1] # run.n}] /\ UNCHANGED faults
       \/ /\ ~UnderWay(run.n) /\ ext.record # "none" /\ SendResult(ext.record) /\ UNCHANGED <<ext, faults>>
    /\ UNCHANGED <<scenario, issued, recovery, backup>>

\* Adapter.Query: what the external system says of the reference now.
Query ==
    /\ run.phase = "querying"
    /\ \/ /\ run' = [run EXCEPT !.phase = "answered", !.answer =
                       IF ~caps.query THEN "unavailable" ELSE IF ext.record = "none" THEN "not_found" ELSE ext.record]
          /\ UNCHANGED faults
       \/ /\ Spend("unavailable")
          /\ run' = [run EXCEPT !.phase = "answered", !.answer = "unavailable"]
    /\ UNCHANGED <<scenario, cmd, ext, issued, recovery, backup>>

\* query's transaction: the answer against the row as it was loaded, and perhaps a send right away.
Answered ==
    /\ run.phase = "answered"
    /\ LET row == run.row
           a == run.answer
           next == CASE a = "unavailable" -> Step(row, "query_unavailable", "none")
                     [] a = "not_found" -> Step(row, "query_not_found", "none")
                     [] OTHER -> Step(row, "query_found", a)
       IN IF next = "sending" /\ ~QueryOnly
            THEN /\ cmd' = set(cmd, "sending")
                 /\ run' = [Idle EXCEPT !.phase = "claimed", !.row = set(row, "sending")]
            ELSE /\ cmd' = set(cmd, IF next = "sending" THEN "unknown" ELSE next)
                 /\ run' = Idle
    /\ UNCHANGED <<scenario, ext, issued, recovery, backup, faults>>

Crash ==
    /\ run.phase # "idle" /\ Spend("crash")
    /\ run' = Idle
    /\ UNCHANGED <<scenario, cmd, ext, issued, recovery, backup>>

-----------------------------------------------------------------------------
(* A person, and the external system.                                      *)

\* Mutation of Registrable: the state is not looked at.
RegistrableAlways(c) == c.state # "absent"

\* Register's condition.
Registrable(c) == c.state = "manual"

\* A person verifies the outcome: the external record's, or that the request did not happen and no longer will.
Register ==
    /\ Registrable(cmd) /\ Spend("register")
    /\ \/ ext.record \in Terminal /\ cmd' = set(cmd, ext.record)
       \/ ext.record = "none" /\ ext.flight = {} /\ cmd' = set(cmd, "retry_wait")
    /\ UNCHANGED <<scenario, run, ext, issued, recovery, backup>>

\* External: a request arrives.  Within the dedupe window of its first (or last) use the reference counts as seen.
Arrive(x) ==
    /\ x \in ext.flight /\ ~Passed(ext.expires)
    /\ LET seen == ext.used # {} /\ ~Longer(ext.used, caps.dedupe)
           rest == ext.flight \ {x}
       IN ext' = CASE scenario.refuses -> [ext EXCEPT !.flight = rest, !.record = "rejected"]
                   [] ~scenario.refuses /\ seen -> [ext EXCEPT !.flight = rest, !.used = IF caps.lastUse THEN {0} ELSE @]
                   [] OTHER -> [ext EXCEPT !.flight = rest, !.used = IF caps.dedupe > 0 THEN {0} ELSE {}, !.effects = @ + 1,
                                            !.record = "accepted"]
    /\ UNCHANGED <<scenario, cmd, run, issued, recovery, backup, faults>>

\* External: an accepted request becomes final.
Finishes ==
    /\ ext.record = "accepted"
    /\ \E end \in {"succeeded", "failed"} : ext' = [ext EXCEPT !.record = end]
    /\ UNCHANGED <<scenario, cmd, run, issued, recovery, backup, faults>>

-----------------------------------------------------------------------------
(* A restore and its reconciliation.                                       *)

\* External: the recovery point moves on, once, past the request.
Backup ==
    /\ "restore" \in scenario.faults /\ recovery.phase = "normal" /\ recovery.t = {}
    /\ cmd.state # "absent" /\ backup.cmd.state = "absent"
    /\ backup' = [cmd |-> cmd, age |-> 0]
    /\ UNCHANGED <<scenario, cmd, run, ext, issued, recovery, faults>>

\* External: the whole set goes back to the backup and starts in the verifying phase, which only queries.
Restore ==
    /\ recovery.phase = "normal" /\ recovery.t = {} /\ Spend("restore")
    /\ cmd' = backup.cmd
    /\ run' = Idle
    /\ recovery' = [recovery EXCEPT !.phase = "verifying", !.t = {backup.age}, !.failed = {0}, !.asked = {},
                                    !.conclusion = "none"]
    /\ backup' = [cmd |-> NoCmd, age |-> 0]
    /\ UNCHANGED <<scenario, ext, issued>>

\* earliest: the first send that may have reached, the start of one that has not ended, or the recovery point.
earliest(c) ==
    IF c.first # {} THEN c.first
    ELSE IF c.attempts # {}
      THEN {t[2] : t \in {u \in c.attempts : \A v \in c.attempts : u[2] >= v[2]}}
      ELSE recovery.t

\* Mutation of Match: the issue records are not looked at.
MatchIgnoresIssued(c, record) ==
    CASE c.state = "absent" -> IF record # "none" THEN "external_only" ELSE "none"
      [] c.state = "manual" -> "manual"
      [] OTHER -> "none"

\* Match, on one reference: the conclusion, where c has the times it goes by.
Match(c, record) ==
    CASE c.state = "absent" -> IF record # "none" THEN "external_only" ELSE IF issued THEN "possibly_executed" ELSE "none"
      [] c.state \in Terminal -> "none"
      [] c.state \notin Terminal \cup {"absent"} /\ record # "none" -> "matched"
      [] c.state = "manual" /\ record = "none" -> "manual"
      [] OTHER -> IF Deadline(c) # {} /\ ~Passed(Deadline(c)) THEN "deadline"
                  ELSE IF Passed(c.expires) \/ (caps.maxProcessing > 0 /\ Longer(LatestSend(c), caps.maxProcessing))
                    THEN "unknown" ELSE "manual"

\* Reconcile, outside any transaction: readOpen, then ask about an open command or an issued reference without one.
Ask ==
    /\ QueryOnly /\ recovery.asked = {}
    /\ recovery' = [recovery EXCEPT !.asked =
         {IF caps.query /\ (IF cmd.state = "absent" THEN issued ELSE cmd.state \notin Terminal) THEN ext.record ELSE "none"}]
    /\ UNCHANGED <<scenario, cmd, run, ext, issued, backup, faults>>

\* Reconcile, in one transaction: match under the lock, apply and keep the conclusion.  The tool may repeat the call.
Apply ==
    /\ QueryOnly
    /\ \E record \in recovery.asked :
         LET c == [cmd EXCEPT !.first = earliest(cmd), !.unrecorded = recovery.failed]
             conclusion == Match(IF cmd.state \in Terminal \cup {"absent"} THEN cmd ELSE c, record)
         IN /\ recovery' = [recovery EXCEPT !.asked = {}, !.conclusion = IF conclusion = "none" THEN @ ELSE conclusion,
                                            !.phase = "reconciled"]
            /\ cmd' = CASE conclusion = "matched" -> set(cmd, record)
                        [] conclusion = "deadline" -> [c EXCEPT !.deadline = Deadline(c)]
                        [] conclusion = "unknown" -> set(c, "unknown")
                        [] conclusion = "manual" /\ cmd.state # "manual" -> set(c, "manual")
                        [] OTHER -> cmd
    /\ UNCHANGED <<scenario, run, ext, issued, backup, faults>>

\* External: the member restarts, opened.  The recovery's times are not read any more (t only says that there was one).
Open ==
    /\ recovery.phase = "reconciled"
    /\ recovery' = [recovery EXCEPT !.phase = "normal", !.t = {MaxAge}, !.failed = {}, !.asked = {}]
    /\ run' = Idle
    /\ UNCHANGED <<scenario, cmd, ext, issued, backup, faults>>

-----------------------------------------------------------------------------
(* Time.                                                                   *)

Older(a) == IF a < MaxAge THEN a + 1 ELSE a
Sooner(x) == IF x < 0 THEN x ELSE x - 1
OlderAll(ages) == {Older(a) : a \in ages}

OlderCmd(c) ==
    [c EXCEPT !.deadline = {Sooner(x) : x \in @}, !.expires = {Sooner(x) : x \in @},
              !.first = OlderAll(@), !.last = OlderAll(@),
              !.unknownSince = OlderAll(@), !.acceptedSince = OlderAll(@), !.unrecorded = OlderAll(@),
              !.claimed = IF c.state = "sending" /\ @ < SendLease THEN @ + 1 ELSE @,
              !.attempts = {<<t[1], Older(t[2])>> : t \in @}]

Processing == IF caps.maxProcessing > 0 THEN caps.maxProcessing ELSE Transit

\* A run takes at most a tick from its claim to its result, and none from a query to its answer.
InTime == run.phase = "idle" \/ (~run.ticked /\ run.phase \notin {"querying", "answered"})

\* A tick; a request under way for longer than the processing time is gone.
Tick ==
    /\ InTime
    /\ cmd' = OlderCmd(cmd)
    /\ run' = IF run.phase = "idle" THEN run ELSE [run EXCEPT !.row = OlderCmd(@), !.ticked = TRUE]
    /\ ext' = [ext EXCEPT !.used = OlderAll(@), !.expires = {Sooner(x) : x \in @},
                          !.flight = {<<x[1], Older(x[2])>> : x \in {y \in @ : y[2] < Processing}}]
    /\ recovery' = [recovery EXCEPT !.t = OlderAll(@), !.failed = OlderAll(@)]
    /\ backup' = IF "restore" \in scenario.faults /\ recovery.t = {}
                   THEN [cmd |-> OlderCmd(backup.cmd), age |-> Older(backup.age)] ELSE backup
    /\ UNCHANGED <<scenario, issued, faults>>

-----------------------------------------------------------------------------
Job == process \/ BeforeSend \/ Issue \/ Call \/ SendReturns \/ Query \/ Answered

Next ==
    \/ Request \/ Register \/ Finishes \/ Backup \/ Restore \/ Ask \/ Apply \/ Open \/ Tick
    \/ Job \/ Crash
    \/ \E x \in ext.flight : Arrive(x)

Spec == Init /\ [][Next]_vars

\* The job comes back every RunEvery, calls return and accepted requests become final; clocks advance.
Fairness ==
    /\ WF_vars(Job)
    /\ WF_vars(\E x \in ext.flight : Arrive(x)) /\ WF_vars(Finishes) /\ SF_vars(Tick)

FairSpec == Spec /\ Fairness

-----------------------------------------------------------------------------
\* The command takes effect at most once outside, through lost answers, crashes, resends, queries, registrations
\* and a restore with its reconciliation, until the requester asks again for a sent command that the restore lost: its
\* reference is taken for a new one (state.go: Deadline, resendable, Step; reconcile.go: Match; commands.go: Request).
EffectAtMostOnce == ~recovery.again => ext.effects <= 1

\* After a "not found" the command is sent again only when the earlier request can no longer land, or when the external
\* system still takes the two for one (state.go: resendable).
ResendOnlyWhenGone ==
    [][run.phase = "answered" /\ run'.phase = "claimed" =>
         \/ ext.flight = {} \/ Passed(cmd.expires)
         \/ Deadline(run.row) # {} /\ ~Passed(Deadline(run.row))]_vars

\* A final state is the external system's own, of a command that is not requested again after a restore: succeeded and
\* failed are its record, rejected took no effect (state.go: Step; commands.go: send, query, Register; reconcile.go: Match).
FinalStateTrue ==
    ~recovery.again =>
        /\ cmd.state \in {"succeeded", "failed"} => ext.record = cmd.state
        /\ cmd.state = "rejected" => ext.effects = 0

\* Once a command is final it stays so, in the normal phase (state.go: "a terminal state absorbs every later result").
FinalStays ==
    [][recovery.phase = "normal" /\ recovery'.phase = "normal" /\ cmd.state \in Terminal => cmd'.state = cmd.state]_vars

\* After a reconciliation, an irrevocable command that may have been executed is known: the command is there, or a
\* conclusion says so (commands.go: issued; reconcile.go: Match).
IssuedAccounted ==
    (recovery.phase = "normal" /\ recovery.t # {} /\ caps.irrevocable /\ ext.effects > 0) =>
        cmd.state # "absent" \/ recovery.conclusion \in {"external_only", "possibly_executed"}

\* Every command ends: with a final state, or with a person when its result stays unknown for longer than ManualAfter
\* (state.go: ManualAfter; commands.go: Run).
EveryCommandEnds ==
    (cmd.state # "absent") ~> (cmd.state \in Terminal \cup {"manual", "absent"} \/ recovery.phase # "normal")
=============================================================================
