---------------------------- MODULE ExtCmdProofs ----------------------------
(***************************************************************************)
(* Proofs about external commands, for every capability, fault, limit and  *)
(* number of faults.                                                       *)
(*                                                                         *)
(* Final states stay, and an executed irrevocable command is accounted for *)
(* after a restore, whatever the scenario (BaseInv).  That a command takes *)
(* effect at most once (OnceInv), and that its final state is the external *)
(* system's (FinalInv), hold under Timely, which says what the code takes  *)
(* for granted of its surroundings, until a command that a restore lost is *)
(* requested again; ExtCmdOnce goes on with them.                          *)
(*                                                                         *)
(* Every action has a lemma that says what it does to each variable (its   *)
(* Shape); every part of an invariant has a lemma with one case an action. *)
(***************************************************************************)
EXTENDS ExtCmd, TLAPS

-----------------------------------------------------------------------------
(* Types, and what the job holds.                                          *)

Answers == {"none", "accepted"} \cup Terminal

Ext == [record : Answers, used : Optional(Ages), effects : Nat, flight : SUBSET (Nat \X Ages), sent : Nat,
        expires : Optional(Left)]

Recovery == [phase : {"normal", "verifying", "reconciled"}, t : Optional(Ages), failed : Optional(Ages),
             asked : Optional(Answers),
             conclusion : {"none", "matched", "deadline", "unknown", "manual", "external_only", "possibly_executed"},
             again : BOOLEAN]

TypeInv ==
    /\ scenario \in Scenarios
    /\ cmd \in Cmd
    /\ run \in Run
    /\ ext \in Ext
    /\ issued \in BOOLEAN
    /\ recovery \in Recovery
    /\ backup \in [cmd : Cmd, age : Ages]
    /\ faults \in Nat

SendPhases == {"claimed", "issuing", "calling", "awaiting"}
QueryPhases == {"querying", "answered"}

\* The times of the row in memory are the table's.
SameTimes ==
    /\ run.row.first = cmd.first /\ run.row.last = cmd.last /\ run.row.unrecorded = cmd.unrecorded
    /\ run.row.deadline = cmd.deadline /\ run.row.expires = cmd.expires

\* The job alone changes the command it has in hand, but for a reconciliation, during which it only queries.
RunInv ==
    /\ run.phase \in SendPhases => recovery.phase = "normal" /\ run.row.state = "sending" /\ cmd.state = "sending"
    /\ run.phase \in QueryPhases => /\ run.row.state \in {"unknown", "accepted"}
                                    /\ recovery.phase # "reconciled" => cmd.state = run.row.state
    /\ run.phase # "idle" /\ recovery.phase = "normal" => SameTimes
    /\ run.phase # "idle" => cmd.state # "absent"
    /\ run.phase = "answered" => run.answer # "none"
    /\ recovery.phase # "normal" => recovery.t # {}

\* An issue record comes before anything can take effect, and a reconciliation says what it found of it.
IssuedInv ==
    /\ caps.irrevocable /\ (ext.effects > 0 \/ ext.flight # {} \/ run.phase \in {"calling", "awaiting"}) => issued
    /\ recovery.t # {} /\ recovery.phase # "verifying" /\ cmd.state = "absent" /\ issued =>
         recovery.conclusion \in {"external_only", "possibly_executed"}

BaseInv == TypeInv /\ RunInv /\ IssuedInv

-----------------------------------------------------------------------------
(* At most one effect.                                                     *)

\* What the code takes for granted: a request is under way for less than the margin of the resend deadline, and where
\* the processing time decides, a run that sent a request lives to record it (commands.go: send, its last transaction).
Timely ==
    /\ caps.dedupe > 0 => Processing < Margin
    /\ caps.maxProcessing > 0 => "crash" \notin scenario.faults

\* No request is accepted any more; no request was or is on its way.
Shut == Passed(ext.expires)
Clear == ext.effects = 0 /\ ext.flight = {}

\* The send the dedupe window is counted from.
Base(c) == IF caps.lastUse /\ c.last # {} THEN c.last ELSE c.first

\* The reference was used no earlier than these times.
UsedSince(ages) == ext.effects = 1 => \A u \in ext.used : \A a \in ages : u <= a

\* The stored deadline lies inside the dedupe window, less the margin.
Dated(c) == c.deadline # {} /\ \A v \in c.deadline : \A a \in Base(c) : v >= 0 => a + v + Margin <= caps.dedupe

\* The external system, and the requests on their way to it: a second one finds the reference in the window.
ExtInv ==
    /\ ext.effects <= 1
    /\ scenario.refuses => ext.effects = 0
    /\ ext.effects = 0 => ext.used = {} /\ (ext.record = "none" \/ (scenario.refuses /\ ext.record = "rejected"))
    /\ ext.effects = 1 => ext.record \in {"accepted", "succeeded", "failed"} /\ (caps.dedupe > 0 => ext.used # {})
    /\ ext.sent = 0 => Clear
    /\ \A r \in recovery.asked : r # "none" => ext.record # "none"

FlightInv ==
    /\ \A x \in ext.flight : x[1] <= ext.sent /\ x[2] <= Processing
    /\ \A x, y \in ext.flight : x[1] = y[1] => x = y
    /\ run.phase \in {"issuing", "calling"} => \A x \in ext.flight : x[1] # run.n
    /\ run.phase \in {"issuing", "calling"} => 0 < run.n /\ run.n <= ext.sent
    /\ ext.effects = 1 /\ ~Shut =>
         \A x \in ext.flight : caps.dedupe > 0 /\ \A u \in ext.used : u + Processing <= caps.dedupe + x[2]
    /\ ext.effects = 0 /\ ~Shut =>
         \A x, y \in ext.flight : x # y => caps.dedupe > 0 /\ Processing <= caps.dedupe

\* Why a run may send: nothing can have happened, nothing can happen, or the window is still open when it arrives.
Windowed(c) == caps.dedupe > 0 /\ Base(c) # {} /\ Dated(c) /\ UsedSince(Base(c))
InWindow(c) == Processing < caps.dedupe /\ Windowed(c)

SendInv ==
    run.phase \in {"claimed", "issuing", "calling"} =>
      \/ Clear \/ (Shut /\ ext.effects = 0)
      \/ /\ InWindow(run.row)
         /\ ext.effects = 1 => \A u \in ext.used : u + (IF run.ticked THEN 0 ELSE 1) + Processing <= caps.dedupe

\* While its request has not arrived, the earlier ones are as they were when it left.
AwaitInv ==
    run.phase = "awaiting" /\ UnderWay(run.n) =>
      \/ ext.effects = 0 /\ \A x \in ext.flight : x[1] = run.n
      \/ Shut /\ ext.effects = 0
      \/ InWindow(run.row)

\* A command that the job may claim: the same, by what the row says of its times.
Claimable == {"prepared", "retry_wait"}

\* The times earliest goes by, when a restored row has no first send.
Starts(c) == IF c.first # {} THEN Base(c) ELSE {t[2] : t \in c.attempts} \cup recovery.t

ClaimInv ==
    /\ cmd.state = "absent" /\ recovery.t = {} => ext.sent = 0
    /\ cmd.state \in Claimable /\ recovery.phase # "verifying" =>
         \/ Clear \/ (Shut /\ ext.effects = 0)
         \/ Windowed(cmd)
    /\ cmd.state \in Claimable /\ recovery.phase = "verifying" => UsedSince(Starts(cmd))

\* What a restore would bring back is older than the backup, and so is what it does not know of.
BackupInv ==
    /\ "restore" \notin scenario.faults => backup.cmd = NoCmd
    /\ recovery.t = {} =>
      /\ \A a \in backup.cmd.first \cup backup.cmd.last : backup.age <= a
      /\ \A t \in backup.cmd.attempts : backup.age <= t[2]
      /\ backup.cmd.state \in Claimable /\ ext.effects = 1 =>
           \A u \in ext.used : u <= backup.age \/ (backup.cmd.first # {} /\ \A a \in Base(backup.cmd) : u <= a)

\* A deadline that has not passed is stored.
Deadlined(c) == caps.dedupe > 0 => \A a \in Base(c) : a + Margin <= caps.dedupe => Dated(c)

DateInv ==
    /\ Deadlined(cmd) /\ Deadlined(backup.cmd)
    /\ cmd.last # {} => cmd.first # {}
    /\ backup.cmd.last # {} => backup.cmd.first # {}

\* Every request on its way left before the latest send the row knows of.
LeftBefore(c, x) == \A l \in LatestSend(c) : l <= x[2]

Recorded(x) == run.phase = "awaiting" => x[1] # run.n

LateInv ==
    caps.maxProcessing > 0 =>
      /\ recovery.phase # "normal" => recovery.failed # {} /\ \A x \in ext.flight : \A a \in recovery.failed : a <= x[2]
      /\ recovery.phase # "verifying" /\ cmd.state \in Claimable \cup {"sending", "unknown"} /\ ext.record = "none" =>
           \A x \in ext.flight : Recorded(x) => LeftBefore(cmd, x)
      /\ recovery.phase = "reconciled" /\ run.phase \in QueryPhases /\ run.row.state = "unknown" /\ ext.record = "none" =>
           \A x \in ext.flight : LeftBefore(cmd, x)

\* A query found nothing: nothing had happened by then.
NotFoundInv ==
    run.phase = "answered" /\ run.answer = "not_found" =>
      /\ ext.effects = 1 => \A u \in ext.used : u = 0
      /\ recovery.phase = "normal" /\ run.row.state = "unknown" /\ caps.maxProcessing > 0
           /\ Longer(LatestSend(run.row), caps.maxProcessing) => Clear
      /\ Shut => ext.effects = 0

\* The expiry of a request is the command's.
ExpiryInv ==
    /\ ext.sent > 0 /\ cmd.state # "absent" => cmd.expires = ext.expires
    /\ recovery.t = {} /\ backup.cmd.state # "absent" => cmd.state # "absent" /\ backup.cmd.expires = cmd.expires

OnceInv ==
    /\ ExtInv /\ FlightInv /\ SendInv /\ AwaitInv /\ ClaimInv /\ BackupInv /\ DateInv /\ LateInv /\ NotFoundInv
    /\ ExpiryInv

-----------------------------------------------------------------------------
(* Final states.                                                           *)

\* An expiry is honoured by a system that does not deduplicate, or there is none: a request that is refused because it
\* came too late is not one that came in time before.
Plain == caps.dedupe = 0 \/ scenario.expires = {}

\* What the command, the backup, a query or the reconciliation says is final is the external system's.
FinalInv ==
    /\ \A s \in {"succeeded", "failed"} :
         s \in {cmd.state, backup.cmd.state, run.answer} \cup recovery.asked => ext.record = s
    /\ "rejected" \in {run.answer} \cup recovery.asked => scenario.refuses
    /\ "rejected" \in {cmd.state, backup.cmd.state} => scenario.refuses \/ (Shut /\ ext.effects = 0)
    /\ scenario.expires = {} => cmd.expires = {} /\ backup.cmd.expires = {} /\ ext.expires = {}
    /\ ext.sent = 0 => ext.expires = {}

-----------------------------------------------------------------------------
(* The operators.                                                          *)

\* The limits of the operation, as naturals below the bound on ages.
LEMMA Limits ==
  ASSUME scenario \in Scenarios
  PROVE  /\ caps.dedupe \in Nat /\ caps.dedupe < MaxAge /\ caps.maxProcessing \in Nat /\ caps.maxProcessing < MaxAge
         /\ Processing \in Nat /\ Processing < MaxAge
         /\ Margin \in Nat /\ MaxAge \in Nat /\ SendLease \in Nat /\ SendLease < MaxAge
         /\ caps.lastUse \in BOOLEAN /\ caps.query \in BOOLEAN /\ caps.irrevocable \in BOOLEAN
         /\ scenario.refuses \in BOOLEAN /\ scenario.expires \in Optional(Left)
  <1>1. scenario \in Scenario /\ caps \in Capabilities
    BY ExtCmdConstants, Zenon DEF Scenario, caps
  <1>2. caps.dedupe \in 0..(MaxAge - 1) /\ caps.maxProcessing \in 0..(MaxAge - 1)
    BY ExtCmdConstants, Zenon DEF caps
  <1>3. Margin \in Nat /\ MaxAge \in Nat /\ SendLease \in 0..(MaxAge - 1) /\ Transit \in 0..(MaxAge - 1)
    BY ExtCmdConstants, Zenon
  <1>4. caps.lastUse \in BOOLEAN /\ caps.query \in BOOLEAN /\ caps.irrevocable \in BOOLEAN
    BY <1>1, Zenon DEF Capabilities
  <1>5. scenario.refuses \in BOOLEAN /\ scenario.expires \in Optional(Left)
    BY <1>1, Zenon DEF Scenario
  <1> QED
    BY <1>2, <1>3, <1>4, <1>5, SMTT(30) DEF Processing

\* set gives the row another state and its own times, and keeps what the resend goes by.
LEMMA SetShape ==
  ASSUME NEW c \in Cmd, NEW s \in States
  PROVE  /\ set(c, s) \in Cmd
         /\ set(c, s).state = s
         /\ set(c, s).first = c.first /\ set(c, s).last = c.last /\ set(c, s).unrecorded = c.unrecorded
         /\ set(c, s).deadline = c.deadline /\ set(c, s).expires = c.expires /\ set(c, s).attempts = c.attempts
  <1>1. {0} \in Optional(Ages) /\ {} \in Optional(Ages) /\ 0 \in Ages
    BY ExtCmdConstants, SMTT(30) DEF Optional, Ages
  <1>2. c.unknownSince \in Optional(Ages) /\ c.acceptedSince \in Optional(Ages)
    BY Zenon DEF Cmd
  <1> DEFINE x == IF s # "unknown" THEN {} ELSE IF c.unknownSince = {} THEN {0} ELSE c.unknownSince
             y == IF s # "accepted" THEN {} ELSE IF c.acceptedSince = {} THEN {0} ELSE c.acceptedSince
  <1>3. x \in Optional(Ages) /\ y \in Optional(Ages)
    BY <1>1, <1>2, Zenon
  <1>4. set(c, s) = [c EXCEPT !.state = s, !.unknownSince = x, !.acceptedSince = y, !.claimed = 0]
    BY Zenon DEF set
  <1> HIDE DEF x, y
  <1> QED
    BY <1>1, <1>3, <1>4, Zenon DEF Cmd

\* The resend deadline is a time or none.
LEMMA DeadlineType ==
  ASSUME scenario \in Scenarios, NEW c \in Cmd
  PROVE  Deadline(c) \in Optional(Left)
  <1>1. c.last \in Optional(Ages) /\ c.first \in Optional(Ages)
    BY Zenon DEF Cmd
  <1>2. PICK base : base = IF caps.lastUse /\ c.last # {} THEN c.last ELSE c.first
    BY Zenon
  <1>3. base \in Optional(Ages)
    BY <1>1, <1>2, Zenon
  <1>4. ASSUME caps.dedupe # 0, NEW a \in Ages, base = {a}
        PROVE  Deadline(c) = {IF a > caps.dedupe - Margin THEN -1 ELSE caps.dedupe - Margin - a}
    BY <1>2, <1>4, SMTT(30) DEF Deadline
  <1>5. ASSUME NEW a \in Ages
        PROVE  (IF a > caps.dedupe - Margin THEN -1 ELSE caps.dedupe - Margin - a) \in Left
    BY Limits, SMTT(30) DEF Ages, Left
  <1>6. ASSUME base = {} PROVE Deadline(c) = {}
    BY <1>2, <1>6, Zenon DEF Deadline
  <1>7. ASSUME caps.dedupe = 0 PROVE Deadline(c) = {}
    BY <1>7, Zenon DEF Deadline
  <1> QED
    BY <1>3, <1>4, <1>5, <1>6, <1>7, Zenon DEF Optional

\* What the deadline of a row whose base is known comes to.
LEMMA DeadlineValue ==
  ASSUME scenario \in Scenarios, NEW c \in Cmd, caps.dedupe > 0
  PROVE  /\ Base(c) # {} <=> Deadline(c) # {}
         /\ \A v \in Deadline(c) : \A a \in Base(c) : v >= 0 => a + v + Margin <= caps.dedupe
         /\ Base(c) # {} /\ ~Passed(Deadline(c)) => \A a \in Base(c) : a + Margin <= caps.dedupe
         /\ Passed(Deadline(c)) => \A a \in Base(c) : a + Margin > caps.dedupe
  <1>1. Base(c) \in Optional(Ages)
    BY Zenon DEF Cmd, Base
  <1>2. Deadline(c) = {IF a > caps.dedupe - Margin THEN -1 ELSE caps.dedupe - Margin - a : a \in Base(c)}
    BY Limits, SMTT(30) DEF Deadline, Base
  <1>3. CASE Base(c) = {}
    BY <1>2, <1>3, Zenon DEF Passed
  <1>4. CASE Base(c) # {}
    <2>1. PICK a \in Ages : Base(c) = {a}
      BY <1>1, <1>4, Zenon DEF Optional
    <2>2. a \in Nat /\ caps.dedupe \in Nat /\ Margin \in Nat
      BY Limits, <2>1, SMTT(30) DEF Ages
    <2>3. Deadline(c) = {IF a > caps.dedupe - Margin THEN -1 ELSE caps.dedupe - Margin - a}
      BY <1>2, <2>1, Zenon
    <2>4. CASE a > caps.dedupe - Margin
      BY <2>1, <2>2, <2>3, <2>4, SMTT(30) DEF Passed
    <2>5. CASE ~(a > caps.dedupe - Margin)
      BY <2>1, <2>2, <2>3, <2>5, SMTT(30) DEF Passed
    <2> QED
      BY <2>4, <2>5, Zenon
  <1> QED
    BY <1>3, <1>4, Zenon

\* A tick makes ages and deadlines of every kind a tick older.
LEMMA OlderTypes ==
  ASSUME NEW S \in Optional(Ages), NEW D \in Optional(Left)
  PROVE  OlderAll(S) \in Optional(Ages) /\ {Sooner(x) : x \in D} \in Optional(Left)
  <1>0. MaxAge \in Nat
    BY ExtCmdConstants, Zenon
  <1>1. \A a \in Ages : Older(a) \in Ages
    BY <1>0, SMTT(30) DEF Ages, Older
  <1>2. \A x \in Left : Sooner(x) \in Left
    BY <1>0, SMTT(30) DEF Left, Sooner
  <1>3. OlderAll(S) \in Optional(Ages)
    <2>1. CASE S = {}
      BY <2>1, Zenon DEF Optional, OlderAll
    <2>2. CASE \E a \in Ages : S = {a}
      <3>1. PICK a \in Ages : S = {a}
        BY <2>2, Zenon
      <3>2. OlderAll(S) = {Older(a)}
        BY <3>1, Zenon DEF OlderAll
      <3> QED
        BY <1>1, <3>2, Zenon DEF Optional
    <2> QED
      BY <2>1, <2>2, Zenon DEF Optional
  <1>4. {Sooner(x) : x \in D} \in Optional(Left)
    <2>1. CASE D = {}
      BY <2>1, Zenon DEF Optional
    <2>2. CASE \E a \in Left : D = {a}
      <3>1. PICK a \in Left : D = {a}
        BY <2>2, Zenon
      <3>2. {Sooner(x) : x \in D} = {Sooner(a)}
        BY <3>1, Zenon
      <3> QED
        BY <1>2, <3>2, Zenon DEF Optional
    <2> QED
      BY <2>1, <2>2, Zenon DEF Optional
  <1> QED
    BY <1>3, <1>4, Zenon

\* A tick makes every time of a row a tick older and leaves its state.
LEMMA OlderShape ==
  ASSUME NEW c \in Cmd
  PROVE  /\ OlderCmd(c) \in Cmd
         /\ OlderCmd(c).state = c.state
         /\ OlderCmd(c).first = OlderAll(c.first) /\ OlderCmd(c).last = OlderAll(c.last)
         /\ OlderCmd(c).unrecorded = OlderAll(c.unrecorded)
         /\ OlderCmd(c).deadline = {Sooner(x) : x \in c.deadline}
         /\ OlderCmd(c).expires = {Sooner(x) : x \in c.expires}
         /\ OlderCmd(c).attempts = {<<t[1], Older(t[2])>> : t \in c.attempts}
  <1> DEFINE d == {Sooner(x) : x \in c.deadline}
             e == {Sooner(x) : x \in c.expires}
             f == OlderAll(c.first)
             l == OlderAll(c.last)
             u == OlderAll(c.unknownSince)
             a == OlderAll(c.acceptedSince)
             r == OlderAll(c.unrecorded)
             k == IF c.state = "sending" /\ c.claimed < SendLease THEN c.claimed + 1 ELSE c.claimed
             t == {<<z[1], Older(z[2])>> : z \in c.attempts}
  <1>1. OlderCmd(c) = [c EXCEPT !.deadline = d, !.expires = e, !.first = f, !.last = l, !.unknownSince = u,
                                !.acceptedSince = a, !.unrecorded = r, !.claimed = k, !.attempts = t]
    BY Zenon DEF OlderCmd
  <1>2. /\ c.deadline \in Optional(Left) /\ c.expires \in Optional(Left) /\ c.first \in Optional(Ages)
        /\ c.last \in Optional(Ages) /\ c.unknownSince \in Optional(Ages) /\ c.acceptedSince \in Optional(Ages)
        /\ c.unrecorded \in Optional(Ages) /\ c.claimed \in Ages /\ c.attempts \subseteq Nat \X Ages
    BY Zenon DEF Cmd
  <1>3. d \in Optional(Left) /\ e \in Optional(Left)
    BY <1>2, OlderTypes, Zenon
  <1>4. f \in Optional(Ages) /\ l \in Optional(Ages) /\ u \in Optional(Ages) /\ a \in Optional(Ages)
        /\ r \in Optional(Ages)
    BY <1>2, OlderTypes, Zenon
  <1>5. k \in Ages
    BY <1>2, ExtCmdConstants, SMTT(30) DEF Ages
  <1>6. t \subseteq Nat \X Ages
    <2>1. \A z \in Ages : Older(z) \in Ages
      BY ExtCmdConstants, SMTT(30) DEF Ages, Older
    <2> QED
      BY <1>2, <2>1, SMTT(30)
  <1> HIDE DEF d, e, f, l, u, a, r, k, t
  <1>7. OlderCmd(c) \in Cmd
    BY <1>1, <1>3, <1>4, <1>5, <1>6, ZenonT(30) DEF Cmd
  <1>8. /\ OlderCmd(c).state = c.state /\ OlderCmd(c).first = f /\ OlderCmd(c).last = l
        /\ OlderCmd(c).unrecorded = r /\ OlderCmd(c).deadline = d /\ OlderCmd(c).expires = e
        /\ OlderCmd(c).attempts = t
    BY <1>1, Zenon DEF Cmd
  <1> QED
    BY <1>7, <1>8, Zenon DEF d, e, f, l, r, t

\* What Step makes of a command that the job claims.
LEMMA StepClaim ==
  ASSUME NEW c, c.state \in Claimable
  PROVE  Step(c, "claim", "none") = IF Passed(c.deadline) THEN "unknown" ELSE "sending"
  BY Zenon DEF Step, Claimable

\* What Step makes of a command that is being sent.
LEMMA StepSending ==
  ASSUME NEW c, c.state = "sending", NEW class
  PROVE  /\ Step(c, "before_send", "none") = IF Passed(c.deadline) THEN "unknown" ELSE "sending"
         /\ Step(c, "lease_lost", "none") = "unknown"
         /\ Step(c, "send_result", class) = AfterSend(class)
  BY Zenon DEF Step

\* What Step makes of a query's answer.
LEMMA StepQuery ==
  ASSUME NEW c, c.state \in {"unknown", "accepted"}, NEW found
  PROVE  /\ Step(c, "query_found", found) = found
         /\ Step(c, "query_unavailable", "none") \in {"manual", c.state}
         /\ c.state = "accepted" => Step(c, "query_not_found", "none") = "accepted"
         /\ c.state = "unknown" => Step(c, "query_not_found", "none") = IF resendable(c) THEN "sending" ELSE "manual"
         /\ c.state = "accepted" => Step(c, "finality_passed", "none") \in {"manual", "accepted"}
  <1>1. CASE c.state = "unknown"
    BY <1>1, Zenon DEF Step
  <1>2. CASE c.state = "accepted"
    BY <1>2, Zenon DEF Step
  <1> QED
    BY <1>1, <1>2, Zenon

\* What a query's answer leads to.
LEMMA AnswerStates ==
  ASSUME TypeInv, RunInv, run.phase = "answered"
  PROVE  LET a == run.answer
             next == CASE a = "unavailable" -> Step(run.row, "query_unavailable", "none")
                       [] a = "not_found" -> Step(run.row, "query_not_found", "none")
                       [] OTHER -> Step(run.row, "query_found", a)
         IN /\ next \in {"unknown", "accepted", "manual", "sending"} \cup Terminal
            /\ next = "sending" => a = "not_found" /\ run.row.state = "unknown" /\ resendable(run.row)
            /\ next \in Terminal => next = a
            /\ next = "unknown" => run.row.state = "unknown"
  <1>1. run.row.state \in {"unknown", "accepted"}
    BY Zenon DEF RunInv, QueryPhases
  <1>2. run.answer \in {"not_found", "unavailable", "accepted"} \cup Terminal
    BY Zenon DEF TypeInv, Run, RunInv
  <1>3. CASE run.answer = "unavailable"
    BY <1>1, <1>3, StepQuery, SMTT(30) DEF Terminal
  <1>4. CASE run.answer = "not_found"
    BY <1>1, <1>4, StepQuery, SMTT(30) DEF Terminal
  <1>5. CASE run.answer \notin {"unavailable", "not_found"}
    BY <1>1, <1>2, <1>5, StepQuery, SMTT(30) DEF Terminal
  <1> QED
    BY <1>3, <1>4, <1>5, Zenon

\* The empty row and the idle run.
LEMMA Empty ==
  /\ NoCmd \in Cmd /\ Idle \in Run /\ Idle.phase = "idle" /\ Idle.answer = "none" /\ NoCmd.state = "absent"
  /\ {} \in Optional(Ages) /\ {0} \in Optional(Ages) /\ 0 \in Ages /\ {} \in Optional(Left)
  <1>1. {} \in Optional(Ages) /\ {0} \in Optional(Ages) /\ 0 \in Ages /\ {} \in Optional(Left)
    BY ExtCmdConstants, SMTT(30) DEF Optional, Ages
  <1>2. NoCmd \in Cmd /\ NoCmd.state = "absent"
    BY <1>1, Zenon DEF NoCmd, Cmd, States
  <1> QED
    BY <1>1, <1>2, Zenon DEF Idle, Run

\* The rows a step writes.
LEMMA ResultRow ==
  ASSUME TypeInv, run.phase = "awaiting", RunInv, NEW class \in {"not_reached", "maybe_reached", "accepted"} \cup Terminal,
         SendResult(class)
  PROVE  /\ cmd' \in Cmd /\ cmd'.state = AfterSend(class) /\ cmd'.expires = cmd.expires
         /\ cmd'.unrecorded = cmd.unrecorded /\ cmd'.attempts = Ended(run.n)
         /\ class = "not_reached" => cmd'.first = run.row.first /\ cmd'.last = run.row.last
         /\ class # "not_reached" => cmd'.first # {} /\ cmd'.last = {0}
                                     /\ (run.row.first # {} => cmd'.first = run.row.first)
         /\ \E r \in Cmd : r.first = cmd'.first /\ r.last = cmd'.last /\ cmd'.deadline = Deadline(r)
         /\ run' = Idle
  <1>0. cmd \in Cmd /\ run.row \in Cmd /\ scenario \in Scenarios /\ run.row.state = "sending"
    BY Zenon DEF TypeInv, Run, RunInv, SendPhases
  <1>1. PICK r : r = IF class = "not_reached" THEN run.row
                     ELSE [run.row EXCEPT !.first = IF @ = {} THEN {0} ELSE @, !.last = {0}]
    BY Zenon
  <1>2. /\ r \in Cmd
        /\ class = "not_reached" => r.first = run.row.first /\ r.last = run.row.last
        /\ class # "not_reached" => r.first # {} /\ r.last = {0} /\ (run.row.first # {} => r.first = run.row.first)
    <2>1. CASE class = "not_reached"
      BY <1>0, <1>1, <2>1, Zenon
    <2>2. CASE class # "not_reached"
      <3>1. PICK f : f = IF run.row.first = {} THEN {0} ELSE run.row.first
        BY Zenon
      <3>2. f \in Optional(Ages) /\ f # {}
        BY <1>0, <3>1, Empty, Zenon DEF Cmd
      <3>3. r = [run.row EXCEPT !.first = f, !.last = {0}]
        BY <1>1, <2>2, <3>1, Zenon
      <3> QED
        BY <1>0, <2>2, <3>1, <3>2, <3>3, Empty, Zenon DEF Cmd
    <2> QED
      BY <2>1, <2>2, Zenon
  <1>3. Deadline(r) \in Optional(Left)
    BY <1>0, <1>2, DeadlineType, Zenon
  <1>4. PICK c : c = [cmd EXCEPT !.first = r.first, !.last = r.last, !.deadline = Deadline(r), !.attempts = Ended(run.n)]
    BY Zenon
  <1>5. r.first \in Optional(Ages) /\ r.last \in Optional(Ages) /\ Ended(run.n) \subseteq Nat \X Ages
    BY <1>0, <1>2, Zenon DEF Cmd, Ended
  <1>6. /\ c \in Cmd /\ c.first = r.first /\ c.last = r.last /\ c.deadline = Deadline(r) /\ c.attempts = Ended(run.n)
        /\ c.expires = cmd.expires /\ c.unrecorded = cmd.unrecorded
    BY <1>0, <1>3, <1>4, <1>5, Zenon DEF Cmd
  <1>7. Step(run.row, "send_result", class) = AfterSend(class) /\ AfterSend(class) \in States
    BY <1>0, StepSending, Zenon DEF AfterSend, States, Terminal
  <1>8. cmd' = set(c, AfterSend(class)) /\ run' = Idle
    BY <1>1, <1>4, <1>7, Zenon DEF SendResult
  <1> QED
    BY <1>2, <1>6, <1>7, <1>8, SetShape, ZenonT(30)

-----------------------------------------------------------------------------
(* Types, the job's row and the issue record are kept.                     *)

\* A run that starts has the row as it is written.
LEMMA GoesShape ==
  ASSUME NEW phase \in {"claimed", "querying"}, cmd' \in Cmd, Goes(phase)
  PROVE  /\ run' \in Run /\ run'.phase = phase /\ run'.row = cmd' /\ run'.answer = "none" /\ run'.ticked = FALSE
         /\ run'.n = 0
  <1>1. run' = [Idle EXCEPT !.phase = phase, !.row = cmd']
    BY Zenon DEF Goes
  <1>2. Idle \in Run /\ Idle.answer = "none" /\ Idle.ticked = FALSE /\ Idle.n = 0
    BY Empty, Zenon DEF Idle
  <1> QED
    BY <1>1, <1>2, Zenon DEF Run

\* What process does to the row and the run.
LEMMA ProcessShape ==
  ASSUME TypeInv, process
  PROVE  /\ run.phase = "idle" /\ cmd' \in Cmd /\ run' \in Run /\ UNCHANGED <<scenario, ext, issued, recovery, backup, faults>>
         /\ cmd'.first = cmd.first /\ cmd'.last = cmd.last /\ cmd'.unrecorded = cmd.unrecorded
         /\ cmd'.deadline = cmd.deadline /\ cmd'.expires = cmd.expires /\ cmd'.attempts = cmd.attempts
         /\ \/ /\ cmd.state \in Claimable /\ recovery.phase = "normal" /\ ~Passed(cmd.deadline) /\ cmd'.state = "sending"
               /\ run'.phase = "claimed" /\ run'.row = cmd' /\ run'.answer = "none" /\ run'.ticked = FALSE
            \/ /\ cmd.state \in Claimable /\ recovery.phase = "normal" /\ cmd'.state = "unknown" /\ run' = run
            \/ cmd.state = "sending" /\ cmd'.state = "unknown" /\ run' = run
            \/ /\ cmd.state \in {"unknown", "accepted"} /\ cmd' = cmd /\ run'.phase = "querying" /\ run'.row = cmd'
               /\ run'.answer = "none" /\ run'.ticked = FALSE
            \/ cmd.state = "accepted" /\ cmd'.state = "manual" /\ run' = run
  <1>0. /\ cmd \in Cmd /\ run \in Run /\ run.phase = "idle" /\ UNCHANGED <<scenario, ext, issued, recovery, backup, faults>>
        /\ {"unknown", "sending", "manual"} \subseteq States
    BY Zenon DEF TypeInv, process, States
  <1>1. CASE /\ cmd.state \in Claimable /\ ~QueryOnly
             /\ LET next == Step(cmd, "claim", "none") IN
                /\ cmd' = set(cmd, next)
                /\ IF next = "unknown" THEN UNCHANGED run ELSE Goes("claimed")
    <2>1. Step(cmd, "claim", "none") = IF Passed(cmd.deadline) THEN "unknown" ELSE "sending"
      BY <1>1, StepClaim, Zenon
    <2>2. CASE Passed(cmd.deadline)
      BY <1>0, <1>1, <2>1, <2>2, SetShape, ZenonT(30) DEF QueryOnly
    <2>3. CASE ~Passed(cmd.deadline)
      <3>1. cmd' = set(cmd, "sending") /\ Goes("claimed")
        BY <1>1, <2>1, <2>3, Zenon
      <3>2. cmd' \in Cmd /\ cmd'.state = "sending"
        BY <1>0, <3>1, SetShape, Zenon
      <3>3. run' \in Run /\ run'.phase = "claimed" /\ run'.row = cmd' /\ run'.answer = "none" /\ run'.ticked = FALSE
        BY <3>1, <3>2, GoesShape, Zenon
      <3> QED
        BY <1>0, <1>1, <2>3, <3>1, <3>2, <3>3, SetShape, SMTT(30) DEF QueryOnly
    <2> QED
      BY <2>2, <2>3, Zenon
  <1>2. CASE cmd.state = "sending" /\ Moves(set(cmd, Step(cmd, "lease_lost", "none")))
    <2>1. cmd' = set(cmd, "unknown") /\ run' = run
      BY <1>2, StepSending, Zenon DEF Moves
    <2> QED
      BY <1>0, <1>2, <2>1, SetShape, Zenon
  <1>3. CASE cmd.state \in {"unknown", "accepted"} /\ cmd' = cmd /\ Goes("querying")
    <2>1. cmd' \in Cmd
      BY <1>0, <1>3, Zenon
    <2>2. run' \in Run /\ run'.phase = "querying" /\ run'.row = cmd' /\ run'.answer = "none" /\ run'.ticked = FALSE
      BY <1>3, <2>1, GoesShape, Zenon
    <2> QED
      BY <1>0, <1>3, <2>1, <2>2, Zenon
  <1>4. CASE LET next == Step(cmd, "finality_passed", "none") IN
             cmd.state = "accepted" /\ next # "accepted" /\ Moves(set(cmd, next))
    <2>1. Step(cmd, "finality_passed", "none") = "manual"
      BY <1>4, StepQuery, SMTT(30)
    <2>2. cmd' = set(cmd, "manual") /\ run' = run
      BY <1>4, <2>1, Zenon DEF Moves
    <2> QED
      BY <1>0, <1>4, <2>2, SetShape, Zenon
  <1> QED
    BY <1>1, <1>2, <1>3, <1>4, Zenon DEF process, Claimable

\* What a query's transaction does to the row and the run.
LEMMA AnsweredShape ==
  ASSUME TypeInv, RunInv, Answered
  PROVE  /\ run.phase = "answered" /\ cmd' \in Cmd /\ run' \in Run
         /\ UNCHANGED <<scenario, ext, issued, recovery, backup, faults>>
         /\ cmd'.first = cmd.first /\ cmd'.last = cmd.last /\ cmd'.unrecorded = cmd.unrecorded
         /\ cmd'.deadline = cmd.deadline /\ cmd'.expires = cmd.expires /\ cmd'.attempts = cmd.attempts
         /\ \/ /\ run.answer = "not_found" /\ run.row.state = "unknown" /\ resendable(run.row)
               /\ recovery.phase = "normal" /\ cmd'.state = "sending" /\ run'.phase = "claimed" /\ run'.answer = "none"
               /\ run'.ticked = FALSE /\ run'.row = set(run.row, "sending")
            \/ /\ run' = Idle /\ cmd'.state \in {"unknown", "accepted", "manual"} \cup Terminal
               /\ cmd'.state \in Terminal => cmd'.state = run.answer
               /\ cmd'.state = "unknown" => run.row.state = "unknown"
  <1>0. /\ cmd \in Cmd /\ run \in Run /\ run.row \in Cmd /\ run.phase = "answered"
        /\ UNCHANGED <<scenario, ext, issued, recovery, backup, faults>>
    BY Zenon DEF TypeInv, Answered, Run
  <1>1. PICK next : next = CASE run.answer = "unavailable" -> Step(run.row, "query_unavailable", "none")
                             [] run.answer = "not_found" -> Step(run.row, "query_not_found", "none")
                             [] OTHER -> Step(run.row, "query_found", run.answer)
    BY Zenon
  <1>2. /\ next \in {"unknown", "accepted", "manual", "sending"} \cup Terminal
        /\ next = "sending" => run.answer = "not_found" /\ run.row.state = "unknown" /\ resendable(run.row)
        /\ next \in Terminal => next = run.answer
        /\ next = "unknown" => run.row.state = "unknown"
    BY <1>0, <1>1, AnswerStates, Zenon
  <1>3. IF next = "sending" /\ ~QueryOnly
          THEN cmd' = set(cmd, "sending") /\ run' = [Idle EXCEPT !.phase = "claimed", !.row = set(run.row, "sending")]
          ELSE cmd' = set(cmd, IF next = "sending" THEN "unknown" ELSE next) /\ run' = Idle
    BY <1>1, Zenon DEF Answered
  <1>4. CASE next = "sending" /\ ~QueryOnly
    <2>1. set(run.row, "sending") \in Cmd
      BY <1>0, SetShape, Zenon DEF States
    <2>2. run' \in Run /\ run'.phase = "claimed" /\ run'.answer = "none" /\ run'.ticked = FALSE
          /\ run'.row = set(run.row, "sending")
      BY <1>3, <1>4, <2>1, Empty, Zenon DEF Run, Idle
    <2>3. cmd' = set(cmd, "sending")
      BY <1>3, <1>4, Zenon
    <2> QED
      BY <1>0, <1>2, <1>4, <2>2, <2>3, SetShape, SMTT(30) DEF States, QueryOnly
  <1>5. CASE ~(next = "sending" /\ ~QueryOnly)
    <2>1. PICK s : s = IF next = "sending" THEN "unknown" ELSE next
      BY Zenon
    <2>2. cmd' = set(cmd, s) /\ run' = Idle
      BY <1>3, <1>5, <2>1, Zenon
    <2>3. s \in States /\ s \in {"unknown", "accepted", "manual"} \cup Terminal /\ (s \in Terminal => s = run.answer)
          /\ (s = "unknown" => run.row.state = "unknown")
      BY <1>2, <2>1, Zenon DEF States, Terminal
    <2> QED
      BY <1>0, <2>2, <2>3, SetShape, Empty, Zenon
  <1> QED
    BY <1>4, <1>5, Zenon

\* The time Match goes by: the first send, or the start of an attempt or the recovery point.
LEMMA EarliestType ==
  ASSUME TypeInv
  PROVE  /\ earliest(cmd) \in Optional(Ages)
         /\ cmd.first # {} => earliest(cmd) = cmd.first
         /\ cmd.first = {} => earliest(cmd) \subseteq {t[2] : t \in cmd.attempts} \cup recovery.t
  <1>0. cmd.first \in Optional(Ages) /\ recovery.t \in Optional(Ages) /\ cmd.attempts \subseteq Nat \X Ages
    BY Zenon DEF TypeInv, Cmd, Recovery
  <1>1. CASE cmd.first # {} \/ cmd.attempts = {}
    BY <1>0, <1>1, Zenon DEF earliest
  <1>2. CASE cmd.first = {} /\ cmd.attempts # {}
    <2> DEFINE S == {u \in cmd.attempts : \A v \in cmd.attempts : u[2] >= v[2]}
    <2>1. earliest(cmd) = {t[2] : t \in S}
      BY <1>2, Zenon DEF earliest
    <2>2. \A t, u \in S : t[2] = u[2]
      <3>1. \A t \in cmd.attempts : t[2] \in Nat
        BY <1>0, ExtCmdConstants, SMTT(30) DEF Ages
      <3> QED
        BY <3>1, SMTT(30)
    <2>3. \A t \in S : t \in cmd.attempts /\ t[2] \in Ages
      BY <1>0, Zenon
    <2> HIDE DEF S
    <2>4. CASE S = {}
      BY <1>2, <2>1, <2>4, Zenon DEF Optional
    <2>5. CASE S # {}
      <3>1. PICK t \in S : TRUE
        BY <2>5, Zenon
      <3>2. earliest(cmd) = {t[2]}
        BY <2>1, <2>2, Zenon
      <3> QED
        BY <1>2, <2>3, <3>2, Zenon DEF Optional
    <2> QED
      BY <2>4, <2>5, Zenon
  <1> QED
    BY <1>1, <1>2, Zenon

\* The row a reconciliation goes by.
Reconciled(c) ==
    /\ c \in Cmd /\ c.state = cmd.state /\ c.first = earliest(cmd) /\ c.last = cmd.last
    /\ c.unrecorded = recovery.failed /\ c.deadline = cmd.deadline /\ c.expires = cmd.expires
    /\ c.attempts = cmd.attempts

InTimeToResend(c) == Deadline(c) # {} /\ ~Passed(Deadline(c))

\* What a reconciliation does to the row.
LEMMA ApplyShape ==
  ASSUME TypeInv, Apply
  PROVE  /\ recovery.phase # "normal" /\ cmd' \in Cmd /\ UNCHANGED <<scenario, run, ext, issued, backup, faults>>
         /\ recovery'.phase = "reconciled" /\ recovery'.t = recovery.t /\ recovery'.failed = recovery.failed
         /\ recovery'.asked = {}
         /\ recovery' \in Recovery
         /\ cmd.state = "absent" /\ issued => recovery'.conclusion \in {"external_only", "possibly_executed"}
         /\ \E record \in recovery.asked : \E c : Reconciled(c) /\
              \/ /\ cmd.state \notin Terminal \cup {"absent"} /\ record # "none" /\ cmd' = set(cmd, record)
              \/ /\ cmd.state \notin Terminal \cup {"absent", "manual"} /\ InTimeToResend(c)
                 /\ cmd' = [c EXCEPT !.deadline = Deadline(c)]
              \/ /\ cmd.state \notin Terminal \cup {"absent", "manual"} /\ ~InTimeToResend(c)
                 /\ \E s \in {"unknown", "manual"} : cmd' = set(c, s)
              \/ /\ cmd.state \in Terminal \cup {"absent", "manual"} /\ cmd' = cmd
  <1>0. /\ cmd \in Cmd /\ recovery.failed \in Optional(Ages) /\ recovery.asked \in Optional(Answers)
        /\ recovery.phase # "normal" /\ UNCHANGED <<scenario, run, ext, issued, backup, faults>> /\ scenario \in Scenarios
    BY Zenon DEF TypeInv, Apply, QueryOnly, Recovery
  <1>1. PICK c : c = [cmd EXCEPT !.first = earliest(cmd), !.unrecorded = recovery.failed]
    BY Zenon
  <1>2. earliest(cmd) \in Optional(Ages)
    BY EarliestType, Zenon
  <1>3. Reconciled(c)
    BY <1>0, <1>1, <1>2, Zenon DEF Reconciled, Cmd
  <1>4. PICK record \in recovery.asked :
          LET conclusion == Match(IF cmd.state \in Terminal \cup {"absent"} THEN cmd ELSE c, record)
          IN /\ recovery' = [recovery EXCEPT !.asked = {}, !.conclusion = IF conclusion = "none" THEN @ ELSE conclusion,
                                            !.phase = "reconciled"]
             /\ cmd' = CASE conclusion = "matched" -> set(cmd, record)
                         [] conclusion = "deadline" -> [c EXCEPT !.deadline = Deadline(c)]
                         [] conclusion = "unknown" -> set(c, "unknown")
                         [] conclusion = "manual" /\ cmd.state # "manual" -> set(c, "manual")
                         [] OTHER -> cmd
    BY <1>1, Zenon DEF Apply
  <1>5. PICK k : k = Match(IF cmd.state \in Terminal \cup {"absent"} THEN cmd ELSE c, record)
    BY Zenon
  <1>6. /\ recovery' = [recovery EXCEPT !.asked = {}, !.conclusion = IF k = "none" THEN @ ELSE k, !.phase = "reconciled"]
        /\ cmd' = CASE k = "matched" -> set(cmd, record)
                    [] k = "deadline" -> [c EXCEPT !.deadline = Deadline(c)]
                    [] k = "unknown" -> set(c, "unknown")
                    [] k = "manual" /\ cmd.state # "manual" -> set(c, "manual")
                    [] OTHER -> cmd
    BY <1>4, <1>5, Zenon
  <1>7. record \in Answers
    BY <1>0, SMTT(30) DEF Optional
  <1>8. /\ cmd.state = "absent" => k \in {"external_only", "possibly_executed", "none"} /\ (issued => k # "none")
        /\ cmd.state \in Terminal => k = "none"
        /\ cmd.state \notin Terminal \cup {"absent"} =>
             IF record # "none" THEN k = "matched"
             ELSE IF cmd.state = "manual" THEN k = "manual"
             ELSE IF InTimeToResend(c) THEN k = "deadline" ELSE k \in {"unknown", "manual"}
    <2>1. CASE cmd.state = "absent"
      BY <1>5, <2>1, Zenon DEF Match, Terminal
    <2>2. CASE cmd.state \in Terminal
      BY <1>5, <2>2, Zenon DEF Match, Terminal
    <2>3. CASE cmd.state \notin Terminal \cup {"absent"}
      <3>1. k = Match(c, record) /\ c.state = cmd.state
        BY <1>3, <1>5, <2>3, Zenon DEF Reconciled
      <3>2. CASE record # "none"
        BY <2>3, <3>1, <3>2, Zenon DEF Match
      <3>3. CASE record = "none" /\ cmd.state = "manual"
        BY <2>3, <3>1, <3>3, Zenon DEF Match
      <3>4. CASE record = "none" /\ cmd.state # "manual"
        <4>1. k = IF InTimeToResend(c) THEN "deadline"
                  ELSE IF Passed(c.expires) \/ (caps.maxProcessing > 0 /\ Longer(LatestSend(c), caps.maxProcessing))
                    THEN "unknown" ELSE "manual"
          BY <2>3, <3>1, <3>4, Zenon DEF Match, InTimeToResend
        <4> QED
          BY <2>3, <3>4, <4>1, Zenon
      <3> QED
        BY <2>3, <3>2, <3>3, <3>4, Zenon
    <2> QED
      BY <2>1, <2>2, <2>3, Zenon
  <1>9. /\ cmd' \in Cmd
        /\ \/ /\ cmd.state \notin Terminal \cup {"absent"} /\ record # "none" /\ cmd' = set(cmd, record)
           \/ /\ cmd.state \notin Terminal \cup {"absent", "manual"} /\ InTimeToResend(c)
              /\ cmd' = [c EXCEPT !.deadline = Deadline(c)]
           \/ /\ cmd.state \notin Terminal \cup {"absent", "manual"} /\ ~InTimeToResend(c)
              /\ \E s \in {"unknown", "manual"} : cmd' = set(c, s)
           \/ /\ cmd.state \in Terminal \cup {"absent", "manual"} /\ cmd' = cmd
    <2>1. CASE cmd.state \in Terminal \cup {"absent"}
      BY <1>0, <1>6, <1>8, <2>1, Zenon
    <2>2. CASE cmd.state \notin Terminal \cup {"absent"} /\ record # "none"
      <3>1. cmd' = set(cmd, record)
        BY <1>6, <1>8, <2>2, Zenon
      <3>2. record \in States
        BY <1>7, <2>2, Zenon DEF Answers, States
      <3> QED
        BY <1>0, <2>2, <3>1, <3>2, SetShape, Zenon
    <2>3. CASE cmd.state = "manual" /\ record = "none"
      BY <1>0, <1>6, <1>8, <2>3, Zenon DEF Terminal
    <2>4. CASE cmd.state \notin Terminal \cup {"absent", "manual"} /\ record = "none" /\ InTimeToResend(c)
      <3>1. cmd' = [c EXCEPT !.deadline = Deadline(c)]
        BY <1>6, <1>8, <2>4, Zenon
      <3>2. Deadline(c) \in Optional(Left) /\ c \in Cmd
        BY <1>0, <1>3, DeadlineType, Zenon DEF Reconciled
      <3>3. cmd' \in Cmd
        BY <3>1, <3>2, Zenon DEF Cmd
      <3> QED
        BY <2>4, <3>1, <3>3, Zenon
    <2>5. CASE cmd.state \notin Terminal \cup {"absent", "manual"} /\ record = "none" /\ ~InTimeToResend(c)
      <3>1. \E s \in {"unknown", "manual"} : cmd' = set(c, s)
        BY <1>6, <1>8, <2>5, Zenon
      <3>2. c \in Cmd
        BY <1>3, Zenon DEF Reconciled
      <3> QED
        BY <2>5, <3>1, <3>2, SetShape, Zenon DEF States
    <2> QED
      BY <2>1, <2>2, <2>3, <2>4, <2>5, Zenon
  <1>10. /\ recovery'.phase = "reconciled" /\ recovery'.t = recovery.t /\ recovery'.failed = recovery.failed
         /\ recovery'.asked = {} /\ recovery'.conclusion = IF k = "none" THEN recovery.conclusion ELSE k
    BY <1>6, Zenon DEF TypeInv, Recovery
  <1>11. k \in {"none", "matched", "deadline", "unknown", "manual", "external_only", "possibly_executed"}
    BY <1>8, Zenon
  <1>12. recovery' \in Recovery
    <2>1. {} \in Optional(Answers)
      BY Zenon DEF Optional
    <2> QED
      BY <1>6, <1>11, <2>1, Zenon DEF TypeInv, Recovery
  <1>13. cmd.state = "absent" /\ issued => recovery'.conclusion \in {"external_only", "possibly_executed"}
    BY <1>8, <1>10, Zenon
  <1> QED
    BY <1>0, <1>3, <1>9, <1>10, <1>12, <1>13, Zenon

\* What the start of a send does.
LEMMA BeforeSendShape ==
  ASSUME TypeInv, RunInv, BeforeSend
  PROVE  /\ run.phase = "claimed" /\ UNCHANGED <<scenario, issued, recovery, backup, faults>> /\ cmd' \in Cmd
         /\ cmd'.first = cmd.first /\ cmd'.last = cmd.last /\ cmd'.unrecorded = cmd.unrecorded
         /\ cmd'.deadline = cmd.deadline /\ cmd'.expires = cmd.expires
         /\ \/ cmd'.state = "unknown" /\ run' = Idle /\ ext' = ext /\ cmd'.attempts = cmd.attempts
            \/ /\ cmd'.state = cmd.state /\ cmd'.attempts = cmd.attempts \cup {<<ext.sent + 1, 0>>}
               /\ ext' \in Ext /\ ext'.sent = ext.sent + 1 /\ ext'.expires = cmd.expires /\ ext'.flight = ext.flight
               /\ ext'.used = ext.used /\ ext'.effects = ext.effects /\ ext'.record = ext.record
               /\ run' \in Run /\ run'.phase \in {"issuing", "calling"} /\ (caps.irrevocable => run'.phase = "issuing")
               /\ run'.n = ext.sent + 1 /\ run'.row = run.row /\ run'.ticked = run.ticked /\ run'.answer = run.answer
  <1>0. /\ cmd \in Cmd /\ run \in Run /\ ext \in Ext /\ run.row \in Cmd /\ run.row.state = "sending" /\ run.phase = "claimed"
        /\ UNCHANGED <<scenario, issued, recovery, backup, faults>>
    BY Zenon DEF TypeInv, Run, RunInv, SendPhases, BeforeSend
  <1>1. Step(run.row, "before_send", "none") \in {"unknown", "sending"}
    BY <1>0, StepSending, Zenon
  <1>2. CASE Step(run.row, "before_send", "none") = "unknown"
    <2>1. cmd' = set(cmd, "unknown") /\ run' = Idle /\ ext' = ext
      BY <1>2, Zenon DEF BeforeSend
    <2> QED
      BY <1>0, <2>1, SetShape, Zenon DEF States
  <1>3. CASE Step(run.row, "before_send", "none") = "sending"
    <2>1. /\ ext' = [ext EXCEPT !.sent = @ + 1, !.expires = cmd.expires]
          /\ cmd' = [cmd EXCEPT !.attempts = @ \cup {<<ext'.sent, 0>>}]
          /\ run' = [run EXCEPT !.phase = IF caps.irrevocable THEN "issuing" ELSE "calling", !.n = ext'.sent]
      BY <1>3, Zenon DEF BeforeSend
    <2>2. cmd.expires \in Optional(Left) /\ ext.sent + 1 \in Nat
      BY <1>0, SMTT(30) DEF Cmd, Ext
    <2>3. /\ ext' \in Ext /\ ext'.sent = ext.sent + 1 /\ ext'.expires = cmd.expires /\ ext'.flight = ext.flight
          /\ ext'.used = ext.used /\ ext'.effects = ext.effects /\ ext'.record = ext.record
      BY <1>0, <2>1, <2>2, Zenon DEF Ext
    <2>4. cmd' = [cmd EXCEPT !.attempts = @ \cup {<<ext.sent + 1, 0>>}]
      BY <2>1, <2>3, Zenon
    <2>5. cmd.attempts \cup {<<ext.sent + 1, 0>>} \subseteq Nat \X Ages
      BY <1>0, <2>2, Empty, SMTT(30) DEF Cmd
    <2>6. /\ cmd' \in Cmd /\ cmd'.first = cmd.first /\ cmd'.last = cmd.last /\ cmd'.unrecorded = cmd.unrecorded
          /\ cmd'.deadline = cmd.deadline /\ cmd'.expires = cmd.expires /\ cmd'.state = cmd.state
          /\ cmd'.attempts = cmd.attempts \cup {<<ext.sent + 1, 0>>}
      BY <1>0, <2>4, <2>5, Zenon DEF Cmd
    <2>7. /\ run' \in Run /\ run'.phase = (IF caps.irrevocable THEN "issuing" ELSE "calling")
          /\ run'.n = ext.sent + 1 /\ run'.row = run.row /\ run'.ticked = run.ticked /\ run'.answer = run.answer
      BY <1>0, <2>1, <2>2, <2>3, Zenon DEF Run
    <2> QED
      BY <1>0, <2>3, <2>6, <2>7, Zenon
  <1> QED
    BY <1>1, <1>2, <1>3, Zenon

\* What the issue record does.
LEMMA IssueShape ==
  ASSUME TypeInv, Issue
  PROVE  /\ run.phase = "issuing" /\ UNCHANGED <<scenario, ext, recovery, backup>> /\ run' \in Run /\ cmd' \in Cmd
         /\ \/ /\ issued' = TRUE /\ cmd' = cmd /\ faults' = faults /\ run'.phase = "calling" /\ run'.row = run.row
               /\ run'.n = run.n /\ run'.ticked = run.ticked /\ run'.answer = run.answer
            \/ /\ issued' = issued /\ run' = Idle /\ faults' \in Nat /\ cmd'.state = "retry_wait"
               /\ cmd'.first = cmd.first /\ cmd'.last = cmd.last /\ cmd'.unrecorded = cmd.unrecorded
               /\ cmd'.deadline = cmd.deadline /\ cmd'.expires = cmd.expires /\ cmd'.attempts \subseteq cmd.attempts
  <1>0. /\ cmd \in Cmd /\ run \in Run /\ run.phase = "issuing" /\ UNCHANGED <<scenario, ext, recovery, backup>>
        /\ faults \in Nat
    BY Zenon DEF TypeInv, Issue
  <1>1. CASE issued' = TRUE /\ run' = [run EXCEPT !.phase = "calling"] /\ UNCHANGED <<cmd, faults>>
    <2>1. run' \in Run /\ run'.phase = "calling" /\ run'.row = run.row /\ run'.n = run.n /\ run'.answer = run.answer
      BY <1>0, <1>1, Zenon DEF Run
    <2>2. run'.ticked = run.ticked
      BY <1>0, <1>1, Zenon DEF Run
    <2> QED
      BY <1>0, <1>1, <2>1, <2>2, Zenon
  <1>2. CASE /\ Spend("evidence") /\ UNCHANGED issued
             /\ cmd' = set([cmd EXCEPT !.attempts = Ended(run.n)], "retry_wait") /\ run' = Idle
    <2>1. PICK c : c = [cmd EXCEPT !.attempts = Ended(run.n)]
      BY Zenon
    <2>2. Ended(run.n) \subseteq cmd.attempts /\ cmd.attempts \subseteq Nat \X Ages
      BY <1>0, Zenon DEF Ended, Cmd
    <2>3. /\ c \in Cmd /\ c.first = cmd.first /\ c.last = cmd.last /\ c.unrecorded = cmd.unrecorded
          /\ c.deadline = cmd.deadline /\ c.expires = cmd.expires /\ c.attempts = Ended(run.n)
      BY <1>0, <2>1, <2>2, Zenon DEF Cmd
    <2>4. cmd' = set(c, "retry_wait") /\ faults' \in Nat
      BY <1>0, <1>2, <2>1, SMTT(30) DEF Spend
    <2> QED
      BY <1>0, <1>2, <2>2, <2>3, <2>4, SetShape, Empty, SMTT(30) DEF States
  <1> QED
    BY <1>1, <1>2, Zenon DEF Issue

\* What a request on its way to the external system does when it arrives.
LEMMA ArriveShape ==
  ASSUME TypeInv, NEW x \in ext.flight, Arrive(x)
  PROVE  /\ ~Shut /\ UNCHANGED <<scenario, cmd, run, issued, recovery, backup, faults>>
         /\ ext' \in Ext /\ ext'.flight = ext.flight \ {x} /\ ext'.sent = ext.sent /\ ext'.expires = ext.expires
         /\ \/ scenario.refuses /\ ext'.record = "rejected" /\ ext'.used = ext.used /\ ext'.effects = ext.effects
            \/ /\ ~scenario.refuses /\ ext.used # {} /\ ~Longer(ext.used, caps.dedupe)
               /\ ext'.used = (IF caps.lastUse THEN {0} ELSE ext.used) /\ ext'.effects = ext.effects
               /\ ext'.record = ext.record
            \/ /\ ~scenario.refuses /\ ~(ext.used # {} /\ ~Longer(ext.used, caps.dedupe))
               /\ ext'.used = (IF caps.dedupe > 0 THEN {0} ELSE {}) /\ ext'.effects = ext.effects + 1
               /\ ext'.record = "accepted"
  <1>0. ext \in Ext /\ ~Shut /\ UNCHANGED <<scenario, cmd, run, issued, recovery, backup, faults>>
    BY Zenon DEF TypeInv, Arrive, Shut
  <1>1. PICK rest : rest = ext.flight \ {x}
    BY Zenon
  <1>2. rest \subseteq Nat \X Ages
    BY <1>0, <1>1, Zenon DEF Ext
  <1>3. CASE scenario.refuses
    <2>1. ext' = [ext EXCEPT !.flight = rest, !.record = "rejected"]
      BY <1>1, <1>3, Zenon DEF Arrive
    <2> QED
      BY <1>0, <1>1, <1>2, <1>3, <2>1, Zenon DEF Ext, Answers, Terminal
  <1>4. CASE ~scenario.refuses /\ ext.used # {} /\ ~Longer(ext.used, caps.dedupe)
    <2>1. ext' = [ext EXCEPT !.flight = rest, !.used = IF caps.lastUse THEN {0} ELSE @]
      BY <1>1, <1>4, Zenon DEF Arrive
    <2>2. (IF caps.lastUse THEN {0} ELSE ext.used) \in Optional(Ages)
      BY <1>0, Empty, Zenon DEF Ext
    <2> QED
      BY <1>0, <1>1, <1>2, <1>4, <2>1, <2>2, Zenon DEF Ext
  <1>5. CASE ~scenario.refuses /\ ~(ext.used # {} /\ ~Longer(ext.used, caps.dedupe))
    <2>1. ext' = [ext EXCEPT !.flight = rest, !.used = IF caps.dedupe > 0 THEN {0} ELSE {}, !.effects = @ + 1,
                             !.record = "accepted"]
      BY <1>1, <1>5, Zenon DEF Arrive
    <2>2. PICK u : u = IF caps.dedupe > 0 THEN {0} ELSE {}
      BY Zenon
    <2>3. u \in Optional(Ages)
      BY <2>2, Empty, Zenon
    <2>4. PICK e : e = ext.effects + 1
      BY Zenon
    <2>5. e \in Nat /\ "accepted" \in Answers
      BY <1>0, <2>4, SMTT(30) DEF Ext, Answers
    <2>6. ext' = [ext EXCEPT !.flight = rest, !.used = u, !.effects = e, !.record = "accepted"]
      BY <2>1, <2>2, <2>4, Zenon
    <2>7. ext' \in Ext /\ ext'.flight = rest /\ ext'.used = u /\ ext'.effects = e
          /\ ext'.record = "accepted" /\ ext'.sent = ext.sent /\ ext'.expires = ext.expires
      BY <1>0, <1>2, <2>3, <2>5, <2>6, Zenon DEF Ext
    <2>8. ext'.used = (IF caps.dedupe > 0 THEN {0} ELSE {}) /\ ext'.flight = ext.flight \ {x}
          /\ ext'.effects = ext.effects + 1
      BY <1>1, <2>2, <2>4, <2>7, Zenon
    <2> QED
      BY <1>0, <1>5, <2>7, <2>8, Zenon
  <1> QED
    BY <1>3, <1>4, <1>5, Zenon

\* What the return of a call does.
Returned(class) ==
    \/ /\ class = "not_reached" /\ UnderWay(run.n) /\ ext'.flight = {x \in ext.flight : x[1] # run.n}
    \/ /\ class = "maybe_reached" /\ ext'.flight = ext.flight
    \/ /\ class = "rejected" /\ UnderWay(run.n) /\ Shut /\ ext'.flight = {x \in ext.flight : x[1] # run.n}
    \/ /\ class = ext.record /\ class # "none" /\ ~UnderWay(run.n) /\ ext'.flight = ext.flight

\* What the end of a send does.
LEMMA ReturnShape ==
  ASSUME TypeInv, RunInv, SendReturns
  PROVE  /\ run.phase = "awaiting" /\ UNCHANGED <<scenario, issued, recovery, backup>> /\ faults' \in Nat
         /\ ext' \in Ext /\ ext'.record = ext.record /\ ext'.used = ext.used /\ ext'.effects = ext.effects
         /\ ext'.sent = ext.sent /\ ext'.expires = ext.expires
         /\ \E class \in {"not_reached", "maybe_reached", "accepted"} \cup Terminal : SendResult(class) /\ Returned(class)
  <1>0. /\ ext \in Ext /\ faults \in Nat /\ run.phase = "awaiting" /\ UNCHANGED <<scenario, issued, recovery, backup>>
    BY Zenon DEF TypeInv, SendReturns
  <1>1. CASE UnderWay(run.n) /\ Spend("not_reached") /\ SendResult("not_reached")
             /\ ext' = [ext EXCEPT !.flight = {x \in @ : x[1] # run.n}]
    <2>1. /\ ext' \in Ext /\ ext'.record = ext.record /\ ext'.used = ext.used /\ ext'.effects = ext.effects
          /\ ext'.sent = ext.sent /\ ext'.expires = ext.expires /\ ext'.flight = {x \in ext.flight : x[1] # run.n}
      BY <1>0, <1>1, Zenon DEF Ext
    <2>2. faults' \in Nat
      BY <1>0, <1>1, SMTT(30) DEF Spend
    <2> QED
      BY <1>0, <1>1, <2>1, <2>2, Zenon DEF Returned
  <1>2. CASE Spend("maybe_reached") /\ SendResult("maybe_reached") /\ UNCHANGED ext
    <2>2. faults' \in Nat
      BY <1>0, <1>2, SMTT(30) DEF Spend
    <2> QED
      BY <1>0, <1>2, <2>2, Zenon DEF Returned
  <1>3. CASE UnderWay(run.n) /\ Passed(ext.expires) /\ SendResult("rejected")
             /\ ext' = [ext EXCEPT !.flight = {x \in @ : x[1] # run.n}] /\ UNCHANGED faults
    <2>1. /\ ext' \in Ext /\ ext'.record = ext.record /\ ext'.used = ext.used /\ ext'.effects = ext.effects
          /\ ext'.sent = ext.sent /\ ext'.expires = ext.expires /\ ext'.flight = {x \in ext.flight : x[1] # run.n}
      BY <1>0, <1>3, Zenon DEF Ext
    <2>2. "rejected" \in Terminal
      BY Zenon DEF Terminal
    <2> QED
      BY <1>0, <1>3, <2>1, <2>2, Zenon DEF Returned, Shut
  <1>4. CASE ~UnderWay(run.n) /\ ext.record # "none" /\ SendResult(ext.record) /\ UNCHANGED <<ext, faults>>
    <2>1. ext.record \in {"accepted"} \cup Terminal
      BY <1>0, <1>4, Zenon DEF Ext, Answers
    <2> QED
      BY <1>0, <1>4, <2>1, Zenon DEF Returned
  <1> QED
    BY <1>1, <1>2, <1>3, <1>4, Zenon DEF SendReturns

\* What a tick does.
LEMMA TickShape ==
  ASSUME TypeInv, Tick
  PROVE  /\ UNCHANGED <<scenario, issued, faults>> /\ InTime /\ cmd' = OlderCmd(cmd) /\ cmd' \in Cmd
         /\ run' \in Run /\ run'.phase = run.phase /\ run'.n = run.n /\ run'.answer = run.answer
         /\ run.phase # "idle" => run'.row = OlderCmd(run.row) /\ run'.ticked = TRUE
         /\ ext' \in Ext /\ ext'.record = ext.record /\ ext'.effects = ext.effects /\ ext'.sent = ext.sent
         /\ ext'.used = OlderAll(ext.used) /\ ext'.expires = {Sooner(x) : x \in ext.expires}
         /\ ext'.flight = {<<x[1], Older(x[2])>> : x \in {y \in ext.flight : y[2] < Processing}}
         /\ recovery' \in Recovery /\ recovery'.phase = recovery.phase /\ recovery'.asked = recovery.asked
         /\ recovery'.t = OlderAll(recovery.t) /\ recovery'.failed = OlderAll(recovery.failed)
         /\ recovery'.conclusion = recovery.conclusion
         /\ backup' \in [cmd : Cmd, age : Ages]
         /\ IF "restore" \in scenario.faults /\ recovery.t = {}
              THEN backup'.cmd = OlderCmd(backup.cmd) /\ backup'.age = Older(backup.age) ELSE backup' = backup
  <1>0. /\ cmd \in Cmd /\ run \in Run /\ ext \in Ext /\ recovery \in Recovery /\ backup \in [cmd : Cmd, age : Ages]
        /\ UNCHANGED <<scenario, issued, faults>> /\ InTime /\ cmd' = OlderCmd(cmd) /\ backup.cmd \in Cmd
        /\ backup.age \in Ages
    BY Zenon DEF TypeInv, Tick
  <1>1. cmd' \in Cmd
    BY <1>0, OlderShape, Zenon
  <1>2. \A z \in Ages : Older(z) \in Ages
    BY ExtCmdConstants, SMTT(30) DEF Ages, Older
  <1>3. /\ run' \in Run /\ run'.phase = run.phase /\ run'.n = run.n /\ run'.answer = run.answer
        /\ run.phase # "idle" => run'.row = OlderCmd(run.row) /\ run'.ticked = TRUE
    <2>1. CASE run.phase = "idle"
      BY <1>0, <2>1, Zenon DEF Tick
    <2>2. CASE run.phase # "idle"
      <3>1. run' = [run EXCEPT !.row = OlderCmd(@), !.ticked = TRUE]
        BY <2>2, Zenon DEF Tick
      <3>2. OlderCmd(run.row) \in Cmd
        BY <1>0, OlderShape, Zenon DEF Run
      <3> QED
        BY <1>0, <3>1, <3>2, Zenon DEF Run
    <2> QED
      BY <2>1, <2>2, Zenon
  <1>4. /\ ext' \in Ext /\ ext'.record = ext.record /\ ext'.effects = ext.effects /\ ext'.sent = ext.sent
        /\ ext'.used = OlderAll(ext.used) /\ ext'.expires = {Sooner(x) : x \in ext.expires}
        /\ ext'.flight = {<<x[1], Older(x[2])>> : x \in {y \in ext.flight : y[2] < Processing}}
    <2>1. PICK u, e, f : /\ u = OlderAll(ext.used) /\ e = {Sooner(x) : x \in ext.expires}
                         /\ f = {<<x[1], Older(x[2])>> : x \in {y \in ext.flight : y[2] < Processing}}
      BY Zenon
    <2>2. ext' = [ext EXCEPT !.used = u, !.expires = e, !.flight = f]
      BY <2>1, Zenon DEF Tick
    <2>3. u \in Optional(Ages) /\ e \in Optional(Left)
      BY <1>0, <2>1, OlderTypes, Zenon DEF Ext
    <2>4. f \subseteq Nat \X Ages
      BY <1>0, <1>2, <2>1, SMTT(30) DEF Ext
    <2> QED
      BY <1>0, <2>1, <2>2, <2>3, <2>4, Zenon DEF Ext
  <1>5. /\ recovery' \in Recovery /\ recovery'.phase = recovery.phase /\ recovery'.asked = recovery.asked
        /\ recovery'.t = OlderAll(recovery.t) /\ recovery'.failed = OlderAll(recovery.failed)
        /\ recovery'.conclusion = recovery.conclusion
    <2>1. recovery' = [recovery EXCEPT !.t = OlderAll(@), !.failed = OlderAll(@)]
      BY Zenon DEF Tick
    <2>2. OlderAll(recovery.t) \in Optional(Ages) /\ OlderAll(recovery.failed) \in Optional(Ages)
      <3>1. recovery.t \in Optional(Ages) /\ recovery.failed \in Optional(Ages) /\ {} \in Optional(Left)
        BY <1>0, Empty, Zenon DEF Recovery
      <3> QED
        BY <3>1, OlderTypes, Zenon
    <2> QED
      BY <1>0, <2>1, <2>2, Zenon DEF Recovery
  <1>6. /\ backup' \in [cmd : Cmd, age : Ages]
        /\ IF "restore" \in scenario.faults /\ recovery.t = {}
             THEN backup'.cmd = OlderCmd(backup.cmd) /\ backup'.age = Older(backup.age) ELSE backup' = backup
    <2>1. OlderCmd(backup.cmd) \in Cmd /\ Older(backup.age) \in Ages
      BY <1>0, <1>2, OlderShape, Zenon
    <2>2. CASE "restore" \in scenario.faults /\ recovery.t = {}
      <3>1. backup' = [cmd |-> OlderCmd(backup.cmd), age |-> Older(backup.age)]
        BY <2>2, Zenon DEF Tick
      <3> QED
        BY <2>1, <2>2, <3>1, Zenon
    <2>3. CASE ~("restore" \in scenario.faults /\ recovery.t = {})
      BY <1>0, <2>3, Zenon DEF Tick
    <2> QED
      BY <2>2, <2>3, Zenon
  <1> QED
    BY <1>0, <1>1, <1>3, <1>4, <1>5, <1>6, Zenon

\* What a request of the business does.
LEMMA RequestShape ==
  ASSUME TypeInv, Request
  PROVE  /\ cmd.state = "absent" /\ recovery.phase = "normal" /\ UNCHANGED <<scenario, run, ext, issued, backup, faults>>
         /\ recovery' \in Recovery /\ recovery'.phase = recovery.phase /\ recovery'.t = recovery.t
         /\ recovery'.conclusion = recovery.conclusion
         /\ cmd' \in Cmd /\ cmd'.state = "prepared" /\ cmd'.expires = scenario.expires /\ cmd'.first = {}
         /\ cmd'.last = {} /\ cmd'.unrecorded = {} /\ cmd'.deadline = {} /\ cmd'.attempts = {}
  <1>1. cmd' = [NoCmd EXCEPT !.state = "prepared", !.expires = scenario.expires]
    BY Zenon DEF Request
  <1>2. scenario.expires \in Optional(Left) /\ NoCmd \in Cmd /\ "prepared" \in States
    BY Limits, Empty, Zenon DEF TypeInv, States
  <1>3. /\ recovery' \in Recovery /\ recovery'.phase = recovery.phase /\ recovery'.t = recovery.t
        /\ recovery'.conclusion = recovery.conclusion
    <2>1. PICK b \in BOOLEAN : recovery' = [recovery EXCEPT !.again = b]
      BY Zenon DEF Request
    <2> QED
      BY <2>1, Zenon DEF TypeInv, Recovery
  <1> QED
    BY <1>1, <1>2, <1>3, Zenon DEF Request, QueryOnly, Cmd, NoCmd

\* A request that is not one again finds nothing sent yet.
LEMMA RequestFresh ==
  ASSUME TypeInv, Request, ~recovery'.again
  PROVE  /\ cmd.state = "absent" /\ recovery.phase = "normal" /\ ext.sent = 0
         /\ UNCHANGED <<scenario, run, ext, issued, recovery, backup, faults>>
         /\ cmd' \in Cmd /\ cmd'.state = "prepared" /\ cmd'.expires = scenario.expires /\ cmd'.first = {}
         /\ cmd'.last = {} /\ cmd'.unrecorded = {} /\ cmd'.deadline = {} /\ cmd'.attempts = {}
  <1>0. recovery \in Recovery /\ ext.sent \in Nat
    BY Zenon DEF TypeInv, Ext
  <1>1. recovery' = [recovery EXCEPT !.again = recovery.again \/ ext.sent > 0]
    BY Zenon DEF Request
  <1>2. ~(recovery.again \/ ext.sent > 0)
    BY <1>0, <1>1, Zenon DEF Recovery
  <1>3. recovery' = recovery
    BY <1>0, <1>1, <1>2, SMTT(30) DEF Recovery
  <1>4. ext.sent = 0
    BY <1>0, <1>2, SMTT(30)
  <1> QED
    BY <1>3, <1>4, RequestShape, Zenon

\* What a registration does.
LEMMA RegisterShape ==
  ASSUME TypeInv, Register
  PROVE  /\ cmd.state = "manual" /\ UNCHANGED <<scenario, run, ext, issued, recovery, backup>> /\ faults' \in Nat
         /\ cmd' \in Cmd /\ cmd'.first = cmd.first /\ cmd'.last = cmd.last /\ cmd'.unrecorded = cmd.unrecorded
         /\ cmd'.deadline = cmd.deadline /\ cmd'.expires = cmd.expires /\ cmd'.attempts = cmd.attempts
         /\ \/ cmd'.state \in Terminal /\ cmd'.state = ext.record
            \/ cmd'.state = "retry_wait" /\ ext.record = "none" /\ ext.flight = {}
  <1>0. cmd \in Cmd /\ faults' \in Nat /\ cmd.state = "manual" /\ UNCHANGED <<scenario, run, ext, issued, recovery, backup>>
    BY SMTT(30) DEF TypeInv, Register, Spend, Registrable
  <1>1. CASE ext.record \in Terminal /\ cmd' = set(cmd, ext.record)
    BY <1>0, <1>1, SetShape, Zenon DEF States
  <1>2. CASE ext.record = "none" /\ ext.flight = {} /\ cmd' = set(cmd, "retry_wait")
    BY <1>0, <1>2, SetShape, Zenon DEF States
  <1> QED
    BY <1>1, <1>2, Zenon DEF Register

\* What the end of an accepted request does.
LEMMA FinishesShape ==
  ASSUME TypeInv, Finishes
  PROVE  /\ UNCHANGED <<scenario, cmd, run, issued, recovery, backup, faults>> /\ ext.record = "accepted"
         /\ ext' \in Ext /\ ext'.record \in {"succeeded", "failed"} /\ ext'.used = ext.used /\ ext'.effects = ext.effects
         /\ ext'.flight = ext.flight /\ ext'.sent = ext.sent /\ ext'.expires = ext.expires
  <1>1. PICK end \in {"succeeded", "failed"} : ext' = [ext EXCEPT !.record = end]
    BY Zenon DEF Finishes
  <1>2. end \in Answers /\ ext \in Ext
    BY Zenon DEF Answers, Terminal, TypeInv
  <1> QED
    BY <1>1, <1>2, Zenon DEF Finishes, Ext

\* What a request that leaves does.
LEMMA CallShape ==
  ASSUME TypeInv, Call
  PROVE  /\ run.phase = "calling" /\ UNCHANGED <<scenario, cmd, issued, recovery, backup, faults>>
         /\ run' \in Run /\ run'.phase = "awaiting" /\ run'.row = run.row /\ run'.n = run.n /\ run'.answer = run.answer
         /\ run'.ticked = run.ticked
         /\ ext' \in Ext /\ ext'.flight = ext.flight \cup {<<run.n, 0>>} /\ ext'.record = ext.record
         /\ ext'.used = ext.used /\ ext'.effects = ext.effects /\ ext'.sent = ext.sent /\ ext'.expires = ext.expires
  <1>0. ext \in Ext /\ run \in Run
    BY Zenon DEF TypeInv
  <1>1. ext.flight \cup {<<run.n, 0>>} \subseteq Nat \X Ages
    BY <1>0, Empty, SMTT(30) DEF Ext, Run
  <1>2. /\ ext' \in Ext /\ ext'.flight = ext.flight \cup {<<run.n, 0>>} /\ ext'.record = ext.record
        /\ ext'.used = ext.used /\ ext'.effects = ext.effects /\ ext'.sent = ext.sent /\ ext'.expires = ext.expires
    BY <1>0, <1>1, Zenon DEF Call, Ext
  <1>3. run' \in Run /\ run'.phase = "awaiting" /\ run'.row = run.row /\ run'.n = run.n /\ run'.answer = run.answer
    BY <1>0, Zenon DEF Call, Run
  <1>4. run'.ticked = run.ticked
    BY <1>0, Zenon DEF Call, Run
  <1> QED
    BY <1>2, <1>3, <1>4, Zenon DEF Call

\* What a query does.
LEMMA QueryShape ==
  ASSUME TypeInv, Query
  PROVE  /\ run.phase = "querying" /\ UNCHANGED <<scenario, cmd, ext, issued, recovery, backup>> /\ faults' \in Nat
         /\ run' \in Run /\ run'.phase = "answered" /\ run'.row = run.row /\ run'.n = run.n
         /\ \/ run'.answer = "unavailable"
            \/ run'.answer = "not_found" /\ ext.record = "none"
            \/ run'.answer = ext.record /\ ext.record # "none"
  <1>0. run \in Run /\ ext \in Ext /\ faults \in Nat
    BY Zenon DEF TypeInv
  <1>1. PICK a : /\ run' = [run EXCEPT !.phase = "answered", !.answer = a]
                 /\ \/ a = "unavailable"
                    \/ a = "not_found" /\ ext.record = "none"
                    \/ a = ext.record /\ ext.record # "none"
    BY Zenon DEF Query
  <1>2. a \in {"none", "not_found", "unavailable", "accepted"} \cup Terminal
    BY <1>0, <1>1, Zenon DEF Ext, Answers
  <1>3. run' \in Run /\ run'.phase = "answered" /\ run'.row = run.row /\ run'.n = run.n /\ run'.answer = a
    BY <1>0, <1>1, <1>2, Zenon DEF Run
  <1>4. faults' \in Nat
    BY <1>0, SMTT(30) DEF Query, Spend
  <1> QED
    BY <1>1, <1>3, <1>4, Zenon DEF Query

\* What a restore does.
LEMMA RestoreShape ==
  ASSUME TypeInv, Restore
  PROVE  /\ recovery.phase = "normal" /\ recovery.t = {} /\ UNCHANGED <<scenario, ext, issued>> /\ faults' \in Nat
         /\ cmd' = backup.cmd /\ run' = Idle /\ cmd' \in Cmd
         /\ recovery' \in Recovery /\ recovery'.phase = "verifying" /\ recovery'.t = {backup.age} /\ recovery'.failed = {0}
         /\ recovery'.asked = {}
         /\ backup' \in [cmd : Cmd, age : Ages] /\ backup'.cmd = NoCmd /\ backup'.age = 0
  <1>0. recovery \in Recovery /\ backup \in [cmd : Cmd, age : Ages] /\ faults \in Nat
    BY Zenon DEF TypeInv
  <1>1. {backup.age} \in Optional(Ages) /\ {} \in Optional(Answers)
    BY <1>0, Zenon DEF Optional
  <1>2. recovery' \in Recovery /\ recovery'.phase = "verifying" /\ recovery'.t = {backup.age} /\ recovery'.failed = {0}
        /\ recovery'.asked = {}
    <2>1. PICK t \in Optional(Ages), f \in Optional(Ages), a \in Optional(Answers) :
            /\ recovery' = [recovery EXCEPT !.phase = "verifying", !.t = t, !.failed = f, !.asked = a, !.conclusion = "none"]
            /\ t = {backup.age} /\ f = {0} /\ a = {}
      BY <1>1, Empty, Zenon DEF Restore
    <2>2. PICK r : r = [recovery EXCEPT !.phase = "verifying", !.t = t, !.failed = f]
      BY Zenon
    <2>3. r \in Recovery /\ r.phase = "verifying" /\ r.t = t /\ r.failed = f
      BY <1>0, <2>2, Zenon DEF Recovery
    <2>4. recovery' = [r EXCEPT !.asked = a, !.conclusion = "none"]
      BY <2>1, <2>2, Zenon
    <2> QED
      BY <2>1, <2>3, <2>4, Zenon DEF Recovery
  <1> QED
    BY <1>0, <1>2, Empty, SMTT(30) DEF Restore, Spend

\* What the reconciliation's question does.
LEMMA AskShape ==
  ASSUME TypeInv, Ask
  PROVE  /\ recovery.phase # "normal" /\ UNCHANGED <<scenario, cmd, run, ext, issued, backup, faults>>
         /\ recovery' \in Recovery /\ recovery'.phase = recovery.phase /\ recovery'.t = recovery.t
         /\ recovery'.failed = recovery.failed /\ recovery'.conclusion = recovery.conclusion
         /\ recovery'.asked \subseteq {"none", ext.record}
  <1>0. recovery \in Recovery /\ ext \in Ext
    BY Zenon DEF TypeInv
  <1>1. PICK r \in {"none", ext.record} : recovery' = [recovery EXCEPT !.asked = {r}]
    BY Zenon DEF Ask
  <1>2. {r} \in Optional(Answers)
    BY <1>0, Zenon DEF Ext, Answers, Optional
  <1> QED
    BY <1>0, <1>1, <1>2, Zenon DEF Ask, QueryOnly, Recovery

\* What the end of a recovery does.
LEMMA OpenShape ==
  ASSUME TypeInv, Open
  PROVE  /\ recovery.phase = "reconciled" /\ UNCHANGED <<scenario, cmd, ext, issued, backup, faults>> /\ run' = Idle
         /\ recovery' \in Recovery /\ recovery'.phase = "normal" /\ recovery'.t = {MaxAge} /\ recovery'.failed = {}
         /\ recovery'.asked = {} /\ recovery'.conclusion = recovery.conclusion
  <1>1. {MaxAge} \in Optional(Ages) /\ {} \in Optional(Answers)
    BY ExtCmdConstants, SMTT(30) DEF Optional, Ages
  <1> QED
    BY <1>1, Empty, Zenon DEF Open, Recovery, TypeInv

\* What a backup does.
LEMMA BackupShape ==
  ASSUME TypeInv, Backup
  PROVE  /\ recovery.phase = "normal" /\ recovery.t = {} /\ "restore" \in scenario.faults
         /\ UNCHANGED <<scenario, cmd, run, ext, issued, recovery, faults>> /\ cmd.state # "absent"
         /\ backup' \in [cmd : Cmd, age : Ages] /\ backup'.cmd = cmd /\ backup'.age = 0
  BY Empty, Zenon DEF Backup, TypeInv

\* A reconciliation neither makes nor loses the command.
LEMMA ApplyAbsent ==
  ASSUME TypeInv, Apply
  PROVE  cmd'.state = "absent" <=> cmd.state = "absent"
  <1>0. cmd \in Cmd /\ recovery.asked \subseteq Answers
    BY Zenon DEF TypeInv, Recovery, Optional
  <1>1. PICK record \in recovery.asked : \E c : Reconciled(c) /\
          \/ /\ cmd.state \notin Terminal \cup {"absent"} /\ record # "none" /\ cmd' = set(cmd, record)
          \/ /\ cmd.state \notin Terminal \cup {"absent", "manual"} /\ InTimeToResend(c)
             /\ cmd' = [c EXCEPT !.deadline = Deadline(c)]
          \/ /\ cmd.state \notin Terminal \cup {"absent", "manual"} /\ ~InTimeToResend(c)
             /\ \E s \in {"unknown", "manual"} : cmd' = set(c, s)
          \/ /\ cmd.state \in Terminal \cup {"absent", "manual"} /\ cmd' = cmd
    BY ApplyShape, Zenon
  <1>2. PICK c : Reconciled(c) /\
          \/ /\ cmd.state \notin Terminal \cup {"absent"} /\ record # "none" /\ cmd' = set(cmd, record)
          \/ /\ cmd.state \notin Terminal \cup {"absent", "manual"} /\ InTimeToResend(c)
             /\ cmd' = [c EXCEPT !.deadline = Deadline(c)]
          \/ /\ cmd.state \notin Terminal \cup {"absent", "manual"} /\ ~InTimeToResend(c)
             /\ \E s \in {"unknown", "manual"} : cmd' = set(c, s)
          \/ /\ cmd.state \in Terminal \cup {"absent", "manual"} /\ cmd' = cmd
    BY <1>1, Zenon
  <1>3. CASE cmd.state \notin Terminal \cup {"absent"} /\ record # "none" /\ cmd' = set(cmd, record)
    <2>1. record \in States \ {"absent"}
      BY <1>0, <1>3, Zenon DEF Answers, States, Terminal
    <2> QED
      BY <1>0, <1>3, <2>1, SetShape, Zenon
  <1>4. CASE cmd.state \notin Terminal \cup {"absent", "manual"} /\ cmd' = [c EXCEPT !.deadline = Deadline(c)]
    BY <1>2, <1>4, Zenon DEF Reconciled, Cmd
  <1>5. CASE cmd.state \notin Terminal \cup {"absent", "manual"} /\ \E s \in {"unknown", "manual"} : cmd' = set(c, s)
    BY <1>2, <1>5, SetShape, SMTT(30) DEF Reconciled, States
  <1> QED
    BY <1>2, <1>3, <1>4, <1>5, Zenon

\* Every step keeps the types.
LEMMA TypeStep ==
  ASSUME TypeInv, RunInv, [Next]_vars
  PROVE  TypeInv'
  <1>1. CASE Request
    BY <1>1, RequestShape, Zenon DEF TypeInv
  <1>2. CASE Register
    BY <1>2, RegisterShape, Zenon DEF TypeInv
  <1>3. CASE Finishes
    BY <1>3, FinishesShape, Zenon DEF TypeInv
  <1>4. CASE Backup
    BY <1>4, BackupShape, Zenon DEF TypeInv
  <1>5. CASE Restore
    BY <1>5, RestoreShape, Empty, Zenon DEF TypeInv
  <1>6. CASE Ask
    BY <1>6, AskShape, Zenon DEF TypeInv
  <1>7. CASE Apply
    BY <1>7, ApplyShape, Zenon DEF TypeInv
  <1>8. CASE Open
    BY <1>8, OpenShape, Empty, Zenon DEF TypeInv
  <1>9. CASE Tick
    BY <1>9, TickShape, Zenon DEF TypeInv
  <1>10. CASE process
    BY <1>10, ProcessShape, Zenon DEF TypeInv
  <1>11. CASE BeforeSend
    BY <1>11, BeforeSendShape, Empty, Zenon DEF TypeInv
  <1>12. CASE Issue
    BY <1>12, IssueShape, Empty, Zenon DEF TypeInv
  <1>13. CASE Call
    BY <1>13, CallShape, Zenon DEF TypeInv
  <1>14. CASE SendReturns
    <2>1. PICK class \in {"not_reached", "maybe_reached", "accepted"} \cup Terminal : SendResult(class)
      BY <1>14, ReturnShape, Zenon
    <2>2. run.phase = "awaiting"
      BY <1>14, ReturnShape, Zenon
    <2>3. cmd' \in Cmd /\ run' = Idle
      BY <2>1, <2>2, ResultRow, Zenon
    <2> QED
      BY <1>14, <2>3, ReturnShape, Empty, Zenon DEF TypeInv
  <1>15. CASE Query
    BY <1>15, QueryShape, Zenon DEF TypeInv
  <1>16. CASE Answered
    BY <1>16, AnsweredShape, Zenon DEF TypeInv
  <1>17. CASE Crash
    BY <1>17, Empty, SMTT(30) DEF Crash, Spend, TypeInv
  <1>18. CASE \E x \in ext.flight : Arrive(x)
    BY <1>18, ArriveShape, Zenon DEF TypeInv
  <1>19. CASE UNCHANGED vars
    BY <1>19, Zenon DEF vars, TypeInv
  <1> QED
    BY <1>1, <1>2, <1>3, <1>4, <1>5, <1>6, <1>7, <1>8, <1>9, <1>10, <1>11, <1>12, <1>13, <1>14,
       <1>15, <1>16, <1>17, <1>18, <1>19, Zenon DEF Next, Job

\* Every step keeps what the job's row has in common with the table's.
LEMMA RunStep ==
  ASSUME TypeInv, RunInv, [Next]_vars
  PROVE  RunInv'
  <1>1. CASE Request
    BY <1>1, RequestShape, Zenon DEF RunInv, SendPhases, QueryPhases, SameTimes
  <1>2. CASE Register
    BY <1>2, RegisterShape, Zenon DEF RunInv, SendPhases, QueryPhases, SameTimes, Terminal
  <1>3. CASE Finishes
    BY <1>3, FinishesShape, Zenon DEF RunInv, SendPhases, QueryPhases, SameTimes
  <1>4. CASE Backup
    BY <1>4, BackupShape, Zenon DEF RunInv, SendPhases, QueryPhases, SameTimes
  <1>5. CASE Restore
    BY <1>5, RestoreShape, Empty, Zenon DEF RunInv, SendPhases, QueryPhases, SameTimes
  <1>6. CASE Ask
    BY <1>6, AskShape, Zenon DEF RunInv, SendPhases, QueryPhases, SameTimes
  <1>7. CASE Apply
    <2>1. /\ recovery.phase # "normal" /\ run' = run /\ recovery'.phase = "reconciled" /\ recovery'.t = recovery.t
      BY <1>7, ApplyShape, Zenon
    <2>2. run.phase # "idle" => cmd'.state # "absent"
      BY <1>7, ApplyAbsent, Zenon DEF RunInv
    <2> QED
      BY <2>1, <2>2, Zenon DEF RunInv, SendPhases, QueryPhases
  <1>8. CASE Open
    BY <1>8, OpenShape, Empty, Zenon DEF RunInv, SendPhases, QueryPhases, SameTimes
  <1>9. CASE Tick
    <2>1. cmd \in Cmd /\ run.row \in Cmd /\ recovery.t \in Optional(Ages)
      BY Zenon DEF TypeInv, Run, Recovery
    <2>2. /\ run'.phase = run.phase /\ run'.answer = run.answer /\ cmd' = OlderCmd(cmd) /\ recovery'.phase = recovery.phase
          /\ recovery'.t = OlderAll(recovery.t) /\ (run.phase # "idle" => run'.row = OlderCmd(run.row))
      BY <1>9, TickShape, Zenon
    <2>3. cmd'.state = cmd.state /\ (run.phase # "idle" => run'.row.state = run.row.state)
      BY <2>1, <2>2, OlderShape, Zenon
    <2>4. recovery.t # {} => recovery'.t # {}
      BY <2>2, Zenon DEF OlderAll
    <2>5. run.phase # "idle" /\ SameTimes => SameTimes'
      BY <2>1, <2>2, OlderShape, Zenon DEF SameTimes
    <2> QED
      BY <2>2, <2>3, <2>4, <2>5, Zenon DEF RunInv, SendPhases, QueryPhases
  <1>10. CASE process
    BY <1>10, ProcessShape, Zenon DEF RunInv, SendPhases, QueryPhases, SameTimes
  <1>11. CASE BeforeSend
    BY <1>11, BeforeSendShape, Empty, Zenon DEF RunInv, SendPhases, QueryPhases, SameTimes
  <1>12. CASE Issue
    BY <1>12, IssueShape, Empty, Zenon DEF RunInv, SendPhases, QueryPhases, SameTimes
  <1>13. CASE Call
    BY <1>13, CallShape, Zenon DEF RunInv, SendPhases, QueryPhases, SameTimes
  <1>14. CASE SendReturns
    <2>1. PICK class \in {"not_reached", "maybe_reached", "accepted"} \cup Terminal : SendResult(class)
      BY <1>14, ReturnShape, Zenon
    <2>2. run.phase = "awaiting" /\ recovery' = recovery
      BY <1>14, ReturnShape, Zenon
    <2>3. run' = Idle
      BY <2>1, <2>2, ResultRow, Zenon
    <2> QED
      BY <2>2, <2>3, Empty, Zenon DEF RunInv, SendPhases, QueryPhases
  <1>15. CASE Query
    BY <1>15, QueryShape, Zenon DEF RunInv, SendPhases, QueryPhases, SameTimes
  <1>16. CASE Answered
    <2>1. run.row \in Cmd /\ "sending" \in States
      BY Zenon DEF TypeInv, Run, States
    <2>2. CASE run' = Idle
      BY <1>16, <2>2, AnsweredShape, Empty, Zenon DEF RunInv, SendPhases, QueryPhases
    <2>3. CASE run' # Idle
      <3>1. /\ recovery.phase = "normal" /\ recovery' = recovery /\ cmd'.state = "sending" /\ run'.phase = "claimed"
            /\ run'.row = set(run.row, "sending") /\ run.phase = "answered"
            /\ cmd'.first = cmd.first /\ cmd'.last = cmd.last /\ cmd'.unrecorded = cmd.unrecorded
            /\ cmd'.deadline = cmd.deadline /\ cmd'.expires = cmd.expires
        BY <1>16, <2>3, AnsweredShape, Zenon
      <3>2. run'.row.state = "sending" /\ SameTimes'
        BY <2>1, <3>1, SetShape, SMTT(30) DEF RunInv, SameTimes
      <3> QED
        BY <3>1, <3>2, Zenon DEF RunInv, SendPhases, QueryPhases
    <2> QED
      BY <2>2, <2>3, Zenon
  <1>17. CASE Crash
    BY <1>17, Empty, Zenon DEF Crash, RunInv, SendPhases, QueryPhases, SameTimes
  <1>18. CASE \E x \in ext.flight : Arrive(x)
    BY <1>18, ArriveShape, Zenon DEF RunInv, SendPhases, QueryPhases, SameTimes
  <1>19. CASE UNCHANGED vars
    BY <1>19, Zenon DEF vars, RunInv, SendPhases, QueryPhases, SameTimes
  <1> QED
    BY <1>1, <1>2, <1>3, <1>4, <1>5, <1>6, <1>7, <1>8, <1>9, <1>10, <1>11, <1>12, <1>13, <1>14,
       <1>15, <1>16, <1>17, <1>18, <1>19, Zenon DEF Next, Job

\* Every step keeps what the issue record stands for.
LEMMA IssuedStep ==
  ASSUME TypeInv, RunInv, IssuedInv, [Next]_vars
  PROVE  IssuedInv'
  <1>1. CASE Request
    BY <1>1, RequestShape, Zenon DEF IssuedInv, caps
  <1>2. CASE Register
    BY <1>2, RegisterShape, Zenon DEF IssuedInv, caps, Terminal
  <1>3. CASE Finishes
    BY <1>3, FinishesShape, SMTT(30) DEF IssuedInv, caps
  <1>4. CASE Backup
    BY <1>4, BackupShape, Zenon DEF IssuedInv, caps
  <1>5. CASE Restore
    BY <1>5, RestoreShape, Empty, Zenon DEF IssuedInv, caps
  <1>6. CASE Ask
    BY <1>6, AskShape, SMTT(30) DEF IssuedInv, caps
  <1>7. CASE Apply
    <2>1. cmd'.state = "absent" <=> cmd.state = "absent"
      BY <1>7, ApplyAbsent, Zenon
    <2> QED
      BY <1>7, <2>1, ApplyShape, SMTT(30) DEF IssuedInv, caps
  <1>8. CASE Open
    BY <1>8, OpenShape, Empty, SMTT(30) DEF IssuedInv, caps, RunInv
  <1>9. CASE Tick
    <2>1. cmd'.state = cmd.state
      BY <1>9, TickShape, OlderShape, Zenon DEF TypeInv
    <2>2. (ext'.flight # {} => ext.flight # {}) /\ (recovery'.t # {} => recovery.t # {})
      BY <1>9, TickShape, Zenon DEF OlderAll
    <2> QED
      BY <1>9, <2>1, <2>2, TickShape, SMTT(30) DEF IssuedInv, caps
  <1>10. CASE process
    BY <1>10, ProcessShape, Zenon DEF IssuedInv, caps
  <1>11. CASE BeforeSend
    BY <1>11, BeforeSendShape, Empty, SMTT(30) DEF IssuedInv, caps
  <1>12. CASE Issue
    BY <1>12, IssueShape, Empty, Zenon DEF IssuedInv, caps, RunInv
  <1>13. CASE Call
    BY <1>13, CallShape, SMTT(30) DEF IssuedInv, caps
  <1>14. CASE SendReturns
    <2>1. PICK class \in {"not_reached", "maybe_reached", "accepted"} \cup Terminal : SendResult(class) /\ Returned(class)
      BY <1>14, ReturnShape, Zenon
    <2>2. /\ run.phase = "awaiting" /\ recovery' = recovery /\ issued' = issued /\ ext'.effects = ext.effects
          /\ scenario' = scenario
      BY <1>14, ReturnShape, Zenon
    <2>3. run' = Idle /\ cmd'.state = AfterSend(class)
      BY <2>1, <2>2, ResultRow, Zenon
    <2>4. AfterSend(class) # "absent"
      BY Zenon DEF AfterSend, Terminal
    <2>5. ext'.flight # {} => ext.flight # {}
      BY <2>1, Zenon DEF Returned
    <2> QED
      BY <2>2, <2>3, <2>4, <2>5, Empty, Zenon DEF IssuedInv, caps
  <1>15. CASE Query
    BY <1>15, QueryShape, SMTT(30) DEF IssuedInv, caps
  <1>16. CASE Answered
    BY <1>16, AnsweredShape, Empty, Zenon DEF IssuedInv, caps, Terminal
  <1>17. CASE Crash
    BY <1>17, Empty, Zenon DEF Crash, IssuedInv, caps
  <1>18. CASE \E x \in ext.flight : Arrive(x)
    BY <1>18, ArriveShape, Zenon DEF IssuedInv, caps
  <1>19. CASE UNCHANGED vars
    BY <1>19, Zenon DEF vars, IssuedInv, caps
  <1> QED
    BY <1>1, <1>2, <1>3, <1>4, <1>5, <1>6, <1>7, <1>8, <1>9, <1>10, <1>11, <1>12, <1>13, <1>14,
       <1>15, <1>16, <1>17, <1>18, <1>19, Zenon DEF Next, Job

\* The initial state.
LEMMA InitBase ==
  ASSUME Init
  PROVE  BaseInv
  <1>1. {} \in Optional(Answers) /\ {} \in SUBSET (Nat \X Ages)
    BY Zenon DEF Optional
  <1>2. ext \in Ext
    BY <1>1, Empty, Zenon DEF Init, Ext, Answers
  <1>3. recovery \in Recovery /\ recovery.t = {} /\ recovery.phase = "normal"
    BY <1>1, Empty, Zenon DEF Init, Recovery
  <1>4. TypeInv
    BY <1>2, <1>3, Empty, Zenon DEF Init, TypeInv
  <1>5. RunInv
    BY <1>3, Empty, Zenon DEF Init, RunInv, SendPhases, QueryPhases
  <1>6. IssuedInv
    BY <1>3, Empty, SMTT(30) DEF Init, IssuedInv
  <1> QED
    BY <1>4, <1>5, <1>6, Zenon DEF BaseInv

\* Types, what the job's row has in common with the table's, and the issue record's meaning hold for every operation,
\* expiry, fault and number of faults.
THEOREM Inductive == Spec => []BaseInv
  <1>1. ASSUME BaseInv, [Next]_vars PROVE BaseInv'
    BY <1>1, TypeStep, RunStep, IssuedStep, Zenon DEF BaseInv
  <1> QED
    BY <1>1, InitBase, PTL DEF Spec

\* Once a command is final it stays so, in the normal phase: of the steps that write a row without looking at its state
\* (set), none has a final one in hand (commands.go: set, send, query; state.go: Step).
THEOREM FinalForGood == Spec => FinalStays
  <1>1. ASSUME BaseInv, [Next]_vars
        PROVE  (recovery.phase = "normal" /\ recovery'.phase = "normal" /\ cmd.state \in Terminal) =>
                 cmd'.state = cmd.state
    <2> SUFFICES ASSUME recovery.phase = "normal", recovery'.phase = "normal", cmd.state \in Terminal
                 PROVE  cmd'.state = cmd.state
      BY Zenon
    <2>0. TypeInv /\ run.phase = "idle" /\ cmd \in Cmd
      BY <1>1, Zenon DEF BaseInv, TypeInv, RunInv, SendPhases, QueryPhases, Run, Terminal
    <2>1. CASE Tick
      BY <2>0, <2>1, TickShape, OlderShape, Zenon
    <2>2. CASE UNCHANGED cmd
      BY <2>2, Zenon
    <2>3. CASE process
      BY <2>3, Zenon DEF process, Terminal
    <2>4. CASE Request \/ Register
      BY <2>4, Zenon DEF Request, Register, Registrable, Terminal
    <2>5. CASE Restore
      BY <2>0, <2>5, RestoreShape, Zenon
    <2>6. CASE Apply
      BY <2>6, Zenon DEF Apply, QueryOnly
    <2>7. CASE BeforeSend \/ Issue \/ SendReturns \/ Answered
      BY <2>0, <2>7, Zenon DEF BeforeSend, Issue, SendReturns, Answered
    <2> QED
      BY <1>1, <2>1, <2>2, <2>3, <2>4, <2>5, <2>6, <2>7, Zenon
         DEF Next, Job, vars, Finishes, Backup, Ask, Open, Call, Query, Crash, Arrive
  <1> QED
    BY <1>1, Inductive, PTL DEF Spec, FinalStays

\* After a reconciliation, an irrevocable command that may have been executed is known: its issue record was kept before
\* it was sent, and Match speaks of every record without a command (commands.go: issued; reconcile.go: Match).
THEOREM ExecutedIsAccounted == Spec => []IssuedAccounted
  <1>1. ASSUME BaseInv PROVE IssuedAccounted
    BY <1>1, Zenon DEF BaseInv, IssuedInv, IssuedAccounted
  <1> QED
    BY <1>1, Inductive, PTL

-----------------------------------------------------------------------------
(* At most one effect: times.                                              *)

\* Ages and deadlines are numbers.
LEMMA Numbers ==
  ASSUME TypeInv
  PROVE  /\ \A u \in ext.used : u \in Nat /\ u <= MaxAge
         /\ \A x \in ext.flight : x[1] \in Nat /\ x[2] \in Nat /\ x[2] <= MaxAge
         /\ ext.effects \in Nat /\ ext.sent \in Nat /\ run.n \in Nat
         /\ backup.age \in Nat /\ backup.age <= MaxAge
         /\ \A a \in recovery.failed \cup recovery.t : a \in Nat /\ a <= MaxAge
  <1>1. ext.used \subseteq Ages /\ ext.flight \subseteq Nat \X Ages /\ ext.effects \in Nat /\ ext.sent \in Nat
    BY ZenonT(30) DEF TypeInv, Ext, Optional
  <1>2. recovery.failed \subseteq Ages /\ recovery.t \subseteq Ages /\ backup.age \in Ages /\ run.n \in Nat
    BY Zenon DEF TypeInv, Recovery, Run, Optional
  <1> QED
    BY <1>1, <1>2, ExtCmdConstants, SMTT(30) DEF Ages

\* So are the times of a row.
LEMMA RowNumbers ==
  ASSUME NEW c \in Cmd
  PROVE  /\ \A a \in Base(c) \cup c.first \cup c.last \cup c.unrecorded \cup LatestSend(c) : a \in Nat /\ a <= MaxAge
         /\ \A v \in c.deadline : v \in Int
         /\ \A t \in c.attempts : t[2] \in Nat /\ t[2] <= MaxAge
  <1>1. /\ c.first \subseteq Ages /\ c.last \subseteq Ages /\ c.unrecorded \subseteq Ages /\ c.deadline \subseteq Left
        /\ c.attempts \subseteq Nat \X Ages
    BY Zenon DEF Cmd, Optional
  <1>2. Base(c) \subseteq Ages
    BY <1>1, Zenon DEF Base
  <1>3. LatestSend(c) \subseteq Ages
    BY <1>1, SMTT(30) DEF LatestSend
  <1> QED
    BY <1>1, <1>2, <1>3, ExtCmdConstants, SMTT(30) DEF Ages, Left

\* A tick adds one to an age, up to the bound, and keeps their order.
LEMMA OlderNumbers ==
  /\ \A a \in Nat : a <= MaxAge => Older(a) \in Nat /\ Older(a) <= MaxAge /\ a <= Older(a) /\ Older(a) <= a + 1
  /\ \A a \in Nat : a < MaxAge => Older(a) = a + 1
  /\ \A a, b \in Nat : a <= MaxAge /\ b <= MaxAge /\ a <= b => Older(a) <= Older(b)
  BY ExtCmdConstants, SMTT(30) DEF Older

\* A time that has passed stays so.
LEMMA SoonerPasses ==
  ASSUME NEW D \in Optional(Left)
  PROVE  Passed(D) => Passed({Sooner(x) : x \in D})
  BY Zenon DEF Passed, Sooner, Optional, Left

\* The base of a row, the window it opens and the latest send it knows of, a tick later.
LEMMA OlderBase ==
  ASSUME NEW c \in Cmd
  PROVE  /\ Base(OlderCmd(c)) = OlderAll(Base(c))
         /\ \A l \in LatestSend(OlderCmd(c)) : \E k \in LatestSend(c) : l = Older(k)
  <1>1. OlderCmd(c).first = OlderAll(c.first) /\ OlderCmd(c).last = OlderAll(c.last)
        /\ OlderCmd(c).unrecorded = OlderAll(c.unrecorded)
    BY OlderShape, Zenon
  <1>2. \A S : OlderAll(S) = {} <=> S = {}
    BY Zenon DEF OlderAll
  <1>3. Base(OlderCmd(c)) = OlderAll(Base(c))
    BY <1>1, <1>2, Zenon DEF Base
  <1>4. ASSUME NEW l \in LatestSend(OlderCmd(c)) PROVE \E k \in LatestSend(c) : l = Older(k)
    <2>1. CASE c.last # {} /\ c.unrecorded # {}
      <3>1. PICK u \in OlderAll(c.unrecorded), m \in OlderAll(c.last) : l = IF u < m THEN u ELSE m
        BY <1>1, <1>2, <1>4, <2>1, SMTT(30) DEF LatestSend
      <3>2. PICK p \in c.unrecorded : u = Older(p)
        BY Zenon DEF OlderAll
      <3>3. PICK q \in c.last : m = Older(q)
        BY Zenon DEF OlderAll
      <3>4. p \in Nat /\ q \in Nat /\ p <= MaxAge /\ q <= MaxAge
        BY RowNumbers, Zenon
      <3>5. PICK k : k = IF p < q THEN p ELSE q
        BY Zenon
      <3>6. k \in LatestSend(c)
        BY <2>1, <3>5, SMTT(30) DEF LatestSend
      <3>7. l = Older(k)
        <4>1. CASE p < q
          <5>1. Older(p) <= Older(q) /\ Older(p) \in Nat /\ Older(q) \in Nat
            BY <3>4, <4>1, OlderNumbers, SMTT(30)
          <5> QED
            BY <3>1, <3>2, <3>3, <3>5, <4>1, <5>1, SMTT(30)
        <4>2. CASE ~(p < q)
          <5>1. Older(q) <= Older(p) /\ Older(p) \in Nat /\ Older(q) \in Nat
            BY <3>4, <4>2, OlderNumbers, SMTT(30)
          <5> QED
            BY <3>1, <3>2, <3>3, <3>5, <4>2, <5>1, SMTT(30)
        <4> QED
          BY <4>1, <4>2, Zenon
      <3> QED
        BY <3>6, <3>7, Zenon
    <2>2. CASE c.last = {} \/ c.unrecorded = {}
      <3>1. LatestSend(OlderCmd(c)) = OlderAll(c.last) \cup OlderAll(c.unrecorded) /\ LatestSend(c) = c.last \cup c.unrecorded
        BY <1>1, <1>2, <2>2, SMTT(30) DEF LatestSend
      <3> QED
        BY <1>4, <3>1, Zenon DEF OlderAll
    <2> QED
      BY <2>1, <2>2, Zenon
  <1> QED
    BY <1>3, <1>4, Zenon

\* Rows with the same times have the same base, deadline and latest send.
LEMMA SameBase ==
  ASSUME NEW c, NEW d, c.first = d.first, c.last = d.last, c.unrecorded = d.unrecorded, c.deadline = d.deadline
  PROVE  /\ Base(c) = Base(d) /\ Deadline(c) = Deadline(d) /\ LatestSend(c) = LatestSend(d)
         /\ (Dated(c) <=> Dated(d)) /\ (Deadlined(c) <=> Deadlined(d)) /\ (Windowed(c) <=> Windowed(d))
  <1>1. Base(c) = Base(d)
    BY Zenon DEF Base
  <1>2. Deadline(c) = Deadline(d) /\ LatestSend(c) = LatestSend(d)
    BY SMTT(30) DEF Deadline, LatestSend
  <1>3. Dated(c) <=> Dated(d)
    BY <1>1, Zenon DEF Dated
  <1> QED
    BY <1>1, <1>2, <1>3, Zenon DEF Deadlined, Windowed

\* The external system takes the command at most once: a second request finds the reference still in the window.
LEMMA ExtStep ==
  ASSUME BaseInv, Timely, OnceInv, [Next]_vars, ~recovery'.again
  PROVE  ExtInv'
  <1>0. TypeInv /\ RunInv /\ ExtInv /\ FlightInv
    BY Zenon DEF BaseInv, OnceInv
  <1>1. CASE Request
    BY <1>1, <1>0, RequestFresh, Zenon DEF ExtInv, Clear, caps
  <1>2. CASE Register
    BY <1>2, <1>0, RegisterShape, Zenon DEF ExtInv, Clear, caps
  <1>3. CASE Finishes
    BY <1>3, <1>0, FinishesShape, Zenon DEF ExtInv, Clear, caps
  <1>4. CASE Backup
    BY <1>4, <1>0, BackupShape, Zenon DEF ExtInv, Clear, caps
  <1>5. CASE Restore
    BY <1>5, <1>0, RestoreShape, Empty, Zenon DEF ExtInv, Clear, caps
  <1>6. CASE Ask
    BY <1>6, <1>0, AskShape, Zenon DEF ExtInv, Clear, caps
  <1>7. CASE Apply
    BY <1>7, <1>0, ApplyShape, Zenon DEF ExtInv, Clear, caps
  <1>8. CASE Open
    BY <1>8, <1>0, OpenShape, Empty, Zenon DEF ExtInv, Clear, caps
  <1>9. CASE Tick
    <2>1. ext.flight = {} => ext'.flight = {}
      BY <1>9, <1>0, TickShape, Zenon
    <2>2. ext'.used = {} <=> ext.used = {}
      BY <1>9, <1>0, TickShape, SMTT(30) DEF OlderAll
    <2> QED
      BY <1>9, <1>0, <2>1, <2>2, TickShape, Zenon DEF ExtInv, Clear, caps
  <1>10. CASE process
    BY <1>10, <1>0, ProcessShape, Zenon DEF ExtInv, Clear, caps
  <1>11. CASE BeforeSend
    <2>1. CASE ext' = ext
      BY <1>11, <1>0, <2>1, BeforeSendShape, Zenon DEF ExtInv, Clear, caps
    <2>2. CASE ext'.sent = ext.sent + 1
      <3>1. ext'.sent # 0
        BY <1>0, <2>2, Numbers, SMTT(30)
      <3>2. /\ scenario' = scenario /\ recovery' = recovery /\ ext'.used = ext.used /\ ext'.effects = ext.effects
            /\ ext'.record = ext.record
        BY <1>11, <1>0, BeforeSendShape, Zenon
      <3> QED
        BY <1>0, <3>1, <3>2, Zenon DEF ExtInv, caps
    <2> QED
      BY <1>11, <1>0, <2>1, <2>2, BeforeSendShape, Zenon
  <1>12. CASE Issue
    BY <1>12, <1>0, IssueShape, Empty, Zenon DEF ExtInv, Clear, caps
  <1>13. CASE Call
    <2>1. ext.sent # 0
      BY <1>13, <1>0, CallShape, Numbers, SMTT(30) DEF FlightInv
    <2> QED
      BY <1>13, <1>0, <2>1, CallShape, Zenon DEF ExtInv, caps
  <1>14. CASE SendReturns
    <2>1. ext.flight = {} => ext'.flight = {}
      BY <1>14, <1>0, ReturnShape, Zenon DEF Returned
    <2> QED
      BY <1>14, <1>0, <2>1, ReturnShape, Zenon DEF ExtInv, Clear, caps
  <1>15. CASE Query
    BY <1>15, <1>0, QueryShape, Zenon DEF ExtInv, Clear, caps
  <1>16. CASE Answered
    BY <1>16, <1>0, AnsweredShape, Empty, Zenon DEF ExtInv, Clear, caps
  <1>17. CASE Crash
    BY <1>17, <1>0, Empty, Zenon DEF Crash, ExtInv, Clear, caps
  <1>18. CASE \E x \in ext.flight : Arrive(x)
    <2>1. PICK x \in ext.flight : Arrive(x)
      BY <1>18, Zenon
    <2>2. /\ ~Shut /\ scenario' = scenario /\ recovery' = recovery /\ ext'.sent = ext.sent /\ ext'.flight \subseteq ext.flight
      BY <1>0, <2>1, ArriveShape, Zenon
    <2>3. ext.sent # 0
      BY <1>0, <2>1, Zenon DEF ExtInv, Clear
    <2>4. CASE scenario.refuses /\ ext'.record = "rejected" /\ ext'.used = ext.used /\ ext'.effects = ext.effects
      BY <1>0, <2>2, <2>3, <2>4, Zenon DEF ExtInv, caps
    <2>5. CASE /\ ~scenario.refuses /\ ext.used # {} /\ ext'.used = (IF caps.lastUse THEN {0} ELSE ext.used)
               /\ ext'.effects = ext.effects /\ ext'.record = ext.record
      <3>1. ext.effects = 1
        BY <1>0, <2>5, Numbers, SMTT(30) DEF ExtInv
      <3>2. ext'.used # {}
        BY <2>5, Zenon
      <3> QED
        BY <1>0, <2>2, <2>3, <2>5, <3>1, <3>2, Zenon DEF ExtInv, caps
    <2>6. CASE /\ ~scenario.refuses /\ ~(ext.used # {} /\ ~Longer(ext.used, caps.dedupe))
               /\ ext'.used = (IF caps.dedupe > 0 THEN {0} ELSE {}) /\ ext'.effects = ext.effects + 1
               /\ ext'.record = "accepted"
      <3>1. ASSUME ext.effects = 1 PROVE FALSE
        <4>1. caps.dedupe > 0 /\ ext.used # {}
          BY <1>0, <2>1, <2>2, <3>1, Zenon DEF FlightInv, ExtInv
        <4>2. \A u \in ext.used : u + Processing <= caps.dedupe + x[2]
          BY <1>0, <2>1, <2>2, <3>1, Zenon DEF FlightInv
        <4>3. x[2] <= Processing /\ x[2] \in Nat /\ Processing \in Nat /\ caps.dedupe \in Nat
          BY <1>0, <2>1, Numbers, Limits, Zenon DEF FlightInv, TypeInv
        <4>4. \A u \in ext.used : u \in Nat
          BY <1>0, Numbers, Zenon
        <4>5. \A u \in ext.used : ~(u > caps.dedupe)
          BY <4>2, <4>3, <4>4, SMTT(30)
        <4> QED
          BY <2>6, <4>1, <4>5, Zenon DEF Longer
      <3>2. ext.effects = 0
        BY <1>0, <3>1, Numbers, SMTT(30) DEF ExtInv
      <3>3. ext'.effects = 1
        BY <2>6, <3>2, SMTT(30)
      <3> QED
        BY <2>2, <2>3, <2>6, <3>3, SMTT(30) DEF ExtInv, caps
    <2> QED
      BY <1>0, <2>1, <2>4, <2>5, <2>6, ArriveShape, Zenon
  <1>19. CASE UNCHANGED vars
    BY <1>19, <1>0, Zenon DEF vars, ExtInv, Clear, caps
  <1> QED
    BY <1>1, <1>2, <1>3, <1>4, <1>5, <1>6, <1>7, <1>8, <1>9, <1>10, <1>11, <1>12, <1>13, <1>14,
       <1>15, <1>16, <1>17, <1>18, <1>19, Zenon DEF Next, Job

\* A request's expiry is the command's, whichever attempt it is.
LEMMA ShutAtSend ==
  ASSUME TypeInv, RunInv, ExtInv, ExpiryInv, BeforeSend
  PROVE  Clear \/ (Shut' <=> Shut)
  <1>1. cmd.state # "absent" /\ ext.sent \in Nat
    BY BeforeSendShape, Numbers, Zenon DEF RunInv
  <1>2. CASE ext.sent = 0
    BY <1>2, Zenon DEF ExtInv
  <1>3. CASE ext.sent > 0
    <2>1. cmd.expires = ext.expires
      BY <1>1, <1>3, Zenon DEF ExpiryInv
    <2>2. ext'.expires = ext.expires
      BY <2>1, BeforeSendShape, Zenon
    <2> QED
      BY <2>2, Zenon DEF Shut
  <1> QED
    BY <1>1, <1>2, <1>3, SMTT(30)

\* The requests on their way are told apart, and each of them would find the reference in the window.
LEMMA FlightStep ==
  ASSUME BaseInv, Timely, OnceInv, [Next]_vars, ~recovery'.again
  PROVE  FlightInv'
  <1>0. TypeInv /\ RunInv /\ ExtInv /\ FlightInv /\ SendInv /\ ExpiryInv
    BY Zenon DEF BaseInv, OnceInv
  <1>1. CASE Request
    BY <1>1, <1>0, RequestFresh, Zenon DEF FlightInv, Shut, caps, Processing
  <1>2. CASE Register
    BY <1>2, <1>0, RegisterShape, Zenon DEF FlightInv, Shut, caps, Processing
  <1>3. CASE Finishes
    BY <1>3, <1>0, FinishesShape, Zenon DEF FlightInv, Shut, caps, Processing
  <1>4. CASE Backup
    BY <1>4, <1>0, BackupShape, Zenon DEF FlightInv, Shut, caps, Processing
  <1>5. CASE Restore
    BY <1>5, <1>0, RestoreShape, Empty, Zenon DEF FlightInv, Shut, caps, Processing
  <1>6. CASE Ask
    BY <1>6, <1>0, AskShape, Zenon DEF FlightInv, Shut, caps, Processing
  <1>7. CASE Apply
    BY <1>7, <1>0, ApplyShape, Zenon DEF FlightInv, Shut, caps, Processing
  <1>8. CASE Open
    BY <1>8, <1>0, OpenShape, Empty, Zenon DEF FlightInv, Shut, caps, Processing
  <1>9. CASE Tick
    <2>1. /\ scenario' = scenario /\ ext'.effects = ext.effects /\ ext'.sent = ext.sent
          /\ ext'.used = OlderAll(ext.used) /\ ext'.expires = {Sooner(x) : x \in ext.expires}
          /\ ext'.flight = {<<x[1], Older(x[2])>> : x \in {y \in ext.flight : y[2] < Processing}}
          /\ run'.phase = run.phase /\ run'.n = run.n
      BY <1>9, <1>0, TickShape, Zenon
    <2>2. Shut => Shut'
      BY <1>0, <2>1, SoonerPasses, Zenon DEF Shut, TypeInv, Ext
    <2>3. /\ \A y \in ext.flight : y[1] \in Nat /\ y[2] \in Nat
          /\ Processing \in Nat /\ Processing < MaxAge /\ MaxAge \in Nat /\ caps.dedupe \in Nat
          /\ \A u \in ext.used : u \in Nat /\ u <= MaxAge
      BY <1>0, Numbers, Limits, Zenon DEF TypeInv
    <2>4. ASSUME NEW x \in ext'.flight
          PROVE  \E y \in ext.flight : x[1] = y[1] /\ x[2] = y[2] + 1 /\ x[2] <= Processing /\ x = <<y[1], y[2] + 1>>
      <3>1. PICK y \in ext.flight : y[2] < Processing /\ x = <<y[1], Older(y[2])>>
        BY <2>1, <2>4, Zenon
      <3>2. Older(y[2]) = y[2] + 1 /\ y[2] + 1 <= Processing
        BY <2>3, <3>1, OlderNumbers, SMTT(30)
      <3> QED
        BY <3>1, <3>2, Zenon
    <2>5. ASSUME NEW w \in ext'.used PROVE \E u \in ext.used : w \in Nat /\ w <= u + 1
      <3>1. PICK u \in ext.used : w = Older(u)
        BY <2>1, <2>5, Zenon DEF OlderAll
      <3> QED
        BY <2>3, <3>1, OlderNumbers, Zenon
    <2>6. \A x \in ext'.flight : x[1] <= ext'.sent /\ x[2] <= Processing
      BY <1>0, <2>1, <2>4, Zenon DEF FlightInv
    <2>7. \A x, y \in ext'.flight : x[1] = y[1] => x = y
      BY <1>0, <2>4, SMTT(30) DEF FlightInv
    <2>8. run'.phase \in {"issuing", "calling"} => (\A x \in ext'.flight : x[1] # run'.n) /\ 0 < run'.n /\ run'.n <= ext'.sent
      BY <1>0, <2>1, <2>4, SMTT(30) DEF FlightInv
    <2>9. ASSUME ext'.effects = 1, ~Shut', NEW x \in ext'.flight
          PROVE  caps.dedupe > 0 /\ \A w \in ext'.used : w + Processing <= caps.dedupe + x[2]
      <3>1. PICK y \in ext.flight : x[1] = y[1] /\ x[2] = y[2] + 1
        BY <2>4, <2>9, Zenon
      <3>2. caps.dedupe > 0 /\ \A u \in ext.used : u + Processing <= caps.dedupe + y[2]
        BY <1>0, <2>1, <2>2, <2>9, <3>1, Zenon DEF FlightInv
      <3>3. ASSUME NEW w \in ext'.used PROVE w + Processing <= caps.dedupe + x[2]
        <4>1. PICK u \in ext.used : w \in Nat /\ w <= u + 1
          BY <2>5, <3>3, Zenon
        <4>2. u \in Nat /\ u + Processing <= caps.dedupe + y[2] /\ y[2] \in Nat
          BY <2>3, <3>1, <3>2, <4>1, Zenon
        <4> QED
          BY <2>3, <3>1, <4>1, <4>2, SMTT(30)
      <3> QED
        BY <3>2, <3>3, Zenon
    <2>10. (ext'.effects = 0 /\ ~Shut') =>
              \A x, y \in ext'.flight : x # y => caps.dedupe > 0 /\ Processing <= caps.dedupe
      <3>1. ASSUME ext.effects = 0, ~Shut, NEW x \in ext'.flight, NEW y \in ext'.flight, x # y
            PROVE  caps.dedupe > 0 /\ Processing <= caps.dedupe
        <4>1. PICK p \in ext.flight : x = <<p[1], p[2] + 1>>
          BY <2>4, <3>1, Zenon
        <4>2. PICK q \in ext.flight : y = <<q[1], q[2] + 1>>
          BY <2>4, <3>1, Zenon
        <4>3. p # q
          BY <3>1, <4>1, <4>2, Zenon
        <4> QED
          BY <1>0, <3>1, <4>3, Zenon DEF FlightInv
      <3> QED
        BY <2>1, <2>2, <3>1, Zenon
    <2> QED
      BY <2>1, <2>6, <2>7, <2>8, <2>9, <2>10, Zenon DEF FlightInv, caps, Processing
  <1>10. CASE process
    BY <1>10, <1>0, ProcessShape, Zenon DEF FlightInv, Shut, caps, Processing
  <1>11. CASE BeforeSend
    <2>1. CASE run' = Idle
      BY <1>11, <1>0, <2>1, BeforeSendShape, Empty, Zenon DEF FlightInv, Shut, caps, Processing
    <2>2. CASE run'.n = ext.sent + 1
      <3>1. /\ scenario' = scenario /\ ext'.flight = ext.flight /\ ext'.used = ext.used /\ ext'.effects = ext.effects
        BY <1>11, <1>0, BeforeSendShape, Zenon
      <3>2. CASE run' = Idle
        BY <2>1, <3>2, Zenon
      <3>3. CASE ext'.sent = ext.sent + 1
        <4>1. \A x \in ext.flight : x[1] <= ext'.sent /\ x[1] # run'.n
          BY <1>0, <2>2, <3>3, Numbers, SMTT(30) DEF FlightInv
        <4>2. 0 < run'.n /\ run'.n <= ext'.sent
          BY <1>0, <2>2, <3>3, Numbers, SMTT(30)
        <4>3. Clear \/ (Shut' <=> Shut)
          BY <1>11, <1>0, ShutAtSend, Zenon
        <4>4. (ext.effects = 1 /\ ~Shut')  =>
                \A x \in ext.flight : caps.dedupe > 0 /\ \A u \in ext.used : u + Processing <= caps.dedupe + x[2]
          BY <1>0, <4>3, Zenon DEF FlightInv, Clear
        <4>5. (ext.effects = 0 /\ ~Shut') =>
                \A x, y \in ext.flight : x # y => caps.dedupe > 0 /\ Processing <= caps.dedupe
          BY <1>0, <4>3, Zenon DEF FlightInv, Clear
        <4>6. \A x \in ext.flight : x[2] <= Processing
          BY <1>0, Zenon DEF FlightInv
        <4>7. \A x, y \in ext.flight : x[1] = y[1] => x = y
          BY <1>0, Zenon DEF FlightInv
        <4> QED
          BY <3>1, <4>1, <4>2, <4>4, <4>5, <4>6, <4>7, Zenon DEF FlightInv, caps, Processing
      <3> QED
        BY <1>11, <1>0, <3>2, <3>3, BeforeSendShape, Zenon
    <2> QED
      BY <1>11, <1>0, <2>1, <2>2, BeforeSendShape, Zenon
  <1>12. CASE Issue
    BY <1>12, <1>0, IssueShape, Empty, Zenon DEF FlightInv, Shut, caps, Processing
  <1>13. CASE Call
    <2>1. /\ scenario' = scenario /\ ext'.flight = ext.flight \cup {<<run.n, 0>>} /\ ext'.used = ext.used
          /\ ext'.effects = ext.effects /\ ext'.sent = ext.sent /\ ext'.expires = ext.expires /\ run'.phase = "awaiting"
          /\ run'.n = run.n /\ run.phase = "calling"
      BY <1>13, <1>0, CallShape, Zenon
    <2>2. PICK z : z = <<run.n, 0>>
      BY Zenon
    <2>3. /\ z[1] = run.n /\ z[2] = 0 /\ ext'.flight = ext.flight \cup {z} /\ Processing \in Nat /\ run.n <= ext.sent
          /\ \A x \in ext.flight : x[1] # run.n
      BY <1>0, <2>1, <2>2, Limits, Zenon DEF FlightInv, TypeInv
    <2>4. \A x \in ext'.flight : x[1] <= ext.sent /\ x[2] <= Processing
      BY <1>0, <2>3, SMTT(30) DEF FlightInv
    <2>5. \A x, y \in ext'.flight : x[1] = y[1] => x = y
      BY <1>0, <2>3, Zenon DEF FlightInv
    <2>6. ASSUME ext.effects = 1, ~Shut
          PROVE  \A x \in ext'.flight : caps.dedupe > 0 /\ \A u \in ext.used : u + Processing <= caps.dedupe + x[2]
      <3>1. /\ caps.dedupe > 0
            /\ \A u \in ext.used : u + (IF run.ticked THEN 0 ELSE 1) + Processing <= caps.dedupe
        BY <1>0, <2>1, <2>6, SMTT(30) DEF SendInv, Clear, InWindow, Windowed
      <3>2. \A u \in ext.used : u \in Nat
        BY <1>0, Numbers, Zenon
      <3>3. caps.dedupe \in Nat
        BY <1>0, Limits, Zenon DEF TypeInv
      <3>4. \A u \in ext.used : u + Processing <= caps.dedupe + 0
        BY <2>3, <3>1, <3>2, <3>3, SMTT(30)
      <3> QED
        BY <1>0, <2>3, <2>6, <3>1, <3>4, Zenon DEF FlightInv
    <2>7. ASSUME ext.effects = 0, ~Shut
          PROVE  \A x, y \in ext'.flight : x # y => caps.dedupe > 0 /\ Processing <= caps.dedupe
      <3>1. ASSUME ext.flight # {} PROVE caps.dedupe > 0 /\ Processing <= caps.dedupe
        <4>1. caps.dedupe > 0 /\ Processing < caps.dedupe
          BY <1>0, <2>1, <2>7, <3>1, Zenon DEF SendInv, Clear, InWindow, Windowed
        <4> QED
          BY <1>0, <4>1, Limits, SMTT(30) DEF TypeInv
      <3> QED
        BY <2>3, <3>1, Zenon
    <2> QED
      BY <2>1, <2>4, <2>5, <2>6, <2>7, Zenon DEF FlightInv, Shut, caps, Processing
  <1>14. CASE SendReturns
    <2>1. /\ scenario' = scenario /\ ext'.used = ext.used /\ ext'.effects = ext.effects /\ ext'.sent = ext.sent
          /\ ext'.expires = ext.expires /\ run.phase = "awaiting"
      BY <1>14, <1>0, ReturnShape, Zenon
    <2>2. PICK class \in {"not_reached", "maybe_reached", "accepted"} \cup Terminal : SendResult(class) /\ Returned(class)
      BY <1>14, <1>0, ReturnShape, Zenon
    <2>3. ext'.flight \subseteq ext.flight /\ run'.phase = "idle"
      BY <2>2, Empty, Zenon DEF Returned, SendResult
    <2> QED
      BY <1>0, <2>1, <2>3, Zenon DEF FlightInv, Shut, caps, Processing
  <1>15. CASE Query
    BY <1>15, <1>0, QueryShape, Zenon DEF FlightInv, Shut, caps, Processing
  <1>16. CASE Answered
    BY <1>16, <1>0, AnsweredShape, Empty, Zenon DEF FlightInv, Shut, caps, Processing
  <1>17. CASE Crash
    BY <1>17, <1>0, Empty, Zenon DEF Crash, FlightInv, Shut, caps, Processing
  <1>18. CASE \E x \in ext.flight : Arrive(x)
    <2>1. PICK x \in ext.flight : Arrive(x)
      BY <1>18, Zenon
    <2>2. /\ ~Shut /\ scenario' = scenario /\ run' = run /\ ext'.sent = ext.sent /\ ext'.flight = ext.flight \ {x}
          /\ ext'.expires = ext.expires
      BY <1>0, <2>1, ArriveShape, Zenon
    <2>3. /\ \A y \in ext.flight : y[2] \in Nat /\ y[2] <= Processing
          /\ Processing \in Nat /\ caps.dedupe \in Nat /\ ext.effects \in Nat
          /\ \A u \in ext.used : u \in Nat
      BY <1>0, Numbers, Limits, Zenon DEF FlightInv, TypeInv
    <2>4. CASE ext'.effects = ext.effects /\ ext'.used = ext.used
      BY <1>0, <2>2, <2>4, Zenon DEF FlightInv, Shut, caps, Processing
    <2>5. CASE /\ ext.used # {} /\ ext'.used = {0} /\ ext'.effects = ext.effects
      <3>1. ext.effects = 1
        BY <1>0, <2>3, <2>5, SMTT(30) DEF ExtInv
      <3>2. \A y \in ext.flight : caps.dedupe > 0 /\ \A u \in ext.used : u + Processing <= caps.dedupe + y[2]
        BY <1>0, <2>2, <3>1, Zenon DEF FlightInv
      <3>3. \A y \in ext'.flight : caps.dedupe > 0 /\ \A u \in ext'.used : u + Processing <= caps.dedupe + y[2]
        BY <2>2, <2>3, <2>5, <3>2, SMTT(30)
      <3> QED
        BY <1>0, <2>2, <2>5, <3>1, <3>3, Zenon DEF FlightInv, Shut, caps, Processing
    <2>6. CASE /\ ext'.used = (IF caps.dedupe > 0 THEN {0} ELSE {}) /\ ext'.effects = ext.effects + 1
      <3>1. ext.effects = 0
        <4>1. ext'.effects <= 1
          BY ExtStep, Zenon DEF ExtInv
        <4> QED
          BY <2>3, <2>6, <4>1, SMTT(30)
      <3>2. \A y \in ext'.flight : caps.dedupe > 0 /\ Processing <= caps.dedupe
        BY <1>0, <2>1, <2>2, <3>1, Zenon DEF FlightInv
      <3>3. \A y \in ext'.flight : caps.dedupe > 0 /\ \A u \in ext'.used : u + Processing <= caps.dedupe + y[2]
        BY <2>2, <2>3, <2>6, <3>2, SMTT(30)
      <3>4. ext'.effects = 1
        BY <2>6, <3>1, SMTT(30)
      <3> QED
        BY <1>0, <2>2, <3>3, <3>4, SMTT(30) DEF FlightInv, Shut, caps, Processing
    <2> QED
      BY <1>0, <2>1, <2>4, <2>5, <2>6, ArriveShape, Zenon
  <1>19. CASE UNCHANGED vars
    BY <1>19, <1>0, Zenon DEF vars, FlightInv, Shut, caps, Processing
  <1> QED
    BY <1>1, <1>2, <1>3, <1>4, <1>5, <1>6, <1>7, <1>8, <1>9, <1>10, <1>11, <1>12, <1>13, <1>14,
       <1>15, <1>16, <1>17, <1>18, <1>19, Zenon DEF Next, Job
=============================================================================
