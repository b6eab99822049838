----------------------------- MODULE ExtCmdOnce -----------------------------
(***************************************************************************)
(* Proofs about external commands, continued: the sends, claims, backups   *)
(* and queries of OnceInv, by which a command takes effect at most once;   *)
(* FinalInv, by which its final state is the external system's; and that a *)
(* request is sent again only when nothing can have happened, or inside    *)
(* the window.                                                             *)
(***************************************************************************)
EXTENDS ExtCmdProofs

\* A tick keeps the window of a row.
LEMMA TickWindow ==
  ASSUME TypeInv, Tick, NEW c \in Cmd, caps.dedupe > 0
  PROVE  /\ Base(c) # {} => Base(OlderCmd(c)) # {}
         /\ Dated(c) => Dated(OlderCmd(c))
         /\ UsedSince(Base(c)) => (ext'.effects = 1 => \A u \in ext'.used : \A a \in Base(OlderCmd(c)) : u <= a)
  <1>0. /\ ext'.effects = ext.effects /\ ext'.used = OlderAll(ext.used) /\ caps.dedupe \in Nat /\ Margin \in Nat
        /\ \A u \in ext.used : u \in Nat /\ u <= MaxAge
    BY TickShape, Numbers, Limits, Zenon DEF TypeInv
  <1>1. Base(OlderCmd(c)) = OlderAll(Base(c)) /\ OlderCmd(c).deadline = {Sooner(x) : x \in c.deadline}
    BY OlderBase, OlderShape, Zenon
  <1>2. (\A a \in Base(c) : a \in Nat /\ a <= MaxAge) /\ (\A v \in c.deadline : v \in Int)
    BY RowNumbers, Zenon
  <1>3. Base(c) # {} => Base(OlderCmd(c)) # {}
    BY <1>1, Zenon DEF OlderAll
  <1>4. ASSUME Dated(c) PROVE Dated(OlderCmd(c))
    <2>1. OlderCmd(c).deadline # {}
      BY <1>1, <1>4, Zenon DEF Dated
    <2>2. ASSUME NEW w \in OlderCmd(c).deadline, NEW b \in Base(OlderCmd(c)), w >= 0
          PROVE  b + w + Margin <= caps.dedupe
      <3>1. PICK v \in c.deadline : w = Sooner(v)
        BY <1>1, <2>2, Zenon
      <3>2. PICK a \in Base(c) : b = Older(a)
        BY <1>1, <2>2, Zenon DEF OlderAll
      <3>3. v \in Int /\ a \in Nat /\ b \in Nat /\ b <= a + 1
        BY <1>2, <3>1, <3>2, OlderNumbers, Zenon
      <3>4. w = v - 1 /\ v >= 0
        BY <2>2, <3>1, <3>3, SMTT(30) DEF Sooner
      <3>5. a + v + Margin <= caps.dedupe
        BY <1>4, <3>1, <3>2, <3>4, Zenon DEF Dated
      <3> QED
        BY <1>0, <3>3, <3>4, <3>5, SMTT(30)
    <2> QED
      BY <2>1, <2>2, Zenon DEF Dated
  <1>5. ASSUME UsedSince(Base(c)), ext'.effects = 1, NEW w \in ext'.used, NEW b \in Base(OlderCmd(c))
        PROVE  w <= b
    <2>1. PICK u \in ext.used : w = Older(u)
      BY <1>0, <1>5, Zenon DEF OlderAll
    <2>2. PICK a \in Base(c) : b = Older(a)
      BY <1>1, <1>5, Zenon DEF OlderAll
    <2>3. u <= a /\ u \in Nat /\ a \in Nat /\ u <= MaxAge /\ a <= MaxAge
      BY <1>0, <1>2, <1>5, <2>1, <2>2, Zenon DEF UsedSince
    <2> QED
      BY <2>1, <2>2, <2>3, OlderNumbers, Zenon
  <1> QED
    BY <1>3, <1>4, <1>5, Zenon

\* A request that arrives uses the reference now, or not at all.
LEMMA ArriveUse ==
  ASSUME TypeInv, NEW x \in ext.flight, Arrive(x), NEW S, \A a \in S : a \in Nat, UsedSince(S), ext'.effects <= 1
  PROVE  ext'.effects = 1 => \A u \in ext'.used : \A a \in S : u <= a
  <1>1. \/ ext'.used = ext.used /\ ext'.effects = ext.effects
        \/ ext'.used \subseteq {0}
    BY ArriveShape, Zenon
  <1> QED
    BY <1>1, SMTT(30) DEF UsedSince

\* The window of the row a step leaves.
LEMMA WindowNext ==
  ASSUME scenario' = scenario, NEW d, caps.dedupe > 0, Base(d) # {}, Dated(d),
         ext'.effects = 1 => \A u \in ext'.used : \A a \in Base(d) : u <= a
  PROVE  (run'.row = d => Windowed(run.row)') /\ (cmd' = d => Windowed(cmd)')
  BY Zenon DEF Windowed, Base, Dated, UsedSince, caps

\* A run sends only when nothing can have happened, nothing can happen, or the window is still open.
LEMMA SendStep ==
  ASSUME BaseInv, Timely, OnceInv, [Next]_vars, ~recovery'.again
  PROVE  SendInv'
  <1>0. TypeInv /\ RunInv /\ ExtInv /\ SendInv /\ ClaimInv /\ DateInv /\ NotFoundInv /\ ExpiryInv
    BY Zenon DEF BaseInv, OnceInv
  <1>1. CASE Request
    BY <1>1, <1>0, RequestFresh, Zenon DEF SendInv, Clear, Shut, InWindow, Windowed, Base, Dated, UsedSince, caps, Processing
  <1>2. CASE Register
    BY <1>2, <1>0, RegisterShape, Zenon DEF SendInv, Clear, Shut, InWindow, Windowed, Base, Dated, UsedSince, caps, Processing
  <1>3. CASE Finishes
    BY <1>3, <1>0, FinishesShape, Zenon DEF SendInv, Clear, Shut, InWindow, Windowed, Base, Dated, UsedSince, caps, Processing
  <1>4. CASE Backup
    BY <1>4, <1>0, BackupShape, Zenon DEF SendInv, Clear, Shut, InWindow, Windowed, Base, Dated, UsedSince, caps, Processing
  <1>5. CASE Restore
    BY <1>5, <1>0, RestoreShape, Empty, Zenon DEF SendInv
  <1>6. CASE Ask
    BY <1>6, <1>0, AskShape, Zenon DEF SendInv, Clear, Shut, InWindow, Windowed, Base, Dated, UsedSince, caps, Processing
  <1>7. CASE Apply
    BY <1>7, <1>0, ApplyShape, Zenon DEF SendInv, Clear, Shut, InWindow, Windowed, Base, Dated, UsedSince, caps, Processing
  <1>8. CASE Open
    BY <1>8, <1>0, OpenShape, Empty, Zenon DEF SendInv
  <1>9. CASE Tick
    <2>1. SUFFICES ASSUME run.phase \in {"claimed", "issuing", "calling"} PROVE SendInv'
      BY <1>9, <1>0, TickShape, Zenon DEF SendInv
    <2>2. /\ scenario' = scenario /\ run'.row = OlderCmd(run.row) /\ run'.ticked = TRUE /\ run.ticked = FALSE
          /\ ext'.effects = ext.effects /\ ext'.used = OlderAll(ext.used) /\ ext'.expires = {Sooner(x) : x \in ext.expires}
          /\ ext'.flight = {<<x[1], Older(x[2])>> : x \in {y \in ext.flight : y[2] < Processing}}
      <3>1. run.ticked = FALSE
        BY <1>9, <1>0, <2>1, Zenon DEF Tick, InTime, TypeInv, Run
      <3> QED
        BY <1>9, <1>0, <2>1, <3>1, TickShape, Zenon
    <2>3. CASE Clear
      BY <2>2, <2>3, Zenon DEF SendInv, Clear
    <2>4. CASE Shut /\ ext.effects = 0
      <3>1. Shut'
        BY <1>0, <2>2, <2>4, SoonerPasses, Zenon DEF Shut, TypeInv, Ext
      <3> QED
        BY <2>2, <2>4, <3>1, Zenon DEF SendInv
    <2>5. CASE InWindow(run.row) /\ (ext.effects = 1 => \A u \in ext.used : u + 1 + Processing <= caps.dedupe)
      <3>0. /\ run.row \in Cmd /\ Processing \in Nat /\ caps.dedupe \in Nat
            /\ \A u \in ext.used : u \in Nat /\ u <= MaxAge
        BY <1>0, Limits, Numbers, Zenon DEF TypeInv, Run
      <3>1. PICK d : d = OlderCmd(run.row)
        BY Zenon
      <3>2. Base(d) # {} /\ Dated(d) /\ (ext'.effects = 1 => \A u \in ext'.used : \A a \in Base(d) : u <= a)
        BY <1>9, <1>0, <2>5, <3>0, <3>1, TickWindow, Zenon DEF InWindow, Windowed
      <3>3. Windowed(run.row)'
        BY <2>2, <2>5, <3>1, <3>2, WindowNext, Zenon DEF InWindow, Windowed
      <3>4. ASSUME ext'.effects = 1, NEW w \in ext'.used PROVE w + 0 + Processing <= caps.dedupe
        <4>1. PICK u \in ext.used : w = Older(u)
          BY <2>2, <3>4, Zenon DEF OlderAll
        <4>2. w \in Nat /\ w <= u + 1
          BY <3>0, <4>1, OlderNumbers, Zenon
        <4>3. u + 1 + Processing <= caps.dedupe /\ u \in Nat
          BY <2>2, <2>5, <3>0, <3>4, <4>1, Zenon
        <4> QED
          BY <3>0, <4>2, <4>3, SMTT(30)
      <3> QED
        BY <2>2, <2>5, <3>3, <3>4, Zenon DEF SendInv, InWindow, Processing, caps
    <2> QED
      BY <1>0, <2>1, <2>2, <2>3, <2>4, <2>5, Zenon DEF SendInv
  <1>10. CASE process
    <2>1. CASE /\ cmd.state \in Claimable /\ recovery.phase = "normal" /\ ~Passed(cmd.deadline)
               /\ run'.phase = "claimed" /\ run'.row = cmd' /\ run'.ticked = FALSE
      <3>0. /\ scenario' = scenario /\ ext' = ext /\ cmd'.first = cmd.first /\ cmd'.last = cmd.last
            /\ cmd'.unrecorded = cmd.unrecorded /\ cmd'.deadline = cmd.deadline /\ cmd \in Cmd
        BY <1>10, <1>0, ProcessShape, Zenon DEF TypeInv
      <3>1. CASE Clear \/ (Shut /\ ext.effects = 0)
        BY <3>0, <3>1, Zenon DEF SendInv, Clear, Shut
      <3>2. CASE Windowed(cmd)
        <4>0. /\ Processing \in Nat /\ caps.dedupe \in Nat /\ Margin \in Nat /\ (\A u \in ext.used : u \in Nat)
              /\ (\A a \in Base(cmd) : a \in Nat) /\ \A v \in cmd.deadline : v \in Int
          BY <1>0, <3>0, Limits, Numbers, RowNumbers, Zenon DEF TypeInv
        <4>1. PICK a \in Base(cmd), v \in cmd.deadline : a + v + Margin <= caps.dedupe /\ v >= 0
          BY <2>1, <3>2, <4>0, SMTT(30) DEF Windowed, Dated, Passed
        <4>2. Processing < Margin
          BY <3>2, Zenon DEF Timely, Windowed
        <4>3. Processing < caps.dedupe
          BY <4>0, <4>1, <4>2, SMTT(30)
        <4>4. ext.effects = 1 => \A u \in ext.used : u + 1 + Processing <= caps.dedupe
          <5>1. ASSUME ext.effects = 1, NEW u \in ext.used PROVE u + 1 + Processing <= caps.dedupe
            <6>1. u <= a
              BY <3>2, <4>1, <5>1, Zenon DEF Windowed, UsedSince
            <6>2. u \in Nat /\ a \in Nat /\ v \in Int
              BY <4>0, <4>1, <5>1, Zenon
            <6> QED
              BY <4>0, <4>1, <4>2, <6>1, <6>2, SMTT(30)
          <5> QED
            BY <5>1, Zenon
        <4>5. PICK d : d = cmd'
          BY Zenon
        <4>6. Base(d) = Base(cmd) /\ Dated(d) /\ caps.dedupe > 0 /\ Base(cmd) # {} /\ UsedSince(Base(cmd))
          BY <3>0, <3>2, <4>5, SameBase, Zenon DEF Windowed
        <4>7. Windowed(run.row)'
          BY <2>1, <3>0, <4>5, <4>6, WindowNext, Zenon DEF UsedSince
        <4> QED
          BY <2>1, <3>0, <4>3, <4>4, <4>7, Zenon DEF SendInv, InWindow, Processing, caps
      <3> QED
        BY <1>0, <2>1, <3>1, <3>2, Zenon DEF ClaimInv
    <2>2. CASE run' = run \/ run'.phase = "querying"
      BY <1>10, <1>0, <2>2, ProcessShape, Zenon DEF SendInv
    <2> QED
      BY <1>10, <1>0, <2>1, <2>2, ProcessShape, Zenon
  <1>11. CASE BeforeSend
    <2>1. CASE run' = Idle
      BY <2>1, Empty, Zenon DEF SendInv
    <2>2. CASE run'.row = run.row
      <3>1. /\ scenario' = scenario /\ ext'.flight = ext.flight /\ ext'.used = ext.used /\ ext'.effects = ext.effects
            /\ run.phase = "claimed" /\ (run' = Idle \/ run'.ticked = run.ticked)
        BY <1>11, <1>0, BeforeSendShape, Zenon
      <3>2. Clear \/ (Shut' <=> Shut)
        BY <1>11, <1>0, ShutAtSend, Zenon
      <3>3. CASE Clear
        BY <3>1, <3>3, Zenon DEF SendInv, Clear
      <3>4. CASE Shut /\ Shut' /\ ext.effects = 0
        BY <3>1, <3>4, Zenon DEF SendInv
      <3>5. CASE InWindow(run.row) /\ ~Clear
        <4>1. Windowed(run.row)'
          BY <2>2, <3>1, <3>5, WindowNext, Zenon DEF InWindow, Windowed, UsedSince
        <4>2. CASE run'.ticked = run.ticked
          <5>1. \/ ext.effects = 0
                \/ \A u \in ext.used : u + (IF run.ticked THEN 0 ELSE 1) + Processing <= caps.dedupe
            BY <1>0, <3>1, <3>5, Numbers, SMTT(30) DEF SendInv, ExtInv
          <5> QED
            BY <2>2, <3>1, <3>5, <4>1, <4>2, <5>1, SMTT(30) DEF SendInv, InWindow, Processing, caps
        <4> QED
          BY <2>1, <3>1, <4>2, Zenon
      <3> QED
        BY <1>0, <3>1, <3>2, <3>3, <3>4, <3>5, Zenon DEF SendInv
    <2> QED
      BY <1>11, <1>0, <2>1, <2>2, BeforeSendShape, Zenon
  <1>12. CASE Issue
    BY <1>12, <1>0, IssueShape, Empty, Zenon DEF SendInv, Clear, Shut, InWindow, Windowed, Base, Dated, UsedSince,
       caps, Processing
  <1>13. CASE Call
    BY <1>13, <1>0, CallShape, Zenon DEF SendInv
  <1>14. CASE SendReturns
    <2>1. PICK class : SendResult(class)
      BY <1>14, <1>0, ReturnShape, Zenon
    <2> QED
      BY <2>1, Empty, Zenon DEF SendResult, SendInv
  <1>15. CASE Query
    BY <1>15, <1>0, QueryShape, Empty, Zenon DEF SendInv
  <1>16. CASE Answered
    <2>1. CASE /\ run.answer = "not_found" /\ run.row.state = "unknown" /\ resendable(run.row)
               /\ recovery.phase = "normal" /\ run'.phase = "claimed" /\ run'.ticked = FALSE
               /\ run'.row = set(run.row, "sending")
      <3>0. /\ scenario' = scenario /\ ext' = ext /\ run.phase = "answered" /\ run.row \in Cmd /\ "sending" \in States
        BY <1>16, <1>0, AnsweredShape, Zenon DEF TypeInv, Run, States
      <3>1. /\ SameTimes /\ cmd.state # "absent"
        BY <1>0, <2>1, <3>0, Zenon DEF RunInv
      <3>2. CASE Passed(run.row.expires)
        <4>1. CASE ext.sent = 0
          BY <1>0, <3>0, <4>1, Zenon DEF ExtInv, SendInv, Clear
        <4>2. CASE ext.sent # 0
          <5>1. ext.expires = cmd.expires
            BY <1>0, <3>1, <4>2, Numbers, SMTT(30) DEF ExpiryInv
          <5>2. Shut /\ ext.effects = 0
            BY <1>0, <2>1, <3>0, <3>1, <3>2, <5>1, Zenon DEF Shut, SameTimes, NotFoundInv
          <5> QED
            BY <3>0, <5>2, Zenon DEF SendInv, Shut
        <4> QED
          BY <4>1, <4>2, Zenon
      <3>3. CASE caps.maxProcessing > 0 /\ Longer(LatestSend(run.row), caps.maxProcessing)
        BY <1>0, <2>1, <3>0, <3>3, Zenon DEF NotFoundInv, SendInv, Clear
      <3>4. CASE Deadline(run.row) # {} /\ ~Passed(Deadline(run.row))
        <4>0. /\ Processing \in Nat /\ caps.dedupe \in Nat /\ Margin \in Nat /\ (\A u \in ext.used : u \in Nat)
              /\ (\A a \in Base(run.row) : a \in Nat)
          BY <1>0, <3>0, Limits, Numbers, RowNumbers, Zenon DEF TypeInv
        <4>1. caps.dedupe > 0
          BY <3>4, <4>0, SMTT(30) DEF Deadline
        <4>2. Base(run.row) # {} /\ \A a \in Base(run.row) : a + Margin <= caps.dedupe
          BY <1>0, <3>0, <3>4, <4>1, DeadlineValue, Zenon DEF TypeInv
        <4>3. Dated(cmd) /\ Base(cmd) = Base(run.row)
          <5>1. Base(cmd) = Base(run.row)
            BY <3>1, SameBase, Zenon DEF SameTimes
          <5> QED
            BY <1>0, <4>1, <4>2, <5>1, Zenon DEF DateInv, Deadlined
        <4>4. Processing < Margin /\ Margin <= caps.dedupe
          BY <4>0, <4>1, <4>2, SMTT(30) DEF Timely
        <4>5. Processing < caps.dedupe
          BY <4>0, <4>4, SMTT(30)
        <4>6. ext.effects = 1 => \A u \in ext.used : u = 0 /\ u + 1 + Processing <= caps.dedupe
          BY <1>0, <2>1, <3>0, <4>0, <4>4, SMTT(30) DEF NotFoundInv
        <4>7. PICK d : d = run'.row
          BY Zenon
        <4>8. d.first = cmd.first /\ d.last = cmd.last /\ d.unrecorded = cmd.unrecorded /\ d.deadline = cmd.deadline
          BY <2>1, <3>0, <3>1, <4>7, SetShape, SMTT(30) DEF SameTimes
        <4>9. Base(d) = Base(run.row) /\ Dated(d)
          BY <4>3, <4>8, SameBase, Zenon
        <4>10. ext'.effects = 1 => \A u \in ext'.used : \A a \in Base(d) : u <= a
          BY <3>0, <4>0, <4>6, <4>9, SMTT(30)
        <4>11. Windowed(run.row)'
          BY <3>0, <4>1, <4>2, <4>7, <4>9, <4>10, WindowNext, Zenon
        <4> QED
          BY <2>1, <3>0, <4>5, <4>6, <4>11, Zenon DEF SendInv, InWindow, Processing, caps
      <3> QED
        BY <2>1, <3>2, <3>3, <3>4, Zenon DEF resendable
    <2>2. CASE run' = Idle
      BY <2>2, Empty, Zenon DEF SendInv
    <2> QED
      BY <1>16, <1>0, <2>1, <2>2, AnsweredShape, Zenon
  <1>17. CASE Crash
    BY <1>17, Empty, Zenon DEF Crash, SendInv
  <1>18. CASE \E x \in ext.flight : Arrive(x)
    <2>1. PICK x \in ext.flight : Arrive(x)
      BY <1>18, Zenon
    <2>2. ~Shut /\ ~Clear /\ scenario' = scenario /\ run' = run /\ ext'.effects <= 1
      BY <1>0, <2>1, ArriveShape, ExtStep, Zenon DEF Clear, ExtInv
    <2>3. SUFFICES ASSUME run.phase \in {"claimed", "issuing", "calling"} PROVE SendInv'
      BY <2>2, Zenon DEF SendInv
    <2>4. InWindow(run.row)
      BY <1>0, <2>2, <2>3, Zenon DEF SendInv
    <2>5. /\ Processing \in Nat /\ caps.dedupe \in Nat /\ (\A a \in Base(run.row) : a \in Nat) /\ ext.effects \in Nat
      BY <1>0, Limits, Numbers, RowNumbers, Zenon DEF TypeInv, Run
    <2>6. ext'.effects = 1 => \A u \in ext'.used : \A a \in Base(run.row) : u <= a
      BY <1>0, <2>1, <2>2, <2>4, <2>5, ArriveUse, Zenon DEF InWindow, Windowed
    <2>7. Windowed(run.row)'
      BY <2>2, <2>4, <2>6, WindowNext, Zenon DEF InWindow, Windowed
    <2>8. ext'.effects = 1 => \A u \in ext'.used : u + (IF run.ticked THEN 0 ELSE 1) + Processing <= caps.dedupe
      <3>1. CASE ext'.used \subseteq {0}
        BY <2>4, <2>5, <3>1, SMTT(30) DEF InWindow
      <3>2. CASE ext'.used = ext.used /\ ext'.effects = ext.effects
        BY <1>0, <2>2, <2>3, <3>2, Zenon DEF SendInv, Clear
      <3> QED
        BY <1>0, <2>1, <3>1, <3>2, ArriveShape, Zenon
    <2> QED
      BY <2>2, <2>4, <2>7, <2>8, Zenon DEF SendInv, InWindow, Processing, caps
  <1>19. CASE UNCHANGED vars
    BY <1>19, <1>0, Zenon DEF vars, SendInv, Clear, Shut, InWindow, Windowed, Base, Dated, UsedSince, caps, Processing
  <1> QED
    BY <1>1, <1>2, <1>3, <1>4, <1>5, <1>6, <1>7, <1>8, <1>9, <1>10, <1>11, <1>12, <1>13, <1>14,
       <1>15, <1>16, <1>17, <1>18, <1>19, Zenon DEF Next, Job

\* While its own request has not arrived, a run knows of the earlier ones what it knew when it sent.
LEMMA AwaitStep ==
  ASSUME BaseInv, Timely, OnceInv, [Next]_vars, ~recovery'.again
  PROVE  AwaitInv'
  <1>0. TypeInv /\ RunInv /\ ExtInv /\ FlightInv /\ SendInv /\ AwaitInv
    BY Zenon DEF BaseInv, OnceInv
  <1>1. CASE Request
    BY <1>1, <1>0, RequestFresh, Zenon DEF AwaitInv, UnderWay, Clear, Shut, InWindow, Windowed, Base, Dated, UsedSince,
       caps, Processing
  <1>2. CASE Register
    BY <1>2, <1>0, RegisterShape, Zenon DEF AwaitInv, UnderWay, Clear, Shut, InWindow, Windowed, Base, Dated, UsedSince,
       caps, Processing
  <1>3. CASE Finishes
    BY <1>3, <1>0, FinishesShape, Zenon DEF AwaitInv, UnderWay, Clear, Shut, InWindow, Windowed, Base, Dated, UsedSince,
       caps, Processing
  <1>4. CASE Backup
    BY <1>4, <1>0, BackupShape, Zenon DEF AwaitInv, UnderWay, Clear, Shut, InWindow, Windowed, Base, Dated, UsedSince, caps,
       Processing
  <1>5. CASE Restore
    BY <1>5, <1>0, RestoreShape, Empty, Zenon DEF AwaitInv
  <1>6. CASE Ask
    BY <1>6, <1>0, AskShape, Zenon DEF AwaitInv, UnderWay, Clear, Shut, InWindow, Windowed, Base, Dated, UsedSince, caps,
       Processing
  <1>7. CASE Apply
    BY <1>7, <1>0, ApplyShape, Zenon DEF AwaitInv, UnderWay, Clear, Shut, InWindow, Windowed, Base, Dated, UsedSince, caps,
       Processing
  <1>8. CASE Open
    BY <1>8, <1>0, OpenShape, Empty, Zenon DEF AwaitInv
  <1>9. CASE Tick
    <2>1. SUFFICES ASSUME run.phase = "awaiting", UnderWay(run.n)' PROVE AwaitInv'
      BY <1>9, <1>0, TickShape, Zenon DEF AwaitInv
    <2>2. /\ scenario' = scenario /\ run'.row = OlderCmd(run.row) /\ run'.n = run.n
          /\ ext'.effects = ext.effects /\ ext'.expires = {Sooner(x) : x \in ext.expires}
          /\ ext'.flight = {<<x[1], Older(x[2])>> : x \in {y \in ext.flight : y[2] < Processing}}
      BY <1>9, <1>0, <2>1, TickShape, Zenon
    <2>3. /\ UnderWay(run.n) /\ ((\A x \in ext.flight : x[1] = run.n) => \A x \in ext'.flight : x[1] = run.n)
      BY <2>1, <2>2, SMTT(30) DEF UnderWay
    <2>4. CASE ext.effects = 0 /\ \A x \in ext.flight : x[1] = run.n
      BY <2>2, <2>3, <2>4, Zenon DEF AwaitInv
    <2>5. CASE Shut /\ ext.effects = 0
      <3>1. Shut'
        BY <1>0, <2>2, <2>5, SoonerPasses, Zenon DEF Shut, TypeInv, Ext
      <3> QED
        BY <2>2, <2>5, <3>1, Zenon DEF AwaitInv
    <2>6. CASE InWindow(run.row)
      <3>0. run.row \in Cmd
        BY <1>0, Zenon DEF TypeInv, Run
      <3>1. PICK d : d = OlderCmd(run.row)
        BY Zenon
      <3>2. Base(d) # {} /\ Dated(d) /\ (ext'.effects = 1 => \A u \in ext'.used : \A a \in Base(d) : u <= a)
        BY <1>9, <1>0, <2>6, <3>0, <3>1, TickWindow, Zenon DEF InWindow, Windowed
      <3>3. Windowed(run.row)'
        BY <2>2, <2>6, <3>1, <3>2, WindowNext, Zenon DEF InWindow, Windowed
      <3> QED
        BY <2>2, <2>6, <3>3, Zenon DEF AwaitInv, InWindow, Processing, caps
    <2> QED
      BY <1>0, <2>1, <2>3, <2>4, <2>5, <2>6, Zenon DEF AwaitInv
  <1>10. CASE process
    BY <1>10, <1>0, ProcessShape, Empty, Zenon DEF AwaitInv
  <1>11. CASE BeforeSend
    BY <1>11, <1>0, BeforeSendShape, Empty, Zenon DEF AwaitInv
  <1>12. CASE Issue
    BY <1>12, <1>0, IssueShape, Empty, Zenon DEF AwaitInv
  <1>13. CASE Call
    <2>1. /\ scenario' = scenario /\ ext'.flight = ext.flight \cup {<<run.n, 0>>} /\ ext'.used = ext.used
          /\ ext'.effects = ext.effects /\ ext'.expires = ext.expires /\ run'.n = run.n /\ run.phase = "calling"
          /\ run'.row = run.row
      BY <1>13, <1>0, CallShape, Zenon
    <2>2. CASE Clear
      BY <2>1, <2>2, SMTT(30) DEF AwaitInv, Clear
    <2>3. CASE Shut /\ ext.effects = 0
      BY <2>1, <2>3, Zenon DEF AwaitInv, Shut
    <2>4. CASE InWindow(run.row)
      <3>1. Windowed(run.row)'
        BY <2>1, <2>4, WindowNext, Zenon DEF InWindow, Windowed, UsedSince
      <3> QED
        BY <2>1, <2>4, <3>1, Zenon DEF AwaitInv, InWindow, Processing, caps
    <2> QED
      BY <1>0, <2>1, <2>2, <2>3, <2>4, Zenon DEF SendInv
  <1>14. CASE SendReturns
    <2>1. PICK class : SendResult(class)
      BY <1>14, <1>0, ReturnShape, Zenon
    <2> QED
      BY <2>1, Empty, Zenon DEF SendResult, AwaitInv
  <1>15. CASE Query
    BY <1>15, <1>0, QueryShape, Empty, Zenon DEF AwaitInv
  <1>16. CASE Answered
    BY <1>16, <1>0, AnsweredShape, Empty, Zenon DEF AwaitInv
  <1>17. CASE Crash
    BY <1>17, Empty, Zenon DEF Crash, AwaitInv
  <1>18. CASE \E x \in ext.flight : Arrive(x)
    <2>1. PICK x \in ext.flight : Arrive(x)
      BY <1>18, Zenon
    <2>2. /\ ~Shut /\ scenario' = scenario /\ run' = run /\ ext'.effects <= 1 /\ ext'.flight = ext.flight \ {x}
      BY <1>0, <2>1, ArriveShape, ExtStep, Zenon DEF ExtInv
    <2>3. SUFFICES ASSUME run.phase = "awaiting", UnderWay(run.n)' PROVE AwaitInv'
      BY <2>2, Zenon DEF AwaitInv
    <2>4. PICK y \in ext.flight \ {x} : y[1] = run.n
      BY <2>2, <2>3, Zenon DEF UnderWay
    <2>5. x[1] # run.n
      BY <1>0, <2>1, <2>4, Zenon DEF FlightInv
    <2>6. InWindow(run.row)
      BY <1>0, <2>1, <2>2, <2>3, <2>4, <2>5, Zenon DEF AwaitInv, UnderWay
    <2>7. \A a \in Base(run.row) : a \in Nat
      BY <1>0, RowNumbers, Zenon DEF TypeInv, Run
    <2>8. ext'.effects = 1 => \A u \in ext'.used : \A a \in Base(run.row) : u <= a
      BY <1>0, <2>1, <2>2, <2>6, <2>7, ArriveUse, Zenon DEF InWindow, Windowed
    <2>9. Windowed(run.row)'
      BY <2>2, <2>6, <2>8, WindowNext, Zenon DEF InWindow, Windowed
    <2> QED
      BY <2>2, <2>6, <2>9, Zenon DEF AwaitInv, InWindow, Processing, caps
  <1>19. CASE UNCHANGED vars
    BY <1>19, <1>0, Zenon DEF vars, AwaitInv, UnderWay, Clear, Shut, InWindow, Windowed, Base, Dated, UsedSince, caps,
       Processing
  <1> QED
    BY <1>1, <1>2, <1>3, <1>4, <1>5, <1>6, <1>7, <1>8, <1>9, <1>10, <1>11, <1>12, <1>13, <1>14,
       <1>15, <1>16, <1>17, <1>18, <1>19, Zenon DEF Next, Job

\* The deadlines a step leaves.
LEMMA DatesNext ==
  ASSUME scenario' = scenario, NEW d, Deadlined(d), d.last # {} => d.first # {},
         NEW b, Deadlined(b), b.last # {} => b.first # {}, cmd' = d, backup'.cmd = b
  PROVE  DateInv'
  <1>1. Deadlined(cmd)'
    BY Zenon DEF Deadlined, Dated, Base, caps
  <1>2. Deadlined(backup.cmd)'
    BY Zenon DEF Deadlined, Dated, Base, caps
  <1> QED
    BY <1>1, <1>2, Zenon DEF DateInv

\* A step that leaves the times of the row keeps the deadlines.
LEMMA SameDates ==
  ASSUME scenario' = scenario, DateInv, cmd'.first = cmd.first, cmd'.last = cmd.last, cmd'.unrecorded = cmd.unrecorded,
         cmd'.deadline = cmd.deadline, backup'.cmd = backup.cmd
  PROVE  DateInv'
  <1>1. PICK d, b : d = cmd' /\ b = backup'.cmd
    BY Zenon
  <1>2. Deadlined(d) /\ (d.last # {} => d.first # {})
    BY <1>1, SameBase, Zenon DEF DateInv
  <1>3. Deadlined(b) /\ (b.last # {} => b.first # {})
    BY <1>1, Zenon DEF DateInv
  <1> QED
    BY <1>1, <1>2, <1>3, DatesNext, Zenon

\* A row with a deadline of its own, or without a base in time, is dated.
LEMMA DeadlineDates ==
  ASSUME scenario \in Scenarios, NEW c \in Cmd, NEW r \in Cmd, r.first = c.first, r.last = c.last,
         c.deadline = Deadline(r) \/ ~InTimeToResend(r)
  PROVE  Deadlined(c) /\ (caps.dedupe > 0 /\ Base(c) # {} /\ c.deadline = Deadline(r) => Dated(c))
  <1>1. Base(c) = Base(r)
    BY Zenon DEF Base
  <1>2. SUFFICES ASSUME caps.dedupe > 0
                 PROVE  /\ \A a \in Base(c) : a + Margin <= caps.dedupe => Dated(c)
                        /\ Base(c) # {} /\ c.deadline = Deadline(r) => Dated(c)
    BY Zenon DEF Deadlined
  <1>3. /\ Base(r) # {} <=> Deadline(r) # {}
        /\ \A v \in Deadline(r) : \A a \in Base(r) : v >= 0 => a + v + Margin <= caps.dedupe
        /\ Passed(Deadline(r)) => \A a \in Base(r) : a + Margin > caps.dedupe
    BY <1>2, DeadlineValue, Zenon
  <1>4. CASE c.deadline = Deadline(r)
    BY <1>1, <1>3, <1>4, Zenon DEF Dated
  <1>5. CASE c.deadline # Deadline(r)
    <2>1. Base(r) = {} \/ Passed(Deadline(r))
      BY <1>3, <1>5, Zenon DEF InTimeToResend
    <2>2. (\A a \in Base(c) : a \in Nat) /\ Margin \in Nat /\ caps.dedupe \in Nat
      BY RowNumbers, Limits, Zenon
    <2> QED
      BY <1>1, <1>3, <1>5, <2>1, <2>2, SMTT(30)
  <1> QED
    BY <1>4, <1>5, Zenon

\* A deadline that has not passed is stored, in the row and in the backup.
LEMMA DateStep ==
  ASSUME BaseInv, Timely, OnceInv, [Next]_vars, ~recovery'.again
  PROVE  DateInv'
  <1>0. TypeInv /\ RunInv /\ DateInv /\ BackupInv
    BY Zenon DEF BaseInv, OnceInv
  <1>1. CASE Request
    <2>1. PICK d, b : d = cmd' /\ b = backup'.cmd
      BY Zenon
    <2>2. scenario' = scenario /\ d.first = {} /\ d.last = {} /\ b = backup.cmd
      BY <1>1, <1>0, <2>1, RequestFresh, Zenon
    <2>3. Deadlined(d)
      BY <2>2, Zenon DEF Deadlined, Base
    <2> QED
      BY <1>0, <2>1, <2>2, <2>3, DatesNext, Zenon DEF DateInv
  <1>2. CASE Register
    BY <1>2, <1>0, RegisterShape, SameDates, Zenon
  <1>3. CASE Finishes
    <2>1. UNCHANGED <<scenario, cmd, backup>>
      BY <1>3, <1>0, FinishesShape, Zenon
    <2> QED
      BY <1>0, <2>1, SameDates, Zenon
  <1>4. CASE Backup
    <2>1. scenario' = scenario /\ cmd' = cmd /\ backup'.cmd = cmd
      BY <1>4, <1>0, BackupShape, Zenon
    <2> QED
      BY <1>0, <2>1, DatesNext, Zenon DEF DateInv
  <1>5. CASE Restore
    <2>1. scenario' = scenario /\ cmd' = backup.cmd /\ backup'.cmd = NoCmd
      BY <1>5, <1>0, RestoreShape, Zenon
    <2>2. Deadlined(NoCmd) /\ NoCmd.last = {}
      BY Zenon DEF Deadlined, Base, NoCmd
    <2> QED
      BY <1>0, <2>1, <2>2, DatesNext, Zenon DEF DateInv
  <1>6. CASE Ask
    <2>1. UNCHANGED <<scenario, cmd, backup>>
      BY <1>6, <1>0, AskShape, Zenon
    <2> QED
      BY <1>0, <2>1, SameDates, Zenon
  <1>7. CASE Apply
    <2>1. PICK record \in recovery.asked : \E c : Reconciled(c) /\
            \/ /\ record # "none" /\ cmd' = set(cmd, record)
            \/ /\ cmd' = [c EXCEPT !.deadline = Deadline(c)]
            \/ /\ ~InTimeToResend(c) /\ \E s \in {"unknown", "manual"} : cmd' = set(c, s)
            \/ cmd' = cmd
      BY <1>7, <1>0, ApplyShape, Zenon
    <2>2. PICK c : Reconciled(c) /\
            \/ /\ record # "none" /\ cmd' = set(cmd, record)
            \/ /\ cmd' = [c EXCEPT !.deadline = Deadline(c)]
            \/ /\ ~InTimeToResend(c) /\ \E s \in {"unknown", "manual"} : cmd' = set(c, s)
            \/ cmd' = cmd
      BY <2>1, Zenon
    <2>3. /\ scenario' = scenario /\ backup' = backup /\ cmd \in Cmd /\ record \in Answers /\ cmd' \in Cmd
          /\ scenario \in Scenarios
      BY <1>7, <1>0, ApplyShape, Zenon DEF TypeInv, Recovery, Optional
    <2>4. CASE record # "none" /\ cmd' = set(cmd, record)
      <3>1. record \in States
        BY <2>3, <2>4, Zenon DEF Answers, States
      <3> QED
        BY <1>0, <2>3, <2>4, <3>1, SetShape, SameDates, Zenon
    <2>5. CASE cmd' = cmd
      BY <1>0, <2>3, <2>5, SameDates, Zenon
    <2>6. ASSUME cmd'.first = c.first, cmd'.last = c.last, cmd'.deadline = Deadline(c) \/ ~InTimeToResend(c)
          PROVE  DateInv'
      <3>1. PICK d : d = cmd'
        BY Zenon
      <3>2. d \in Cmd /\ c \in Cmd
        BY <2>2, <2>3, <3>1, Zenon DEF Reconciled
      <3>3. Deadlined(d)
        BY <2>3, <2>6, <3>1, <3>2, DeadlineDates, Zenon
      <3>4. d.last # {} => d.first # {}
        BY <1>0, <2>2, <2>6, <3>1, EarliestType, Zenon DEF Reconciled, DateInv
      <3> QED
        BY <1>0, <2>3, <3>1, <3>3, <3>4, DatesNext, Zenon DEF DateInv
    <2>7. CASE cmd' = [c EXCEPT !.deadline = Deadline(c)]
      BY <2>2, <2>6, <2>7, Zenon DEF Reconciled, Cmd
    <2>8. CASE ~InTimeToResend(c) /\ \E s \in {"unknown", "manual"} : cmd' = set(c, s)
      BY <2>2, <2>6, <2>8, SetShape, SMTT(30) DEF Reconciled, States
    <2> QED
      BY <2>2, <2>4, <2>5, <2>7, <2>8, Zenon
  <1>8. CASE Open
    <2>1. UNCHANGED <<scenario, cmd, backup>>
      BY <1>8, <1>0, OpenShape, Zenon
    <2> QED
      BY <1>0, <2>1, SameDates, Zenon
  <1>9. CASE Tick
    <2>1. /\ scenario' = scenario /\ cmd' = OlderCmd(cmd) /\ (backup'.cmd = OlderCmd(backup.cmd) \/ backup'.cmd = backup.cmd)
      BY <1>9, <1>0, TickShape, Zenon
    <2>2. ASSUME NEW c \in Cmd, Deadlined(c), c.last # {} => c.first # {}
          PROVE  Deadlined(OlderCmd(c)) /\ (OlderCmd(c).last # {} => OlderCmd(c).first # {})
      <3>1. OlderCmd(c).last # {} => OlderCmd(c).first # {}
        BY <2>2, OlderShape, SMTT(30) DEF OlderAll
      <3>2. ASSUME caps.dedupe > 0, NEW b \in Base(OlderCmd(c)), b + Margin <= caps.dedupe
            PROVE  Dated(OlderCmd(c))
        <4>1. PICK a \in Base(c) : b = Older(a)
          BY <3>2, OlderBase, SMTT(30) DEF OlderAll
        <4>2. a \in Nat /\ a <= MaxAge /\ b \in Nat /\ a <= b /\ Margin \in Nat /\ caps.dedupe \in Nat
          BY <1>0, <4>1, RowNumbers, OlderNumbers, Limits, Zenon DEF TypeInv
        <4>3. Dated(c)
          BY <2>2, <3>2, <4>1, <4>2, SMTT(30) DEF Deadlined
        <4> QED
          BY <1>9, <1>0, <2>2, <3>2, <4>3, TickWindow, Zenon
      <3> QED
        BY <3>1, <3>2, Zenon DEF Deadlined
    <2>3. cmd \in Cmd /\ backup.cmd \in Cmd
      BY <1>0, Zenon DEF TypeInv
    <2>4. Deadlined(OlderCmd(cmd)) /\ (OlderCmd(cmd).last # {} => OlderCmd(cmd).first # {})
      BY <1>0, <2>2, <2>3, Zenon DEF DateInv
    <2>5. Deadlined(OlderCmd(backup.cmd)) /\ (OlderCmd(backup.cmd).last # {} => OlderCmd(backup.cmd).first # {})
      BY <1>0, <2>2, <2>3, Zenon DEF DateInv
    <2>6. PICK d, b : d = cmd' /\ b = backup'.cmd
      BY Zenon
    <2>7. Deadlined(d) /\ (d.last # {} => d.first # {})
      BY <2>1, <2>4, <2>6, Zenon
    <2>8. Deadlined(b) /\ (b.last # {} => b.first # {})
      BY <1>0, <2>1, <2>5, <2>6, Zenon DEF DateInv
    <2> QED
      BY <2>1, <2>6, <2>7, <2>8, DatesNext, Zenon
  <1>10. CASE process
    BY <1>10, <1>0, ProcessShape, SameDates, Zenon
  <1>11. CASE BeforeSend
    BY <1>11, <1>0, BeforeSendShape, SameDates, Zenon
  <1>12. CASE Issue
    BY <1>12, <1>0, IssueShape, SameDates, Zenon
  <1>13. CASE Call
    <2>1. UNCHANGED <<scenario, cmd, backup>>
      BY <1>13, <1>0, CallShape, Zenon
    <2> QED
      BY <1>0, <2>1, SameDates, Zenon
  <1>14. CASE SendReturns
    <2>1. PICK class \in {"not_reached", "maybe_reached", "accepted"} \cup Terminal : SendResult(class)
      BY <1>14, <1>0, ReturnShape, Zenon
    <2>2. scenario' = scenario /\ backup' = backup /\ run.phase = "awaiting" /\ recovery.phase = "normal" /\ SameTimes
      BY <1>14, <1>0, ReturnShape, Zenon DEF RunInv, SendPhases
    <2>3. PICK d : d = cmd'
      BY Zenon
    <2>4. /\ d \in Cmd
          /\ class = "not_reached" => d.first = run.row.first /\ d.last = run.row.last
          /\ class # "not_reached" => d.first # {}
      BY <1>0, <2>1, <2>2, <2>3, ResultRow, Zenon
    <2>5. PICK r \in Cmd : r.first = d.first /\ r.last = d.last /\ d.deadline = Deadline(r)
      BY <1>0, <2>1, <2>2, <2>3, ResultRow, Zenon
    <2>6. Deadlined(d)
      BY <1>0, <2>4, <2>5, DeadlineDates, Zenon DEF TypeInv
    <2>7. d.last # {} => d.first # {}
      BY <1>0, <2>2, <2>4, Zenon DEF DateInv, SameTimes
    <2> QED
      BY <1>0, <2>2, <2>3, <2>6, <2>7, DatesNext, Zenon DEF DateInv
  <1>15. CASE Query
    <2>1. UNCHANGED <<scenario, cmd, backup>>
      BY <1>15, <1>0, QueryShape, Zenon
    <2> QED
      BY <1>0, <2>1, SameDates, Zenon
  <1>16. CASE Answered
    BY <1>16, <1>0, AnsweredShape, SameDates, Zenon
  <1>17. CASE Crash
    <2>1. UNCHANGED <<scenario, cmd, backup>>
      BY <1>17, Zenon DEF Crash
    <2> QED
      BY <1>0, <2>1, SameDates, Zenon
  <1>18. CASE \E x \in ext.flight : Arrive(x)
    <2>1. UNCHANGED <<scenario, cmd, backup>>
      BY <1>18, <1>0, ArriveShape, Zenon
    <2> QED
      BY <1>0, <2>1, SameDates, Zenon
  <1>19. CASE UNCHANGED vars
    <2>1. UNCHANGED <<scenario, cmd, backup>>
      BY <1>19, Zenon DEF vars
    <2> QED
      BY <1>0, <2>1, SameDates, Zenon
  <1> QED
    BY <1>1, <1>2, <1>3, <1>4, <1>5, <1>6, <1>7, <1>8, <1>9, <1>10, <1>11, <1>12, <1>13, <1>14,
       <1>15, <1>16, <1>17, <1>18, <1>19, Zenon DEF Next, Job

\* A step that leaves the row and the external system's side of it keeps what allows a claim.
LEMMA ClaimFrame ==
  ASSUME UNCHANGED <<scenario, cmd>>, ClaimInv, ext'.effects = ext.effects, ext'.used = ext.used, ext'.flight = ext.flight,
         ext'.expires = ext.expires, ext'.sent = ext.sent, recovery'.phase = recovery.phase, recovery'.t = recovery.t
  PROVE  ClaimInv'
  <1>1. (Clear <=> Clear') /\ (Shut <=> Shut')
    BY Zenon DEF Clear, Shut
  <1>2. Windowed(cmd) <=> Windowed(cmd)'
    BY Zenon DEF Windowed, Base, Dated, UsedSince, caps
  <1>3. UsedSince(Starts(cmd)) <=> UsedSince(Starts(cmd))'
    BY Zenon DEF UsedSince, Starts, Base, caps
  <1> QED
    BY <1>1, <1>2, <1>3, Zenon DEF ClaimInv

\* A command that cannot be claimed needs no reason to.
LEMMA ClaimGone ==
  ASSUME cmd'.state \notin Claimable \cup {"absent"}
  PROVE  ClaimInv'
  BY Zenon DEF ClaimInv

\* A command that may be claimed may be sent, as far as its row tells.
LEMMA ClaimStep ==
  ASSUME BaseInv, Timely, OnceInv, [Next]_vars, ~recovery'.again
  PROVE  ClaimInv'
  <1>0. /\ TypeInv /\ RunInv /\ ExtInv /\ SendInv /\ AwaitInv /\ ClaimInv /\ DateInv /\ BackupInv
        /\ cmd \in Cmd
    BY Zenon DEF BaseInv, OnceInv, TypeInv
  <1>1. CASE Request
    <2>1. /\ cmd'.state = "prepared" /\ ext' = ext /\ recovery' = recovery /\ ext.sent = 0 /\ recovery.phase = "normal"
      BY <1>1, <1>0, RequestFresh, Zenon
    <2>2. Clear
      BY <1>0, <2>1, Zenon DEF ExtInv
    <2> QED
      BY <2>1, <2>2, Zenon DEF ClaimInv, Clear
  <1>2. CASE Register
    <2>1. CASE cmd'.state \in Terminal
      BY <2>1, ClaimGone, Zenon DEF Claimable, Terminal
    <2>2. CASE cmd'.state = "retry_wait" /\ ext.record = "none" /\ ext.flight = {}
      <3>1. ext' = ext /\ ext.effects = 0
        BY <1>2, <1>0, <2>2, RegisterShape, Numbers, SMTT(30) DEF ExtInv
      <3> QED
        BY <2>2, <3>1, SMTT(30) DEF ClaimInv, Clear, UsedSince
    <2> QED
      BY <1>2, <1>0, <2>1, <2>2, RegisterShape, Zenon
  <1>3. CASE Finishes
    BY <1>3, <1>0, FinishesShape, ClaimFrame, Zenon
  <1>4. CASE Backup
    BY <1>4, <1>0, BackupShape, ClaimFrame, Zenon
  <1>5. CASE Restore
    <2>1. /\ UNCHANGED <<scenario, ext>> /\ recovery.t = {} /\ recovery'.phase = "verifying" /\ recovery'.t = {backup.age}
          /\ cmd' = backup.cmd /\ backup.cmd \in Cmd
      BY <1>5, <1>0, RestoreShape, Zenon DEF TypeInv
    <2>2. ASSUME backup.cmd.state \in Claimable, ext.effects = 1, NEW u \in ext.used, NEW a \in Starts(cmd)'
          PROVE  u <= a
      <3>1. /\ \A b \in backup.cmd.first \cup backup.cmd.last : backup.age <= b
            /\ \A t \in backup.cmd.attempts : backup.age <= t[2]
            /\ u <= backup.age \/ (backup.cmd.first # {} /\ \A b \in Base(backup.cmd) : u <= b)
        BY <1>0, <2>1, <2>2, Zenon DEF BackupInv
      <3>2. /\ u \in Nat /\ backup.age \in Nat /\ (\A t \in backup.cmd.attempts : t[2] \in Nat)
            /\ \A b \in Base(backup.cmd) : b \in Nat
        BY <1>0, <2>1, <2>2, Numbers, RowNumbers, Zenon
      <3>3. CASE backup.cmd.first # {}
        <4>1. a \in Base(backup.cmd)
          BY <2>1, <2>2, <3>3, Zenon DEF Starts, Base, caps
        <4>2. a \in backup.cmd.first \cup backup.cmd.last
          BY <4>1, Zenon DEF Base
        <4> QED
          BY <3>1, <3>2, <4>1, <4>2, SMTT(30)
      <3>4. CASE backup.cmd.first = {}
        <4>1. a = backup.age \/ \E t \in backup.cmd.attempts : a = t[2]
          BY <2>1, <2>2, <3>4, Zenon DEF Starts
        <4> QED
          BY <3>1, <3>2, <3>4, <4>1, SMTT(30)
      <3> QED
        BY <3>3, <3>4, Zenon
    <2> QED
      BY <2>1, <2>2, Zenon DEF ClaimInv, UsedSince
  <1>6. CASE Ask
    BY <1>6, <1>0, AskShape, ClaimFrame, Zenon
  <1>7. CASE Apply
    <2>1. PICK record \in recovery.asked : \E c : Reconciled(c) /\
            \/ /\ record # "none" /\ cmd' = set(cmd, record)
            \/ /\ InTimeToResend(c) /\ cmd' = [c EXCEPT !.deadline = Deadline(c)]
            \/ /\ \E s \in {"unknown", "manual"} : cmd' = set(c, s)
            \/ cmd.state \in Terminal \cup {"absent", "manual"} /\ cmd' = cmd
      BY <1>7, <1>0, ApplyShape, Zenon
    <2>2. PICK c : Reconciled(c) /\
            \/ /\ record # "none" /\ cmd' = set(cmd, record)
            \/ /\ InTimeToResend(c) /\ cmd' = [c EXCEPT !.deadline = Deadline(c)]
            \/ /\ \E s \in {"unknown", "manual"} : cmd' = set(c, s)
            \/ cmd.state \in Terminal \cup {"absent", "manual"} /\ cmd' = cmd
      BY <2>1, Zenon
    <2>3. /\ UNCHANGED <<scenario, ext>> /\ record \in Answers /\ scenario \in Scenarios /\ c \in Cmd
          /\ recovery'.phase = "reconciled" /\ recovery'.t = recovery.t /\ recovery.phase # "normal" /\ recovery.t # {}
      BY <1>7, <1>0, <2>2, ApplyShape, SMTT(30) DEF TypeInv, Recovery, Optional, RunInv, Reconciled
    <2>4. CASE record # "none" /\ cmd' = set(cmd, record)
      <3>1. record \in States /\ record \notin Claimable \cup {"absent"}
        BY <2>3, <2>4, Zenon DEF Answers, States, Claimable, Terminal
      <3>2. cmd'.state = record
        BY <1>0, <2>4, <3>1, SetShape, Zenon
      <3> QED
        BY <3>1, <3>2, ClaimGone, Zenon
    <2>5. CASE cmd.state \in Terminal \cup {"absent", "manual"} /\ cmd' = cmd
      BY <2>3, <2>5, Zenon DEF ClaimInv, Claimable, Terminal
    <2>6. CASE \E s \in {"unknown", "manual"} : cmd' = set(c, s)
      <3>1. cmd'.state \in {"unknown", "manual"}
        BY <2>3, <2>6, SetShape, SMTT(30) DEF States
      <3> QED
        BY <3>1, ClaimGone, Zenon DEF Claimable
    <2>7. CASE InTimeToResend(c) /\ cmd' = [c EXCEPT !.deadline = Deadline(c)]
      <3>1. PICK d : d = cmd'
        BY Zenon
      <3>2. d.first = c.first /\ d.last = c.last /\ d.deadline = Deadline(c) /\ d.state = cmd.state /\ d \in Cmd
        <4>1. Deadline(c) \in Optional(Left)
          BY <2>3, DeadlineType, Zenon
        <4> QED
          BY <2>2, <2>3, <2>7, <3>1, <4>1, Zenon DEF Reconciled, Cmd
      <3>3. SUFFICES ASSUME cmd.state \in Claimable, ~Clear, ~(Shut /\ ext.effects = 0) PROVE Windowed(cmd)'
        BY <2>3, <3>1, <3>2, Zenon DEF ClaimInv, Clear, Shut
      <3>4. caps.dedupe > 0
        BY <2>3, <2>7, Limits, SMTT(30) DEF InTimeToResend, Deadline
      <3>5. Base(d) = Base(c) /\ Base(c) # {}
        BY <2>3, <2>7, <3>2, <3>4, DeadlineValue, Zenon DEF InTimeToResend, Base
      <3>6. Dated(d)
        BY <2>3, <3>2, <3>4, <3>5, DeadlineDates, Zenon
      <3>7. UsedSince(Base(c))
        <4>0. c.first = earliest(cmd) /\ c.last = cmd.last
          BY <2>2, Zenon DEF Reconciled
        <4>1. CASE cmd.first # {}
          <5>1. Base(c) = Base(cmd) /\ Starts(cmd) = Base(cmd)
            BY <1>0, <4>0, <4>1, EarliestType, Zenon DEF Base, Starts
          <5> QED
            BY <1>0, <3>3, <5>1, Zenon DEF ClaimInv, Windowed
        <4>2. CASE cmd.first = {}
          <5>1. cmd.last = {} /\ Base(cmd) = {}
            BY <1>0, <4>2, Zenon DEF DateInv, Base
          <5>2. recovery.phase = "verifying"
            BY <1>0, <3>3, <5>1, Zenon DEF ClaimInv, Windowed
          <5>3. UsedSince(Starts(cmd))
            BY <1>0, <3>3, <5>2, Zenon DEF ClaimInv
          <5>4. Base(c) \subseteq Starts(cmd)
            BY <1>0, <4>0, <4>2, <5>1, EarliestType, Zenon DEF Base, Starts
          <5> QED
            BY <5>3, <5>4, Zenon DEF UsedSince
        <4> QED
          BY <4>1, <4>2, Zenon
      <3> QED
        BY <2>3, <3>1, <3>4, <3>5, <3>6, <3>7, WindowNext, Zenon DEF UsedSince
    <2> QED
      BY <2>2, <2>4, <2>5, <2>6, <2>7, Zenon
  <1>8. CASE Open
    <2>1. /\ UNCHANGED <<scenario, cmd, ext>> /\ recovery.phase = "reconciled" /\ recovery'.phase = "normal"
          /\ recovery'.t = {MaxAge}
      BY <1>8, <1>0, OpenShape, Zenon
    <2>2. (Clear <=> Clear') /\ (Shut <=> Shut') /\ (Windowed(cmd) <=> Windowed(cmd)')
      BY <2>1, Zenon DEF Clear, Shut, Windowed, Base, Dated, UsedSince, caps
    <2> QED
      BY <1>0, <2>1, <2>2, Zenon DEF ClaimInv
  <1>9. CASE Tick
    <2>1. /\ scenario' = scenario /\ cmd' = OlderCmd(cmd) /\ ext'.effects = ext.effects /\ ext'.sent = ext.sent
          /\ ext'.used = OlderAll(ext.used) /\ ext'.expires = {Sooner(x) : x \in ext.expires}
          /\ ext'.flight = {<<x[1], Older(x[2])>> : x \in {y \in ext.flight : y[2] < Processing}}
          /\ recovery'.phase = recovery.phase /\ recovery'.t = OlderAll(recovery.t)
      BY <1>9, <1>0, TickShape, Zenon
    <2>2. cmd'.state = cmd.state /\ (recovery'.t = {} => recovery.t = {}) /\ (Clear => Clear')
      BY <1>0, <2>1, OlderShape, SMTT(30) DEF OlderAll, Clear
    <2>3. Shut => Shut'
      BY <1>0, <2>1, SoonerPasses, Zenon DEF Shut, TypeInv, Ext
    <2>4. ASSUME Windowed(cmd) PROVE Windowed(cmd)'
      <3>1. PICK d : d = OlderCmd(cmd)
        BY Zenon
      <3>2. Base(d) # {} /\ Dated(d) /\ (ext'.effects = 1 => \A u \in ext'.used : \A a \in Base(d) : u <= a)
        BY <1>9, <1>0, <2>4, <3>1, TickWindow, Zenon DEF Windowed
      <3> QED
        BY <2>1, <2>4, <3>1, <3>2, WindowNext, Zenon DEF Windowed
    <2>5. ASSUME UsedSince(Starts(cmd)) PROVE UsedSince(Starts(cmd))'
      <3>1. ASSUME NEW b \in Starts(cmd)' PROVE \E a \in Starts(cmd) : b = Older(a) /\ a \in Nat /\ a <= MaxAge
        <4>0. OlderCmd(cmd).first = {} <=> cmd.first = {}
          BY <1>0, OlderShape, SMTT(30) DEF OlderAll
        <4>1. CASE cmd.first # {}
          <5>1. b \in Base(OlderCmd(cmd))
            BY <2>1, <3>1, <4>0, <4>1, Zenon DEF Starts, Base, caps
          <5>2. PICK a \in Base(cmd) : b = Older(a)
            BY <1>0, <5>1, OlderBase, SMTT(30) DEF OlderAll
          <5> QED
            BY <1>0, <4>1, <5>2, RowNumbers, Zenon DEF Starts
        <4>2. CASE cmd.first = {}
          <5>1. \/ b \in OlderAll(recovery.t)
                \/ \E t \in OlderCmd(cmd).attempts : b = t[2]
            BY <2>1, <3>1, <4>0, <4>2, Zenon DEF Starts
          <5>2. CASE b \in OlderAll(recovery.t)
            BY <1>0, <4>2, <5>2, Numbers, Zenon DEF Starts, OlderAll
          <5>3. CASE \E t \in OlderCmd(cmd).attempts : b = t[2]
            <6>1. PICK t \in cmd.attempts : b = Older(t[2])
              BY <1>0, <5>3, OlderShape, SMTT(30)
            <6> QED
              BY <1>0, <4>2, <6>1, RowNumbers, Zenon DEF Starts
          <5> QED
            BY <5>1, <5>2, <5>3, Zenon
        <4> QED
          BY <4>1, <4>2, Zenon
      <3>2. ASSUME ext'.effects = 1, NEW w \in ext'.used, NEW b \in Starts(cmd)' PROVE w <= b
        <4>1. PICK a \in Starts(cmd) : b = Older(a) /\ a \in Nat /\ a <= MaxAge
          BY <3>1, <3>2, Zenon
        <4>2. PICK u \in ext.used : w = Older(u)
          BY <2>1, <3>2, Zenon DEF OlderAll
        <4>3. u <= a /\ u \in Nat /\ u <= MaxAge
          BY <1>0, <2>1, <2>5, <3>2, <4>1, <4>2, Numbers, Zenon DEF UsedSince
        <4> QED
          BY <4>1, <4>2, <4>3, OlderNumbers, Zenon
      <3> QED
        BY <3>2, Zenon DEF UsedSince
    <2> QED
      BY <1>0, <2>1, <2>2, <2>3, <2>4, <2>5, Zenon DEF ClaimInv
  <1>10. CASE process
    <2>1. cmd'.state \in {"sending", "unknown", "accepted", "manual"}
      BY <1>10, <1>0, ProcessShape, Zenon
    <2> QED
      BY <2>1, ClaimGone, Zenon DEF Claimable
  <1>11. CASE BeforeSend
    <2>1. cmd'.state \in {"sending", "unknown"}
      BY <1>11, <1>0, BeforeSendShape, Zenon DEF RunInv, SendPhases
    <2> QED
      BY <2>1, ClaimGone, Zenon DEF Claimable
  <1>12. CASE Issue
    <2>1. CASE cmd' = cmd
      BY <1>12, <1>0, <2>1, IssueShape, ClaimFrame, Zenon
    <2>2. CASE cmd'.state = "retry_wait"
      <3>1. /\ UNCHANGED <<scenario, ext, recovery>> /\ run.phase = "issuing" /\ recovery.phase = "normal" /\ SameTimes
            /\ cmd.state = "sending"
        BY <1>12, <1>0, IssueShape, Zenon DEF RunInv, SendPhases
      <3>2. cmd'.first = cmd.first /\ cmd'.last = cmd.last /\ cmd'.unrecorded = cmd.unrecorded /\ cmd'.deadline = cmd.deadline
        BY <1>12, <1>0, <2>2, <3>1, IssueShape, Zenon
      <3>3. CASE Clear \/ (Shut /\ ext.effects = 0)
        BY <2>2, <3>1, <3>3, Zenon DEF ClaimInv, Clear, Shut
      <3>4. CASE InWindow(run.row)
        <4>1. PICK d : d = cmd'
          BY Zenon
        <4>2. d.first = run.row.first /\ d.last = run.row.last /\ d.unrecorded = run.row.unrecorded /\ d.deadline = run.row.deadline
          BY <3>1, <3>2, <4>1, Zenon DEF SameTimes
        <4>3. Base(d) = Base(run.row) /\ Dated(d) /\ caps.dedupe > 0 /\ Base(d) # {} /\ UsedSince(Base(d))
          BY <3>4, <4>2, SameBase, Zenon DEF InWindow, Windowed
        <4>4. Windowed(cmd)'
          BY <3>1, <4>1, <4>3, WindowNext, Zenon DEF UsedSince
        <4> QED
          BY <2>2, <3>1, <4>4, Zenon DEF ClaimInv
      <3> QED
        BY <1>0, <3>1, <3>3, <3>4, Zenon DEF SendInv
    <2> QED
      BY <1>12, <1>0, <2>1, <2>2, IssueShape, Zenon
  <1>13. CASE Call
    <2>1. cmd'.state = "sending"
      BY <1>13, <1>0, CallShape, Zenon DEF RunInv, SendPhases
    <2> QED
      BY <2>1, ClaimGone, Zenon DEF Claimable
  <1>14. CASE SendReturns
    <2>1. PICK class \in {"not_reached", "maybe_reached", "accepted"} \cup Terminal : SendResult(class) /\ Returned(class)
      BY <1>14, <1>0, ReturnShape, Zenon
    <2>2. /\ UNCHANGED <<scenario, recovery>> /\ run.phase = "awaiting" /\ recovery.phase = "normal"
          /\ ext'.effects = ext.effects /\ ext'.used = ext.used /\ ext'.expires = ext.expires
      BY <1>14, <1>0, ReturnShape, Zenon DEF RunInv, SendPhases
    <2>3. cmd'.state = AfterSend(class)
      BY <1>0, <2>1, <2>2, ResultRow, Zenon
    <2>4. CASE class # "not_reached"
      <3>1. AfterSend(class) \notin Claimable \cup {"absent"}
        BY <2>4, Zenon DEF AfterSend, Claimable, Terminal
      <3> QED
        BY <2>3, <3>1, ClaimGone, Zenon
    <2>5. CASE class = "not_reached"
      <3>1. cmd'.state = "retry_wait" /\ UnderWay(run.n) /\ ext'.flight = {x \in ext.flight : x[1] # run.n}
        BY <1>0, <2>1, <2>3, <2>5, Zenon DEF AfterSend, Returned, Terminal, TypeInv, Ext, Answers
      <3>2. CASE ext.effects = 0 /\ \A x \in ext.flight : x[1] = run.n
        BY <2>2, <3>1, <3>2, Zenon DEF ClaimInv, Clear
      <3>3. CASE Shut /\ ext.effects = 0
        BY <2>2, <3>1, <3>3, Zenon DEF ClaimInv, Shut
      <3>4. CASE InWindow(run.row)
        <4>1. PICK d : d = cmd'
          BY Zenon
        <4>2. d \in Cmd /\ d.first = run.row.first /\ d.last = run.row.last
          BY <1>0, <2>1, <2>2, <2>5, <4>1, ResultRow, Zenon
        <4>3. PICK r \in Cmd : r.first = d.first /\ r.last = d.last /\ d.deadline = Deadline(r)
          BY <1>0, <2>1, <2>2, <4>1, ResultRow, Zenon
        <4>4. Base(d) = Base(run.row) /\ caps.dedupe > 0 /\ Base(d) # {} /\ UsedSince(Base(d))
          BY <3>4, <4>2, Zenon DEF InWindow, Windowed, Base
        <4>5. Dated(d)
          BY <1>0, <4>2, <4>3, <4>4, DeadlineDates, Zenon DEF TypeInv
        <4>6. Windowed(cmd)'
          BY <2>2, <4>1, <4>4, <4>5, WindowNext, Zenon DEF UsedSince
        <4> QED
          BY <2>2, <3>1, <4>6, Zenon DEF ClaimInv
      <3> QED
        BY <1>0, <2>2, <3>1, <3>2, <3>3, <3>4, Zenon DEF AwaitInv
    <2> QED
      BY <2>4, <2>5, Zenon
  <1>15. CASE Query
    BY <1>15, <1>0, QueryShape, ClaimFrame, Zenon
  <1>16. CASE Answered
    <2>1. cmd'.state \in {"sending", "unknown", "accepted", "manual"} \cup Terminal
      BY <1>16, <1>0, AnsweredShape, Zenon
    <2> QED
      BY <2>1, ClaimGone, Zenon DEF Claimable, Terminal
  <1>17. CASE Crash
    BY <1>17, <1>0, ClaimFrame, Zenon DEF Crash
  <1>18. CASE \E x \in ext.flight : Arrive(x)
    <2>1. PICK x \in ext.flight : Arrive(x)
      BY <1>18, Zenon
    <2>2. /\ ~Shut /\ ~Clear /\ UNCHANGED <<scenario, cmd, recovery>> /\ ext'.effects <= 1 /\ ext'.sent = ext.sent
      BY <1>0, <2>1, ArriveShape, ExtStep, Zenon DEF ExtInv, Clear
    <2>3. ASSUME Windowed(cmd) PROVE Windowed(cmd)'
      <3>1. \A a \in Base(cmd) : a \in Nat
        BY <1>0, RowNumbers, Zenon
      <3>2. ext'.effects = 1 => \A u \in ext'.used : \A a \in Base(cmd) : u <= a
        BY <1>0, <2>1, <2>2, <2>3, <3>1, ArriveUse, Zenon DEF Windowed
      <3> QED
        BY <2>2, <2>3, <3>2, WindowNext, Zenon DEF Windowed
    <2>4. ASSUME UsedSince(Starts(cmd)) PROVE UsedSince(Starts(cmd))'
      <3>1. \A a \in Starts(cmd) : a \in Nat
        BY <1>0, RowNumbers, Numbers, Zenon DEF Starts
      <3>2. ext'.effects = 1 => \A u \in ext'.used : \A a \in Starts(cmd) : u <= a
        BY <1>0, <2>1, <2>2, <2>4, <3>1, ArriveUse, Zenon
      <3> QED
        BY <2>2, <3>2, Zenon DEF UsedSince, Starts, Base, caps
    <2> QED
      BY <1>0, <2>2, <2>3, <2>4, Zenon DEF ClaimInv
  <1>19. CASE UNCHANGED vars
    BY <1>19, <1>0, ClaimFrame, Zenon DEF vars
  <1> QED
    BY <1>1, <1>2, <1>3, <1>4, <1>5, <1>6, <1>7, <1>8, <1>9, <1>10, <1>11, <1>12, <1>13, <1>14,
       <1>15, <1>16, <1>17, <1>18, <1>19, Zenon DEF Next, Job

\* No step changes the scenario.
LEMMA SameScenario ==
  ASSUME [Next]_vars
  PROVE  scenario' = scenario
  BY Zenon DEF Next, Job, vars, Request, Register, Finishes, Backup, Restore, Ask, Apply, Open, Tick, process,
     BeforeSend,
         Issue, Call, SendReturns, Query, Answered, Crash, Arrive

\* A step that leaves the backup, the recovery point and the uses of the reference keeps what a restore may bring back.
LEMMA BackupFrame ==
  ASSUME UNCHANGED <<scenario, backup>>, recovery'.t = recovery.t, BackupInv, ext'.effects = ext.effects,
         ext'.used = ext.used
  PROVE  BackupInv'
  BY Zenon DEF BackupInv, Base, caps

\* What a restore would bring back is no younger than the backup.
LEMMA BackupStep ==
  ASSUME BaseInv, Timely, OnceInv, [Next]_vars, ~recovery'.again
  PROVE  BackupInv'
  <1>0. /\ TypeInv /\ RunInv /\ ExtInv /\ ClaimInv /\ DateInv /\ BackupInv
    BY Zenon DEF BaseInv, OnceInv
  <1>1. CASE Request
    BY <1>1, <1>0, RequestFresh, BackupFrame, Zenon
  <1>2. CASE Register
    BY <1>2, <1>0, RegisterShape, BackupFrame, Zenon
  <1>3. CASE Finishes
    BY <1>3, <1>0, FinishesShape, BackupFrame, Zenon
  <1>4. CASE Backup
    <2>1. /\ backup'.cmd = cmd /\ backup'.age = 0 /\ UNCHANGED <<scenario, ext, recovery>> /\ "restore" \in scenario.faults
          /\ recovery.phase = "normal" /\ cmd \in Cmd
      BY <1>4, <1>0, BackupShape, Zenon DEF TypeInv
    <2>2. (\A a \in cmd.first \cup cmd.last : 0 <= a) /\ (\A t \in cmd.attempts : 0 <= t[2])
      BY <2>1, RowNumbers, SMTT(30)
    <2>3. ASSUME cmd.state \in Claimable, ext.effects = 1 PROVE cmd.first # {} /\ \A u \in ext.used : \A a \in Base(cmd) : u <= a
      <3>1. Windowed(cmd)
        BY <1>0, <2>1, <2>3, SMTT(30) DEF ClaimInv, Clear
      <3> QED
        BY <1>0, <2>3, <3>1, Zenon DEF Windowed, UsedSince, Base, DateInv
    <2> QED
      BY <2>1, <2>2, <2>3, Zenon DEF BackupInv, Base, caps
  <1>5. CASE Restore
    <2>1. backup'.cmd = NoCmd /\ recovery'.t = {backup.age}
      BY <1>5, <1>0, RestoreShape, Zenon
    <2> QED
      BY <2>1, Zenon DEF BackupInv
  <1>6. CASE Ask
    BY <1>6, <1>0, AskShape, BackupFrame, Zenon
  <1>7. CASE Apply
    BY <1>7, <1>0, ApplyShape, BackupFrame, Zenon
  <1>8. CASE Open
    <2>1. UNCHANGED <<scenario, backup>> /\ recovery'.t = {MaxAge}
      BY <1>8, <1>0, OpenShape, Zenon
    <2> QED
      BY <1>0, <2>1, Zenon DEF BackupInv
  <1>9. CASE Tick
    <2>1. /\ scenario' = scenario /\ ext'.effects = ext.effects /\ ext'.used = OlderAll(ext.used)
          /\ recovery'.t = OlderAll(recovery.t) /\ backup.cmd \in Cmd
      BY <1>9, <1>0, TickShape, Zenon DEF TypeInv
    <2>2. CASE recovery.t # {}
      <3>1. recovery'.t # {} /\ backup' = backup
        BY <1>9, <1>0, <2>1, <2>2, TickShape, SMTT(30) DEF OlderAll
      <3> QED
        BY <1>0, <2>1, <3>1, Zenon DEF BackupInv
    <2>3. CASE "restore" \notin scenario.faults
      <3>1. backup' = backup /\ backup.cmd = NoCmd
        BY <1>9, <1>0, <2>3, TickShape, Zenon DEF BackupInv
      <3> QED
        BY <2>1, <2>3, <3>1, SMTT(30) DEF BackupInv, NoCmd, Claimable
    <2>4. CASE recovery.t = {} /\ "restore" \in scenario.faults
      <3>1. PICK d : d = OlderCmd(backup.cmd)
        BY Zenon
      <3>2. backup'.cmd = d /\ backup'.age = Older(backup.age)
        BY <1>9, <1>0, <2>4, <3>1, TickShape, Zenon
      <3>3. /\ d.state = backup.cmd.state /\ d.first = OlderAll(backup.cmd.first) /\ d.last = OlderAll(backup.cmd.last)
            /\ d.attempts = {<<t[1], Older(t[2])>> : t \in backup.cmd.attempts} /\ Base(d) = OlderAll(Base(backup.cmd))
        BY <2>1, <3>1, OlderShape, OlderBase, Zenon
      <3>4. /\ \A a \in Base(backup.cmd) \cup backup.cmd.first \cup backup.cmd.last : a \in Nat /\ a <= MaxAge
            /\ \A t \in backup.cmd.attempts : t[2] \in Nat /\ t[2] <= MaxAge
            /\ backup.age \in Nat /\ backup.age <= MaxAge /\ \A u \in ext.used : u \in Nat /\ u <= MaxAge
        BY <1>0, <2>1, RowNumbers, Numbers, Zenon
      <3>5. ASSUME NEW b \in d.first \cup d.last PROVE Older(backup.age) <= b
        <4>1. PICK a \in backup.cmd.first \cup backup.cmd.last : b = Older(a)
          BY <3>3, <3>5, Zenon DEF OlderAll
        <4>2. backup.age <= a
          BY <1>0, <2>4, Zenon DEF BackupInv
        <4> QED
          BY <3>4, <4>1, <4>2, OlderNumbers, Zenon
      <3>6. ASSUME NEW t \in d.attempts PROVE Older(backup.age) <= t[2]
        <4>1. PICK s \in backup.cmd.attempts : t[2] = Older(s[2])
          BY <3>3, <3>6, SMTT(30)
        <4>2. backup.age <= s[2]
          BY <1>0, <2>4, Zenon DEF BackupInv
        <4> QED
          BY <3>4, <4>1, <4>2, OlderNumbers, Zenon
      <3>7. ASSUME d.state \in Claimable, ext'.effects = 1, NEW w \in ext'.used
            PROVE  w <= Older(backup.age) \/ (d.first # {} /\ \A b \in Base(d) : w <= b)
        <4>1. PICK u \in ext.used : w = Older(u)
          BY <2>1, <3>7, Zenon DEF OlderAll
        <4>2. u <= backup.age \/ (backup.cmd.first # {} /\ \A a \in Base(backup.cmd) : u <= a)
          BY <1>0, <2>1, <2>4, <3>3, <3>7, <4>1, Zenon DEF BackupInv
        <4>3. CASE u <= backup.age
          BY <3>4, <4>1, <4>3, OlderNumbers, Zenon
        <4>4. CASE backup.cmd.first # {} /\ \A a \in Base(backup.cmd) : u <= a
          <5>1. d.first # {}
            BY <3>3, <4>4, SMTT(30) DEF OlderAll
          <5>2. ASSUME NEW b \in Base(d) PROVE w <= b
            <6>1. PICK a \in Base(backup.cmd) : b = Older(a)
              BY <3>3, <5>2, Zenon DEF OlderAll
            <6> QED
              BY <3>4, <4>1, <4>4, <6>1, OlderNumbers, Zenon
          <5> QED
            BY <5>1, <5>2, Zenon
        <4> QED
          BY <4>2, <4>3, <4>4, Zenon
      <3> QED
        BY <2>1, <2>4, <3>2, <3>5, <3>6, <3>7, Zenon DEF BackupInv, Base, caps
    <2> QED
      BY <2>2, <2>3, <2>4, Zenon
  <1>10. CASE process
    BY <1>10, <1>0, ProcessShape, BackupFrame, Zenon
  <1>11. CASE BeforeSend
    BY <1>11, <1>0, BeforeSendShape, BackupFrame, Zenon
  <1>12. CASE Issue
    BY <1>12, <1>0, IssueShape, BackupFrame, Zenon
  <1>13. CASE Call
    BY <1>13, <1>0, CallShape, BackupFrame, Zenon
  <1>14. CASE SendReturns
    BY <1>14, <1>0, ReturnShape, BackupFrame, Zenon
  <1>15. CASE Query
    BY <1>15, <1>0, QueryShape, BackupFrame, Zenon
  <1>16. CASE Answered
    BY <1>16, <1>0, AnsweredShape, BackupFrame, Zenon
  <1>17. CASE Crash
    BY <1>17, <1>0, BackupFrame, Zenon DEF Crash
  <1>18. CASE \E x \in ext.flight : Arrive(x)
    <2>1. PICK x \in ext.flight : Arrive(x)
      BY <1>18, Zenon
    <2>2. UNCHANGED <<scenario, backup, recovery>> /\ backup.age \in Nat
      BY <1>0, <2>1, ArriveShape, Numbers, Zenon
    <2>3. CASE ext'.effects = ext.effects /\ ext'.used = ext.used
      BY <1>0, <2>2, <2>3, BackupFrame, Zenon
    <2>4. CASE \A u \in ext'.used : u = 0
      BY <1>0, <2>2, <2>4, SMTT(30) DEF BackupInv, Base, caps
    <2> QED
      BY <1>0, <2>1, <2>3, <2>4, ArriveShape, Zenon
  <1>19. CASE UNCHANGED vars
    BY <1>19, <1>0, BackupFrame, Zenon DEF vars
  <1> QED
    BY <1>1, <1>2, <1>3, <1>4, <1>5, <1>6, <1>7, <1>8, <1>9, <1>10, <1>11, <1>12, <1>13, <1>14,
       <1>15, <1>16, <1>17, <1>18, <1>19, Zenon DEF Next, Job

\* The states in which the row's latest send matters.
Pending == Claimable \cup {"sending", "unknown"}

\* A step that sends nothing and leaves the row's times keeps that the requests on their way left before them.
LEMMA LateFrame ==
  ASSUME scenario' = scenario, LateInv, recovery'.phase = recovery.phase, recovery'.failed = recovery.failed,
         ext'.flight \subseteq ext.flight, ext'.record = "none" => ext.record = "none",
         cmd'.last = cmd.last, cmd'.unrecorded = cmd.unrecorded, cmd'.state \in Pending => cmd.state \in Pending,
         \A x \in ext'.flight : Recorded(x)' => Recorded(x),
         run'.phase \in QueryPhases => run.phase \in QueryPhases /\ run'.row.state = run.row.state
  PROVE  LateInv'
  <1>1. LatestSend(cmd)' = LatestSend(cmd)
    BY SMTT(30) DEF LatestSend
  <1>2. \A x : LeftBefore(cmd, x)' <=> LeftBefore(cmd, x)
    BY <1>1, Zenon DEF LeftBefore
  <1> QED
    BY <1>2, Zenon DEF LateInv, Pending, caps

\* With nothing on its way there is nothing to say.
LEMMA LateEmpty ==
  ASSUME ext'.flight = {}, recovery'.phase # "normal" => recovery'.failed # {}
  PROVE  LateInv'
  BY Zenon DEF LateInv

\* With a limit on what is not recorded, everything that left before the limit left before the latest send.
LEMMA LeftUnrecorded ==
  ASSUME NEW d \in Cmd, NEW x, x[2] \in Nat, d.unrecorded # {}, \A a \in d.unrecorded : a <= x[2]
  PROVE  LeftBefore(d, x)
  <1>1. \A a \in d.unrecorded \cup d.last : a \in Nat
    BY RowNumbers, Zenon
  <1>2. \A l \in LatestSend(d) : \E a \in d.unrecorded : l \in Nat /\ l <= a
    BY <1>1, SMTT(30) DEF LatestSend
  <1> QED
    BY <1>1, <1>2, SMTT(30) DEF LeftBefore

\* A tick ages a request and the latest send alike.
LEMMA TickLeft ==
  ASSUME TypeInv, NEW c \in Cmd, NEW x \in ext.flight, LeftBefore(c, x), NEW y, y[2] = Older(x[2])
  PROVE  LeftBefore(OlderCmd(c), y)
  <1>1. SUFFICES ASSUME NEW l \in LatestSend(OlderCmd(c)) PROVE l <= y[2]
    BY Zenon DEF LeftBefore
  <1>2. PICK k \in LatestSend(c) : l = Older(k)
    BY OlderBase, Zenon
  <1>3. k <= x[2] /\ k \in Nat /\ k <= MaxAge /\ x[2] \in Nat /\ x[2] <= MaxAge
    BY <1>2, RowNumbers, Numbers, Zenon DEF LeftBefore
  <1> QED
    BY <1>2, <1>3, OlderNumbers, Zenon

\* Every request on its way is one the row knows of by its latest send.
LEMMA LateStep ==
  ASSUME BaseInv, Timely, OnceInv, [Next]_vars, ~recovery'.again
  PROVE  LateInv'
  <1>0. /\ TypeInv /\ RunInv /\ ExtInv /\ ClaimInv /\ LateInv /\ cmd \in Cmd
    BY Zenon DEF BaseInv, OnceInv, TypeInv
  <1>a. SUFFICES ASSUME caps.maxProcessing > 0 PROVE LateInv'
    BY SameScenario, Zenon DEF LateInv, caps
  <1>b. /\ recovery.phase # "normal" => recovery.failed # {} /\ \A x \in ext.flight : \A a \in recovery.failed : a <= x[2]
        /\ recovery.phase # "verifying" /\ cmd.state \in Pending /\ ext.record = "none" =>
             \A x \in ext.flight : Recorded(x) => LeftBefore(cmd, x)
        /\ recovery.phase = "reconciled" /\ run.phase \in QueryPhases /\ run.row.state = "unknown" /\ ext.record = "none" =>
             \A x \in ext.flight : LeftBefore(cmd, x)
    BY <1>0, <1>a, Zenon DEF LateInv, Pending
  <1>1. CASE Request
    <2>1. UNCHANGED <<ext, recovery>> /\ ext.sent = 0 /\ recovery.phase = "normal"
      BY <1>1, <1>0, RequestFresh, Zenon
    <2>2. ext.flight = {}
      BY <1>0, <2>1, Zenon DEF ExtInv, Clear
    <2> QED
      BY <2>1, <2>2, LateEmpty, Zenon
  <1>2. CASE Register
    <2>1. CASE cmd'.state \in Terminal
      <3>1. cmd'.state \notin Pending
        BY <2>1, Zenon DEF Terminal, Pending, Claimable
      <3> QED
        BY <1>2, <1>0, <3>1, RegisterShape, LateFrame, Zenon DEF Recorded
    <2>2. CASE ext.flight = {}
      BY <1>2, <1>0, <1>b, <2>2, RegisterShape, LateEmpty, Zenon
    <2> QED
      BY <1>2, <1>0, <2>1, <2>2, RegisterShape, Zenon
  <1>3. CASE Finishes
    BY <1>3, <1>0, FinishesShape, LateFrame, Zenon DEF Recorded
  <1>4. CASE Backup
    BY <1>4, <1>0, BackupShape, LateFrame, Zenon DEF Recorded
  <1>5. CASE Restore
    <2>1. /\ scenario' = scenario /\ ext' = ext /\ recovery'.phase = "verifying" /\ recovery'.failed = {0}
      BY <1>5, <1>0, RestoreShape, Zenon
    <2>2. \A x \in ext.flight : 0 <= x[2]
      BY <1>0, Numbers, SMTT(30)
    <2> QED
      BY <2>1, <2>2, Zenon DEF LateInv
  <1>6. CASE Ask
    BY <1>6, <1>0, AskShape, LateFrame, Zenon DEF Recorded
  <1>7. CASE Apply
    <2>1. PICK record \in recovery.asked : \E c : Reconciled(c) /\
            \/ /\ record # "none" /\ cmd' = set(cmd, record)
            \/ /\ InTimeToResend(c) /\ cmd' = [c EXCEPT !.deadline = Deadline(c)]
            \/ /\ \E s \in {"unknown", "manual"} : cmd' = set(c, s)
            \/ cmd.state \in Terminal \cup {"absent", "manual"} /\ cmd' = cmd
      BY <1>7, <1>0, ApplyShape, Zenon
    <2>2. PICK c : Reconciled(c) /\
            \/ /\ record # "none" /\ cmd' = set(cmd, record)
            \/ /\ InTimeToResend(c) /\ cmd' = [c EXCEPT !.deadline = Deadline(c)]
            \/ /\ \E s \in {"unknown", "manual"} : cmd' = set(c, s)
            \/ cmd.state \in Terminal \cup {"absent", "manual"} /\ cmd' = cmd
      BY <2>1, Zenon
    <2>3. /\ UNCHANGED <<scenario, ext, run>> /\ c \in Cmd /\ c.unrecorded = recovery.failed /\ recovery.phase # "normal"
          /\ recovery'.phase = "reconciled" /\ recovery'.failed = recovery.failed
      BY <1>7, <1>0, <2>2, ApplyShape, Zenon DEF Reconciled
    <2>4. CASE record # "none"
      <3>1. ext.record # "none"
        BY <1>0, <2>1, <2>4, Zenon DEF ExtInv
      <3> QED
        BY <1>b, <2>3, <3>1, Zenon DEF LateInv
    <2>5. CASE cmd.state \in Terminal \cup {"absent", "manual"} /\ cmd' = cmd
      <3>1. cmd.state \notin Pending
        BY <2>5, Zenon DEF Terminal, Pending, Claimable
      <3>2. run.phase \in QueryPhases /\ run.row.state = "unknown" => recovery.phase = "reconciled"
        BY <1>0, <3>1, Zenon DEF RunInv, Pending
      <3>3. \A x : LeftBefore(cmd, x)' <=> LeftBefore(cmd, x)
        BY <2>5, SMTT(30) DEF LeftBefore, LatestSend
      <3> QED
        BY <1>b, <2>3, <2>5, <3>1, <3>2, <3>3, Zenon DEF LateInv, Pending, caps
    <2>6. CASE cmd'.unrecorded = recovery.failed /\ cmd' \in Cmd
      <3>1. PICK d \in Cmd : d = cmd'
        BY <2>6, Zenon
      <3>2. \A x \in ext.flight : LeftBefore(d, x)
        BY <1>0, <1>b, <2>3, <2>6, <3>1, LeftUnrecorded, Numbers, Zenon
      <3>3. \A x \in ext.flight : LeftBefore(cmd, x)'
        BY <3>1, <3>2, Zenon DEF LeftBefore
      <3> QED
        BY <1>b, <2>3, <3>3, Zenon DEF LateInv
    <2>7. CASE cmd' = [c EXCEPT !.deadline = Deadline(c)]
      <3>1. cmd'.unrecorded = recovery.failed
        BY <2>3, <2>7, Zenon DEF Cmd
      <3> QED
        BY <1>7, <1>0, <2>6, <3>1, ApplyShape, Zenon
    <2>8. CASE \E s \in {"unknown", "manual"} : cmd' = set(c, s)
      <3>1. cmd'.unrecorded = recovery.failed
        BY <2>3, <2>8, SetShape, SMTT(30) DEF States
      <3> QED
        BY <1>7, <1>0, <2>6, <3>1, ApplyShape, Zenon
    <2> QED
      BY <2>2, <2>4, <2>5, <2>7, <2>8, Zenon
  <1>8. CASE Open
    <2>1. /\ UNCHANGED <<scenario, cmd, ext>> /\ recovery.phase = "reconciled" /\ recovery'.phase = "normal" /\ run' = Idle
      BY <1>8, <1>0, OpenShape, Zenon
    <2>2. \A x : Recorded(x)
      BY <1>0, <2>1, Zenon DEF RunInv, SendPhases, Recorded
    <2> QED
      BY <1>b, <2>1, <2>2, SMTT(30) DEF LateInv, LeftBefore, LatestSend, Pending, caps
  <1>9. CASE Tick
    <2>1. /\ scenario' = scenario /\ cmd' = OlderCmd(cmd) /\ run'.phase = run.phase /\ run'.n = run.n
          /\ ext'.record = ext.record /\ recovery'.phase = recovery.phase /\ recovery'.failed = OlderAll(recovery.failed)
      BY <1>9, <1>0, TickShape, Zenon
    <2>2. cmd'.state = cmd.state /\ (run.phase \in QueryPhases => run'.row.state = run.row.state)
      BY <1>9, <1>0, <2>1, OlderShape, TickShape, Zenon DEF TypeInv, Run, QueryPhases
    <2>3. ASSUME NEW y \in ext'.flight PROVE \E x \in ext.flight : y[1] = x[1] /\ y[2] = Older(x[2])
      <3>1. ext'.flight = {<<x[1], Older(x[2])>> : x \in {z \in ext.flight : z[2] < Processing}}
        BY <1>9, <1>0, TickShape, Zenon
      <3>2. PICK x \in {z \in ext.flight : z[2] < Processing} : y = <<x[1], Older(x[2])>>
        BY <3>1, Zenon
      <3> QED
        BY <3>2, Zenon
    <2>4. ASSUME recovery.phase # "normal" PROVE recovery'.failed # {}
      BY <1>b, <2>1, <2>4, Zenon DEF OlderAll
    <2>5. ASSUME recovery.phase # "normal", NEW y \in ext'.flight, NEW b \in recovery'.failed PROVE b <= y[2]
      <3>1. PICK x \in ext.flight : y[2] = Older(x[2])
        BY <2>3, Zenon
      <3>2. PICK a \in recovery.failed : b = Older(a)
        BY <2>1, Zenon DEF OlderAll
      <3>3. a <= x[2] /\ a \in Nat /\ a <= MaxAge /\ x[2] \in Nat /\ x[2] <= MaxAge
        BY <1>0, <1>b, <2>5, Numbers, Zenon
      <3> QED
        BY <3>1, <3>2, <3>3, OlderNumbers, Zenon
    <2>6. ASSUME NEW y \in ext'.flight, \A x \in ext.flight : Recorded(x) => LeftBefore(cmd, x), Recorded(y)'
          PROVE  LeftBefore(cmd, y)'
      <3>1. PICK x \in ext.flight : y[1] = x[1] /\ y[2] = Older(x[2])
        BY <2>3, Zenon
      <3>2. LeftBefore(cmd, x)
        BY <2>1, <2>6, <3>1, Zenon DEF Recorded
      <3>3. LeftBefore(OlderCmd(cmd), y)
        BY <1>0, <3>1, <3>2, TickLeft, Zenon
      <3> QED
        BY <2>1, <3>3, Zenon DEF LeftBefore
    <2>7. ASSUME run.phase \in QueryPhases PROVE \A x : Recorded(x)' /\ Recorded(x)
      BY <2>1, <2>7, Zenon DEF Recorded, QueryPhases
    <2> QED
      BY <1>b, <2>1, <2>2, <2>4, <2>5, <2>6, <2>7, Zenon DEF LateInv, Pending, caps
  <1>10. CASE process
    <2>1. /\ UNCHANGED <<scenario, ext, recovery>> /\ run.phase = "idle" /\ cmd'.last = cmd.last
          /\ cmd'.unrecorded = cmd.unrecorded
      BY <1>10, <1>0, ProcessShape, Zenon
    <2>2. /\ cmd'.state \in Pending => cmd.state \in Pending
          /\ run'.phase \in QueryPhases /\ run'.row.state = "unknown" => cmd.state \in Pending
      BY <1>10, <1>0, <2>1, ProcessShape, Zenon DEF Pending, QueryPhases, Claimable
    <2>3. \A x : Recorded(x) /\ (LeftBefore(cmd, x)' <=> LeftBefore(cmd, x))
      BY <2>1, SMTT(30) DEF Recorded, LeftBefore, LatestSend
    <2> QED
      BY <1>b, <2>1, <2>2, <2>3, Zenon DEF LateInv, Pending, caps
  <1>11. CASE BeforeSend
    <2>1. /\ UNCHANGED <<scenario, recovery>> /\ run.phase = "claimed" /\ cmd'.last = cmd.last
          /\ cmd'.unrecorded = cmd.unrecorded /\ ext'.flight = ext.flight /\ ext'.record = ext.record
          /\ run'.phase \in {"idle", "issuing", "calling"}
      BY <1>11, <1>0, BeforeSendShape, Empty, Zenon
    <2>2. cmd.state \in Pending
      BY <1>0, <2>1, Zenon DEF RunInv, SendPhases, Pending
    <2> QED
      BY <1>0, <2>1, <2>2, LateFrame, Zenon DEF Recorded, QueryPhases
  <1>12. CASE Issue
    <2>1. /\ UNCHANGED <<scenario, recovery, ext>> /\ run.phase = "issuing" /\ cmd'.last = cmd.last
          /\ cmd'.unrecorded = cmd.unrecorded /\ run'.phase \in {"idle", "calling"}
      BY <1>12, <1>0, IssueShape, Empty, Zenon
    <2>2. cmd.state \in Pending
      BY <1>0, <2>1, Zenon DEF RunInv, SendPhases, Pending
    <2> QED
      BY <1>0, <2>1, <2>2, LateFrame, Zenon DEF Recorded, QueryPhases
  <1>13. CASE Call
    <2>1. /\ UNCHANGED <<scenario, recovery, cmd>> /\ run.phase = "calling" /\ recovery.phase = "normal"
          /\ ext'.flight = ext.flight \cup {<<run.n, 0>>} /\ ext'.record = ext.record
          /\ run'.phase = "awaiting" /\ run'.n = run.n
      BY <1>13, <1>0, CallShape, Zenon DEF RunInv, SendPhases
    <2>2. ASSUME NEW x \in ext'.flight, Recorded(x)' PROVE x \in ext.flight /\ Recorded(x)
      BY <2>1, <2>2, SMTT(30) DEF Recorded
    <2>3. \A x : LeftBefore(cmd, x)' <=> LeftBefore(cmd, x)
      BY <2>1, SMTT(30) DEF LeftBefore, LatestSend
    <2> QED
      BY <1>b, <2>1, <2>2, <2>3, Zenon DEF LateInv, Pending, caps
  <1>14. CASE SendReturns
    <2>1. PICK class \in {"not_reached", "maybe_reached", "accepted"} \cup Terminal : SendResult(class) /\ Returned(class)
      BY <1>14, <1>0, ReturnShape, Zenon
    <2>2. /\ UNCHANGED <<scenario, recovery>> /\ run.phase = "awaiting" /\ recovery.phase = "normal"
          /\ ext'.record = ext.record /\ ext.record \in Answers /\ cmd.state = "sending" /\ SameTimes
      BY <1>14, <1>0, ReturnShape, Zenon DEF RunInv, SendPhases, TypeInv, Ext
    <2>3. cmd' \in Cmd /\ cmd'.state = AfterSend(class) /\ cmd'.unrecorded = cmd.unrecorded
      BY <1>0, <2>1, <2>2, ResultRow, Zenon
    <2>4. SUFFICES ASSUME cmd'.state \in Pending, ext.record = "none", NEW x \in ext'.flight
                   PROVE  LeftBefore(cmd, x)'
      BY <2>2, Zenon DEF LateInv, Pending, caps
    <2>5. class \in {"not_reached", "maybe_reached"}
      BY <2>1, <2>2, <2>3, <2>4, Zenon DEF Returned, AfterSend, Pending, Claimable, Terminal
    <2>6. x \in ext.flight /\ x[2] \in Nat
      BY <1>0, <2>1, <2>2, <2>4, <2>5, Numbers, Zenon DEF Returned, Answers
    <2>7. CASE class = "not_reached"
      <3>1. cmd'.last = cmd.last
        BY <1>0, <2>1, <2>2, <2>7, ResultRow, Zenon DEF SameTimes
      <3>2. x[1] # run.n
        BY <2>1, <2>2, <2>4, <2>7, Zenon DEF Returned, Answers, Terminal
      <3>3. LeftBefore(cmd, x)
        BY <1>b, <2>2, <2>4, <2>6, <3>2, Zenon DEF Pending, Recorded
      <3> QED
        BY <2>3, <3>1, <3>3, SMTT(30) DEF LeftBefore, LatestSend
    <2>8. CASE class = "maybe_reached"
      <3>1. PICK d \in Cmd : d = cmd'
        BY <2>3, Zenon
      <3>2. d.last = {0}
        BY <1>0, <2>1, <2>2, <2>8, <3>1, ResultRow, Zenon
      <3>3. \A a \in d.unrecorded : a \in Nat
        BY RowNumbers, Zenon
      <3>4. LatestSend(d) = {0}
        BY <3>2, <3>3, SMTT(30) DEF LatestSend
      <3> QED
        BY <2>6, <3>1, <3>4, SMTT(30) DEF LeftBefore
    <2> QED
      BY <2>5, <2>7, <2>8, Zenon
  <1>15. CASE Query
    <2>1. /\ UNCHANGED <<scenario, recovery, ext, cmd>> /\ run.phase = "querying" /\ run'.row = run.row
      BY <1>15, <1>0, QueryShape, Zenon
    <2> QED
      BY <1>0, <2>1, LateFrame, Zenon DEF Recorded, QueryPhases
  <1>16. CASE Answered
    <2>1. /\ UNCHANGED <<scenario, recovery, ext>> /\ run.phase = "answered" /\ cmd'.last = cmd.last
          /\ cmd'.unrecorded = cmd.unrecorded /\ run'.phase \in {"idle", "claimed"}
      BY <1>16, <1>0, AnsweredShape, Empty, Zenon
    <2>2. cmd'.state \in Pending => run.row.state = "unknown"
      BY <1>16, <1>0, AnsweredShape, Zenon DEF Pending, Claimable, Terminal
    <2>3. recovery.phase \in {"normal", "verifying", "reconciled"}
      BY <1>0, Zenon DEF TypeInv, Recovery
    <2>4. recovery.phase = "normal" /\ run.row.state = "unknown" => cmd.state \in Pending
      BY <1>0, <2>1, Zenon DEF RunInv, QueryPhases, Pending
    <2>5. \A x : Recorded(x) /\ (LeftBefore(cmd, x)' <=> LeftBefore(cmd, x))
      BY <2>1, SMTT(30) DEF Recorded, LeftBefore, LatestSend
    <2> QED
      BY <1>b, <2>1, <2>2, <2>3, <2>4, <2>5, Zenon DEF LateInv, Pending, QueryPhases, caps
  <1>17. CASE Crash
    BY <1>17, <1>a, Zenon DEF Crash, Spend, Timely
  <1>18. CASE \E x \in ext.flight : Arrive(x)
    BY <1>18, <1>0, ArriveShape, LateFrame, Zenon DEF Recorded
  <1>19. CASE UNCHANGED vars
    BY <1>19, <1>0, LateFrame, Zenon DEF vars, Recorded
  <1> QED
    BY <1>1, <1>2, <1>3, <1>4, <1>5, <1>6, <1>7, <1>8, <1>9, <1>10, <1>11, <1>12, <1>13, <1>14,
       <1>15, <1>16, <1>17, <1>18, <1>19, Zenon DEF Next, Job

\* No answer in hand, nothing to say of it.
LEMMA NoAnswer ==
  ASSUME run'.phase # "answered"
  PROVE  NotFoundInv'
  BY Zenon DEF NotFoundInv

\* A step that leaves the answer, the phase and the external system's side keeps what the answer says.
LEMMA AnswerFrame ==
  ASSUME UNCHANGED <<scenario, run>>, NotFoundInv, recovery'.phase = recovery.phase \/ recovery'.phase # "normal",
         ext'.effects = ext.effects, ext'.used = ext.used, ext'.flight = ext.flight, ext'.expires = ext.expires
  PROVE  NotFoundInv'
  BY Zenon DEF NotFoundInv, Clear, Shut, caps

\* What a query did not find is not there, and where the processing time has passed it will not come.
LEMMA NotFoundStep ==
  ASSUME BaseInv, Timely, OnceInv, [Next]_vars, ~recovery'.again
  PROVE  NotFoundInv'
  <1>0. /\ TypeInv /\ RunInv /\ ExtInv /\ FlightInv /\ LateInv /\ NotFoundInv
    BY Zenon DEF BaseInv, OnceInv
  <1>1. CASE Request
    BY <1>1, <1>0, RequestFresh, AnswerFrame, Zenon
  <1>2. CASE Register
    BY <1>2, <1>0, RegisterShape, AnswerFrame, Zenon
  <1>3. CASE Finishes
    BY <1>3, <1>0, FinishesShape, AnswerFrame, Zenon
  <1>4. CASE Backup
    BY <1>4, <1>0, BackupShape, AnswerFrame, Zenon
  <1>5. CASE Restore
    BY <1>5, <1>0, RestoreShape, NoAnswer, Empty, Zenon
  <1>6. CASE Ask
    BY <1>6, <1>0, AskShape, AnswerFrame, Zenon
  <1>7. CASE Apply
    BY <1>7, <1>0, ApplyShape, AnswerFrame, Zenon
  <1>8. CASE Open
    BY <1>8, <1>0, OpenShape, NoAnswer, Empty, Zenon
  <1>9. CASE Tick
    BY <1>9, <1>0, TickShape, NoAnswer, Zenon DEF InTime
  <1>10. CASE process
    BY <1>10, <1>0, ProcessShape, NoAnswer, Empty, Zenon
  <1>11. CASE BeforeSend
    BY <1>11, <1>0, BeforeSendShape, NoAnswer, Empty, Zenon
  <1>12. CASE Issue
    BY <1>12, <1>0, IssueShape, NoAnswer, Empty, Zenon
  <1>13. CASE Call
    BY <1>13, <1>0, CallShape, NoAnswer, Empty, Zenon
  <1>14. CASE SendReturns
    BY <1>14, NoAnswer, Empty, Zenon DEF SendReturns, SendResult
  <1>15. CASE Query
    <2>1. /\ UNCHANGED <<scenario, cmd, ext, recovery>> /\ run.phase = "querying" /\ run'.row = run.row
          /\ run'.answer = "not_found" => ext.record = "none"
      BY <1>15, <1>0, QueryShape, Zenon DEF TypeInv, Ext, Answers, Terminal
    <2>2. CASE ext.record # "none"
      BY <2>1, <2>2, Zenon DEF NotFoundInv
    <2>3. CASE ext.record = "none"
      <3>1. ext.effects = 0
        BY <1>0, <2>3, Numbers, SMTT(30) DEF ExtInv
      <3>2. ASSUME recovery.phase = "normal", run.row.state = "unknown", caps.maxProcessing > 0,
                   Longer(LatestSend(run.row), caps.maxProcessing)
            PROVE  ext.flight = {}
        <4>1. cmd.state = "unknown" /\ SameTimes
          BY <1>0, <2>1, <3>2, Zenon DEF RunInv, QueryPhases
        <4>2. LatestSend(run.row) = LatestSend(cmd)
          BY <4>1, SameBase, Zenon DEF SameTimes
        <4>3. PICK l \in LatestSend(cmd) : l > caps.maxProcessing
          BY <3>2, <4>2, Zenon DEF Longer
        <4>4. l \in Nat /\ caps.maxProcessing \in Nat /\ Processing = caps.maxProcessing
          BY <1>0, <3>2, RowNumbers, Limits, Zenon DEF TypeInv, Processing
        <4>5. ASSUME NEW x \in ext.flight PROVE FALSE
          <5>1. l <= x[2]
            BY <1>0, <2>1, <2>3, <3>2, <4>1, Zenon DEF LateInv, Recorded, LeftBefore
          <5>2. x[2] <= caps.maxProcessing /\ x[2] \in Nat
            BY <1>0, <4>4, Numbers, Zenon DEF FlightInv
          <5> QED
            BY <4>3, <4>4, <5>1, <5>2, SMTT(30)
        <4> QED
          BY <4>5, Zenon
      <3> QED
        BY <2>1, <3>1, <3>2, SMTT(30) DEF NotFoundInv, Clear, caps
    <2> QED
      BY <2>2, <2>3, Zenon
  <1>16. CASE Answered
    BY <1>16, <1>0, AnsweredShape, NoAnswer, Empty, Zenon
  <1>17. CASE Crash
    BY <1>17, NoAnswer, Empty, Zenon DEF Crash
  <1>18. CASE \E x \in ext.flight : Arrive(x)
    <2>1. PICK x \in ext.flight : Arrive(x)
      BY <1>18, Zenon
    <2>2. UNCHANGED <<scenario, run, recovery>> /\ ~Shut /\ ext'.expires = ext.expires /\ ~Clear
      BY <1>0, <2>1, ArriveShape, Zenon DEF Clear
    <2>3. (ext'.effects = ext.effects /\ ext'.used = ext.used) \/ \A u \in ext'.used : u = 0
      BY <1>0, <2>1, ArriveShape, Zenon
    <2> QED
      BY <1>0, <2>2, <2>3, Zenon DEF NotFoundInv, Shut, caps
  <1>19. CASE UNCHANGED vars
    BY <1>19, <1>0, AnswerFrame, Zenon DEF vars
  <1> QED
    BY <1>1, <1>2, <1>3, <1>4, <1>5, <1>6, <1>7, <1>8, <1>9, <1>10, <1>11, <1>12, <1>13, <1>14,
       <1>15, <1>16, <1>17, <1>18, <1>19, Zenon DEF Next, Job

\* A step that leaves the expiries, and whether there is a command, keeps that they are one.
LEMMA ExpiryFrame ==
  ASSUME ExpiryInv, ext'.sent = ext.sent, ext'.expires = ext.expires, cmd'.expires = cmd.expires,
         cmd'.state = "absent" <=> cmd.state = "absent", backup' = backup, recovery'.t = recovery.t
  PROVE  ExpiryInv'
  BY Zenon DEF ExpiryInv

\* The requests and the rows of a command have one expiry.
LEMMA ExpiryStep ==
  ASSUME BaseInv, Timely, OnceInv, [Next]_vars, ~recovery'.again
  PROVE  ExpiryInv'
  <1>0. /\ TypeInv /\ RunInv /\ ClaimInv /\ BackupInv /\ ExpiryInv
    BY Zenon DEF BaseInv, OnceInv
  <1>1. CASE Request
    <2>1. cmd.state = "absent" /\ ext.sent = 0 /\ UNCHANGED <<ext, backup, recovery>>
      BY <1>1, <1>0, RequestFresh, Zenon
    <2> QED
      BY <1>0, <2>1, SMTT(30) DEF ExpiryInv
  <1>2. CASE Register
    BY <1>2, <1>0, RegisterShape, ExpiryFrame, Zenon DEF RunInv, SendPhases, QueryPhases, Claimable, Terminal
  <1>3. CASE Finishes
    BY <1>3, <1>0, FinishesShape, ExpiryFrame, Zenon
  <1>4. CASE Backup
    BY <1>4, <1>0, BackupShape, Zenon DEF ExpiryInv
  <1>5. CASE Restore
    <2>1. /\ UNCHANGED ext /\ recovery.t = {} /\ cmd' = backup.cmd /\ recovery'.t = {backup.age}
      BY <1>5, <1>0, RestoreShape, Zenon
    <2> QED
      BY <1>0, <2>1, Zenon DEF ExpiryInv
  <1>6. CASE Ask
    BY <1>6, <1>0, AskShape, ExpiryFrame, Zenon
  <1>7. CASE Apply
    <2>1. PICK record \in recovery.asked : \E c : Reconciled(c) /\
            \/ /\ record # "none" /\ cmd' = set(cmd, record)
            \/ cmd' = [c EXCEPT !.deadline = Deadline(c)]
            \/ \E s \in {"unknown", "manual"} : cmd' = set(c, s)
            \/ cmd' = cmd
      BY <1>7, <1>0, ApplyShape, Zenon
    <2>2. record # "none" => record \in States
      BY <1>0, SMTT(30) DEF TypeInv, Recovery, Optional, Answers, States, Terminal
    <2>3. cmd'.expires = cmd.expires
      BY <1>0, <2>1, <2>2, SetShape, SMTT(30) DEF Reconciled, Cmd, States, TypeInv
    <2> QED
      BY <1>7, <1>0, <2>3, ApplyShape, ApplyAbsent, ExpiryFrame, Zenon
  <1>8. CASE Open
    <2>1. UNCHANGED <<ext, cmd, backup>> /\ recovery'.t = {MaxAge}
      BY <1>8, <1>0, OpenShape, Zenon
    <2> QED
      BY <1>0, <2>1, Zenon DEF ExpiryInv
  <1>9. CASE Tick
    <2>1. /\ ext'.sent = ext.sent /\ ext'.expires = {Sooner(x) : x \in ext.expires} /\ cmd'.state = cmd.state
          /\ cmd'.expires = {Sooner(x) : x \in cmd.expires} /\ recovery'.t = OlderAll(recovery.t)
      BY <1>9, <1>0, TickShape, OlderShape, Zenon DEF TypeInv
    <2>2. CASE recovery.t # {}
      <3>1. recovery'.t # {}
        BY <2>1, <2>2, SMTT(30) DEF OlderAll
      <3> QED
        BY <1>0, <2>1, <3>1, Zenon DEF ExpiryInv
    <2>3. CASE "restore" \notin scenario.faults
      <3>1. backup'.cmd.state = "absent"
        BY <1>9, <1>0, <2>3, TickShape, Empty, Zenon DEF BackupInv
      <3> QED
        BY <1>0, <2>1, <3>1, Zenon DEF ExpiryInv
    <2>4. CASE recovery.t = {} /\ "restore" \in scenario.faults
      <3>1. backup'.cmd.state = backup.cmd.state /\ backup'.cmd.expires = {Sooner(x) : x \in backup.cmd.expires}
        BY <1>9, <1>0, <2>4, TickShape, OlderShape, Zenon DEF TypeInv
      <3> QED
        BY <1>0, <2>1, <2>4, <3>1, Zenon DEF ExpiryInv
    <2> QED
      BY <2>2, <2>3, <2>4, Zenon
  <1>10. CASE process
    BY <1>10, <1>0, ProcessShape, ExpiryFrame, Zenon DEF RunInv, SendPhases, QueryPhases, Claimable, Terminal
  <1>11. CASE BeforeSend
    <2>1. /\ cmd.state = "sending" /\ cmd'.state \in {"sending", "unknown"} /\ UNCHANGED <<backup, recovery>>
          /\ cmd'.expires = cmd.expires
      BY <1>11, <1>0, BeforeSendShape, Zenon DEF RunInv, SendPhases
    <2>2. CASE ext' = ext
      BY <1>0, <2>1, <2>2, ExpiryFrame, Zenon
    <2>3. CASE ext'.expires = cmd.expires
      BY <1>0, <2>1, <2>3, Zenon DEF ExpiryInv
    <2> QED
      BY <1>11, <1>0, <2>2, <2>3, BeforeSendShape, Zenon
  <1>12. CASE Issue
    BY <1>12, <1>0, IssueShape, ExpiryFrame, Zenon DEF RunInv, SendPhases, QueryPhases, Claimable, Terminal
  <1>13. CASE Call
    BY <1>13, <1>0, CallShape, ExpiryFrame, Zenon
  <1>14. CASE SendReturns
    <2>1. PICK class \in {"not_reached", "maybe_reached", "accepted"} \cup Terminal : SendResult(class) /\ Returned(class)
      BY <1>14, <1>0, ReturnShape, Zenon
    <2>2. /\ UNCHANGED <<backup, recovery>> /\ run.phase = "awaiting" /\ cmd.state = "sending"
          /\ ext'.sent = ext.sent /\ ext'.expires = ext.expires
      BY <1>14, <1>0, ReturnShape, Zenon DEF RunInv, SendPhases
    <2>3. cmd'.state = AfterSend(class) /\ cmd'.expires = cmd.expires
      BY <1>0, <2>1, <2>2, ResultRow, Zenon
    <2>4. AfterSend(class) # "absent"
      BY Zenon DEF AfterSend, Terminal
    <2> QED
      BY <1>0, <2>2, <2>3, <2>4, ExpiryFrame, Zenon
  <1>15. CASE Query
    BY <1>15, <1>0, QueryShape, ExpiryFrame, Zenon
  <1>16. CASE Answered
    BY <1>16, <1>0, AnsweredShape, ExpiryFrame, Zenon DEF RunInv, SendPhases, QueryPhases, Claimable, Terminal
  <1>17. CASE Crash
    BY <1>17, <1>0, ExpiryFrame, Zenon DEF Crash
  <1>18. CASE \E x \in ext.flight : Arrive(x)
    BY <1>18, <1>0, ArriveShape, ExpiryFrame, Zenon
  <1>19. CASE UNCHANGED vars
    BY <1>19, <1>0, ExpiryFrame, Zenon DEF vars
  <1> QED
    BY <1>1, <1>2, <1>3, <1>4, <1>5, <1>6, <1>7, <1>8, <1>9, <1>10, <1>11, <1>12, <1>13, <1>14,
       <1>15, <1>16, <1>17, <1>18, <1>19, Zenon DEF Next, Job

\* Initially nothing was sent.
LEMMA InitOnce ==
  ASSUME Init
  PROVE  OnceInv
  <1>1. ExtInv /\ FlightInv /\ Clear
    BY SMTT(30) DEF Init, ExtInv, FlightInv, Clear, Idle
  <1>2. SendInv /\ AwaitInv /\ NotFoundInv /\ LateInv
    BY Zenon DEF Init, SendInv, AwaitInv, NotFoundInv, LateInv, Idle, NoCmd, Claimable
  <1>3. ClaimInv /\ ExpiryInv
    BY Zenon DEF Init, ClaimInv, ExpiryInv, NoCmd, Claimable
  <1>4. BackupInv /\ DateInv
    BY Zenon DEF Init, BackupInv, DateInv, Deadlined, Base, NoCmd, Claimable
  <1> QED
    BY <1>1, <1>2, <1>3, <1>4, Zenon DEF OnceInv

\* Every step keeps what allows at most one effect.
LEMMA StepOnce ==
  ASSUME BaseInv, Timely, OnceInv, [Next]_vars, ~recovery'.again
  PROVE  OnceInv'
  BY ExtStep, FlightStep, SendStep, AwaitStep, ClaimStep, BackupStep, DateStep, LateStep, NotFoundStep, ExpiryStep,
     Zenon
     DEF OnceInv

\* What the code takes for granted does not change.
LEMMA StepTimely ==
  ASSUME [Next]_vars
  PROVE  Timely' <=> Timely
  BY SameScenario, Zenon DEF Timely, Processing, caps

\* That a command lost by a restore was requested again stays so.
LEMMA AgainStays ==
  ASSUME TypeInv, RunInv, [Next]_vars, recovery.again
  PROVE  recovery'.again
  <1>0. recovery \in Recovery
    BY Zenon DEF TypeInv
  <1>1. CASE Request
    <2>1. recovery' = [recovery EXCEPT !.again = recovery.again \/ ext.sent > 0]
      BY <1>1, Zenon DEF Request
    <2> QED
      BY <1>0, <2>1, SMTT(30) DEF Recovery
  <1>2. CASE Restore
    BY <1>0, <1>2, SMTT(30) DEF Restore, Recovery
  <1>3. CASE Ask
    BY <1>0, <1>3, SMTT(30) DEF Ask, Recovery
  <1>4. CASE Apply
    <2>1. PICK c, p : recovery' = [recovery EXCEPT !.asked = {}, !.conclusion = c, !.phase = p]
      BY <1>4, Zenon DEF Apply
    <2> QED
      BY <1>0, <2>1, SMTT(30) DEF Recovery
  <1>5. CASE Open
    BY <1>0, <1>5, SMTT(30) DEF Open, Recovery
  <1>6. CASE Tick
    <2>1. PICK t, f : recovery' = [recovery EXCEPT !.t = t, !.failed = f]
      BY <1>6, Zenon DEF Tick
    <2> QED
      BY <1>0, <2>1, SMTT(30) DEF Recovery
  <1>7. CASE Register \/ Finishes \/ Backup \/ (\E x \in ext.flight : Arrive(x)) \/ UNCHANGED vars
    BY <1>7, Zenon DEF Register, Finishes, Backup, Arrive, vars
  <1>8. CASE Job \/ Crash
    BY <1>8, Zenon DEF Job, process, BeforeSend, Issue, Call, SendReturns, Query, Answered, Crash
  <1> QED
    BY <1>1, <1>2, <1>3, <1>4, <1>5, <1>6, <1>7, <1>8, Zenon DEF Next, Job

\* At every moment what allows at most one effect holds, until a command lost by a restore is requested again.
THEOREM OnceInductive == Spec => [](Timely /\ ~recovery.again => OnceInv)
  <1>1. Init => (Timely => OnceInv)
    BY InitOnce, Zenon
  <1>2. /\ BaseInv /\ (Timely /\ ~recovery.again => OnceInv) /\ [Next]_vars
        => (Timely /\ ~recovery.again => OnceInv)'
    <2>1. BaseInv => TypeInv /\ RunInv
      BY Zenon DEF BaseInv
    <2> QED
      BY <2>1, StepOnce, StepTimely, AgainStays, Zenon
  <1> QED
    BY <1>1, <1>2, Inductive, PTL DEF Spec

\* Whatever the external operation declares and whatever goes wrong, a command takes effect at most once outside until
\* the business requests again one that was sent and that a restore lost (commands.go: Request knows of the row alone), as
\* long as a request is under way for less than the margin of the resend deadline and, where the processing time decides,
\* no run ends between its request and the record of it (state.go: Deadline, resendable, Step; reconcile.go: Match).
THEOREM TakesEffectAtMostOnce == Spec => [](Timely => EffectAtMostOnce)
  <1>1. (Timely /\ ~recovery.again => OnceInv) => (Timely => EffectAtMostOnce)
    BY Zenon DEF OnceInv, ExtInv, EffectAtMostOnce
  <1> QED
    BY <1>1, OnceInductive, PTL

-----------------------------------------------------------------------------
(* The final state is the external system's.                               *)

\* What anyone knows of the external system's record.
Said == {run.answer, ext.record} \cup recovery.asked

\* A step in which every final state is one that was there, or was said, keeps the truth of them all.
LEMMA FinalNext ==
  ASSUME TypeInv, ExtInv, FinalInv, scenario' = scenario, ext'.record = ext.record, ext'.effects = ext.effects, Shut => Shut',
         cmd'.state \in Terminal => cmd'.state \in {cmd.state, backup.cmd.state} \cup Said,
         backup'.cmd.state \in Terminal => backup'.cmd.state \in {cmd.state, backup.cmd.state},
         run'.answer \in Terminal => run'.answer \in Said,
         \A r \in recovery'.asked : r \in Terminal => r \in Said,
         scenario.expires = {} => cmd'.expires = {} /\ backup'.cmd.expires = {} /\ ext'.expires = {},
         ext'.sent = 0 => ext'.expires = {}
  PROVE  FinalInv'
  <1>1. \A s \in {"succeeded", "failed"} : s \in {cmd.state, backup.cmd.state} \cup Said => ext.record = s
    BY Zenon DEF FinalInv, Said
  <1>2. ext.record = "rejected" => scenario.refuses
    BY Numbers, SMTT(30) DEF ExtInv
  <1>3. "rejected" \in Said => scenario.refuses
    BY <1>2, Zenon DEF FinalInv, Said
  <1>4. "rejected" \in {cmd.state, backup.cmd.state} => scenario.refuses \/ (Shut' /\ ext'.effects = 0)
    BY Zenon DEF FinalInv
  <1>5. \A s \in {"succeeded", "failed"} :
          s \in {cmd'.state, backup'.cmd.state, run'.answer} \cup recovery'.asked => ext'.record = s
    BY <1>1, Zenon DEF Terminal
  <1>6. "rejected" \in {run'.answer} \cup recovery'.asked => scenario'.refuses
    BY <1>3, Zenon DEF Terminal
  <1>7. "rejected" \in {cmd'.state, backup'.cmd.state} => scenario'.refuses \/ (Shut' /\ ext'.effects = 0)
    BY <1>3, <1>4, Zenon DEF Terminal
  <1> QED
    BY <1>5, <1>6, <1>7, Zenon DEF FinalInv

\* Every final state that is written is the external system's.
LEMMA FinalStep ==
  ASSUME BaseInv, Timely, OnceInv, Plain, FinalInv, [Next]_vars, ~recovery'.again
  PROVE  FinalInv'
  <1>0. /\ TypeInv /\ RunInv /\ ExtInv /\ AwaitInv /\ ExpiryInv /\ FinalInv
    BY Zenon DEF BaseInv, OnceInv
  <1>a. /\ scenario.expires = {} => cmd.expires = {} /\ backup.cmd.expires = {} /\ ext.expires = {}
        /\ ext.sent = 0 => ext.expires = {}
    BY <1>0, Zenon DEF FinalInv
  <1>b. NoCmd.expires = {} /\ \A s \in Terminal : s \notin {"sending", "unknown", "accepted", "manual", "prepared",
                                                      "retry_wait", "absent", "none", "not_found", "unavailable"}
    BY Zenon DEF NoCmd, Terminal
  <1>1. CASE Request
    <2>1. /\ UNCHANGED <<scenario, run, ext, recovery, backup>> /\ cmd'.state = "prepared" /\ cmd'.expires = scenario.expires
      BY <1>1, <1>0, RequestFresh, Zenon
    <2> QED
      BY <1>0, <1>a, <1>b, <2>1, FinalNext, Zenon DEF Shut, Said
  <1>2. CASE Register
    BY <1>2, <1>0, <1>a, <1>b, RegisterShape, FinalNext, Empty, Zenon DEF Shut, Said
  <1>3. CASE Finishes
    <2>1. /\ UNCHANGED <<scenario, cmd, run, recovery, backup>> /\ ext.record = "accepted" /\ ext'.effects = ext.effects
          /\ ext'.expires = ext.expires /\ ext'.sent = ext.sent
      BY <1>3, <1>0, FinishesShape, Zenon
    <2> QED
      BY <1>0, <2>1, Zenon DEF FinalInv, Shut
  <1>4. CASE Backup
    BY <1>4, <1>0, <1>a, <1>b, BackupShape, FinalNext, Empty, Zenon DEF Shut, Said
  <1>5. CASE Restore
    <2>1. /\ UNCHANGED <<scenario, ext>> /\ cmd' = backup.cmd /\ run' = Idle /\ backup'.cmd = NoCmd /\ recovery'.asked = {}
      BY <1>5, <1>0, RestoreShape, Zenon
    <2> QED
      BY <1>0, <1>a, <1>b, <2>1, FinalNext, Empty, Zenon DEF Shut, Said
  <1>6. CASE Ask
    BY <1>6, <1>0, <1>a, <1>b, AskShape, FinalNext, Empty, Zenon DEF Shut, Said
  <1>7. CASE Apply
    <2>1. PICK record \in recovery.asked : \E c : Reconciled(c) /\
            \/ /\ record # "none" /\ cmd' = set(cmd, record)
            \/ cmd' = [c EXCEPT !.deadline = Deadline(c)]
            \/ \E s \in {"unknown", "manual"} : cmd' = set(c, s)
            \/ cmd' = cmd
      BY <1>7, <1>0, ApplyShape, Zenon
    <2>2. record # "none" => record \in States
      BY <1>0, SMTT(30) DEF TypeInv, Recovery, Optional, Answers, States, Terminal
    <2>3. cmd'.expires = cmd.expires /\ cmd'.state \in {record, cmd.state, "unknown", "manual"}
      BY <1>0, <2>1, <2>2, SetShape, SMTT(30) DEF Reconciled, Cmd, States, TypeInv
    <2>4. UNCHANGED <<scenario, run, ext, backup>> /\ recovery'.asked = {}
      BY <1>7, <1>0, ApplyShape, Zenon
    <2> QED
      BY <1>0, <1>a, <1>b, <2>1, <2>3, <2>4, FinalNext, Zenon DEF Shut, Said
  <1>8. CASE Open
    BY <1>8, <1>0, <1>a, <1>b, OpenShape, FinalNext, Empty, Zenon DEF Shut, Said
  <1>9. CASE Tick
    <2>1. /\ scenario' = scenario /\ ext'.record = ext.record /\ ext'.effects = ext.effects /\ ext'.sent = ext.sent
          /\ ext'.expires = {Sooner(x) : x \in ext.expires} /\ recovery'.asked = recovery.asked
          /\ run'.answer = run.answer
      BY <1>9, <1>0, TickShape, Zenon
    <2>a. cmd' = OlderCmd(cmd) /\ (backup'.cmd = OlderCmd(backup.cmd) \/ backup' = backup)
      BY <1>9, <1>0, TickShape, Zenon
    <2>b. cmd \in Cmd /\ backup.cmd \in Cmd
      BY <1>0, SMTT(30) DEF TypeInv
    <2>2. cmd'.state = cmd.state /\ cmd'.expires = {Sooner(x) : x \in cmd.expires}
      BY <2>a, <2>b, OlderShape, Zenon
    <2>c. OlderCmd(backup.cmd).state = backup.cmd.state
          /\ OlderCmd(backup.cmd).expires = {Sooner(x) : x \in backup.cmd.expires}
      BY <2>b, OlderShape, Zenon
    <2>3. backup'.cmd.state = backup.cmd.state /\ (backup.cmd.expires = {} => backup'.cmd.expires = {})
      BY <2>a, <2>c, Zenon
    <2>4. Shut => Shut'
      BY <1>0, <2>1, SoonerPasses, Zenon DEF Shut, TypeInv, Ext
    <2> QED
      BY <1>0, <1>a, <2>1, <2>2, <2>3, <2>4, FinalNext, Zenon DEF Said
  <1>10. CASE process
    BY <1>10, <1>0, <1>a, <1>b, ProcessShape, FinalNext, Empty, Zenon DEF Shut, Said
  <1>11. CASE BeforeSend
    <2>1. /\ UNCHANGED <<scenario, recovery, backup>> /\ cmd.state = "sending" /\ cmd'.state \in {"sending", "unknown"}
          /\ cmd'.expires = cmd.expires /\ ext'.record = ext.record /\ ext'.effects = ext.effects
          /\ run'.answer \in {run.answer, "none"}
      BY <1>11, <1>0, BeforeSendShape, Empty, Zenon DEF RunInv, SendPhases
    <2>2. ext' = ext \/ (ext'.expires = cmd.expires /\ ext'.sent = ext.sent + 1)
      BY <1>11, <1>0, BeforeSendShape, Zenon
    <2>3. ext.sent # 0 => ext'.expires = ext.expires
      BY <1>0, <2>1, <2>2, Numbers, SMTT(30) DEF ExpiryInv
    <2>4. Shut => Shut'
      BY <1>a, <2>3, Zenon DEF Shut, Passed
    <2>5. ext'.sent = 0 => ext'.expires = {}
      BY <1>0, <1>a, <2>2, Numbers, SMTT(30)
    <2> QED
      BY <1>0, <1>a, <1>b, <2>1, <2>2, <2>4, <2>5, FinalNext, Zenon DEF Said
  <1>12. CASE Issue
    BY <1>12, <1>0, <1>a, <1>b, IssueShape, FinalNext, Empty, Zenon DEF Shut, Said
  <1>13. CASE Call
    BY <1>13, <1>0, <1>a, <1>b, CallShape, FinalNext, Empty, Zenon DEF Shut, Said
  <1>14. CASE SendReturns
    <2>1. PICK class \in {"not_reached", "maybe_reached", "accepted"} \cup Terminal : SendResult(class) /\ Returned(class)
      BY <1>14, <1>0, ReturnShape, Zenon
    <2>2. /\ UNCHANGED <<scenario, backup, recovery>> /\ run.phase = "awaiting"
          /\ ext'.sent = ext.sent /\ ext'.expires = ext.expires /\ ext'.record = ext.record /\ ext'.effects = ext.effects
      BY <1>14, <1>0, ReturnShape, Zenon
    <2>3. cmd'.state = AfterSend(class) /\ cmd'.expires = cmd.expires /\ run' = Idle
      BY <1>0, <2>1, <2>2, ResultRow, Zenon
    <2>4. CASE class = "rejected" /\ UnderWay(run.n) /\ Shut
      <3>1. caps.dedupe = 0
        BY <1>a, <2>4, Zenon DEF Plain, Shut, Passed
      <3>2. ~InWindow(run.row)
        BY <3>1, SMTT(30) DEF InWindow, Windowed
      <3>3. ext.effects = 0
        BY <1>0, <2>2, <2>4, <3>2, Zenon DEF AwaitInv
      <3>4. cmd'.state = "rejected"
        BY <2>3, <2>4, Zenon DEF AfterSend
      <3> QED
        BY <1>0, <2>2, <2>3, <2>4, <3>3, <3>4, Empty, Zenon DEF FinalInv, Shut
    <2>5. CASE class \in {"not_reached", "maybe_reached"} \/ class = ext.record
      <3>1. cmd'.state \in {"retry_wait", "unknown", ext.record}
        BY <1>0, <2>3, <2>5, Zenon DEF AfterSend, TypeInv, Ext, Answers, Terminal
      <3> QED
        BY <1>0, <1>a, <1>b, <2>2, <2>3, <3>1, FinalNext, Empty, Zenon DEF Shut, Said
    <2> QED
      BY <2>1, <2>4, <2>5, Zenon DEF Returned
  <1>15. CASE Query
    BY <1>15, <1>0, <1>a, <1>b, QueryShape, FinalNext, Empty, Zenon DEF Shut, Said
  <1>16. CASE Answered
    BY <1>16, <1>0, <1>a, <1>b, AnsweredShape, FinalNext, Empty, Zenon DEF Shut, Said
  <1>17. CASE Crash
    BY <1>17, <1>0, <1>a, <1>b, FinalNext, Empty, Zenon DEF Crash, Shut, Said
  <1>18. CASE \E x \in ext.flight : Arrive(x)
    <2>1. PICK x \in ext.flight : Arrive(x)
      BY <1>18, Zenon
    <2>2. /\ UNCHANGED <<scenario, cmd, run, recovery, backup>> /\ ~Shut /\ ext'.expires = ext.expires /\ ext'.sent = ext.sent
      BY <1>0, <2>1, ArriveShape, Zenon
    <2>3. ext'.effects <= 1
      BY ExtStep, Zenon DEF ExtInv
    <2>4. ext.record \in {"succeeded", "failed"} => ext'.record = ext.record
      <3>1. SUFFICES ASSUME ext.record \in {"succeeded", "failed"} PROVE ext'.record = ext.record
        BY Zenon
      <3>2. ext.effects = 1 /\ ~scenario.refuses
        BY <1>0, <3>1, Numbers, SMTT(30) DEF ExtInv
      <3>3. ext'.effects # ext.effects + 1
        BY <2>3, <3>2, SMTT(30)
      <3> QED
        BY <1>0, <2>1, <3>2, <3>3, ArriveShape, Zenon
    <2> QED
      BY <1>0, <2>2, <2>4, Zenon DEF FinalInv
  <1>19. CASE UNCHANGED vars
    BY <1>19, <1>0, <1>a, FinalNext, Zenon DEF vars, Shut, Said
  <1> QED
    BY <1>1, <1>2, <1>3, <1>4, <1>5, <1>6, <1>7, <1>8, <1>9, <1>10, <1>11, <1>12, <1>13, <1>14,
       <1>15, <1>16, <1>17, <1>18, <1>19, Zenon DEF Next, Job

\* At every moment what is known of a final state is the external system's.
THEOREM FinalInductive == Spec => [](Timely /\ ~recovery.again /\ Plain => FinalInv)
  <1>1. Init => FinalInv
    <2> SUFFICES ASSUME Init PROVE FinalInv
      BY Zenon
    <2>1. cmd.state = "absent" /\ cmd.expires = {} /\ run.answer = "none"
      BY Zenon DEF Init, NoCmd, Idle
    <2>2. ext.sent = 0 /\ ext.expires = {} /\ recovery.asked = {} /\ backup.cmd = cmd
      BY Zenon DEF Init
    <2> QED
      BY <2>1, <2>2, Zenon DEF FinalInv
  <1>2. ASSUME [Next]_vars PROVE Plain' <=> Plain
    BY <1>2, SameScenario, Zenon DEF Plain, caps
  <1>3. /\ BaseInv /\ (Timely /\ ~recovery.again => OnceInv) /\ (Timely /\ ~recovery.again /\ Plain => FinalInv)
        /\ [Next]_vars
        => (Timely /\ ~recovery.again /\ Plain => FinalInv)'
    <2>1. BaseInv => TypeInv /\ RunInv
      BY Zenon DEF BaseInv
    <2> QED
      BY <1>2, <2>1, StepTimely, AgainStays, FinalStep, Zenon
  <1> QED
    BY <1>1, <1>3, Inductive, OnceInductive, PTL DEF Spec

\* Under the same conditions a final state is the external system's own, where it does not both deduplicate and refuse
\* what has expired: such a system may refuse the resend of a request that took effect, and the command then ends
\* rejected (state.go: Step; commands.go: send, query, Register; reconcile.go: Match).
THEOREM FinalStateIsTrue == Spec => [](Timely /\ Plain => FinalStateTrue)
  <1>1. (~recovery.again => OnceInv /\ FinalInv) => FinalStateTrue
    BY Zenon DEF OnceInv, ExtInv, FinalInv, FinalStateTrue
  <1> QED
    BY <1>1, Inductive, OnceInductive, FinalInductive, PTL

\* Under the same conditions, and as long as no command lost by a restore is requested again, a command is sent again
\* after a "not found" only when the earlier requests are gone or expired, or the external system still takes the two for
\* one (state.go: resendable).
THEOREM ResentOnlyWhenGone == Spec /\ [](Timely /\ ~recovery.again) => ResendOnlyWhenGone
  <1>1. ASSUME BaseInv, OnceInv, [Next]_vars, run.phase = "answered", run'.phase = "claimed"
        PROVE  \/ ext.flight = {} \/ Passed(cmd.expires)
               \/ Deadline(run.row) # {} /\ ~Passed(Deadline(run.row))
    <2>0. TypeInv /\ RunInv /\ NotFoundInv
      BY <1>1, Zenon DEF BaseInv, OnceInv
    <2>1. Answered
      <3>1. process => run.phase = "idle"
        BY <2>0, ProcessShape, Zenon
      <3>2. BeforeSend \/ Issue \/ Call \/ SendReturns \/ Query => run.phase # "answered"
        BY Zenon DEF BeforeSend, Issue, Call, SendReturns, Query
      <3>3. Request \/ Register \/ Finishes \/ Backup \/ Ask \/ Apply \/ (\E x \in ext.flight : Arrive(x)) \/ UNCHANGED vars
              => run' = run
        BY Zenon DEF Request, Register, Finishes, Backup, Ask, Apply, Arrive, vars
      <3>4. Restore \/ Open \/ Crash => run'.phase = "idle"
        BY Empty, Zenon DEF Restore, Open, Crash
      <3>5. Tick => run'.phase = run.phase
        BY <2>0, TickShape, Zenon
      <3> QED
        BY <1>1, <3>1, <3>2, <3>3, <3>4, <3>5, Zenon DEF Next, Job
    <2>2. run.answer = "not_found" /\ run.row.state = "unknown" /\ resendable(run.row) /\ recovery.phase = "normal"
      BY <1>1, <2>0, <2>1, AnsweredShape, Empty, Zenon
    <2>3. run.row.expires = cmd.expires
      BY <1>1, <2>0, <2>2, Zenon DEF RunInv, SameTimes
    <2> QED
      BY <1>1, <2>0, <2>2, <2>3, Zenon DEF resendable, NotFoundInv, Clear
  <1>2. BaseInv /\ OnceInv /\ [Next]_vars =>
          [run.phase = "answered" /\ run'.phase = "claimed" =>
             \/ ext.flight = {} \/ Passed(cmd.expires)
             \/ Deadline(run.row) # {} /\ ~Passed(Deadline(run.row))]_vars
    BY <1>1, Zenon
  <1> QED
    BY <1>2, Inductive, OnceInductive, PTL DEF Spec, ResendOnlyWhenGone
=============================================================================
