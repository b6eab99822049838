-------------------------------- MODULE Cron --------------------------------
(***************************************************************************)
(* Scheduled jobs: the slots of a schedule in a zone whose offset changes   *)
(* (work/cron.go) and the runners of several replicas that turn the due     *)
(* ones into work items under the job's watermark (work/runner.go).         *)
(*                                                                         *)
(* An instant is a natural number of time units and a wall time an integer  *)
(* of the same unit, Day units to a day; a zone has an offset before and    *)
(* after one change, forward or back.  Parsing is left out: a schedule is   *)
(* its sets of hours, days of the month and days of the week.  Minute is    *)
(* the minute of the policy "none", in units.                               *)
(***************************************************************************)
EXTENDS Integers, FiniteSets, FiniteSetsExt

CONSTANTS
    Replicas,       \* the runners
    Day,            \* units in a day
    Minute,         \* how late a slot may be under "none"
    Scenarios       \* schedule, zone, policy, backlog, until when the clock runs, and the faults

VARIABLES
    scenario,
    dbNow,          \* the database's clock
    cron,           \* the job's watermark, and the first one; -1 before there is one
    slots,          \* the work items of slots: their state, and how often each was inserted
    cache,          \* per runner: the next slot, the skew seen, and its own clock's error
    rolls           \* faults still to come

cvars == <<scenario, dbNow, cron, slots, cache, rolls>>

Schedule == scenario.schedule

-----------------------------------------------------------------------------
(* cron.go.                                                                *)

\* The wall clock of an instant.
WallOf(t) == t + IF t < scenario.zone.at THEN scenario.zone.before ELSE scenario.zone.after

\* The instants of a wall time, one offset after another.
Occurrences(w) == {t \in {w - scenario.zone.before, w - scenario.zone.after} : WallOf(t) = w}

\* Its first occurrence, or in a gap the first instant after the jump.
wallInstant(w) == IF Occurrences(w) # {} THEN Min(Occurrences(w)) ELSE scenario.zone.at

DayOf(w) == w \div Day

\* Days of the month and of the week: either when both are restricted. A week has two days here and a month three.
DayMatches(d) ==
    LET dom == (d % 3) \in Schedule.doms dow == (d % 2) \in Schedule.dows IN
    IF Schedule.doms # 0 .. 2 /\ Schedule.dows # 0 .. 1 THEN dom \/ dow ELSE dom /\ dow

WallTimes(d) == {d * Day + h : h \in Schedule.hours}

\* The days looked at for (after, until]: those around it too, for the zone's change.
Days(after, until) == {d \in DayOf(WallOf(after)) - 1 .. DayOf(WallOf(until)) + 1 : DayMatches(d)}

\* The wall times whose instant is in (after, until].
Slots(after, until) ==
    {w \in UNION {WallTimes(d) : d \in Days(after, until)} : after < wallInstant(w) /\ wallInstant(w) <= until}

\* Next: day by day, as far as a horizon.
NextSlot(after) ==
    LET found == {k \in 0 .. 2 : Slots(after + Day * k, after + Day * (k + 1)) # {}} IN
    IF found = {} THEN scenario.until + Day
    ELSE Min({wallInstant(w) : w \in Slots(after + Day * Min(found), after + Day * (Min(found) + 1))})

\* The place of a slot among the due ones: by instant, and of one instant by wall time.
Place(w, due) ==
    Cardinality({x \in due : wallInstant(x) < wallInstant(w) \/ (wallInstant(x) = wallInstant(w) /\ x <= w)})

\* Which due slots become items, by policy; under "all" the ones past the backlog are paused (backlog_exceeded).
Plan(due, now) ==
    CASE scenario.policy = "all" -> due
      [] scenario.policy = "none" -> {w \in due : now - wallInstant(w) <= Minute}
      [] OTHER -> {w \in due : Place(w, due) = Cardinality(due)}

State(w, due) == IF scenario.policy = "all" /\ Place(w, due) > scenario.backlog THEN "paused" ELSE "pending"

-----------------------------------------------------------------------------
(* runner.go: schedule, materialize.                                       *)

NotSeen == [next |-> -1, skew |-> 0, error |-> 0]

\* Before the next slot, by its own clock and the skew last seen, a runner opens no transaction.
Looks(r) == cache[r].next < 0 \/ dbNow + cache[r].error + cache[r].skew >= cache[r].next

Inserted(planned, due) ==
    [w \in DOMAIN slots \cup planned |->
        IF w \notin DOMAIN slots THEN [state |-> State(w, due), times |-> 1]
        ELSE IF w \in planned /\ slots[w].state = "purged" THEN [state |-> State(w, due), times |-> slots[w].times + 1]
        ELSE slots[w]]

\* One transaction, the watermark locked: insert the planned slots, each once, and move the watermark.
schedule(r) ==
    LET wm == IF cron.watermark < 0 THEN dbNow ELSE cron.watermark IN
    /\ Looks(r)
    /\ \E due \in {Slots(wm, dbNow)} : \E mark \in {Max({wm} \cup {wallInstant(w) : w \in due})} :
        /\ slots' = Inserted(Plan(due, dbNow), due)
        /\ cron' = [watermark |-> mark, first |-> IF cron.watermark < 0 THEN dbNow ELSE cron.first]
        /\ cache' = [cache EXCEPT ![r] = [@ EXCEPT !.next = NextSlot(mark), !.skew = -cache[r].error]]
    /\ UNCHANGED <<scenario, dbNow, rolls>>

\* The item of a slot ended and was purged.
PurgeSlot(w) ==
    /\ slots[w].state = "pending"
    /\ slots' = [slots EXCEPT ![w].state = "purged"]
    /\ UNCHANGED <<scenario, dbNow, cron, cache, rolls>>

-----------------------------------------------------------------------------
(* Clocks, and runners that stop for a time.                               *)

Rolls(what) == rolls[what] > 0 /\ rolls' = [rolls EXCEPT ![what] = @ - 1]

TimePasses ==
    /\ dbNow < scenario.until
    /\ dbNow' = dbNow + 1
    /\ UNCHANGED <<scenario, cron, slots, cache, rolls>>

\* Another database server, with a clock behind.
ClockBack ==
    /\ dbNow > 0 /\ Rolls("back")
    /\ dbNow' = dbNow - 1
    /\ UNCHANGED <<scenario, cron, slots, cache>>

OwnClock(r, error) ==
    /\ cache[r].error = 0 /\ Rolls("own")
    /\ cache' = [cache EXCEPT ![r].error = error]
    /\ UNCHANGED <<scenario, dbNow, cron, slots>>

Restart(r) ==
    /\ Rolls("restart")
    /\ cache' = [cache EXCEPT ![r] = [NotSeen EXCEPT !.error = cache[r].error]]
    /\ UNCHANGED <<scenario, dbNow, cron, slots>>

Init ==
    /\ scenario \in Scenarios
    /\ dbNow = scenario.from
    /\ cron = [watermark |-> -1, first |-> -1]
    /\ slots = <<>>
    /\ cache = [r \in Replicas |-> NotSeen]
    /\ rolls = scenario.rolls

Next ==
    \/ TimePasses \/ ClockBack
    \/ \E r \in Replicas : schedule(r) \/ OwnClock(r, 1) \/ OwnClock(r, -1) \/ Restart(r)
    \/ \E w \in DOMAIN slots : PurgeSlot(w)

Spec == Init /\ [][Next]_cvars

-----------------------------------------------------------------------------
(* Properties.                                                             *)

\* Every wall time of the schedule whose instant has come since the job was first seen, up to the watermark.
Came ==
    {w \in WallOf(cron.first) - Day .. WallOf(cron.watermark) + Day :
        /\ DayMatches(DayOf(w)) /\ w % Day \in Schedule.hours
        /\ \E t \in cron.first + 1 .. cron.watermark :
            /\ WallOf(t) >= w
            /\ \A x \in -Day .. t - 1 : WallOf(x) < w}

\* Under "all" every wall time of the schedule gets a work item, over a change of the zone, a restart or a clock that
\* goes back, and under "latest" the last one of every look does (Slots, Plan, materialize).
NoSlotIsLost ==
    cron.watermark >= 0 =>
        CASE scenario.policy = "all" -> Came \subseteq DOMAIN slots
          [] scenario.policy = "latest" -> \A w \in Came : wallInstant(w) = cron.watermark => \E x \in DOMAIN slots : x >= w
          [] OTHER -> TRUE

\* A slot becomes a work item once, also after its item was purged (the watermark).
SlotsOnce == \A w \in DOMAIN slots : slots[w].times = 1

\* Every slot due by the end of the time modelled has its item.
AllSlotsRun == cron.first >= 0 /\ Slots(cron.first, scenario.until) \subseteq DOMAIN slots
=============================================================================
