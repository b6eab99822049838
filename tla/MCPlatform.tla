----------------------------- MODULE MCPlatform -----------------------------
(***************************************************************************)
(* The platform's components side by side, for TLC.  A behaviour is of one *)
(* component: part says which, and the variables of the others stay off.   *)
(* The scenarios are those of MCScenarios, MCTiering, MCView and MCLists.  *)
(***************************************************************************)
EXTENDS Naturals

CONSTANTS
    Aggs, MaxUnits, MaxMembers, Batch, EraseAttempts, OpSlots,  \* tier
    Workers, PullPage, RecordPage, QuarantineAttempts, MaxDeliver,  \* view
    Lifetime,                                                 \* redelivery
    Callers, MaxAttempts, OutboundLimit, BreakerWindow, BreakerTrialsToClose, BreakerOpenFirst,
    BreakerOpenMax, budgetMax, budgetSuccess, budgetFailure, budgetThreshold,
    Branches, Consumptions, ExpireBatch,                      \* reserve
    Handlers, maxAttempts,                                    \* commands
    Runners, MigrationLockAttempts,                           \* migrate
    AuditRecords, Cycles, RoundBatch, Capacity, DenialBudget, Minutes,  \* trail
    Tightenings, Widenings, TransferBatch,                    \* recovery
    Requests,                                                 \* process
    Asking, WRead, WHigh, CommitWindow,                       \* access
    Verifying, KeyMaxAge, UnknownKIDRefresh, FetchMax,        \* keys
    Limit,                                                    \* lists
    Replicas, Day, Minute,                                    \* cron
    Takers, MemoryMaxDeliver,                                 \* memory
    Advancers, Skew,                                          \* generations
    Question    \* which scenarios: those of the safety run, or those of the liveness run

VARIABLES
    part,       \* the component
    scenario,   \* its scenario
    db, objects, evidence, op, budget, epoch, saved, phase,
    src, wire, view, puller, left, truth, kept, nonces,
    clock, prod, feed, cons, copy, dbEpoch, up, asker, chances,
    dep, call, faults, seen,
    free, branch, used, pending, looking, job, cancelled, failures,
    h, inUse, idleConns, keyRow, last, docs, voided, copies, answers, forgotten, remaining,
    state, applied, lock, run, odds,
    alog, acounter, ownEpoch, ownBackup, abacklog, worker, audit, minute, window, denials, summary, chance,
    rphase, mdb, mbackup, estore, alerts, trail, doing, sending, tool, concluded, idents, luck,
    proc, member, inflight, routed, deadline, mishaps,
    now, authority, older, since, holder, verifying, asked, fate,
    second, issuer, keyset, fetch, verify, ahead,
    table, subject, listing, touched, edits,
    dbNow, cron, slots, cache, rolls,
    bus, durable, times, taker, slips,
    instant, profile, roots, advance, happen,
    outcome

tierVars == <<db, objects, evidence, op, budget, epoch, saved, phase>>
viewVars == <<src, wire, view, puller, left, truth, kept, nonces>>
redeliveryVars == <<clock, prod, feed, cons, copy, dbEpoch, up, asker, chances>>
callsVars == <<dep, call, faults, seen>>
reserveVars == <<free, branch, used, pending, looking, job, cancelled, failures>>
commandsVars == <<h, inUse, idleConns, keyRow, last, docs, voided, copies, answers, forgotten, remaining>>
migrateVars == <<state, applied, lock, run, odds>>
trailVars == <<alog, acounter, ownEpoch, ownBackup, abacklog, worker, audit, minute, window, denials, summary,
        chance>>
recoveryVars == <<rphase, mdb, mbackup, estore, alerts, trail, doing, sending, tool, concluded, idents, luck>>
processVars == <<proc, member, inflight, routed, deadline, mishaps>>
accessVars == <<now, authority, older, since, holder, verifying, asked, fate>>
keysVars == <<second, issuer, keyset, fetch, verify, ahead>>
listsVars == <<table, subject, listing, touched, edits>>
cronVars == <<dbNow, cron, slots, cache, rolls>>
memoryVars == <<bus, durable, times, taker, slips>>
generationsVars == <<instant, profile, roots, advance, happen>>
moneyVars == <<outcome>>
vars == <<part, scenario, tierVars, viewVars, redeliveryVars, callsVars, reserveVars, commandsVars, migrateVars,
          trailVars, recoveryVars, processVars, accessVars, keysVars, listsVars, cronVars, memoryVars,
          generationsVars, moneyVars>>

\* The scenarios of each component, and the component with those the question is asked of.
Cases == INSTANCE MCScenarios
TierCases == INSTANCE MCTiering WITH Scenarios <- {}
ProjCases == INSTANCE MCView WITH Scenarios <- {}
ListCases == INSTANCE MCLists WITH Scenarios <- {}
Of(safety, liveness) == IF Question = "safety" THEN safety ELSE liveness
Asked(cases) == Of(cases.Safety, cases.Liveness)

Tier  == INSTANCE TierReads WITH Scenarios <- Of(TierCases!Safety, TierCases!Liveness)
Proj  == INSTANCE View WITH Scenarios <- Of(ProjCases!Safety, ProjCases!Liveness)
Redel == INSTANCE Redelivery WITH Scenarios <- Asked(Cases!RedelCases)
Call  == INSTANCE Calls WITH Scenarios <- Asked(Cases!CallCases)
Hold  == INSTANCE Reserve WITH Scenarios <- Asked(Cases!HoldCases)
Cmd   == INSTANCE Commands WITH Scenarios <- Asked(Cases!CmdCases)
Migr  == INSTANCE Migrate WITH Scenarios <- Asked(Cases!MigrCases)
Audit == INSTANCE Trail WITH Scenarios <- Asked(Cases!AuditCases), Batch <- RoundBatch
Rec   == INSTANCE Recovery WITH Scenarios <- Asked(Cases!RecCases)
Proc  == INSTANCE Process WITH Scenarios <- Asked(Cases!ProcCases)
Acc   == INSTANCE Access WITH Scenarios <- Asked(Cases!AccCases)
Key   == INSTANCE Keys WITH Scenarios <- Asked(Cases!KeyCases)
List  == INSTANCE Lists WITH Scenarios <- Of(ListCases!Safety, ListCases!Liveness)
Sched == INSTANCE Cron WITH Scenarios <- Asked(Cases!SchedCases)
Mem   == INSTANCE Memory WITH Scenarios <- Asked(Cases!MemCases), MaxDeliver <- MemoryMaxDeliver
Gen   == INSTANCE Generations WITH Scenarios <- Asked(Cases!GenCases)
Amt   == INSTANCE Money WITH Scenarios <- Asked(Cases!AmtCases)

\* What the theorems of PlatformProofs take from the scenarios.
ASSUME TheScenarios == Cmd!CommandsConstants /\ Proc!ProcessConstants

Off == "off"

Init ==
    /\ part \in {"tier", "view", "redelivery", "calls", "reserve", "commands", "migrate", "trail",
                 "recovery", "process", "access", "keys", "lists", "cron", "memory", "generations", "money"}
    /\ IF part = "tier" THEN Tier!Init
       ELSE db = Off /\ objects = Off /\ evidence = Off /\ op = Off /\ budget = Off /\ epoch = Off /\ saved = Off /\
            phase = Off
    /\ IF part = "view" THEN Proj!Init
       ELSE src = Off /\ wire = Off /\ view = Off /\ puller = Off /\ left = Off /\ truth = Off /\ kept = Off /\
            nonces = Off
    /\ IF part = "redelivery" THEN Redel!Init
       ELSE clock = Off /\ prod = Off /\ feed = Off /\ cons = Off /\ copy = Off /\ dbEpoch = Off /\ up = Off /\
            asker = Off /\ chances = Off
    /\ IF part = "calls" THEN Call!Init
       ELSE dep = Off /\ call = Off /\ faults = Off /\ seen = Off
    /\ IF part = "reserve" THEN Hold!Init
       ELSE free = Off /\ branch = Off /\ used = Off /\ pending = Off /\ looking = Off /\ job = Off /\ cancelled = Off /\
            failures = Off
    /\ IF part = "commands" THEN Cmd!Init
       ELSE h = Off /\ inUse = Off /\ idleConns = Off /\ keyRow = Off /\ last = Off /\ docs = Off /\ voided = Off /\
            copies = Off /\ answers = Off /\ forgotten = Off /\ remaining = Off
    /\ IF part = "migrate" THEN Migr!Init
       ELSE state = Off /\ applied = Off /\ lock = Off /\ run = Off /\ odds = Off
    /\ IF part = "trail" THEN Audit!Init
       ELSE alog = Off /\ acounter = Off /\ ownEpoch = Off /\ ownBackup = Off /\ abacklog = Off /\ worker = Off /\ audit = Off /\
            minute = Off /\ window = Off /\ denials = Off /\ summary = Off /\ chance = Off
    /\ IF part = "recovery" THEN Rec!Init
       ELSE rphase = Off /\ mdb = Off /\ mbackup = Off /\ estore = Off /\ alerts = Off /\ trail = Off /\ doing = Off /\
            sending = Off /\ tool = Off /\ concluded = Off /\ idents = Off /\ luck = Off
    /\ IF part = "process" THEN Proc!Init
       ELSE proc = Off /\ member = Off /\ inflight = Off /\ routed = Off /\ deadline = Off /\ mishaps = Off
    /\ IF part = "access" THEN Acc!Init
       ELSE now = Off /\ authority = Off /\ older = Off /\ since = Off /\ holder = Off /\ verifying = Off /\ asked = Off /\
            fate = Off
    /\ IF part = "keys" THEN Key!Init
       ELSE second = Off /\ issuer = Off /\ keyset = Off /\ fetch = Off /\ verify = Off /\ ahead = Off
    /\ IF part = "lists" THEN List!Init
       ELSE table = Off /\ subject = Off /\ listing = Off /\ touched = Off /\ edits = Off
    /\ IF part = "cron" THEN Sched!Init
       ELSE dbNow = Off /\ cron = Off /\ slots = Off /\ cache = Off /\ rolls = Off
    /\ IF part = "memory" THEN Mem!Init
       ELSE bus = Off /\ durable = Off /\ times = Off /\ taker = Off /\ slips = Off
    /\ IF part = "generations" THEN Gen!Init
       ELSE instant = Off /\ profile = Off /\ roots = Off /\ advance = Off /\ happen = Off
    /\ IF part = "money" THEN Amt!Init
       ELSE outcome = Off

\* The components that the behaviour is not of.
OthersStay ==
    /\ UNCHANGED part
    /\ IF part = "tier" THEN TRUE ELSE UNCHANGED tierVars
    /\ IF part = "view" THEN TRUE ELSE UNCHANGED viewVars
    /\ IF part = "redelivery" THEN TRUE ELSE UNCHANGED redeliveryVars
    /\ IF part = "calls" THEN TRUE ELSE UNCHANGED callsVars
    /\ IF part = "reserve" THEN TRUE ELSE UNCHANGED reserveVars
    /\ IF part = "commands" THEN TRUE ELSE UNCHANGED commandsVars
    /\ IF part = "migrate" THEN TRUE ELSE UNCHANGED migrateVars
    /\ IF part = "trail" THEN TRUE ELSE UNCHANGED trailVars
    /\ IF part = "recovery" THEN TRUE ELSE UNCHANGED recoveryVars
    /\ IF part = "process" THEN TRUE ELSE UNCHANGED processVars
    /\ IF part = "access" THEN TRUE ELSE UNCHANGED accessVars
    /\ IF part = "keys" THEN TRUE ELSE UNCHANGED keysVars
    /\ IF part = "lists" THEN TRUE ELSE UNCHANGED listsVars
    /\ IF part = "cron" THEN TRUE ELSE UNCHANGED cronVars
    /\ IF part = "memory" THEN TRUE ELSE UNCHANGED memoryVars
    /\ IF part = "generations" THEN TRUE ELSE UNCHANGED generationsVars
    /\ IF part = "money" THEN TRUE ELSE UNCHANGED moneyVars

Next ==
    \/ part = "tier" /\ Tier!Next /\ OthersStay
    \/ part = "view" /\ Proj!Next /\ OthersStay
    \/ part = "redelivery" /\ Redel!Next /\ OthersStay
    \/ part = "calls" /\ Call!Next /\ OthersStay
    \/ part = "reserve" /\ Hold!Next /\ OthersStay
    \/ part = "commands" /\ Cmd!Next /\ OthersStay
    \/ part = "migrate" /\ Migr!Next /\ OthersStay
    \/ part = "trail" /\ Audit!Next /\ OthersStay
    \/ part = "recovery" /\ Rec!Next /\ OthersStay
    \/ part = "process" /\ Proc!Next /\ OthersStay
    \/ part = "access" /\ Acc!Next /\ OthersStay
    \/ part = "keys" /\ Key!Next /\ OthersStay
    \/ part = "lists" /\ List!Next /\ OthersStay
    \/ part = "cron" /\ Sched!Next /\ OthersStay
    \/ part = "memory" /\ Mem!Next /\ OthersStay
    \/ part = "generations" /\ Gen!Next /\ OthersStay
    \/ part = "money" /\ Amt!Next /\ OthersStay

Spec == Init /\ [][Next]_vars

-----------------------------------------------------------------------------
(* Fairness.                                                               *)

\* A running operation takes its next step or has crashed, the jobs start again and again (a job whose item is taken
\* meanwhile is tried again, hence SF), time passes, backups finish and a recovery goes on.  Reads and calls may not come.
TierFair ==
    /\ \A s \in OpSlots : /\ WF_tierVars(part = "tier" /\ Tier!Running(s))
                        /\ SF_tierVars(part = "tier" /\ Tier!Transfer(s))
                        /\ SF_tierVars(part = "tier" /\ Tier!Release(s))
                        /\ SF_tierVars(part = "tier" /\ Tier!Destroy(s))
                        /\ SF_tierVars(part = "tier" /\ Tier!EraseJob(s))
    /\ WF_tierVars(part = "tier" /\ Tier!Seal)
    /\ WF_tierVars(part = "tier" /\ (\E a \in Aggs : Tier!Settle(a)))
    /\ WF_tierVars(part = "tier" /\ Tier!GracePasses)
    /\ WF_tierVars(part = "tier" /\ Tier!Backup)
    /\ WF_tierVars(part = "tier" /\ Tier!Replay)
    /\ WF_tierVars(part = "tier" /\ Tier!Open)

\* The Run loop steps every second and every call ends; the forwarder and the subscription keep running.
ViewFair ==
    /\ \A w \in Workers : WF_viewVars(part = "view" /\ w \in scenario.workers /\ Proj!WorkerStep(w))
    /\ \A p \in {0, 1} : WF_viewVars(part = "view" /\ p \in scenario.parts /\ (Proj!Forward(p) \/ Proj!Handle(p)))

\* The processes start again, the start-up check goes on and every message has its outcome.
RedeliveryFair ==
    /\ WF_redeliveryVars(part = "redelivery" /\ Redel!Start)
    /\ WF_redeliveryVars(part = "redelivery" /\ Redel!Asks)
    /\ WF_redeliveryVars(part = "redelivery" /\ Redel!Consumes)

\* Goroutines run, attempts end (each has its own timeout) and time passes.
CallsFair ==
    /\ \A c \in Callers : WF_callsVars(part = "calls" /\ Call!Step(c))
    /\ WF_callsVars(part = "calls" /\ Call!Tick)

\* The expiry job is a work item: it runs again until it has done its work.
ReserveFair ==
    /\ WF_reserveVars(part = "reserve" /\ Hold!ExpireLists)
    /\ WF_reserveVars(part = "reserve" /\ Hold!ExpireOne)

\* Handlers run on; statements and lock waits end by their timeouts.
CommandsFair == \A i \in Handlers : WF_commandsVars(part = "commands" /\ Cmd!Step(i))

\* The work runner starts the job again and again (work/runner.go), and a round ends or fails by its deadline.
TrailFair == \A w \in Cycles \cup {"read"} : WF_trailVars(part = "trail" /\ Audit!Cycle(w))

\* A request goes on to its end, the loops run every few seconds, and the tool works through its steps.
RecoveryFair ==
    /\ \A t \in Tightenings : WF_recoveryVars(part = "recovery" /\ Rec!Evidence(t))
    /\ WF_recoveryVars(part = "recovery" /\ (Rec!Transfer \/ Rec!Append_ \/ Rec!Settle))
    /\ WF_recoveryVars(part = "recovery" /\ Rec!AuditCycle)
    /\ WF_recoveryVars(part = "recovery" /\ Rec!Recovering)

\* The process runs, the platform probes, time passes, and a handler whose context is cancelled ends.
ProcessFair ==
    /\ WF_processVars(part = "process" /\ Proc!Main)
    /\ WF_processVars(part = "process" /\ Proc!Deadline)
    /\ \A m \in Proc!Members :
        /\ WF_processVars(part = "process" /\ Proc!submitUntilAccepted(m))
        /\ WF_processVars(part = "process" /\ Proc!Probe(m))
        /\ WF_processVars(part = "process" /\ (Proc!StopSubs(m) \/ Proc!StopMember(m)))
        /\ \A what \in {"jobs", "events"} :
            WF_processVars(part = "process" /\ proc.bg = "cancelled" /\ Proc!Give(m, what))

\* The holder verifies every Interval, the authority's sources come back, and an operator answers a stopped view.
AccessFair ==
    /\ WF_accessVars(part = "access" /\ Acc!Verify)
    /\ WF_accessVars(part = "access" /\ Acc!Tick)
    /\ WF_accessVars(part = "access" /\ Acc!SourceFresh)
    /\ WF_accessVars(part = "access" /\ Acc!Respond)

\* Fetches end, the loop goes on, and requests run.
KeysFair ==
    /\ \A f \in Key!Fetchers : /\ WF_keysVars(part = "keys" /\ Key!Read(f))
                               /\ WF_keysVars(part = "keys" /\ Key!Store(f))
    /\ \A r \in Verifying : WF_keysVars(part = "keys" /\ (Key!Look(r) \/ Key!Resolve(r)))

\* The scheduling loop runs every second.
CronFair ==
    /\ WF_cronVars(part = "cron" /\ Sched!TimePasses)
    /\ \A r \in Replicas : WF_cronVars(part = "cron" /\ Sched!schedule(r))

\* Workers take what they can, handlers return, pauses end, and a stopped subscription is taken up again.
MemoryFair ==
    /\ WF_memoryVars(part = "memory" /\ Mem!Subscribe)
    /\ WF_memoryVars(part = "memory" /\ Mem!Resubscribe)
    /\ \A w \in Takers : /\ WF_memoryVars(part = "memory" /\ (Mem!Take(w) \/ Mem!Sweep(w)))
                         /\ WF_memoryVars(part = "memory" /\ Mem!Ack(w))
    /\ WF_memoryVars(part = "memory" /\ (\E p \in times.paused : Mem!PauseEnds(p)))

FairSpec ==
    /\ Spec
    /\ TierFair /\ ViewFair /\ RedeliveryFair /\ CallsFair /\ ReserveFair /\ CommandsFair /\ TrailFair
    /\ RecoveryFair /\ ProcessFair /\ AccessFair /\ KeysFair /\ CronFair /\ MemoryFair
-----------------------------------------------------------------------------
(* Safety.  Each conjunct is stated, with its reason, in its module.       *)

\* The archive's promises, over workers, readers and jobs that meet, crash or come late, and over a database that goes
\* back (tiering): a read by key answers what was last written, erased or destroyed, wherever the rows are; a Get answers
\* one state of its aggregate; a history lists every aggregate once while units move; no export hands out what was
\* erased; the online rows agree with the catalog; a copy that nothing replaced is in its store; and an erasure or a
\* destruction on the evidence record is in force again after a recovery.
ArchiveHolds == part = "tier" =>
    /\ Tier!ReadsAsWritten /\ Tier!GetIsWhole /\ Tier!HistoryIsComplete /\ Tier!ExportsForgetErased
    /\ Tier!OnlineMatchesCatalog /\ Tier!UnsupersededCopiesAreThere /\ Tier!EvidenceInForce

\* The tiers implement Archive: no step of any worker, reader, job or clock, stale and crashed ones included, changes
\* what a read by key answers, other than a write, an erasure, a destruction or the database going back.
Promise == INSTANCE Archive WITH
    content <- IF part = "tier" THEN Tier!Content ELSE [a \in Aggs |-> "one"],
    closed  <- IF part = "tier" THEN Tier!Closed ELSE {},
    epoch   <- IF part = "tier" THEN epoch ELSE 1
ImplementsArchive == Promise!Spec

\* What follows a source is never taken for more than it is.  What a projection lets a decision rely on was so at its
\* source at the watermark or later, a source found rolled back is not followed until its recovery generation has
\* passed, and an aligned projection that has handled everything is its source (projection).  What a consumer
\* acknowledged and then lost with its database comes back, or is on record, when the producer can be asked (events,
\* redelivery).  An ordered durable delivers in order (events, memory).  An authorization view in use is never older
\* than one a request was decided on (authz).
CopiesFollow ==
    /\ part = "view" => Proj!JudgedIsFresh /\ Proj!StalledUntilAdvanced /\ Proj!SettledMatchesSource
    /\ part = "redelivery" => Redel!LostIsRedelivered
    /\ part = "memory" => Mem!MemoryInOrder
    /\ part = "access" => Acc!NeverGoesBack

\* What is repeated takes effect once.  A command runs once per key while its record is kept, and an answer is a committed
\* outcome of that very request, on a connection that carries no setting of another (idem, db).  A consumption takes its
\* amount off once, and a cancelled branch holds nothing, also when its hold comes afterwards (reserve).  The recorded
\* migration state tells what was applied, whoever crashes (db/migrate).  No slot of a schedule is lost or made twice over
\* changes of zones and clocks (work/cron).  A call refused before sending sent nothing, and while nothing succeeds the
\* callers together start a bounded number of retries (calls).
EffectsHappenOnce ==
    /\ part = "commands" => Cmd!OncePerKey /\ Cmd!AnswersAreOwn /\ Cmd!ConnectionsAreClean
    /\ part = "reserve" => Hold!ConsumedOnce /\ Hold!CancelledHoldsNothing
    /\ part = "migrate" => Migr!StateTellsApplied
    /\ part = "cron" => Sched!NoSlotIsLost /\ Sched!SlotsOnce
    /\ part = "calls" => Call!RefusedIsUnsent /\ Call!RetriesAreBounded

\* What is counted adds up: free, held and consumed stock is the whole stock (reserve), a continuous series has neither
\* gaps nor duplicates (db, NextNumber), the parts of a split sum to the total and are the nearest to the shares, and
\* rounding goes to the nearest amount or cash unit (money).
QuantitiesAddUp ==
    /\ part = "reserve" => Hold!StockAdds
    /\ part = "commands" => Cmd!NoGaps
    /\ part = "money" => Amt!SplitIsExactAndFair /\ Amt!RoundsToNearest

\* What must be on record stays there, over databases that go back.  A record deleted by the member is in the audit
\* component's latest backup, an epoch's sequence has no gap, and the denials of a minute are all counted (audit).  A kept
\* tightening is in effect again or held for review, is applied once, its conclusion is not lost, a number seen is not
\* given to another document, and the losses reported are exactly the losses (evidence, recovery).  A recovery
\* generation goes beyond every value there was when its advance began, and what a revoked credential wrote moves none on
\* (runprofile).
RecordsSurvive ==
    /\ part = "trail" => Audit!DeletedIsBackedUp /\ Audit!NumbersHaveNoGaps /\ Audit!DenialsAreCounted
    /\ part = "recovery" => /\ Rec!TighteningsSurvive /\ Rec!AppliedOnce /\ Rec!EvidenceIsKept
                            /\ Rec!NumbersAreNotReused /\ Rec!ReportIsExact
    /\ part = "generations" => Gen!GenerationsGrow /\ Gen!RevokedCountsNot

\* A process stops from the outside in (host, StopAll): what the platform still routes to listens, a request in progress
\* keeps what it uses until the stop timeout, a job or an event in hand ends with its connections open, and the process
\* exits with 0 only when nothing was cut or left.
StopsInOrder == part = "process" => Proc!StopsInOrder

\* A list is what the decisions on its records say (authz, list): its SQL and Evaluate agree on every row, an unknown
\* decision is unknown for a reason, paging shows every row that stays once and in order, a filter tells nothing of
\* rows whose field is not readable, and the pages are read under one authorization.
ListsAreExact == part = "lists" =>
    /\ List!ListMatchesDecision /\ List!UnknownIsSound /\ List!EachRowOnce /\ List!FilterRevealsNothing
    /\ List!OneAuthorization

\* No step uses what has ended: a revoked right past its validity and the commit window, however long the machine
\* slept, or for a high-risk write stale sources (authz), the token of a key withdrawn longer ago than KeyMaxAge and a
\* fetch (identity), the result of a trial sent before the breaker last opened (calls), or a message that was
\* acknowledged or given up (events, memory).
EndedIsNotUsed == [][
    /\ part = "access" => Acc!RevokedInTime /\ Acc!HighRiskIsFresh
    /\ part = "keys" => Key!WithdrawnIsRefused
    /\ part = "calls" => Call!ClosesAfterTrials
    /\ part = "memory" => Mem!MemoryEndsOnce]_vars

-----------------------------------------------------------------------------
(* Liveness: what holds in the end, for good, once the faults of a scenario *)
(* are used up.                                                            *)

\* Where the jobs run on, a due aggregate has left the online tables for its route, whatever first blocked its sealing
\* and whichever worker crashed (SealDue, TransferJob, ReleaseJob).
DueIsArchived == part = "tier" /\ scenario.jobs /\ scenario.start = "online" => \A a \in Aggs : Tier!Archived(a)
\* Nothing of a destroyed unit is left, also what a worker that did not know yet wrote meanwhile (purge, PurgeAgain).
DestroyedIsPurged ==
    part = "tier" /\ scenario.jobs => \A u \in Tier!Units : db.unit[u].state = "destroyed" => ~Tier!Traces(u)
\* An erasure replayed by a recovery is redone (replayErasure, EraseJobOf).
ReplayedIsRedone == part = "tier" => phase = "open" /\ db.redo = {}
\* No hold is past its period, whatever the coordinator does (ExpireDue).
HoldsEnd == part = "reserve" => Hold!Due = {}
\* Each slot due has its item: a runner that waits for its next slot does not sleep past one (nextSlot).
DueSlotsRun == part = "cron" => Sched!AllSlotsRun
\* Every message that matches is acknowledged or given up, over late handlers and stops (next, fill).
MemoryDelivers == part = "memory" => Mem!AllEnded

\* A watermark projection whose source keeps answering is proven fresh, and by the source's last contents.
EventuallyFresh == part = "view" => Proj!ProvenFresh
\* A consumer whose database went back has settled, however often the producer failed to answer first (Run).
SettlesAgain == part = "redelivery" => cons.epoch = dbEpoch
\* Once the dependency answers again and callers keep calling, the breaker is closed: no lost trial slot keeps it half
\* open (Breaker.End).
Recovers == part = "calls" => dep.state = "closed"
\* Every record that is still here, and not refused, is in the audit component, and audited operations refused for the
\* backlog are admitted again (Purge, Drain, Backlog).
StoredInTheEnd == part = "trail" => Audit!AllStored /\ abacklog < Capacity
\* The member has a usable authorization view (Run, apply).
ViewRecovers == part = "access" => Acc!Usable(holder.shard)
\* The keys held are the issuer's, once it stops changing them (loop, refresh).
KeysAreFollowed == part = "keys" => keyset.kids = issuer.kids

\* What follows another component catches up with it after faults: projections, consumers after a recovery, the circuit
\* breaker, the audit trail, the authorization view and the token keys.
CatchesUp == <>[](EventuallyFresh /\ SettlesAgain /\ Recovers /\ StoredInTheEnd /\ ViewRecovers /\ KeysAreFollowed)

\* Every handler came back, also when the failure hooks open a transaction while the budget is used up (run gives the
\* budget back before the hooks).
HandlersEnd == part = "commands" => \A i \in Handlers : h[i].at = "idle"
\* A recovery that began has ended with the member open (the loops of the recovery phases).
RecoveryEnds == part = "recovery" => rphase = ""
\* A process told to stop has exited, whatever runs (StopAll).
StopEnds == part = "process" /\ proc.signal => proc.pc = "exited"
\* A started member has its authorization view, also when its definitions were refused at first (submitUntilAccepted).
DefinitionsAreAccepted ==
    part = "process" => \A m \in Proc!Members : member[m].parts # {} =>
        "holder" \in member[m].parts \/ proc.signal \/ proc.pc = "exited"
\* Every verification ended, also one that waited for another's refresh that failed (keyfunc, inflight).
VerificationsEnd == part = "keys" => \A r \in Verifying : verify[r] \in {"idle", "accepted", "unknown", "unavailable"}

\* Work ends: what the background loops have to do gets done (archive jobs, expiry of reservations, the scheduler, the
\* in-memory transport), over crashes, holds, restores and late handlers, and whatever began ends (handlers,
\* verifications, recoveries, the stop of a process and the start of a member).
WorkEnds == <>[](
    /\ DueIsArchived /\ DestroyedIsPurged /\ ReplayedIsRedone /\ HoldsEnd /\ DueSlotsRun /\ MemoryDelivers
    /\ HandlersEnd /\ RecoveryEnds /\ StopEnds /\ DefinitionsAreAccepted /\ VerificationsEnd)
=============================================================================
