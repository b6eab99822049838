# A TLA+ verification of be-sdk-go

be-sdk-go is the runtime a *member* (a component of a business system) is built on: transactions, background
work, events, outbound calls, external commands, reservations, data tiering, audit and recovery, all on one
PostgreSQL database per member. This directory holds TLA+ models of its protocols, the TLC runs that check them on
small instances, and TLAPS proofs of what they promise for every instance. File and line references are to `src/`.

Every part of the SDK that keeps protocol state has a module. The work runner, the outbox, the queue and external
commands have runs of their own; the outbox and the queue are composed; the archive tiers and the composed events
implement abstract specifications; seventeen more components are checked by the two platform runs. The safety of the
work runner, the outbox, the queue, their composition, external commands, idempotent commands and the stop of a process
is proved for every instance.

## 1. The system and its parts

A member's business code runs in database transactions (`db`). What must happen after a commit is written in the same
transaction as a row and carried out later:

- a **work item** (`work`) is claimed by one of the member's replicas under a lease and an epoch, and its handler
  commits its effect together with the item's end;
- an **event** (`events`) is inserted into the outbox, numbered and published by a forwarder, stored by a transport
  (the PostgreSQL queue, NATS or memory), delivered under a lease to a consumer of another member, and applied there
  together with an inbox row;
- an **external command** (`extcmd`) is sent to a foreign system, queried when its result is not known, and ends
  with a person when neither helps;
- a **reservation** (`reserve`) is held, confirmed, consumed, cancelled or expired by a coordinator's commands.

Replicas stop, stall and die at any point; the database fails over, and is restored to an earlier state, which
raises its *database epoch* (`be_current_db_epoch()`).

| part | state | operations | what is hard | what must hold | modelled by |
|---|---|---|---|---|---|
| `work` | `be_work_item` (state, epoch, database epoch, attempts, lease, progress, `outcome_unknown`), the runs in memory | enqueue, claim, renew, BeforeCall, Checkpoint, Complete, the verdict on an error, stop; operators requeue, resolve, hold; purge | a worker that lost its item goes on; a process dies around an external call; failover and restore reuse epochs; operator actions in any order | one holder; one effect; segments in order; an external call at most once; items end | WorkItems |
| `work` cron | the watermark of a job, its items, each runner's cached next slot | slots of a schedule between two instants, materialise | daylight saving, missed slots after a pause, clocks that disagree or go back | each slot once, none lost | Cron |
| `events` producer | `be_outbox`, `be_outbox_partition`, `be_epoch_history`, leases | emit, number, publish, mark, purge, redeliver, read by cursor | commits out of order, overlapping forwarders, partial batches, rewinds, purges under readers | contiguous causal positions, order on the bus, no row forgotten, right verdicts | Outbox |
| `events` queue and consumer | `be_bus_message`, `be_bus_subscription`, `be_bus_delivery`, `be_inbox`, `be_dead_letter` | publish, advance, claim, settle, give up, purge, process, dead letter | inserts that commit out of order, stalled handlers, crashes, retries at the limit | nothing skipped, one effect, order, an end for every event | Delivery, Pipeline, EventFlow |
| `events` redelivery | inbox, run starts, the consumer's epoch, gaps | start-up check, progress, request, settle | a rewind of the consumer while the transport forgot what it acknowledged | what was lost comes back or is on record | Redelivery |
| `events` memory transport | log, ready queue, in flight | publish, take, settle, sweep, stop | late outcomes, stops | order, one end per message | Memory |
| `projection`, `events` watermark and records | projected rows with versions, positions, echoes, quarantine, the source's identity | apply, pull, align, repair, judge | alignment against concurrent events; the source fails over, is restored or reinstalled; two replicas | what is judged usable was so at the source; no following of a lost branch | View, ProjectionTables |
| `idem`, `db` transactions and numbers | `be_idempotency`, `be_doc_series`, budget, pooled connections | claim a key, replay, refuse, clean up; number; commit, retry, hooks | two callers at once, lost commit answers, expiry under a claim | one execution per key, no gaps, clean connections | Commands |
| `db` migrations | state table, lock | apply, fail, reset | two releases at once, crashes | the state tells what was applied | Migrate |
| `reserve` | `be_reserve_branch`, `be_reserve_consumption` | hold, confirm, cancel, consume, query, expire | commands lost, repeated and reordered; expiry against confirm | resources conserved, a tombstone wins | Reserve |
| `extcmd` | `be_external_command`, attempts | request, claim, send, query, register, reconcile | late results after a lost lease, resend windows, restores | at most one effect outside; final states are true and stay; every command ends | ExtCmd |
| `calls` | breaker, budget, limit per dependency | start, end, retry | late results across breaker states | trials decide, bounded retries, honest refusals | Calls |
| `audit` | `be_audit_log`, counter, denial budget | write, read, number, transfer, delete | the audit component or the member is restored; two rounds | nothing deleted before it is safe; numbers and counts complete | Trail |
| `evidence`, `recovery` | evidence outbox, history, the stores, document numbers, phases | intent, conclude, transfer, replay, advance numbers, report | a restore behind changes that must stay; lost answers | tightenings survive, once; numbers are not given twice | Recovery |
| `tiering` | `be_tier_unit` with generation and epoch, manifests, holds, objects | seal, transfer, release, reroute, erase, destroy, read, export, thaw | stale workers, readers over moving units, restores | a read answers what was last written, wherever it is | Tiering, TierPlan, TierReads, Archive |
| host, launcher, shell | life cycle of a process and its members | build, serve, submit, stop | a stop races everything | order of the stop, honest exit code | Process |
| `authz` view, `guard` | the held view with its validities | verify, accept, admit, check, commit | late answers, lagging replicas, suspended machines | a revoked right ends in time | Access |
| `identity` keys | the key set | refresh, look up, wait | crossing and failing fetches | a withdrawn key ends in time | Keys |
| `authz` decisions, `list` | rows, segments, cursors | evaluate, compile, page | NULLs, patterns, changes between pages | the list is the decision; each row once | Entitlement, Lists |
| `runprofile` | signed records, roots | advance, rotate, revoke | CAs rotated and revoked between the reads of one advance | a generation goes beyond those there were | Generations |
| `money` | none | read, round, allocate | remainders and halves | exact sums, nearest values | Money |
| `config`, `errs`, `canon`, `records`, `bizdate`, `grpcx`, `obs`, JetStream adapter, tools | text, encodings, wrappers | | | | not modelled |

`PROJECT.json` lists every component with its files, and the hazards with the line where each bites.

## 2. Modelling conventions

- A database transaction is one atomic action, unless the model is about its inside (the queue's inserts). A process that
  acts between two transactions takes separate steps, so that everything else interleaves.
- Time is not counted unless a property is about it (ExtCmd, Redelivery, Access, Keys, Cron, Generations). A lease runs out,
  a backoff ends, a retention passes as an action of its own, at any moment the code's ordering allows.
- Faults (a crash, a failed statement, a failover...) are actions that spend from a budget. The rest of the code runs freely
  around them.
- `scenario` is a variable chosen in `Init` and never changed: it fixes what kind of job, subscription or deployment a
  behaviour is about and which faults it meets. One run then covers several instances, each with the faults that matter to
  it; its state count is the sum, not the product.
- What an operation reads before it locks, and what it does between two transactions or around a call, are separate steps,
  so a decision made on what was read is made while others act.
- A restore or a failover is a copy of the database taken earlier that comes back with a higher epoch; stores outside the
  database do not go back with it.
- Data is abstract: an event is a number, an effect a counter, a payload nothing at all.
- Definitions called "Mutation of X" are plausible bugs in X. They are used by no specification; each one is there to show
  that a property notices it.

## 3. Modules

### WorkItems (`work/runner.go`, `run.go`, `operator.go`, `job.go`)

`rows` is `be_work_item`; `run` is what each worker holds of its claim (`work.Run`); `happened` counts the external
calls that took effect, which no table knows; `dbEpoch` and `backup` are the database's own life. One action per
operation: `Enqueue`, `claim` (with the takeover of expired leases and the pause of items whose call may have been
sent), `Renew`, `BeforeCall`, `ExternalCall`, `Checkpoint`, `Complete`, `HandlerFails` (the verdict of `fail` with its
separate read), `HandlerReturns`, `StopRun`, `Crash`, `Requeue`, `Resolve`, `Hold`, `Purge`, `Recover`. Every commit of
a run goes through `exec`, whose `Guard` compares the item's state, its epoch and the database epoch of the claim.

### Outbox (`events/producer.go`, `number.go`, `forwarder.go`, `resend.go`, `readafter.go`, `progress.go`)

One partition. `rows` is `be_outbox` by `ord`, including rows whose transaction is still open and, as a trace, purged
ones; `counter` is `be_outbox_partition`; `history` is `be_epoch_history`; `bus` is what a transport stored, in order
and without repeated event IDs. A forwarder goes `TakeLease`, `NumberAndRead` (one transaction), `Publish` once per
row, `Mark`; `PublishFails` includes the case that the event was stored and only the answer was lost. `Purge`,
`ResendAsked`, `ResendBatch` and `Recover` run at any point. `Resets` is the verdict of `ReadAfter`, `Ahead` and
`Beyond` those of `judge`.

### Delivery (`events/pgqueue/pgqueue.go`, `consumer.go`, `transport.go`)

One durable subscription that matches every message. A publishing insert is three steps (`Begin`, `Insert`, `Commit`)
because the read position relies on transaction IDs and snapshots; a worker goes `claim` or `claimNothing` then
`advance`, runs the consumer (`ProcessOK`, `ProcessFails`, `deadLetter`) and ends with `settle`. `giveUp` deletes
exhausted deliveries. `effects` is the order in which business data was written, which no table records. A scenario has the
limit of deliveries the consumer declares (`declared`), which need not be the one stored with the durable (`MaxDeliver`).

### Pipeline and EventFlow

`Pipeline` composes the two: `INSTANCE Outbox` and `INSTANCE Delivery`, with a forwarder's `Publish` joined to the
insert's `Commit`. `EventFlow` is the abstract specification of events, with one variable for how far each event is
and one for what may have caused it. `Pipeline` maps `stage` to the inbox, the dead letters and the outbox row, and
`causes` to what was committed when the event was emitted; it implements `EventFlow`.

### ExtCmd (`extcmd/state.go`, `commands.go`, `reconcile.go`, `reconcileserver.go`)

One command and the singleton job that works on it. `cmd` is the row with its unfinished attempts, `run` what a run of
the job holds in memory (the row as `load` read it is used until the result's transaction, as in the code), `ext` the
external system: its record of the reference, when it last counted the reference as used, and the requests under way.
Its requests carry the command's expiry, which it honours (`ext.expires`). `Step`, `Deadline`, `resendable`, `set`,
`earliest` and `Match` keep their names. `process`, `BeforeSend`, `Issue`,
`Call`, `SendReturns`, `Query` and `Answered` are the steps of the job between its transactions and calls; `Ask` and
`Apply` are the two halves of `Reconcile`, which run beside the query-only loop of the verifying phase. `recovery.again`
remembers that a command was requested again after a restore lost it, although it had been sent.

Here time matters, so it is modelled: a tick stands for a stretch longer than any backoff, times are ages up to
`MaxAge` and deadlines are ticks left, so that behaviours go on for ever with finitely many states. The assumptions
about the outside are that the declared capabilities are true (window, processing time, expiry), that an adapter says
`not_reached` only of a request that will not arrive, that a person registers what is so, that a run takes at most a
tick from claim to result and none between a query and its transaction, and that runs of the job do not overlap (the
work item of a singleton has one holder, which `WorkItemsProofs` proves; a holder that outlives its lease is left out).

### Tiering, TierPlan, TierReads and Archive (`tiering/`)

`db` is the member's database: which aggregate is in which unit, the units with state, generation, claim epoch and
manifests, holds, leases, the export and what a read by key has to answer (`said`); `objects` is the cold store;
`evidence` the store outside the database. `op[s]` is the operation running in slot `s` and what it holds in memory.
Every transaction is an action and so is everything between two of them: `Transfer`, `Fetch`, `Copy`, `Verify`, `Publish`;
`Erase` (online, sealed, published, retried, by the job), `ReleaseDecide` and the batches of `deleteOnline`, `Reroute` and
`ReleaseOld`, `Destroy`, `DestroyDecide` and the purges, `Clean`. Time is what the code asks of it: a grace, a backup, a
retention, a lease or a thaw has passed. `Failover` and `Restore` bring an earlier database back, `Replay` redoes what the
evidence knows. `TierPlan` is `Plan` of `plan.go`. `TierReads` adds `Get`, `History`, exports and `Thaw`. `Archive` is what
they promise: an aggregate is written until it closes, then it is erased or destroyed for good, and nothing else changes
what a read by key answers except the database going back. Reads by key are assumed shorter than the grace, the orphan
window longer than a worker's timeout.

### View and ProjectionTables (`projection/`, `events/watermark.go`, `records.go`)

A source with its outbox, counter and records (`src`), the messages under way (`wire`), the consumer's tables (`view`) and
its replicas' workers (`puller`). `truth` lists what the source held after every commit, so a moment is an index of it.
`Commit`, `Number`, `Forward` and `Handle` are the stream; `Step` reads the state and decides between nothing, an alignment
and a pull, which then runs in steps of its own: `Record` (the pull is recorded before the source is asked), `Pull` (the
positions it carries), `Check`, `Page`, `Identify`, `ApplyPage`; `Align`, `Begin`, `Snapshot`, `Adopt`, `Put`, `ReadRest`,
`done` are an alignment; `Repair` and `GiveUp` the rest. A declaration carries the deployment, and whether it comes from the
primary. A message that fails is quarantined after `QuarantineAttempts` failures or when `QuarantineAfter` has passed since
the first (`FailureAges`). The retention deletes published rows in any order, as the query without an `ORDER BY` may. The
source fails over, is restored, reinstalled, or answered for by another one; the consumer's database goes back. Pulls that
find nothing new draw on a budget (`PullBound`). `ProjectionTables` has `Decide`, `DecideEpoch`, `PullOutcome`, `Judge` and
the state table as operators. IDs are assumed not reused after a tombstone is purged.

### Redelivery (`events/redelivery.go`, `progress.go`)

Producer (`prod`), messages that can still be delivered (`feed`), consumer (`cons`, with its inbox rows, run starts, epoch
and recorded gaps) and its backup (`copy`). `clock` counts running time, because the progress a subscription can prove is
the last outcome older than a delivery lifetime (`cutOf`, `Progress`). `WentBack`, `Request`, `Resend` (or `Unreachable`,
when the producer has no address), `gaps` and `Settle` are the start-up check; `Stop`, `GoBack`, `Purge` and `ProducerBack`
happen around it.

### Calls (`calls/`)

The dependency's limit, breaker and budget (`dep`) shared by the callers (`call`). `Begin`, `Send`, `Result` (the breaker
counts), `RecordResult` (the budget counts), `Decide` (the budget is read again) and `Tick`; `Classify`, `ShouldRetry`,
`End`, `EndTrial` are the functions of those names. A result comes in whatever state the breaker is by then.

### Reserve (`reserve/`)

`branch` is `be_reserve_branch`, `used` the consumptions, `free` the resource the component owns. `Decide` is the life-cycle
table; commands are in flight from the start in copies. `ConsumeLooks` and `ConsumeTakes` are the two halves of `Consume`,
`ExpireLists` and `ExpireOne` those of the expiry.

### Commands (`db/tx.go`, `pool.go`, `docno.go`, `idem/`)

`h[i]` is a handler in `DB.run` around `idem.Do` around a command that takes a number. Budget, connections (`idleConns`
with what a transaction left on them), key rows, the series and the documents are shared; a transaction holds its locks to
its end. `CommitLost` commits and reports an error. `Hook` opens transactions of its own after a rollback.

### Migrate (`db/migrate.go`)

Runs of two releases over the sets of the SDK and of the component: `Lint`, `Check`, `Up`, `RunFile`, `Unlock`,
`resetFailed`. The library that runs the files is external.

### Trail (`audit/`)

`alog` is the local table, `audit` the audit component with its backup, `worker` the rounds (two may overlap) and the strict
read. `Number`, `Flush`, `Transfer`, `Send`, `Settle`, `Purge` and `Backlog` are the steps of a round; `Denial` counts
within a minute's budget. Both databases are restored.

### Recovery (`evidence/`, `recovery/`, `internal/host/recoveryjobs.go`)

A member through a full recovery. `Intent`, `Alert`, `Applied`, `RollsBack`, `General` are a tightening or a widening;
`Transfer`, `Append_`, `Settle` carry conclusions to the store; `Freeze`, `Restore`, `Replay`, `Check`, `AdvanceNumbers`,
`Ask`, `Advance` are the phases with the tool's questions. The stores never go back.

### Process (`internal/host/`, `launcher/serve.go`, `shell/`)

A process from `Build` to `Exit` with one member or two: probes, requests, jobs and events in hand, the signal, and
`StopAll` step by step (`DrainPasses`, `ServersDown`, `StopSubs`, `StopMember`, `Stopped`) against its deadline.

### Access and Keys (`authz/view.go`, `subject.go`, `guard/`, `identity/keys.go`)

`Access`: a verification is sent, computed, received and applied at four moments; a request is admitted, checked, held
against its cutoff (`Precommit`) and committed at four, the last within `CommitWindow`, after which the database has ended
the transaction; `now` counts suspension. `Keys`: fetches read at one moment and store at another, requests wait for a
refresh in flight.

### Entitlement and Lists (`authz/eval.go`, `sql.go`, `segment.go`, `list/`)

`Entitlement` has the decision on one record (`Evaluate`, three-valued) and the predicate a list is compiled to (`Where`,
with NULLs) as two sets of operators. A path is a sequence of characters, and `LIKE` and `likeEscape` do with it what
PostgreSQL and the code do. `Lists` pages over a table while rows and rights change.

### Cron, Memory, Generations, Money

`Cron` (`work/cron.go`, the scheduling loop of `runner.go`): slots of a schedule in a zone whose offset changes once,
materialised by two runners with clocks of their own. `Memory` (`events/memory.go`): each section under the lock is an
action. `Generations` (`runprofile/`): `Advance` reads roots, trust records and generations one after the other while CAs
are rotated and credentials revoked, and goes beyond the values its caller saw elsewhere. `Money` (`money/`): reading,
rounding and allocation as operators on integers.

### Instances

`MCWorkItems`, `MCOutbox`, `MCDelivery`, `MCPipeline` and `MCExtCmd` hold the instances of the runs of their own.
`MCPlatform` puts the other seventeen components side by side: `part` chooses one per behaviour and the variables of the
rest stay off, so the state count is the sum. Their scenarios are in `MCScenarios`, `MCTiering`, `MCView` and `MCLists`;
`Question` picks those of the safety or of the liveness run. Section 5 is about the modules with proofs:
`WorkItemsProofs`, `OutboxProofs`, `OutboxPublishing`, `DeliveryProofs`, `PipelineProofs`, `ExtCmdProofs`, `ExtCmdOnce`
and `PlatformProofs`.

## 4. Runs

| run | checks | instance | states |
|---|---|---|---|
| `work` | type, one holder, one effect, segments, one call, no call behind a dead item; finished stays; every item settles | one item as a local queue item, a singleton, an item with an external call; two workers; 2 faults, 2 attempts, 2 segments, 3 claims | 1.4 M |
| `work_hold_resend` | an external call at most once, violated | the same with `hold` and `requeue` | small |
| `outbox` | contiguous positions, causal order, publishing order, marks, judge, cursor reads, redelivery | 3 events; two overlapping forwarders with 2 faults, one with 2 rewinds or crashes, one with a redelivery; purge batches of two | 1.7 M |
| `outbox_purge_hole` | cursor reads skip nothing, violated | 3 events, purge batches of one | small |
| `delivery` | nothing skipped, one effect, applied or recorded, ordered effects | 3 messages, two workers, 2 deliveries; an event sent twice with crashes and stalls, failures with retention, an ordered subscription with a delivery to spare, one that declares more than it has | 2.6 M |
| `delivery_two_in_flight` | one message in flight, violated | 2 messages, ordered | small |
| `pipeline` | type (of both components too), queue order, refinement of EventFlow, every event ends | 2 events; two forwarders of which one dies, failing publishes and handlers, a dying worker, a stalled handler | 0.14 M |
| `extcmd` | one effect, true final states, issued commands accounted for; final stays; every command ends | one command; a dedupe window from the first or the last use, a processing time, an expiry, nothing, a refusal, restores; 2 or 3 faults | 2.0 M |
| `extcmd_never_ends` | every command ends, violated | a dedupe window and a processing time, 1 fault | small |
| `extcmd_crashed_resend` | a resend only when the earlier request is gone, violated | a processing time, 2 faults | small |
| `platform` | `ArchiveHolds`, `ImplementsArchive`, `CopiesFollow`, `EffectsHappenOnce`, `QuantitiesAddUp`, `RecordsSurvive`, `StopsInOrder`, `ListsAreExact`, `EndedIsNotUsed` | seventeen components, 15 scenarios of the tiers, 19 of the projections, 1 to 8 of each other component, and every request about lists and amounts | 2.6 M |
| `platform_live` | `CatchesUp`, `WorkEnds` | 1 to 3 scenarios of thirteen components | 68 k |

**What the platform properties say.** Each is a conjunction of the properties its components state, with their reasons, in
their own modules:

| property | component: conjuncts |
|---|---|
| `ArchiveHolds` | TierReads: `ReadsAsWritten`, `GetIsWhole`, `HistoryIsComplete`, `ExportsForgetErased`, `OnlineMatchesCatalog`, `UnsupersededCopiesAreThere`, `EvidenceInForce` |
| `ImplementsArchive` | TierReads implements Archive |
| `CopiesFollow` | View: `JudgedIsFresh`, `StalledUntilAdvanced`, `SettledMatchesSource`; Redelivery: `LostIsRedelivered`; Memory: `MemoryInOrder`; Access: `NeverGoesBack` |
| `EffectsHappenOnce` | Commands: `OncePerKey`, `AnswersAreOwn`, `ConnectionsAreClean`; Reserve: `ConsumedOnce`, `CancelledHoldsNothing`; Migrate: `StateTellsApplied`; Cron: `NoSlotIsLost`, `SlotsOnce`; Calls: `RefusedIsUnsent`, `RetriesAreBounded` |
| `QuantitiesAddUp` | Reserve: `StockAdds`; Commands: `NoGaps`; Money: `SplitIsExactAndFair`, `RoundsToNearest` |
| `RecordsSurvive` | Trail: `DeletedIsBackedUp`, `NumbersHaveNoGaps`, `DenialsAreCounted`; Recovery: `TighteningsSurvive`, `AppliedOnce`, `EvidenceIsKept`, `NumbersAreNotReused`, `ReportIsExact`; Generations: `GenerationsGrow`, `RevokedCountsNot` |
| `StopsInOrder` | Process: `RoutedIsListening`, `RequestsKeepTheirMember`, `HandlersKeepTheirConnections`, `CleanExit` |
| `ListsAreExact` | Lists: `ListMatchesDecision`, `UnknownIsSound`, `EachRowOnce`, `FilterRevealsNothing`, `OneAuthorization` |
| `EndedIsNotUsed` | Access: `RevokedInTime`, `HighRiskIsFresh`; Keys: `WithdrawnIsRefused`; Calls: `ClosesAfterTrials`; Memory: `MemoryEndsOnce` (about steps) |
| `CatchesUp` | for good in the end: `EventuallyFresh` (View), `SettlesAgain` (Redelivery), `Recovers` (Calls), `StoredInTheEnd` (Trail), `ViewRecovers` (Access), `KeysAreFollowed` (Keys) |
| `WorkEnds` | for good in the end: `DueIsArchived`, `DestroyedIsPurged`, `ReplayedIsRedone` (tiers), `HoldsEnd` (Reserve), `DueSlotsRun` (Cron), `MemoryDelivers` (Memory), `HandlersEnd` (Commands), `RecoveryEnds`, `StopEnds`, `DefinitionsAreAccepted` (Process), `VerificationsEnd` (Keys) |

**Bounds and why they are enough.** One work item suffices because items share nothing but workers; two workers are needed
for a holder and the one that lost the item, and the third claim shows a takeover of a takeover. Two faults let a failover
meet a crash or an operator action. Three events give a full batch of two and a rest, a hole between two kept rows, and a
position lost in a rewind with one on each side; two forwarders overlap. Three messages give an insert that commits after
both a later and an earlier one; two deliveries make one retry and one last attempt. In Pipeline two events are a cause and
its consequence. In ExtCmd a window of 5 ticks with a margin of 3 leaves resends on both sides of the deadline, and the
margin is what a slow send, a slow resend and a request under way need together; `MaxAge` lies above every limit; three
faults make a lost answer, a failed resend and a failed query or a crash. `MaxClaims`, `MaxEvents`, `MaxFaults` and the
message set are the bounds that cut behaviours off; the others (`Batch`, `PurgeBatch`, `MaxDeliver`, `AdvanceBatch`,
`MaxAttempts`) are parameters of the code.

In the platform runs a scenario pairs the operations that meet in the code: two workers on one unit, a reader over a unit
that moves, a pull beside an alignment, a command with its copies. Two aggregates in units of one or two give an erased
member with a neighbour; two records in one or two partitions give one record changed and one kept, and a partition that
lags; a backup, one or two commits behind it and one rewind give a lost branch; two rewinds are there where a second one
meets what the first left (`Trail`, `Recovery`). Two quarantine attempts below three deliveries let a message be set aside
before the transport gives it up. A budget of one or two of each fault is enough for a fault to hit each step
of an operation, because it may come at any of them. The breaker's window of 2 and its 2 trials, the retry budget of 4, a
page of 1 and a batch of 1 put every limit within reach; the zone changes in the middle of a schedule of three days of four
hours. Amounts range over 61 coefficients at up to two places and splits over up to three weights.

**Deadlock.** `work`, `outbox`, `pipeline` and the platform runs switch the check off: their bounded supply of events,
claims, requests and faults runs out. `delivery` and `extcmd` leave it on, because polling workers and clocks never stop.

**Symmetry** is used for forwarders in `outbox` and for workers in `delivery`, which check invariants only; nothing
orders them. A scenario that leaves a forwarder out only removes behaviours.

**Fairness.** Weak fairness of each worker's and forwarder's own steps: the pollers (`Runner.Start`, `Forwarder.run`,
`Transport.work`) come back on a timer whatever happened before, and handlers run under a timeout. Weak fairness of the
passing of leases and backoffs: clocks advance. In ExtCmd the tick is strongly fair, because it waits for a call that is
under way and a loop of short calls must not stop time; calls return and accepted requests become final. Nothing is assumed
of business transactions, operators, faults, purges or backups. In `platform_live` the same holds of each component's loops,
calls and timers (`TierFair` to `MemoryFair` in `MCPlatform` name them one by one); the archive's jobs are strongly fair,
because a job finds its item taken, leaves and comes again. A dependency, a source, an audit component or an issuer answers
in the end, and an operator answers a stopped authorization view. Liveness is stated where faults end: each behaviour has a
finite budget of them.

**What a passing property leaves out** (section 6 has the lines). `HandledOrDead` lets a delivery end with nothing on
record when all stored deliveries were used and each one from the declared limit on met a fault, so that with a delivery
to spare one fault loses nothing. `CursorSkipsNothing` speaks of tables in which no purge has stopped half-way (`Settled`).
`OrderedEffects` leaves out handlers that outlive their lease and messages purged while they are handled;
`EffectAtMostOnce` and `FinalStateTrue` what is requested again although it was sent before a restore; `LostIsRedelivered` a
producer without an address. `EverySettles` lets an item go that a restore lost or whose claims reached the bound.
`ArchiveHolds` and `ImplementsArchive` hold of the operations that meet in a scenario: section 6 names the pairs kept apart.

## 5. Proofs

Eight modules prove what follows for every value of the constants that the named assumptions admit (`WorkConstants`,
`OutboxConstants`, `DeliveryConstants`, `PipelineConstants`, `ExtCmdConstants`, `CommandsConstants`, `ProcessConstants`):
any number of items, events, messages, workers, forwarders, handlers, requests and faults. Every action has a lemma that
says what it does to the variables, every part of an invariant a lemma with a case for each action, and the temporal step is
propositional. Where a theorem has a premise, the premise is a definition of the proof module and says what the code does
not provide for; section 6 gives the lines.

**`WorkItemsProofs`**

- `TypeCorrect`, `MutualExclusion` (`AtMostOneHolder`). Mutual exclusion is not inductive: the claim check compares numbers
  that a restore brings back. `IInv` adds that no row, backup row or run carries a database epoch beyond the current one
  (`EpochsBehind`); that a claim of the current database epoch is never ahead of its row's epoch (`ClaimsBehind`); that two
  such claims of one item differ (`ClaimsDistinct`); and that a held item has an attempt counted (`HeldAttempts`), so that a
  stopped run gives back only what it took. A claim then makes a pair (database epoch, item epoch) nobody else has.
- `EffectsCommitOnce` (`EffectOnce`), `SegmentsCommitOnce` (`SegmentsOnce`). `EffectInv`: rows and backup carry an effect only
  when finished, and the progress a holder knows is its row's.
- `CallsTakeEffectOnce` (`CallSentAtMostOnce`), `DeadHasNoEffect` (`DeadOutcomeKnown`), under `CallsKept`: a queue item whose
  waits `MaxWait` does not cut, and no hold, failed read of the row or restore. `CallInv`: an item whose call may still be
  sent, or took effect, is marked `outcome_unknown` or finished.
- `FinishedForGood` (`FinishedStays`), an action property, from `IInv`.

**`OutboxProofs`** proves `PositionsAreContiguous` and `NumberingIsCausal`, whatever the faults. `NumberInv` is stated of a
snapshot of the tables and holds of the tables and of the backup, because a restore makes one the other: ords are taken
in order (`RowsInv`), every numbering epoch is the counter's or the history's and has no gap (`NumInv`), and an event is
positioned after everything it saw (`CausalIn`).

**`OutboxPublishing`** proves `MarksAreTrue`, `MarksAreOrdered`, `PublishedInOrder`, `JudgeIsSound` and `ResendIsComplete` under
`Restarted` (no forwarder outlives a restore). `ReaderSkipsNothing` (`CursorSkipsNothing`) has no premise: for any purge batch,
deleted in any order, a reader misses nothing unannounced while no row is left before the position the purges noted.
`PurgeLeavesNoHole` says when that is: after the last transaction of a purge, under `Restarted`, because marks follow
positions. `outbox_purge_hole` is a state between two transactions. In `PublishInv` whatever comes before a row of a
forwarder's batch is marked or in the batch, and what is on the bus has the position of its row. `StreamInit`, `StreamState`
and `StreamStep` gather what a consumer of the bus relies on while nothing is restored.

**`DeliveryProofs`** proves `TypesKept`, `NoMessageSkipped`, `EffectsHappenOnce`, `EndsAreRecorded` and `EffectsFollowOrder`.
In `IInv`, `BusInv` is what publishing promises (what was stored when an insert began is before it by ID and number);
`QueueInv` keeps the read position behind every insert in progress; `LeaseInv` follows a delivery to the worker that has
its last lease; `OrderInv` says that once a message was claimed everything published before it is over. `EndsAreRecorded` is
a count: the attempts of a delivery from the declared limit on that left no record are no more than the faults spent
on it, so one that ended without a record has spent them all.

**`PipelineProofs`** instantiates `OutboxPublishing` and `DeliveryProofs` at the pipeline's variables. Every step of
Pipeline is a step of Outbox or leaves it alone, and likewise for Delivery, so that their invariants carry over. `InsertInv`
and `PlaceInv` add the seam: each insert belongs to one forwarder, the bus is what the queue stored, and an insert began
after everything before its row was stored. `WellFormed`, `QueueOrdered` (`QueueFollowsPositions`), and `EventsFlow`:
Pipeline implements EventFlow when, on an ordered subscription, no handler outlives its lease, no worker dies, dead letters
can be written and the consumer declares no more deliveries than its durable has (`Orderly`, a premise on the scenario).

**`ExtCmdProofs`**

- `FinalForGood` (`FinalStays`) and `ExecutedIsAccounted` (`IssuedAccounted`), whatever the scenario, from `BaseInv`: what the
  run holds agrees with the row it claimed, and an irrevocable command has its issue record before a request can leave.

**`ExtCmdOnce`** goes on from there.

- `TakesEffectAtMostOnce` (`EffectAtMostOnce`) and `ResentOnlyWhenGone` (`ResendOnlyWhenGone`), under `Timely`: a request
  is under way for less than the margin of the resend deadline, and where a processing time decides, no run ends
  between a request and its record. Both stop where a sent command that a restore lost is requested again
  (`recovery.again`). The reason a second request is harmless differs by capability and is carried from
  step to step: `SendInv` and `ClaimInv` say that a run about to send, and a row that may be claimed, know that nothing can
  have happened, that nothing can happen any more, or that the window is open long enough for the request to arrive;
  `FlightInv` says it of the requests under way; `DateInv` ties the window to the stored deadline; `LateInv` bounds how long ago
  each request left, also by the time of a restore; `BackupInv` says what a restore can bring back; `NotFoundInv` what
  an answer "not found" still means when it is used.
- `FinalStateIsTrue` (`FinalStateTrue`), under `Timely` and `Plain`. `Plain` excludes an external system that both
  deduplicates and refuses what has expired: it may refuse the resend of a request that took effect.

**`PlatformProofs`** instantiates components of the platform runs one by one; `TheScenarios` of `MCPlatform` has TLC
evaluate on the instance what the theorems assume of a scenario.

- `CommandsRunOnce` (`OncePerKey`, `AnswersAreOwn`, `ConnectionsAreClean` of Commands). That a key has at most one document
  more than it was forgotten is not inductive: a transaction under way is about to add one. `CmdInv` says what those
  transactions hold (`HoldInv`): the key from the claim to the end and the series from the number to the end, no two the
  same (`Apart`), while the key held has no kept record and the number held is the next. Beside it, a kept record and an
  answer are a committed document's, and the numbers up to the last are documents' or voided (`DocsInv`); documents are
  counted against records forgotten and against the numbers (`CountInv`). The steps of a handler come down to five shapes
  (`Shape`): it goes on with nothing in hand, commits, claims, takes a number or changes its connection's settings; each
  part of the invariant is proved of the shapes.
- `SeriesIsContinuous` (`NoGaps`), from the same invariant: every number up to the last is exactly one document's or voided,
  because the counts add up.
- `ProcessStopsInOrder` (`StopsInOrder` of Process). `ProcInv` adds what makes the order of `StopAll` enough: before the
  databases are ready nothing is routed to or in hand (`StartInv`); every member that is built and not stopped has its
  connections (`OutInv`, `UseInv`); nothing listens once the servers shut down and the background ends after that
  (`DownInv`); and the exit code is 0 only while nothing was cut (`CodeInv`).

**Only model-checked.** Liveness under fairness (`EverySettles`, `EveryEventEnds`, `EveryCommandEnds`, `CatchesUp`,
`WorkEnds`) is out of the prover's reach, as are `ENABLED` and induction over data, which what a fold computes (the splits
of Money) would need; so are the sums over branches and consumptions in Reserve (`StockAdds`, `ConsumedOnce`). Of the
platform's components those of Commands and Process are proved; the others, and TierReads implementing Archive, are left to
TLC. The five violation runs are counterexamples and have nothing to prove.

## 6. What the models show about the code

Five runs end in a violation; `PROJECT.json` quotes the lines.

- `work_hold_resend`: a handler that made its external call and answered `Wait` leaves `outcome_unknown` set; `Hold`
  then makes the item `business_hold`, and `Requeue` accepts that reason without `verifiedNotEffective` and clears the
  mark. The call is sent again.
- `outbox_purge_hole`: one purge transaction takes its `LIMIT` in no order. Until the next one runs, an earlier row
  may be there and a later one gone, and `ReadAfter` looks only at the row right behind the cursor.
- `delivery_two_in_flight`: `claimOrdered` takes the smallest `seq` looking only at that row; an insert that drew the
  smaller `seq` and became readable later is claimed while another message is in flight.
- `extcmd_never_ends`: past the resend deadline, `resendable` may still allow a send because the processing time or the
  expiry has passed, but `BeforeSend` refuses every send past the deadline. The command goes unknown, sending, unknown
  with a query each time; sending clears `unknown_since`, so `ManualAfter` is never reached. The passing run keeps the
  dedupe window apart from processing time and expiry.
- `extcmd_crashed_resend`: a run that dies after a resend leaves `last_reached_at` at the send before it, and
  `resendable` does not look at the unfinished attempt (the reconciliation's `earliest` does). With a processing time
  above `SendLease` the next query sends again while the resend is under way, and both may take effect. The passing
  run has no crash with a processing time.

Other places where the models had to say less than the comments do:

- `unknown()` (`work/runner.go:441`) answers false when its read fails, which `fail` takes for "no call was made". The
  scenario of the external call has no `read` fault for that reason.
- A handler that made its call and then waits past `MaxWait` becomes `dead` with the mark cleared
  (`work/runner.go:420`). The scenario of the external call has no `MaxWait`, and `CallsKept` excludes it in the proof; it also
  speaks of queue items only, because a singleton makes its call once a cycle.
- `markPublished` goes by `ord` alone (`events/forwarder.go:399`). A forwarder that outlives a rewind can mark a row
  that took the `ord` of a lost one; the scenarios with rewinds restart the forwarders, and `"outlive"` is there for
  the other case, which `Restarted` excludes in the proofs.
- A row that was published but not yet marked is not sent again by a redelivery and not reported
  (`events/resend.go:151`); `ResendSendsKept` speaks of marked rows.
- When the dead letter of a last delivery cannot be written, or its worker dies, the delivery is deleted and nothing
  records the event (`events/consumer.go:135`, `events/pgqueue/pgqueue.go:524`). `Handle` compares the attempt with the
  `MaxDeliver` of the running declaration, the transport with the one the durable was created with: a consumer that raises
  its declaration ends its last delivery with `Nak` and no dead letter, without any fault (the scenario `Raised`). Both are
  what `HandledOrDead` excepts.
- A handler whose lease ran out may still commit after later messages (`events/pgqueue/pgqueue.go:353`): the premise of
  `OrderedEffects`. So may one whose message passed its retention while it was handled. A delivery that ends with nothing
  recorded, or late, gives the next event of an ordered subscription its turn all the same (`Orderly`).
- In the verifying phase a query answer of the query-only loop may overwrite the final state a reconciliation wrote
  since (`set` does not look at the state, `extcmd/commands.go:278`): TLC takes a command from failed to manual that way.
  `FinalStays` speaks of the normal phase. The effect is not repeated: the next query finds the record.
- `Request` knows of the command's row alone (`extcmd/commands.go:107`). Asked again for a command that was sent and that a
  restore took away, before the reconciliation brings it back, it sends it a second time: the premise of `EffectAtMostOnce`.
- Nothing compares the time a request is under way with the margin of the resend deadline, a tenth of the window and at
  least an hour (`extcmd/state.go`): the first half of `Timely`.
- `Capabilities.Expiry` is read nowhere: `resendable` takes any request with a passed `expires_at` as one that no longer
  lands. The model's external system honours the expiry.

Races TLC finds outside the scenarios. In each of these a scenario that adds the operation named breaks the property
named; the scenarios that pass keep the two apart. The hazards of `PROJECT.json` name these places in their notes.

- Tiers. Two erasures of one warm unit write the same version of its rows, which are keyed without the generation
  (`tiering/transfer.go:208`): a read by key misses one (`ReadsAsWritten`). A thaw reads a copy in one transaction and writes
  it in another; an erasure in between is undone until the thaw ends. A route change after a history's snapshot raises the
  version the snapshot named (`tiering/history.go:21`): the unit is missing from the history (`HistoryIsComplete`).
- Projections. A source that changes its epoch while a consumer aligns makes `Step` start the same alignment for ever
  (`projection/watermark.go:860`). A message of the old epoch handled between the beginning of a plain alignment and the
  adoption carries this alignment's number and survives it (`projection/align.go:64`).
- Redelivery. `Request` computes the progress in every attempt (`events/redelivery.go:83`): an answer that comes later than
  a delivery lifetime after the restart leaves a loss. `WentBack` is a start-up check, so a failover under a process that
  runs on is not seen until the next start. A producer without an address is not asked, and the epoch is settled all the
  same (`events/redelivery.go:131`): the recovery tool is to ask.

What the models assume where the code does not check, or leave aside:

- A rewind or a reinstallation of a source that keeps its epoch and has caught up again before the next pull is not seen. A
  consumer's clock that steps back is left out of `JudgedIsFresh`.
- A concurrent duplicate `Consume` is answered `not_committed` although the consumption is done (`reserve/reserve.go:218`).
- A commit whose answer is lost runs the hooks for a rollback, as the comment at `db/tx.go:64` says.
- `Check` of the migrations reads the version before the lock, so a run beside another may answer unknown or dirty; the
  state table is right all the same.
- `RaiseContinuous` locks the row of a series; a series that is not there yet has none (`db/docno.go:100`). It relies on
  commands being closed while the recovery raises numbers.
- A denial takes its minute before its transaction (`audit/audit.go:312`) and is assumed to commit in it. The backlog is a
  cached number, which admissions between two refreshes may overrun.
- A cancelled tightening whose cancellation is still in the outbox at the restore is applied again by the replay. It errs on
  the tight side, and `TighteningsSurvive` allows it.
- `StopAll`'s "Everything ends by the stop timeout" holds of handlers that end when their context does: `Member.Stop` waits
  for its runner, forwarder and loops without the deadline.
- `RevokedInTime` and `HighRiskIsFresh` end with the validity and the commit window together, because COMMIT may follow the
  check by that much (`db/tx.go:244`). `RevokedInTime` assumes that an answer of the authority is current when it is
  computed; lagging replicas are in `NeverGoesBack`. The instance is pinned by the first answer accepted.
- A tree item with an empty path would match an empty column in SQL and nothing in `Evaluate` (`authz/eval.go:70`); items
  are modelled with a path.
- A runner whose own clock steps back after its skew was seen schedules late by that step.
- `Advance` drops the records it could not read (`runprofile/runprofile.go:438`); `GenerationsGrow` speaks of advances that
  read everything. Two advances at once may answer the same value.
- A failure counted before another call's success may be retried after it: `RetriesAreBounded` counts the retries of
  failures since the last success.
- `Process` has one exit code for a refused start; `ReadyExit` tells 78, 69 and 1 apart by the reason.
- A history renews its lease and then learns a unit's route, in two transactions; `HistoryNext` is one step. What may happen
  between them may, in the model, happen before both, but for an export's lease that runs out just there.

## 7. Not modelled, and what is next

- JetStream (`events/jetstream`): a thin adapter; the server it adapts to is outside the repository. `pgqueue/wake` only
  shortens a wait that the poll bounds.
- `config`, `canon`, `records`, `errs`, `bizdate`, the text of `search`, `seed`: parsing, encoding and wording without state
  that a step of another actor could meet.
- `httpx`, `grpcx`, `obs`, `sectest`, generated code, linters and tools: surfaces and instruments around what is modelled.
- `db` session settings, statistics, checks and key lint: statements sent to PostgreSQL whose effect is PostgreSQL's.
- Parts of modelled components are named in `PROJECT.json` with their reason: the contents of tokens and signatures, the
  parsing of schedules and decimals, reconciliation adapters, wall-clock retention.

Next are proofs about the platform's components: TierReads implementing Archive, and `StockAdds` for Reserve.
