------------------------------- MODULE Outbox -------------------------------
(***************************************************************************)
(* The producer's side of events (package events): business transactions   *)
(* that insert outbox rows, the forwarders that number them under the      *)
(* partition's lock and publish them, the purge, the redelivery a consumer *)
(* asks for, and database epochs (failovers and restores).                 *)
(*                                                                         *)
(* One partition of one stream: every table involved is keyed by it, and   *)
(* partitions share nothing else.  A transaction is one atomic action; a   *)
(* forwarder's publishes and its final mark are separate steps.  Time is   *)
(* not counted: leases run out and rows pass their retention at any time.  *)
(***************************************************************************)
EXTENDS Naturals, FiniteSets, Sequences

CONSTANTS
    Forwarders,    \* the forwarders of the producer's replicas
    Scenarios,     \* what may happen in a behaviour (see Scenario)
    Batch,         \* Forwarder.Batch and Resender.Batch
    PurgeBatch,    \* db.Batch: the rows one purge transaction deletes
    MaxEvents      \* bound: events emitted

\* What a behaviour starts from and never changes: the forwarders that run, the faults and events that may happen
\* ("outlive": forwarders outlive a rewind; "resend": a consumer asks for a redelivery), and the bound on the faults.
Scenario == [forwarders : SUBSET Forwarders,
             faults     : SUBSET {"publish", "mark", "crash", "failover", "rewind", "outlive", "resend"},
             maxFaults  : Nat]

ASSUME OutboxConstants ==
    /\ Forwarders # {}
    /\ Scenarios \subseteq Scenario
    /\ Batch \in Nat \ {0} /\ PurgeBatch \in Nat \ {0}
    /\ MaxEvents \in Nat

VARIABLES
    scenario,  \* the member of Scenarios this behaviour is about
    rows,      \* be_outbox by ord
    counter,   \* be_outbox_partition: the numbering epoch (0: none yet), last_seq, the purged position
    history,   \* be_epoch_history: [old, fork, new]
    dbEpoch,   \* be_current_db_epoch()
    backup,    \* what a rewinding failover or a restore brings back
    emitted,   \* how many events were ever emitted: the next event ID
    lease,     \* lease_owner while lease_until has not passed, else "none"
    fwd,       \* the forwarders
    bus,       \* what the transport stored, in order
    resend,    \* one redelivery request in progress
    faults

vars == <<scenario, rows, counter, history, dbEpoch, backup, emitted, lease, fwd, bus, resend, faults>>

Ords == 1..MaxEvents

(***************************************************************************)
(* A row: ev is its event ID, (epoch, seq) its position (seq 0: not yet    *)
(* numbered), marked published_at.  A purged row stays as "purged" so that *)
(* properties can speak of it.  seen are the events that were committed    *)
(* when the row was inserted.                                              *)
(***************************************************************************)
Row == [status : {"none", "open", "rolled_back", "committed", "purged"},
        ev     : 0..MaxEvents,
        epoch  : Nat,
        seq    : Nat,
        marked : BOOLEAN,
        seen   : SUBSET (1..MaxEvents)]

NoRow == [status |-> "none", ev |-> 0, epoch |-> 0, seq |-> 0, marked |-> FALSE, seen |-> {}]

\* A place on the partition.
Point == [epoch : Nat, seq : Nat]
Zero == [epoch |-> 0, seq |-> 0]

\* Point.Less: the epoch, then the sequence.
Less(p, q) == p.epoch < q.epoch \/ (p.epoch = q.epoch /\ p.seq < q.seq)

PointOf(r) == [epoch |-> r.epoch, seq |-> r.seq]

Counter == [epoch : Nat, last : Nat, purged : Point]

\* A row of be_epoch_history: the sequence at which the old epoch ended.
Fork == [old : Nat, fork : Nat, new : Nat]

\* A forwarder: todo are the rows of its batch still to publish, done the ords it published.
Fwd == [phase : {"idle", "leased", "publishing", "marking"},
        todo  : SUBSET (Row \X Ords),
        done  : SUBSET Ords]

IdleFwd == [phase |-> "idle", todo |-> {}, done |-> {}]

Message == [ev : 1..MaxEvents, epoch : Nat, seq : Nat]

\* A redelivery: the start asked for, what judge answered, the events sent again.  kept are the events after the
\* start whose rows were marked and not purged when it was judged.
Resend == [phase  : {"none", "sending", "answered"},
           after  : Point,
           beyond : BOOLEAN,
           kept   : SUBSET (1..MaxEvents),
           sent   : SUBSET (1..MaxEvents)]

NoResend == [phase |-> "none", after |-> Zero, beyond |-> FALSE, kept |-> {}, sent |-> {}]

Init ==
    /\ scenario \in Scenarios
    /\ rows = [o \in Ords |-> NoRow]
    /\ counter = [epoch |-> 0, last |-> 0, purged |-> Zero]
    /\ history = {}
    /\ dbEpoch = 1
    /\ backup = [rows |-> rows, counter |-> counter, history |-> history]
    /\ emitted = 0
    /\ lease = "none"
    /\ fwd = [f \in Forwarders |-> IdleFwd]
    /\ bus = <<>>
    /\ resend = NoResend
    /\ faults = 0

Spend(f) == f \in scenario.faults /\ faults < scenario.maxFaults /\ faults' = faults + 1

\* Rows other transactions see, numbered or not.
Committed == {o \in Ords : rows[o].status = "committed"}
Unnumbered == {o \in Committed : rows[o].seq = 0}
Numbered == {o \in Committed : rows[o].seq # 0}
Unpublished == {o \in Numbered : ~rows[o].marked}

\* Rows that have a position, the purged ones included.
Positioned == {o \in Ords : rows[o].status \in {"committed", "purged"} /\ rows[o].seq # 0}

OnBus(ev) == \E k \in DOMAIN bus : bus[k].ev = ev
-----------------------------------------------------------------------------
(* Business transactions.                                                  *)

\* Emit: the insert draws its ord at once, the transaction commits later.
Emit(o) ==
    /\ emitted < MaxEvents
    /\ rows[o].status = "none" /\ \A p \in Ords : p < o => rows[p].status # "none"
    /\ rows' = [rows EXCEPT ![o] = [NoRow EXCEPT
                    !.status = "open", !.ev = emitted + 1,
                    !.seen = {rows[p].ev : p \in {q \in Ords : rows[q].status \in {"committed", "purged"}}}]]
    /\ emitted' = emitted + 1
    /\ UNCHANGED <<scenario, counter, history, dbEpoch, backup, lease, fwd, bus, resend, faults>>

EndTx(o) ==
    /\ rows[o].status = "open"
    /\ \E end \in {"committed", "rolled_back"} : rows' = [rows EXCEPT ![o].status = end]
    /\ UNCHANGED <<scenario, counter, history, dbEpoch, backup, emitted, lease, fwd, bus, resend, faults>>

-----------------------------------------------------------------------------
(* Forwarders.                                                             *)

\* Mutation of Pending: only rows without a position are looked for.
PendingUnnumbered == Unnumbered

\* pending: the rows that make a partition worth a round.
Pending == Unnumbered \cup Unpublished

\* lease: free, run out, or this forwarder's own.  A forwarder that goes by the lease it remembers overlaps with
\* others no more than one whose lease runs out as soon as it has it.
TakeLease(f) ==
    /\ fwd[f].phase = "idle" /\ Pending # {}
    /\ lease \in {"none", f}
    /\ lease' = f
    /\ fwd' = [fwd EXCEPT ![f].phase = "leased"]
    /\ UNCHANGED <<scenario, rows, counter, history, dbEpoch, backup, emitted, bus, resend, faults>>

\* lease_until passes, whatever its owner is doing; or its owner stops (release).
LeaseEnds ==
    /\ lease # "none"
    /\ lease' = "none"
    /\ UNCHANGED <<scenario, rows, counter, history, dbEpoch, backup, emitted, fwd, bus, resend, faults>>

\* The first n of a set of ords.
FirstOf(S, n) == {o \in S : Cardinality({p \in S : p < o}) < n}

\* Mutation of LastSeq: a new epoch does not reset the counter.
LastSeqNoReset == counter.last

\* Where numbering continues: from last_seq, or from the start of a new epoch.
LastSeq == IF counter.epoch = dbEpoch THEN counter.last ELSE 0

\* Mutation of NumberedRows: the newest insertion first.
NumberedRowsNewestFirst ==
    LET picked == FirstOf(Unnumbered, Batch) IN
    [o \in Ords |-> IF o \in picked
                      THEN [rows[o] EXCEPT !.seq = LastSeq + Cardinality({p \in picked : p >= o}),
                                           !.epoch = dbEpoch]
                      ELSE rows[o]]

\* numberIn: the rows with the positions it gives, in insertion order.
NumberedRows ==
    LET picked == FirstOf(Unnumbered, Batch) IN
    [o \in Ords |-> IF o \in picked
                      THEN [rows[o] EXCEPT !.seq = LastSeq + Cardinality({p \in picked : p <= o}),
                                           !.epoch = dbEpoch]
                      ELSE rows[o]]

\* numberIn: the fork of the epoch that ended.
NumberedHistory ==
    IF counter.epoch \in {0, dbEpoch}
      THEN history
      ELSE history \cup {[old |-> counter.epoch, fork |-> counter.last, new |-> dbEpoch]}

\* unpublishedIn on the rows just numbered: at most Batch of them, the smallest positions.
UnpublishedIn(rs) ==
    LET un == {o \in Ords : rs[o].status = "committed" /\ rs[o].seq # 0 /\ ~rs[o].marked} IN
    {o \in un : Cardinality({p \in un : Less(PointOf(rs[p]), PointOf(rs[o]))}) < Batch}

\* partition: one transaction numbers and reads what is to be published.
NumberAndRead(f) ==
    /\ fwd[f].phase = "leased"
    /\ rows' = NumberedRows
    /\ counter' = [counter EXCEPT !.epoch = dbEpoch,
                      !.last = LastSeq + Cardinality(FirstOf(Unnumbered, Batch))]
    /\ history' = NumberedHistory
    /\ LET batch == UnpublishedIn(NumberedRows) IN
       fwd' = [fwd EXCEPT ![f] = IF batch = {} THEN IdleFwd
                 ELSE [phase |-> "publishing", todo |-> {<<NumberedRows[o], o>> : o \in batch}, done |-> {}]]
    /\ UNCHANGED <<scenario, dbEpoch, backup, emitted, lease, bus, resend, faults>>

\* Publish: stored unless the transport already has the event ID.
Stored(m) == IF OnBus(m.ev) THEN bus ELSE Append(bus, m)

\* Mutation of NextToPublish: the largest position first.
NextToPublishLast(todo) ==
    CHOOSE t \in todo : \A u \in todo : ~Less(PointOf(t[1]), PointOf(u[1]))

\* The next row of the batch in position order.
NextToPublish(todo) ==
    CHOOSE t \in todo : \A u \in todo : ~Less(PointOf(u[1]), PointOf(t[1]))

MessageOf(t) == [ev |-> t[1].ev, epoch |-> t[1].epoch, seq |-> t[1].seq]

\* partition: publish the next row of the batch and remember it as done.
Publish(f) ==
    /\ fwd[f].phase = "publishing"
    /\ LET t == NextToPublish(fwd[f].todo) IN
       /\ bus' = Stored(MessageOf(t))
       /\ fwd' = [fwd EXCEPT ![f] = [phase |-> IF @.todo = {t} THEN "marking" ELSE "publishing",
                                     todo  |-> @.todo \ {t},
                                     done  |-> @.done \cup {t[2]}]]
    /\ UNCHANGED <<scenario, rows, counter, history, dbEpoch, backup, emitted, lease, resend, faults>>

\* Mutation of PublishFails: the whole batch counts as published.
PublishFailsMarksRest(f) ==
    /\ fwd[f].phase = "publishing" /\ Spend("publish")
    /\ bus' \in {bus, Stored(MessageOf(NextToPublish(fwd[f].todo)))}
    /\ fwd' = [fwd EXCEPT ![f] = [phase |-> "marking", todo |-> {}, done |-> @.done \cup {t[2] : t \in @.todo}]]
    /\ UNCHANGED <<scenario, rows, counter, history, dbEpoch, backup, emitted, lease, resend>>

\* A publish fails, although the transport may have stored the event: the rest of the batch waits for the next round.
PublishFails(f) ==
    /\ fwd[f].phase = "publishing" /\ Spend("publish")
    /\ bus' \in {bus, Stored(MessageOf(NextToPublish(fwd[f].todo)))}
    /\ fwd' = [fwd EXCEPT ![f] = IF @.done = {} THEN IdleFwd ELSE [@ EXCEPT !.phase = "marking", !.todo = {}]]
    /\ UNCHANGED <<scenario, rows, counter, history, dbEpoch, backup, emitted, lease, resend>>

\* Mutation of Marked: only the last row of the batch is marked.
MarkedLastOnly(f) ==
    [o \in Ords |-> IF o \in fwd[f].done /\ rows[o].status = "committed" /\ \A p \in fwd[f].done : p <= o
                      THEN [rows[o] EXCEPT !.marked = TRUE] ELSE rows[o]]

\* markPublished: the rows with these ords that are there.
Marked(f) ==
    [o \in Ords |-> IF o \in fwd[f].done /\ rows[o].status = "committed"
                      THEN [rows[o] EXCEPT !.marked = TRUE] ELSE rows[o]]

\* markPublished, the deferred last step; its error is ignored.
Mark(f) ==
    /\ fwd[f].phase = "marking"
    /\ \/ rows' = Marked(f) /\ UNCHANGED faults
       \/ Spend("mark") /\ UNCHANGED rows
    /\ fwd' = [fwd EXCEPT ![f] = IdleFwd]
    /\ UNCHANGED <<scenario, counter, history, dbEpoch, backup, emitted, lease, bus, resend>>

Crash(f) ==
    /\ fwd[f].phase # "idle" /\ Spend("crash")
    /\ fwd' = [fwd EXCEPT ![f] = IdleFwd]
    /\ UNCHANGED <<scenario, rows, counter, history, dbEpoch, backup, emitted, lease, bus, resend>>

-----------------------------------------------------------------------------
(* The purge.                                                              *)

\* One transaction of Purge: of the rows published longest ago (those up to the position p, published_at grows
\* with it) at most PurgeBatch, in no order; the largest position deleted is noted.
Purge ==
    /\ \E o \in Numbered \ Unpublished :
         LET old == {q \in Numbered \ Unpublished : ~Less(PointOf(rows[o]), PointOf(rows[q]))} IN
         \E gone \in SUBSET old :
           /\ Cardinality(gone) = IF Cardinality(old) < PurgeBatch THEN Cardinality(old) ELSE PurgeBatch
           /\ rows' = [q \in Ords |-> IF q \in gone THEN [rows[q] EXCEPT !.status = "purged"] ELSE rows[q]]
           /\ LET top == CHOOSE q \in gone : \A r \in gone : ~Less(PointOf(rows[q]), PointOf(rows[r])) IN
              counter' = [counter EXCEPT !.purged = IF Less(@, PointOf(rows[top])) THEN PointOf(rows[top]) ELSE @]
    /\ UNCHANGED <<scenario, history, dbEpoch, backup, emitted, lease, fwd, bus, resend, faults>>

-----------------------------------------------------------------------------
(* Redelivery.                                                             *)

\* judge: rows after the start were purged.
Beyond(after) == counter.purged # Zero /\ Less(after, counter.purged)

\* Mutation of Ahead: the fork of an earlier epoch is not looked at.
AheadIgnoresForks(after) == after.epoch = counter.epoch /\ after.seq > counter.last

\* judge: the start is past what this partition has.  Zero stands for "no start".
Ahead(after) ==
    /\ after # Zero
    /\ IF after.epoch = counter.epoch
         THEN after.seq > counter.last
         ELSE ~\E h \in history : h.old = after.epoch /\ after.seq <= h.fork

\* The events of the rows after a position that satisfy a condition.
EventsAfter(after, Which) == {rows[o].ev : o \in {p \in Which : Less(after, PointOf(rows[p]))}}

\* A consumer asks for everything after a position it once received; judge answers in one transaction.
ResendAsked ==
    /\ "resend" \in scenario.faults /\ resend.phase = "none"
    /\ \E after \in {[epoch |-> bus[k].epoch, seq |-> bus[k].seq] : k \in DOMAIN bus} \cup {Zero} :
         resend' = [phase  |-> IF Ahead(after) THEN "answered" ELSE "sending",
                    after  |-> after,
                    beyond |-> Beyond(after),
                    kept   |-> IF Ahead(after) THEN {} ELSE EventsAfter(after, Numbered \ Unpublished),
                    sent   |-> {}]
    /\ UNCHANGED <<scenario, rows, counter, history, dbEpoch, backup, emitted, lease, fwd, bus, faults>>

\* Mutation of Drained: a full batch is taken for the last one.
DrainedEarly(batch) == Cardinality(batch) <= Batch

\* partition: a batch that is not full was the last one.
Drained(batch) == Cardinality(batch) < Batch

\* partition: the next batch of published rows after the start, sent again under message IDs of their own.
ResendBatch ==
    /\ resend.phase = "sending"
    /\ LET later == {o \in Numbered \ Unpublished : Less(resend.after, PointOf(rows[o]))}
           batch == {o \in later : Cardinality({p \in later : Less(PointOf(rows[p]), PointOf(rows[o]))}) < Batch}
       IN resend' = [resend EXCEPT
            !.sent = @ \cup {rows[o].ev : o \in batch},
            !.after = IF batch = {} THEN @
                      ELSE PointOf(rows[CHOOSE o \in batch : \A p \in batch : ~Less(PointOf(rows[o]), PointOf(rows[p]))]),
            !.phase = IF Drained(batch) THEN "answered" ELSE @]
    /\ UNCHANGED <<scenario, rows, counter, history, dbEpoch, backup, emitted, lease, fwd, bus, faults>>

\* The transport or the database fails on the way: the consumer is told to ask again.
ResendFails ==
    /\ resend.phase = "sending" /\ Spend("publish")
    /\ resend' = NoResend
    /\ UNCHANGED <<scenario, rows, counter, history, dbEpoch, backup, emitted, lease, fwd, bus>>

-----------------------------------------------------------------------------
(* Reading by cursor.                                                      *)

\* Mutation of Resets: the row after the cursor is not looked for.
ResetsPastEndOnly(c) == c > counter.last

\* ReadAfter at cursor c of the current epoch: the row after it is not there, the reader starts again.
Resets(c) ==
    c # counter.last /\ ~\E o \in Numbered : PointOf(rows[o]) = [epoch |-> dbEpoch, seq |-> c + 1]

-----------------------------------------------------------------------------
(* The database's own life.                                                *)

\* External: the state a later rewind brings back; transactions still open are lost, the ords
\* they drew are not drawn again.
Backup ==
    /\ "rewind" \in scenario.faults
    /\ backup' = [rows |-> [o \in Ords |-> IF rows[o].status = "open" THEN [rows[o] EXCEPT !.status = "rolled_back"]
                                                           ELSE rows[o]],
                  counter |-> counter, history |-> history]
    /\ backup' # backup
    /\ UNCHANGED <<scenario, rows, counter, history, dbEpoch, emitted, lease, fwd, bus, resend, faults>>

\* External: a failover keeps every committed row; a rewind (a restore, a failover that loses its tail) brings
\* an earlier state back, its lease long run out.  Both end open transactions and start a database epoch; the
\* bus keeps its messages.
Recover ==
    /\ \/ /\ rows' = [o \in Ords |-> IF rows[o].status = "open" THEN [rows[o] EXCEPT !.status = "rolled_back"]
                                                           ELSE rows[o]]
          /\ Spend("failover") /\ UNCHANGED <<counter, history, lease, fwd, resend>>
       \/ /\ rows' = backup.rows /\ counter' = backup.counter /\ history' = backup.history
          /\ lease' = "none" /\ Spend("rewind")
          /\ IF "outlive" \in scenario.faults THEN UNCHANGED <<fwd, resend>>
                        ELSE fwd' = [f \in Forwarders |-> IdleFwd] /\ resend' = NoResend
    /\ dbEpoch' = dbEpoch + 1
    /\ UNCHANGED <<scenario, backup, emitted, bus>>

-----------------------------------------------------------------------------
Forward(f) == TakeLease(f) \/ NumberAndRead(f) \/ Publish(f) \/ Mark(f)

Next ==
    \/ \E o \in Ords : Emit(o) \/ EndTx(o)
    \/ \E f \in scenario.forwarders : Forward(f) \/ PublishFails(f) \/ Crash(f)
    \/ LeaseEnds \/ Purge
    \/ ResendAsked \/ ResendBatch \/ ResendFails
    \/ Backup \/ Recover

Spec == Init /\ [][Next]_vars

-----------------------------------------------------------------------------
\* Every table, forwarder, message and request is well formed.
TypeOK ==
    /\ scenario \in Scenarios
    /\ rows \in [Ords -> Row]
    /\ counter \in Counter
    /\ history \subseteq Fork
    /\ dbEpoch \in Nat
    /\ backup \in [rows : [Ords -> Row], counter : Counter, history : SUBSET Fork]
    /\ emitted \in 0..MaxEvents
    /\ lease \in Forwarders \cup {"none"}
    /\ fwd \in [Forwarders -> Fwd]
    /\ \A f \in Forwarders :
         /\ fwd[f].phase = "publishing" => fwd[f].todo # {}
         /\ fwd[f].phase = "marking" => fwd[f].done # {}
    /\ bus \in Seq(Message)
    /\ resend \in Resend
    /\ faults \in Nat

\* The positions of each epoch are 1..n without gaps or repetitions, where n is the counter of the current
\* numbering epoch and the recorded fork of an earlier one (number.go: numberIn).
PositionsContiguous ==
    /\ \A o, p \in Positioned : o # p => PointOf(rows[o]) # PointOf(rows[p])
    /\ {rows[o].seq : o \in {p \in Positioned : rows[p].epoch = counter.epoch}} = 1..counter.last
    /\ \A h \in history : {rows[o].seq : o \in {p \in Positioned : rows[p].epoch = h.old}} = 1..h.fork

\* An event emitted after another one committed gets the later position: numbering follows causality although
\* transactions draw their ord early and commit in any order (producer.go: insert; number.go: numberIn).
CausalOrder ==
    \A o \in Positioned, p \in Ords :
        (rows[p].status \in {"committed", "purged"} /\ rows[p].ev \in rows[o].seen) =>
            p \in Positioned /\ Less(PointOf(rows[p]), PointOf(rows[o]))

\* Events reach the bus for the first time in position order, whatever forwarders overlap, fail and crash
\* (forwarder.go: partition).
FirstPublishedInOrder ==
    \A k \in DOMAIN bus : \A o, p \in Positioned :
        (rows[o].ev = bus[k].ev /\ Less(PointOf(rows[p]), PointOf(rows[o]))) =>
            \E j \in 1..(k - 1) : bus[j].ev = rows[p].ev

\* A row is marked published only when its event is on the bus, so that no row is forgotten or purged before
\* it was published (forwarder.go: markPublished, Purge).
MarkedMeansPublished ==
    \A o \in Positioned : rows[o].marked => OnBus(rows[o].ev)

\* Marks, and so published_at, follow the position order (forwarder.go: partition's deferred mark).
MarksFollowPositions ==
    \A o, p \in Positioned : (rows[o].marked /\ Less(PointOf(rows[p]), PointOf(rows[o]))) => rows[p].marked

\* judge is right about every position a consumer can hold: "ahead" exactly for positions of a lost branch, and
\* without "beyond" nothing after the position was purged (resend.go: judge; forwarder.go: Purge).
JudgeSound ==
    \A k \in DOMAIN bus :
        LET at == [epoch |-> bus[k].epoch, seq |-> bus[k].seq] IN
        /\ Ahead(at) <=> ~\E o \in Positioned : PointOf(rows[o]) = at /\ rows[o].ev = bus[k].ev
        /\ ~Beyond(at) => ~\E o \in Positioned : rows[o].status = "purged" /\ Less(at, PointOf(rows[o]))

\* A reader that keeps a cursor c of the current epoch misses no row without being told to start again: with a row
\* after c, no earlier one after c was purged (readafter.go: ReadAfter; forwarder.go: Purge).
ReadAfterSkipsNothing ==
    counter.epoch = dbEpoch =>
        \A c \in 0..counter.last : ~Resets(c) =>
            \A o \in Positioned, p \in Numbered :
                (rows[o].epoch = dbEpoch /\ rows[p].epoch = dbEpoch /\ c < rows[o].seq /\ rows[o].seq < rows[p].seq) =>
                    rows[o].status # "purged"

\* No purge has stopped half-way: nothing before the position it noted is left.
Settled == \A o \in Numbered : ~Less(PointOf(rows[o]), counter.purged)

\* A reader that keeps a cursor misses no row without being told to start again as long as no purge has stopped half-way,
\* however many rows one transaction of it deletes (readafter.go: ReadAfter; forwarder.go: Purge).
CursorSkipsNothing == Settled => ReadAfterSkipsNothing

\* A redelivery sends every event after the start whose row was published and is still there, however many batches
\* and epochs it spans and whatever is forwarded and purged meanwhile (resend.go: partition).
ResendSendsKept ==
    resend.phase = "answered" =>
        \A o \in Numbered : rows[o].ev \in resend.kept => rows[o].ev \in resend.sent
=============================================================================
