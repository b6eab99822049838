------------------------------ MODULE Delivery ------------------------------
(***************************************************************************)
(* The consumer's side of events: the PostgreSQL queue transport (package  *)
(* events/pgqueue) with its concurrent publishes, its read position, its   *)
(* leased deliveries, and the consumer (events.Consumer) that applies an   *)
(* event and its inbox row in one transaction and records dead letters.    *)
(*                                                                         *)
(* One durable subscription that matches every message.  A transaction is  *)
(* one atomic action, except the publishing insert, whose transaction ID,  *)
(* sequence number and commit are separate steps.  Time is not counted:    *)
(* backoffs and leases run out at any moment.                              *)
(***************************************************************************)
EXTENDS Naturals, FiniteSets, Sequences

CONSTANTS
    Msgs,          \* message IDs (Message.DedupID), 1..n
    Workers,       \* the workers of the subscription's instances
    Scenarios,     \* the subscriptions and the faults they meet (see Scenario)
    MaxDeliver,    \* be_bus_subscription.max_deliver: the limit stored with the durable
    AdvanceBatch   \* advanceBatch

\* What a behaviour starts from and never changes: the event each message carries (a redelivery is a message of its
\* own), SubscriptionSpec.Ordered, the SubscriptionSpec.MaxDeliver the consumer declares (the durable keeps the one it
\* was created with), the faults that may happen and the bound on them ("fail", a handler's error, is bounded by
\* MaxDeliver instead).
Scenario == [eventOf   : [Msgs -> Msgs],
             ordered   : BOOLEAN,
             declared  : Nat \ {0},
             faults    : SUBSET {"abort", "fail", "deadletter", "stall", "crash", "retention"},
             maxFaults : Nat]

ASSUME DeliveryConstants ==
    /\ Msgs \subseteq Nat \ {0} /\ Msgs # {} /\ IsFiniteSet(Msgs)
    /\ Workers # {}
    /\ Scenarios \subseteq Scenario
    /\ MaxDeliver \in Nat \ {0} /\ AdvanceBatch \in Nat \ {0}

VARIABLES
    scenario,     \* the member of Scenarios this behaviour is about
    msg,          \* be_bus_message, with the inserts still in progress
    nextXid,      \* the next transaction ID
    nextSeq,      \* the next value of the sequence
    pos,          \* be_bus_subscription.pos_xid (one message a transaction: pos_seq adds nothing)
    dlv,          \* be_bus_delivery
    wrk,          \* the workers
    inbox,        \* be_inbox: the events applied
    effects,      \* the messages whose processing wrote business data, in commit order
    deadLetters,  \* be_dead_letter: the events recorded
    faults

vars == <<scenario, msg, nextXid, nextSeq, pos, dlv, wrk, inbox, effects, deadLetters, faults>>
bus == <<msg, nextXid, nextSeq>>
consumer == <<inbox, effects, deadLetters>>

EventOf(m) == scenario.eventOf[m]

Events == {EventOf(m) : m \in Msgs}

\* A message: before are the messages that were stored when its insert began.
Message == [state  : {"none", "begun", "inserted", "stored", "purged"},
            xid    : Nat,
            seq    : Nat,
            before : SUBSET Msgs]

NoMessage == [state |-> "none", xid |-> 0, seq |-> 0, before |-> {}]

\* A delivery: due stands for not_before, expired for lease_until; attempts is also the lease token, which is new
\* with each claim.
Dlv == [state    : {"none", "ready", "in_flight", "gone"},
        attempts : 0..MaxDeliver,
        due      : BOOLEAN,
        expired  : BOOLEAN]

NoDlv == [state |-> "none", attempts |-> 0, due |-> FALSE, expired |-> FALSE]

\* A worker: advancing found nothing to claim, failed is a last delivery whose dead letter is still to be written,
\* settling has its outcome.
Worker == [phase   : {"idle", "advancing", "handling", "failed", "settling"},
           msg     : Msgs,
           attempt : 0..MaxDeliver,
           outcome : {"none", "Ack", "Nak", "Term"}]

IdleWorker == [phase |-> "idle", msg |-> CHOOSE m \in Msgs : TRUE, attempt |-> 0, outcome |-> "none"]

Handling(w, m) == wrk[w].phase \in {"handling", "failed", "settling"} /\ wrk[w].msg = m

Init ==
    /\ scenario \in Scenarios
    /\ msg = [m \in Msgs |-> NoMessage]
    /\ nextXid = 1 /\ nextSeq = 1 /\ pos = 0
    /\ dlv = [m \in Msgs |-> NoDlv]
    /\ wrk = [w \in Workers |-> IdleWorker]
    /\ inbox = {} /\ effects = <<>> /\ deadLetters = {}
    /\ faults = 0

Spend(f) == f \in scenario.faults /\ faults < scenario.maxFaults /\ faults' = faults + 1

-----------------------------------------------------------------------------
(* Publish: one INSERT that commits by itself; a repeated ID is a no-op.   *)

Stored == {m \in Msgs : msg[m].state = "stored"}

\* The insert's transaction begins.  An event is sent again only after it was published.
Begin(m) ==
    /\ msg[m].state = "none"
    /\ \A k \in Msgs : (k < m /\ EventOf(k) = EventOf(m)) => msg[k].state \in {"stored", "purged"}
    /\ msg' = [msg EXCEPT ![m] = [NoMessage EXCEPT !.state = "begun", !.xid = nextXid, !.before = Stored]]
    /\ nextXid' = nextXid + 1
    /\ UNCHANGED <<scenario, nextSeq, pos, dlv, wrk, consumer, faults>>

\* Its sequence number is drawn.
Insert(m) ==
    /\ msg[m].state = "begun"
    /\ msg' = [msg EXCEPT ![m] = [@ EXCEPT !.state = "inserted", !.seq = nextSeq]]
    /\ nextSeq' = nextSeq + 1
    /\ UNCHANGED <<scenario, nextXid, pos, dlv, wrk, consumer, faults>>

\* It commits, or the publish fails and is made again later.
Commit(m) ==
    /\ msg[m].state = "inserted"
    /\ \/ msg' = [msg EXCEPT ![m].state = "stored"] /\ UNCHANGED faults
       \/ msg' = [msg EXCEPT ![m] = NoMessage] /\ Spend("abort")
    /\ UNCHANGED <<scenario, nextXid, nextSeq, pos, dlv, wrk, consumer>>

\* Purge: the retention passes; the message goes with its deliveries, except one an advance queued meanwhile.
Purge(m) ==
    /\ msg[m].state = "stored" /\ Spend("retention")
    /\ msg' = [msg EXCEPT ![m].state = "purged"]
    /\ \/ dlv' = [dlv EXCEPT ![m].state = "gone"]
       \/ dlv[m].state = "ready" /\ dlv[m].attempts = 0 /\ UNCHANGED dlv
    /\ UNCHANGED <<scenario, nextXid, nextSeq, pos, wrk, consumer>>

-----------------------------------------------------------------------------
(* The subscription's deliveries.                                          *)

\* Mutation of Xmin: every committed message is read at once.
XminNone == nextXid

\* pg_snapshot_xmin: the oldest transaction in progress.
Xmin ==
    LET running == {msg[m].xid : m \in {k \in Msgs : msg[k].state \in {"begun", "inserted"}}} IN
    IF running = {} THEN nextXid ELSE CHOOSE x \in running : \A y \in running : x <= y

\* The messages the read position moves over next.
Readable ==
    LET later == {m \in Stored : pos < msg[m].xid /\ msg[m].xid < Xmin} IN
    {m \in later : Cardinality({k \in later : msg[k].xid < msg[m].xid}) < AdvanceBatch}

Ready(m) == dlv[m].state = "ready" /\ dlv[m].due

\* In flight past its lease with deliveries left.
Expired(m) == dlv[m].state = "in_flight" /\ dlv[m].expired /\ dlv[m].attempts < MaxDeliver

Due(m) == Ready(m) \/ Expired(m)

Queued == {m \in Msgs : dlv[m].state \in {"ready", "in_flight"}}

\* Mutation of Claimable: an ordered subscription passes over a delivery that waits.
ClaimablePassing(m) == Due(m) /\ \A k \in Queued : Due(k) => msg[m].seq <= msg[k].seq

\* The delivery claim (or claimOrdered) takes: the earliest due one, or the earliest one if it is due.
Claimable(m) ==
    Due(m) /\ \A k \in Queued : (scenario.ordered \/ Due(k)) => msg[m].seq <= msg[k].seq

\* work: a claim found nothing, the worker goes on to advance.
claimNothing(w) ==
    /\ wrk[w].phase = "idle" /\ ~\E m \in Msgs : Claimable(m)
    /\ wrk' = [wrk EXCEPT ![w].phase = "advancing"]
    /\ UNCHANGED <<scenario, bus, pos, dlv, consumer, faults>>

\* advance: the next messages are queued and the position moves over them, if there are any.
advance(w) ==
    /\ wrk[w].phase = "advancing"
    /\ wrk' = [wrk EXCEPT ![w] = IdleWorker]
    /\ dlv' = [m \in Msgs |-> IF m \in Readable THEN [NoDlv EXCEPT !.state = "ready", !.due = TRUE] ELSE dlv[m]]
    /\ pos' = IF Readable = {} THEN pos
              ELSE msg[CHOOSE m \in Readable : \A k \in Readable : msg[k].xid <= msg[m].xid].xid
    /\ UNCHANGED <<scenario, bus, consumer, faults>>

\* claim: a delivery whose message is gone is dropped.
claim(w, m) ==
    /\ wrk[w].phase = "idle" /\ Claimable(m)
    /\ IF msg[m].state = "purged"
         THEN dlv' = [dlv EXCEPT ![m].state = "gone"] /\ UNCHANGED wrk
         ELSE /\ dlv' = [dlv EXCEPT ![m] = [state |-> "in_flight", attempts |-> @.attempts + 1,
                                            due |-> FALSE, expired |-> FALSE]]
              /\ wrk' = [wrk EXCEPT ![w] = [phase |-> "handling", msg |-> m,
                                            attempt |-> dlv[m].attempts + 1, outcome |-> "none"]]
    /\ UNCHANGED <<scenario, bus, pos, consumer, faults>>

\* settle's condition: the delivery is in flight under this worker's token.
LeaseHeld(w) ==
    dlv[wrk[w].msg].state = "in_flight" /\ dlv[wrk[w].msg].attempts = wrk[w].attempt

\* settle: the outcome, unless the lease was lost; a last Nak ends the delivery too.
settle(w) ==
    /\ wrk[w].phase = "settling"
    /\ LET m == wrk[w].msg IN
       dlv' = IF ~LeaseHeld(w) THEN dlv
              ELSE IF wrk[w].outcome = "Nak" /\ wrk[w].attempt < MaxDeliver
                THEN [dlv EXCEPT ![m] = [@ EXCEPT !.state = "ready", !.expired = FALSE]]
                ELSE [dlv EXCEPT ![m].state = "gone"]
    /\ wrk' = [wrk EXCEPT ![w] = IdleWorker]
    /\ UNCHANGED <<scenario, bus, pos, consumer, faults>>

Exhausted == {m \in Msgs : dlv[m].state = "in_flight" /\ dlv[m].expired /\ dlv[m].attempts >= MaxDeliver}

\* giveUp: exhausted deliveries whose lease ran out are deleted.
giveUp ==
    /\ Exhausted # {}
    /\ dlv' = [m \in Msgs |-> IF m \in Exhausted THEN [dlv[m] EXCEPT !.state = "gone"] ELSE dlv[m]]
    /\ UNCHANGED <<scenario, bus, pos, wrk, consumer, faults>>

\* not_before passes; lease_until passes, as a fault while a worker still handles the delivery.
Passes(m) ==
    /\ \/ /\ dlv[m].state = "ready" /\ ~dlv[m].due
          /\ dlv' = [dlv EXCEPT ![m].due = TRUE] /\ UNCHANGED faults
       \/ /\ dlv[m].state = "in_flight" /\ ~dlv[m].expired
          /\ dlv' = [dlv EXCEPT ![m].expired = TRUE]
          /\ IF \E w \in Workers : Handling(w, m) /\ LeaseHeld(w)
               THEN Spend("stall") ELSE UNCHANGED faults
    /\ UNCHANGED <<scenario, bus, pos, wrk, consumer>>

-----------------------------------------------------------------------------
(* Consumer.Handle.                                                        *)

\* Mutation of Applied: the inbox is not consulted.
AppliedNever(e) == FALSE

\* The inbox already has the event.
Applied(e) == e \in inbox

\* process succeeds: the inbox row and the business write commit together, once an event.
ProcessOK(w) ==
    /\ wrk[w].phase = "handling"
    /\ LET m == wrk[w].msg IN
       IF Applied(EventOf(m))
         THEN UNCHANGED consumer
         ELSE /\ inbox' = inbox \cup {EventOf(m)} /\ effects' = Append(effects, m)
              /\ UNCHANGED deadLetters
    /\ wrk' = [wrk EXCEPT ![w] = [@ EXCEPT !.phase = "settling", !.outcome = "Ack"]]
    /\ UNCHANGED <<scenario, bus, pos, dlv, faults>>

\* Mutation of MustRecord: off by one, the last failure is taken for an earlier one.
MustRecordLate(w) == wrk[w].attempt > scenario.declared

\* Handle: a failure of the last delivery, as the consumer declares it, is recorded as a dead letter.
MustRecord(w) == wrk[w].attempt >= scenario.declared

\* process fails; what an applied event does again cannot fail.
ProcessFails(w) ==
    /\ wrk[w].phase = "handling" /\ "fail" \in scenario.faults
    /\ ~Applied(EventOf(wrk[w].msg))
    /\ wrk' = [wrk EXCEPT ![w] = IF MustRecord(w) THEN [@ EXCEPT !.phase = "failed"]
                                 ELSE [@ EXCEPT !.phase = "settling", !.outcome = "Nak"]]
    /\ UNCHANGED <<scenario, bus, pos, dlv, consumer, faults>>

\* deadLetter, in a transaction of its own; when it fails the outcome is Nak.
deadLetter(w) ==
    /\ wrk[w].phase = "failed"
    /\ \/ /\ deadLetters' = deadLetters \cup {EventOf(wrk[w].msg)} /\ UNCHANGED faults
          /\ wrk' = [wrk EXCEPT ![w] = [@ EXCEPT !.phase = "settling", !.outcome = "Term"]]
       \/ /\ Spend("deadletter") /\ UNCHANGED deadLetters
          /\ wrk' = [wrk EXCEPT ![w] = [@ EXCEPT !.phase = "settling", !.outcome = "Nak"]]
    /\ UNCHANGED <<scenario, bus, pos, dlv, inbox, effects>>

\* The process dies, or settle's statement fails and its error is dropped.
Crash(w) ==
    /\ wrk[w].phase # "idle" /\ Spend("crash")
    /\ wrk' = [wrk EXCEPT ![w] = IdleWorker]
    /\ UNCHANGED <<scenario, bus, pos, dlv, consumer>>

-----------------------------------------------------------------------------
Publishing(m) == Begin(m) \/ Insert(m) \/ Commit(m)

work(w) ==
    \/ \E m \in Msgs : claim(w, m)
    \/ claimNothing(w) \/ advance(w) \/ settle(w)
    \/ ProcessOK(w) \/ ProcessFails(w) \/ deadLetter(w)

Next ==
    \/ \E m \in Msgs : Publishing(m) \/ Purge(m) \/ Passes(m)
    \/ \E w \in Workers : work(w) \/ Crash(w)
    \/ giveUp

Spec == Init /\ [][Next]_vars

-----------------------------------------------------------------------------
\* Every row and worker is well formed; no delivery is claimed more often than MaxDeliver.
TypeOK ==
    /\ scenario \in Scenarios
    /\ msg \in [Msgs -> Message]
    /\ nextXid \in Nat /\ nextSeq \in Nat /\ pos \in Nat
    /\ dlv \in [Msgs -> Dlv]
    /\ wrk \in [Workers -> Worker]
    /\ inbox \subseteq Events /\ deadLetters \subseteq Events
    /\ effects \in Seq(Msgs)
    /\ faults \in Nat

\* The read position never passes a message that commits later or was not queued: every stored message up to it has
\* had its delivery, although inserts draw their IDs in one order and commit in another (pgqueue.go: advance).
NothingSkipped ==
    \A m \in Msgs :
        /\ (msg[m].state = "stored" /\ msg[m].xid <= pos) => dlv[m].state # "none"
        /\ msg[m].state \in {"begun", "inserted"} => pos < msg[m].xid

\* An event takes effect at most once, through redeliveries, takeovers, stalled handlers and messages that carry it
\* again (consumer.go: process).
EffectOnce ==
    /\ \A i, j \in DOMAIN effects : i # j => EventOf(effects[i]) # EventOf(effects[j])
    /\ inbox = {EventOf(effects[k]) : k \in DOMAIN effects}

\* The faults that may have cost a delivery its record: a worker that died, a dead letter that could not be written.
Lapses == IF {"crash", "deadletter"} \cap scenario.faults = {} THEN 0 ELSE faults

\* A delivery that ended, with nobody still handling it, was applied or recorded as a dead letter.  Short of that every
\* one of the stored deliveries was used, and each one from the declared limit on met a fault of its own: a spare
\* delivery survives a fault each, and nothing is lost without one unless the consumer declares more deliveries than
\* the durable has (consumer.go: Handle; pgqueue.go: Subscribe, settle, giveUp).
HandledOrDead ==
    \A m \in Msgs :
        (dlv[m].state = "gone" /\ msg[m].state = "stored" /\ ~\E w \in Workers : Handling(w, m))
        => \/ EventOf(m) \in inbox \cup deadLetters
           \/ dlv[m].attempts = MaxDeliver /\ scenario.declared + Lapses > MaxDeliver

\* While no handler outlives its lease, nor the retention of its message, an ordered subscription's effects follow the
\* publishing order: a message published before another one began is never applied after it (pgqueue.go:
\* claimOrdered; transport.go: SubscriptionSpec.Ordered).
OrderedEffects ==
    (scenario.ordered /\ {"stall", "retention"} \cap scenario.faults = {}) =>
        \A i, j \in DOMAIN effects : i < j => effects[j] \notin msg[effects[i]].before

\* An ordered subscription has one message in flight at a time, across all its instances (pgqueue.go: claimOrdered).
OneInFlight ==
    scenario.ordered => \A m, k \in Msgs : (dlv[m].state = "in_flight" /\ dlv[k].state = "in_flight") => m = k
=============================================================================
