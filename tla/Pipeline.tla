------------------------------ MODULE Pipeline ------------------------------
(***************************************************************************)
(* An event's whole way: Outbox publishes into the PostgreSQL queue of     *)
(* Delivery.  A forwarder's publish is the queue's insert, begun, numbered *)
(* and committed while others run; its commit is what puts the event on    *)
(* the outbox's bus.                                                       *)
(*                                                                         *)
(* A process that dies during its insert is the one that sees the insert   *)
(* end and dies then: nothing else waits for it, and the process started   *)
(* in its place is another forwarder.                                      *)
(***************************************************************************)
EXTENDS Naturals, FiniteSets, Sequences

CONSTANTS Forwarders, Batch, PurgeBatch, MaxEvents, Workers, MaxDeliver, AdvanceBatch,
          Deployments   \* pairs of a scenario of Outbox and one of Delivery

VARIABLES
    outScenario, rows, counter, history, dbEpoch, backup, emitted, lease, fwd, bus, resend, outFaults,
    subScenario, msg, nextXid, nextSeq, pos, dlv, wrk, inbox, effects, deadLetters, subFaults,
    inserting   \* the forwarders whose insert is in progress

P == INSTANCE Outbox WITH Scenarios <- {d[1] : d \in Deployments}, scenario <- outScenario, faults <- outFaults
Q == INSTANCE Delivery WITH Msgs <- 1..MaxEvents,
                            Scenarios <- {d[2] : d \in Deployments}, scenario <- subScenario, faults <- subFaults

outVars == <<outScenario, rows, counter, history, dbEpoch, backup, emitted, lease, fwd, bus, resend, outFaults>>
subVars == <<subScenario, msg, nextXid, nextSeq, pos, dlv, wrk, inbox, effects, deadLetters, subFaults>>
vars == <<outVars, subVars, inserting>>

Events == 1..MaxEvents

\* Every event is one message here, and nothing is restored, asked for again or past its retention: Outbox and Delivery
\* are about those.
ASSUME PipelineConstants ==
    /\ Forwarders # {} /\ Workers # {} /\ MaxEvents \in Nat \ {0}
    /\ Batch \in Nat \ {0} /\ PurgeBatch \in Nat \ {0} /\ MaxDeliver \in Nat \ {0} /\ AdvanceBatch \in Nat \ {0}
    /\ \A d \in Deployments :
         /\ d[1] \in P!Scenario /\ {"rewind", "outlive", "resend"} \cap d[1].faults = {}
         /\ d[2] \in Q!Scenario /\ "retention" \notin d[2].faults /\ d[2].eventOf = [m \in Events |-> m]

Init == P!Init /\ Q!Init /\ <<outScenario, subScenario>> \in Deployments /\ inserting = {}

\* The event a forwarder publishes next.
Publishes(f) == P!NextToPublish(fwd[f].todo)[1].ev

\* Publish: the insert begins, unless another one of the same ID is in progress (it waits) or stored.
InsertBegins(f) ==
    /\ fwd[f].phase = "publishing" /\ f \notin inserting
    /\ Q!Begin(Publishes(f))
    /\ inserting' = inserting \cup {f}
    /\ UNCHANGED outVars

\* Its sequence number is drawn.
InsertNumbered(f) ==
    /\ f \in inserting /\ Q!Insert(Publishes(f))
    /\ UNCHANGED <<outVars, inserting>>

\* It ends: stored and answered, stored with the answer lost, or failed.
InsertEnds(f) ==
    /\ f \in inserting /\ Q!Commit(Publishes(f))
    /\ P!Publish(f) \/ P!PublishFails(f)
    /\ bus' # bus <=> msg'[Publishes(f)].state = "stored"
    /\ bus' = bus => fwd'[f].done = fwd[f].done
    /\ inserting' = inserting \ {f}

\* Mutation of InsertRepeated: an insert that waits for another one of the same ID is taken for a repeated one.
InsertRepeatedEarly(f) ==
    /\ fwd[f].phase = "publishing" /\ f \notin inserting
    /\ msg[Publishes(f)].state # "none"
    /\ P!Publish(f)
    /\ UNCHANGED <<subVars, inserting>>

\* The ID is stored already: the insert does nothing.
InsertRepeated(f) ==
    /\ fwd[f].phase = "publishing" /\ f \notin inserting
    /\ msg[Publishes(f)].state \in {"stored", "purged"}
    /\ P!Publish(f)
    /\ UNCHANGED <<subVars, inserting>>

Forward(f) ==
    \/ (P!TakeLease(f) \/ P!NumberAndRead(f) \/ P!Mark(f)) /\ UNCHANGED <<subVars, inserting>>
    \/ InsertBegins(f) \/ InsertNumbered(f) \/ InsertEnds(f) \/ InsertRepeated(f)

ForwarderDies(f) == f \notin inserting /\ P!Crash(f) /\ UNCHANGED <<subVars, inserting>>

\* What only the producer's database sees.
Produce ==
    /\ \/ \E o \in P!Ords : P!Emit(o) \/ P!EndTx(o)
       \/ P!Purge \/ P!Recover
    /\ UNCHANGED <<subVars, inserting>>

LeaseEnds == P!LeaseEnds /\ UNCHANGED <<subVars, inserting>>

\* What only the consumer's side sees.
Consume(w) == Q!work(w) /\ UNCHANGED <<outVars, inserting>>
WorkerDies(w) == Q!Crash(w) /\ UNCHANGED <<outVars, inserting>>
Passes(m) == Q!Passes(m) /\ UNCHANGED <<outVars, inserting>>
GiveUp == Q!giveUp /\ UNCHANGED <<outVars, inserting>>

Next ==
    \/ Produce \/ LeaseEnds
    \/ \E f \in outScenario.forwarders : Forward(f) \/ ForwarderDies(f)
    \/ \E w \in Workers : Consume(w) \/ WorkerDies(w)
    \/ \E m \in Events : Passes(m)
    \/ GiveUp

Spec == Init /\ [][Next]_vars

\* The poll keeps coming back to partitions with rows to forward, inserts end and leases run out; workers poll and
\* every handler returns; clocks advance.
FairSpec ==
    /\ Spec
    /\ \A f \in Forwarders : WF_vars(Forward(f))
    /\ WF_vars(LeaseEnds) /\ WF_vars(GiveUp)
    /\ \A w \in Workers : WF_vars(Consume(w))
    /\ \A m \in Events : WF_vars(Passes(m))

-----------------------------------------------------------------------------
\* The committed row of an event.
RowsOf(e) == {o \in P!Ords : rows[o].ev = e /\ rows[o].status \in {"committed", "purged"}}

StageOf(e) ==
    CASE e \in inbox -> "applied"
      [] e \in deadLetters \ inbox -> "dead"
      [] e \notin inbox \cup deadLetters -> IF RowsOf(e) = {} THEN "none" ELSE "committed"

Flow == INSTANCE EventFlow WITH
            ordered <- subScenario.ordered,
            stage   <- [e \in Events |-> StageOf(e)],
            causes  <- [e \in Events |-> UNION {rows[o].seen : o \in RowsOf(e)}]

\* The composed state is well formed: a forwarder with an insert in progress is publishing that event, and no two
\* insert the same one; what the outbox takes to be on the bus is exactly what the queue has stored.
TypeOK ==
    /\ P!TypeOK /\ Q!TypeOK
    /\ \A f \in inserting : fwd[f].phase = "publishing" /\ msg[Publishes(f)].state \in {"begun", "inserted"}
    /\ \A f, g \in inserting : Publishes(f) = Publishes(g) => f = g
    /\ \A e \in Events : P!OnBus(e) <=> msg[e].state = "stored"

\* The queue's own order is the outbox's: while forwarders overlap, fail and die, an event that follows another one
\* in the partition never gets the smaller number in the queue (forwarder.go: partition; pgqueue.go: Publish).
QueueFollowsPositions ==
    \A o, p \in P!Positioned :
        (P!Less(P!PointOf(rows[o]), P!PointOf(rows[p])) /\ msg[rows[p].ev].state = "stored") =>
            /\ msg[rows[o].ev].state = "stored"
            /\ msg[rows[o].ev].seq < msg[rows[p].ev].seq

\* Outbox, forwarders, queue and consumer together keep what EventFlow promises: an event takes effect or becomes a
\* dead letter only after its transaction committed, and on an ordered subscription only after every event committed
\* before it was emitted has ended (number.go: numberIn; forwarder.go: partition; pgqueue.go: advance, claimOrdered).
ImplementsEventFlow == Flow!Spec

\* Every committed event is eventually applied or recorded as a dead letter, whatever fails or dies once on its way
\* (forwarder.go: Run; pgqueue.go: work; consumer.go: Handle).
EveryEventEnds == Flow!Fairness
=============================================================================
