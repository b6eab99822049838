------------------------------- MODULE Memory -------------------------------
(***************************************************************************)
(* The transport in memory (events/memory.go), with one durable             *)
(* subscription: publishing with deduplication, the queue of ready items,   *)
(* ack deadlines, redelivery with a pause, and the workers of one process.  *)
(*                                                                         *)
(* Every section under the transport's lock is one action.  A message is    *)
(* its position in the log; times are whether a deadline or a pause has     *)
(* passed.  Matching of subjects is a set of message IDs.                   *)
(***************************************************************************)
EXTENDS Integers, FiniteSets, FiniteSetsExt, Sequences, SequencesExt

CONSTANTS
    Takers,         \* the subscription's workers
    MaxDeliver,     \* deliveries of a message
    Scenarios       \* messages to publish, the ones that match, order, and faults

VARIABLES
    scenario,
    bus,            \* the log and the IDs seen
    durable,        \* the subscription: exists, cursor, ready queue, in flight, attempts, and the positions acknowledged
    times,          \* positions past their ack deadline, and positions whose pause lasts
    taker,          \* the workers
    slips           \* publishes, deadlines, naks and stops still to come

mvars == <<scenario, bus, durable, times, taker, slips>>

Slips(what) == slips[what] > 0 /\ slips' = [slips EXCEPT ![what] = @ - 1]

Attempt(p) == durable.attempt[p]

-----------------------------------------------------------------------------
(* Publish, fill, Subscribe.                                               *)

\* fill: the new entries of the log that match are ready.
fill(d, log) ==
    LET new == SelectSeq([i \in 1 .. Len(log) - d.cursor |-> d.cursor + i], LAMBDA p : log[p] \in scenario.matching) IN
    [d EXCEPT !.cursor = Len(log), !.ready = @ \o new,
              !.attempt = [p \in 1 .. Len(log) |-> IF p \in DOMAIN @ THEN @[p] ELSE 0]]

Publish(id) ==
    /\ Slips("publish")
    /\ bus' = IF id \in bus.seen THEN bus ELSE [log |-> Append(bus.log, id), seen |-> bus.seen \cup {id}]
    /\ durable' = IF durable.exists THEN fill(durable, bus'.log) ELSE durable
    /\ UNCHANGED <<scenario, times, taker>>

Subscribe ==
    /\ ~durable.exists
    /\ durable' = fill([durable EXCEPT !.exists = TRUE], bus.log)
    /\ taker' = [w \in Takers |-> [pc |-> "free"]]
    /\ UNCHANGED <<scenario, bus, times, slips>>

\* A process subscribes again to the durable another one left.
Resubscribe ==
    /\ durable.exists /\ \A w \in Takers : taker[w].pc = "stopped"
    /\ taker' = [w \in Takers |-> [pc |-> "free"]]
    /\ UNCHANGED <<scenario, bus, durable, times, slips>>

-----------------------------------------------------------------------------
(* next and work.                                                          *)

\* Items past their ack deadline are ready again, unless that was their last delivery; in the order in which the map
\* of those in flight is read, which is any.
Expired(d) ==
    {[d EXCEPT !.inflight = @ \ times.late, !.ready = @ \o again] :
        again \in SetToSeqs({p \in d.inflight \cap times.late : Attempt(p) < MaxDeliver})}

\* One in flight for an ordered durable, the earliest first even while it pauses; else the first one due.
Deliverable(d, paused) ==
    IF scenario.ordered THEN IF d.inflight = {} /\ d.ready # <<>> THEN {Min(Range(d.ready))} \ paused ELSE {}
    ELSE LET due == SelectSeq(d.ready, LAMBDA p : p \notin paused) IN IF due = <<>> THEN {} ELSE {Head(due)}

Removed(q, p) == LET i == CHOOSE n \in DOMAIN q : q[n] = p IN RemoveAt(q, i)

Take(w) ==
    /\ taker[w].pc = "free"
    /\ \E d \in Expired(durable) : \E p \in Deliverable(d, times.paused \ times.late) :
        /\ durable' = [d EXCEPT !.ready = Removed(@, p), !.inflight = @ \cup {p}, !.attempt[p] = @ + 1]
        /\ taker' = [taker EXCEPT ![w] = [pc |-> "handling", p |-> p, attempt |-> Attempt(p) + 1]]
    /\ times' = [late |-> {}, paused |-> times.paused \ times.late]
    /\ UNCHANGED <<scenario, bus, slips>>

\* A look that finds nothing to deliver takes the expired items out of flight all the same.
Sweep(w) ==
    /\ taker[w].pc = "free" /\ times.late # {}
    /\ durable' \in {d \in Expired(durable) : Deliverable(d, times.paused \ times.late) = {}}
    /\ times' = [late |-> {}, paused |-> times.paused \ times.late]
    /\ UNCHANGED <<scenario, bus, taker, slips>>

\* The delivery is still the one in flight: a late outcome of an expired one changes nothing.
Own(w) == taker[w].p \in durable.inflight /\ Attempt(taker[w].p) = taker[w].attempt

InProgress(w) ==
    /\ taker[w].pc = "handling" /\ Own(w) /\ taker[w].p \in times.late
    /\ times' = [times EXCEPT !.late = @ \ {taker[w].p}]
    /\ UNCHANGED <<scenario, bus, durable, taker, slips>>

Ack(w) ==
    /\ taker[w].pc = "handling"
    /\ durable' = IF Own(w) THEN [durable EXCEPT !.inflight = @ \ {taker[w].p}, !.acked = @ \cup {taker[w].p}] ELSE durable
    /\ times' = [times EXCEPT !.late = IF Own(w) THEN @ \ {taker[w].p} ELSE @]
    /\ taker' = [taker EXCEPT ![w] = [pc |-> "free"]]
    /\ UNCHANGED <<scenario, bus, slips>>

Nak(w) ==
    LET p == taker[w].p again == Own(w) /\ Attempt(p) < MaxDeliver IN
    /\ taker[w].pc = "handling" /\ Slips("nak")
    /\ durable' = [durable EXCEPT !.inflight = IF Own(w) THEN @ \ {p} ELSE @,
                                  !.ready = IF again THEN Append(@, p) ELSE @]
    /\ times' = [late |-> IF Own(w) THEN times.late \ {p} ELSE times.late,
                 paused |-> IF again THEN times.paused \cup {p} ELSE times.paused]
    /\ taker' = [taker EXCEPT ![w] = [pc |-> "free"]]
    /\ UNCHANGED <<scenario, bus>>

\* Stop: the workers end after what they handle.
StopTaker(w) ==
    /\ taker[w].pc = "free" /\ Slips("stop")
    /\ taker' = [taker EXCEPT ![w] = [pc |-> "stopped"]]
    /\ UNCHANGED <<scenario, bus, durable, times>>

-----------------------------------------------------------------------------
(* Time.                                                                   *)

AckDeadline(p) ==
    /\ p \in durable.inflight \ times.late /\ Slips("deadline")
    /\ times' = [times EXCEPT !.late = @ \cup {p}]
    /\ UNCHANGED <<scenario, bus, durable, taker>>

PauseEnds(p) ==
    /\ p \in times.paused
    /\ times' = [times EXCEPT !.paused = @ \ {p}]
    /\ UNCHANGED <<scenario, bus, durable, taker, slips>>

Init ==
    /\ scenario \in Scenarios
    /\ bus = [log |-> <<>>, seen |-> {}]
    /\ durable = [exists |-> FALSE, cursor |-> 0, ready |-> <<>>, inflight |-> {}, attempt |-> <<>>, acked |-> {}]
    /\ times = [late |-> {}, paused |-> {}]
    /\ taker = [w \in Takers |-> [pc |-> "off"]]
    /\ slips = scenario.slips

Next ==
    \/ \E id \in scenario.messages : Publish(id)
    \/ Subscribe \/ Resubscribe
    \/ \E w \in Takers : Take(w) \/ Sweep(w) \/ InProgress(w) \/ Ack(w) \/ Nak(w) \/ StopTaker(w)
    \/ \E p \in 1 .. Len(bus.log) : AckDeadline(p) \/ PauseEnds(p)

Spec == Init /\ [][Next]_mvars

-----------------------------------------------------------------------------
(* Properties.                                                             *)

Ended(p) == p \in durable.acked \/ (Attempt(p) = MaxDeliver /\ p \notin durable.inflight)

\* An ordered durable delivers a message only when every earlier one was acknowledged or given up, whatever was
\* redelivered (next).
MemoryInOrder ==
    scenario.ordered => \A q \in DOMAIN durable.attempt : Attempt(q) > 0 =>
        \A p \in 1 .. q - 1 : bus.log[p] \in scenario.matching => Ended(p)

\* A message acknowledged, or delivered for the last time, is not delivered again, also when the outcome of an earlier
\* delivery comes late (work).
MemoryEndsOnce ==
    \A p \in DOMAIN durable.attempt : Ended(p) => durable'.attempt[p] = Attempt(p)

\* Every message that matches is acknowledged or given up.
AllEnded == durable.exists /\ \A p \in 1 .. Len(bus.log) : bus.log[p] \in scenario.matching => Ended(p)
=============================================================================
