------------------------------ MODULE EventFlow ------------------------------
(***************************************************************************)
(* What package events promises of one partition and one subscription,     *)
(* with no outbox, forwarder, queue or worker in sight: an event takes     *)
(* effect only after the transaction that emitted it committed, at most    *)
(* once, or else ends as a dead letter, and one of the two happens.  On an *)
(* ordered subscription it takes effect after the events it may have been  *)
(* caused by have ended.                                                   *)
(***************************************************************************)
EXTENDS Naturals

CONSTANT Events

VARIABLES
    ordered,  \* SubscriptionSpec.Ordered
    stage,    \* how far each event is
    causes    \* the events already committed when a committed one was emitted

vars == <<ordered, stage, causes>>

Stages == {"none", "committed", "applied", "dead"}

TypeOK ==
    /\ ordered \in BOOLEAN
    /\ stage \in [Events -> Stages]
    /\ causes \in [Events -> SUBSET Events]

Init ==
    /\ ordered \in BOOLEAN
    /\ stage = [e \in Events |-> "none"]
    /\ causes = [e \in Events |-> {}]

Commit(e) ==
    /\ stage[e] = "none"
    /\ stage' = [stage EXCEPT ![e] = "committed"]
    /\ \E S \in SUBSET {c \in Events : stage[c] # "none"} : causes' = [causes EXCEPT ![e] = S]
    /\ UNCHANGED ordered

\* Whether an ordered subscription has come to the event.
Turn(e) == ordered => \A c \in causes[e] : stage[c] \in {"applied", "dead"}

\* Without order, a handler that outlives its lease may still apply an event whose other deliveries all failed.
Apply(e) ==
    /\ stage[e] = "committed" \/ (stage[e] = "dead" /\ ~ordered)
    /\ Turn(e)
    /\ stage' = [stage EXCEPT ![e] = "applied"]
    /\ UNCHANGED <<ordered, causes>>

DeadLetter(e) ==
    /\ stage[e] = "committed" /\ Turn(e)
    /\ stage' = [stage EXCEPT ![e] = "dead"]
    /\ UNCHANGED <<ordered, causes>>

Next == \E e \in Events : Commit(e) \/ Apply(e) \/ DeadLetter(e)

Spec == Init /\ [][Next]_vars

\* A committed event ends, one way or the other, once it is its turn.
Fairness == \A e \in Events : WF_vars(stage[e] = "committed" /\ (Apply(e) \/ DeadLetter(e)))
=============================================================================
