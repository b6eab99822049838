----------------------------- MODULE MCDelivery -----------------------------
(* Instances of Delivery for TLC.                                          *)
EXTENDS Delivery, TLC

CONSTANTS w1, w2

\* Every message carries an event of its own.
Distinct == [m \in Msgs |-> m]

\* The last message carries the first event again.
FirstAgain == [m \in Msgs |-> IF m = Cardinality(Msgs) THEN 1 ELSE m]

Subscription(events, inOrder, declares, faulty, max) ==
    [eventOf |-> events, ordered |-> inOrder, declared |-> declares, faults |-> faulty, maxFaults |-> max]

\* Workers that die and handlers that outlive their lease, with an event that is sent again.
Redelivered == Subscription(FirstAgain, FALSE, MaxDeliver, {"abort", "fail", "stall", "crash"}, 1)

\* Handlers that fail for good, while messages pass their retention.
Failing == Subscription(FirstAgain, FALSE, MaxDeliver, {"fail", "stall", "retention"}, 1)

\* An ordered subscription with a delivery to spare.
InOrder == Subscription(Distinct, TRUE, MaxDeliver - 1, {"abort", "fail", "deadletter", "crash"}, 1)

\* A consumer that declares more deliveries than its durable was created with.
Raised == Subscription(Distinct, TRUE, MaxDeliver + 1, {"fail"}, 0)

Everything == {Redelivered, Failing, InOrder, Raised}

OrderedQuiet == {Subscription(Distinct, TRUE, MaxDeliver, {}, 0)}

\* Workers are interchangeable: nothing orders them.
Symmetry == Permutations(Workers)
=============================================================================
