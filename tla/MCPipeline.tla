----------------------------- MODULE MCPipeline -----------------------------
(* Instances of Pipeline for TLC.                                          *)
EXTENDS Pipeline

CONSTANTS f1, f2, w1

Producer(fs, faulty) == [forwarders |-> fs, faults |-> faulty, maxFaults |-> 1]

Subscription(inOrder, faulty) ==
    [eventOf |-> [m \in 1..MaxEvents |-> m], ordered |-> inOrder, declared |-> MaxDeliver, faults |-> faulty, maxFaults |-> 1]

\* Two forwarders, one of which may die; a forwarder and handlers that fail; a worker that dies; a handler that
\* outlives its lease.
Everything == {
    <<Producer({f1, f2}, {"crash"}), Subscription(TRUE, {})>>,
    <<Producer({f1}, {"publish", "mark", "failover"}), Subscription(TRUE, {"abort", "fail"})>>,
    <<Producer({f1}, {}), Subscription(TRUE, {"crash"})>>,
    <<Producer({f1}, {}), Subscription(FALSE, {"fail", "stall"})>>}
=============================================================================
