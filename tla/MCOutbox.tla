------------------------------ MODULE MCOutbox ------------------------------
(* Instances of Outbox for TLC.                                            *)
EXTENDS Outbox, TLC

CONSTANTS f1, f2

\* Two forwarders whose steps fail, over failovers that keep every committed row.
Overlapping == [forwarders |-> {f1, f2}, faults |-> {"publish", "mark", "crash", "failover"}, maxFaults |-> 2]

\* Restores and failovers that lose rows.
Rewinding == [forwarders |-> {f1}, faults |-> {"crash", "rewind"}, maxFaults |-> 2]

\* A redelivery while rows are forwarded and purged.
Resending == [forwarders |-> {f1}, faults |-> {"publish", "failover", "resend"}, maxFaults |-> 1]

Everything == {Overlapping, Rewinding, Resending}

Quiet == {[forwarders |-> {f1}, faults |-> {}, maxFaults |-> 0]}

\* Forwarders are interchangeable: nothing orders them.
Symmetry == Permutations(Forwarders)
=============================================================================
