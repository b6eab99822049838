------------------------------ MODULE MCExtCmd ------------------------------
(* Instances of ExtCmd for TLC.                                            *)
EXTENDS ExtCmd

Operation(dedupe, lastUse, query, maxProcessing, irrevocable) ==
    [dedupe |-> dedupe, lastUse |-> lastUse, query |-> query, maxProcessing |-> maxProcessing,
     finality |-> 1, irrevocable |-> irrevocable]

Case(operation, expires, refuses, faulty, max) ==
    [caps |-> operation, expires |-> expires, refuses |-> refuses, faults |-> faulty, maxFaults |-> max]

Sending == {"not_reached", "maybe_reached", "unavailable", "crash"}

\* Deduplication from the first and from the last use; a processing time; neither, with an expiry, without a query;
\* a refusal; restores of an irrevocable command with either.
Everything == {
    Case(Operation(5, FALSE, TRUE, 0, FALSE), {}, FALSE, Sending \cup {"register"}, 3),
    Case(Operation(5, TRUE, TRUE, 0, FALSE), {}, FALSE, Sending, 3),
    Case(Operation(0, FALSE, TRUE, 3, TRUE), {}, FALSE, (Sending \cup {"evidence", "register"}) \ {"crash"}, 3),
    Case(Operation(0, FALSE, TRUE, 0, FALSE), {2}, FALSE, Sending, 3),
    Case(Operation(0, FALSE, FALSE, 0, FALSE), {}, FALSE, {"maybe_reached", "crash", "register"}, 2),
    Case(Operation(5, FALSE, TRUE, 0, FALSE), {}, TRUE, Sending, 2),
    Case(Operation(5, FALSE, TRUE, 0, TRUE), {}, FALSE, {"maybe_reached", "restore"}, 2),
    Case(Operation(0, FALSE, TRUE, 3, TRUE), {}, FALSE, {"maybe_reached", "restore"}, 2)}

\* A run that crashes after a resend.
CrashedResend == {Case(Operation(0, FALSE, TRUE, 3, FALSE), {}, FALSE, {"maybe_reached", "crash"}, 2)}

\* A processing time beside the dedupe window.
Both == {Case(Operation(5, FALSE, TRUE, 1, FALSE), {}, FALSE, {"maybe_reached"}, 1)}
=============================================================================
