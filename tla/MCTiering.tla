----------------------------- MODULE MCTiering -----------------------------
(* Scenarios of the archive tiers for TLC: two aggregates, two units, two  *)
(* workers, and in each scenario the operations that meet there.           *)
EXTENDS TierReads

Kinds == {"write", "seal", "transfer", "erase", "reroute", "release", "releaseOld", "destroy", "clean", "get", "history",
          "thaw", "export", "sweep", "hold", "approve", "crash", "lose", "failover", "restore"}

Plain == [start |-> "online", route |-> "object", to |-> "object", pending |-> {}, young |-> {}, scopes |-> {},
          approval |-> {}, expired |-> {}, jobs |-> FALSE,
          rewinds |-> FALSE, loses |-> FALSE, budget |-> [k \in Kinds |-> 0]]
Of(b) == [k \in Kinds |-> IF k \in DOMAIN b THEN b[k] ELSE 0]

\* The way into the tiers: writes up to the seal, two transfers of one unit, a row route, a release under a reader.
Sealing == [Plain EXCEPT !.pending = {"a"}, !.budget = Of([write |-> 1, seal |-> 3, erase |-> 1, get |-> 1])]
TwoTransfers == [Plain EXCEPT !.start = "sealed", !.budget = Of([transfer |-> 2, erase |-> 1, clean |-> 1])]
WarmTransfer == [Plain EXCEPT !.start = "sealed", !.to = "postgres", !.budget = Of([transfer |-> 1, release |-> 1, get |-> 1, clean |-> 1])]
Releasing == [Plain EXCEPT !.start = "sealed", !.young = {"b"}, !.budget = Of([transfer |-> 1, release |-> 1, history |-> 1, get |-> 1])]

\* Erasures against each other, holds, exports and crashes.
TwoErasures == [Plain EXCEPT !.start = "published", !.budget = Of([erase |-> 2, crash |-> 1])]
HeldErasure == [Plain EXCEPT !.start = "sealed", !.scopes = {<<"record", "b">>}, !.budget = Of([erase |-> 1, hold |-> 2, transfer |-> 1])]
Exports == [Plain EXCEPT !.start = "published", !.budget = Of([erase |-> 1, history |-> 1, export |-> 2, sweep |-> 1, crash |-> 1])]

\* A change of route, a thaw, destruction with holds and approvals.
Moving == [Plain EXCEPT !.start = "released", !.route = "postgres", !.budget = Of([reroute |-> 1, releaseOld |-> 2, get |-> 1, crash |-> 1])]
Thawing == [Plain EXCEPT !.start = "released", !.budget = Of([thaw |-> 1, get |-> 1, clean |-> 1])]
Destroying == [Plain EXCEPT !.start = "sealed", !.scopes = {<<"unit", 1>>}, !.approval = {<<"class">>}, !.jobs = TRUE,
                 !.budget = Of([transfer |-> 1, destroy |-> Always, hold |-> 2, get |-> 1])]
Approving == [Plain EXCEPT !.start = "published", !.scopes = {<<"class">>, <<"unit", 1>>}, !.expired = {1},
                 !.budget = Of([destroy |-> 2, approve |-> 2, erase |-> 1])]

\* The database goes back, or the object store loses an object.
FailingOver == [Plain EXCEPT !.start = "sealed", !.rewinds = TRUE, !.budget = Of([transfer |-> 2, failover |-> 1, release |-> 1])]
Restoring == [Plain EXCEPT !.start = "published", !.rewinds = TRUE, !.approval = {<<"class">>}, !.expired = {1},
                 !.budget = Of([erase |-> 1, destroy |-> 1, restore |-> 1])]
RestoringSealed == [Restoring EXCEPT !.start = "sealed", !.budget = Of([erase |-> 1, transfer |-> 1, restore |-> 1])]
Losing == [Plain EXCEPT !.start = "released", !.loses = TRUE, !.budget = Of([lose |-> 1, get |-> 1, history |-> 1])]

\* The jobs run on, whatever blocks them first.
Living == [Plain EXCEPT !.pending = {"a"}, !.young = {"b"}, !.jobs = TRUE,
                 !.budget = Of([seal |-> Always, transfer |-> Always, release |-> Always, crash |-> 1])]

Safety == {Sealing, TwoTransfers, WarmTransfer, Releasing, TwoErasures, HeldErasure, Exports, Moving, Thawing, Destroying,
           Approving, FailingOver, Restoring, RestoringSealed, Losing}
Liveness == {Living, Destroying, RestoringSealed}
=============================================================================
