------------------------------- MODULE MCView -------------------------------
(* Scenarios of the view group for TLC: a source with two records, one or  *)
(* two parts, and one or two replicas of the consumer.                     *)
EXTENDS View, TLC

Zero == [k \in {"full", "partial", "delete", "purge", "retention", "foreign", "confirm", "look", "align", "misroute", "fail",
                "keep", "failover", "restore", "reinstall", "rewind", "consumer"} |-> 0]
Plain == [watermark |-> TRUE, start |-> "aligned", parts |-> {0}, workers |-> {1}, poison |-> {}, subjects |-> TRUE,
          midway |-> FALSE, stale |-> FALSE, pulls |-> 3, budget |-> Zero]
Of(s, b) == [s EXCEPT !.budget = b @@ Zero]

\* A projection with a watermark: following, starting, and poisoned messages.
Following == Of(Plain, [full |-> 1, delete |-> 1])
Partials == Of(Plain, [full |-> 1, partial |-> 1])
TwoParts == Of([Plain EXCEPT !.parts = {0,1}, !.pulls = 2], [full |-> 2])
Starting == Of([Plain EXCEPT !.start = "new", !.pulls = 3], [full |-> 1])
Poisoned == Of([Plain EXCEPT !.poison = {2}], [full |-> 2])
PoisonedSilently == Of([Plain EXCEPT !.poison = {2}, !.subjects = FALSE], [full |-> 2])
Retaining == Of([Plain EXCEPT !.pulls = 2], [delete |-> 1, retention |-> 1, purge |-> 1])

\* The source or the consumer goes back, is another one, or answers for another.
FailingOver == Of([Plain EXCEPT !.pulls = 4], [full |-> 1, failover |-> 1])
Restoring == Of([Plain EXCEPT !.stale = TRUE, !.pulls = 4], [delete |-> 1, restore |-> 1])
Reinstalling == Of(Plain, [full |-> 1, reinstall |-> 1, restore |-> 1])
Rewinding == Of([Plain EXCEPT !.midway = TRUE, !.pulls = 4], [full |-> 1, rewind |-> 1, failover |-> 1])
Blocking == Of([Plain EXCEPT !.pulls = 3], [full |-> 1, foreign |-> 1, confirm |-> 1, look |-> 1])
LostAtFirst == Of([Plain EXCEPT !.start = "new", !.pulls = 4], [misroute |-> 1, confirm |-> 1])
Misrouting == Of([Plain EXCEPT !.pulls = 4], [full |-> 1, misroute |-> 1, confirm |-> 1, look |-> 1])
Back == Of([Plain EXCEPT !.pulls = 3], [full |-> 1, keep |-> 1, consumer |-> 1])

\* Two replicas of the consumer pull and align at the same time.
TwoFail == Of([Plain EXCEPT !.workers = {1, 2}, !.pulls = 2], [failover |-> 1, full |-> 1])

\* A projection without a watermark.
Plainly == [Plain EXCEPT !.watermark = FALSE, !.pulls = 0]
PlainFollow == Of(Plainly, [full |-> 1, partial |-> 1, delete |-> 1, align |-> 1])
PlainNew == Of([Plainly EXCEPT !.start = "new"], [full |-> 1, delete |-> 1, purge |-> 1, fail |-> 1])
PlainOver == Of([Plainly EXCEPT !.midway = TRUE], [full |-> 1, delete |-> 1, keep |-> 1, failover |-> 1])
PlainTwo == Of([Plainly EXCEPT !.workers = {1, 2}], [full |-> 1, delete |-> 1, align |-> 2])

Safety == {Following, Partials, TwoParts, Starting, Poisoned, PoisonedSilently, Retaining, FailingOver, Restoring,
           Reinstalling, Rewinding, Blocking, LostAtFirst, Misrouting, Back, TwoFail, PlainFollow, PlainNew, PlainOver, PlainTwo}
Liveness == {Starting, FailingOver}
=============================================================================
