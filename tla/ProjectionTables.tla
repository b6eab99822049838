-------------------------- MODULE ProjectionTables --------------------------
(***************************************************************************)
(* The decision tables of package projection, as operators without state:  *)
(* how a projected row receives an input (Decide), how a declared source   *)
(* identity is judged (DecideEpoch), what a pull's answer for a partition  *)
(* leads to (PullOutcome), the alignment state table (NextState) and what  *)
(* may be concluded from a row (Judge).  View uses them.                   *)
(*                                                                         *)
(* An epoch is <<recovery generation, timeline>>; None stands for nil.     *)
(***************************************************************************)
EXTENDS Integers

None == -1

Later(a, b) == a[1] > b[1] \/ (a[1] = b[1] /\ a[2] > b[2])
Generation(e) == e[1]

-----------------------------------------------------------------------------
(* A row receives an input *)

\* The state a row that takes an input of the kind is in.
StateAfter == [full |-> "complete", partial |-> "incomplete", delete |-> "tombstone", purged |-> "tombstone"]

\* Whether the row takes the input.
Takes(cur, kind, v) ==
    IF kind = "purged" \/ cur.state = "none" \/ cur.old THEN TRUE
    ELSE IF cur.state = "tombstone" THEN v > cur.version
    ELSE IF kind = "full" THEN IF cur.state = "complete" THEN v > cur.version ELSE v >= cur.need
    ELSE IF kind = "partial" THEN v > cur.version
    ELSE v >= cur.version

\* The row's receiving state after the input.
Decide(cur, kind, v) ==
    IF ~Takes(cur, kind, v) THEN [state |-> cur.state, version |-> cur.version, need |-> cur.need]
    ELSE [state |-> StateAfter[kind], version |-> IF kind = "purged" THEN 0 ELSE v,
          need |-> IF kind = "partial" THEN v ELSE 0]

-----------------------------------------------------------------------------
(* Judging a source and a row *)

\* A declared identity against the adopted one (impl "": first contact); a replica's answer is used for no adoption.
DecideEpoch(adopted, r) ==
    IF r.deployment # adopted.deployment THEN "block"
    ELSE IF adopted.impl = "" THEN IF r.primary THEN "establish" ELSE "discard"
    ELSE IF r.impl # adopted.impl THEN "block"
    ELSE IF ~r.primary THEN IF r.system = adopted.system /\ r.epoch = adopted.epoch THEN "use" ELSE "discard"
    ELSE IF r.system # adopted.system /\ Generation(r.epoch) <= Generation(adopted.epoch) THEN "stall"
    ELSE IF Later(r.epoch, adopted.epoch) THEN "adopt"
    ELSE IF Later(adopted.epoch, r.epoch) THEN "ignore"
    ELSE "use"

\* One partition of a pull the adopted source answered.
PullOutcome(requested, need, echo) ==
    IF need = "beyond_retention" THEN "realign"
    ELSE IF need = "rollback_detected" \/ (requested > 0 /\ echo < requested) THEN "stall"
    ELSE "apply_to_echo"

\* The judgement of a row (state "none": no row); lastApplied asks by the last applied facts.  fresh: there is a
\* watermark and it is no older than the decision accepts.
Judge(lastApplied, sourceState, quarantined, fresh, row, adopted) ==
    IF sourceState # "aligned" /\ ~(lastApplied /\ sourceState = "stalled") THEN "unprovable"
    ELSE IF quarantined THEN "unprovable"
    ELSE IF ~lastApplied /\ ~fresh THEN "unprovable"
    ELSE IF row = "none" THEN "provably_absent"
    ELSE IF ~adopted THEN "unprovable"
    ELSE IF row = "complete" THEN "usable"
    ELSE IF row = "tombstone" THEN "provably_absent"
    ELSE "unprovable"

-----------------------------------------------------------------------------
(* The alignment state table *)

\* Whether the generation is past the one the source stalled at.
above(stalledGen, gen) == stalledGen = None \/ gen > stalledGen

\* cur: [status, confirmed, rollback, stalledGen, prior] (the generation a source was blocked at decides nothing);
\* ev: [kind, gen, matches, check].
NextState(cur, ev) ==
    LET to(s) == [cur EXCEPT !.status = s]
        leave(s) == [cur EXCEPT !.status = s, !.confirmed = FALSE]
        stall(c) == [c EXCEPT !.status = "stalled", !.rollback = TRUE, !.stalledGen = ev.gen] IN
    IF ev.kind = "environment_copy" THEN [leave("aligning") EXCEPT !.rollback = FALSE]
    ELSE IF ev.kind = "foreign" /\ cur.status = "blocked" THEN cur
    ELSE IF ev.kind = "foreign" THEN [to("blocked") EXCEPT !.prior = cur.status]
    ELSE IF cur.status = "blocked" THEN
           IF ev.kind = "operator_confirms" THEN [cur EXCEPT !.confirmed = TRUE]
           ELSE IF ~cur.confirmed \/ ev.kind # "primary_response" THEN cur
           ELSE IF ~ev.matches THEN [cur EXCEPT !.confirmed = FALSE]
           ELSE IF cur.prior = "stalled" /\ ~above(cur.stalledGen, ev.gen) THEN leave("stalled")
           ELSE IF ev.check = "failed" THEN stall(leave("stalled"))
           ELSE leave("aligning")
    ELSE IF ev.kind = "rollback" THEN stall(cur)
    ELSE IF cur.status = "stalled" THEN
           IF ev.kind = "adopt_epoch" /\ above(cur.stalledGen, ev.gen) THEN to("aligning") ELSE cur
    ELSE IF ev.kind \in {"adopt_epoch", "first_contact", "beyond_retention"} THEN to("aligning")
    ELSE IF ev.kind = "alignment_done" /\ cur.status = "aligning" THEN
           IF cur.rollback /\ ~above(cur.stalledGen, ev.gen) THEN to("stalled")
           ELSE [to("aligned") EXCEPT !.rollback = FALSE]
    ELSE cur

\* Whether the table asks for a re-fetch.
Refetches(cur, ev) ==
    IF ev.kind = "environment_copy" THEN TRUE
    ELSE IF ev.kind = "foreign" THEN FALSE
    ELSE IF cur.status = "blocked" THEN ev.kind = "primary_response" /\ cur.confirmed /\ ev.matches
    ELSE IF ev.kind = "rollback" THEN TRUE
    ELSE IF cur.status = "stalled" THEN ev.kind = "adopt_epoch" /\ above(cur.stalledGen, ev.gen)
    ELSE ev.kind \in {"adopt_epoch", "first_contact", "beyond_retention"}
=============================================================================
