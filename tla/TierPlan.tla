------------------------------ MODULE TierPlan ------------------------------
(***************************************************************************)
(* What an archive unit is to do next and what holds it back (package      *)
(* tiering, plan.go).  Times are given as the comparisons the function     *)
(* makes with them.                                                        *)
(***************************************************************************)

Tierable(category) == category \in {"completed", "audit"}

\* The action when nothing holds it back, else none with the reasons.
held(action, why) == [action |-> IF why = {} THEN action ELSE "none", reasons |-> why]

Reasons(test) == {why \in DOMAIN test : test[why]}

\* c: [category, residence ("days", "never" or "below_n"), pending, erasable]
\* u: [state, anchorDue, blockers, immutable, grace, recent, oldLeases, backup, retentionDue, approved, holds]
Plan(c, u) ==
    CASE ~Tierable(c.category) -> held("none", {"not_tierable"})
      [] Tierable(c.category) /\ c.residence = "below_n" -> held("none", {"residence_below_n"})
      [] OTHER ->
         CASE u.state = "destroyed" -> held("none", {})
           [] u.state \notin {"destroyed", "open"} /\ u.retentionDue ->
                held("destroy", Reasons([retention_pending |-> c.pending, held |-> u.holds, approval |-> ~u.approved]))
           [] u.state = "open" ->
                IF c.residence = "never" THEN held("none", {"never"})
                ELSE IF ~u.anchorDue THEN held("none", {"residence"})
                ELSE held("seal", u.blockers)
           [] u.state = "sealed" /\ ~u.retentionDue ->
                IF u.immutable /\ c.erasable THEN held("none", {"immutable_route"}) ELSE held("transfer", {})
           [] u.state = "published" /\ ~u.retentionDue ->
                held("release", Reasons([grace |-> u.grace, recent_records |-> u.recent, lease |-> u.oldLeases,
                                         no_backup |-> ~u.backup]))
           [] OTHER -> held("none", {})
=============================================================================
