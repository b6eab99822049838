------------------------------ MODULE Reserve ------------------------------
(***************************************************************************)
(* A reservation participant (reserve/): the branches a coordinator holds  *)
(* on a resource the component owns.                                       *)
(*                                                                         *)
(* The coordinator's commands are in flight from the start, in copies, and *)
(* arrive in any order: late, twice, a cancel before its hold.  A command  *)
(* is one transaction and locks the branch, except Consume: it looks the   *)
(* consumption up before it locks, and another transaction may commit in   *)
(* between.  The component's part (Take, Use, GiveBack) is its stock: a    *)
(* branch's content is the amount it holds, and GiveBack returns the       *)
(* content less what consumptions took off.                                *)
(***************************************************************************)
EXTENDS Integers, FiniteSets, FiniteSetsExt, Sequences, SequencesExt

CONSTANTS
    Branches,       \* branch IDs
    Consumptions,   \* consumption IDs
    ExpireBatch,    \* branches an expiry pass reads at once; 100 in the code
    Scenarios       \* commands in flight, the stock, the faults

VARIABLES
    scenario,
    free,           \* the component's stock nobody holds
    branch,         \* be_reserve_branch, per ID; Absent when none is stored
    used,           \* be_reserve_consumption, per ID
    pending,        \* copies of each command still to arrive
    looking,        \* consumptions looked up and not yet locked
    job,            \* the expiry job: the due branches it still has to judge
    cancelled,      \* history: branches a cancel was answered for
    failures        \* expiry transactions that may still fail

vars == <<scenario, free, branch, used, pending, looking, job, cancelled, failures>>

-----------------------------------------------------------------------------
(* lifecycle.go: the transitions.  A hold or a consumption seen before     *)
(* stays as it is whether its content is the same or other; the answers    *)
(* (repeated, conflict) are left out.                                      *)

AbsentBranch == [state |-> "absent", content |-> 0, taken |-> 0, past |-> FALSE, version |-> 0]

NotUsed == [branch |-> "none", amount |-> 0]

To(s, resource) == [to |-> s, resource |-> resource, changed |-> TRUE, answer |-> "ok"]
Stay(s, answer) == [to |-> s, resource |-> "none", changed |-> FALSE, answer |-> answer]

OnConsume(s, c) ==
    IF s = "absent" THEN Stay(s, "absent")
    ELSE IF s # "committed" THEN Stay(s, "not_committed")
    ELSE IF c = "consume-beyond" THEN Stay(s, "beyond_remaining")
    ELSE IF c = "consume-exact" THEN To("consumed", "consume")
    ELSE To("committed", "consume")

OnCancel(s) ==
    CASE s = "absent" -> To("cancelled", "none")
      [] s \in {"held", "committed"} -> To("released", "give_back")
      [] OTHER -> Stay(s, "ok")

Decide(s, past, c) ==
    CASE c = "query" -> Stay(s, "ok")
      [] c = "confirm" -> IF s # "held" THEN Stay(s, "ok")
                          ELSE IF past THEN To("expired", "give_back") ELSE To("committed", "none")
      [] c = "cancel" -> OnCancel(s)
      [] c = "expire" -> IF s = "held" /\ past THEN To("expired", "give_back") ELSE Stay(s, "ok")
      [] c = "hold-enough" /\ s = "absent" -> To("held", "take")
      [] c = "hold-short" /\ s = "absent" -> To("rejected", "none")
      [] OTHER -> OnConsume(s, c)

-----------------------------------------------------------------------------
(* reserve.go: the commands.  A command is [op, id] with, for a hold, its  *)
(* content and, for a consumption, its ID and amount.                      *)


Left(b) == branch[b].content - branch[b].taken

\* apply and move: what decision d does to branch b, its resources locked.
apply(b, d) ==
    /\ free' = IF d.resource = "give_back" THEN free + Left(b) ELSE free
    /\ branch' = IF d.changed THEN [branch EXCEPT ![b].state = d.to, ![b].version = @ + 1] ELSE branch

Arrives(m) == pending[m] > 0 /\ pending' = [pending EXCEPT ![m] = @ - 1]

\* Hold of a new branch: the row is written first, so a second hold of the
\* same branch waits for it and finds it stored.
HoldNew(m) ==
    LET enough == free >= m.content
        d == Decide("absent", FALSE, IF enough THEN "hold-enough" ELSE "hold-short")
    IN /\ m.op = "hold" /\ branch[m.id].state = "absent" /\ Arrives(m)
       /\ free' = IF d.resource = "take" THEN free - m.content ELSE free
       /\ branch' = [branch EXCEPT ![m.id] = [state |-> d.to, content |-> m.content, taken |-> 0,
                                             past |-> FALSE, version |-> 1]]
       /\ UNCHANGED <<scenario, used, looking, job, cancelled, failures>>

\* A branch seen before answers as it is, or a conflict; nothing changes.
HoldSeen(m) ==
    /\ m.op = "hold" /\ branch[m.id].state # "absent" /\ Arrives(m)
    /\ UNCHANGED <<scenario, free, branch, used, looking, job, cancelled, failures>>

Query(m) ==
    /\ m.op = "query" /\ Arrives(m)
    /\ UNCHANGED <<scenario, free, branch, used, looking, job, cancelled, failures>>

Confirm(m) ==
    LET b == branch[m.id]
    IN /\ m.op = "confirm" /\ Arrives(m)
       /\ IF b.state = "absent" THEN UNCHANGED <<free, branch>>
          ELSE apply(m.id, Decide(b.state, b.past, "confirm"))
       /\ UNCHANGED <<scenario, used, looking, job, cancelled, failures>>

\* Cancel; of a branch not stored it inserts the tombstone.
Cancel(m) ==
    /\ m.op = "cancel" /\ Arrives(m)
    /\ apply(m.id, Decide(branch[m.id].state, branch[m.id].past, "cancel"))
    /\ cancelled' = cancelled \cup {m.id}
    /\ UNCHANGED <<scenario, used, looking, job, failures>>

\* Consume begins: a consumption ID used before is answered at once.
ConsumeLooks(m) ==
    /\ m.op = "consume" /\ Arrives(m)
    /\ looking' = IF used[m.consumption] = NotUsed THEN looking \cup {<<m, pending[m]>>} ELSE looking
    /\ UNCHANGED <<scenario, free, branch, used, job, cancelled, failures>>

\* Mutation of ConsumeTakes: the consumption's row may be there already.
ConsumeTakesTwice(l) ==
    LET m == l[1]
        b == branch[m.id]
        left == Left(m.id) - m.amount
        d == Decide(b.state, b.past, CASE left < 0 -> "consume-beyond" [] left = 0 -> "consume-exact"
                                       [] OTHER -> "consume-within")
    IN /\ looking' = looking \ {l}
       /\ IF d.answer # "ok" THEN UNCHANGED <<branch, used>>
          ELSE /\ branch' = [branch EXCEPT ![m.id].taken = @ + m.amount, ![m.id].state = d.to,
                                           ![m.id].version = @ + 1]
               /\ used' = [used EXCEPT ![m.consumption] = [branch |-> m.id, amount |-> m.amount]]
       /\ UNCHANGED <<scenario, free, pending, job, cancelled, failures>>

\* The rest of Consume, the branch locked: refused, or taken off and recorded.
\* A consumption recorded meanwhile fails the insert and all is rolled back.
ConsumeTakes(l) ==
    LET m == l[1]
        b == branch[m.id]
        left == Left(m.id) - m.amount
        d == Decide(b.state, b.past, CASE left < 0 -> "consume-beyond" [] left = 0 -> "consume-exact"
                                       [] OTHER -> "consume-within")
    IN /\ looking' = looking \ {l}
       /\ IF d.answer # "ok" \/ used[m.consumption] # NotUsed THEN UNCHANGED <<branch, used>>
          ELSE /\ branch' = [branch EXCEPT ![m.id].taken = @ + m.amount, ![m.id].state = d.to,
                                           ![m.id].version = @ + 1]
               /\ used' = [used EXCEPT ![m.consumption] = [branch |-> m.id, amount |-> m.amount]]
       /\ UNCHANGED <<scenario, free, pending, job, cancelled, failures>>

\* The hold period of a branch ends by the database's clock.
PeriodEnds(b) ==
    /\ branch[b].state = "held" /\ ~branch[b].past
    /\ branch' = [branch EXCEPT ![b].past = TRUE]
    /\ UNCHANGED <<scenario, free, used, pending, looking, job, cancelled, failures>>

-----------------------------------------------------------------------------
(* ExpireDue.                                                              *)

Due == {b \in Branches : branch[b].state = "held" /\ branch[b].past}

NoJob == [due |-> <<>>, more |-> FALSE]

\* A pass reads up to ExpireBatch due branches.
ExpireLists ==
    /\ job.due = <<>> /\ (Due # {} \/ job.more)
    /\ \E list \in SetToAllKPermutations(Due) :
        /\ Len(list) = Min({ExpireBatch, Cardinality(Due)})
        /\ job' = [due |-> list, more |-> Len(list) = ExpireBatch]
    /\ UNCHANGED <<scenario, free, branch, used, pending, looking, cancelled, failures>>

\* Mutation of ExpireOne: the listed branch is expired without judging it again.
ExpireOneUnjudged ==
    /\ job.due # <<>>
    /\ apply(Head(job.due), To("expired", "give_back"))
    /\ job' = [job EXCEPT !.due = Tail(@)]
    /\ UNCHANGED <<scenario, used, pending, looking, cancelled, failures>>

\* Each in its own transaction, judged again under the lock.
ExpireOne ==
    /\ job.due # <<>>
    /\ LET b == Head(job.due) IN apply(b, Decide(branch[b].state, branch[b].past, "expire"))
    /\ job' = [job EXCEPT !.due = Tail(@)]
    /\ UNCHANGED <<scenario, used, pending, looking, cancelled, failures>>

\* The transaction fails: the job ends with the error and runs again later.
ExpireFails ==
    /\ job.due # <<>> /\ failures > 0
    /\ failures' = failures - 1
    /\ job' = NoJob
    /\ UNCHANGED <<scenario, free, branch, used, pending, looking, cancelled>>

-----------------------------------------------------------------------------
Init ==
    /\ scenario \in Scenarios
    /\ free = scenario.stock
    /\ branch = [b \in Branches |-> AbsentBranch]
    /\ used = [c \in Consumptions |-> NotUsed]
    /\ pending = scenario.commands
    /\ looking = {}
    /\ job = NoJob
    /\ cancelled = {}
    /\ failures = scenario.failures

Handle(m) == HoldNew(m) \/ HoldSeen(m) \/ Query(m) \/ Confirm(m) \/ Cancel(m) \/ ConsumeLooks(m)

Next ==
    \/ \E m \in DOMAIN pending : Handle(m)
    \/ \E l \in looking : ConsumeTakes(l)
    \/ \E b \in Branches : PeriodEnds(b)
    \/ ExpireLists \/ ExpireOne \/ ExpireFails

Spec == Init /\ [][Next]_vars

-----------------------------------------------------------------------------
(* Properties.                                                             *)

Live == {b \in Branches : branch[b].state \in {"held", "committed"}}

\* Nothing of the stock is lost or given back twice: what is free, what live
\* branches still hold and what consumptions took is always the whole stock
\* (apply gives back at the one transition that ends the branch; ExpireDue
\* judges a listed branch again under its lock).
StockAdds ==
    free + MapThenSumSet(Left, Live)
         + MapThenSumSet(LAMBDA b : branch[b].taken, Branches) = scenario.stock

\* A consumption ID takes its amount off once, and a branch gives no more than
\* it held (Consume's lookup, and the insert under the branch's lock).
ConsumedOnce ==
    \A b \in Branches :
        /\ branch[b].taken = MapThenSumSet(LAMBDA c : used[c].amount,
                                           {c \in Consumptions : used[c].branch = b})
        /\ branch[b].taken <= branch[b].content

\* Once a cancel has been answered the branch holds nothing, also when its
\* hold arrives afterwards (Cancel's tombstone).
CancelledHoldsNothing == cancelled \cap Live = {}
=============================================================================
