------------------------------- MODULE Archive -------------------------------
(***************************************************************************)
(* What the archive tiers promise (package tiering): where an aggregate's  *)
(* rows are is nobody's business.  A read by key answers what was written; *)
(* once an aggregate is closed it only ever turns erased or destroyed, for *)
(* good, until the database itself goes back to an earlier point.          *)
(***************************************************************************)
EXTENDS Naturals

CONSTANT Aggs

VARIABLES content,  \* what a read by key of each aggregate answers
          closed,   \* the aggregates no longer written
          epoch     \* the database's epoch

Write(a) == /\ a \notin closed
            /\ \E v \in {"two", "erased"} : content' = [content EXCEPT ![a] = v]
            /\ UNCHANGED <<closed, epoch>>

Close == /\ closed' # closed /\ closed \subseteq closed'
         /\ UNCHANGED <<content, epoch>>

Erase(a) == /\ a \in closed /\ content[a] # "destroyed"
            /\ content' = [content EXCEPT ![a] = "erased"]
            /\ UNCHANGED <<closed, epoch>>

\* Closed aggregates are destroyed (content is bound once: a refinement mapping is costly to evaluate).
Destroy == /\ UNCHANGED <<closed, epoch>>
           /\ \E was \in {content}, is \in {content'} :
                /\ is \in [Aggs -> STRING]
                /\ \A a \in Aggs : is[a] = was[a] \/ (a \in closed /\ is[a] = "destroyed")

\* A failover or a full recovery: the database is at an earlier point.
GoBack == epoch' = epoch + 1

Init == /\ content \in [Aggs -> {"one"}]
        /\ closed \in {{}, Aggs}
        /\ epoch = 1
Next == Destroy \/ Close \/ GoBack \/ (\E a \in Aggs : Write(a) \/ Erase(a))
Spec == Init /\ [][Next]_<<content, closed, epoch>>
=============================================================================
