------------------------------ MODULE TierReads ------------------------------
(***************************************************************************)
(* Reading the archive of Tiering: a read by key asks the catalog first    *)
(* and then reads the route or the online tables; a history read takes a   *)
(* snapshot of the catalog under a lease, reads the online part and then   *)
(* every cold unit from its route; an export is a history read written to  *)
(* the cold store by a job; a thaw copies a unit for reads by key.         *)
(***************************************************************************)
EXTENDS Tiering

-----------------------------------------------------------------------------
(* A read by key. *)

Asked(a) == NewOp("get", "", db.unitOf[a], a)
\* The catalog is asked first: destroyed answers not found, not in a unit sends the caller to the online tables.
Get(s) == \E a \in Aggs :
    /\ Start(s, "get")
    /\ db.unitOf[a] # 0 => db.unit[db.unitOf[a]].state # "destroyed"
    /\ LET u == db.unitOf[a]
           o == [Asked(a) EXCEPT !.was = db.said]
       IN Run(s, IF u = 0 \/ db.unit[u].route = "online" THEN [o EXCEPT !.pc = "online"]
                 ELSE [o EXCEPT !.pc = "fetch", !.from = routeOf(db, u)])
    /\ UNCHANGED <<db, objects, evidence, fixed>>

\* The answer, with the contents the aggregate had when the read began and when it answered.
Answer(s, data) == op' = [op EXCEPT ![s].data = data, ![s].pc = "answered", ![s].got = {op[s].was[op[s].agg], db.said[op[s].agg]}]

GetOnline(s) ==
    /\ op[s].kind = "get" /\ op[s].pc = "online"
    /\ Answer(s, [t \in Tables |-> [a \in {op[s].agg} |-> db.row[t][a]]])
    /\ UNCHANGED still

\* A route that cannot answer, or whose copy lacks the root, is unavailable: an error, never "not found".
GetRoute(s) ==
    /\ op[s].kind = "get" /\ op[s].pc = "fetch"
    /\ LET data == readUnitRoute(op[s].from, op[s].unit)
       IN IF data = <<>> \/ data["root"][op[s].agg] = Gone THEN Finish(s) ELSE Answer(s, data)
    /\ UNCHANGED still

Return(s) == op[s].kind \in {"get", "history"} /\ op[s].pc = "answered" /\ Finish(s) /\ UNCHANGED still

-----------------------------------------------------------------------------
(* A history read, alone or as the job of an export. *)

Lease(s) == [slot |-> s, at |-> op[s].at]

TakeSnapshot(s, o) ==
    /\ Run(s, [o EXCEPT !.pc = "online", !.at = db.catalog, !.was = db.said, !.got = {}])
    /\ db' = [db EXCEPT !.lease = @ \cup {[slot |-> s, at |-> db.catalog]}]

History(s) == Start(s, "history") /\ TakeSnapshot(s, NewOp("history", "", 0, Gone)) /\ UNCHANGED <<objects, evidence, fixed>>

ExportSnapshot(s) == /\ op[s].pc = "snapshot" /\ TakeSnapshot(s, op[s]) /\ UNCHANGED <<objects, evidence, budget, fixed>>

\* Left out of the online part: what had left the online tables at the snapshot, and what is destroyed.
OnlineExclusion(a, at) ==
    db.unitOf[a] # 0 /\ LET u == db.unit[db.unitOf[a]]
                        IN (u.route # "online" /\ u.routeVersion <= at) \/ u.state = "destroyed"

Found(from, data, S) == {[agg |-> a, from |-> from, root |-> data["root"][a], child |-> data["child"][a]] :
                            a \in {x \in S : data["root"][x] # Gone}}

HistoryOnline(s) ==
    /\ op[s].kind \in {"history", "export"} /\ op[s].pc = "online"
    /\ op' = [op EXCEPT ![s].pc = "list",
                        ![s].got = Found(0, db.row, {a \in Aggs : ~OnlineExclusion(a, op[s].at)})]
    /\ UNCHANGED still

ColdUnits(at) == {u \in Units : /\ db.unit[u].route # "online" /\ db.unit[u].routeVersion <= at
                                /\ db.unit[u].state \in {"published", "released"}}

HistoryUnits(s) ==
    /\ op[s].pc = "list" /\ op[s].kind \in {"history", "export"}
    /\ op' = [op EXCEPT ![s].pc = "cold", ![s].todo = ColdUnits(op[s].at)]
    /\ UNCHANGED still

\* The read ends: its lease goes with it.
EndLease(s) == db' = [db EXCEPT !.lease = @ \ {Lease(s)}]

\* The next unit: the lease is renewed (one that ran out ends the read), the unit's route looked up.
HistoryNext(s) ==
    /\ op[s].kind \in {"history", "export"} /\ op[s].pc = "cold"
    /\ IF op[s].todo = {} THEN EndLease(s) /\ Step(s, IF op[s].kind = "export" THEN "put" ELSE "answered")
       ELSE IF Lease(s) \in db.lease
       THEN /\ \E u \in op[s].todo : op' = [op EXCEPT ![s].pc = "unit", ![s].unit = u, ![s].from = routeOf(db, u)]
            /\ UNCHANGED db
       ELSE IF op[s].kind = "export"   \* QUERY_PLAN_CHANGED: the export fails with it
       THEN Finish(s) /\ db' = [db EXCEPT !.export.state = IF @ = "pending" THEN "failed" ELSE @]
       ELSE Finish(s) /\ UNCHANGED db
    /\ UNCHANGED <<objects, evidence, budget, fixed>>

HistoryUnit(s) ==
    /\ op[s].kind \in {"history", "export"} /\ op[s].pc = "unit"
    /\ LET u == op[s].unit
           data == readUnitRoute(op[s].from, u)
       IN IF data = <<>> THEN Finish(s) /\ EndLease(s)
          ELSE /\ op' = [op EXCEPT ![s].pc = "cold", ![s].todo = @ \ {u}, ![s].got = @ \cup Found(u, data, Members(u))]
               /\ UNCHANGED db
    /\ UNCHANGED <<objects, evidence, budget, fixed>>

NoExport == [state |-> "none", erased |-> FALSE, expired |-> FALSE]
StartExport(d) == IF d.export.state = "none" THEN [d EXCEPT !.export.state = "pending"] ELSE d

\* Past the sync limit the read is given up and started as an export.
HistoryLate(s) ==
    /\ op[s].kind = "history" /\ op[s].pc = "cold" /\ budget["export"] > 0
    /\ db' = StartExport([db EXCEPT !.lease = @ \ {Lease(s)}])
    /\ Finish(s)
    /\ UNCHANGED <<objects, evidence, budget, fixed>>

-----------------------------------------------------------------------------
(* The export job. *)

Exported == {x \in objects : x.unit = 0}

\* One attempt at a time: an erasure since an earlier attempt takes that attempt's object first, then the mark.
ExportJob(s) ==
    /\ Start(s, "export")
    /\ db.export.state = "pending" /\ \A r \in OpSlots : op[r].kind # "export"
    /\ Run(s, NewOp("export", IF db.export.erased THEN "drop" ELSE "snapshot", 0, Gone))
    /\ UNCHANGED <<db, objects, evidence, fixed>>

ExportDrop(s) == /\ op[s].pc = "drop"
                 /\ objects' = objects \ Exported
                 /\ Step(s, "unmark")
                 /\ UNCHANGED <<db, evidence, budget, fixed>>

ExportUnmark(s) == /\ op[s].pc = "unmark"
                   /\ db' = [db EXCEPT !.export.erased = FALSE]
                   /\ Step(s, "snapshot")
                   /\ UNCHANGED <<objects, evidence, budget, fixed>>

\* The object is created, or an earlier attempt's whole one is taken.
ExportPut(s) ==
    /\ op[s].pc = "put"
    /\ objects' = IF Exported # {} THEN objects
                  ELSE objects \cup {[unit |-> 0, generation |-> 0, version |-> 0, tbl |-> "export", rows |-> op[s].got]}
    /\ Step(s, "complete")
    /\ UNCHANGED <<db, evidence, budget, fixed>>

\* An erasure since the mark was read: not done, the job reads again.
ExportDone(s) ==
    /\ op[s].kind = "export" /\ op[s].pc = "complete"
    /\ db' = IF db.export.state = "pending" /\ ~db.export.erased THEN [db EXCEPT !.export.state = "done"] ELSE db
    /\ Finish(s)
    /\ UNCHANGED <<objects, evidence, budget, fixed>>

ExportExpires == /\ db.export.state \in {"done", "failed"} /\ ~db.export.expired
                 /\ db' = [db EXCEPT !.export.expired = TRUE]
                 /\ UNCHANGED <<objects, evidence, op, budget, fixed>>

\* The expired exports: the object the row names (a failed export names none), then the row.
CleanExports(s) == /\ Start(s, "sweep")
                   /\ db.export.expired
                   /\ objects' = IF db.export.state = "done" THEN objects \ Exported ELSE objects
                   /\ Run(s, NewOp("sweep", "row", 0, Gone))
                   /\ UNCHANGED <<db, evidence, fixed>>

CleanExportRow(s) == /\ op[s].kind = "sweep"
                     /\ db' = [db EXCEPT !.export = NoExport]
                     /\ Finish(s)
                     /\ UNCHANGED <<objects, evidence, budget, fixed>>

-----------------------------------------------------------------------------
(* Thawing a unit. *)

Thaw(s) == \E u \in Units :
    /\ Start(s, "thaw")
    /\ db.unit[u].route # "online"
    /\ Run(s, [NewOp("thaw", "fetch", u, Gone) EXCEPT !.from = db.unit[u]])
    /\ UNCHANGED <<db, objects, evidence, fixed>>

ThawFetch(s) ==
    /\ op[s].kind = "thaw" /\ op[s].pc = "fetch"
    /\ LET data == readUnitRoute(op[s].from, op[s].unit)
       IN IF data = <<>> THEN Finish(s) ELSE op' = [op EXCEPT ![s].pc = "thaw", ![s].data = data]
    /\ UNCHANGED still

ThawWrite(s) ==
    /\ op[s].pc = "thaw"
    /\ LET u == op[s].unit
           row(t) == [unit |-> u, version |-> Thawed, tbl |-> t, rows |-> op[s].data[t]]
       IN db' = [DropThaw(db, u) EXCEPT !.warm = @ \cup {row(t) : t \in Tables}, !.thaw = @ \cup {u},
                                        !.thawEnded = @ \ {u}]
    /\ Finish(s)
    /\ UNCHANGED <<objects, evidence, budget, fixed>>

-----------------------------------------------------------------------------
(* Behaviours. *)

\* Where a scenario starts: everything online, or unit 1 with every aggregate at a later point of its life.
InitUnit == CASE scenario.start = "online" -> Unit0
              [] scenario.start = "sealed" -> [Unit0 EXCEPT !.state = "sealed"]
              [] OTHER -> [Unit0 EXCEPT !.state = scenario.start, !.generation = 1, !.claimEpoch = 1, !.version = 1,
                                        !.route = scenario.route, !.routeVersion = 2]
Moved == scenario.start \in {"published", "released"}
Ones  == [t \in Tables |-> [a \in Aggs |-> "one"]]

InitDb ==
    [row |-> IF scenario.start = "released" THEN [t \in Tables |-> [a \in Aggs |-> Gone]] ELSE Ones,
     unitOf |-> [a \in Aggs |-> IF scenario.start = "online" THEN 0 ELSE 1],
     unit |-> [u \in Units |-> IF u = 1 THEN [InitUnit EXCEPT !.digest = IF scenario.start = "online" THEN <<>> ELSE Ones]
                               ELSE Unit0],
     manifest |-> IF Moved THEN {[unit |-> 1, version |-> 1, route |-> scenario.route, generation |-> 1, digest |-> Ones,
                                  aged |-> FALSE, backed |-> FALSE, superseded |-> FALSE]} ELSE {},
     warm |-> IF Moved /\ scenario.route = "postgres"
              THEN {[unit |-> 1, version |-> 1, tbl |-> t, rows |-> Ones[t]] : t \in Tables} ELSE {},
     due |-> Aggs, pending |-> scenario.pending, young |-> scenario.young, expired |-> scenario.expired, hold |-> {},
     approval |-> scenario.approval,
     thaw |-> {}, thawEnded |-> {}, lease |-> {}, export |-> NoExport, redo |-> {}, history |-> {},
     catalog |-> IF Moved THEN 2 ELSE 1, said |-> [a \in Aggs |-> "one"]]

Init == /\ scenario \in Scenarios
        /\ db = InitDb
        /\ objects = IF Moved /\ scenario.route = "object"
                     THEN {[unit |-> 1, version |-> 1, tbl |-> t, rows |-> Ones[t], generation |-> 1] : t \in Tables} ELSE {}
        /\ evidence = {}
        /\ op = [s \in OpSlots |-> Idle]
        /\ budget = scenario.budget
        /\ epoch = 1
        /\ saved = IF scenario.rewinds THEN db ELSE [none |-> TRUE]
        /\ phase = "open"

Writers(s) == \/ Transfer(s) \/ Reroute(s) \/ readUnit(s) \/ Route(s) \/ Fetch(s) \/ Copy(s) \/ Verify(s) \/ Publish(s)
              \/ Erase(s) \/ EraseSealed(s) \/ EraseClaim(s) \/ ErasePublish(s) \/ EraseJob(s) \/ EraseDone(s)
              \/ Release(s) \/ ReleaseDecide(s) \/ deleteOnline(s)
              \/ ReleaseOld(s) \/ ReleaseOldDecide(s) \/ ReleaseOldObjects(s) \/ ReleaseOldRows(s)
              \/ Destroy(s) \/ DestroyDecide(s) \/ PurgeRows(s) \/ PurgeObjects(s)
              \/ Clean(s) \/ CleanObjects(s) \/ CleanRows(s)
Readers(s) == \/ Get(s) \/ GetOnline(s) \/ GetRoute(s) \/ Return(s)
              \/ History(s) \/ HistoryOnline(s) \/ HistoryUnits(s) \/ HistoryNext(s) \/ HistoryUnit(s) \/ HistoryLate(s)
              \/ ExportJob(s) \/ ExportDrop(s) \/ ExportUnmark(s) \/ ExportSnapshot(s) \/ ExportPut(s) \/ ExportDone(s)
              \/ CleanExports(s) \/ CleanExportRow(s)
              \/ Thaw(s) \/ ThawFetch(s) \/ ThawWrite(s)
Business   == \/ \E a \in Aggs : Write(a) \/ Settle(a) \/ EraseOnline(a)
              \/ Seal
              \/ \E scope \in scenario.scopes : Hold(scope) \/ LiftHold(scope) \/ Approve(scope) \/ Withdraw(scope)
Time       == \/ GracePasses \/ Backup \/ ExportExpires
              \/ \E u \in Units : RetentionEnds(u) \/ ThawEnds(u)
              \/ \E l \in db.lease : LeaseEnds(l)
Faults     == \/ \E s \in OpSlots : Crash(s)
              \/ LoseObject \/ Replicate \/ Failover \/ Restore \/ Replay \/ Open

Next == (\E s \in OpSlots : Writers(s) \/ Readers(s)) \/ Business \/ Time \/ Faults

Spec == Init /\ [][Next]_vars

Running(s) == Writers(s) /\ op[s] # Idle
-----------------------------------------------------------------------------
(* Properties. *)

Agreed(x, y) == IF x = y THEN x ELSE "torn"

\* What a read by key of an aggregate answers now.
Authority(a) ==
    LET u == db.unitOf[a] IN
    IF u = 0 \/ (db.unit[u].route = "online" /\ db.unit[u].state # "destroyed") THEN Agreed(db.row["root"][a], db.row["child"][a])
    ELSE IF db.unit[u].state = "destroyed" THEN "destroyed"
    ELSE LET data == readUnitRoute(routeOf(db, u), u)
         IN IF data = <<>> THEN "unavailable" ELSE Agreed(data["root"][a], data["child"][a])

\* The recovery check's finding on a published or released unit: a table of its current copy is not there.
check(u) == u \in Units /\ db.unit[u].state \in {"published", "released"} /\ \E t \in Tables :
    IF db.unit[u].route = "object" THEN StoredObject(u, Current(db, u).generation, db.unit[u].version, t) = {}
    ELSE StoredRows(db, u, db.unit[u].version, t) = {}

\* Every aggregate reads as it was last written, erased or destroyed, wherever its unit is in its life and while the
\* operations of the scenario, a stale worker's included, are under way (Get, publish, deleteOnline, ReleaseOld,
\* cleanOrphans, eraseAgain).
\* Until an erasure replayed in a recovery is redone the aggregate may read as before it; a copy the store lost is
\* unavailable, and the recovery check reports it.
ReadsAsWritten == phase = "open" => \A a \in Aggs : a \in db.redo \/ Authority(a) = db.said[a]
                                  \/ (check(db.unitOf[a]) /\ Authority(a) = "unavailable")
\* A read by key that answers, answers the whole aggregate, with a content it had while the read ran: the catalog is
\* asked before the online tables, so a release deleting them in batches is never met halfway (Get). A destruction
\* decided between the question and the online read may be.
GetIsWhole == \A s \in OpSlots : op[s].kind = "get" /\ op[s].pc = "answered" =>
    LET a == op[s].agg
        v == Agreed(op[s].data["root"][a], op[s].data["child"][a])
    IN v \in op[s].got \/ db.said[a] = "destroyed" \/ a \in db.redo

\* A history read that answers has every aggregate exactly once, whole, and leaves out only destroyed ones: the lease
\* keeps the online rows of the units published after its snapshot (read, OnlineExclusion, ColdUnits, Release).
HistoryIsComplete == \A s \in OpSlots :
    (op[s].kind = "history" /\ op[s].pc = "answered") \/ (op[s].kind = "export" /\ op[s].pc \in {"put", "complete"}) =>
       \A a \in Aggs : LET found == {f \in op[s].got : f.agg = a} IN
          /\ Cardinality(found) <= 1
          /\ found = {} => db.said[a] = "destroyed"
          /\ \A f \in found : Agreed(f.root, f.child) \in {op[s].was[a], db.said[a]} \/ db.said[a] = "destroyed"

\* An export its requester can fetch holds nothing that has been erased: an erasure expires a finished export and has
\* a pending one read again, whichever attempt wrote the object (VoidExports, writeExport, ExportJobOf).
ExportsForgetErased ==
    db.export.state = "done" /\ ~db.export.expired =>
       /\ Exported # {}
       /\ \A x \in Exported : \A f \in x.rows : db.said[f.agg] = "erased" => f.root = "erased" /\ f.child = "erased"

\* A released unit has no online row left, and a sealed or published one still has them all, as the catalog's digest
\* says: no write passes the barrier and no release runs ahead of its decision (Seal, the barrier, deleteOnline).
OnlineMatchesCatalog == \A u \in Units :
    /\ db.unit[u].state = "sealed" => digest(db, Members(u)) = db.unit[u].digest
    /\ db.unit[u].state = "released" => Left(u)[2] = {}
    /\ db.unit[u].state = "published" =>
          \A t \in Tables, a \in Members(u) : db.row[t][a] \in {db.unit[u].digest[t][a], Gone}

\* No live copy is deleted: the objects or rows of the current version, and those of an older one until it is released
\* after the grace and a backup, are there for a reader that looked the version up before (ReleaseOld, cleanOrphans).
UnsupersededCopiesAreThere ==
    ~scenario.loses /\ phase = "open" => \A m \in db.manifest :
       db.unit[m.unit].state \in {"published", "released"} /\ ~m.superseded
       /\ (m.version = db.unit[m.unit].version \/ ~\E s \in OpSlots : op[s].kind = "releaseOld")
       => \A t \in Tables : IF m.route = "object" THEN StoredObject(m.unit, m.generation, m.version, t) # {}
                            ELSE StoredRows(db, m.unit, m.version, t) # {}

\* Once a recovery is over and its redone erasures are complete, every erasure and destruction the evidence store holds
\* is in force, also one whose unit went back to before it (Replays, replayErasure, EraseJobOf).
EvidenceInForce ==
    phase = "open" /\ db.redo = {} /\ (\A s \in OpSlots : op[s] = Idle) => \A e \in evidence :
       IF e[1] = "erasure" THEN Authority(e[2]) \in {"erased", "destroyed"} \/ e \notin db.history
       ELSE Dangling(db, e) \/ db.unit[e[2]].state = "destroyed" \/ e \notin db.history
Traces(u) == \/ \E t \in Tables, a \in Members(u) : db.row[t][a] # Gone
             \/ \E w \in db.warm : w.unit = u
             \/ \E x \in objects : x.unit = u

Archived(a) == Authority(a) = "one" /\ db.row["root"][a] = Gone

\* What Archive calls the content and the closed aggregates: the answer of a read by key, where the database is open and
\* no replayed erasure waits.
Content == [a \in Aggs |-> IF scenario.loses \/ phase # "open" \/ a \in db.redo THEN db.said[a] ELSE Authority(a)]
Closed  == {a \in Aggs : db.unitOf[a] # 0}
=============================================================================
