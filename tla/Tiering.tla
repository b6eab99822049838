------------------------------- MODULE Tiering -------------------------------
(***************************************************************************)
(* The archive tiers of one business class (package tiering): aggregates   *)
(* are sealed into units, a unit is copied to a warm (PostgreSQL) or cold  *)
(* (object) route, published there, released from the online tables,       *)
(* written again by an erasure or a route change, and destroyed.           *)
(*                                                                         *)
(* A transaction is one step and a function of the database record db.     *)
(* Everything an operation does between two transactions (reading a route, *)
(* writing an object, verifying) is a step of its own, taken by the        *)
(* operation running in a slot (op): the slots are the job workers and     *)
(* callers of every member process, so two workers may hold the same unit. *)
(*                                                                         *)
(* Time is kept as what the code asks of it: whether a unit or a manifest  *)
(* is past the grace (aged), whether a backup finished after it (backed),  *)
(* whether a lease, a thawed copy, an export or a retention has run out.   *)
(***************************************************************************)
EXTENDS Integers, FiniteSets, Sequences, TierPlan

CONSTANTS Aggs,        \* the aggregates of the class
          MaxUnits,    \* archive units 1..MaxUnits
          MaxMembers,  \* Catalog.MaxMembers: aggregates sealed into one unit
          Batch,       \* Catalog.Batch: online rows deleted in one transaction
          EraseAttempts, \* eraseAttempts: how often an erasure starts again
          OpSlots,     \* 1..n: the operations that may run at the same time
          Scenarios    \* what happens in one behaviour: see Init

VARIABLES scenario,  \* the scenario of this behaviour
          db,        \* the component's database
          objects,   \* the objects of the cold store
          evidence,  \* tightenings the evidence store holds: <<category, object>>
          op,        \* what each slot runs
          budget,    \* how often each operation may still start
          epoch,     \* the database's epoch: raised when it goes back
          saved,     \* the database as the last backup (or the replica) has it
          phase      \* "open", or "recovery" while a full recovery replays

vars == <<scenario, db, objects, evidence, op, budget, epoch, saved, phase>>

Units  == 1..MaxUnits
Tables == {"root", "child"}
Gone   == "gone"       \* no such row
Always == 99           \* the budget of a job that runs again and again, one run at a time
Thawed == -1           \* the version of a thawed copy

-----------------------------------------------------------------------------
(* The catalog. *)

Unit0 == [state |-> "none", generation |-> 0, claimEpoch |-> 0, digest |-> <<>>, route |-> "online", version |-> 0,
          routeVersion |-> 0, aged |-> FALSE, backed |-> FALSE, blocked |-> FALSE]

MembersIn(d, u) == {a \in Aggs : d.unitOf[a] = u}
Members(u)      == MembersIn(db, u)

\* The canonical digest of a unit's online rows: it tells any two contents apart (catalog.go digest, UnitDigest).
digest(d, S) == [t \in Tables |-> [a \in S |-> d.row[t][a]]]

Past(state) == state \in {"sealed", "published", "released", "destroyed"}

\* A class, or a unit, or a record is under a live hold (holds.go holdsOn); approvedFor is its mirror.
ScopesOf(u)    == {<<"class">>, <<"unit", u>>} \cup {<<"record", a>> : a \in Members(u)}
holdsOn(u)     == db.hold \cap ScopesOf(u) # {}
approvedFor(u) == db.approval \cap {<<"class">>, <<"unit", u>>} # {}
\* Leases from before the unit's route moved (release.go, reroute.go).
OldLeases(u) == \E l \in db.lease : l.at < db.unit[u].routeVersion

Current(d, u) == CHOOSE m \in d.manifest : m.unit = u /\ m.version = d.unit[u].version

-----------------------------------------------------------------------------
(* Slots. *)

\* An operation: the claim and the route it works with, the content it read, what is left to do.
NewOp(kind, pc, u, a) ==
    [kind |-> kind, pc |-> pc, unit |-> u, agg |-> a, claim |-> Unit0, was |-> <<>>, from |-> Unit0, to |-> "",
     data |-> <<>>, todo |-> <<>>, tries |-> 0, at |-> 0, got |-> {}]

Idle == NewOp("idle", "", 0, Gone)

Free(s) == op[s] = Idle /\ \A r \in OpSlots : r < s => op[r] # Idle

Spend(k) == /\ budget[k] > 0
            /\ budget' = IF budget[k] = Always THEN budget ELSE [budget EXCEPT ![k] = @ - 1]

Start(s, k) == /\ phase = "open" /\ Free(s) /\ Spend(k)
               /\ budget[k] = Always => \A r \in OpSlots : op[r].kind # k
Run(s, o)   == op' = [op EXCEPT ![s] = o]
Step(s, pc) == op' = [op EXCEPT ![s].pc = pc]
Finish(s)   == op' = [op EXCEPT ![s] = Idle]

fixed == <<scenario, epoch, saved, phase>>

\* One transaction outside any running operation.
Tx(k) == phase = "open" /\ Spend(k) /\ UNCHANGED <<objects, evidence, op, fixed>>

-----------------------------------------------------------------------------
(* The business writes its aggregates; the barrier refuses a write to a member of a unit past open. *)
BarrierAllows(a) == db.unitOf[a] = 0

SetRow(d, a, v) == [d EXCEPT !.row = [t \in Tables |-> [@[t] EXCEPT ![a] = IF @ = Gone THEN Gone ELSE v]]]

Write(a) ==
    /\ Tx("write")
    /\ BarrierAllows(a)
    /\ db.said[a] = "one"
    /\ db' = [SetRow(db, a, "two") EXCEPT !.said[a] = "two"]

\* The events and the module's own work that block a sealing are done (blockers).
Settle(a) ==
    /\ a \in db.pending
    /\ db' = [db EXCEPT !.pending = @ \ {a}]
    /\ UNCHANGED <<objects, evidence, op, budget, fixed>>

OpenUnit == CHOOSE u \in Units : db.unit[u].state \in {"none", "open"}
                              /\ \A w \in Units : w < u => Past(db.unit[w].state)
candidates == {a \in Aggs : db.unitOf[a] = 0 /\ a \in db.due}
\* What sealing the aggregates S into the open unit leaves: the blockers noted, or the unit sealed with its digest.
Sealed(u, S) ==
    IF S \cap db.pending # {} THEN [db EXCEPT !.unit[u].state = "open", !.unit[u].blocked = TRUE]
    ELSE [db EXCEPT !.unit[u] = [@ EXCEPT !.state = "sealed", !.blocked = FALSE, !.digest = digest(db, S)],
                    !.unitOf = [a \in Aggs |-> IF a \in S THEN u ELSE @[a]]]

Grouped(S) == Cardinality(S) = IF Cardinality(candidates) < MaxMembers THEN Cardinality(candidates) ELSE MaxMembers

Seal ==
    /\ Tx("seal")
    /\ \E u \in Units : ~Past(db.unit[u].state)
    /\ candidates # {}
    /\ \E S \in SUBSET candidates : Grouped(S) /\ db' = Sealed(OpenUnit, S)

Hold(scope)     == Tx("hold") /\ db' = [db EXCEPT !.hold = @ \cup {scope}]
LiftHold(scope) == Tx("hold") /\ scope \in db.hold /\ db' = [db EXCEPT !.hold = @ \ {scope}]
Approve(scope)  == Tx("approve") /\ db' = [db EXCEPT !.approval = @ \cup {scope}]
Withdraw(scope) == Tx("approve") /\ scope \in db.approval /\ db' = [db EXCEPT !.approval = @ \ {scope}]
-----------------------------------------------------------------------------
(* Writing a unit to a route: claim, read, copy table by table, verify, publish. *)

Claim(o) == /\ db' = [db EXCEPT !.unit[o.unit].generation = @ + 1, !.unit[o.unit].claimEpoch = epoch]
            /\ UNCHANGED <<objects, evidence, fixed>>

\* An operation with its claim: the unit as it is right after it (state, Base and Epoch), its digest also as Was.
Claimed(o) == [o EXCEPT !.claim = [db.unit[o.unit] EXCEPT !.generation = @ + 1, !.claimEpoch = epoch],
                        !.was = db.unit[o.unit].digest]
Writes(o)  == o.claim.version + 1   \* Claim.Version

Transfer(s) == \E u \in Units :
    /\ Start(s, "transfer")
    /\ db.unit[u].state = "sealed"
    /\ LET o == [NewOp("transfer", "read", u, Gone) EXCEPT !.to = scenario.to] IN Claim(o) /\ Run(s, Claimed(o))

Reroute(s) == \E u \in Units :
    /\ Start(s, "reroute")
    /\ db.unit[u].state \in {"published", "released"} /\ db.unit[u].route # scenario.to
    /\ LET o == [NewOp("reroute", "route", u, Gone) EXCEPT !.to = scenario.to] IN Claim(o) /\ Run(s, Claimed(o))

still == <<db, objects, evidence, budget, fixed>>

\* Transfer's Copy reads the online rows in one snapshot.
readUnit(s) ==
    /\ op[s].kind = "transfer" /\ op[s].pc = "read"
    /\ op' = [op EXCEPT ![s].data = digest(db, Members(op[s].unit)), ![s].pc = "copy", ![s].todo = <<"root", "child">>]
    /\ UNCHANGED still

\* Where a unit is read now: its thawed copy while one lives, else its route at its version.
routeOf(d, u) == IF u \in d.thaw THEN [d.unit[u] EXCEPT !.route = "postgres", !.version = Thawed] ELSE d.unit[u]

Route(s) ==
    /\ op[s].pc = "route"
    /\ LET r == db.unit[op[s].unit]   \* the route's own copy: the thawed one is ignored
       IN op' = [op EXCEPT ![s].from = r, ![s].to = IF @ = "" THEN r.route ELSE @, ![s].pc = "fetch"]
    /\ UNCHANGED still

StoredObject(u, generation, version, t) == {x \in objects : x.unit = u /\ x.generation = generation /\ x.version = version /\ x.tbl = t}
StoredRows(d, u, version, t)            == {x \in d.warm : x.unit = u /\ x.version = version /\ x.tbl = t}
The(S) == CHOOSE x \in S : TRUE

GenerationOf(d, u, version) == The({m \in d.manifest : m.unit = u /\ m.version = version}).generation

\* What a route holds of a unit at a version, <<>> when it cannot answer (readUnitRoute).
readUnitRoute(f, u) ==
    LET none == [a \in Members(u) |-> Gone] IN
    IF f.route = "object"
    THEN LET at(t) == StoredObject(u, GenerationOf(db, u, f.version), f.version, t)
         IN IF \A t \in Tables : at(t) # {} THEN [t \in Tables |-> The(at(t)).rows] ELSE <<>>
    ELSE LET at(t) == StoredRows(db, u, f.version, t)
         IN IF \E t \in Tables : at(t) # {}
            THEN [t \in Tables |-> IF at(t) = {} THEN none ELSE The(at(t)).rows] ELSE <<>>

\* The rows of the aggregates, one of them erased: a row whose root is missing belongs to no aggregate.
Edited(data, a) == [t \in Tables |-> [x \in DOMAIN data[t] |->
    IF data["root"][x] = Gone \/ data[t][x] = Gone THEN Gone ELSE IF x = a THEN "erased" ELSE data[t][x]]]

Erasing(o) == o.kind \in {"erase", "redo"}

\* A tightening that did not commit is cancelled in the evidence.
Cancelled(e) == evidence \ ({e} \ db.history)

\* rewrite reads the unit from its route and edits it; a route that cannot answer ends the operation (an erasure: its
\* evidence is cancelled).
Ended(s) == /\ Finish(s)
            /\ evidence' = IF op[s].kind = "erase" THEN Cancelled(<<"erasure", op[s].agg>>) ELSE evidence
            /\ UNCHANGED <<db, objects, budget, fixed>>

Fetch(s) ==
    /\ op[s].pc = "fetch" /\ (Erasing(op[s]) \/ op[s].kind = "reroute")
    /\ LET data == readUnitRoute(op[s].from, op[s].unit) IN
       IF data = <<>> THEN Ended(s)
       ELSE /\ LET e == Edited(data, IF Erasing(op[s]) THEN op[s].agg ELSE Gone)
               IN op' = [op EXCEPT ![s].data = e, ![s].claim.digest = e, ![s].pc = "copy", ![s].todo = <<"root", "child">>]
            /\ UNCHANGED still

\* An object is created once; the warm rows of (unit, version, table) are replaced, whichever claim wrote them.
copyRows(d, x) == [d EXCEPT !.warm = {w \in @ : ~(w.unit = x.unit /\ w.version = x.version /\ w.tbl = x.tbl)} \cup {x}]

Copy(s) ==
    /\ op[s].pc = "copy"
    /\ LET o == op[s]
           t == Head(o.todo)
           generation == o.claim.generation
           more == op' = [op EXCEPT ![s].todo = Tail(@), ![s].pc = IF Len(o.todo) = 1 THEN "verify" ELSE "copy"]
       IN \/ /\ o.to = "object" /\ StoredObject(o.unit, generation, Writes(o), t) # {}   \* ErrExists
             /\ Ended(s)
          \/ /\ o.to = "object" /\ StoredObject(o.unit, generation, Writes(o), t) = {}
             /\ objects' = objects \cup {[unit |-> o.unit, version |-> Writes(o), tbl |-> t, rows |-> o.data[t],
                                          generation |-> generation]}
             /\ more /\ UNCHANGED <<db, evidence, budget, fixed>>
          \/ /\ o.to = "postgres"
             /\ db' = copyRows(db, [unit |-> o.unit, version |-> Writes(o), tbl |-> t, rows |-> o.data[t]])
             /\ more /\ UNCHANGED <<objects, evidence, budget, fixed>>

\* The content the manifest promises: the claim's digest.
Promised(o) == o.claim.digest

Verify(s) ==
    /\ op[s].pc = "verify"
    /\ LET o == op[s]
           at(t) == IF o.to = "object" THEN StoredObject(o.unit, o.claim.generation, Writes(o), t)
                    ELSE StoredRows(db, o.unit, Writes(o), t)
       IN IF \A t \in Tables : at(t) # {} /\ The(at(t)).rows = Promised(o)[t]
          THEN Step(s, "publish") /\ UNCHANGED still
          ELSE Ended(s)
\* Mutation of Fresh: the generation, the epoch and the content are not compared.
FreshVersion(o) == db.unit[o.unit].state = o.claim.state /\ db.unit[o.unit].version = o.claim.version

\* The claim is current: state and version, generation and epoch, the sealed content.
Fresh(o) == LET u == db.unit[o.unit] IN
    /\ u.state = o.claim.state /\ u.version = o.claim.version
    /\ u.generation = o.claim.generation /\ u.claimEpoch = o.claim.claimEpoch
    /\ o.claim.claimEpoch = epoch
    /\ u.digest = o.was

publish(d, o) ==
    LET u == d.unit[o.unit]
        catalog == d.catalog + 1
        m == [unit |-> o.unit, version |-> Writes(o), route |-> o.to, generation |-> o.claim.generation,
              digest |-> Promised(o), aged |-> FALSE, backed |-> FALSE, superseded |-> FALSE]
    IN [d EXCEPT !.catalog = catalog, !.manifest = @ \cup {m},
                 !.unit[o.unit] =
                    IF u.state = "sealed"
                    THEN [@ EXCEPT !.route = o.to, !.version = Writes(o), !.state = "published", !.routeVersion = catalog]
                    ELSE [@ EXCEPT !.route = o.to, !.version = Writes(o), !.digest = Promised(o),
                                   !.routeVersion = IF u.route = o.to THEN @ ELSE catalog]]
Publish(s) ==
    /\ op[s].kind \in {"transfer", "reroute"} /\ op[s].pc = "publish"
    /\ Finish(s)
    /\ db' = IF Fresh(op[s]) THEN publish(db, op[s]) ELSE db   \* ErrStaleClaim: nothing changes
    /\ UNCHANGED <<objects, evidence, budget, fixed>>

-----------------------------------------------------------------------------
(* Erasing one aggregate's erasable columns. *)
\* The class's finished exports expire, the pending one is read again.
VoidExports(d) == [d EXCEPT !.export = IF @.state = "done" THEN [@ EXCEPT !.expired = TRUE]
                                       ELSE IF @.state = "pending" THEN [@ EXCEPT !.erased = TRUE] ELSE @]
nullOnline(d, a) == SetRow(VoidExports(d), a, "erased")
Says(d, a)       == [d EXCEPT !.said[a] = "erased", !.history = @ \cup {<<"erasure", a>>}]

\* Not in a unit: the caller erases its online rows and voids the exports in its own transaction (ErasedOnline).
EraseOnline(a) ==
    /\ Tx("erase")
    /\ db.unitOf[a] = 0
    /\ db' = [nullOnline(db, a) EXCEPT !.said[a] = "erased"]

\* How an erasure goes on from the unit's state: in place when sealed, else by writing the unit again.
EraseFrom(o, state) == [o EXCEPT !.pc = IF state = "sealed" THEN "sealed" ELSE "claim"]

\* Found in a unit and not held: the intent is written. Held: deferred; destroyed: nothing is left to erase.
Erase(s) == \E a \in Aggs :
    /\ Start(s, "erase")
    /\ db.unitOf[a] # 0
    /\ LET u == db.unitOf[a] IN
       IF db.unit[u].state = "destroyed" \/ holdsOn(u) THEN UNCHANGED <<op, evidence>>
       ELSE /\ Run(s, EraseFrom(NewOp("erase", "", u, a), db.unit[u].state))
            /\ evidence' = evidence \cup {<<"erasure", a>>}
    /\ UNCHANGED <<db, objects, fixed>>

\* The unit moved on: the erasure starts again from its state now; a destroyed one has nothing left to erase.
EraseRetry(s) ==
    LET o == op[s]
        state == db.unit[o.unit].state
        again == state # "destroyed" /\ o.tries + 1 < EraseAttempts
    IN /\ IF again THEN Run(s, [EraseFrom(o, state) EXCEPT !.tries = @ + 1])
          ELSE IF o.kind = "redo" /\ state = "destroyed" THEN Step(s, "complete") ELSE Finish(s)
       /\ evidence' = IF again \/ o.kind = "redo" THEN evidence ELSE Cancelled(<<"erasure", o.agg>>)
       /\ UNCHANGED <<db, objects, budget, fixed>>

\* conclude: a hold set meanwhile rolls the transaction back (the evidence is cancelled, the erasure deferred).
Held(o) == o.kind = "erase" /\ holdsOn(o.unit)

Concluded(s) == IF op[s].kind = "redo" THEN Step(s, "complete") ELSE Finish(s)
eraseSealed(d, u, a) ==
    LET n == nullOnline(d, a) IN Says([n EXCEPT !.unit[u].digest = digest(n, MembersIn(n, u))], a)

EraseSealed(s) ==
    /\ op[s].pc = "sealed"
    /\ LET o == op[s] IN
       IF db.unit[o.unit].state # "sealed" THEN EraseRetry(s)
       ELSE IF Held(o) THEN Ended(s)
       ELSE Concluded(s) /\ db' = eraseSealed(db, o.unit, o.agg) /\ UNCHANGED <<objects, evidence, budget, fixed>>

EraseClaim(s) ==
    /\ op[s].pc = "claim"
    /\ IF db.unit[op[s].unit].state \notin {"published", "released"} THEN EraseRetry(s)
       ELSE Claim(op[s]) /\ Run(s, [Claimed(op[s]) EXCEPT !.pc = "route", !.to = ""]) /\ UNCHANGED budget

DropThaw(d, u) == [d EXCEPT !.thaw = @ \ {u}, !.warm = {w \in @ : ~(w.unit = u /\ w.version = Thawed)}]

\* eraseAgain's part of the publish transaction.
eraseAgain(d, o) ==
    LET p == DropThaw(publish(d, o), o.unit)
    IN Says(IF o.claim.state = "published" THEN nullOnline(p, o.agg) ELSE VoidExports(p), o.agg)

ErasePublish(s) ==
    /\ Erasing(op[s]) /\ op[s].pc = "publish"
    /\ LET o == op[s] IN
       IF ~Fresh(o) THEN EraseRetry(s)
       ELSE IF Held(o) THEN Ended(s)
       ELSE Concluded(s) /\ db' = eraseAgain(db, o) /\ UNCHANGED <<objects, evidence, budget, fixed>>
\* The queue job that redoes an erasure replayed in a full recovery, until it completes.
EraseJob(s) == \E a \in db.redo :
    /\ phase = "open" /\ Free(s) /\ \A r \in OpSlots : op[r].kind # "redo"
    /\ LET u == db.unitOf[a] IN
       Run(s, IF db.unit[u].state = "destroyed" THEN NewOp("redo", "complete", u, a)
              ELSE EraseFrom(NewOp("redo", "", u, a), db.unit[u].state))
    /\ UNCHANGED still

EraseDone(s) ==
    /\ op[s].kind = "redo" /\ op[s].pc = "complete"
    /\ Finish(s)
    /\ db' = [db EXCEPT !.redo = @ \ {op[s].agg}]
    /\ UNCHANGED <<objects, evidence, budget, fixed>>
-----------------------------------------------------------------------------
(* Releasing: the online rows of a published unit, then the data of replaced versions. *)

Class == [category |-> "completed", residence |-> "days", pending |-> FALSE, erasable |-> TRUE]

releaseReasons(u, backup) ==
    Plan(Class, [state |-> "published", anchorDue |-> TRUE, blockers |-> {}, immutable |-> FALSE, retentionDue |-> FALSE,
                 approved |-> FALSE, holds |-> FALSE, grace |-> ~db.unit[u].aged, recent |-> Members(u) \cap db.young # {},
                 oldLeases |-> OldLeases(u), backup |-> backup]).reasons

\* The backup list is read before the transaction that decides.
Release(s) == \E u \in Units :
    /\ Start(s, "release")
    /\ db.unit[u].state = "published"
    /\ Run(s, [NewOp("release", "decide", u, Gone) EXCEPT !.got = IF db.unit[u].backed THEN {u} ELSE {}])
    /\ UNCHANGED <<db, objects, evidence, fixed>>

ReleaseDecide(s) ==
    /\ op[s].kind = "release" /\ op[s].pc = "decide"
    /\ LET u == op[s].unit IN
       IF db.unit[u].state = "published" /\ releaseReasons(u, op[s].got # {}) = {} THEN Step(s, "delete") ELSE Finish(s)
    /\ UNCHANGED still

\* The members with a row left in the deepest table that has any.
Left(u) == LET in(t) == {a \in Members(u) : db.row[t][a] # Gone}
           IN IF in("child") # {} THEN <<"child", in("child")>> ELSE <<"root", in("root")>>

\* The transaction that finds no row left: a release turns the unit released; a destruction goes on to the copies.
LastDelete(s) ==
    LET u == op[s].unit IN
    IF op[s].kind = "release"
    THEN /\ db' = [db EXCEPT !.unit[u].state = IF @ = "published" THEN "released" ELSE @, !.catalog = @ + 1]
         /\ Finish(s)
    ELSE UNCHANGED db /\ Step(s, "purge")

deleteOnline(s) ==
    /\ op[s].pc = "delete"
    /\ LET left == Left(op[s].unit) IN
       IF left[2] = {} THEN LastDelete(s)
       ELSE /\ \E S \in SUBSET left[2] :
                  /\ Cardinality(S) = IF Cardinality(left[2]) < Batch THEN Cardinality(left[2]) ELSE Batch
                  /\ db' = [db EXCEPT !.row[left[1]] = [a \in Aggs |-> IF a \in S THEN Gone ELSE @[a]]]
            /\ UNCHANGED op
    /\ UNCHANGED <<objects, evidence, budget, fixed>>

Olds(u) == {m \in db.manifest : m.unit = u /\ m.version < db.unit[u].version /\ ~m.superseded}

ReleaseOld(s) == \E u \in Units :
    /\ Start(s, "releaseOld")
    /\ db.unit[u].state \in {"published", "released"} /\ Olds(u) # {}
    /\ Run(s, [NewOp("releaseOld", "decide", u, Gone) EXCEPT !.got = {m.version : m \in {x \in db.manifest : x.unit = u /\ x.backed}}])
    /\ UNCHANGED <<db, objects, evidence, fixed>>

ReleaseOldDecide(s) ==
    /\ op[s].kind = "releaseOld" /\ op[s].pc = "decide"
    /\ LET u == op[s].unit
           m == Current(db, u)
           ok == /\ db.unit[u].state \in {"published", "released"}
                 /\ Olds(u) # {} /\ m.aged /\ ~OldLeases(u) /\ m.version \in op[s].got
       IN IF ok THEN op' = [op EXCEPT ![s].pc = "old", ![s].got = {x.version : x \in Olds(u)}] ELSE Finish(s)
    /\ UNCHANGED still

\* The oldest of the versions to release: its objects first, then its rows and its mark.
ReleaseOldObjects(s) ==
    /\ op[s].pc = "old"
    /\ LET v == CHOOSE x \in op[s].got : \A y \in op[s].got : x <= y IN
       /\ objects' = objects \ {x \in objects : x.unit = op[s].unit /\ x.version = v /\
                                                x.generation = GenerationOf(db, op[s].unit, v)}
       /\ op' = [op EXCEPT ![s].pc = "oldRows", ![s].at = v]
    /\ UNCHANGED <<db, evidence, budget, fixed>>

ReleaseOldRows(s) ==
    /\ op[s].pc = "oldRows"
    /\ LET u == op[s].unit
           v == op[s].at
           left == op[s].got \ {v}
           mark(m) == IF m.unit = u /\ m.version = v THEN [m EXCEPT !.superseded = TRUE] ELSE m
       IN /\ db' = [db EXCEPT !.warm = {w \in @ : ~(w.unit = u /\ w.version = v)}, !.manifest = {mark(m) : m \in @}]
          /\ IF left = {} THEN Finish(s) ELSE op' = [op EXCEPT ![s].got = left, ![s].pc = "old"]
    /\ UNCHANGED <<objects, evidence, budget, fixed>>

-----------------------------------------------------------------------------
(* Destruction: reasons, intent, decision, purge. *)

destroyReasons(u) ==
    IF u \notin db.expired THEN {"not_due"}
    ELSE LET d == Plan(Class, [state |-> db.unit[u].state, retentionDue |-> TRUE, approved |-> approvedFor(u),
                               holds |-> holdsOn(u)])
         IN IF d.action = "destroy" THEN {} ELSE IF d.reasons # {} THEN d.reasons ELSE {"not_due"}

markDestroyed(d, u) == [d EXCEPT !.unit[u].state = "destroyed", !.catalog = @ + 1,
                                 !.said = [a \in Aggs |-> IF d.unitOf[a] = u THEN "destroyed" ELSE @[a]],
                                 !.history = @ \cup {<<"destruction", u>>}]
Destroy(s) == \E u \in Units :
    /\ Start(s, "destroy")
    /\ db.unit[u].state \in {"sealed", "published", "released", "destroyed"}
    /\ LET destroyed == db.unit[u].state = "destroyed" IN
       /\ destroyed \/ destroyReasons(u) = {}
       /\ Run(s, NewOp("destroy", IF destroyed THEN "delete" ELSE "decide", u, Gone))
       /\ evidence' = IF destroyed THEN evidence ELSE evidence \cup {<<"destruction", u>>}
    /\ UNCHANGED <<db, objects, fixed>>

DestroyDecide(s) ==
    /\ op[s].kind = "destroy" /\ op[s].pc = "decide"
    /\ LET u == op[s].unit IN
       IF db.unit[u].state # "destroyed" /\ destroyReasons(u) = {}
       THEN db' = markDestroyed(db, u) /\ Step(s, "delete") /\ UNCHANGED evidence
       ELSE Finish(s) /\ evidence' = Cancelled(<<"destruction", u>>) /\ UNCHANGED db
    /\ UNCHANGED <<objects, budget, fixed>>

PurgeRows(s) ==
    /\ op[s].kind = "destroy" /\ op[s].pc = "purge"
    /\ db' = [db EXCEPT !.thaw = @ \ {op[s].unit}, !.warm = {w \in @ : w.unit # op[s].unit}]
    /\ Step(s, "objects")
    /\ UNCHANGED <<objects, evidence, budget, fixed>>

PurgeObjects(s) ==
    /\ op[s].kind = "destroy" /\ op[s].pc = "objects"
    /\ objects' = {x \in objects : x.unit # op[s].unit}
    /\ Finish(s)
    /\ UNCHANGED <<db, evidence, budget, fixed>>
-----------------------------------------------------------------------------
(* The cleanup of what no manifest names. *)

\* An object is past the verification window (days) only when it was there before the cleanup began and the worker that
\* wrote it has ended (its timeout is an hour).
BeingWritten(x) == \E s \in OpSlots : op[s].unit = x.unit /\ op[s].claim.generation = x.generation
Named(x) == \E m \in db.manifest : m.unit = x.unit /\ m.generation = x.generation /\ m.version = x.version

Clean(s) ==
    /\ Start(s, "clean")
    /\ Run(s, [NewOp("clean", "list", 0, Gone) EXCEPT
                  !.got = {x \in objects : x.unit \in Units /\ ~Named(x) /\ ~BeingWritten(x)}])
    /\ UNCHANGED <<db, objects, evidence, fixed>>

CleanObjects(s) ==
    /\ op[s].kind = "clean" /\ op[s].pc = "list"
    /\ objects' = objects \ op[s].got
    /\ op' = [op EXCEPT ![s].pc = "rows", ![s].got = {}]
    /\ UNCHANGED <<db, evidence, budget, fixed>>

CleanRows(s) ==
    /\ op[s].kind = "clean" /\ op[s].pc = "rows"
    /\ LET orphan(w) == /\ w.version >= 0 /\ w.version # db.unit[w.unit].version + 1
                        /\ ~\E m \in db.manifest : m.unit = w.unit /\ m.version = w.version
           expired(w) == w.version = Thawed /\ w.unit \in db.thawEnded
       IN db' = [db EXCEPT !.warm = {w \in @ : ~orphan(w) /\ ~expired(w)}, !.thawEnded = {}]
    /\ Finish(s)
    /\ UNCHANGED <<objects, evidence, budget, fixed>>

-----------------------------------------------------------------------------
(* Time, and what may go wrong. *)

\* A read by key is shorter than the grace; a history read has its lease.
Quiet == \A s \in OpSlots : op[s].kind # "get"

\* A release asks for the grace and for a backup; without one in the scenario neither is told apart.
Ages == scenario.budget["release"] > 0 \/ scenario.budget["releaseOld"] > 0

\* The grace passes for what is published and written by now, and its records are no longer recent.
GracePasses ==
    /\ phase = "open" /\ Quiet /\ Ages
    /\ LET aged == [db EXCEPT !.unit = [u \in Units |-> [@[u] EXCEPT !.aged = db.unit[u].version > 0]],
                              !.manifest = {[m EXCEPT !.aged = TRUE] : m \in @}, !.young = {}]
       IN db # aged /\ db' = aged
    /\ UNCHANGED <<objects, evidence, op, budget, fixed>>

\* A physical backup finishes: after everything published and written by now.
Backup ==
    /\ phase = "open"
    /\ LET backed == [db EXCEPT !.unit = [u \in Units |-> [@[u] EXCEPT !.backed = db.unit[u].version > 0]],
                                !.manifest = {[m EXCEPT !.backed = TRUE] : m \in @}]
       IN /\ (Ages /\ db # backed) \/ (scenario.rewinds /\ saved # db)
          /\ db' = backed
          /\ saved' = IF scenario.rewinds THEN backed ELSE saved
    /\ UNCHANGED <<scenario, objects, evidence, op, budget, epoch, phase>>

RetentionEnds(u) == /\ phase = "open" /\ u \notin db.expired /\ Past(db.unit[u].state) /\ budget["destroy"] > 0
                    /\ db' = [db EXCEPT !.expired = @ \cup {u}]
                    /\ UNCHANGED <<objects, evidence, op, budget, fixed>>

ThawEnds(u) == /\ u \in db.thaw
               /\ db' = [db EXCEPT !.thaw = @ \ {u}, !.thawEnded = @ \cup {u}]
               /\ UNCHANGED <<objects, evidence, op, budget, fixed>>

\* A lease runs out: its reader died, or an export was slower than its time to live.
LeaseEnds(l) == /\ l \in db.lease
                /\ op[l.slot] = Idle \/ op[l.slot].kind = "export"
                /\ db' = [db EXCEPT !.lease = @ \ {l}]
                /\ UNCHANGED <<objects, evidence, op, budget, fixed>>

\* A process stops midway in an operation.
Crash(s) == op[s] # Idle /\ Spend("crash") /\ Finish(s) /\ UNCHANGED <<db, objects, evidence, fixed>>

\* The cold store loses an object.
LoseObject == /\ Spend("lose")
              /\ \E x \in objects : objects' = objects \ {x}
              /\ UNCHANGED <<db, evidence, op, fixed>>

\* The replica catches up; then the database fails over to it and loses what was committed since. Workers run on.
Replicate == /\ scenario.rewinds /\ phase = "open" /\ saved # db /\ budget["failover"] > 0
             /\ saved' = db
             /\ UNCHANGED <<scenario, db, objects, evidence, op, budget, epoch, phase>>
Failover  == /\ Spend("failover")
             /\ db' = saved /\ epoch' = epoch + 1
             /\ UNCHANGED <<scenario, objects, evidence, op, saved, phase>>
\* Mutation of Restore: the recovery does not raise the epoch.
RestoreSilently == /\ Spend("restore")
                   /\ db' = [saved EXCEPT !.lease = {}] /\ phase' = "recovery"
                   /\ op' = [s \in OpSlots |-> Idle]
                   /\ UNCHANGED <<scenario, objects, evidence, saved, epoch>>

\* A full recovery: every process stopped, the database as the backup has it, then the evidence is replayed.
Restore == /\ Spend("restore")
           /\ db' = [saved EXCEPT !.lease = {}] /\ epoch' = epoch + 1 /\ phase' = "recovery"
           /\ op' = [s \in OpSlots |-> Idle]
           /\ UNCHANGED <<scenario, objects, evidence, saved>>
\* What the evidence store holds and the change history does not: re-executed without the business preconditions.
Replays(d, e) ==
    IF e[1] = "destruction" THEN markDestroyed(d, e[2])
    ELSE LET a == e[2]
             u == d.unitOf[a]
         IN IF u = 0 THEN Says(nullOnline(d, a), a)
            ELSE IF d.unit[u].state = "destroyed" THEN [d EXCEPT !.history = @ \cup {e}]
            ELSE IF d.unit[u].state = "sealed" THEN eraseSealed(d, u, a)
            ELSE [d EXCEPT !.redo = @ \cup {a}, !.history = @ \cup {e}]

\* A destruction of a unit the restored database has no row of is dangling: nothing is done (listed for review).
Dangling(d, e) == e[1] = "destruction" /\ d.unit[e[2]].state = "none"

Replay == /\ phase = "recovery"
          /\ \E e \in evidence \ db.history : ~Dangling(db, e) /\ db' = Replays(db, e)
          /\ UNCHANGED <<objects, evidence, op, budget, fixed>>

Open == /\ phase = "recovery"
        /\ \A e \in evidence \ db.history : Dangling(db, e)
        /\ phase' = "open"
        /\ UNCHANGED <<scenario, db, objects, evidence, op, budget, epoch, saved>>
=============================================================================
