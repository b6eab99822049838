----------------------------- MODULE Recovery -----------------------------
(***************************************************************************)
(* A member through a full recovery: its evidence (evidence/), the phases  *)
(* its process runs in (internal/host) and what it answers the recovery    *)
(* tool (recovery/).                                                       *)
(*                                                                         *)
(* A tightening writes its intent to the evidence store, or else to the    *)
(* alert channel, before its business transaction, and its conclusion in   *)
(* it.  A full recovery stops the process, takes the database back to a    *)
(* backup and starts the process again phase by phase; the stores never    *)
(* go back.  The recovery tool, the evidence store and the audit component *)
(* are external: the tool replays what the stores hold, waits for the      *)
(* checks, advances the document numbers, asks what was lost, and opens.   *)
(***************************************************************************)
EXTENDS Integers, FiniteSets, FiniteSetsExt, Sequences, SequencesExt

CONSTANTS
    Tightenings,    \* evidence records written in two phases
    Widenings,      \* general records
    TransferBatch,  \* records one append carries; 500 in the code
    Scenarios       \* operations and faults, and what the replay functions answer

VARIABLES
    scenario,
    rphase,         \* RECOVERY_PHASE the process runs in; "" when open
    mdb,            \* the member's database; own is history: the records concluded in it, not replayed
    mbackup,        \* its backup
    estore,         \* the evidence store: [id, phase]
    alerts,         \* intents the alert channel's copies hold
    trail,          \* the audit component: [doc, ident, version]
    doing,          \* tightenings under way, per record
    sending,        \* the evidence transfer
    tool,           \* the recovery tool
    concluded,      \* history: tightenings whose business transaction committed
    idents,         \* history: documents issued
    luck            \* operations and faults still to come

rvars == <<scenario, rphase, mdb, mbackup, estore, alerts, trail, doing, sending, tool, concluded, idents, luck>>

Ids == Tightenings \cup Widenings

Spend(what) == luck[what] > 0 /\ luck' = [luck EXCEPT ![what] = @ - 1]

NotStarted == [pc |-> "idle", intent |-> "none"]
Quiet == [pc |-> "idle", rows |-> <<>>]
AtWork == [restored |-> FALSE, outcome |-> [i \in Ids |-> "none"], step |-> "check", report |-> {}]
Nothing == [hist |-> {}, own |-> {}, times |-> [i \in Ids |-> 0], outbox |-> <<>>, stopped |-> {}, docs |-> <<>>, audit |-> {}]

Stores == <<estore, alerts, trail>>

-----------------------------------------------------------------------------
(* The user surface: every route answers MAINTENANCE in a recovery phase   *)
(* (httpx/engine.go), so business begins only when the member is open.     *)

Open == rphase = ""

\* A business change that issues the next document number, or changes a document, with its audit record.
Issue ==
    /\ Open /\ Spend("issue")
    /\ idents' = idents + 1
    /\ mdb' = [mdb EXCEPT !.docs = Append(@, [ident |-> idents', version |-> 1]),
                          !.audit = @ \cup {[doc |-> Len(mdb.docs) + 1, ident |-> idents', version |-> 1]}]
    /\ UNCHANGED <<scenario, rphase, mbackup, Stores, doing, sending, tool, concluded>>

Change(n) ==
    /\ Open /\ Spend("change")
    /\ n \in DOMAIN mdb.docs /\ mdb.docs[n].ident > 0
    /\ mdb' = [mdb EXCEPT !.docs[n].version = @ + 1,
                          !.audit = @ \cup {[doc |-> n, ident |-> mdb.docs[n].ident, version |-> mdb.docs[n].version + 1]}]
    /\ UNCHANGED <<scenario, rphase, mbackup, Stores, doing, sending, tool, concluded, idents>>

-----------------------------------------------------------------------------
(* evidence.go.                                                            *)

Step(t, pc) == doing' = [doing EXCEPT ![t].pc = pc]
Wrote(t, where) == doing' = [doing EXCEPT ![t] = [pc |-> "tx", intent |-> where]]

Tighten(t) ==
    /\ Open /\ t \in scenario.tightens /\ doing[t].pc = "idle" /\ Spend("tighten")
    /\ Step(t, "intent")
    /\ UNCHANGED <<scenario, rphase, mdb, mbackup, Stores, sending, tool, concluded, idents>>

\* Intent: the evidence store within the timeout, else the alert channel, else the double failure; the caller goes on.
Intent(t) ==
    /\ doing[t].pc = "intent"
    /\ \/ estore' = estore \cup {[id |-> t, phase |-> "intent"]} /\ Wrote(t, "store") /\ UNCHANGED luck
       \/ Spend("down") /\ Step(t, "alert") /\ estore' \in {estore, estore \cup {[id |-> t, phase |-> "intent"]}}
    /\ UNCHANGED <<scenario, rphase, mdb, mbackup, alerts, trail, sending, tool, concluded, idents>>

Alert(t) ==
    /\ doing[t].pc = "alert"
    /\ \/ alerts' = alerts \cup {t} /\ Wrote(t, "alert") /\ UNCHANGED luck
       \/ Spend("down") /\ Step(t, "double") /\ UNCHANGED alerts
    /\ UNCHANGED <<scenario, rphase, mdb, mbackup, estore, trail, sending, tool, concluded, idents>>

Queue(d, id, phase) == [d EXCEPT !.outbox = Append(@, [id |-> id, phase |-> phase])]

\* doubleFailure: its own record, in a transaction of its own that may fail too.
doubleFailure(t) ==
    /\ doing[t].pc = "double"
    /\ \/ mdb' = Queue(mdb, t, "double_failure") /\ UNCHANGED luck
       \/ Spend("down") /\ UNCHANGED mdb
    /\ Wrote(t, "lost")
    /\ UNCHANGED <<scenario, rphase, mbackup, Stores, sending, tool, concluded, idents>>

Applied(d, id) == [d EXCEPT !.hist = @ \cup {id}, !.times[id] = @ + 1]
Concluded(d, id) == [Applied(d, id) EXCEPT !.own = @ \cup {id}]

\* Effective, in the business transaction: the change, its history row and the conclusion in the outbox.
Effective(t) ==
    /\ doing[t].pc = "tx"
    /\ mdb' = Queue(Concluded(mdb, t), t, "effective")
    /\ concluded' = concluded \cup {t}
    /\ Step(t, "end")
    /\ UNCHANGED <<scenario, rphase, mbackup, Stores, sending, tool, idents, luck>>

RollsBack(t) ==
    /\ doing[t].pc = "tx" /\ Spend("rollback")
    /\ Step(t, "cancel")
    /\ UNCHANGED <<scenario, rphase, mdb, mbackup, Stores, sending, tool, concluded, idents>>

Cancelled(t) ==
    /\ doing[t].pc = "cancel"
    /\ mdb' = Queue(mdb, t, "cancelled")
    /\ Step(t, "end")
    /\ UNCHANGED <<scenario, rphase, mbackup, Stores, sending, tool, concluded, idents, luck>>

General(w) ==
    /\ Open /\ w \notin mdb.hist /\ Spend("widen")
    /\ mdb' = Queue(Concluded(mdb, w), w, "general")
    /\ UNCHANGED <<scenario, rphase, mbackup, Stores, doing, sending, tool, concluded, idents>>

-----------------------------------------------------------------------------
(* The transfers.  No job runs in a recovery phase; the audit and the      *)
(* evidence transfer run there as the host's own loops, but not frozen     *)
(* (recoveryjobs.go, Member.Start).                                        *)

Transfers == rphase # "frozen"

Transfer ==
    /\ Transfers /\ sending.pc = "idle" /\ mdb.outbox # <<>>
    /\ sending' = [pc |-> "append", rows |-> SubSeq(mdb.outbox, 1, Min({TransferBatch, Len(mdb.outbox)}))]
    /\ UNCHANGED <<scenario, rphase, mdb, mbackup, Stores, doing, tool, concluded, idents, luck>>

\* The store takes what it does not refuse; the call may fail before it did, or after.
Taken == {sending.rows[i] : i \in {j \in DOMAIN sending.rows : sending.rows[j].id \notin scenario.refused}}

Append_ ==
    /\ sending.pc = "append"
    /\ \/ estore' = estore \cup Taken /\ sending' = [sending EXCEPT !.pc = "settle"] /\ UNCHANGED luck
       \/ Spend("down") /\ estore' \in {estore, estore \cup Taken} /\ sending' = Quiet
    /\ UNCHANGED <<scenario, rphase, mdb, mbackup, alerts, trail, doing, tool, concluded, idents>>

\* Accepted and duplicate rows are deleted; refused ones are stopped and kept.
Settled ==
    LET refused == {i \in DOMAIN sending.rows : sending.rows[i].id \in scenario.refused} IN
    [mdb EXCEPT !.outbox = SelectSeq(@, LAMBDA r : ~ \E i \in DOMAIN sending.rows : sending.rows[i] = r),
                !.stopped = @ \cup {sending.rows[i] : i \in refused}]

Settle ==
    /\ sending.pc = "settle"
    /\ mdb' = Settled /\ sending' = Quiet
    /\ UNCHANGED <<scenario, rphase, mbackup, Stores, doing, tool, concluded, idents, luck>>

\* One round of the audit transfer that reaches the audit component.
AuditCycle ==
    /\ Transfers /\ mdb.audit # {}
    /\ trail' = trail \cup mdb.audit
    /\ mdb' = [mdb EXCEPT !.audit = {}]
    /\ UNCHANGED <<scenario, rphase, mbackup, estore, alerts, doing, sending, tool, concluded, idents, luck>>

-----------------------------------------------------------------------------
(* replay.go: the owner's replay of its evidence.                          *)

Replayable(p) == p \in {"effective", "general", "intent"}

Reflected(id) == id \in mdb.hist

\* ReplayTx: nothing when the record is reflected, else the category's function and the history row, in one transaction.
Replayed(id) ==
    IF id \in scenario.unknown THEN "unsupported"
    ELSE IF Reflected(id) THEN "reflected"
    ELSE IF id \in scenario.outside THEN scenario.outsideSays
    ELSE IF id \in scenario.ofDocument /\ mdb.docs = <<>> THEN "dangling"
    ELSE IF \E d \in scenario.after : d[1] = id /\ d[2] \notin mdb.hist THEN "deferred"
    ELSE "applied"

\* The records the tool finds: conclusions, and intents that were not cancelled.
Found ==
    {r \in estore \cup {[id |-> t, phase |-> "intent"] : t \in alerts} :
        r.phase \in {"effective", "general"} \/ (r.phase = "intent" /\ [id |-> r.id, phase |-> "cancelled"] \notin estore)}

Replay(r) ==
    LET outcome == IF Replayable(r.phase) THEN Replayed(r.id) ELSE "refused" IN
    /\ rphase = "replaying" /\ r \in Found /\ tool.outcome[r.id] \in {"none", "deferred", "refused"}
    /\ outcome # tool.outcome[r.id]
    /\ mdb' = IF outcome = "applied" THEN Applied(mdb, r.id) ELSE mdb
    /\ \/ tool' = [tool EXCEPT !.outcome[r.id] = outcome] /\ UNCHANGED luck
       \/ Spend("down") /\ UNCHANGED tool
    /\ UNCHANGED <<scenario, rphase, mbackup, Stores, doing, sending, concluded, idents>>

-----------------------------------------------------------------------------
(* recovery/: the checks and the numbers.                                  *)

VerifyingAt(step) == rphase = "verifying" /\ tool.step = step

\* auditBacklog passes when every local audit record was transferred.
Check ==
    /\ VerifyingAt("check") /\ mdb.audit = {}
    /\ tool' = [tool EXCEPT !.step = "numbers"]
    /\ UNCHANGED <<scenario, rphase, mdb, mbackup, Stores, doing, sending, concluded, idents, luck>>

\* The highest number the audit component saw.
UsedMax == Max({a.doc : a \in trail} \cup {0})

\* AdvanceNumbers raises the used maximum, never lowers it, and voids the numbers it skips.
Advanced(used) == mdb.docs \o [i \in 1..Max({0, used - Len(mdb.docs)}) |-> [ident |-> 0, version |-> 0]]

AdvanceNumbers ==
    /\ VerifyingAt("numbers")
    /\ mdb' = [mdb EXCEPT !.docs = Advanced(UsedMax)]
    /\ \/ tool' = [tool EXCEPT !.step = "present"] /\ UNCHANGED luck
       \/ Spend("down") /\ UNCHANGED tool
    /\ UNCHANGED <<scenario, rphase, mbackup, Stores, doing, sending, concluded, idents>>

At(ident) == {n \in DOMAIN mdb.docs : mdb.docs[n].ident = ident}

Present(a) ==
    IF At(a.ident) = {} THEN "absent"
    ELSE IF \A n \in At(a.ident) : mdb.docs[n].version < a.version THEN "older"
    ELSE "present"

Ask ==
    /\ VerifyingAt("present")
    /\ tool' = [tool EXCEPT !.step = "done", !.report = {a \in trail : Present(a) # "present"}]
    /\ UNCHANGED <<scenario, rphase, mdb, mbackup, Stores, doing, sending, concluded, idents, luck>>

-----------------------------------------------------------------------------
(* The recovery: the process is started again with each phase.             *)

Backup ==
    /\ Open /\ Spend("backup")
    /\ mbackup' = mdb
    /\ UNCHANGED <<scenario, rphase, mdb, Stores, doing, sending, tool, concluded, idents>>

Ended == [t \in Tightenings |-> IF doing[t].pc = "idle" THEN doing[t] ELSE [doing[t] EXCEPT !.pc = "end"]]

Enter(phase) ==
    /\ rphase' = phase
    /\ doing' = Ended
    /\ sending' = Quiet

Freeze ==
    /\ Open /\ Spend("freeze")
    /\ Enter("frozen")
    /\ tool' = AtWork
    /\ UNCHANGED <<scenario, mdb, mbackup, Stores, concluded, idents>>

Restore ==
    /\ rphase = "frozen" /\ ~tool.restored
    /\ mdb' = mbackup
    /\ tool' = [tool EXCEPT !.restored = TRUE]
    /\ UNCHANGED <<scenario, rphase, mbackup, Stores, doing, sending, concluded, idents, luck>>

\* Every record has its answer; one still deferred goes to review.
Answered ==
    \A r \in Found : tool.outcome[r.id] # "none" /\ (tool.outcome[r.id] = "deferred" => Replayed(r.id) = "deferred")

Advance ==
    /\ \/ rphase = "frozen" /\ tool.restored /\ Enter("redelivering")
       \/ rphase = "redelivering" /\ Enter("replaying")
       \/ rphase = "replaying" /\ Answered /\ Enter("verifying")
       \/ rphase = "verifying" /\ tool.step = "done" /\ Enter("read_only")
       \/ rphase = "read_only" /\ Enter("")
    /\ UNCHANGED <<scenario, mdb, mbackup, Stores, tool, concluded, idents, luck>>

\* The process dies and starts again in the phase it was in.
Restart ==
    /\ Spend("crash") /\ Enter(rphase)
    /\ UNCHANGED <<scenario, mdb, mbackup, Stores, tool, concluded, idents>>

-----------------------------------------------------------------------------

Init ==
    /\ scenario \in Scenarios
    /\ rphase = ""
    /\ mdb = Nothing /\ mbackup = Nothing
    /\ estore = {} /\ alerts = {} /\ trail = {}
    /\ doing = [t \in Tightenings |-> NotStarted]
    /\ sending = Quiet /\ tool = AtWork
    /\ concluded = {} /\ idents = 0
    /\ luck = scenario.luck

Evidence(t) == Intent(t) \/ Alert(t) \/ doubleFailure(t) \/ Effective(t) \/ Cancelled(t)

Background == Transfer \/ Append_ \/ Settle \/ AuditCycle

Recovering == Restore \/ (\E r \in Found : Replay(r)) \/ Check \/ AdvanceNumbers \/ Ask \/ Advance

Business ==
    \/ Issue \/ (\E n \in DOMAIN mdb.docs : Change(n))
    \/ \E t \in Tightenings : Tighten(t) \/ RollsBack(t)
    \/ \E w \in Widenings : General(w)

Next == (\E t \in Tightenings : Evidence(t)) \/ Background \/ Recovering \/ Business \/ Backup \/ Freeze \/ Restart

Spec == Init /\ [][Next]_rvars

-----------------------------------------------------------------------------
(* Properties.                                                             *)

\* A tightening that took effect, and whose intent reached the store or the alert channel, is in effect again after
\* the replay, or the tool holds an answer for review (Intent, Replay).
TighteningsSurvive ==
    rphase \in {"verifying", "read_only"} =>
        \A t \in concluded : doing[t].intent \in {"store", "alert"} =>
            t \in mdb.hist \/ tool.outcome[t] \in {"dangling", "deferred", "consistent", "inconsistent", "unsupported"}

\* A change is applied at most once, by its operation or by its replay, whatever answers are lost (ReplayTx).
AppliedOnce == \A i \in Ids : mdb.times[i] <= 1

\* A conclusion committed in this database is in its outbox, stopped there, or in the evidence store, whatever calls
\* fail and whenever the database goes back (Transfer).
EvidenceIsKept ==
    \A i \in mdb.own : \E p \in {"effective", "general"} :
        [id |-> i, phase |-> p] \in estore \cup Range(mdb.outbox) \cup mdb.stopped

\* A number the audit component saw is never given to another document, across a recovery (AdvanceNumbers).
NumbersAreNotReused ==
    \A a \in trail : a.doc \in DOMAIN mdb.docs => mdb.docs[a.doc].ident \in {0, a.ident}

\* The losses reported are exactly the audited changes the database no longer has (Present, the closed user surface).
ReportIsExact ==
    rphase = "read_only" =>
        tool.report = {a \in trail : ~ \E n \in DOMAIN mdb.docs : mdb.docs[n].ident = a.ident /\ mdb.docs[n].version >= a.version}
=============================================================================
