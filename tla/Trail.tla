------------------------------ MODULE Trail -------------------------------
(***************************************************************************)
(* Reliable audit (audit/): the local append-only table, its numbering,    *)
(* the transfer to the audit component with receipts, and the deletion of  *)
(* what a backup of the audit component covers.                            *)
(*                                                                         *)
(* A worker is one round of the transfer (Auditor.Cycle: the singleton job *)
(* or, in a recovery phase, the host's own loop; a lost lease may leave    *)
(* two running) or one strict read.  Each transaction and each call is one *)
(* step.  The audit component is external: it stores a record once by ID,  *)
(* answers the position it stored it at, is backed up, and may be restored *)
(* from its latest backup, which starts an epoch of its own.               *)
(***************************************************************************)
EXTENDS Integers, FiniteSets, FiniteSetsExt, Sequences, SequencesExt

CONSTANTS
    AuditRecords,   \* audit records, in insertion order: 1..n
    Cycles,         \* transfer rounds that may run at once
    Batch,          \* records a numbering or a submission takes; 500 in the code
    Capacity,       \* the backlog at which audited operations are refused
    DenialBudget,   \* detailed denials of a minute; 20 in the code
    Minutes,        \* the minutes that may pass: 1..n
    Scenarios       \* operations, strict reads, faults

VARIABLES
    scenario,
    alog,           \* be_audit_log, per record; "none" before it is written, "gone" when a restore lost it
    acounter,       \* be_audit_counter: the epoch and the last sequence
    ownEpoch,       \* the epoch of the member's database
    ownBackup,      \* a backup of the member's database
    abacklog,       \* Auditor.backlog, the process's cached count
    worker,         \* transfer rounds and strict reads, per worker
    audit,          \* the audit component
    minute,         \* the database's current minute
    window,         \* be_audit_denial_budget, per minute of one principal and reason
    denials,        \* history: denials of each minute
    summary,        \* history: the counts of the summaries appended, per minute
    chance          \* operations and faults still to come

tvars == <<scenario, alog, acounter, ownEpoch, ownBackup, abacklog, worker, audit, minute, window, denials, summary,
           chance>>

-----------------------------------------------------------------------------

NoPlace == [epoch |-> 0, seq |-> 0]
NoRow == [state |-> "none", at |-> NoPlace, receipt |-> NoPlace, old |-> FALSE]
Resting == [pc |-> "idle", rec |-> 0, batch |-> <<>>, numbered |-> 0, receipts |-> <<>>, mark |-> NoPlace,
            forks |-> {}, backed |-> FALSE]

Written == {r \in AuditRecords : alog[r].state # "none"}
Pending == {r \in Written : alog[r].state = "pending"}
Unnumbered == {r \in Written : alog[r].state \in {"pending", "received", "conflict"} /\ alog[r].at = NoPlace}

Spend(what) == chance[what] > 0 /\ chance' = [chance EXCEPT ![what] = @ - 1]

\* The first n of a set of records in insertion order (ORDER BY ord LIMIT n).
First(S, n) == LET s == SetToSortSeq(S, <) IN SubSeq(s, 1, Min({n, Len(s)}))

Position(s, r) == CHOOSE i \in DOMAIN s : s[i] = r

Member == <<alog, acounter, ownEpoch, ownBackup>>
Denied == <<minute, window, denials, summary>>

-----------------------------------------------------------------------------
(* audit.go: the records.  A write joins its business transaction; over    *)
(* the cached capacity both are refused, and the refusal changes nothing.  *)

Insert(r) == alog' = [alog EXCEPT ![r] = [NoRow EXCEPT !.state = "pending"]]

NewRecord(r) == r = Cardinality(Written) + 1 /\ r \in AuditRecords

Write(r) ==
    /\ NewRecord(r) /\ abacklog < Capacity
    /\ Spend("write") /\ Insert(r)
    /\ UNCHANGED <<scenario, acounter, ownEpoch, ownBackup, abacklog, worker, audit, Denied>>

\* Read of the strict tier: its record is committed first, then numbered and sent alone for its receipt.
Read(w, r) ==
    /\ worker[w].pc = "idle" /\ w \notin Cycles
    /\ NewRecord(r) /\ abacklog < Capacity
    /\ Spend("read") /\ Insert(r)
    /\ worker' = [worker EXCEPT ![w] = [Resting EXCEPT !.pc = "rnumber", !.rec = r]]
    /\ UNCHANGED <<scenario, acounter, ownEpoch, ownBackup, abacklog, audit, Denied>>

Denial ==
    /\ Spend("denial")
    /\ LET n == window[minute].detailed + 1 IN
       /\ window' = [window EXCEPT ![minute].detailed = n,
                                   ![minute].overflow = IF n <= DenialBudget THEN @ ELSE @ + 1]
       /\ denials' = [denials EXCEPT ![minute] = @ + 1]
       /\ IF n <= DenialBudget
          THEN LET r == Cardinality(Written) + 1 IN r \in AuditRecords /\ Insert(r)
          ELSE UNCHANGED alog
    /\ UNCHANGED <<scenario, acounter, ownEpoch, ownBackup, abacklog, worker, audit, minute, summary>>

MinutePasses ==
    /\ minute + 1 \in Minutes /\ Spend("minute")
    /\ minute' = minute + 1
    /\ UNCHANGED <<scenario, Member, abacklog, worker, audit, window, denials, summary>>

-----------------------------------------------------------------------------
(* transfer.go and job.go: one round of the transfer.                      *)

To(w, pc) == worker' = [worker EXCEPT ![w].pc = pc]

Begin(w) ==
    /\ worker[w].pc = "idle" /\ w \in scenario.rounds
    /\ worker' = [worker EXCEPT ![w] = [Resting EXCEPT !.pc = "number"]]
    /\ UNCHANGED <<scenario, Member, abacklog, audit, Denied, chance>>

\* The sequence a numbering goes on from: 0 in an epoch the counter was not in.
Numbered(last) == IF acounter.epoch = ownEpoch THEN last ELSE 0

\* Number: committed rows without a sequence, in insertion order, under the counter's lock.
Number(w) ==
    LET picked == First(Unnumbered, Batch)
        from == Numbered(acounter.last)
        next == CASE worker[w].pc = "number" -> "flush"
                  [] worker[w].pc = "drain" -> "pick"
                  [] OTHER -> "wire" IN
    /\ worker[w].pc \in {"number", "drain", "rnumber"}
    /\ alog' = [r \in AuditRecords |-> IF \E i \in DOMAIN picked : picked[i] = r
                    THEN [alog[r] EXCEPT !.at = [epoch |-> ownEpoch, seq |-> from + Position(picked, r)]]
                    ELSE alog[r]]
    /\ acounter' = [epoch |-> ownEpoch, last |-> from + Len(picked)]
    /\ worker' = [worker EXCEPT ![w].pc = next, ![w].numbered = Len(picked)]
    /\ UNCHANGED <<scenario, ownEpoch, ownBackup, abacklog, audit, Denied, chance>>

Finished(m) == m < minute

\* Flush: one summary for every finished window past the budget.
Flush(w) ==
    LET due == {m \in Minutes : window[m].overflow > 0 /\ ~window[m].summarized /\ Finished(m)} IN
    /\ worker[w].pc = "flush"
    /\ Cardinality(Written) + Cardinality(due) <= Cardinality(AuditRecords)
    /\ window' = [m \in Minutes |-> IF m \in due THEN [window[m] EXCEPT !.summarized = TRUE] ELSE window[m]]
    /\ summary' = [m \in Minutes |-> IF m \in due THEN Append(summary[m], window[m].overflow) ELSE summary[m]]
    /\ alog' = [r \in AuditRecords |-> IF r > Cardinality(Written) /\ r <= Cardinality(Written) + Cardinality(due)
                                  THEN [NoRow EXCEPT !.state = "pending"] ELSE alog[r]]
    /\ To(w, IF scenario.sender THEN "drain" ELSE "backlog")
    /\ UNCHANGED <<scenario, acounter, ownEpoch, ownBackup, abacklog, audit, minute, denials, chance>>

\* Drain and Transfer: a batch of numbered pending rows is read, sent, and its receipts stored, until a batch is short.
AfterBatch(w, n) ==
    CASE n = Batch -> "pick"
      [] worker[w].numbered = Batch -> "drain"
      [] OTHER -> "mark"

Transfer(w) ==
    LET batch == First({r \in Pending : alog[r].at # NoPlace}, Batch) IN
    /\ worker[w].pc = "pick"
    /\ worker' = [worker EXCEPT ![w].batch = batch, ![w].pc = IF batch = <<>> THEN AfterBatch(w, 0) ELSE "send"]
    /\ UNCHANGED <<scenario, Member, abacklog, audit, Denied, chance>>

\* wire reads one numbered record; another round's numbering may have taken the batch instead.
wire(w) ==
    /\ worker[w].pc = "wire"
    /\ LET r == worker[w].rec IN
       worker' = [worker EXCEPT ![w] = IF alog[r].at # NoPlace THEN [@ EXCEPT !.pc = "send", !.batch = <<r>>]
                                       ELSE Resting]
    /\ UNCHANGED <<scenario, Member, abacklog, audit, Denied, chance>>

\* The audit component stores what it does not have; a record it refuses (scenario.refused) it answers with a conflict.
Stored(batch) ==
    LET new == SelectSeq(batch, LAMBDA r : audit.rows[r] = NoPlace /\ r \notin scenario.refused) IN
    [audit EXCEPT !.last = @ + Len(new),
        !.rows = [r \in AuditRecords |-> IF \E i \in DOMAIN new : new[i] = r
                      THEN [epoch |-> audit.epoch, seq |-> audit.last + Position(new, r)] ELSE @[r]]]

Send(w) ==
    /\ worker[w].pc = "send"
    /\ audit' = Stored(worker[w].batch)
    /\ worker' = [worker EXCEPT ![w].pc = "settle",
                     ![w].receipts = [i \in DOMAIN worker[w].batch |-> audit'.rows[worker[w].batch[i]]]]
    /\ UNCHANGED <<scenario, Member, abacklog, Denied, chance>>

\* The call fails: before the records were stored, or after (the answer is lost).
SendFails(w) ==
    /\ worker[w].pc = "send" /\ Spend("lost")
    /\ audit' \in {audit, Stored(worker[w].batch)}
    /\ worker' = [worker EXCEPT ![w] = IF w \in Cycles THEN [@ EXCEPT !.pc = "mark"] ELSE Resting]
    /\ UNCHANGED <<scenario, Member, abacklog, Denied>>

settle(w) ==
    LET b == worker[w].batch
        got == {i \in DOMAIN b : alog[b[i]].state = "pending"} IN
    [r \in AuditRecords |-> IF \E i \in got : b[i] = r
        THEN LET p == worker[w].receipts[Position(b, r)] IN
             [alog[r] EXCEPT !.state = IF p = NoPlace THEN "conflict" ELSE "received", !.receipt = p, !.old = FALSE]
        ELSE alog[r]]

Settle(w) ==
    /\ worker[w].pc = "settle"
    /\ alog' = settle(w)
    /\ worker' = [worker EXCEPT ![w] = IF w \in Cycles THEN [@ EXCEPT !.pc = AfterBatch(w, Len(worker[w].batch))] ELSE Resting]
    /\ UNCHANGED <<scenario, acounter, ownEpoch, ownBackup, abacklog, audit, Denied, chance>>

\* Watermark: the highest sequence of the current epoch in a backup, and the forks of the epochs before it.
Watermark(w) ==
    /\ worker[w].pc = "mark"
    /\ \/ worker' = [worker EXCEPT ![w].pc = "purge", ![w].forks = audit.forks, ![w].backed = audit.backup.epoch = audit.epoch,
              ![w].mark = [epoch |-> audit.epoch, seq |-> IF audit.backup.epoch = audit.epoch THEN audit.backup.last ELSE 0]]
          /\ UNCHANGED chance
       \/ To(w, "backlog") /\ Spend("lost")
    /\ UNCHANGED <<scenario, Member, abacklog, audit, Denied>>

\* Mutation of Covered: any receipt of the watermark's epoch counts as backed up.
CoveredByEpoch(p, m) == p.epoch = m.mark.epoch

\* The receipts a watermark covers: in a backup of its epoch, or at most an ancestor's fork.
Covered(p, m) ==
    \/ p.epoch = m.mark.epoch /\ p.seq <= m.mark.seq
    \/ m.backed /\ \E f \in m.forks : f.epoch = p.epoch /\ p.seq <= f.seq

\* The receipts the audit component no longer has: past an ancestor's fork, or of an epoch on no branch of its history
\* and not later than the watermark's (which may be older than the receipt).
Lost(p, m) ==
    \/ \E f \in m.forks : f.epoch = p.epoch /\ p.seq > f.seq
    \/ p.epoch < m.mark.epoch /\ \A f \in m.forks : f.epoch # p.epoch

Purge(w) ==
    LET m == worker[w]
        received(r) == alog[r].state = "received" IN
    /\ m.pc = "purge"
    /\ alog' = [r \in AuditRecords |->
           IF received(r) /\ alog[r].old /\ Covered(alog[r].receipt, m) THEN [alog[r] EXCEPT !.state = "deleted"]
           ELSE IF received(r) /\ Lost(alog[r].receipt, m)
           THEN [alog[r] EXCEPT !.state = "pending", !.receipt = NoPlace, !.old = FALSE]
           ELSE alog[r]]
    /\ To(w, "backlog")
    /\ UNCHANGED <<scenario, acounter, ownEpoch, ownBackup, abacklog, audit, Denied, chance>>

Counted(r) == alog[r].state = "pending"

Backlog(w) ==
    /\ worker[w].pc = "backlog"
    /\ abacklog' = Cardinality({r \in AuditRecords : Counted(r)})
    /\ worker' = [worker EXCEPT ![w] = Resting]
    /\ UNCHANGED <<scenario, Member, audit, Denied, chance>>

-----------------------------------------------------------------------------
(* The surroundings: the audit component's backups and restores, the       *)
(* member's own, time and crashes.                                         *)

AuditBackup ==
    /\ Spend("backup")
    /\ audit' = [audit EXCEPT !.backup = [epoch |-> audit.epoch, last |-> audit.last, rows |-> audit.rows,
                                          forks |-> audit.forks]]
    /\ UNCHANGED <<scenario, Member, abacklog, worker, Denied>>

AuditRestore ==
    /\ Spend("restore") /\ audit.backup.epoch > 0
    /\ audit' = [audit EXCEPT !.epoch = @ + 1, !.last = 0, !.rows = audit.backup.rows,
                     !.forks = audit.backup.forks \cup {[epoch |-> audit.backup.epoch, seq |-> audit.backup.last]}]
    /\ UNCHANGED <<scenario, Member, abacklog, worker, Denied>>

OwnBackup ==
    /\ Spend("ownBackup")
    /\ ownBackup' = [rows |-> alog, counter |-> acounter]
    /\ UNCHANGED <<scenario, alog, acounter, ownEpoch, abacklog, worker, audit, Denied>>

\* The member's database goes back to its backup, in a new epoch, and its processes start again.
OwnRestore ==
    /\ Spend("ownRestore")
    /\ alog' = [r \in AuditRecords |-> IF alog[r].state # "none" /\ ownBackup.rows[r].state = "none"
                                  THEN [NoRow EXCEPT !.state = "gone"] ELSE ownBackup.rows[r]]
    /\ acounter' = ownBackup.counter
    /\ ownEpoch' = ownEpoch + 1
    /\ abacklog' = 0
    /\ worker' = [w \in DOMAIN worker |-> Resting]
    /\ UNCHANGED <<scenario, ownBackup, audit, Denied>>

RetentionPasses ==
    /\ \E r \in AuditRecords : alog[r].state = "received" /\ ~alog[r].old
    /\ Spend("age")
    /\ alog' = [r \in AuditRecords |-> [alog[r] EXCEPT !.old = alog[r].state = "received"]]
    /\ UNCHANGED <<scenario, acounter, ownEpoch, ownBackup, abacklog, worker, audit, Denied>>

Crash(w) ==
    /\ worker[w].pc # "idle" /\ Spend("crash")
    /\ worker' = [worker EXCEPT ![w] = Resting]
    /\ UNCHANGED <<scenario, Member, abacklog, audit, Denied>>

-----------------------------------------------------------------------------

Init ==
    /\ scenario \in Scenarios
    /\ alog = [r \in AuditRecords |-> NoRow]
    /\ acounter = [epoch |-> 0, last |-> 0]
    /\ ownEpoch = 1
    /\ ownBackup = [rows |-> [r \in AuditRecords |-> NoRow], counter |-> [epoch |-> 0, last |-> 0]]
    /\ abacklog = 0
    /\ worker = [w \in Cycles \cup {"read"} |-> Resting]
    /\ audit = [epoch |-> 1, last |-> 0, rows |-> [r \in AuditRecords |-> NoPlace], forks |-> {},
                backup |-> [epoch |-> 0, last |-> 0, rows |-> [r \in AuditRecords |-> NoPlace], forks |-> {}]]
    /\ minute = 1
    /\ window = [m \in Minutes |-> [detailed |-> 0, overflow |-> 0, summarized |-> FALSE]]
    /\ denials = [m \in Minutes |-> 0]
    /\ summary = [m \in Minutes |-> <<>>]
    /\ chance = scenario.chance

Cycle(w) ==
    \/ Begin(w) \/ Number(w) \/ Flush(w) \/ Transfer(w) \/ wire(w) \/ Send(w) \/ Settle(w)
    \/ Watermark(w) \/ Purge(w) \/ Backlog(w)

Operations == (\E r \in AuditRecords : Write(r) \/ Read("read", r)) \/ Denial \/ MinutePasses

Faults ==
    \/ \E w \in DOMAIN worker : SendFails(w) \/ Crash(w)
    \/ AuditBackup \/ AuditRestore \/ OwnBackup \/ OwnRestore \/ RetentionPasses

Next == (\E w \in DOMAIN worker : Cycle(w)) \/ Operations \/ Faults

Spec == Init /\ [][Next]_tvars

-----------------------------------------------------------------------------
(* Properties.                                                             *)

\* A record deleted here is in the audit component's latest backup: no restore of it loses the record (Purge).
DeletedIsBackedUp ==
    \A r \in AuditRecords : alog[r].state = "deleted" => audit.backup.rows[r] # NoPlace

\* The sequences given in an epoch of the member's database are 1, 2, ... without a gap or a repetition, however
\* rounds, strict reads and restores interleave (Number).
NumbersHaveNoGaps ==
    \A e \in 1..ownEpoch :
        LET in == {r \in AuditRecords : alog[r].at.epoch = e} IN {alog[r].at.seq : r \in in} = 1..Cardinality(in)

\* The denials of a summarized minute are all accounted for: its detailed records and one summary with the rest
\* (Denial, Flush).
DenialsAreCounted ==
    \A m \in Minutes : window[m].summarized =>
        /\ Len(summary[m]) = 1
        /\ Min({window[m].detailed, DenialBudget}) + summary[m][1] = denials[m]

\* Every record that is still here, and not refused, is in the audit component.
AllStored == \A r \in AuditRecords : alog[r].state \in {"pending", "received"} => audit.rows[r] # NoPlace
=============================================================================
