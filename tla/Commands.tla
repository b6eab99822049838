------------------------------ MODULE Commands -----------------------------
(***************************************************************************)
(* A member's commands: db.DB.run (budget, attempts, hooks, the pooled     *)
(* connection), idem.Do (the idempotency key) and db.NextNumber (a         *)
(* continuous document series) in one transaction each, run by several     *)
(* handlers at once.                                                       *)
(*                                                                         *)
(* A request arrives in copies (its caller retries).  Its transaction      *)
(* claims the key, takes a number, writes the document and commits; locks  *)
(* are held until it ends, uncommitted writes stay in the handler's own    *)
(* record.  now() is the transaction's start, so what has expired is read  *)
(* when it begins.  A lost commit answer is a commit whose handler sees an *)
(* error.                                                                  *)
(***************************************************************************)
EXTENDS Integers, FiniteSets, FiniteSetsExt, Sequences

CONSTANTS
    Handlers,       \* goroutines handling requests
    maxAttempts,    \* attempts of a transaction; 3 in the code
    Scenarios       \* the requests and their copies, the budget, the faults

VARIABLES
    scenario,
    h,              \* per handler: where it is in its request
    inUse,          \* the member's connection budget
    idleConns,      \* the pool's idle connections: "clean" or "changed"
    keyRow,         \* be_idempotency, per key
    last,           \* be_doc_series.last_number of the series
    docs,           \* committed documents: [key, body, number]
    voided,         \* numbers voided by a raise of the series
    copies,         \* copies of each request still to arrive
    answers,        \* history: outcomes answered, [key, body, number]
    forgotten,      \* history: how often a key's record expired
    remaining            \* faults and time steps remaining

vars == <<scenario, h, inUse, idleConns, keyRow, last, docs, voided, copies,
          answers, forgotten, remaining>>

-----------------------------------------------------------------------------
NoRequest == [key |-> "none", body |-> "none"]
NoRow == [body |-> "none", number |-> 0, expired |-> FALSE]

Idle == [at |-> "idle", req |-> NoRequest, attempt |-> 0, gone |-> {}, claimed |-> FALSE,
         number |-> 0, rolled |-> 0, conn |-> "none"]

Spend(kind) == remaining[kind] > 0 /\ remaining' = [remaining EXCEPT ![kind] = @ - 1]

Keys == DOMAIN scenario.keys

\* Row locks are held by transactions until they end.
KeyLocked(i, k) == \E j \in Handlers \ {i} : h[j].claimed /\ h[j].req.key = k
SeriesLocked(i) == \E j \in Handlers \ {i} : h[j].number > 0

-----------------------------------------------------------------------------
(* run: the budget, then attempts.                                         *)

Arrive(i, r) ==
    /\ h[i].at = "idle" /\ copies[r] > 0
    /\ copies' = [copies EXCEPT ![r] = @ - 1]
    /\ h' = [h EXCEPT ![i] = [Idle EXCEPT !.at = "wait", !.req = r, !.attempt = 1]]
    /\ UNCHANGED <<scenario, inUse, idleConns, keyRow, last, docs, voided, answers, forgotten, remaining>>

Acquire(i) ==
    /\ h[i].at = "wait" /\ inUse < scenario.budget
    /\ inUse' = inUse + 1
    /\ h' = [h EXCEPT ![i].at = "begin"]
    /\ UNCHANGED <<scenario, idleConns, keyRow, last, docs, voided, copies, answers, forgotten, remaining>>

\* ForegroundWait is over: SERVICE_BUSY.
Busy(i) ==
    /\ h[i].at = "wait" /\ inUse = scenario.budget
    /\ h' = [h EXCEPT ![i] = Idle]
    /\ UNCHANGED <<scenario, inUse, idleConns, keyRow, last, docs, voided, copies, answers, forgotten, remaining>>

\* once: a connection, BEGIN and the transaction's own settings.
Begin(i) ==
    /\ h[i].at = "begin"
    /\ \E c \in idleConns \cup {"clean"} :
        /\ idleConns' = idleConns \ {c}
        /\ h' = [h EXCEPT ![i].at = "claim", ![i].conn = c,
                          ![i].gone = {k \in Keys : keyRow[k].expired}]
    /\ UNCHANGED <<scenario, inUse, keyRow, last, docs, voided, copies, answers, forgotten, remaining>>

\* Pool.release: a connection whose reported settings changed is closed.
release(c) == IF c = "clean" THEN {c} ELSE {}

\* Mutation of GivesBack: the hooks run while the budget is still held.
GivesBackAfterHooks(i, f) ==
    IF f.rolled > 0
    THEN inUse' = inUse /\ h' = [h EXCEPT ![i] = [f EXCEPT !.at = "hook"]]
    ELSE inUse' = inUse - 1 /\ h' = [h EXCEPT ![i] = Idle]

\* run ends with an error: budget and connection are back, then the last
\* attempt's AfterRollback hooks run.
GivesBack(i, f) ==
    /\ inUse' = inUse - 1
    /\ h' = [h EXCEPT ![i] = IF f.rolled > 0 THEN [f EXCEPT !.at = "hook"] ELSE Idle]

\* The attempt rolls back; a conflict or a deadlock is tried again, without
\* the hooks of this attempt.
Rollback(i, retryable) ==
    LET f == [h[i] EXCEPT !.claimed = FALSE, !.number = 0, !.conn = "none"]
    IN /\ idleConns' = idleConns \cup release(h[i].conn)
       /\ IF retryable /\ f.attempt < maxAttempts
          THEN /\ h' = [h EXCEPT ![i] = [f EXCEPT !.at = "begin", !.attempt = @ + 1, !.rolled = 0]]
               /\ inUse' = inUse
          ELSE GivesBack(i, f)

\* A hook opens a transaction of its own.
Hook(i) ==
    /\ h[i].at = "hook" /\ inUse < scenario.budget
    /\ h' = [h EXCEPT ![i] = Idle]
    /\ UNCHANGED <<scenario, inUse, idleConns, keyRow, last, docs, voided, copies, answers, forgotten, remaining>>

InTx(i) == h[i].at \in {"claim", "stored", "number", "commit"}

Conflict(i) ==
    /\ InTx(i) /\ Spend("conflict")
    /\ Rollback(i, TRUE)
    /\ UNCHANGED <<scenario, keyRow, last, docs, voided, copies, answers, forgotten>>

\* The component's function, a statement, a wait for a lock or the connection
\* fails; or the pool gives none.
Fails(i) ==
    /\ InTx(i) \/ h[i].at = "begin"
    /\ Spend("fail")
    /\ Rollback(i, FALSE)
    /\ UNCHANGED <<scenario, keyRow, last, docs, voided, copies, answers, forgotten>>

\* A function called in the transaction changes a reported session setting.
LeavesSetting(i) ==
    /\ InTx(i) /\ Spend("setting")
    /\ h' = [h EXCEPT ![i].conn = "changed"]
    /\ UNCHANGED <<scenario, inUse, idleConns, keyRow, last, docs, voided, copies, answers, forgotten>>

-----------------------------------------------------------------------------
(* idem.Do.                                                                *)

\* The key has no record, or one that had expired when the transaction began.
Free(i, k) == keyRow[k] = NoRow \/ (k \in h[i].gone /\ keyRow[k].expired)

\* The claim waits for another transaction's claim of the key.
Claim(i) ==
    LET k == h[i].req.key
    IN /\ h[i].at = "claim" /\ ~KeyLocked(i, k)
       /\ h' = IF Free(i, k)
               THEN [h EXCEPT ![i].at = "number", ![i].claimed = TRUE, ![i].rolled = @ + 1]
               ELSE [h EXCEPT ![i].at = "stored"]
       /\ UNCHANGED <<scenario, inUse, idleConns, keyRow, last, docs, voided, copies, answers, forgotten, remaining>>

\* The wait times out: IDEMPOTENCY_IN_PROGRESS.
InProgress(i) ==
    /\ h[i].at = "claim" /\ KeyLocked(i, h[i].req.key)
    /\ Rollback(i, FALSE)
    /\ UNCHANGED <<scenario, keyRow, last, docs, voided, copies, answers, forgotten, remaining>>

\* The stored record is this request's.
Same(row, r) == row # NoRow /\ row.body = r.body

\* A replay: the stored outcome, or IDEMPOTENCY_KEY_REUSED, or, the record
\* cleaned up meanwhile, IDEMPOTENCY_IN_PROGRESS.
stored(i) ==
    LET r == h[i].req
        row == keyRow[r.key]
    IN /\ h[i].at = "stored"
       /\ IF Same(row, r)
          THEN /\ answers' = answers \cup {[key |-> r.key, body |-> r.body, number |-> row.number]}
               /\ idleConns' = idleConns \cup release(h[i].conn)
               /\ inUse' = inUse - 1 /\ h' = [h EXCEPT ![i] = Idle]
          ELSE Rollback(i, FALSE) /\ UNCHANGED answers
       /\ UNCHANGED <<scenario, keyRow, last, docs, voided, copies, forgotten, remaining>>

KeyExpires(k) ==
    /\ keyRow[k] # NoRow /\ ~keyRow[k].expired /\ Spend("expire")
    /\ keyRow' = [keyRow EXCEPT ![k].expired = TRUE]
    /\ forgotten' = [forgotten EXCEPT ![k] = @ + 1]
    /\ UNCHANGED <<scenario, h, inUse, idleConns, last, docs, voided, copies, answers>>

\* idem.Cleanup; locked rows are skipped.
Cleanup(k) ==
    /\ keyRow[k].expired /\ \A i \in Handlers : ~(h[i].claimed /\ h[i].req.key = k)
    /\ keyRow' = [keyRow EXCEPT ![k] = NoRow]
    /\ UNCHANGED <<scenario, h, inUse, idleConns, last, docs, voided, copies, answers, forgotten, remaining>>

-----------------------------------------------------------------------------
(* The command's function: a document with the series' next number.        *)

\* NextNumber: the series row stays locked until the transaction ends.
NextNumber(i) ==
    /\ h[i].at = "number" /\ ~SeriesLocked(i)
    /\ h' = [h EXCEPT ![i].at = "commit", ![i].number = last + 1]
    /\ UNCHANGED <<scenario, inUse, idleConns, keyRow, last, docs, voided, copies, answers, forgotten, remaining>>

\* RaiseContinuous (a recovery): never lowered, the numbers between voided.
\* It waits for the series' row; a row that is not there yet it cannot lock,
\* but no command runs in the phase of a recovery that raises the numbers.
RaiseContinuous(to) ==
    /\ \A i \in Handlers : h[i].number = 0 /\ (last = 0 => ~InTx(i))
    /\ to > last /\ Spend("raise")
    /\ last' = to
    /\ voided' = voided \cup (last + 1) .. to
    /\ UNCHANGED <<scenario, h, inUse, idleConns, keyRow, docs, copies, answers, forgotten>>

Committed(i) ==
    LET r == h[i].req
    IN /\ docs' = docs \cup {[key |-> r.key, body |-> r.body, number |-> h[i].number]}
       /\ keyRow' = [keyRow EXCEPT ![r.key] = [body |-> r.body, number |-> h[i].number, expired |-> FALSE]]
       /\ last' = Max({last, h[i].number})

\* The cutoff has not passed and COMMIT succeeds; the AfterCommit hooks run.
Commit(i) ==
    LET r == h[i].req
    IN /\ h[i].at = "commit"
       /\ Committed(i)
       /\ answers' = answers \cup {[key |-> r.key, body |-> r.body, number |-> h[i].number]}
       /\ idleConns' = idleConns \cup release(h[i].conn)
       /\ inUse' = inUse - 1
       /\ h' = [h EXCEPT ![i] = Idle]
       /\ UNCHANGED <<scenario, voided, copies, forgotten, remaining>>

\* The authorization's cutoff has passed: AUTHORIZATION_VIEW_EXPIRED.
CutOff(i) ==
    /\ h[i].at = "commit" /\ Spend("cutoff")
    /\ Rollback(i, FALSE)
    /\ UNCHANGED <<scenario, keyRow, last, docs, voided, copies, answers, forgotten>>

\* COMMIT takes effect and its answer is lost with the connection.
CommitLost(i) ==
    LET f == [h[i] EXCEPT !.claimed = FALSE, !.number = 0, !.conn = "none"]
    IN /\ h[i].at = "commit" /\ Spend("lost")
       /\ Committed(i)
       /\ GivesBack(i, f)
       /\ UNCHANGED <<scenario, idleConns, voided, copies, answers, forgotten>>

-----------------------------------------------------------------------------
\* What a scenario is: copies of requests with known keys, a budget, and how often each fault may come.
Scenario(s) ==
    /\ s.budget \in Nat
    /\ \A r \in DOMAIN s.requests : r.key \in DOMAIN s.keys /\ s.requests[r] \in Nat
    /\ \A kind \in DOMAIN s.remaining : s.remaining[kind] \in Nat

CommandsConstants == maxAttempts \in Nat /\ \A s \in Scenarios : Scenario(s)

Init ==
    /\ scenario \in Scenarios
    /\ h = [i \in Handlers |-> Idle]
    /\ inUse = 0
    /\ idleConns = {}
    /\ keyRow = [k \in Keys |-> NoRow]
    /\ last = 0
    /\ docs = {} /\ voided = {} /\ answers = {}
    /\ copies = scenario.requests
    /\ forgotten = [k \in Keys |-> 0]
    /\ remaining = scenario.remaining

Step(i) ==
    \/ Acquire(i) \/ Busy(i) \/ Begin(i) \/ Claim(i) \/ InProgress(i) \/ stored(i)
    \/ NextNumber(i) \/ Commit(i) \/ Hook(i)

Trouble(i) == Conflict(i) \/ Fails(i) \/ LeavesSetting(i) \/ CutOff(i) \/ CommitLost(i)

Next ==
    \/ \E i \in Handlers :
        (\E r \in DOMAIN copies : Arrive(i, r)) \/ Step(i) \/ Trouble(i)
    \/ \E k \in Keys : KeyExpires(k) \/ Cleanup(k)
    \/ \E to \in {last + 1} : RaiseContinuous(to)

Spec == Init /\ [][Next]_vars

-----------------------------------------------------------------------------
(* Properties.                                                             *)

\* The series has neither gaps nor duplicates: every number up to the last is
\* one committed document's or was voided by a raise, whatever rolled back,
\* was retried or lost its commit answer (NextNumber in the issuing tx).
NoGaps ==
    /\ {d.number : d \in docs} \cup voided = 1 .. last
    /\ Cardinality(docs) + Cardinality(voided) = last

\* While a key's record is kept the command runs once, however many copies of
\* the request arrive at the same time or after a lost answer (idem.Do).
OncePerKey ==
    \A k \in Keys : Cardinality({d \in docs : d.key = k}) <= 1 + forgotten[k]

\* An answered outcome is a committed document of that very request: a replay
\* never answers another request's outcome (stored's fingerprint).
AnswersAreOwn == answers \subseteq docs

\* No transaction inherits a session setting from the connection's previous
\* borrower (Pool.release).
ConnectionsAreClean == idleConns \subseteq {"clean"}
=============================================================================
