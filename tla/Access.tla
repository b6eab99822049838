------------------------------- MODULE Access -------------------------------
(***************************************************************************)
(* The authorization view a member holds (authz/view.go) and the requests   *)
(* it admits by it (guard/guard.go, authz/subject.go), with one shard and   *)
(* one principal.                                                           *)
(*                                                                         *)
(* The authorization member is external: it answers a verification with     *)
(* what holds when it computes the answer, says when its own sources are    *)
(* stale, may recover to a higher generation, and faults let a lagging      *)
(* replica or another instance answer.  Calls take time, fail, or bring an  *)
(* answer of another request.  now is the clock that counts suspension.     *)
(***************************************************************************)
EXTENDS Integers, FiniteSets

CONSTANTS
    Asking,         \* requests
    WRead, WHigh,   \* validity of a shard for ordinary and for high-risk operations; 30 s and 5 s in the code
    CommitWindow,   \* the longest time from the cutoff check to COMMIT; 2 s in the code
    Scenarios       \* the kinds of the requests, the faults, and until when the clock runs

VARIABLES
    scenario,
    now,     \* the suspend-aware clock
    authority,      \* the authorization member: generation, instance, revision, grant, security version, mode
    older,          \* history: what the authority held before its last change
    since,          \* history: when the grant was revoked, the security version raised, the sources went stale
    holder,         \* the shard held, with its validity, and what the acceptance table remembers
    verifying,      \* the verification under way
    asked,          \* the requests
    fate            \* changes and faults still to come

avars == <<scenario, now, authority, older, since, holder, verifying, asked, fate>>

Befalls(what) == fate[what] > 0 /\ fate' = [fate EXCEPT ![what] = @ - 1]

NoShard == [has |-> FALSE]
NoCall == [pc |-> "idle"]
NewHolder == [shard |-> NoShard, recovery |-> 0, instance |-> "", stalled |-> FALSE, used |-> 0]

-----------------------------------------------------------------------------
(* The authorization member and time.                                      *)

Content == [rev |-> authority.rev, granted |-> authority.granted, sv |-> authority.sv]

Changes(what, new) ==
    /\ Befalls(what)
    /\ older' = Content
    /\ authority' = [new EXCEPT !.rev = @ + 1]
    /\ UNCHANGED <<scenario, now, holder, verifying, asked>>

Revoke == authority.granted /\ Changes("revoke", [authority EXCEPT !.granted = FALSE]) /\ since' = [since EXCEPT !.revoked = now]
Regrant == ~authority.granted /\ Changes("grant", [authority EXCEPT !.granted = TRUE]) /\ UNCHANGED since
RaiseVersion == Changes("raise", [authority EXCEPT !.sv = @ + 1]) /\ since' = [since EXCEPT !.raised = now]

SourceStale(mode) ==
    /\ authority.mode = "fresh" /\ Befalls("stale")
    /\ authority' = [authority EXCEPT !.mode = mode]
    /\ since' = [since EXCEPT !.stale = now]
    /\ UNCHANGED <<scenario, now, older, holder, verifying, asked>>

SourceFresh ==
    /\ authority.mode # "fresh"
    /\ authority' = [authority EXCEPT !.mode = "fresh"]
    /\ UNCHANGED <<scenario, now, older, since, holder, verifying, asked, fate>>

Recover ==
    /\ Befalls("recover")
    /\ authority' = [authority EXCEPT !.gen = @ + 1]
    /\ UNCHANGED <<scenario, now, older, since, holder, verifying, asked>>

\* The operator answers a stopped view with a recovery.
Respond ==
    /\ holder.shard.has /\ holder.shard.stopped /\ holder.shard.gen = authority.gen
    /\ authority' = [authority EXCEPT !.gen = @ + 1]
    /\ UNCHANGED <<scenario, now, older, since, holder, verifying, asked, fate>>

Tick ==
    /\ now < scenario.until
    /\ now' = now + 1
    /\ UNCHANGED <<scenario, authority, older, since, holder, verifying, asked, fate>>

\* The machine sleeps: the clock goes on, the process does not.  rest and tick
\* see a gap in the wait between two verifications, not one in a verification.
Suspend ==
    /\ now + 2 <= scenario.until /\ Befalls("suspend")
    /\ now' = now + 2
    /\ holder' = [holder EXCEPT !.stalled = @ \/ verifying.pc = "idle"]
    /\ UNCHANGED <<scenario, authority, older, since, verifying, asked>>

-----------------------------------------------------------------------------
(* view.go: Run, Verify, apply.                                            *)

Boot == now

\* tick: a stall invalidates every shard.
Ticked == IF holder.stalled THEN [holder EXCEPT !.shard = NoShard, !.stalled = FALSE, !.used = 0] ELSE holder

Send ==
    /\ verifying.pc = "idle"
    /\ holder' = Ticked
    /\ verifying' = [pc |-> "sent", at |-> Boot,
                     held |-> IF holder'.shard.has THEN <<holder'.shard.gen, holder'.shard.content>> ELSE <<>>]
    /\ UNCHANGED <<scenario, now, authority, older, since, asked, fate>>

\* The authority computes its answer; a lagging replica, or another instance, may be the one to answer.
Answer(content, gen, instance) ==
    [instance |-> instance, gen |-> gen, content |-> content, readOnly |-> authority.mode = "stale",
     status |-> IF authority.mode = "closed" THEN "closed"
                ELSE IF verifying.held = <<gen, content>> THEN "unchanged"
                ELSE "changed"]

Compute ==
    /\ verifying.pc = "sent"
    /\ \E who \in {"current"} \cup scenario.answers :
        LET a == CASE who = "current" -> Answer(Content, authority.gen, "one")
                   [] who = "lagging" -> Answer(older, authority.gen, "one")
                   [] who = "old generation" -> Answer(Content, authority.gen - 1, "one")
                   [] who = "another instance" -> Answer(Content, authority.gen, "two") IN
        /\ IF who = "current" THEN UNCHANGED fate ELSE Befalls("lag")
        /\ verifying' = [pc |-> "answered", at |-> verifying.at, answer |-> a]
    /\ UNCHANGED <<scenario, now, authority, older, since, holder, asked>>

\* The call fails, or its answer carries another request's nonce and is discarded.
Discard ==
    /\ verifying.pc # "idle" /\ Befalls("lost")
    /\ verifying' = NoCall
    /\ UNCHANGED <<scenario, now, authority, older, since, holder, asked>>

\* Mutation of SentAt: the validity counts from the answer.
SentAtReceipt == now

\* Validity counts from the moment the request leaves.
SentAt == verifying.at

revisionsGoBack(held, next) == next.rev < held.rev

Suspended(h) == [h EXCEPT !.shard = IF h.shard.has THEN [h.shard EXCEPT !.suspended = TRUE] ELSE @]

\* A shard replaced: a read-only renewal carries the high-risk validity over from the shard it replaces.
Replaced(s, a) ==
    [has |-> TRUE, gen |-> a.gen, content |-> a.content, at |-> SentAt, stopped |-> FALSE, suspended |-> FALSE,
     sourceStale |-> a.readOnly,
     highAt |-> IF ~a.readOnly THEN SentAt ELSE IF s.has THEN s.highAt ELSE 0,
     hasHigh |-> ~a.readOnly \/ (s.has /\ s.hasHigh)]

Renewed(s, a) ==
    [s EXCEPT !.at = SentAt, !.suspended = FALSE, !.sourceStale = a.readOnly,
              !.highAt = IF a.readOnly THEN @ ELSE SentAt, !.hasHigh = @ \/ ~a.readOnly]

\* The acceptance table, in order: a rollback of the whole answer, a higher generation, then the shard.
apply(h, a) ==
    LET newer == a.gen > h.recovery
        s == IF newer THEN NoShard ELSE h.shard
        accepted == [h EXCEPT !.recovery = a.gen, !.instance = a.instance, !.used = IF newer THEN 0 ELSE @]
    IN  IF a.gen < h.recovery \/ (h.instance # "" /\ a.instance # h.instance)
        THEN Suspended(h)
        ELSE [accepted EXCEPT !.shard =
                IF a.status = "closed" THEN IF s.has THEN [s EXCEPT !.sourceStale = TRUE] ELSE s
                ELSE IF s.has /\ s.stopped THEN s
                ELSE IF a.status = "unchanged" THEN IF s.has THEN Renewed(s, a) ELSE s
                ELSE IF s.has /\ revisionsGoBack(s.content, a.content) THEN [s EXCEPT !.stopped = TRUE]
                ELSE Replaced(s, a)]

Receive ==
    /\ verifying.pc = "answered"
    /\ holder' = apply(holder, verifying.answer)
    /\ verifying' = NoCall
    /\ UNCHANGED <<scenario, now, authority, older, since, asked, fate>>

Restart ==
    /\ Befalls("restart")
    /\ holder' = NewHolder /\ verifying' = NoCall
    /\ asked' = [r \in Asking |-> IF asked[r].pc \in {"admitted", "checked", "committing"} THEN [pc |-> "refused"] ELSE asked[r]]
    /\ UNCHANGED <<scenario, now, authority, older, since>>

-----------------------------------------------------------------------------
(* Lookup, LookupStale, Admit, the cutoff before COMMIT, and COMMIT.       *)

Window(kind) == IF kind = "low" THEN WRead ELSE WHigh

Usable(s) == s.has /\ ~s.stopped /\ ~s.suspended

Valid(s, kind) ==
    /\ Usable(s)
    /\ IF kind = "low" THEN Boot < s.at + WRead ELSE s.hasHigh /\ Boot < s.highAt + WHigh

\* The last view of a shard whose source the authority said is stale, for a tightening only.
ValidStale(s, kind) == kind = "tightening" /\ Usable(s) /\ s.sourceStale /\ s.hasHigh

Cutoff(s, kind) ==
    IF ~Valid(s, kind) THEN Boot + WRead
    ELSE IF kind = "low" THEN s.at + WRead
    ELSE s.highAt + WHigh

Stale(tokenSV, viewSV) == viewSV > tokenSV

Earlier(x, y) == IF x < y THEN x ELSE y

\* The guard: a view, and a credential not older than the account's last security change.
Admit(r) ==
    LET s == holder.shard kind == scenario.kinds[r] IN
    /\ asked[r].pc = "idle"
    /\ asked' = [asked EXCEPT ![r] =
            IF (Valid(s, kind) \/ ValidStale(s, kind)) /\ ~Stale(1, s.content.sv)
            THEN [pc |-> "admitted", cutoff |-> Cutoff(s, kind), stale |-> FALSE]
            ELSE [pc |-> "refused"]]
    /\ UNCHANGED <<scenario, now, authority, older, since, holder, verifying, fate>>

\* Check, in the handler: the grant is looked up again and the record decided on it; the earlier cutoff holds.
Check(r) ==
    LET s == holder.shard kind == scenario.kinds[r]
        allowed == (Valid(s, kind) \/ ValidStale(s, kind)) /\ s.content.granted IN
    /\ asked[r].pc = "admitted"
    /\ asked' = [asked EXCEPT ![r] =
            IF allowed
            THEN [pc |-> "checked", cutoff |-> Earlier(asked[r].cutoff, Cutoff(s, kind)), stale |-> ~Valid(s, kind)]
            ELSE [pc |-> "refused"]]
    /\ holder' = IF allowed THEN [holder EXCEPT !.used = s.content.rev] ELSE holder
    /\ UNCHANGED <<scenario, now, authority, older, since, verifying, fate>>

InTime(q) == Boot < q.cutoff

\* db/tx.go, once: the window is set in the database, then the cutoff is checked.
Precommit(r) ==
    /\ asked[r].pc = "checked"
    /\ asked' = [asked EXCEPT ![r] =
            IF InTime(asked[r]) THEN [pc |-> "committing", until |-> Boot + CommitWindow, stale |-> asked[r].stale]
            ELSE [pc |-> "cut off"]]
    /\ UNCHANGED <<scenario, now, authority, older, since, holder, verifying, fate>>

\* COMMIT reaches the database, which has ended the transaction if its window has run out.
Commit(r) ==
    /\ asked[r].pc = "committing"
    /\ asked' = [asked EXCEPT ![r] = [pc |-> IF now <= asked[r].until THEN "done" ELSE "ended"]]
    /\ UNCHANGED <<scenario, now, authority, older, since, holder, verifying, fate>>

-----------------------------------------------------------------------------

Init ==
    /\ scenario \in Scenarios
    /\ now = 0
    /\ authority = [gen |-> 2, rev |-> 2, granted |-> TRUE, sv |-> 1, mode |-> "fresh"]
    /\ older = [rev |-> 1, granted |-> FALSE, sv |-> 1]
    /\ since = [revoked |-> 0, raised |-> 0, stale |-> 0]
    /\ holder = NewHolder /\ verifying = NoCall
    /\ asked = [r \in Asking |-> [pc |-> "idle"]]
    /\ fate = scenario.fate

Authority == Revoke \/ Regrant \/ RaiseVersion \/ SourceStale("stale") \/ SourceStale("closed") \/ SourceFresh \/ Recover \/ Respond

Verify == Send \/ Compute \/ Receive

Next ==
    \/ Authority \/ Tick \/ Suspend \/ Verify \/ Discard \/ Restart
    \/ \E r \in Asking : Admit(r) \/ Check(r) \/ Precommit(r) \/ Commit(r)

Spec == Init /\ [][Next]_avars

-----------------------------------------------------------------------------
(* Properties.                                                             *)

\* A write that COMMIT keeps.
Kept(r) == asked[r].pc = "committing" /\ asked'[r].pc = "done" /\ ~asked[r].stale

\* A write is committed less than its validity and the commit window after the grant was revoked, or the security version
\* raised, unless it is a tightening on a stale basis; whatever answers are delayed and however long the machine sleeps
\* (Verify, Lookup, the cutoff before COMMIT).
RevokedInTime ==
    \A r \in Asking : LET within == Window(scenario.kinds[r]) + CommitWindow IN
        Kept(r) /\ scenario.fate.lag = 0 =>
            /\ authority.granted \/ now < since.revoked + within
            /\ authority.sv = 1 \/ now < since.raised + within

\* A high-risk write is committed only within its validity and the commit window of a time the authority's own sources
\* were fresh (read_only).
HighRiskIsFresh ==
    \A r \in Asking :
        Kept(r) /\ scenario.kinds[r] # "low" => authority.mode = "fresh" \/ now < since.stale + WHigh + CommitWindow

\* A usable view is of the highest generation accepted, and never older than one a request was decided on, until the
\* process starts again or stalls (the acceptance table).
NeverGoesBack ==
    Usable(holder.shard) => holder.shard.gen = holder.recovery /\ holder.shard.content.rev >= holder.used
=============================================================================
