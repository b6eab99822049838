-------------------------------- MODULE View --------------------------------
(***************************************************************************)
(* A projection of another component's records: the source (its outbox,    *)
(* the pulls, snapshots and reads it answers: events/watermark.go,         *)
(* events/records.go), the stream between them, and the consumer (package  *)
(* projection): inputs received by position, pulls that prove the          *)
(* projection fresh, alignments, repairs and quarantine.                   *)
(*                                                                         *)
(* A content is named by the commit that wrote it (at): truth lists what   *)
(* the source held after every commit, so a moment is an index of truth    *)
(* and m_p, the consumer's clock when it recorded a pull, is one.  A       *)
(* transaction is one action; a worker's calls to the source and its       *)
(* transactions are separate steps, between which anything may happen.     *)
(* scenario.watermark tells a watermark source (Watermarked) from a plain  *)
(* projection (Projection.Apply, Align and Repair).                        *)
(***************************************************************************)
EXTENDS ProjectionTables, Naturals, FiniteSets, Sequences, SequencesExt, FiniteSetsExt

CONSTANTS
    Workers,              \* the consumer's replicas, each with its own Run loop
    PullPage,             \* rows of a partition one page returns
    RecordPage,           \* records one snapshot page returns
    QuarantineAttempts,   \* failed attempts after which an event is quarantined
    MaxDeliver,           \* the transport's delivery limit
    Scenarios

VARIABLES
    scenario,
    src,      \* the source: identity, records, outbox
    wire,     \* the stream: per partition, the messages not yet handled
    view,     \* the consumer's tables
    puller,   \* what every worker is doing
    left,     \* how often each optional event may still happen
    truth,    \* what the source held after each commit
    kept,     \* what a failover, restore or rewind of each side brings back
    nonces    \* pulls ever recorded: the next nonce

viewVars == <<scenario, src, wire, view, puller, left, truth, kept, nonces>>

Records == {"r", "s"}
Parts == scenario.parts
PartitionOf(r) == IF r = "s" /\ 1 \in Parts THEN 1 ELSE 0

Spent(k) == left[k] > 0 /\ left' = [left EXCEPT ![k] = @ - 1]

-----------------------------------------------------------------------------
(* The source *)

\* Its outbox rows: out are a partition's rows without a position, log those with one; last is the counter.
EventRow(kind, rec, version, at) == [kind |-> kind, rec |-> rec, version |-> version, at |-> at]
RowsOf(s, p, e) == {x \in s.log : x.p = p /\ x.epoch = e}
RowAt(s, p, e, n) == {x \in RowsOf(s, p, e) : x.seq = n}
Counter(s, p) == IF s.last[p].epoch = s.epoch THEN s.last[p].seq ELSE 0
Identity(x) == IF x.kind = "echo" THEN <<"echo", x.rec, 0>> ELSE <<x.rec, x.version, x.at>>

\* A business transaction writes a record and emits its event.
Commit(r, kind) ==
    /\ Spent(kind)
    /\ kind \in {"partial", "delete"} => src.rec[r].state = "exists"
    /\ src.rec[r].state # "purged"
    /\ LET v == src.rec[r].version + 1
           at == Len(truth) + 1
           rec == [src.rec EXCEPT ![r] = [state |-> IF kind = "delete" THEN "tombstone" ELSE "exists",
                                          version |-> v, at |-> at]] IN
       /\ src' = [src EXCEPT !.rec = rec, !.out[PartitionOf(r)] = Append(@, EventRow(kind, r, v, at))]
       /\ truth' = Append(truth, rec)
    /\ UNCHANGED <<scenario, wire, view, puller, kept, nonces>>

\* The source forgets a tombstone.
PurgeRecord(r) ==
    /\ Spent("purge") /\ src.rec[r].state = "tombstone"
    /\ src' = [src EXCEPT !.rec[r].state = "purged"]
    /\ UNCHANGED <<scenario, wire, view, puller, truth, kept, nonces>>

\* The partition's rows get their positions in the current epoch.
Number(s, p) ==
    LET new == {[p |-> p, epoch |-> s.epoch, seq |-> Counter(s, p) + i, kind |-> s.out[p][i].kind, impl |-> s.impl,
                 rec |-> s.out[p][i].rec, version |-> s.out[p][i].version, at |-> s.out[p][i].at, sent |-> FALSE, tries |-> 1] :
                i \in 1..Len(s.out[p])} IN
    [s EXCEPT !.out[p] = <<>>, !.log = @ \cup new,
              !.last[p] = [epoch |-> s.epoch, seq |-> Counter(s, p) + Len(s.out[p])]]

Before(x, y) == Later(y.epoch, x.epoch) \/ (x.epoch = y.epoch /\ x.seq < y.seq)

\* The forwarder numbers the partition and publishes its new rows in order.
Forward(p) ==
    LET s == Number(src, p)
        unsent == {x \in s.log : x.p = p /\ ~x.sent} IN
    /\ unsent # {}
    /\ src' = [s EXCEPT !.log = {IF x \in unsent THEN [x EXCEPT !.sent = TRUE] ELSE x : x \in @}]
    /\ wire' = [wire EXCEPT ![p] = @ \o SetToSortSeq(unsent, Before)]
    /\ UNCHANGED <<scenario, view, puller, left, truth, kept, nonces>>

\* The retention deletes published rows of a partition: a batch of the old ones, in no order.
PurgeRows(p) ==
    /\ Spent("retention")
    /\ \E old \in SUBSET {x \in src.log : x.p = p /\ x.sent} :
          old # {} /\ src' = [src EXCEPT !.log = @ \ old]
    /\ UNCHANGED <<scenario, wire, view, puller, truth, kept, nonces>>

\* A message of another implementation instance on the same stream.
ForeignMessage(p) ==
    /\ Spent("foreign")
    /\ wire' = [wire EXCEPT ![p] = Append(@, [p |-> p, epoch |-> src.epoch, seq |-> 1, kind |-> "full", rec |-> "r",
                                              impl |-> "other", version |-> 9, at |-> 0, sent |-> TRUE, tries |-> 1])]
    /\ UNCHANGED <<scenario, src, view, puller, truth, kept, nonces>>

-----------------------------------------------------------------------------
(* The consumer's tables *)

NoRow == [state |-> "none", version |-> 0, need |-> 0, impl |-> "", epoch |-> <<0, 0>>, at |-> 0, gen |-> None,
          minRead |-> None]
NoPosition == [seq |-> None, id |-> <<>>, p0 |-> None, mp |-> None]

Adopted(v) == [deployment |-> "here", impl |-> v.impl, system |-> v.system, epoch |-> v.epoch]
OfAdopted(v, row) == row.impl = v.impl /\ row.epoch = v.epoch

\* An input of the alignment state table.
Input(kind, gen) == [kind |-> kind, gen |-> gen, matches |-> FALSE, check |-> ""]

\* The table's next state; a due re-fetch is noted.  alarms remembers the generations rollbacks were found at.
transition(v, ev) ==
    LET n == NextState(v, ev) IN
    [n EXCEPT !.refetch = @ \/ Refetches(v, ev),
              !.alarms = IF n.status = "stalled" THEN @ \cup {n.stalledGen} ELSE @]

\* Projection.Apply: in is [rec, kind, version, impl, epoch, at, seq].
Apply(v, in) ==
    LET cur == v.row[in.rec]
        old == cur.impl # in.impl \/ cur.epoch # in.epoch
        seen == [state |-> cur.state, version |-> cur.version, need |-> cur.need, old |-> old]
        next == Decide(seen, in.kind, in.version) IN
    IF v.impl # "" /\ in.impl # v.impl THEN [v EXCEPT !.status = "blocked"]
    ELSE IF v.impl # "" /\ in.epoch # v.epoch THEN v
    ELSE IF cur.state = "tombstone" /\ cur.minRead # None /\ in.seq > 0 /\ in.seq <= cur.minRead THEN v
    ELSE IF ~Takes(seen, in.kind, in.version) THEN v
    ELSE [v EXCEPT !.row[in.rec] =
                      [state |-> next.state, version |-> next.version, need |-> next.need, impl |-> in.impl,
                       epoch |-> in.epoch, at |-> IF next.state = "complete" THEN in.at ELSE 0,
                       gen |-> IF v.status = "aligning" THEN v.gen ELSE None, minRead |-> None]]

\* A full event whose content differs from the complete row of its version tells a rollback.
digestTripwire(v, e) ==
    LET row == v.row[e.rec] IN
    IF e.kind = "full" /\ row.state = "complete" /\ row.version = e.version /\ OfAdopted(v, row) /\ row.at # e.at
    THEN transition(v, Input("rollback", Generation(v.epoch))) ELSE v

applyInput(v, e) ==
    digestTripwire(Apply(v, [rec |-> e.rec, kind |-> e.kind, version |-> e.version, impl |-> v.impl, epoch |-> v.epoch,
                             at |-> e.at, seq |-> e.seq]), e)

\* The failures counted at a position, and whether they are enough, or the first one old enough, to quarantine it.
Attempts(v, e) == Cardinality({f \in v.fails : f[1] = e.p /\ f[2] = e.seq})
QuarantineDue(v, e) == Attempts(v, e) >= QuarantineAttempts \/ <<e.p, e.seq>> \in v.aged
Fails(e) == e.kind # "echo" /\ e.at \in scenario.poison

\* The event's subjects are quarantined and its position passed; without subjects it keeps failing.
quarantine(v, e) ==
    [v EXCEPT !.quarantine = @ \cup {[subject |-> e.rec, impl |-> v.impl, epoch |-> v.epoch, p |-> e.p, seq |-> e.seq]},
              !.fails = {f \in @ : f[1] # e.p \/ f[2] # e.seq}, !.aged = @ \ {<<e.p, e.seq>>}]

\* One row of the adopted instance and epoch: to the next view, with how it ended.
applyAt(v, e, contiguous) ==
    LET at == v.part[e.p].seq
        done(w) == [end |-> "ok", view |-> IF ~contiguous THEN w ELSE
                       [w EXCEPT !.part[e.p].seq = e.seq, !.part[e.p].id = Identity(e)]] IN
    IF contiguous /\ (at = None \/ e.seq > at + 1) THEN [end |-> "gap", view |-> v]
    ELSE IF contiguous /\ e.seq <= at THEN [end |-> "ok", view |-> v]
    ELSE IF QuarantineDue(v, e) THEN
           IF scenario.subjects THEN done(quarantine(v, e)) ELSE [end |-> "stop", view |-> v]
    ELSE IF e.kind = "echo" THEN
           done(IF contiguous /\ e.rec \in DOMAIN v.pulls THEN [v EXCEPT !.part[e.p].mp = v.pulls[e.rec]] ELSE v)
    ELSE IF Fails(e) THEN [end |-> "failed", view |-> v]
    ELSE done(applyInput(v, e))

\* A failed attempt is counted after its transaction rolled back.
noteFailure(v, e) == [v EXCEPT !.fails = @ \cup {<<e.p, e.seq, Attempts(v, e) + 1>>}]

\* QuarantineAfter passes since the first failure at a position.
FailureAges ==
    /\ \E f \in view.fails : /\ <<f[1], f[2]>> \notin view.aged
                             /\ view' = [view EXCEPT !.aged = @ \cup {<<f[1], f[2]>>}]
    /\ UNCHANGED <<scenario, src, wire, puller, left, truth, kept, nonces>>

\* What the subscription's handler makes of a message.
handled(v, e) ==
    LET same == [end |-> "ok", view |-> v]
        r == applyAt(v, e, v.status # "aligning") IN
    IF ~scenario.watermark THEN
           IF Fails(e) THEN [end |-> "failed", view |-> v]
           ELSE [end |-> "ok", view |-> IF e.kind = "echo" THEN v ELSE Apply(v, e)]
    ELSE IF v.impl = "" THEN same
    ELSE IF e.impl # v.impl THEN [end |-> "ok", view |-> transition(v, Input("foreign", Generation(e.epoch)))]
    ELSE IF e.epoch # v.epoch \/ v.status = "blocked" THEN same
    ELSE IF v.status = "aligning" /\ (v.part[e.p].p0 = None \/ e.seq <= v.part[e.p].p0) THEN same
    ELSE IF r.end = "gap" THEN same ELSE r

\* External: the application's handler of a plain projection gives an input that Apply skipped as of a newer epoch back,
\* until it has aligned the projection to it.
Waits(e) == ~scenario.watermark /\ view.impl # "" /\ e.impl = view.impl /\ Later(e.epoch, view.epoch)

\* The next message of a partition is handled, or fails and is delivered again until its last delivery.
Handle(p) ==
    /\ wire[p] # <<>> /\ ~Waits(Head(wire[p]))
    /\ LET e == Head(wire[p])
           r == handled(view, e) IN
       /\ view' = IF r.end = "failed" /\ scenario.watermark THEN noteFailure(view, e) ELSE r.view
       /\ wire' = [wire EXCEPT ![p] = IF r.end = "ok" \/ e.tries = MaxDeliver THEN Tail(@)
                                      ELSE <<[e EXCEPT !.tries = @ + 1]>> \o Tail(@)]
    /\ UNCHANGED <<scenario, src, puller, left, truth, kept, nonces>>

\* An operator confirms that a blocked source's configuration is corrected.
Confirm ==
    /\ Spent("confirm") /\ scenario.watermark
    /\ view' = transition(view, Input("operator_confirms", 0))
    /\ UNCHANGED <<scenario, src, wire, puller, truth, kept, nonces>>

-----------------------------------------------------------------------------
(* A worker's step: what is due *)

NoIdentity == [deployment |-> "here", impl |-> "", system |-> 0, epoch |-> <<0, 0>>]

\* want: the identity an alignment runs for; req: the positions a pull carries; need, cursor, echo, rows: what the source
\* answered; decl: what it declared itself as; after, found, asked: where an alignment's reads are.
Resting == [pc |-> "idle", align |-> FALSE, status |-> "", want |-> NoIdentity, nonce |-> 0, req |-> <<>>,
            cursor |-> <<>>, epoch |-> <<0, 0>>, first |-> TRUE, rows |-> <<>>, need |-> <<>>, echo |-> <<>>,
            decl |-> NoIdentity, gen |-> 0, after |-> "", found |-> {}, asked |-> {}]

To(w, pc) == puller' = [puller EXCEPT ![w].pc = pc]
Rest(w) == puller' = [puller EXCEPT ![w] = Resting]
Declared == [deployment |-> "here", impl |-> src.impl, system |-> src.system, epoch |-> src.epoch, primary |-> TRUE]

\* The watermark: the oldest of the partitions' marks.
HasWatermark(v) == \A p \in Parts : v.part[p].mp # None

\* Mutation of Watermark: the partition with the latest proof stands for all.
WatermarkLatest(v) == Max({v.part[p].mp : p \in Parts})

Watermark(v) == Min({v.part[p].mp : p \in Parts})

\* Bound: of the pulls time makes due, those that find nothing new draw on a budget ("look": PullSoon among them).
FindsNews == \/ view.impl = "" \/ view.status = "blocked" \/ (view.status = "stalled" /\ view.epoch # src.epoch)
             \/ view.status = "aligned" /\ (~HasWatermark(view) \/ Watermark(view) < Len(truth))
PullBound == nonces < scenario.pulls /\ ((FindsNews /\ UNCHANGED left) \/ Spent("look"))

\* Watermarked.Step reads the state and decides: nothing for a blocked source nobody confirmed, an alignment when one
\* is due or under way, else a pull; each follows in steps of its own.
Step(w) ==
    /\ puller[w].pc = "idle" /\ scenario.watermark
    /\ view.status # "blocked" \/ view.confirmed
    /\ IF view.impl # "" /\ (view.refetch \/ view.status = "aligning")
       THEN /\ puller' = [puller EXCEPT ![w] = [Resting EXCEPT !.pc = "begin", !.align = TRUE, !.status = view.status,
                                                              !.want = Adopted(view)]]
            /\ UNCHANGED <<left, nonces>>
       ELSE /\ PullBound /\ nonces' = nonces + 1
            /\ puller' = [puller EXCEPT ![w] = [Resting EXCEPT !.pc = "record", !.nonce = nonces']]
    /\ UNCHANGED <<scenario, src, wire, view, truth, kept>>

\* Projection.Align, called by the application.
Align(w) ==
    /\ puller[w].pc = "idle" /\ ~scenario.watermark
    /\ \/ left["align"] > 0
       \/ (view.status # "aligned" \/ view.epoch # src.epoch) /\ \A v \in Workers : ~puller[v].align
    /\ left' = [left EXCEPT !["align"] = IF @ > 0 THEN @ - 1 ELSE 0]
    /\ puller' = [puller EXCEPT ![w] = [Resting EXCEPT !.pc = "begin", !.align = TRUE, !.status = "aligning"]]
    /\ UNCHANGED <<scenario, src, wire, view, truth, kept, nonces>>

-----------------------------------------------------------------------------
(* A pull *)

\* The pull is recorded on the consumer's clock; the marks of another database epoch are dropped.
record(v, n) ==
    LET w == IF v.recorded \notin {0, v.dbEpoch}
             THEN [v EXCEPT !.pulls = <<>>, !.part = [p \in Parts |-> [@[p] EXCEPT !.mp = None]]] ELSE v IN
    [w EXCEPT !.recorded = v.dbEpoch, !.pulls = [k \in DOMAIN @ \cup {n} |-> IF k = n THEN Len(truth) ELSE @[k]]]

\* The pull is recorded before the source is asked; an alignment's carries no positions.
Record(w) ==
    LET o == puller[w] IN
    /\ o.pc = "record"
    /\ view' = record(view, o.nonce)
    /\ puller' = [puller EXCEPT ![w] = [o EXCEPT !.pc = IF o.align THEN "check" ELSE "load",
                     !.req = IF o.align THEN [p \in Parts |-> [seq |-> None, id |-> <<>>, impl |-> "", epoch |-> <<0, 0>>]]
                             ELSE @]]
    /\ UNCHANGED <<scenario, src, wire, left, truth, kept, nonces>>

\* What a pull carries: every partition's contiguous position.
positions == [p \in Parts |-> [seq |-> view.part[p].seq, id |-> view.part[p].id, impl |-> view.impl, epoch |-> view.epoch]]

\* A pull reads the positions it asks from.
Pull(w) ==
    /\ puller[w].pc = "load"
    /\ puller' = [puller EXCEPT ![w].pc = "check", ![w].req = positions]
    /\ UNCHANGED <<scenario, src, wire, view, left, truth, kept, nonces>>

\* What the source answers for a position it is asked from.
PullCheck(p, q) ==
    LET at == RowAt(src, p, src.epoch, q.seq) IN
    IF q.seq = None \/ q.impl # src.impl \/ q.epoch # src.epoch THEN "echo_only"
    ELSE IF q.seq > Counter(src, p) THEN "rollback_detected"
    ELSE IF at = {} THEN "beyond_retention"
    ELSE IF \A x \in at : Identity(x) # q.id THEN "rollback_detected"
    ELSE "ok"

Echoes(r) == r \in {"ok", "echo_only"}

\* The source checks every partition and writes its echo into the outbox, in one transaction.
Check(w) ==
    /\ puller[w].pc = "check"
    /\ LET r == [p \in Parts |-> PullCheck(p, puller[w].req[p])] IN
       /\ src' = [src EXCEPT !.out = [p \in Parts |-> IF Echoes(r[p])
                                 THEN Append(@[p], EventRow("echo", puller[w].nonce, 1, 0)) ELSE @[p]]]
       /\ puller' = [puller EXCEPT ![w].pc = "page", ![w].need = r, ![w].epoch = src.epoch]
    /\ UNCHANGED <<scenario, wire, view, left, truth, kept, nonces>>

\* Another deployment's source answers: the address is wrong.
Misrouted(w) ==
    /\ puller[w].pc = "check" /\ Spent("misroute")
    /\ puller' = [puller EXCEPT ![w].pc = "identify", ![w].need = [p \in Parts |-> "echo_only"],
                     ![w].decl = [Declared EXCEPT !.deployment = "elsewhere", !.system = 0]]
    /\ UNCHANGED <<scenario, src, wire, view, truth, kept, nonces>>

EchoOf(s, p, n) == {x \in s.log : x.p = p /\ x.kind = "echo" /\ x.rec = n}

\* The cursors of all pages, once the echoes are numbered: from the position (an echo alone: just before it) to the echo.
cursors(s, o) ==
    [p \in Parts |->
        IF ~Echoes(o.need[p]) THEN [after |-> None, echo |-> None]
        ELSE LET x == CHOOSE x \in EchoOf(s, p, o.nonce) : TRUE IN
             [echo |-> x.seq, after |-> IF o.need[p] = "ok" /\ x.epoch = o.epoch THEN o.req[p].seq ELSE x.seq - 1]]

\* The source reads a page: of the first one it numbers the echoes; a later one is refused once its epoch changed.
Page(w) ==
    LET o == puller[w]
        asked == {p \in Parts : Echoes(o.need[p])}
        s == IF o.first THEN FoldSet(LAMBDA p, x : Number(x, p), src, asked) ELSE src
        there == ~o.first \/ \A p \in asked : EchoOf(s, p, o.nonce) # {}
        cur == IF o.first /\ there THEN cursors(s, o) ELSE o.cursor
        e == IF o.first /\ there /\ asked # {}
             THEN (CHOOSE x \in EchoOf(s, Max(asked), o.nonce) : TRUE).epoch ELSE o.epoch
        between(p) == {x \in RowsOf(s, p, e) : x.seq > cur[p].after /\ x.seq <= cur[p].echo}
        page(p) == IF cur[p].echo = None THEN <<>>
                   ELSE LET q == SetToSortSeq(between(p), LAMBDA x, y : x.seq < y.seq) IN
                        SubSeq(q, 1, Min({Len(q), PullPage}))
        more(p) == Cardinality(between(p)) > PullPage
        whole == \A p \in asked : cur[p].echo = None \/ more(p) \/ \E x \in between(p) : x.seq = cur[p].echo
        rows == [p \in Parts |-> page(p)] IN
    /\ o.pc = "page"
    /\ src' = s
    /\ IF ~there \/ (~o.first /\ Declared # o.decl) \/ ~whole THEN Rest(w)
       ELSE puller' = [puller EXCEPT ![w] =
                [o EXCEPT !.pc = IF ~o.first THEN "apply" ELSE IF o.align THEN "p0" ELSE "identify",
                          !.rows = rows, !.epoch = e, !.first = FALSE,
                          !.decl = IF o.first THEN [Declared EXCEPT !.epoch = e] ELSE @,
                          !.cursor = [p \in Parts |->
                             IF cur[p].echo # None /\ more(p) THEN [cur[p] EXCEPT !.after = Last(rows[p]).seq]
                             ELSE [after |-> None, echo |-> None]],
                          !.echo = [p \in Parts |-> IF cur[p].echo # None /\ more(p) THEN None ELSE cur[p].echo]]]
    /\ UNCHANGED <<scenario, wire, view, left, truth, kept, nonces>>

\* The positions are forgotten when a new epoch or instance is adopted.
invalidate(v, d) ==
    [v EXCEPT !.impl = d.impl, !.system = d.system, !.epoch = d.epoch, !.part = [p \in Parts |-> NoPosition]]

\* What the adopted source's answer leads to: the first partition, of those answered to the end, that does not apply
\* to its echo decides.
answered(o) == {p \in Parts : o.echo[p] # None \/ ~Echoes(o.need[p])}
outcome(o) ==
    LET of(p) == PullOutcome(o.req[p].seq, o.need[p], o.echo[p])
        against == {p \in answered(o) : of(p) # "apply_to_echo"} IN
    IF against = {} THEN "apply_to_echo" ELSE of(Min(against))

\* What a pull's declaration makes of the consumer's state.
identified(v, o) ==
    LET d == DecideEpoch(Adopted(v), o.decl)
        gen == Generation(o.decl.epoch)
        answer == [kind |-> "primary_response", gen |-> gen, matches |-> d \in {"use", "adopt"},
                   check |-> IF \E p \in Parts : o.need[p] = "rollback_detected" THEN "failed" ELSE "passed"] IN
    IF v.status = "blocked" /\ d # "block" THEN transition(v, answer)
    ELSE IF d = "establish" THEN transition(invalidate(v, o.decl), Input("first_contact", gen))
    ELSE IF d = "adopt" THEN transition(invalidate(v, o.decl), Input("adopt_epoch", gen))
    ELSE IF d = "stall" THEN transition(v, Input("rollback", gen))
    ELSE IF d = "block" THEN transition(v, Input("foreign", gen))
    ELSE IF d = "use" /\ outcome(o) = "realign" THEN transition(v, Input("beyond_retention", gen))
    ELSE IF d = "use" /\ outcome(o) = "stall" THEN transition(v, Input("rollback", gen))
    ELSE v

Identify(w) ==
    LET o == puller[w] IN
    /\ o.pc = "identify"
    /\ view' = identified(view, o)
    /\ IF view.status # "blocked" /\ DecideEpoch(Adopted(view), o.decl) = "use" /\ outcome(o) = "apply_to_echo"
       THEN To(w, "apply") ELSE Rest(w)
    /\ UNCHANGED <<scenario, src, wire, left, truth, kept, nonces>>

\* A page's rows of one partition, applied in one transaction; a failing one rolls it back.
applyRows(v, rows) ==
    LET step(acc, e) ==
            IF acc.end \notin {"ok", "gap"} \/ e.impl # v.impl \/ e.epoch # v.epoch THEN acc
            ELSE LET r == applyAt(acc.view, e, acc.view.status # "aligning") IN
                 [end |-> r.end, view |-> r.view, at |-> e] IN
    IF v.status = "blocked" THEN [end |-> "ok", view |-> v, at |-> <<>>]
    ELSE FoldLeft(step, [end |-> "ok", view |-> v, at |-> <<>>], rows)

ApplyPage(w) ==
    LET o == puller[w]
        todo == {p \in Parts : o.rows[p] # <<>>}
        p == Min(todo)
        r == applyRows(view, o.rows[p])
        rest == [o EXCEPT !.rows[p] = <<>>] IN
    /\ o.pc = "apply" /\ todo # {}
    /\ CASE r.end = "failed" -> view' = noteFailure(view, r.at) /\ Rest(w)
         [] r.end = "stop" -> UNCHANGED view /\ Rest(w)
         [] OTHER -> /\ view' = r.view
                     /\ IF todo # {p} THEN puller' = [puller EXCEPT ![w] = rest]
                        ELSE IF \E q \in Parts : o.cursor[q].echo # None
                             THEN puller' = [puller EXCEPT ![w] = [rest EXCEPT !.pc = "page"]] ELSE Rest(w)
    /\ UNCHANGED <<scenario, src, wire, left, truth, kept, nonces>>

-----------------------------------------------------------------------------
(* An alignment *)

\* A new generation begins, in the state and for the identity the step read; a watermark source's goes on with a pull.
Begin(w) ==
    LET o == puller[w]
        v == [view EXCEPT !.gen = @ + 1, !.status = o.status, !.impl = IF o.want.impl # "" THEN o.want.impl ELSE @,
                          !.epoch = IF o.want.impl # "" THEN o.want.epoch ELSE @] IN
    /\ o.pc = "begin"
    /\ view' = v
    /\ IF scenario.watermark
       THEN /\ nonces < scenario.pulls /\ nonces' = nonces + 1
            /\ puller' = [puller EXCEPT ![w] = [o EXCEPT !.pc = "record", !.gen = v.gen, !.nonce = nonces']]
       ELSE /\ puller' = [puller EXCEPT ![w] = [o EXCEPT !.pc = "snapshot", !.gen = v.gen]]
            /\ UNCHANGED nonces
    /\ UNCHANGED <<scenario, src, wire, left, truth, kept>>

Current(w) == view.gen = puller[w].gen

\* The echo-only pull gave P0: every partition starts over from it.
SetP0(w) ==
    LET o == puller[w] IN
    /\ o.pc = "p0"
    /\ IF DecideEpoch(o.want, o.decl) = "use" /\ Current(w)
       THEN /\ view' = [view EXCEPT !.part = [p \in Parts |-> [NoPosition EXCEPT !.p0 = o.echo[p]]]]
            /\ To(w, "snapshot")
       ELSE UNCHANGED view /\ Rest(w)
    /\ UNCHANGED <<scenario, src, wire, left, truth, kept, nonces>>

Order == <<"r", "s">>
Place(r) == CHOOSE i \in 1..Len(Order) : Order[i] = r

\* The source reads a page of existing records in one snapshot, and declares itself.
Snapshot(w) ==
    LET o == puller[w]
        from == IF o.after = "" THEN 0 ELSE Place(o.after)
        there == SelectSeq(Order, LAMBDA r : Place(r) > from /\ src.rec[r].state = "exists")
        page == SubSeq(there, 1, Min({RecordPage, Len(there)}))
        learn == o.want.impl = ""
        accepted == IF o.after # "" THEN src.epoch = o.decl.epoch /\ src.impl = o.decl.impl
                    ELSE learn \/ (src.impl = o.want.impl /\ src.epoch = o.want.epoch) IN
    /\ o.pc = "snapshot"
    /\ IF ~accepted THEN Rest(w)
       ELSE puller' = [puller EXCEPT ![w] =
               [o EXCEPT !.pc = IF learn THEN "adopt" ELSE "put", !.decl = Declared,
                         !.want = IF learn THEN Declared ELSE @,
                         !.found = {[rec |-> page[i], state |-> "exists", version |-> src.rec[page[i]].version,
                                     at |-> src.rec[page[i]].at] : i \in 1..Len(page)},
                         !.after = IF Len(there) > RecordPage THEN Last(page) ELSE ""]]
    /\ UNCHANGED <<scenario, src, wire, view, left, truth, kept, nonces>>

\* A plain projection adopts the identity its first page declared.
Adopt(w) ==
    /\ puller[w].pc = "adopt"
    /\ IF Current(w) THEN view' = [view EXCEPT !.impl = puller[w].want.impl, !.epoch = puller[w].want.epoch] /\ To(w, "put")
       ELSE UNCHANGED view /\ Rest(w)
    /\ UNCHANGED <<scenario, src, wire, left, truth, kept, nonces>>

\* A record as read is written without comparing versions, over a row of this alignment only if it is newer.
put(v, o, x) ==
    IF v.row[x.rec].gen = o.gen /\ v.row[x.rec].version >= x.version THEN v
    ELSE [v EXCEPT !.row[x.rec] =
            [state |-> IF x.state = "exists" THEN "complete" ELSE "tombstone", version |-> x.version, need |-> 0,
             impl |-> o.want.impl, epoch |-> o.want.epoch, at |-> x.at, gen |-> o.gen,
             minRead |-> IF x.state = "purged" /\ scenario.watermark THEN o.echo[PartitionOf(x.rec)] ELSE None]]

Put(w) ==
    LET o == puller[w] IN
    /\ o.pc = "put"
    /\ IF ~Current(w) THEN UNCHANGED view /\ Rest(w)
       ELSE /\ view' = FoldSet(LAMBDA x, v : put(v, o, x), view, o.found)
            /\ To(w, IF o.after # "" THEN "snapshot" ELSE "rest")
    /\ UNCHANGED <<scenario, src, wire, left, truth, kept, nonces>>

\* A record as the batch read answers it.
ReadOf(r) == [rec |-> r, version |-> IF src.rec[r].state \in {"purged", "absent"} THEN 0 ELSE src.rec[r].version,
              state |-> IF src.rec[r].state = "absent" THEN "purged" ELSE src.rec[r].state,
              at |-> IF src.rec[r].state = "exists" THEN src.rec[r].at ELSE 0]

\* Mutation of done: the positions are set and the re-fetch mark is kept.
doneMarked(v, o) ==
    LET w == [v EXCEPT !.part = [p \in Parts |-> [NoPosition EXCEPT !.seq = o.echo[p], !.id = <<"echo", o.nonce, 0>>]]] IN
    IF w.status = "aligning" THEN transition(w, Input("alignment_done", Generation(w.epoch))) ELSE w

\* The completion: positions at P0, and the quarantine the snapshot settled is lifted.
done(v, o) ==
    LET p0(p) == o.echo[p]
        w == [v EXCEPT !.part = [p \in Parts |-> [NoPosition EXCEPT !.seq = p0(p), !.id = <<"echo", o.nonce, 0>>]],
                       !.refetch = FALSE,
                       !.quarantine = {q \in @ : q.impl = v.impl /\ q.epoch = v.epoch /\ q.seq > p0(q.p)}] IN
    IF w.status = "aligning" THEN transition(w, Input("alignment_done", Generation(w.epoch))) ELSE w

\* The rows the snapshot did not touch are read by ID; when none is left the alignment completes, and when a round
\* finds the rows of the last one again it stops.
ReadRest(w) ==
    LET o == puller[w]
        ids == {r \in Records : view.row[r].state # "none" /\ view.row[r].gen # o.gen} IN
    /\ o.pc = "rest"
    /\ IF ids = {}
       THEN /\ view' = IF ~Current(w) THEN view
                       ELSE IF scenario.watermark THEN done(view, o) ELSE [view EXCEPT !.status = "aligned"]
            /\ Rest(w)
       ELSE /\ UNCHANGED view
            /\ IF ids = o.asked \/ src.impl # o.want.impl \/ src.epoch # o.want.epoch THEN Rest(w)
               ELSE puller' = [puller EXCEPT ![w].pc = "put", ![w].found = {ReadOf(r) : r \in ids}, ![w].asked = ids]
    /\ UNCHANGED <<scenario, src, wire, left, truth, kept, nonces>>

-----------------------------------------------------------------------------
(* Repairing incomplete rows *)

\* The incomplete rows are read by ID ...
Repair(w) ==
    LET ids == {r \in Records : view.row[r].state = "incomplete"} IN
    /\ puller[w].pc = "idle" /\ ids # {}
    /\ puller' = [puller EXCEPT ![w] = [Resting EXCEPT !.pc = "repair", !.decl = Declared, !.found = {ReadOf(r) : r \in ids}]]
    /\ UNCHANGED <<scenario, src, wire, view, left, truth, kept, nonces>>

\* ... and the answers received like any input.
RepairApply(w) ==
    LET o == puller[w]
        kind == [exists |-> "full", tombstone |-> "delete", purged |-> "purged"]
        in(x) == [rec |-> x.rec, kind |-> kind[x.state], version |-> x.version, impl |-> o.decl.impl,
                  epoch |-> o.decl.epoch, at |-> x.at, seq |-> 0] IN
    /\ o.pc = "repair"
    /\ view' = FoldSet(LAMBDA x, v : Apply(v, in(x)), view, o.found)
    /\ Rest(w)
    /\ UNCHANGED <<scenario, src, wire, left, truth, kept, nonces>>

-----------------------------------------------------------------------------
(* Faults *)

\* A call to the source fails, or the worker's process stops.
GiveUp(w) ==
    /\ puller[w].pc # "idle" /\ Spent("fail")
    /\ Rest(w)
    /\ UNCHANGED <<scenario, src, wire, view, truth, kept, nonces>>

\* What a replica or a backup holds.
Keep ==
    /\ Spent("keep")
    /\ kept' = [src |-> src, view |-> view]
    /\ UNCHANGED <<scenario, src, wire, view, puller, truth, nonces>>

\* The source goes back to what was kept; what was published stays published.
GoBack(system, e) ==
    LET was == {<<x.p, x.epoch, x.seq, Identity(x)>> : x \in {y \in src.log : y.sent}}
        log == {[x EXCEPT !.sent = @ \/ <<x.p, x.epoch, x.seq, Identity(x)>> \in was] : x \in kept.src.log} IN
    /\ src' = [kept.src EXCEPT !.system = system, !.epoch = e, !.log = log]
    /\ truth' = Append(truth, kept.src.rec)
    /\ UNCHANGED <<scenario, wire, view, puller, kept, nonces>>

\* Whether messages of rows that are lost may still be under way: their positions are the new rows' too.
InFlight == scenario.stale \/ ((\A p \in Parts : wire[p] = <<>>) /\ \A w \in Workers : puller[w].pc = "idle")

\* A replica takes over: the next timeline.
Failover == /\ Spent("failover") /\ GoBack(src.system, <<src.epoch[1], src.epoch[2] + 1>>)
            /\ scenario.midway \/ (view.status = "aligned" /\ \A w \in Workers : ~puller[w].align)
            /\ scenario.watermark \/ InFlight

\* A restore into a new system, with the recovery generation advanced ...
Restore == Spent("restore") /\ GoBack(src.system + 1, <<src.epoch[1] + 1, 1>>)

\* ... or not: the operator forgot.
Reinstall == Spent("reinstall") /\ InFlight /\ GoBack(src.system + 1, <<src.epoch[1], 1>>)

\* The storage goes back under the same system and epoch.
Rewind == Spent("rewind") /\ InFlight /\ view.status # "aligning" /\ GoBack(src.system, src.epoch)

\* The consumer's database goes back; its processes restart.
ConsumerBack ==
    /\ Spent("consumer")
    /\ view' = [kept.view EXCEPT !.dbEpoch = view.dbEpoch + 1]
    /\ puller' = [w \in Workers |-> Resting]
    /\ UNCHANGED <<scenario, src, wire, truth, kept, nonces>>

-----------------------------------------------------------------------------
(* The specification *)

FirstRows == {[p |-> 0, epoch |-> <<1, 1>>, seq |-> 1, kind |-> "full", impl |-> "i", rec |-> "r", version |-> 1,
               at |-> 1, sent |-> TRUE, tries |-> 1]}
             \cup {[p |-> p, epoch |-> <<1, 1>>, seq |-> IF p = 0 THEN 2 ELSE 1, kind |-> "echo", impl |-> "i", rec |-> 0,
                    version |-> 1, at |-> 0, sent |-> TRUE, tries |-> 1] : p \in Parts}

Init ==
    /\ scenario \in Scenarios
    /\ src = [impl |-> "i", system |-> 1, epoch |-> <<1, 1>>, out |-> [p \in Parts |-> <<>>], log |-> FirstRows,
              last |-> [p \in Parts |-> [epoch |-> <<1, 1>>, seq |-> IF p = 0 THEN 2 ELSE 1]],
              rec |-> [r \in Records |-> IF r = "r" THEN [state |-> "exists", version |-> 1, at |-> 1]
                                         ELSE [state |-> "absent", version |-> 0, at |-> 0]]]
    /\ truth = <<src.rec>>
    /\ wire = [p \in Parts |-> <<>>]
    /\ LET new == scenario.start = "new" IN
       view = [status |-> IF new THEN "aligning" ELSE "aligned", confirmed |-> FALSE, rollback |-> FALSE,
               stalledGen |-> None, prior |-> "", impl |-> IF new THEN "" ELSE "i", system |-> IF new THEN 0 ELSE 1,
               epoch |-> IF new THEN <<0, 0>> ELSE <<1, 1>>, refetch |-> FALSE, gen |-> IF new THEN 0 ELSE 1,
               part |-> [p \in Parts |-> IF new THEN NoPosition
                            ELSE [NoPosition EXCEPT !.seq = src.last[p].seq, !.id = <<"echo", 0, 0>>, !.mp = 1]],
               pulls |-> IF new THEN <<>> ELSE [n \in {0} |-> 1], recorded |-> IF new THEN 0 ELSE 1, dbEpoch |-> 1,
               row |-> [r \in Records |-> IF new \/ r # "r" THEN NoRow
                            ELSE [NoRow EXCEPT !.state = "complete", !.version = 1, !.impl = "i", !.epoch = <<1, 1>>,
                                               !.at = 1, !.gen = 1]],
               fails |-> {}, aged |-> {}, quarantine |-> {}, alarms |-> {}]
    /\ puller = [w \in Workers |-> Resting]
    /\ left = scenario.budget
    /\ kept = [src |-> src, view |-> view]
    /\ nonces = 0

WorkerStep(w) == \/ Step(w) \/ Align(w) \/ Record(w) \/ Pull(w) \/ Check(w) \/ Page(w) \/ Identify(w) \/ ApplyPage(w)
                 \/ Begin(w) \/ SetP0(w) \/ Snapshot(w) \/ Adopt(w) \/ Put(w) \/ ReadRest(w)
                 \/ Repair(w) \/ RepairApply(w)

Next ==
    \/ \E r \in Records : PurgeRecord(r) \/ \E k \in {"full", "partial", "delete"} : Commit(r, k)
    \/ \E p \in Parts : Forward(p) \/ PurgeRows(p) \/ ForeignMessage(p) \/ Handle(p)
    \/ \E w \in Workers : w \in scenario.workers /\ (WorkerStep(w) \/ Misrouted(w) \/ GiveUp(w))
    \/ FailureAges \/ Confirm \/ Keep \/ Failover \/ Restore \/ Reinstall \/ Rewind \/ ConsumerBack

Spec == Init /\ [][Next]_viewVars

-----------------------------------------------------------------------------
(* Properties *)

Verdict(r) == Judge(FALSE, view.status, \E q \in view.quarantine : q.subject = r, HasWatermark(view), view.row[r].state,
                    OfAdopted(view, view.row[r]))

\* judgeMany: every record's judgement from one snapshot, with what the projection holds of it when it is usable.
judgeMany == [r \in Records |-> [verdict |-> Verdict(r),
                                 data |-> IF Verdict(r) = "usable" THEN view.row[r].at ELSE None]]

\* What Judge lets a decision rely on was so at the source at the watermark's moment or later: a row it calls usable
\* holds a content the source held then, and a record it calls absent was absent then.
JudgedIsFresh ==
    scenario.watermark => LET since == Watermark(view)..Len(truth)
                              judged == judgeMany IN \A r \in Records :
        CASE judged[r].verdict = "usable" ->
               \E j \in since : truth[j][r].state = "exists" /\ truth[j][r].at = judged[r].data
          [] judged[r].verdict = "provably_absent" -> \E j \in since : truth[j][r].state # "exists"
          [] OTHER -> TRUE

\* A source that was found rolled back is not aligned again until its recovery generation passed the one it was found
\* at: no re-fetch, restart or confirmation ends the stall.
StalledUntilAdvanced == view.status = "aligned" => \A g \in view.alarms : g < Generation(view.epoch)

\* Once every message is handled and nothing is waiting, an aligned projection of the source's epoch holds exactly the
\* source's records: no interleaving of inputs, alignments and repairs loses or revives one.
SettledMatchesSource ==
    LET quiet == /\ \A p \in Parts : wire[p] = <<>> /\ src.out[p] = <<>> /\ \A x \in src.log : x.sent
                 /\ \A w \in Workers : puller[w].pc = "idle"
                 /\ view.status = "aligned" /\ view.epoch = src.epoch /\ scenario.poison = {} IN
    (quiet /\ ~scenario.watermark) => \A r \in Records :
        IF src.rec[r].state = "exists" THEN \/ view.row[r].state = "complete" /\ view.row[r].at = src.rec[r].at
                                            \/ view.row[r].state = "incomplete"
        ELSE view.row[r].state \in {"none", "tombstone"}

\* Every record is judged, and by the source's last contents.
ProvenFresh ==
    \A r \in Records : IF src.rec[r].state = "exists" THEN Verdict(r) = "usable" /\ view.row[r].at = src.rec[r].at
                        ELSE Verdict(r) = "provably_absent"
=============================================================================
