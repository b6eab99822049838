---------------------------- MODULE Redelivery ----------------------------
(***************************************************************************)
(* A consumer whose database went back (events/redelivery.go, progress.go, *)
(* with the parts of resend.go and consumer.go it meets): the inbox rows   *)
(* and the run starts are restored as of the backup while the transport    *)
(* has forgotten what was acknowledged since.  At its start the consumer   *)
(* side compares the database epoch with the one it last ran on, asks the  *)
(* producer for a redelivery from the smallest progress its subscriptions  *)
(* can prove, records what cannot be covered and settles the epoch.        *)
(*                                                                         *)
(* One producer partition.  A position is <<epoch, sequence>>.  The        *)
(* transport delivers in order, several messages at a time, and an attempt *)
(* may fail and be made again: outcomes come in any order within Lifetime, *)
(* counted in running time (DeliveryLifetime).                             *)
(***************************************************************************)
EXTENDS Integers, FiniteSets, Sequences, SequencesExt, FiniteSetsExt

CONSTANTS Lifetime,   \* DeliveryLifetime
          Scenarios   \* [subs: the member's subscriptions, atOnce: how many messages each handles at a time,
                      \*  time: the clock's bound, restarts, prompt, address: the producer's is configured, budget]

VARIABLES scenario,
          clock,    \* the database's clock
          prod,     \* the producer: rows kept, epoch, numbering, forks, the last position purged
          feed,     \* what the transport still has to deliver to each subscription, in order
          cons,     \* the consumer's database
          copy,     \* the consumer's database as its backup has it
          dbEpoch,  \* the consumer database's epoch
          up,       \* since when the consumer's processes run, Down when they do not
          asker,    \* Redelivery.Run
          chances   \* how often each event may still happen

redeliveryVars == <<scenario, clock, prod, feed, cons, copy, dbEpoch, up, asker, chances>>

Subs == scenario.subs
MaxTime == scenario.time
Down == -1
NoPoint == <<0, 0>>
Less(p, q) == p[1] < q[1] \/ (p[1] = q[1] /\ p[2] < q[2])
Largest(S) == CHOOSE p \in S : \A q \in S : ~Less(p, q)
Smallest(S) == CHOOSE p \in S : \A q \in S : ~Less(q, p)

Chance(k) == chances[k] > 0 /\ chances' = [chances EXCEPT ![k] = @ - 1]

-----------------------------------------------------------------------------
(* The producer *)

Message(p) == [pos |-> p, since |-> Down, age |-> 0]
ToAll(ms) == feed' = [s \in Subs |-> feed[s] \o ms]

\* The forwarder numbers a row and publishes it.
Publish ==
    LET p == <<prod.epoch, prod.last[2] + 1>>
        first == <<prod.epoch, 1>>
        pos == IF prod.last[1] = prod.epoch THEN p ELSE first IN
    /\ Chance("publish")
    /\ prod' = [prod EXCEPT !.rows = @ \cup {pos}, !.last = pos,
                            !.fork = IF prod.last[1] = prod.epoch THEN @ ELSE @ \cup {prod.last}]
    /\ ToAll(<<Message(pos)>>)
    /\ UNCHANGED <<scenario, clock, cons, copy, dbEpoch, up, asker>>

\* The retention deletes the oldest row.
Purge ==
    /\ Chance("purge") /\ prod.rows # {}
    /\ prod' = [prod EXCEPT !.rows = @ \ {Smallest(@)}, !.purged = Smallest(prod.rows)]
    /\ UNCHANGED <<scenario, clock, feed, cons, copy, dbEpoch, up, asker>>

\* The producer's database goes back by its last row, into a new epoch.
ProducerBack ==
    /\ Chance("producer") /\ prod.last[1] = prod.epoch /\ prod.last \in prod.rows
    /\ prod' = [prod EXCEPT !.rows = @ \ {prod.last}, !.last = <<prod.epoch, prod.last[2] - 1>>, !.epoch = @ + 1]
    /\ UNCHANGED <<scenario, clock, feed, cons, copy, dbEpoch, up, asker>>

\* judge: rows after the start were purged; the start is past what the partition has.
beyond(after) == prod.purged # NoPoint /\ (after = NoPoint \/ Less(after, prod.purged))
ahead(after) == /\ after # NoPoint
                /\ IF after[1] = prod.last[1] THEN after[2] > prod.last[2]
                   ELSE \A f \in prod.fork : f[1] = after[1] => after[2] > f[2]

-----------------------------------------------------------------------------
(* The subscriptions *)

Time ==
    /\ clock < MaxTime
    /\ up # Down => \A s \in Subs : \A i \in 1..Len(feed[s]) : feed[s][i].age + 1 < Lifetime
    /\ scenario.prompt /\ asker.pc # "idle" => clock + 1 < up + Lifetime
    /\ clock' = clock + 1
    /\ feed' = IF up = Down THEN feed
               ELSE [s \in Subs |-> [i \in 1..Len(feed[s]) |->
                        IF feed[s][i].since = Down THEN feed[s][i] ELSE [feed[s][i] EXCEPT !.age = @ + 1]]]
    /\ UNCHANGED <<scenario, prod, cons, copy, dbEpoch, up, asker, chances>>

\* The next message is delivered for the first time.
Deliver(s) ==
    LET waiting == {i \in 1..Len(feed[s]) : feed[s][i].since = Down} IN
    /\ up # Down /\ waiting # {} /\ Len(feed[s]) - Cardinality(waiting) < scenario.atOnce
    /\ feed' = [feed EXCEPT ![s][Min(waiting)].since = clock]
    /\ UNCHANGED <<scenario, clock, prod, cons, copy, dbEpoch, up, asker, chances>>

Known(c, s) == {h.pos : h \in c.inbox[s]} \cup c.dead[s]

\* A message has its outcome: its inbox row, dated when the transaction began, unless it has one; or a dead letter.
process(s, i) ==
    LET m == feed[s][i] IN
    /\ up # Down /\ m.since # Down
    /\ \/ /\ \E at \in m.since..clock :
                cons' = IF m.pos \in {h.pos : h \in cons.inbox[s]} THEN cons
                        ELSE [cons EXCEPT !.inbox[s] = @ \cup {[pos |-> m.pos, at |-> at]}]
          /\ UNCHANGED chances
       \/ Chance("dead") /\ cons' = [cons EXCEPT !.dead[s] = @ \cup {m.pos}]
    /\ feed' = [feed EXCEPT ![s] = RemoveAt(@, i)]
    /\ UNCHANGED <<scenario, clock, prod, copy, dbEpoch, up, asker>>

-----------------------------------------------------------------------------
(* The progress a subscription can prove *)

\* The last handling of the latest run that lasted the lifetime, less the lifetime; {} when there is none.
cutOf(runs, rows) ==
    LET end(k) == Min({r \in runs : r > k} \cup {MaxTime + 1})
        in(k) == {h.at : h \in {x \in rows : x.at >= k /\ x.at < end(k)}}
        long == {k \in runs : in(k) # {} /\ k <= Max(in(k)) - Lifetime} IN
    IF long = {} THEN {} ELSE {Max(in(Max(long))) - Lifetime}

\* The largest position handled at or before the cut, NoPoint when there is none.
Progress(s) ==
    LET before == {h.pos : h \in {x \in cons.inbox[s] : \E c \in cutOf(cons.runs, cons.inbox[s]) : x.at <= c}} IN
    IF before = {} THEN NoPoint ELSE Largest(before)

\* The smallest progress of the subscriptions that have seen the producer; NoPoint: from the first row kept.
fromOf(seen) == IF seen = {} THEN NoPoint ELSE Smallest({Progress(s) : s \in seen})

-----------------------------------------------------------------------------
(* Redelivery.Run *)

Asker(pc) == asker' = [asker EXCEPT !.pc = pc]

\* The start of the processes: a run of every subscription, then the check.
Start ==
    /\ up = Down /\ up' = clock
    /\ cons' = [cons EXCEPT !.runs = @ \cup {clock}]
    /\ feed' = [s \in Subs |-> [i \in 1..Len(feed[s]) |->
                   IF feed[s][i].since = Down THEN feed[s][i] ELSE [feed[s][i] EXCEPT !.since = clock]]]
    /\ Asker("check")
    /\ UNCHANGED <<scenario, clock, prod, copy, dbEpoch, chances>>

WentBack ==
    /\ asker.pc = "check"
    /\ asker' = [asker EXCEPT !.pc = IF cons.epoch = dbEpoch THEN "idle" ELSE "ask", !.epoch = dbEpoch]
    /\ UNCHANGED <<scenario, clock, prod, feed, cons, copy, dbEpoch, up, chances>>
\* Request reads the progress; a producer never seen is not asked.
Request ==
    /\ asker.pc = "ask"
    /\ LET seen == {s \in Subs : cons.inbox[s] # {}} IN
       asker' = [asker EXCEPT !.pc = IF seen = {} THEN "settle" ELSE "call", !.seen = seen, !.from = fromOf(seen)]
    /\ UNCHANGED <<scenario, clock, prod, feed, cons, copy, dbEpoch, up, chances>>

\* Without an address for the producer nobody is asked, and that is all: the recovery tool is to ask (one).
Unreachable ==
    /\ asker.pc = "call" /\ ~scenario.address
    /\ Asker("settle")
    /\ UNCHANGED <<scenario, clock, prod, feed, cons, copy, dbEpoch, up, chances>>

\* The producer sends the rows after the start again, all of them or, when it stops midway, some.
Resend ==
    /\ asker.pc = "call" /\ scenario.address
    /\ LET after == asker.from
           rows == SetToSortSeq({p \in prod.rows : Less(after, p)}, Less)
           again(n) == [i \in 1..n |-> Message(rows[i])]
           \* beyond_retention and ahead are recorded alike, for every subscription asked for
           hole == beyond(after) \/ ahead(after) IN
       \/ /\ Chance("fail")
          /\ \E n \in 0..Len(rows) : ~ahead(after) /\ ToAll(again(n))
          /\ Asker("ask")
       \/ /\ ToAll(IF ahead(after) THEN <<>> ELSE again(Len(rows)))
          /\ asker' = [asker EXCEPT !.pc = IF hole THEN "gaps" ELSE "settle"]
          /\ UNCHANGED chances
    /\ UNCHANGED <<scenario, clock, prod, cons, copy, dbEpoch, up>>

gaps ==
    /\ asker.pc = "gaps"
    /\ cons' = [cons EXCEPT !.gap = @ \cup asker.seen]
    /\ Asker("settle")
    /\ UNCHANGED <<scenario, clock, prod, feed, copy, dbEpoch, up, chances>>

Settle ==
    /\ asker.pc = "settle"
    /\ cons' = [cons EXCEPT !.epoch = asker.epoch]
    /\ Asker("idle")
    /\ UNCHANGED <<scenario, clock, prod, feed, copy, dbEpoch, up, chances>>

-----------------------------------------------------------------------------
(* Stops, backups, and the database going back *)

Stopped == up' = Down /\ asker' = [asker EXCEPT !.pc = "idle"]

Stop ==
    /\ up # Down /\ Chance("stop") /\ Stopped
    /\ UNCHANGED <<scenario, clock, prod, feed, cons, copy, dbEpoch>>

Backup ==
    /\ Chance("backup") /\ copy' = cons
    /\ UNCHANGED <<scenario, clock, prod, feed, cons, dbEpoch, up, asker>>

\* The processes start again with the database; where the scenario says so they run on across a failover.
GoBack ==
    /\ Chance("back")
    /\ cons' = copy /\ dbEpoch' = dbEpoch + 1
    /\ IF scenario.restarts THEN Stopped ELSE UNCHANGED <<up, asker>>
    /\ UNCHANGED <<scenario, clock, prod, feed, copy>>

-----------------------------------------------------------------------------

Init ==
    /\ scenario \in Scenarios
    /\ clock = 0
    /\ prod = [rows |-> {}, epoch |-> 1, last |-> <<1, 0>>, fork |-> {}, purged |-> NoPoint]
    /\ feed = [s \in Subs |-> <<>>]
    /\ cons = [inbox |-> [s \in Subs |-> {}], dead |-> [s \in Subs |-> {}], runs |-> {0}, gap |-> {}, epoch |-> 1]
    /\ copy = cons
    /\ dbEpoch = 1 /\ up = 0
    /\ asker = [pc |-> "idle", epoch |-> 1, seen |-> Subs, from |-> NoPoint]
    /\ chances = scenario.budget

Consumes == \E s \in Subs : Deliver(s) \/ \E i \in 1..Len(feed[s]) : process(s, i)
Asks == WentBack \/ Request \/ Unreachable \/ Resend \/ gaps \/ Settle
Next == Publish \/ Purge \/ ProducerBack \/ Time \/ Consumes \/ Start \/ Asks \/ Stop \/ Backup \/ GoBack

Spec == Init /\ [][Next]_redeliveryVars

-----------------------------------------------------------------------------

\* Where the producer has an address: once the consumer settled and has nothing left to handle, every row the producer
\* keeps was handled by every subscription that had seen the producer, or a gap of that subscription is on record:
\* whatever was acknowledged and then lost with the database comes back (ProgressOf, fromOf, Resend, gaps).
LostIsRedelivered ==
    (scenario.address /\ cons.epoch = dbEpoch /\ asker.pc = "idle" /\ up # Down) => \A s \in asker.seen :
       feed[s] = <<>> /\ s \notin cons.gap => prod.rows \subseteq Known(cons, s)
=============================================================================
