--------------------------- MODULE DeliveryProofs ---------------------------
(***************************************************************************)
(* Proofs about Delivery for any number of messages and workers, any       *)
(* limits and any mixture of faults.                                       *)
(*                                                                         *)
(* BusInv is what publishing promises: IDs and sequence numbers grow, and  *)
(* what was stored when an insert began is before it in both.  QueueInv    *)
(* says that the read position is behind every insert in progress and that *)
(* exactly the stored messages up to it have had a delivery.  LeaseInv     *)
(* counts the deliveries of a message that were to be recorded and were    *)
(* not: as many faults were met, from which HandledOrDead is read off;     *)
(* OrderInv says that once a message of an ordered subscription was        *)
(* claimed everything published before it is over.                         *)
(***************************************************************************)
EXTENDS Delivery, FiniteSetTheorems, WellFoundedInduction, TLAPS

-----------------------------------------------------------------------------
(* Least and greatest members of sets of natural numbers.                  *)

\* Every set of natural numbers has a least member.
LEMMA LeastNat ==
  ASSUME NEW S, S \subseteq Nat, S # {}
  PROVE  \E n \in S : \A m \in S : n <= m
  <1> DEFINE R == OpToRel(<, Nat)
  <1>1. IsWellFoundedOn(R, Nat)
    BY NatLessThanWellFounded, Zenon
  <1>2. \A x, y \in Nat : <<x, y>> \in R <=> x < y
    BY DEF OpToRel
  <1> HIDE DEF R
  <1>3. PICK n \in S : \A m \in S : ~(<<m, n>> \in R)
    BY <1>1, WFMin, Zenon
  <1>4. \A m \in S : ~(m < n)
    BY <1>2, <1>3, Zenon
  <1>5. \A m \in S : n <= m
    BY <1>4
  <1> QED
    BY <1>5

\* Every bounded set of natural numbers has a greatest member.
LEMMA GreatestNat ==
  ASSUME NEW S, S \subseteq Nat, S # {}, NEW b \in Nat, \A m \in S : m <= b
  PROVE  \E n \in S : \A m \in S : m <= n
  <1> DEFINE U == {u \in Nat : \A m \in S : m <= u}
  <1>1. PICK u \in U : \A v \in U : u <= v
    BY LeastNat, Zenon
  <1>2. u \in Nat /\ \A m \in S : m <= u
    OBVIOUS
  <1>3. ASSUME u \notin S PROVE FALSE
    <2>1. \A m \in S : m <= u - 1
      BY <1>2, <1>3
    <2>2. PICK s \in S : TRUE
      BY Zenon
    <2>3. s \in Nat /\ s <= u - 1
      BY <2>1
    <2>4. u - 1 \in Nat
      BY <1>2, <2>3
    <2> QED
      BY <1>1, <1>2, <2>1, <2>4
  <1> QED
    BY <1>2, <1>3

-----------------------------------------------------------------------------
(* The invariants.                                                         *)

BusInv ==
    /\ \A m \in Msgs : msg[m].state # "none" => 0 < msg[m].xid /\ msg[m].xid < nextXid
    /\ \A m \in Msgs : msg[m].state \in {"inserted", "stored", "purged"} => msg[m].seq < nextSeq
    /\ \A m \in Msgs : \A k \in msg[m].before :
         /\ msg[m].state # "none"
         /\ msg[k].state \in {"stored", "purged"}
         /\ msg[k].xid < msg[m].xid
         /\ msg[m].state # "begun" => msg[k].seq < msg[m].seq

QueueInv ==
    /\ pos < nextXid
    /\ NothingSkipped
    /\ \A m \in Msgs :
         /\ dlv[m].state = "none" => dlv[m].attempts = 0
         /\ dlv[m].state = "ready" => dlv[m].attempts < MaxDeliver
         /\ dlv[m].state = "in_flight" => dlv[m].attempts > 0
         /\ dlv[m].state # "none" => msg[m].state \in {"stored", "purged"}
         /\ dlv[m].state # "none" /\ msg[m].state = "stored" => msg[m].xid <= pos

\* What a worker that is about to settle has done.
OutcomeTrue(w) ==
    wrk[w].phase = "settling" =>
        \/ wrk[w].outcome = "Ack" /\ EventOf(wrk[w].msg) \in inbox
        \/ wrk[w].outcome = "Term" /\ EventOf(wrk[w].msg) \in deadLetters
        \/ wrk[w].outcome = "Nak"

Settled(m) == EventOf(m) \in inbox \cup deadLetters

\* A worker still has its chance with the a-th delivery of m.
Active(w, m, a) == wrk[w].phase \in {"handling", "failed"} /\ wrk[w].msg = m /\ wrk[w].attempt = a

\* The deliveries of m whose failure was to be recorded and that are over.
Lapsed(m) == {a \in scenario.declared..dlv[m].attempts : \A w \in Workers : ~Active(w, m, a)}

\* A message without its record has met a fault with every such delivery; when it is over it has used them all up.
LeaseInv ==
    /\ \A w \in Workers : OutcomeTrue(w)
    /\ \A m \in Msgs : Settled(m) \/ Cardinality(Lapsed(m)) <= Lapses
    /\ \A m \in Msgs : dlv[m].state = "gone" /\ msg[m].state = "stored" => Settled(m) \/ dlv[m].attempts = MaxDeliver

\* No handler outlives its lease: it is the only one, and what was published before a claimed message is over.
OrderInv ==
    (scenario.ordered /\ {"stall", "retention"} \cap scenario.faults = {}) =>
        /\ \A w \in Workers : \A m \in Msgs : Handling(w, m) => LeaseHeld(w) /\ ~dlv[m].expired
        /\ \A v, w \in Workers : \A m \in Msgs : Handling(v, m) /\ Handling(w, m) => v = w
        /\ \A m \in Msgs : msg[m].state # "purged"
        /\ \A m \in Msgs : dlv[m].attempts > 0 => \A k \in msg[m].before : dlv[k].state = "gone"
        /\ \A i \in DOMAIN effects : dlv[effects[i]].attempts > 0
        /\ OrderedEffects

\* The inductive invariant.
IInv == TypeOK /\ BusInv /\ QueueInv /\ EffectOnce /\ LeaseInv /\ OrderInv

-----------------------------------------------------------------------------
(* Types.                                                                  *)

\* The idle worker is a worker.
LEMMA IdleIsWorker == IdleWorker \in Worker /\ IdleWorker.phase = "idle"
  BY DeliveryConstants DEF IdleWorker, Worker

\* The initial state satisfies the inductive invariant (nothing published, every worker idle).
LEMMA InitIInv == Init => IInv
  <1> SUFFICES ASSUME Init PROVE IInv
    OBVIOUS
  <1>1. NoMessage \in Message /\ NoMessage.state = "none" /\ NoMessage.before = {}
    BY DEF NoMessage, Message
  <1>2. NoDlv \in Dlv /\ NoDlv.state = "none" /\ NoDlv.attempts = 0
    BY DeliveryConstants DEF NoDlv, Dlv
  <1>3. /\ \A m \in Msgs : msg[m] = NoMessage /\ dlv[m] = NoDlv
        /\ \A w \in Workers : wrk[w] = IdleWorker
        /\ DOMAIN effects = {}
    BY DEF Init
  <1>4. TypeOK
    BY <1>1, <1>2, <1>3, IdleIsWorker DEF Init, TypeOK
  <1>5. BusInv /\ QueueInv
    BY <1>1, <1>2, <1>3 DEF Init, BusInv, QueueInv, NothingSkipped
  <1>6. EffectOnce
    BY <1>3 DEF Init, EffectOnce
  <1>7. \A w \in Workers, m \in Msgs : ~Handling(w, m)
    BY <1>3, IdleIsWorker DEF Handling
  <1>8. LeaseInv
    <2>1. ASSUME NEW m \in Msgs PROVE Cardinality(Lapsed(m)) <= Lapses
      <3>1. scenario.declared \in Nat \ {0} /\ faults = 0 /\ dlv[m].attempts = 0
        BY <1>2, <1>3, DeliveryConstants DEF Init, Scenario
      <3>2. Lapsed(m) = {} /\ Lapses = 0
        BY <3>1 DEF Lapsed, Lapses
      <3> QED
        BY <3>2, FS_EmptySet
    <2>2. \A w \in Workers : OutcomeTrue(w)
      BY <1>3, IdleIsWorker DEF OutcomeTrue
    <2> QED
      BY <1>2, <1>3, <2>1, <2>2 DEF LeaseInv
  <1>9. OrderInv
    BY <1>1, <1>2, <1>3, <1>7 DEF OrderInv, OrderedEffects
  <1> QED
    BY <1>4, <1>5, <1>6, <1>8, <1>9 DEF IInv

-----------------------------------------------------------------------------
(* The read position.                                                      *)

\* The oldest insert in progress bounds what is read (pgqueue.go: advance).
LEMMA XminBounds ==
  ASSUME TypeOK, BusInv
  PROVE  /\ Xmin \in Nat /\ Xmin <= nextXid
         /\ \A m \in Msgs : msg[m].state \in {"begun", "inserted"} => Xmin <= msg[m].xid
  <1> DEFINE open == {k \in Msgs : msg[k].state \in {"begun", "inserted"}}
             running == {msg[m].xid : m \in open}
  <1>1. nextXid \in Nat /\ \A m \in Msgs : msg[m].xid \in Nat
    BY DEF TypeOK, Message
  <1>2. running \subseteq Nat /\ \A x \in running : x <= nextXid
    BY <1>1 DEF BusInv
  <1>3. CASE running = {}
    BY <1>1, <1>3 DEF Xmin
  <1>4. CASE running # {}
    <2>1. \E x \in running : \A y \in running : x <= y
      BY <1>2, <1>4, LeastNat, Zenon
    <2>2. Xmin = CHOOSE x \in running : \A y \in running : x <= y
      BY <1>4, Zenon DEF Xmin
    <2>3. Xmin \in running /\ \A y \in running : Xmin <= y
      BY <2>1, <2>2
    <2> QED
      BY <1>1, <1>2, <2>3
  <1> QED
    BY <1>3, <1>4

\* The message the position moves to.
Top == CHOOSE m \in Readable : \A k \in Readable : msg[k].xid <= msg[m].xid

\* The position moves to a stored message behind every insert in progress, over nothing it does not queue.
LEMMA TopBounds ==
  ASSUME TypeOK, BusInv, Readable # {}
  PROVE  /\ Top \in Readable /\ msg[Top].xid \in Nat /\ pos < msg[Top].xid /\ msg[Top].xid < Xmin
         /\ \A m \in Readable : msg[m].state = "stored" /\ msg[m].xid <= msg[Top].xid /\ pos < msg[m].xid
         /\ \A m \in Stored : pos < msg[m].xid /\ msg[m].xid <= msg[Top].xid => m \in Readable
  <1> DEFINE later == {m \in Stored : pos < msg[m].xid /\ msg[m].xid < Xmin}
             below(m) == {k \in later : msg[k].xid < msg[m].xid}
             xids == {msg[m].xid : m \in Readable}
  <1>0. nextXid \in Nat /\ pos \in Nat /\ Xmin \in Nat /\ \A m \in Msgs : msg[m].xid \in Nat
    BY XminBounds DEF TypeOK, Message
  <1>1. Readable = {m \in later : Cardinality(below(m)) < AdvanceBatch}
    BY DEF Readable
  <1>2. later \subseteq Msgs /\ \A m \in later : msg[m].state = "stored" /\ pos < msg[m].xid /\ msg[m].xid < Xmin
    BY DEF Stored
  <1>3. IsFiniteSet(later)
    BY <1>2, DeliveryConstants, FS_Subset
  <1> HIDE DEF later
  <1>4. \E x \in xids : \A y \in xids : y <= x
    <2>0. \A m \in Readable : msg[m].xid \in Nat /\ msg[m].xid <= Xmin
      BY <1>0, <1>1, <1>2
    <2>1. xids \subseteq Nat /\ xids # {} /\ \A x \in xids : x <= Xmin
      BY <2>0
    <2> HIDE DEF xids
    <2> QED
      BY <1>0, <2>1, GreatestNat
  <1>5. \E m \in Readable : \A k \in Readable : msg[k].xid <= msg[m].xid
    BY <1>4
  <1>6. Top \in Readable /\ \A k \in Readable : msg[k].xid <= msg[Top].xid
    BY <1>5 DEF Top
  <1>7. ASSUME NEW m \in later, msg[m].xid <= msg[Top].xid PROVE m \in Readable
    <2>0. Top \in Msgs
      BY <1>1, <1>2, <1>6
    <2>1. below(m) \subseteq below(Top) /\ below(Top) \subseteq later
      BY <1>0, <1>2, <1>7, <2>0
    <2>2. IsFiniteSet(below(Top))
      BY <1>3, <2>1, FS_Subset
    <2>3. /\ Cardinality(below(m)) <= Cardinality(below(Top))
          /\ Cardinality(below(m)) \in Nat /\ Cardinality(below(Top)) \in Nat
      <3> HIDE DEF below
      <3> QED
        BY <2>1, <2>2, FS_Subset, FS_CardinalityType
    <2>4. Cardinality(below(Top)) < AdvanceBatch
      BY <1>1, <1>6
    <2> QED
      BY <1>1, <1>7, <2>3, <2>4, DeliveryConstants
  <1>8. \A m \in Stored : pos < msg[m].xid /\ msg[m].xid <= msg[Top].xid => m \in later
    BY <1>0, <1>1, <1>2, <1>6 DEF later, Stored
  <1> QED
    BY <1>0, <1>1, <1>2, <1>6, <1>7, <1>8

\* advance queues the readable messages and moves the position to the last of them.
LEMMA AdvanceShape ==
  ASSUME TypeOK, NEW w \in Workers, advance(w)
  PROVE  /\ Readable = {} => dlv' = dlv /\ pos' = pos
         /\ Readable # {} => pos' = msg[Top].xid
         /\ \A m \in Msgs : dlv'[m] = IF m \in Readable THEN [NoDlv EXCEPT !.state = "ready", !.due = TRUE] ELSE dlv[m]
  <1>1. dlv \in [Msgs -> Dlv]
    BY DEF TypeOK
  <1> QED
    BY <1>1 DEF advance, Top

-----------------------------------------------------------------------------
(* Types are kept.                                                         *)

\* The bus.
LEMMA BusTypes ==
  ASSUME IInv, [Next]_vars
  PROVE  msg' \in [Msgs -> Message] /\ nextXid' \in Nat /\ nextSeq' \in Nat
  <1>0. msg \in [Msgs -> Message] /\ nextXid \in Nat /\ nextSeq \in Nat
    BY SMTT(30) DEF IInv, TypeOK
  <1>1. NoMessage \in Message /\ [NoMessage EXCEPT !.state = "begun", !.xid = nextXid, !.before = Stored] \in Message
    BY <1>0, Zenon DEF NoMessage, Message, Stored
  <1>2. \A m \in Msgs : /\ [msg[m] EXCEPT !.state = "inserted", !.seq = nextSeq] \in Message
                        /\ [msg[m] EXCEPT !.state = "stored"] \in Message
                        /\ [msg[m] EXCEPT !.state = "purged"] \in Message
    BY <1>0, ZenonT(30) DEF Message
  <1>3. ASSUME NEW m \in Msgs, Publishing(m) \/ Purge(m)
        PROVE  msg' \in [Msgs -> Message] /\ nextXid' \in Nat /\ nextSeq' \in Nat
    <2>1. CASE Begin(m)
      BY <1>0, <1>1, <2>1 DEF Begin
    <2>2. CASE Insert(m)
      <3> DEFINE row == [msg[m] EXCEPT !.state = "inserted", !.seq = nextSeq]
      <3>1. msg' = [msg EXCEPT ![m] = row] /\ nextSeq' = nextSeq + 1 /\ nextXid' = nextXid
        BY <1>0, <2>2 DEF Insert
      <3>2. row \in Message
        BY <1>2, Zenon
      <3> HIDE DEF row
      <3> QED
        BY <1>0, <3>1, <3>2
    <2>3. CASE Commit(m)
      BY <1>0, <1>1, <1>2, <2>3, Zenon DEF Commit
    <2>4. CASE Purge(m)
      BY <1>0, <1>2, <2>4, Zenon DEF Purge
    <2> QED
      BY <1>3, <2>1, <2>2, <2>3, <2>4 DEF Publishing
  <1>4. CASE \/ \E m \in Msgs : Passes(m)
             \/ \E w \in Workers : work(w) \/ Crash(w)
             \/ giveUp \/ UNCHANGED vars
    <2>1. UNCHANGED bus
      BY <1>4, Zenon DEF Passes, work, claim, claimNothing, advance, settle, ProcessOK, ProcessFails, deadLetter,
                         Crash, giveUp, vars, bus
    <2> QED
      BY <1>0, <2>1 DEF bus
  <1> QED
    BY <1>3, <1>4 DEF Next

\* The deliveries and the read position; no delivery is claimed more often than MaxDeliver.
LEMMA QueueTypes ==
  ASSUME IInv, [Next]_vars
  PROVE  dlv' \in [Msgs -> Dlv] /\ pos' \in Nat
  <1>0. dlv \in [Msgs -> Dlv] /\ pos \in Nat /\ TypeOK /\ BusInv
    BY DEF IInv, TypeOK
  <1>1. [NoDlv EXCEPT !.state = "ready", !.due = TRUE] \in Dlv
    <2>1. NoDlv \in Dlv
      BY DeliveryConstants DEF NoDlv, Dlv
    <2> QED
      BY <2>1, Zenon DEF Dlv
  <1>2. ASSUME NEW m \in Msgs
        PROVE  /\ [dlv[m] EXCEPT !.state = "gone"] \in Dlv
               /\ [dlv[m] EXCEPT !.state = "ready", !.expired = FALSE] \in Dlv
               /\ [dlv[m] EXCEPT !.due = TRUE] \in Dlv
               /\ [dlv[m] EXCEPT !.expired = TRUE] \in Dlv
    <2>1. dlv[m] \in Dlv
      BY <1>0
    <2> QED
      BY <2>1, Zenon DEF Dlv
  <1>3. ASSUME NEW m \in Msgs, Purge(m) \/ Passes(m) PROVE dlv' \in [Msgs -> Dlv] /\ pos' \in Nat
    <2>1. CASE Purge(m)
      BY <1>0, <1>2, <2>1, ZenonT(30) DEF Purge
    <2>2. CASE Passes(m)
      BY <1>0, <1>2, <2>2, Zenon DEF Passes
    <2> QED
      BY <1>3, <2>1, <2>2, SMTT(30)
  <1>4. ASSUME NEW w \in Workers, NEW m \in Msgs, claim(w, m) PROVE dlv' \in [Msgs -> Dlv] /\ pos' \in Nat
    <2>1. CASE msg[m].state = "purged"
      BY <1>0, <1>2, <1>4, <2>1, Zenon DEF claim
    <2>2. CASE msg[m].state # "purged"
      <3>1. dlv[m].attempts \in 0..MaxDeliver /\ dlv[m].attempts < MaxDeliver
        <4>1. dlv[m].attempts \in 0..MaxDeliver
          BY <1>0 DEF Dlv
        <4> QED
          BY <1>4, <4>1 DEF claim, Claimable, Due, Ready, Expired, IInv, QueueInv
      <3>2. dlv[m].attempts + 1 \in 0..MaxDeliver
        BY <3>1, DeliveryConstants
      <3>3. [state |-> "in_flight", attempts |-> dlv[m].attempts + 1, due |-> FALSE, expired |-> FALSE] \in Dlv
        BY <3>2 DEF Dlv
      <3> QED
        BY <1>0, <1>4, <2>2, <3>3, Zenon DEF claim
    <2> QED
      BY <2>1, <2>2, SMTT(30)
  <1>5. ASSUME NEW w \in Workers, advance(w) PROVE dlv' \in [Msgs -> Dlv] /\ pos' \in Nat
    <2>1. dlv' \in [Msgs -> Dlv]
      BY <1>0, <1>1, <1>5 DEF advance
    <2>2. pos' \in Nat
      BY <1>0, <1>5, AdvanceShape, TopBounds
    <2> QED
      BY <2>1, <2>2
  <1>6. ASSUME NEW w \in Workers, settle(w) PROVE dlv' \in [Msgs -> Dlv] /\ pos' \in Nat
    <2>1. wrk[w].msg \in Msgs
      BY <1>0, SMTT(30) DEF TypeOK, Worker
    <2> QED
      BY <1>0, <1>2, <1>6, <2>1, Zenon DEF settle
  <1>7. CASE giveUp
    BY <1>0, <1>2, <1>7, Zenon DEF giveUp
  <1>8. CASE \/ \E m \in Msgs : Publishing(m)
             \/ \E w \in Workers : claimNothing(w) \/ ProcessOK(w) \/ ProcessFails(w) \/ deadLetter(w) \/ Crash(w)
             \/ UNCHANGED vars
    <2>1. UNCHANGED <<dlv, pos>>
      BY <1>8, Zenon DEF Publishing, Begin, Insert, Commit, claimNothing, ProcessOK, ProcessFails, deadLetter, Crash, vars
    <2> QED
      BY <1>0, <2>1
  <1> QED
    BY <1>3, <1>4, <1>5, <1>6, <1>7, <1>8 DEF Next, work

\* The workers.
LEMMA WorkerTypes ==
  ASSUME IInv, [Next]_vars
  PROVE  wrk' \in [Workers -> Worker]
  <1>0. wrk \in [Workers -> Worker] /\ dlv \in [Msgs -> Dlv]
    BY DEF IInv, TypeOK
  <1>1. ASSUME NEW w \in Workers
        PROVE  /\ [wrk[w] EXCEPT !.phase = "advancing"] \in Worker
               /\ [wrk[w] EXCEPT !.phase = "failed"] \in Worker
               /\ [wrk[w] EXCEPT !.phase = "settling", !.outcome = "Ack"] \in Worker
               /\ [wrk[w] EXCEPT !.phase = "settling", !.outcome = "Nak"] \in Worker
               /\ [wrk[w] EXCEPT !.phase = "settling", !.outcome = "Term"] \in Worker
    <2>1. wrk[w] \in Worker
      BY <1>0
    <2> QED
      BY <2>1, Zenon DEF Worker
  <1>2. ASSUME NEW w \in Workers, NEW row \in Worker, wrk' = [wrk EXCEPT ![w] = row] PROVE wrk' \in [Workers -> Worker]
    BY <1>0, <1>2, SMTT(30)
  <1>3. ASSUME NEW w \in Workers, claimNothing(w) PROVE wrk' \in [Workers -> Worker]
    BY <1>0, <1>1, <1>3, Zenon DEF claimNothing
  <1>4. ASSUME NEW w \in Workers, advance(w) \/ settle(w) \/ Crash(w) PROVE wrk' \in [Workers -> Worker]
    BY <1>2, <1>4, IdleIsWorker, Zenon DEF advance, settle, Crash
  <1>5. ASSUME NEW w \in Workers, ProcessOK(w) \/ ProcessFails(w) \/ deadLetter(w) PROVE wrk' \in [Workers -> Worker]
    BY <1>1, <1>2, <1>5, Zenon DEF ProcessOK, ProcessFails, deadLetter
  <1>6. ASSUME NEW w \in Workers, NEW m \in Msgs, claim(w, m) PROVE wrk' \in [Workers -> Worker]
    <2>1. CASE msg[m].state = "purged"
      BY <1>0, <1>6, <2>1 DEF claim
    <2>2. CASE msg[m].state # "purged"
      <3>1. dlv'[m].attempts = dlv[m].attempts + 1 /\ dlv' \in [Msgs -> Dlv]
        BY <1>0, <1>6, <2>2, QueueTypes DEF claim
      <3>2. dlv[m].attempts + 1 \in 0..MaxDeliver
        BY <3>1 DEF Dlv
      <3>3. [phase |-> "handling", msg |-> m, attempt |-> dlv[m].attempts + 1, outcome |-> "none"] \in Worker
        BY <3>2 DEF Worker
      <3> QED
        BY <1>2, <1>6, <2>2, <3>3 DEF claim
    <2> QED
      BY <2>1, <2>2
  <1>7. CASE \/ \E m \in Msgs : Publishing(m) \/ Purge(m) \/ Passes(m)
             \/ giveUp \/ UNCHANGED vars
    <2>1. UNCHANGED wrk
      BY <1>7, Zenon DEF Publishing, Begin, Insert, Commit, Purge, Passes, giveUp, vars
    <2> QED
      BY <1>0, <2>1
  <1> QED
    BY <1>3, <1>4, <1>5, <1>6, <1>7 DEF Next, work

\* The scenario never changes, and what it says of events.
LEMMA ScenarioKept ==
  ASSUME [Next]_vars
  PROVE  scenario' = scenario /\ Events' = Events /\ \A m \in Msgs : EventOf(m)' = EventOf(m)
  <1>1. scenario' = scenario
    BY Zenon DEF Next, Publishing, Begin, Insert, Commit, Purge, Passes, work, claim, claimNothing, advance, settle,
                 ProcessOK, ProcessFails, deadLetter, Crash, giveUp, vars
  <1> QED
    BY <1>1 DEF Events, EventOf

\* Rows, workers and records stay well formed.
LEMMA TypeStep == IInv /\ [Next]_vars => TypeOK'
  <1> SUFFICES ASSUME IInv, [Next]_vars PROVE TypeOK'
    OBVIOUS
  <1>0. /\ inbox \subseteq Events /\ deadLetters \subseteq Events /\ effects \in Seq(Msgs) /\ faults \in Nat
        /\ scenario \in Scenarios
        /\ \A w \in Workers : wrk[w].msg \in Msgs
    BY DEF IInv, TypeOK, Worker
  <1>1. scenario' = scenario /\ Events' = Events
    BY ScenarioKept
  <1>2. \A m \in Msgs : EventOf(m) \in Events
    BY DEF Events
  <1>3. inbox' \subseteq Events /\ deadLetters' \subseteq Events /\ effects' \in Seq(Msgs)
    <2>1. CASE UNCHANGED consumer
      BY <1>0, <2>1 DEF consumer
    <2>2. ASSUME NEW w \in Workers, ProcessOK(w) \/ deadLetter(w)
          PROVE  inbox' \subseteq Events /\ deadLetters' \subseteq Events /\ effects' \in Seq(Msgs)
      BY <1>0, <1>2, <2>2 DEF ProcessOK, deadLetter, consumer
    <2>3. UNCHANGED consumer \/ \E w \in Workers : ProcessOK(w) \/ deadLetter(w)
      BY Zenon DEF Next, Publishing, Begin, Insert, Commit, Purge, Passes, work, claim, claimNothing, advance, settle,
                   ProcessFails, Crash, giveUp, vars, consumer
    <2> QED
      BY <2>1, <2>2, <2>3
  <1>4. faults' \in Nat
    <2>1. UNCHANGED faults \/ faults' = faults + 1
      BY Zenon DEF Next, Publishing, Begin, Insert, Commit, Purge, Passes, work, claim, claimNothing, advance, settle,
                   ProcessOK, ProcessFails, deadLetter, Crash, giveUp, vars, Spend
    <2> QED
      BY <1>0, <2>1
  <1> QED
    BY <1>0, <1>1, <1>3, <1>4, BusTypes, QueueTypes, WorkerTypes DEF TypeOK

-----------------------------------------------------------------------------
(* Publishing.                                                             *)

\* What one step may do to a message.
MsgSteps(m) ==
    \/ msg'[m] = msg[m]
    \/ /\ msg[m].state = "none" /\ msg'[m].state = "begun" /\ msg'[m].xid = nextXid /\ msg'[m].before = Stored
       /\ nextXid' = nextXid + 1
    \/ /\ msg[m].state = "begun" /\ msg'[m].state = "inserted" /\ msg'[m].xid = msg[m].xid
       /\ msg'[m].before = msg[m].before /\ msg'[m].seq = nextSeq /\ nextSeq' = nextSeq + 1
    \/ /\ msg[m].state = "inserted" /\ msg'[m].state = "stored" /\ msg'[m].xid = msg[m].xid
       /\ msg'[m].before = msg[m].before /\ msg'[m].seq = msg[m].seq
    \/ msg[m].state = "inserted" /\ msg'[m].state = "none" /\ msg'[m].before = {}
    \/ /\ msg[m].state = "stored" /\ msg'[m].state = "purged" /\ msg'[m].xid = msg[m].xid
       /\ msg'[m].before = msg[m].before /\ msg'[m].seq = msg[m].seq /\ "retention" \in scenario.faults

\* The bus takes the steps of one message at a time.
LEMMA BusShape ==
  ASSUME IInv, [Next]_vars
  PROVE  /\ \A m \in Msgs : MsgSteps(m)
         /\ \A m, k \in Msgs : msg'[m] = msg[m] \/ msg'[k] = msg[k] \/ m = k
         /\ nextXid' \in {nextXid, nextXid + 1} /\ nextSeq' \in {nextSeq, nextSeq + 1}
  <1>0. msg \in [Msgs -> Message] /\ nextXid \in Nat /\ nextSeq \in Nat
    BY DEF IInv, TypeOK
  <1>1. CASE UNCHANGED bus
    BY <1>1 DEF MsgSteps, bus
  <1>2. ASSUME NEW m \in Msgs, Publishing(m) \/ Purge(m)
        PROVE  /\ \A k \in Msgs : k # m => msg'[k] = msg[k]
               /\ MsgSteps(m)
               /\ nextXid' \in {nextXid, nextXid + 1} /\ nextSeq' \in {nextSeq, nextSeq + 1}
    <2>1. CASE Begin(m)
      BY <1>0, <2>1 DEF Begin, MsgSteps, NoMessage, Message
    <2>2. CASE Insert(m)
      BY <1>0, <2>2 DEF Insert, MsgSteps, Message
    <2>3. CASE Commit(m)
      BY <1>0, <2>3 DEF Commit, MsgSteps, NoMessage, Message
    <2>4. CASE Purge(m)
      BY <1>0, <2>4 DEF Purge, MsgSteps, Message, Spend
    <2> QED
      BY <1>2, <2>1, <2>2, <2>3, <2>4 DEF Publishing
  <1>3. UNCHANGED bus \/ \E m \in Msgs : Publishing(m) \/ Purge(m)
    BY Zenon DEF Next, Passes, work, claim, claimNothing, advance, settle, ProcessOK, ProcessFails, deadLetter,
                 Crash, giveUp, vars, bus
  <1>4. ASSUME NEW m \in Msgs, Publishing(m) \/ Purge(m)
        PROVE  /\ \A k \in Msgs : MsgSteps(k)
               /\ \A j, k \in Msgs : msg'[j] = msg[j] \/ msg'[k] = msg[k] \/ j = k
    BY <1>2, <1>4 DEF MsgSteps
  <1> QED
    BY <1>1, <1>2, <1>3, <1>4 DEF bus

\* Every step keeps BusInv.
LEMMA BusStep == ASSUME IInv, [Next]_vars PROVE BusInv'
  <1>0. /\ \A m \in Msgs : msg[m] \in Message /\ msg'[m] \in Message
        /\ \A m \in Msgs : msg[m].before \subseteq Msgs /\ msg'[m].before \subseteq Msgs
        /\ \A m \in Msgs : msg[m].xid \in Nat /\ msg[m].seq \in Nat /\ msg'[m].xid \in Nat /\ msg'[m].seq \in Nat
        /\ nextXid \in Nat /\ nextSeq \in Nat /\ nextXid' \in Nat /\ nextSeq' \in Nat
        /\ nextXid <= nextXid' /\ nextSeq <= nextSeq'
    BY BusTypes, BusShape DEF IInv, TypeOK, Message
  <1>1. BusInv /\ \A m \in Msgs : MsgSteps(m)
    BY BusShape DEF IInv
  <1>2. 0 < nextXid
    BY DEF IInv, QueueInv, TypeOK
  <1>3. \A m \in Msgs : msg'[m].state # "none" => 0 < msg'[m].xid /\ msg'[m].xid < nextXid'
    BY <1>0, <1>1, <1>2 DEF BusInv, MsgSteps
  <1>4. \A m \in Msgs : msg'[m].state \in {"inserted", "stored", "purged"} => msg'[m].seq < nextSeq'
    BY <1>0, <1>1 DEF BusInv, MsgSteps
  <1>5. \A k \in Msgs : msg[k].state \in {"stored", "purged"} =>
          msg'[k].state \in {"stored", "purged"} /\ msg'[k].xid = msg[k].xid /\ msg'[k].seq = msg[k].seq
    BY <1>1 DEF MsgSteps
  <1>6. ASSUME NEW m \in Msgs, NEW k \in msg'[m].before
        PROVE  /\ msg'[m].state # "none"
               /\ msg'[k].state \in {"stored", "purged"}
               /\ msg'[k].xid < msg'[m].xid
               /\ msg'[m].state # "begun" => msg'[k].seq < msg'[m].seq
    <2>1. k \in Msgs
      BY <1>0, <1>6
    <2>2. CASE msg[m].state = "none" /\ msg'[m].state = "begun"
      <3>1. k \in Stored /\ msg'[m].xid = nextXid
        BY <1>1, <1>6, <2>2 DEF MsgSteps
      <3> QED
        BY <1>0, <1>1, <1>5, <2>1, <2>2, <3>1 DEF BusInv, Stored
    <2>3. CASE ~(msg[m].state = "none" /\ msg'[m].state = "begun")
      <3>1. k \in msg[m].before /\ msg'[m].xid = msg[m].xid
        BY <1>1, <1>6, <2>3 DEF MsgSteps
      <3>2. /\ msg[m].state # "none" /\ msg[k].state \in {"stored", "purged"} /\ msg[k].xid < msg[m].xid
            /\ msg[m].state # "begun" => msg[k].seq < msg[m].seq
            /\ msg[k].seq < nextSeq
        BY <1>1, <2>1, <3>1 DEF BusInv
      <3>3. msg'[k].state \in {"stored", "purged"} /\ msg'[k].xid = msg[k].xid /\ msg'[k].seq = msg[k].seq
        BY <1>5, <2>1, <3>2
      <3>4. msg'[m].state # "none"
        BY <1>1, <1>6, <3>2 DEF MsgSteps
      <3>5. msg'[m].state # "begun" => msg'[k].seq < msg'[m].seq
        BY <1>1, <2>3, <3>2, <3>3, <3>4 DEF MsgSteps
      <3> QED
        BY <3>1, <3>2, <3>3, <3>4, <3>5
    <2> QED
      BY <2>2, <2>3
  <1> QED
    BY <1>3, <1>4, <1>6 DEF BusInv

-----------------------------------------------------------------------------
(* Deliveries.                                                             *)

\* What one step, other than an advance, may do to a delivery.
DlvSteps(m) ==
    \/ dlv'[m].state = dlv[m].state /\ dlv'[m].attempts = dlv[m].attempts
    \/ /\ dlv'[m].state = "gone" /\ dlv'[m].attempts = dlv[m].attempts
       /\ dlv[m].state # "none" \/ msg'[m].state = "purged"
    \/ /\ dlv[m].state \in {"ready", "in_flight"} /\ dlv'[m].state = "in_flight"
       /\ dlv'[m].attempts = dlv[m].attempts + 1 /\ \E w \in Workers : claim(w, m)
    \/ /\ dlv[m].state = "in_flight" /\ dlv'[m].state = "ready" /\ dlv'[m].attempts = dlv[m].attempts
       /\ dlv[m].attempts < MaxDeliver

\* The steps of the deliveries, and who takes them.
LEMMA DlvShape ==
  ASSUME IInv, [Next]_vars, ~\E w \in Workers : advance(w)
  PROVE  pos' = pos /\ \A m \in Msgs : DlvSteps(m)
  <1>0. /\ dlv \in [Msgs -> Dlv] /\ msg \in [Msgs -> Message]
        /\ \A w \in Workers : wrk[w].msg \in Msgs
    BY DEF IInv, TypeOK, Worker
  <1>1. pos' = pos
    BY Zenon DEF Next, Publishing, Begin, Insert, Commit, Purge, Passes, work, claim, claimNothing, settle, ProcessOK,
                 ProcessFails, deadLetter, Crash, giveUp, vars
  <1>2. CASE UNCHANGED dlv
    BY <1>1, <1>2 DEF DlvSteps
  <1>3. ASSUME NEW m \in Msgs, Purge(m) \/ Passes(m) PROVE \A k \in Msgs : DlvSteps(k)
    <2>1. CASE Purge(m)
      BY <1>0, <2>1 DEF Purge, DlvSteps, Dlv, Message
    <2>2. CASE Passes(m)
      BY <1>0, <2>2 DEF Passes, DlvSteps, Dlv
    <2> QED
      BY <1>3, <2>1, <2>2
  <1>4. ASSUME NEW w \in Workers, NEW m \in Msgs, claim(w, m) PROVE \A k \in Msgs : DlvSteps(k)
    <2>1. dlv[m].state \in {"ready", "in_flight"}
      BY <1>4 DEF claim, Claimable, Due, Ready, Expired
    <2>2. /\ \A k \in Msgs : k # m => dlv'[k] = dlv[k]
          /\ \/ dlv'[m].state = "gone" /\ dlv'[m].attempts = dlv[m].attempts
             \/ dlv'[m].state = "in_flight" /\ dlv'[m].attempts = dlv[m].attempts + 1
      BY <1>0, <1>4 DEF claim, Dlv
    <2> QED
      BY <1>4, <2>1, <2>2 DEF DlvSteps
  <1>5. ASSUME NEW w \in Workers, settle(w) PROVE \A k \in Msgs : DlvSteps(k)
    BY <1>0, <1>5 DEF settle, LeaseHeld, DlvSteps, Dlv
  <1>6. CASE giveUp
    BY <1>0, <1>6 DEF giveUp, Exhausted, DlvSteps, Dlv
  <1>7. \/ UNCHANGED dlv \/ giveUp
        \/ \E m \in Msgs : Purge(m) \/ Passes(m)
        \/ \E w \in Workers : settle(w) \/ \E m \in Msgs : claim(w, m)
    BY Zenon DEF Next, Publishing, Begin, Insert, Commit, work, claimNothing, ProcessOK, ProcessFails, deadLetter,
                 Crash, vars
  <1> QED
    BY <1>1, <1>2, <1>3, <1>4, <1>5, <1>6, <1>7

\* Every step keeps QueueInv.
LEMMA QueueStep == ASSUME IInv, [Next]_vars PROVE QueueInv'
  <1>0. /\ \A m \in Msgs : /\ msg[m].xid \in Nat /\ msg'[m].xid \in Nat
                           /\ dlv[m].attempts \in Nat /\ dlv[m] \in Dlv /\ dlv'[m] \in Dlv
        /\ nextXid \in Nat /\ nextXid' \in Nat /\ pos \in Nat /\ pos' \in Nat
        /\ nextXid <= nextXid' /\ TypeOK /\ BusInv /\ QueueInv /\ MaxDeliver \in Nat \ {0}
    <2>1. /\ TypeOK /\ BusInv /\ QueueInv /\ MaxDeliver \in Nat \ {0}
          /\ msg \in [Msgs -> Message] /\ dlv \in [Msgs -> Dlv] /\ nextXid \in Nat /\ pos \in Nat
      BY DeliveryConstants DEF IInv, TypeOK
    <2>2. /\ msg' \in [Msgs -> Message] /\ nextXid' \in Nat /\ nextXid' \in {nextXid, nextXid + 1}
          /\ dlv' \in [Msgs -> Dlv] /\ pos' \in Nat
      BY BusTypes, QueueTypes, BusShape
    <2>3. \A m \in Msgs : msg[m].xid \in Nat /\ msg'[m].xid \in Nat
      BY <2>1, <2>2 DEF Message
    <2>4. \A m \in Msgs : dlv[m].attempts \in Nat /\ dlv[m] \in Dlv /\ dlv'[m] \in Dlv
      BY <2>1, <2>2 DEF Dlv
    <2> QED
      BY <2>1, <2>2, <2>3, <2>4
  <1>1. \A m \in Msgs : MsgSteps(m)
    BY BusShape
  <1>2. ASSUME NEW w \in Workers, advance(w) PROVE QueueInv'
    <2>1. msg' = msg /\ nextXid' = nextXid
      BY <1>2 DEF advance, bus
    <2>2. CASE Readable = {}
      <3>1. dlv' = dlv /\ pos' = pos
        BY <1>0, <1>2, <2>2, AdvanceShape
      <3> QED
        BY <1>0, <2>1, <3>1 DEF QueueInv, NothingSkipped
    <2>3. CASE Readable # {}
      <3>1. /\ pos' = msg[Top].xid /\ pos < pos' /\ pos' < Xmin
            /\ \A m \in Readable : msg[m].state = "stored" /\ msg[m].xid <= pos'
            /\ \A m \in Stored : pos < msg[m].xid /\ msg[m].xid <= pos' => m \in Readable
        BY <1>0, <1>2, <2>3, AdvanceShape, TopBounds
      <3>2. \A m \in Msgs : /\ m \in Readable => dlv'[m].state = "ready" /\ dlv'[m].attempts = 0
                            /\ m \notin Readable => dlv'[m] = dlv[m]
        BY <1>0, <1>2, AdvanceShape, Zenon DEF NoDlv
      <3>3. pos' < nextXid /\ \A m \in Msgs : msg[m].state \in {"begun", "inserted"} => pos' < msg[m].xid
        BY <1>0, <3>1, XminBounds
      <3>4. \A m \in Msgs : msg[m].state = "stored" /\ msg[m].xid <= pos' => dlv'[m].state # "none"
        BY <1>0, <3>1, <3>2 DEF QueueInv, NothingSkipped, Stored
      <3>5. \A m \in Msgs : dlv'[m].state # "none" =>
              msg[m].state \in {"stored", "purged"} /\ (msg[m].state = "stored" => msg[m].xid <= pos')
        BY <1>0, <3>1, <3>2 DEF QueueInv
      <3>6. \A m \in Msgs : /\ dlv'[m].state = "none" => dlv'[m].attempts = 0
                            /\ dlv'[m].state = "ready" => dlv'[m].attempts < MaxDeliver
                            /\ dlv'[m].state = "in_flight" => dlv'[m].attempts > 0
        BY <1>0, <3>2 DEF QueueInv
      <3> QED
        BY <2>1, <3>3, <3>4, <3>5, <3>6 DEF QueueInv, NothingSkipped
    <2> QED
      BY <2>2, <2>3
  <1>3. CASE ~\E w \in Workers : advance(w)
    <2>1. pos' = pos /\ \A m \in Msgs : DlvSteps(m)
      BY <1>3, DlvShape
    <2>2. \A m \in Msgs : msg'[m].state \in {"begun", "inserted"} => pos' < msg'[m].xid
      BY <1>0, <1>1, <2>1 DEF QueueInv, NothingSkipped, MsgSteps
    <2>3. ASSUME NEW m \in Msgs, msg'[m].state = "stored", msg'[m].xid <= pos' PROVE dlv'[m].state # "none"
      <3>1. msg[m].state = "stored" /\ msg[m].xid <= pos
        BY <1>0, <1>1, <2>1, <2>3 DEF QueueInv, NothingSkipped, MsgSteps
      <3> QED
        BY <1>0, <2>1, <3>1 DEF QueueInv, NothingSkipped, DlvSteps
    <2>4. ASSUME NEW m \in Msgs, dlv'[m].state # "none"
          PROVE  msg'[m].state \in {"stored", "purged"} /\ (msg'[m].state = "stored" => msg'[m].xid <= pos')
      <3>1. CASE dlv[m].state = "none"
        BY <1>0, <2>1, <2>4, <3>1 DEF DlvSteps
      <3>2. CASE dlv[m].state # "none"
        BY <1>0, <1>1, <2>1, <3>2 DEF QueueInv, MsgSteps
      <3> QED
        BY <3>1, <3>2
    <2>5. ASSUME NEW m \in Msgs
          PROVE  /\ dlv'[m].state = "none" => dlv'[m].attempts = 0
                 /\ dlv'[m].state = "ready" => dlv'[m].attempts < MaxDeliver
                 /\ dlv'[m].state = "in_flight" => dlv'[m].attempts > 0
      BY <1>0, <2>1 DEF QueueInv, DlvSteps
    <2> QED
      BY <1>0, <2>1, <2>2, <2>3, <2>4, <2>5 DEF QueueInv, NothingSkipped
  <1> QED
    BY <1>2, <1>3

\* Every step keeps EffectOnce: the inbox row and the effect are one transaction (consumer.go: process).
LEMMA EffectStep == ASSUME IInv, [Next]_vars PROVE EffectOnce'
  <1>0. effects \in Seq(Msgs) /\ EffectOnce /\ \A w \in Workers : wrk[w].msg \in Msgs
    BY DEF IInv, TypeOK, Worker
  <1>1. scenario' = scenario
    BY ScenarioKept
  <1>2. CASE UNCHANGED <<inbox, effects>>
    BY <1>0, <1>1, <1>2 DEF EffectOnce, EventOf
  <1>3. ASSUME NEW m \in Msgs, EventOf(m) \notin inbox,
               inbox' = inbox \cup {EventOf(m)}, effects' = Append(effects, m)
        PROVE  EffectOnce'
    <2>1. /\ DOMAIN effects = 1..Len(effects) /\ Len(effects) \in Nat
          /\ DOMAIN effects' = 1..(Len(effects) + 1)
          /\ \A k \in 1..Len(effects) : effects'[k] = effects[k]
          /\ effects'[Len(effects) + 1] = m
      BY <1>0, <1>3
    <2>2. \A k \in 1..Len(effects) : EventOf(effects[k]) \in inbox
      BY <1>0, <2>1 DEF EffectOnce
    <2>3. ASSUME NEW i \in 1..(Len(effects) + 1), NEW j \in 1..(Len(effects) + 1), i # j
          PROVE  scenario.eventOf[effects'[i]] # scenario.eventOf[effects'[j]]
      <3>1. CASE i = Len(effects) + 1 \/ j = Len(effects) + 1
        BY <1>3, <2>1, <2>2, <2>3, <3>1 DEF EventOf
      <3>2. CASE i # Len(effects) + 1 /\ j # Len(effects) + 1
        BY <1>0, <2>1, <2>3, <3>2 DEF EffectOnce, EventOf
      <3> QED
        BY <3>1, <3>2
    <2>4. inbox' = {scenario.eventOf[effects'[k]] : k \in 1..(Len(effects) + 1)}
      <3>1. inbox = {scenario.eventOf[effects[k]] : k \in 1..Len(effects)}
        BY <1>0, <2>1 DEF EffectOnce, EventOf
      <3>2. ASSUME NEW e \in inbox' PROVE \E k \in 1..(Len(effects) + 1) : e = scenario.eventOf[effects'[k]]
        <4>1. CASE e \in inbox
          BY <2>1, <3>1, <4>1
        <4>2. CASE e = EventOf(m)
          BY <2>1, <4>2 DEF EventOf
        <4> QED
          BY <1>3, <3>2, <4>1, <4>2
      <3>3. ASSUME NEW k \in 1..(Len(effects) + 1) PROVE scenario.eventOf[effects'[k]] \in inbox'
        <4>1. CASE k = Len(effects) + 1
          BY <1>3, <2>1, <4>1 DEF EventOf
        <4>2. CASE k # Len(effects) + 1
          BY <1>3, <2>1, <2>2, <4>2 DEF EventOf
        <4> QED
          BY <4>1, <4>2
      <3> QED
        BY <3>2, <3>3
    <2> QED
      BY <1>1, <2>1, <2>3, <2>4 DEF EffectOnce, EventOf
  <1>4. UNCHANGED <<inbox, effects>> \/ \E w \in Workers : ProcessOK(w)
    BY Zenon DEF Next, Publishing, Begin, Insert, Commit, Purge, Passes, work, claim, claimNothing, advance, settle,
                 ProcessFails, deadLetter, Crash, giveUp, vars, consumer
  <1>5. ASSUME NEW w \in Workers, ProcessOK(w) PROVE EffectOnce'
    BY <1>0, <1>2, <1>3, <1>5 DEF ProcessOK, Applied, consumer
  <1> QED
    BY <1>2, <1>4, <1>5

-----------------------------------------------------------------------------
(* The worker of a delivery's last lease.                                  *)

\* The parts of LeaseInv.
OutcomesTrue == \A w \in Workers : OutcomeTrue(w)
LapsesPaid == \A m \in Msgs : Settled(m) \/ Cardinality(Lapsed(m)) <= Lapses
EndsUsedUp ==
    \A m \in Msgs : dlv[m].state = "gone" /\ msg[m].state = "stored" => Settled(m) \/ dlv[m].attempts = MaxDeliver

\* The constants and the rows, as numbers.
LEMMA LeaseNumbers ==
  ASSUME TypeOK
  PROVE  /\ scenario.declared \in Nat /\ faults \in Nat /\ MaxDeliver \in Nat /\ Lapses \in Nat
         /\ dlv \in [Msgs -> Dlv] /\ wrk \in [Workers -> Worker]
         /\ \A m \in Msgs : dlv[m] \in Dlv /\ dlv[m].attempts \in 0..MaxDeliver /\ dlv[m].attempts \in Nat
         /\ \A w \in Workers : wrk[w] \in Worker /\ wrk[w].msg \in Msgs /\ wrk[w].attempt \in 0..MaxDeliver
  <1>1. scenario \in Scenario /\ MaxDeliver \in Nat
    BY DeliveryConstants DEF TypeOK
  <1>2. scenario.declared \in Nat
    BY <1>1 DEF Scenario
  <1>3. faults \in Nat /\ Lapses \in Nat
    BY DEF TypeOK, Lapses
  <1>4. dlv \in [Msgs -> Dlv] /\ wrk \in [Workers -> Worker]
    BY DEF TypeOK
  <1>5. \A m \in Msgs : dlv[m] \in Dlv /\ dlv[m].attempts \in 0..MaxDeliver /\ dlv[m].attempts \in Nat
    BY <1>1, <1>4 DEF Dlv
  <1>6. \A w \in Workers : wrk[w] \in Worker /\ wrk[w].msg \in Msgs /\ wrk[w].attempt \in 0..MaxDeliver
    BY <1>1, <1>4 DEF Worker
  <1> QED
    BY <1>1, <1>2, <1>3, <1>4, <1>5, <1>6

\* Lapses are finitely many.
LEMMA LapsedFinite ==
  ASSUME TypeOK, NEW m \in Msgs
  PROVE  IsFiniteSet(Lapsed(m)) /\ Cardinality(Lapsed(m)) \in Nat
  <1>1. scenario.declared \in Int /\ dlv[m].attempts \in Int
    BY LeaseNumbers
  <1>2. IsFiniteSet(scenario.declared..dlv[m].attempts)
    BY <1>1, FS_Interval
  <1>3. Lapsed(m) \subseteq scenario.declared..dlv[m].attempts
    BY Zenon DEF Lapsed
  <1>4. IsFiniteSet(Lapsed(m))
    BY <1>2, <1>3, FS_Subset, Zenon
  <1> QED
    BY <1>4, FS_CardinalityType, Zenon

\* No new lapse while every worker with a delivery to record keeps it.
LEMMA LapsesKept ==
  ASSUME TypeOK, TypeOK', scenario' = scenario, faults' = faults \/ faults' = faults + 1, NEW m \in Msgs,
         \/ dlv'[m].attempts = dlv[m].attempts
         \/ dlv'[m].attempts = dlv[m].attempts + 1 /\ \E w \in Workers : Active(w, m, dlv[m].attempts)',
         \A w \in Workers, a \in Nat : a >= scenario.declared /\ Active(w, m, a) => \E v \in Workers : Active(v, m, a)',
         Cardinality(Lapsed(m)) <= Lapses
  PROVE  Cardinality(Lapsed(m)') <= Lapses'
  <1>0. /\ scenario.declared \in Nat /\ faults \in Nat /\ Lapses \in Nat /\ Lapses' \in Nat
        /\ dlv[m].attempts \in Nat /\ dlv'[m].attempts \in Nat
    BY LeaseNumbers DEF TypeOK, Lapses
  <1>1. Lapses <= Lapses'
    BY <1>0 DEF Lapses
  <1>2. ASSUME NEW a \in Lapsed(m)' PROVE a \in Lapsed(m)
    <2>1. a \in scenario.declared..dlv'[m].attempts /\ a \in Nat /\ a >= scenario.declared
      BY <1>0, <1>2 DEF Lapsed
    <2>2. \A w \in Workers : ~Active(w, m, a)'
      BY <1>2, Zenon DEF Lapsed
    <2>3. \A w \in Workers : ~Active(w, m, a)
      BY <2>1, <2>2, Zenon
    <2>4. dlv'[m].attempts = dlv[m].attempts \/ (dlv'[m].attempts = dlv[m].attempts + 1 /\ a # dlv'[m].attempts)
      BY <2>2, Zenon
    <2>5. a \in scenario.declared..dlv[m].attempts
      BY <1>0, <2>1, <2>4
    <2> QED
      BY <2>3, <2>5, Zenon DEF Lapsed
  <1>3. Cardinality(Lapsed(m)') <= Cardinality(Lapsed(m)) /\ Cardinality(Lapsed(m)') \in Nat
    <2>1. Lapsed(m)' \subseteq Lapsed(m) /\ IsFiniteSet(Lapsed(m))
      BY <1>2, LapsedFinite, Zenon
    <2>2. Cardinality(Lapsed(m)') <= Cardinality(Lapsed(m)) /\ IsFiniteSet(Lapsed(m)')
      BY <2>1, FS_Subset, Zenon
    <2> QED
      BY <2>2, FS_CardinalityType, Zenon
  <1> QED
    BY <1>0, <1>1, <1>3, LapsedFinite

\* A fault costs one delivery its record.
LEMMA LapsePaid ==
  ASSUME TypeOK, TypeOK', scenario' = scenario, faults' = faults + 1, {"crash", "deadletter"} \cap scenario.faults # {},
         NEW w \in Workers, \A v \in Workers : v # w => wrk'[v] = wrk[v],
         NEW m \in Msgs, dlv'[m].attempts = dlv[m].attempts, Cardinality(Lapsed(m)) <= Lapses
  PROVE  Cardinality(Lapsed(m)') <= Lapses'
  <1> DEFINE b == wrk[w].attempt
  <1>0. faults \in Nat /\ Lapses = faults /\ Lapses' = faults + 1
    BY LeaseNumbers DEF Lapses
  <1>1. Lapsed(m)' \subseteq Lapsed(m) \cup {b}
    <2>1. ASSUME NEW a \in Lapsed(m)', a # b PROVE a \in Lapsed(m)
      <3>1. a \in scenario.declared..dlv[m].attempts /\ \A v \in Workers : ~Active(v, m, a)'
        BY <2>1, Zenon DEF Lapsed
      <3>2. ASSUME NEW v \in Workers PROVE ~Active(v, m, a)
        BY <2>1, <3>1, Zenon DEF Active
      <3> QED
        BY <3>1, <3>2, Zenon DEF Lapsed
    <2> QED
      BY <2>1, Zenon
  <1>2. /\ IsFiniteSet(Lapsed(m) \cup {b})
        /\ Cardinality(Lapsed(m) \cup {b}) <= Cardinality(Lapsed(m)) + 1
        /\ Cardinality(Lapsed(m) \cup {b}) \in Nat /\ Cardinality(Lapsed(m)) \in Nat
    <2>1. IsFiniteSet(Lapsed(m)) /\ Cardinality(Lapsed(m)) \in Nat
      BY LapsedFinite, Zenon
    <2>2. /\ IsFiniteSet(Lapsed(m) \cup {b})
          /\ \/ Cardinality(Lapsed(m) \cup {b}) = Cardinality(Lapsed(m))
             \/ Cardinality(Lapsed(m) \cup {b}) = Cardinality(Lapsed(m)) + 1
      BY <2>1, FS_AddElement
    <2> QED
      BY <2>1, <2>2
  <1> HIDE DEF b
  <1>3. Cardinality(Lapsed(m)') <= Cardinality(Lapsed(m) \cup {b}) /\ IsFiniteSet(Lapsed(m)')
    BY <1>1, <1>2, FS_Subset, Zenon
  <1>4. Cardinality(Lapsed(m)') \in Nat
    BY <1>3, FS_CardinalityType, Zenon
  <1> QED
    BY <1>0, <1>2, <1>3, <1>4

\* Handling an event leaves its worker with the same message and attempt (consumer.go: Handle).
LEMMA ProcessKeeps ==
  ASSUME NEW w \in Workers, wrk \in [Workers -> Worker], ProcessOK(w) \/ ProcessFails(w) \/ deadLetter(w)
  PROVE  /\ \A v \in Workers : v # w => wrk'[v] = wrk[v]
         /\ wrk'[w].msg = wrk[w].msg /\ wrk'[w].attempt = wrk[w].attempt
         /\ wrk'[w].phase \in {"failed", "settling"}
  <1>1. wrk[w] \in Worker
    OBVIOUS
  <1>2. CASE ProcessOK(w)
    BY <1>1, <1>2 DEF ProcessOK, Worker
  <1>3. CASE ProcessFails(w)
    <2>1. CASE MustRecord(w)
      BY <1>1, <1>3, <2>1 DEF ProcessFails, Worker
    <2>2. CASE ~MustRecord(w)
      BY <1>1, <1>3, <2>2 DEF ProcessFails, Worker
    <2> QED
      BY <2>1, <2>2
  <1>4. CASE deadLetter(w)
    <2>1. \E o \in {"Term", "Nak"} : wrk' = [wrk EXCEPT ![w] = [@ EXCEPT !.phase = "settling", !.outcome = o]]
      BY <1>4, Zenon DEF deadLetter
    <2> QED
      BY <1>1, <2>1 DEF Worker
  <1> QED
    BY <1>2, <1>3, <1>4

\* The steps of a worker that handles a delivery or is about to settle one.
HandlerSteps(w) ==
    \/ wrk'[w] = wrk[w]
    \/ wrk[w].phase \notin {"handling", "failed"} /\ wrk'[w].phase \in {"idle", "advancing"}
    \/ wrk[w].phase = "idle" /\ wrk'[w].phase = "handling"
    \/ ProcessOK(w) \/ ProcessFails(w) \/ deadLetter(w) \/ Crash(w)

\* The steps of the workers, one at a time; what was recorded stays so, and faults are counted.
LEMMA HandlerShape ==
  ASSUME IInv, [Next]_vars
  PROVE  /\ \A w \in Workers : HandlerSteps(w)
         /\ \A v, w \in Workers : wrk'[v] = wrk[v] \/ wrk'[w] = wrk[w] \/ v = w
         /\ inbox \subseteq inbox' /\ deadLetters \subseteq deadLetters'
         /\ faults' = faults \/ faults' = faults + 1
  <1>0. wrk \in [Workers -> Worker] /\ \A w \in Workers : wrk[w] \in Worker
    BY DEF IInv, TypeOK
  <1>1. ASSUME UNCHANGED wrk PROVE \A w \in Workers : HandlerSteps(w)
    BY <1>1, Zenon DEF HandlerSteps
  <1>2. ASSUME NEW w \in Workers, work(w) \/ Crash(w)
        PROVE  HandlerSteps(w) /\ \A v \in Workers : v # w => wrk'[v] = wrk[v]
    <2>1. \A v \in Workers : v # w => wrk'[v] = wrk[v]
      BY <1>0, <1>2 DEF work, claim, claimNothing, advance, settle, ProcessOK, ProcessFails, deadLetter, Crash
    <2>2. ASSUME NEW m \in Msgs, claim(w, m) PROVE HandlerSteps(w)
      <3>1. wrk[w].phase = "idle" /\ (wrk' = wrk \/ wrk'[w].phase = "handling")
        BY <1>0, <2>2 DEF claim
      <3> QED
        BY <3>1, Zenon DEF HandlerSteps
    <2>3. ASSUME claimNothing(w) \/ advance(w) \/ settle(w) PROVE HandlerSteps(w)
      <3>1. wrk[w].phase \in {"idle", "advancing", "settling"} /\ wrk'[w].phase \in {"idle", "advancing"}
        BY <1>0, <2>3, IdleIsWorker DEF claimNothing, advance, settle, Worker
      <3> QED
        BY <3>1 DEF HandlerSteps
    <2> QED
      BY <1>2, <2>1, <2>2, <2>3, Zenon DEF work, HandlerSteps
  <1>3. \/ UNCHANGED wrk
        \/ \E w \in Workers : work(w) \/ Crash(w)
    BY Zenon DEF Next, Publishing, Begin, Insert, Commit, Purge, Passes, giveUp, vars
  <1>4. (\A w \in Workers : HandlerSteps(w)) /\ \A v, w \in Workers : wrk'[v] = wrk[v] \/ wrk'[w] = wrk[w] \/ v = w
    <2>1. CASE UNCHANGED wrk
      BY <1>1, <2>1, Zenon
    <2>2. ASSUME NEW w \in Workers, work(w) \/ Crash(w)
          PROVE  (\A v \in Workers : HandlerSteps(v)) /\ \A u, v \in Workers : wrk'[u] = wrk[u] \/ wrk'[v] = wrk[v] \/ u = v
      BY <1>2, <2>2, Zenon DEF HandlerSteps
    <2> QED
      BY <1>3, <2>1, <2>2, Zenon
  <1>5. inbox \subseteq inbox' /\ deadLetters \subseteq deadLetters'
    BY Zenon DEF Next, Publishing, Begin, Insert, Commit, Purge, Passes, work, claim, claimNothing, advance, settle,
                 ProcessOK, ProcessFails, deadLetter, Crash, giveUp, vars, consumer
  <1>6. faults' = faults \/ faults' = faults + 1
    BY Zenon DEF Next, Publishing, Begin, Insert, Commit, Purge, Passes, work, claim, claimNothing, advance, settle,
                 ProcessOK, ProcessFails, deadLetter, Crash, giveUp, vars, Spend
  <1> QED
    BY <1>4, <1>5, <1>6, Zenon

\* Whoever is about to settle has done what the outcome says (consumer.go: Handle).
LEMMA OutcomesStep == ASSUME IInv, [Next]_vars PROVE OutcomesTrue'
  <1>0. /\ wrk \in [Workers -> Worker] /\ (\A w \in Workers : wrk[w] \in Worker /\ OutcomeTrue(w) /\ HandlerSteps(w))
        /\ inbox \subseteq inbox' /\ deadLetters \subseteq deadLetters' /\ scenario' = scenario
    BY HandlerShape, ScenarioKept DEF IInv, TypeOK, LeaseInv
  <1>1. ASSUME NEW w \in Workers PROVE OutcomeTrue(w)'
    <2>1. CASE wrk'[w] = wrk[w] \/ wrk'[w].phase # "settling"
      BY <1>0, <2>1 DEF OutcomeTrue, EventOf
    <2>2. CASE ProcessOK(w)
      <3>1. wrk'[w].outcome = "Ack" /\ wrk'[w].msg = wrk[w].msg
        BY <1>0, <2>2 DEF ProcessOK, Worker
      <3>2. EventOf(wrk[w].msg) \in inbox'
        BY <2>2 DEF ProcessOK, Applied, consumer
      <3> QED
        BY <1>0, <3>1, <3>2 DEF OutcomeTrue, EventOf
    <2>3. CASE ProcessFails(w)
      <3>1. wrk'[w].phase = "settling" => wrk'[w].outcome = "Nak"
        BY <1>0, <2>3 DEF ProcessFails, Worker
      <3> QED
        BY <3>1 DEF OutcomeTrue
    <2>4. CASE deadLetter(w)
      <3>1. CASE /\ wrk' = [wrk EXCEPT ![w] = [@ EXCEPT !.phase = "settling", !.outcome = "Term"]]
                 /\ deadLetters' = deadLetters \cup {EventOf(wrk[w].msg)}
        <4>1. wrk'[w].outcome = "Term" /\ wrk'[w].msg = wrk[w].msg
          BY <1>0, <3>1 DEF Worker
        <4> QED
          BY <1>0, <3>1, <4>1 DEF OutcomeTrue, EventOf
      <3>2. CASE wrk' = [wrk EXCEPT ![w] = [@ EXCEPT !.phase = "settling", !.outcome = "Nak"]]
        <4>1. wrk'[w].outcome = "Nak"
          BY <1>0, <3>2 DEF Worker
        <4> QED
          BY <4>1 DEF OutcomeTrue
      <3> QED
        BY <2>4, <3>1, <3>2, Zenon DEF deadLetter
    <2>5. CASE Crash(w)
      BY <1>0, <2>1, <2>5, IdleIsWorker DEF Crash
    <2> QED
      BY <1>0, <2>1, <2>2, <2>3, <2>4, <2>5 DEF HandlerSteps
  <1> QED
    BY <1>1 DEF OutcomesTrue

\* The deliveries' counts move with a claim only.
LEMMA AttemptsShape ==
  ASSUME IInv, [Next]_vars, NEW m \in Msgs
  PROVE  \/ dlv'[m].attempts = dlv[m].attempts
         \/ dlv'[m].attempts = dlv[m].attempts + 1 /\ \E w \in Workers : Active(w, m, dlv[m].attempts)'
  <1>0. wrk \in [Workers -> Worker] /\ dlv \in [Msgs -> Dlv] /\ QueueInv
    BY DEF IInv, TypeOK
  <1>1. CASE \E w \in Workers : advance(w)
    <2>1. PICK w \in Workers : advance(w)
      BY <1>1
    <2>2. dlv'[m] = dlv[m] \/ (dlv[m].state = "none" /\ dlv'[m].attempts = 0)
      <3>1. m \in Readable => dlv[m].state = "none"
        BY DEF Readable, Stored, IInv, QueueInv, TypeOK, Message
      <3> QED
        BY <1>0, <2>1, <3>1 DEF advance, NoDlv
    <2> QED
      BY <1>0, <2>2 DEF QueueInv
  <1>2. CASE ~\E w \in Workers : advance(w)
    <2>1. DlvSteps(m)
      BY <1>2, DlvShape
    <2>2. ASSUME NEW w \in Workers, claim(w, m), dlv'[m].state = "in_flight", dlv'[m].attempts = dlv[m].attempts + 1
          PROVE  Active(w, m, dlv[m].attempts)' \/ dlv'[m].attempts = dlv[m].attempts
      <3>1. CASE msg[m].state = "purged"
        BY <1>0, <2>2, <3>1 DEF claim, Dlv
      <3>2. CASE msg[m].state # "purged"
        BY <1>0, <2>2, <3>2 DEF claim, Active
      <3> QED
        BY <3>1, <3>2
    <2> QED
      BY <2>1, <2>2, Zenon DEF DlvSteps
  <1> QED
    BY <1>1, <1>2

\* A delivery that was to be recorded and was not costs a fault (consumer.go: Handle).
LEMMA LapsesStep == ASSUME IInv, [Next]_vars PROVE LapsesPaid'
  <1>0. /\ TypeOK /\ TypeOK' /\ scenario' = scenario /\ LapsesPaid
        /\ wrk \in [Workers -> Worker] /\ \A w \in Workers : wrk[w] \in Worker
    BY ScenarioKept, TypeStep DEF IInv, TypeOK, LeaseInv, LapsesPaid
  <1>1. \A m \in Msgs : EventOf(m)' = EventOf(m)
    BY <1>0 DEF EventOf
  <1> SUFFICES ASSUME NEW m \in Msgs, ~Settled(m)' PROVE Cardinality(Lapsed(m)') <= Lapses'
    BY Zenon DEF LapsesPaid
  <1>2. ~Settled(m) /\ Cardinality(Lapsed(m)) <= Lapses
    BY <1>0, <1>1, HandlerShape, Zenon DEF LapsesPaid, Settled
  <1>3. ASSUME NEW w \in Workers, \/ Crash(w)
                                  \/ deadLetter(w) /\ Spend("deadletter")
        PROVE  Cardinality(Lapsed(m)') <= Lapses'
    <2>1. faults' = faults + 1 /\ {"crash", "deadletter"} \cap scenario.faults # {} /\ UNCHANGED dlv
      BY <1>3 DEF Crash, deadLetter, Spend
    <2>2. \A v \in Workers : v # w => wrk'[v] = wrk[v]
      BY <1>0, <1>3, ProcessKeeps DEF Crash
    <2> QED
      BY <1>0, <1>2, <2>1, <2>2, LapsePaid
  <1>4. CASE ~\E w \in Workers : Crash(w) \/ (deadLetter(w) /\ Spend("deadletter"))
    <2>1. ASSUME NEW w \in Workers, NEW a \in Nat, a >= scenario.declared, Active(w, m, a)
          PROVE  Active(w, m, a)'
      <3>1. HandlerSteps(w) /\ wrk[w].phase \in {"handling", "failed"} /\ wrk[w].msg = m /\ wrk[w].attempt = a
        BY <2>1, HandlerShape, Zenon DEF Active
      <3>2. CASE wrk'[w] = wrk[w]
        BY <3>1, <3>2 DEF Active
      <3>3. CASE ProcessOK(w)
        <4>1. EventOf(m) \in inbox'
          BY <3>1, <3>3 DEF ProcessOK, Applied, consumer
        <4> QED
          BY <1>1, <4>1 DEF Settled
      <3>4. CASE ProcessFails(w)
        <4>1. MustRecord(w)
          BY <2>1, <3>1 DEF MustRecord
        <4> QED
          BY <1>0, <3>1, <3>4, <4>1 DEF ProcessFails, Active, Worker
      <3>5. CASE deadLetter(w)
        <4>1. ~Spend("deadletter")
          BY <1>4, <3>5, Zenon
        <4>2. EventOf(m) \in deadLetters'
          BY <3>1, <3>5, <4>1, Zenon DEF deadLetter
        <4> QED
          BY <1>1, <4>2 DEF Settled
      <3> QED
        BY <1>4, <3>1, <3>2, <3>3, <3>4, <3>5 DEF HandlerSteps
    <2> QED
      BY <1>0, <1>2, <2>1, AttemptsShape, HandlerShape, LapsesKept, Zenon
  <1> QED
    BY <1>3, <1>4, Zenon

\* A delivery ends with its record, or with the last of its deliveries (pgqueue.go: settle, giveUp).
LEMMA EndsStep == ASSUME IInv, [Next]_vars PROVE EndsUsedUp'
  <1>0. /\ dlv \in [Msgs -> Dlv] /\ wrk \in [Workers -> Worker] /\ MaxDeliver \in Nat /\ scenario' = scenario
        /\ EndsUsedUp /\ OutcomesTrue /\ QueueInv
        /\ \A w \in Workers : wrk[w] \in Worker /\ wrk[w].msg \in Msgs /\ wrk[w].attempt \in 0..MaxDeliver
        /\ \A m \in Msgs : dlv[m] \in Dlv /\ dlv[m].attempts \in 0..MaxDeliver
    BY LeaseNumbers, ScenarioKept DEF IInv, LeaseInv, EndsUsedUp, OutcomesTrue
  <1>1. \A m \in Msgs : Settled(m) => Settled(m)'
    BY <1>0, HandlerShape DEF Settled, EventOf
  <1> SUFFICES ASSUME NEW m \in Msgs, dlv'[m].state = "gone", msg'[m].state = "stored", ~Settled(m)'
               PROVE  dlv'[m].attempts = MaxDeliver
    BY Zenon DEF EndsUsedUp
  <1>2. CASE dlv[m].state = "gone"
    <2>1. msg[m].state = "stored"
      BY <1>0, <1>2, BusShape DEF MsgSteps, QueueInv
    <2>2. dlv[m].attempts = MaxDeliver
      BY <1>0, <1>1, <1>2, <2>1 DEF EndsUsedUp
    <2>3. dlv'[m].attempts = dlv[m].attempts
      <3>1. TypeOK' /\ dlv'[m].attempts \in 0..MaxDeliver
        BY TypeStep DEF TypeOK, Dlv
      <3> QED
        BY <1>0, <2>2, <3>1, AttemptsShape
    <2> QED
      BY <2>2, <2>3
  <1>3. CASE dlv[m].state # "gone"
    <2>1. \/ \E w \in Workers : settle(w) /\ wrk[w].msg = m /\ LeaseHeld(w) /\ ~(wrk[w].outcome = "Nak" /\ wrk[w].attempt < MaxDeliver)
          \/ giveUp
      <3>1. ASSUME NEW w \in Workers, settle(w) PROVE wrk[w].msg = m /\ LeaseHeld(w) /\ ~(wrk[w].outcome = "Nak" /\ wrk[w].attempt < MaxDeliver)
        BY <1>0, <1>3, <3>1 DEF settle, Dlv
      <3>2. ASSUME NEW w \in Workers, NEW k \in Msgs, claim(w, k) PROVE FALSE
        <4>1. msg' = msg /\ (k # m => dlv'[m] = dlv[m])
          BY <1>0, <3>2 DEF claim, bus
        <4>2. msg[k].state # "purged" => dlv'[k].state = "in_flight"
          BY <1>0, <3>2 DEF claim
        <4> QED
          BY <1>3, <4>1, <4>2
      <3>3. ASSUME NEW k \in Msgs, Purge(k) PROVE FALSE
        <4>1. msg'[k].state = "purged" /\ (k # m => dlv'[m] = dlv[m])
          BY <1>0, <3>3 DEF Purge, IInv, TypeOK, Message
        <4> QED
          BY <1>3, <4>1
      <3>4. ASSUME NEW k \in Msgs, Passes(k) PROVE FALSE
        BY <1>0, <1>3, <3>4 DEF Passes, Dlv
      <3>5. ASSUME NEW w \in Workers, advance(w) PROVE FALSE
        <4>1. dlv'[m] = dlv[m] \/ dlv'[m].state = "ready"
          BY <1>0, <3>5, Zenon DEF advance, NoDlv
        <4> QED
          BY <1>3, <4>1
      <3>6. dlv' # dlv
        BY <1>3
      <3> QED
        BY <3>1, <3>2, <3>3, <3>4, <3>5, <3>6, Zenon
           DEF Next, Publishing, Begin, Insert, Commit, work, claimNothing, ProcessOK, ProcessFails, deadLetter, Crash, vars
    <2>2. ASSUME NEW w \in Workers, settle(w), wrk[w].msg = m, LeaseHeld(w), ~(wrk[w].outcome = "Nak" /\ wrk[w].attempt < MaxDeliver)
          PROVE  dlv'[m].attempts = MaxDeliver
      <3>1. wrk[w].phase = "settling" /\ dlv'[m].attempts = dlv[m].attempts /\ dlv[m].attempts = wrk[w].attempt
        BY <1>0, <2>2 DEF settle, LeaseHeld, Dlv
      <3>2. wrk[w].outcome = "Nak"
        BY <1>0, <1>1, <2>2, <3>1 DEF OutcomesTrue, OutcomeTrue, Settled
      <3> QED
        BY <1>0, <2>2, <3>1, <3>2
    <2>3. CASE giveUp
      <3>1. m \in Exhausted /\ dlv'[m].attempts = dlv[m].attempts
        BY <1>0, <1>3, <2>3 DEF giveUp, Dlv
      <3> QED
        BY <1>0, <3>1 DEF Exhausted
    <2> QED
      BY <2>1, <2>2, <2>3
  <1> QED
    BY <1>2, <1>3

\* Every step keeps LeaseInv.
LEMMA LeaseStep == ASSUME IInv, [Next]_vars PROVE LeaseInv'
  BY OutcomesStep, LapsesStep, EndsStep DEF LeaseInv, OutcomesTrue, LapsesPaid, EndsUsedUp

-----------------------------------------------------------------------------
(* Ordered subscriptions.                                                  *)

Calm == scenario.ordered /\ {"stall", "retention"} \cap scenario.faults = {}

\* The parts of OrderInv.
HandlersHold ==
    /\ \A w \in Workers : \A m \in Msgs : Handling(w, m) => LeaseHeld(w) /\ ~dlv[m].expired
    /\ \A v, w \in Workers : \A m \in Msgs : Handling(v, m) /\ Handling(w, m) => v = w
ClaimedAfter ==
    /\ \A m \in Msgs : msg[m].state # "purged"
    /\ \A m \in Msgs : dlv[m].attempts > 0 => \A k \in msg[m].before : dlv[k].state = "gone"
    /\ \A i \in DOMAIN effects : dlv[effects[i]].attempts > 0

\* What an ordered subscription claims has nothing unfinished before it (pgqueue.go: claimOrdered).
LEMMA ClaimsInOrder ==
  ASSUME IInv, Calm, \A k \in Msgs : msg[k].state # "purged",
         NEW w \in Workers, NEW m \in Msgs, claim(w, m), NEW k \in msg[m].before
  PROVE  dlv[k].state = "gone"
  <1>0. /\ k \in Msgs /\ msg[k].state = "stored" /\ msg[k].xid < msg[m].xid
        /\ msg[m].state # "begun" => msg[k].seq < msg[m].seq
    BY DEF IInv, TypeOK, Message, BusInv
  <1>1. /\ dlv[m].state \in {"ready", "in_flight"}
        /\ \A l \in Queued : msg[m].seq <= msg[l].seq
    BY DEF claim, Claimable, Due, Ready, Expired, Calm
  <1>2. msg[m].state = "stored" /\ msg[m].xid <= pos
    BY <1>1 DEF IInv, QueueInv
  <1>3. /\ pos \in Nat /\ msg[m].xid \in Nat /\ msg[k].xid \in Nat /\ msg[m].seq \in Nat /\ msg[k].seq \in Nat
        /\ dlv[k].state \in {"none", "ready", "in_flight", "gone"}
    BY <1>0 DEF IInv, TypeOK, Message, Dlv
  <1>4. dlv[k].state # "none"
    BY <1>0, <1>2, <1>3 DEF IInv, QueueInv, NothingSkipped
  <1>5. k \notin Queued
    BY <1>0, <1>1, <1>2, <1>3
  <1> QED
    BY <1>0, <1>3, <1>4, <1>5 DEF Queued

\* A handler in a calm ordered subscription stays the only one, and its lease lasts.
LEMMA HandlersStep ==
  ASSUME IInv, [Next]_vars, Calm, HandlersHold, \A k \in Msgs : msg[k].state # "purged"
  PROVE  HandlersHold'
  <1>0. /\ dlv \in [Msgs -> Dlv] /\ wrk \in [Workers -> Worker] /\ msg \in [Msgs -> Message]
        /\ \A w \in Workers : wrk[w] \in Worker /\ wrk[w].msg \in Msgs
        /\ \A m \in Msgs : dlv[m] \in Dlv
    BY DEF IInv, TypeOK, Worker
  \* It is enough that no other handler appears and that the delivery of a handler that goes on is left alone.
  <1>1. ASSUME \A w \in Workers, m \in Msgs : Handling(w, m)' =>
                 Handling(w, m) /\ wrk'[w].attempt = wrk[w].attempt /\ dlv'[m] = dlv[m]
        PROVE  HandlersHold'
    <2>1. ASSUME NEW w \in Workers, NEW m \in Msgs, Handling(w, m)' PROVE LeaseHeld(w)' /\ ~dlv'[m].expired
      <3>1. /\ wrk'[w].msg = m /\ wrk[w].msg = m /\ dlv'[m] = dlv[m] /\ wrk'[w].attempt = wrk[w].attempt
            /\ LeaseHeld(w) /\ ~dlv[m].expired
        BY <1>1, <2>1 DEF Handling, HandlersHold
      <3> QED
        BY <3>1 DEF LeaseHeld
    <2> QED
      BY <1>1, <2>1 DEF HandlersHold
  <1>3. ASSUME NEW m \in Msgs, Publishing(m) \/ Purge(m) \/ Passes(m) PROVE HandlersHold'
    <2>1. ~Purge(m)
      BY DEF Purge, Spend, Calm
    <2>2. CASE Publishing(m)
      <3>1. UNCHANGED <<dlv, wrk>>
        BY <2>2 DEF Publishing, Begin, Insert, Commit
      <3> QED
        BY <1>1, <3>1 DEF Handling
    <2>3. CASE Passes(m)
      <3>1. wrk' = wrk /\ \A k \in Msgs : k # m => dlv'[k] = dlv[k]
        BY <1>0, <2>3 DEF Passes
      <3>2. \A w \in Workers : ~Handling(w, m)
        <4>1. ~Spend("stall")
          BY DEF Spend, Calm
        <4> QED
          BY <2>3, <4>1 DEF Passes, HandlersHold, LeaseHeld, Handling
      <3> QED
        BY <1>1, <3>1, <3>2 DEF Handling
    <2> QED
      BY <1>3, <2>1, <2>2, <2>3
  <1>4. ASSUME NEW w \in Workers, NEW m \in Msgs, claim(w, m) PROVE HandlersHold'
    <2>1. /\ \A k \in Msgs : k # m => dlv'[k] = dlv[k]
          /\ dlv'[m].state = "in_flight" /\ dlv'[m].attempts = dlv[m].attempts + 1 /\ ~dlv'[m].expired
          /\ \A v \in Workers : v # w => wrk'[v] = wrk[v]
          /\ wrk'[w].msg = m /\ wrk'[w].attempt = dlv[m].attempts + 1
      BY <1>0, <1>4 DEF claim
    <2>2. \A v \in Workers : ~Handling(v, m)
      BY <1>4 DEF claim, Claimable, Due, Ready, Expired, HandlersHold, LeaseHeld, Handling
    <2>3. ASSUME NEW v \in Workers, NEW k \in Msgs, Handling(v, k)'
          PROVE  \/ v = w /\ k = m
                 \/ v # w /\ k # m /\ Handling(v, k) /\ wrk'[v] = wrk[v] /\ dlv'[k] = dlv[k]
      BY <2>1, <2>2, <2>3 DEF Handling
    <2>4. ASSUME NEW v \in Workers, NEW k \in Msgs, Handling(v, k)' PROVE LeaseHeld(v)' /\ ~dlv'[k].expired
      <3>1. CASE v = w /\ k = m
        BY <2>1, <3>1 DEF LeaseHeld
      <3>2. CASE Handling(v, k) /\ wrk'[v] = wrk[v] /\ dlv'[k] = dlv[k]
        BY <3>2 DEF HandlersHold, Handling, LeaseHeld
      <3> QED
        BY <2>3, <2>4, <3>1, <3>2
    <2> QED
      BY <2>3, <2>4 DEF HandlersHold
  <1>5. ASSUME NEW w \in Workers, claimNothing(w) \/ Crash(w) PROVE HandlersHold'
    <2>1. /\ UNCHANGED dlv /\ wrk'[w].phase \in {"idle", "advancing"}
          /\ \A v \in Workers : v # w => wrk'[v] = wrk[v]
      BY <1>0, <1>5, IdleIsWorker DEF claimNothing, Crash, Worker
    <2> QED
      BY <1>1, <2>1 DEF Handling
  <1>6. ASSUME NEW w \in Workers, advance(w) PROVE HandlersHold'
    <2>1. wrk'[w].phase = "idle" /\ \A v \in Workers : v # w => wrk'[v] = wrk[v]
      BY <1>0, <1>6, IdleIsWorker DEF advance
    <2>2. ASSUME NEW m \in Msgs, dlv[m].state = "in_flight" PROVE dlv'[m] = dlv[m]
      <3>1. m \notin Readable
        BY <2>2, SMTT(30) DEF IInv, QueueInv, Readable, Stored, TypeOK, Message
      <3> QED
        BY <1>0, <1>6, <3>1 DEF advance
    <2>3. ASSUME NEW v \in Workers, NEW m \in Msgs, Handling(v, m)'
          PROVE  Handling(v, m) /\ wrk'[v] = wrk[v] /\ dlv'[m] = dlv[m]
      <3>1. Handling(v, m) /\ wrk'[v] = wrk[v]
        BY <2>1, <2>3 DEF Handling
      <3> QED
        BY <2>2, <3>1 DEF HandlersHold, LeaseHeld, Handling
    <2> QED
      BY <1>1, <2>3
  <1>7. ASSUME NEW w \in Workers, settle(w) PROVE HandlersHold'
    <2>1. /\ wrk'[w].phase = "idle" /\ \A v \in Workers : v # w => wrk'[v] = wrk[v]
          /\ \A k \in Msgs : k # wrk[w].msg => dlv'[k] = dlv[k]
          /\ Handling(w, wrk[w].msg)
      BY <1>0, <1>7, IdleIsWorker DEF settle, Handling
    <2>2. ASSUME NEW v \in Workers, NEW m \in Msgs, Handling(v, m)'
          PROVE  Handling(v, m) /\ wrk'[v] = wrk[v] /\ dlv'[m] = dlv[m]
      <3>1. v # w /\ Handling(v, m) /\ wrk'[v] = wrk[v]
        BY <2>1, <2>2 DEF Handling
      <3>2. m # wrk[w].msg
        BY <1>0, <2>1, <3>1 DEF HandlersHold
      <3> QED
        BY <2>1, <3>1, <3>2
    <2> QED
      BY <1>1, <2>2
  <1>8. ASSUME NEW w \in Workers, ProcessOK(w) \/ ProcessFails(w) \/ deadLetter(w) PROVE HandlersHold'
    <2>1. UNCHANGED dlv /\ wrk[w].phase \in {"handling", "failed"}
      BY <1>8 DEF ProcessOK, ProcessFails, deadLetter
    <2>2. /\ \A v \in Workers : v # w => wrk'[v] = wrk[v]
          /\ wrk'[w].msg = wrk[w].msg /\ wrk'[w].attempt = wrk[w].attempt
      BY <1>0, <1>8, ProcessKeeps
    <2> QED
      BY <1>1, <2>1, <2>2 DEF Handling
  <1>9. CASE giveUp
    <2>1. wrk' = wrk /\ \A k \in Msgs : dlv'[k] = dlv[k] \/ dlv[k].expired
      BY <1>0, <1>9 DEF giveUp, Exhausted
    <2> QED
      BY <1>1, <2>1 DEF Handling, HandlersHold
  <1>10. CASE UNCHANGED vars
    BY <1>1, <1>10 DEF vars, Handling
  <1> QED
    BY <1>3, <1>4, <1>5, <1>6, <1>7, <1>8, <1>9, <1>10 DEF Next, work
\* Once claimed, a message of a calm ordered subscription has nothing unfinished before it, and it was claimed if it
\* took effect; so effects follow the publishing order.
LEMMA AfterStep ==
  ASSUME IInv, [Next]_vars, Calm, HandlersHold, ClaimedAfter, OrderedEffects
  PROVE  ClaimedAfter' /\ OrderedEffects'
  <1>0. /\ \A m \in Msgs : dlv[m] \in Dlv /\ dlv[m].attempts \in Nat /\ msg[m] \in Message /\ msg[m].xid \in Nat
        /\ dlv \in [Msgs -> Dlv] /\ effects \in Seq(Msgs) /\ pos \in Nat
        /\ \A i \in DOMAIN effects : effects[i] \in Msgs
        /\ \A m \in Msgs : \A k \in msg[m].before : k \in Msgs
        /\ QueueInv /\ BusInv /\ scenario' = scenario
    BY ScenarioKept, DeliveryConstants DEF IInv, TypeOK, Dlv, Message
  <1>1. \A m \in Msgs : msg'[m].state # "purged"
    BY BusShape DEF MsgSteps, ClaimedAfter, Calm
  <1>2. ASSUME NEW m \in Msgs, dlv[m].state # "none"
        PROVE  /\ msg'[m] = msg[m]
               /\ dlv'[m].attempts # dlv[m].attempts => \E w \in Workers : claim(w, m)
               /\ dlv'[m].attempts >= dlv[m].attempts
               /\ dlv[m].state = "gone" => dlv'[m].state = "gone"
    <2>1. msg[m].state = "stored" /\ msg[m].xid <= pos
      BY <1>0, <1>2 DEF QueueInv, ClaimedAfter
    <2>2. msg'[m] = msg[m]
      BY <2>1, BusShape DEF MsgSteps, Calm
    <2>3. CASE \E w \in Workers : advance(w)
      <3>1. m \notin Readable
        BY <1>0, <2>1 DEF Readable
      <3>2. dlv'[m] = dlv[m]
        BY <1>0, <2>3, <3>1 DEF advance
      <3> QED
        BY <1>0, <2>2, <3>2
    <2>4. CASE ~\E w \in Workers : advance(w)
      <3>1. DlvSteps(m)
        BY <2>4, DlvShape
      <3> QED
        BY <1>0, <2>2, <3>1 DEF DlvSteps
    <2> QED
      BY <2>3, <2>4
  <1>3. ASSUME NEW m \in Msgs, dlv[m].state = "none" PROVE dlv'[m].attempts = 0
    <2>0. dlv[m].attempts = 0
      BY <1>0, <1>3 DEF QueueInv
    <2>1. CASE \E w \in Workers : advance(w)
      BY <1>0, <2>0, <2>1, AdvanceShape, Zenon DEF IInv, NoDlv
    <2>2. CASE ~\E w \in Workers : advance(w)
      <3>1. DlvSteps(m)
        BY <2>2, DlvShape
      <3> QED
        BY <1>3, <2>0, <3>1 DEF DlvSteps
    <2> QED
      BY <2>1, <2>2
  <1>4. ASSUME NEW m \in Msgs, dlv'[m].attempts > 0, NEW k \in msg'[m].before PROVE dlv'[k].state = "gone"
    <2>1. dlv[m].state # "none"
      BY <1>3, <1>4
    <2>2. k \in msg[m].before /\ k \in Msgs
      BY <1>0, <1>2, <2>1
    <2>3. dlv[k].state = "gone"
      <3>1. CASE dlv[m].attempts > 0
        BY <2>2, <3>1 DEF ClaimedAfter
      <3>2. CASE \E w \in Workers : claim(w, m)
        BY <2>2, <3>2, ClaimsInOrder DEF ClaimedAfter
      <3> QED
        BY <1>0, <1>2, <1>4, <2>1, <3>1, <3>2
    <2> QED
      BY <1>2, <2>2, <2>3
  <1>5. ASSUME NEW i \in DOMAIN effects
        PROVE  /\ dlv'[effects[i]].attempts > 0 /\ msg'[effects[i]] = msg[effects[i]]
               /\ \A k \in msg'[effects[i]].before : dlv[k].state = "gone"
    <2>1. effects[i] \in Msgs /\ dlv[effects[i]].attempts > 0 /\ dlv[effects[i]].attempts \in Nat
      BY <1>0 DEF ClaimedAfter
    <2>2. dlv[effects[i]].state # "none"
      BY <1>0, <2>1 DEF QueueInv
    <2>3. dlv'[effects[i]].attempts >= dlv[effects[i]].attempts /\ msg'[effects[i]] = msg[effects[i]]
      BY <1>2, <2>1, <2>2
    <2>4. dlv'[effects[i]].attempts \in Nat
      BY <2>1, TypeStep DEF TypeOK, Dlv
    <2> QED
      BY <2>1, <2>3, <2>4 DEF ClaimedAfter
  <1>6. CASE UNCHANGED effects
    <2>1. \A i \in DOMAIN effects' : dlv'[effects'[i]].attempts > 0
      BY <1>5, <1>6
    <2>2. OrderedEffects'
      BY <1>0, <1>5, <1>6 DEF OrderedEffects, Calm
    <2> QED
      BY <1>1, <1>4, <2>1, <2>2 DEF ClaimedAfter
  <1>7. ASSUME NEW w \in Workers, ProcessOK(w), ~UNCHANGED effects PROVE ClaimedAfter' /\ OrderedEffects'
    <2> DEFINE m == wrk[w].msg
    <2>1. /\ effects' = Append(effects, m) /\ m \in Msgs /\ UNCHANGED <<msg, dlv>> /\ Handling(w, m)
      BY <1>7 DEF ProcessOK, consumer, bus, Handling, IInv, TypeOK, Worker
    <2>2. dlv[m].state = "in_flight" /\ dlv[m].attempts > 0
      BY <1>0, <2>1 DEF HandlersHold, LeaseHeld, QueueInv
    <2>3. /\ DOMAIN effects' = 1..(Len(effects) + 1) /\ DOMAIN effects = 1..Len(effects) /\ Len(effects) \in Nat
          /\ effects'[Len(effects) + 1] = m
          /\ \A i \in 1..Len(effects) : effects'[i] = effects[i]
      BY <1>0, <2>1
    <2> HIDE DEF m
    <2>4. \A i \in DOMAIN effects' : dlv'[effects'[i]].attempts > 0
      BY <1>5, <2>1, <2>2, <2>3
    <2>5. ASSUME NEW i \in DOMAIN effects', NEW j \in DOMAIN effects', i < j
          PROVE  effects'[j] \notin msg'[effects'[i]].before
      <3>1. i \in DOMAIN effects /\ effects'[i] = effects[i]
        BY <2>3, <2>5
      <3>2. CASE j = Len(effects) + 1
        BY <1>5, <2>2, <2>3, <3>1, <3>2
      <3>3. CASE j # Len(effects) + 1
        <4>1. j \in DOMAIN effects /\ effects'[j] = effects[j]
          BY <2>3, <2>5, <3>3
        <4>2. effects[j] \notin msg[effects[i]].before
          BY <2>5, <3>1, <4>1 DEF OrderedEffects, Calm
        <4> QED
          BY <2>1, <3>1, <4>1, <4>2
      <3> QED
        BY <3>2, <3>3
    <2>6. OrderedEffects'
      BY <2>5 DEF OrderedEffects
    <2> QED
      BY <1>1, <1>4, <2>4, <2>6 DEF ClaimedAfter
  <1>8. UNCHANGED effects \/ \E w \in Workers : ProcessOK(w)
    BY Zenon DEF Next, Publishing, Begin, Insert, Commit, Purge, Passes, work, claim, claimNothing, advance, settle,
                 ProcessFails, deadLetter, Crash, giveUp, vars, consumer
  <1> QED
    BY <1>6, <1>7, <1>8

\* Every step keeps OrderInv.
LEMMA OrderStep == ASSUME IInv, [Next]_vars PROVE OrderInv'
  <1>1. scenario' = scenario
    BY ScenarioKept
  <1>2. CASE Calm
    <2>1. HandlersHold /\ ClaimedAfter /\ OrderedEffects
      BY <1>2 DEF IInv, OrderInv, Calm, HandlersHold, ClaimedAfter
    <2>2. HandlersHold'
      BY <1>2, <2>1, HandlersStep DEF ClaimedAfter
    <2>3. ClaimedAfter' /\ OrderedEffects'
      BY <1>2, <2>1, AfterStep
    <2> QED
      BY <2>2, <2>3 DEF OrderInv, HandlersHold, ClaimedAfter
  <1>3. CASE ~Calm
    BY <1>1, <1>3 DEF OrderInv, Calm
  <1> QED
    BY <1>2, <1>3

-----------------------------------------------------------------------------
\* Every step keeps the inductive invariant.
LEMMA StepIInv == ASSUME IInv, [Next]_vars PROVE IInv'
  BY TypeStep, BusStep, QueueStep, EffectStep, LeaseStep, OrderStep DEF IInv

\* The inductive invariant holds in every state of every behaviour.
THEOREM Inductive == Spec => []IInv
  BY InitIInv, StepIInv, PTL DEF Spec

\* Rows, workers and the read position keep their types, and no delivery is claimed more often than MaxDeliver
\* (pgqueue.go: claim, settle).
THEOREM TypesKept == Spec => []TypeOK
  <1>1. IInv => TypeOK
    BY DEF IInv
  <1> QED
    BY Inductive, <1>1, PTL

\* For any number of concurrent inserts, however their IDs, sequence numbers and commits interleave, the read
\* position passes no message that is still to commit or to be queued (pgqueue.go: advance).
THEOREM NoMessageSkipped == Spec => []NothingSkipped
  <1>1. IInv => NothingSkipped
    BY DEF IInv, QueueInv
  <1> QED
    BY Inductive, <1>1, PTL

\* For any number of workers, redeliveries, stalls and crashes an event takes effect at most once (consumer.go:
\* process).
THEOREM EffectsHappenOnce == Spec => []EffectOnce
  <1>1. IInv => EffectOnce
    BY DEF IInv
  <1> QED
    BY Inductive, <1>1, PTL

\* A message that ended without its record has lapsed with every delivery from the declared limit to the stored one.
LEMMA EndsPaid == ASSUME IInv PROVE HandledOrDead
  <1>0. /\ scenario.declared \in Nat /\ MaxDeliver \in Nat /\ Lapses \in Nat
    BY LeaseNumbers DEF IInv
  <1>1. ASSUME NEW m \in Msgs, dlv[m].state = "gone", msg[m].state = "stored", ~\E w \in Workers : Handling(w, m), ~Settled(m)
        PROVE  dlv[m].attempts = MaxDeliver /\ scenario.declared + Lapses > MaxDeliver
    <2>1. dlv[m].attempts = MaxDeliver /\ Cardinality(Lapsed(m)) <= Lapses
      BY <1>1, Zenon DEF IInv, LeaseInv
    <2>2. Lapsed(m) = scenario.declared..MaxDeliver
      <3>1. \A w \in Workers, a \in scenario.declared..MaxDeliver : ~Active(w, m, a)
        BY <1>1, Zenon DEF Active, Handling
      <3> QED
        BY <2>1, <3>1, Zenon DEF Lapsed
    <2>3. Cardinality(scenario.declared..MaxDeliver) =
            IF scenario.declared > MaxDeliver THEN 0 ELSE MaxDeliver - scenario.declared + 1
      <3>1. scenario.declared \in Int /\ MaxDeliver \in Int
        BY <1>0
      <3> QED
        BY <3>1, FS_Interval, Zenon
    <2> QED
      BY <1>0, <2>1, <2>2, <2>3
  <1> QED
    BY <1>1, Zenon DEF HandledOrDead, Settled

\* For any number of messages, workers and faults and any two limits, a delivery ends unrecorded only when all of its
\* deliveries are used up and each one that was to be recorded met a fault of its own: none is lost without a fault
\* while the consumer declares no more deliveries than the durable has (consumer.go: Handle; pgqueue.go: settle, giveUp).
THEOREM EndsAreRecorded == Spec => []HandledOrDead
  <1>1. IInv => HandledOrDead
    BY EndsPaid
  <1> QED
    BY Inductive, <1>1, PTL

\* An ordered subscription's effects follow the publishing order, with any number of instances and any handler
\* errors, dead letters and crashes, while no handler outlives its lease (pgqueue.go: claimOrdered).
THEOREM EffectsFollowOrder == Spec => []OrderedEffects
  <1>1. IInv => OrderedEffects
    BY DEF IInv, OrderInv, OrderedEffects
  <1> QED
    BY Inductive, <1>1, PTL

-----------------------------------------------------------------------------
(* What ended was queued: what a composition with a producer needs.        *)

\* A recorded dead letter is not handled again.
Recorded(m) ==
    \/ dlv[m].state = "gone"
    \/ \E w \in Workers : wrk[w].phase = "settling" /\ wrk[w].outcome = "Term" /\ wrk[w].msg = m

\* No worker dies, every dead letter can be written, and the consumer declares no more deliveries than the durable has.
Reliable == {"crash", "deadletter"} \cap scenario.faults = {} /\ scenario.declared <= MaxDeliver

EndedInv ==
    /\ \A w \in Workers, m \in Msgs : Handling(w, m) => dlv[m].state # "none"
    /\ \A e \in inbox \cup deadLetters : \E m \in Msgs : EventOf(m) = e /\ dlv[m].state # "none"
    /\ Calm /\ Reliable => \A e \in deadLetters : \E m \in Msgs : EventOf(m) = e /\ Recorded(m)

\* Nothing has ended at first.
LEMMA InitEnded == Init => EndedInv
  <1> SUFFICES ASSUME Init PROVE EndedInv
    OBVIOUS
  <1>1. \A w \in Workers, m \in Msgs : ~Handling(w, m)
    BY IdleIsWorker DEF Init, Handling
  <1> QED
    BY <1>1 DEF Init, EndedInv

\* A delivery, once queued, stays or is gone for good.
LEMMA QueuedStays ==
  ASSUME IInv, [Next]_vars, NEW m \in Msgs, dlv[m].state # "none"
  PROVE  dlv'[m].state # "none" /\ (dlv[m].state = "gone" => dlv'[m].state = "gone")
  <1>0. dlv \in [Msgs -> Dlv] /\ TypeOK /\ pos \in Nat /\ msg[m].xid \in Nat /\ QueueInv
    BY DEF IInv, TypeOK, Message
  <1>1. CASE \E w \in Workers : advance(w)
    <2>1. m \notin Readable
      BY <1>0 DEF Readable, Stored, QueueInv
    <2> QED
      BY <1>0, <1>1, <2>1, AdvanceShape
  <1>2. CASE ~\E w \in Workers : advance(w)
    <2>1. DlvSteps(m)
      BY <1>2, DlvShape
    <2> QED
      BY <2>1 DEF DlvSteps
  <1> QED
    BY <1>1, <1>2

\* Whoever handles a delivery did so before, or claims it now; whoever has recorded a dead letter settles it.
LEMMA HandlingShape ==
  ASSUME IInv, [Next]_vars, NEW w \in Workers
  PROVE  /\ \A m \in Msgs : Handling(w, m)' => Handling(w, m) \/ claim(w, m)
         /\ wrk[w].phase = "settling" => wrk'[w] = wrk[w] \/ settle(w) \/ Crash(w)
  <1>0. wrk \in [Workers -> Worker] /\ \A v \in Workers : wrk[v] \in Worker
    BY DEF IInv, TypeOK
  <1>1. ASSUME NEW v \in Workers, work(v) \/ Crash(v), v # w PROVE wrk'[w] = wrk[w]
    BY <1>0, <1>1 DEF work, claim, claimNothing, advance, settle, ProcessOK, ProcessFails, deadLetter, Crash
  <1>2. CASE wrk'[w] = wrk[w]
    BY <1>2 DEF Handling
  <1>3. CASE work(w) \/ Crash(w)
    <2>1. ASSUME NEW m \in Msgs, claim(w, m)
          PROVE  wrk[w].phase # "settling" /\ \A k \in Msgs : Handling(w, k)' => Handling(w, k) \/ k = m
      BY <1>0, <2>1 DEF claim, Handling
    <2>2. ASSUME claimNothing(w) \/ ProcessOK(w) \/ ProcessFails(w) \/ deadLetter(w)
          PROVE  wrk[w].phase # "settling" /\ \A k \in Msgs : Handling(w, k)' => Handling(w, k)
      <3>1. /\ wrk[w].phase \in {"idle", "handling", "failed"} /\ wrk'[w].msg = wrk[w].msg
            /\ wrk[w].phase = "idle" => wrk'[w].phase = "advancing"
        BY <1>0, <2>2, ZenonT(30) DEF claimNothing, ProcessOK, ProcessFails, deadLetter, Worker
      <3> QED
        BY <3>1 DEF Handling
    <2>3. ASSUME advance(w) \/ settle(w) \/ Crash(w)
          PROVE  /\ wrk[w].phase = "settling" => settle(w) \/ Crash(w)
                 /\ \A k \in Msgs : ~Handling(w, k)'
      BY <1>0, <2>3, IdleIsWorker DEF advance, settle, Crash, Handling
    <2> QED
      BY <1>3, <2>1, <2>2, <2>3 DEF work
  <1>4. wrk' = wrk \/ \E v \in Workers : work(v) \/ Crash(v)
    BY Zenon DEF Next, Publishing, Begin, Insert, Commit, Purge, Passes, giveUp, vars
  <1> QED
    BY <1>1, <1>2, <1>3, <1>4

\* Every step keeps EndedInv.
LEMMA EndedStep == ASSUME IInv, [Next]_vars, EndedInv PROVE EndedInv'
  <1>0. /\ scenario' = scenario /\ dlv \in [Msgs -> Dlv] /\ wrk \in [Workers -> Worker]
        /\ \A w \in Workers : wrk[w] \in Worker /\ wrk[w].msg \in Msgs
    BY ScenarioKept DEF IInv, TypeOK, Worker
  <1>1. \A m \in Msgs : EventOf(m)' = EventOf(m)
    BY <1>0 DEF EventOf
  <1>2. ASSUME NEW w \in Workers, NEW m \in Msgs, Handling(w, m)' PROVE dlv'[m].state # "none"
    <2>1. dlv[m].state # "none"
      BY <1>2, HandlingShape DEF EndedInv, claim, Claimable, Due, Ready, Expired
    <2> QED
      BY <2>1, QueuedStays
  <1>3. ASSUME NEW e \in inbox' \cup deadLetters', e \notin inbox \cup deadLetters
        PROVE  \E w \in Workers : EventOf(wrk[w].msg) = e /\ Handling(w, wrk[w].msg)
    <2>1. UNCHANGED <<inbox, deadLetters>> \/ \E w \in Workers : ProcessOK(w) \/ deadLetter(w)
      BY Zenon DEF Next, Publishing, Begin, Insert, Commit, Purge, Passes, work, claim, claimNothing, advance, settle,
                   ProcessFails, Crash, giveUp, vars, consumer
    <2>2. PICK w \in Workers : ProcessOK(w) \/ deadLetter(w)
      BY <1>3, <2>1
    <2> QED
      BY <1>3, <2>2 DEF ProcessOK, deadLetter, Handling, consumer
  <1>4. ASSUME NEW e \in inbox' \cup deadLetters' PROVE \E m \in Msgs : EventOf(m) = e /\ dlv'[m].state # "none"
    <2>1. CASE e \in inbox \cup deadLetters
      BY <2>1, QueuedStays DEF EndedInv
    <2>2. CASE e \notin inbox \cup deadLetters
      BY <1>0, <1>3, <2>2, QueuedStays DEF EndedInv
    <2> QED
      BY <2>1, <2>2
  <1>5. ASSUME Calm, Reliable, NEW e \in deadLetters' PROVE \E m \in Msgs : EventOf(m) = e /\ Recorded(m)'
    <2>1. ASSUME NEW m \in Msgs, Recorded(m) PROVE Recorded(m)'
      <3>1. CASE dlv[m].state = "gone"
        BY <3>1, QueuedStays DEF Recorded
      <3>2. ASSUME NEW w \in Workers, wrk[w].phase = "settling", wrk[w].outcome = "Term", wrk[w].msg = m
            PROVE  Recorded(m)'
        <4>1. CASE wrk'[w] = wrk[w]
          BY <3>2, <4>1 DEF Recorded
        <4>2. CASE settle(w)
          <5>1. Handling(w, m)
            BY <3>2 DEF Handling
          <5>2. LeaseHeld(w)
            BY <1>5, <5>1 DEF IInv, OrderInv, Calm
          <5>3. dlv'[m].state = "gone"
            BY <1>0, <3>2, <4>2, <5>2 DEF settle, Dlv
          <5> QED
            BY <5>3 DEF Recorded
        <4>3. ~Crash(w)
          BY <1>5 DEF Crash, Spend, Reliable
        <4> QED
          BY <3>2, <4>1, <4>2, <4>3, HandlingShape
      <3> QED
        BY <2>1, <3>1, <3>2 DEF Recorded
    <2>2. CASE e \in deadLetters
      BY <1>5, <2>1, <2>2 DEF EndedInv
    <2>3. CASE e \notin deadLetters
      <3>1. UNCHANGED deadLetters \/ \E w \in Workers : deadLetter(w)
        BY Zenon DEF Next, Publishing, Begin, Insert, Commit, Purge, Passes, work, claim, claimNothing, advance, settle,
                     ProcessOK, ProcessFails, Crash, giveUp, vars, consumer
      <3>2. PICK w \in Workers : deadLetter(w)
        BY <1>5, <2>3, <3>1
      <3>3. /\ e = EventOf(wrk[w].msg)
            /\ wrk'[w].phase = "settling" /\ wrk'[w].outcome = "Term" /\ wrk'[w].msg = wrk[w].msg
        <4>1. /\ deadLetters' = deadLetters \cup {EventOf(wrk[w].msg)}
              /\ wrk' = [wrk EXCEPT ![w] = [@ EXCEPT !.phase = "settling", !.outcome = "Term"]]
          BY <1>5, <2>3, <3>2 DEF deadLetter
        <4>2. e = EventOf(wrk[w].msg)
          BY <1>5, <2>3, <4>1
        <4> QED
          BY <1>0, <4>1, <4>2 DEF Worker
      <3> QED
        BY <1>0, <3>3 DEF Recorded
    <2> QED
      BY <2>2, <2>3
  <1>6. \A e \in (inbox \cup deadLetters)' : \E m \in Msgs : EventOf(m)' = e /\ dlv'[m].state # "none"
    BY <1>1, <1>4
  <1>7. (Calm /\ Reliable)' => \A e \in deadLetters' : \E m \in Msgs : EventOf(m)' = e /\ Recorded(m)'
    BY <1>0, <1>1, <1>5 DEF Calm, Reliable
  <1> QED
    BY <1>2, <1>6, <1>7 DEF EndedInv

\* Where every event is one message and nothing disturbs the order, what a worker handles is not recorded as a dead
\* letter, and everything stored before it began has ended (pgqueue.go: claimOrdered; consumer.go: Handle).
LEMMA HandledInTurn ==
  ASSUME IInv, EndedInv, Calm, Reliable, \A j, k \in Msgs : EventOf(j) = EventOf(k) => j = k,
         NEW w \in Workers, NEW m, m = wrk[w].msg, wrk[w].phase \in {"handling", "failed"}
  PROVE  EventOf(m) \notin deadLetters /\ \A k \in msg[m].before : EventOf(k) \in inbox \cup deadLetters
  <1>1. HandlersHold /\ ClaimedAfter
    BY DEF IInv, OrderInv, Calm, HandlersHold, ClaimedAfter
  <1>2. m \in Msgs /\ Handling(w, m) /\ msg[m].before \subseteq Msgs
    BY DEF IInv, TypeOK, Worker, Message, Handling
  <1>3. dlv[m].state = "in_flight" /\ dlv[m].attempts > 0
    <2>1. LeaseHeld(w)
      BY <1>1, <1>2 DEF HandlersHold
    <2> QED
      BY <1>2, <2>1 DEF LeaseHeld, IInv, QueueInv
  <1>4. ASSUME EventOf(m) \in deadLetters PROVE FALSE
    <2>1. Recorded(m)
      BY <1>2, <1>4 DEF EndedInv
    <2>2. PICK v \in Workers : wrk[v].phase = "settling" /\ wrk[v].msg = m
      BY <1>3, <2>1 DEF Recorded
    <2>3. v = w
      BY <1>1, <1>2, <2>2 DEF HandlersHold, Handling
    <2> QED
      BY <2>2, <2>3
  <1>5. ASSUME NEW k \in msg[m].before PROVE EventOf(k) \in inbox \cup deadLetters
    <2>1. k \in Msgs /\ dlv[k].state = "gone" /\ msg[k].state # "purged"
      BY <1>1, <1>2, <1>3 DEF ClaimedAfter
    <2>2. msg[k].state = "stored"
      BY <1>2, <2>1 DEF IInv, BusInv
    <2>3. ASSUME NEW v \in Workers, Handling(v, k) PROVE FALSE
      BY <1>1, <2>1, <2>3 DEF HandlersHold, Handling, LeaseHeld
    <2>4. ~(scenario.declared + Lapses > MaxDeliver)
      BY LeaseNumbers DEF IInv, Lapses, Reliable
    <2> QED
      BY <2>1, <2>2, <2>3, <2>4, EndsPaid, Zenon DEF HandledOrDead
  <1> QED
    BY <1>4, <1>5, SMTT(30)
=============================================================================
