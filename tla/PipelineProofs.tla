--------------------------- MODULE PipelineProofs ---------------------------
(***************************************************************************)
(* Proofs about Pipeline for any number of events, forwarders and workers, *)
(* any batch sizes and limits, and every deployment PipelineConstants      *)
(* admits.                                                                 *)
(*                                                                         *)
(* Every step of the pipeline is one of Outbox and one of Delivery, or     *)
(* leaves them alone.  OutState, OutStep, SubState and SubStep are what    *)
(* the proofs about the two say of the pipeline's states and steps.  The   *)
(* first part takes them for granted and is about the seam: whose insert   *)
(* is in progress, what is on the bus, where the partition's order shows   *)
(* in the queue.  The second part instantiates OutboxPublishing and        *)
(* DeliveryProofs at the pipeline's variables, gets the four from them and *)
(* draws the conclusions.                                                  *)
(***************************************************************************)
EXTENDS Pipeline, FiniteSetTheorems, TLAPS

\* A row is in the table or was purged from it, and comes before another one in the partition.
There(o) == rows[o].status \in {"committed", "purged"}
Before(o, p) == P!Less(P!PointOf(rows[o]), P!PointOf(rows[p]))

\* On an ordered subscription no handler outlives its lease, no worker dies, every dead letter can be written and the
\* durable has the deliveries the consumer declares; else a delivery may end with nothing recorded, or take effect
\* late, and the next event has its turn all the same.
Orderly ==
    subScenario.ordered =>
        {"stall", "crash", "deadletter"} \cap subScenario.faults = {} /\ subScenario.declared <= MaxDeliver

\* The producer's side: what a forwarder publishes next has everything before it on the bus, an event has one row, and
\* what its transaction saw is in the table, before it once it has its position.
OutState ==
    /\ P!TypeOK /\ outScenario.forwarders \subseteq Forwarders /\ "rewind" \notin outScenario.faults
    /\ \A f \in Forwarders : fwd[f].phase = "publishing" =>
         \E q \in P!Positioned : /\ Publishes(f) = rows[q].ev
                                 /\ \A p \in P!Positioned : Before(p, q) => P!OnBus(rows[p].ev)
    /\ \A o \in P!Ords : There(o) => rows[o].ev \in Events
    /\ \A o, p \in P!Ords : There(o) /\ There(p) /\ rows[o].ev = rows[p].ev => o = p
    /\ \A o \in P!Ords : \A c \in rows[o].seen :
         \E p \in P!Ords : /\ There(p) /\ rows[p].ev = c
                           /\ o \in P!Positioned => p \in P!Positioned /\ Before(p, o)

\* Its steps: rows stay as they committed and commit one at a time, and new positions are behind those given.
OutStep ==
    /\ outScenario' = outScenario
    /\ \A o \in P!Ords : There(o) => There(o)'
    /\ \A o \in P!Ords : There(o)' => rows'[o].ev = rows[o].ev /\ rows'[o].seen = rows[o].seen
    /\ \A o, p \in P!Ords : There(o)' /\ ~There(o) /\ o # p => rows'[p] = rows[p]
    /\ \A o \in P!Positioned : o \in P!Positioned' /\ P!PointOf(rows'[o]) = P!PointOf(rows[o])
    /\ \A o \in P!Positioned, p \in P!Positioned' : Before(p, o)' => p \in P!Positioned

\* The consumer's side: deliveries are of stored messages, what ended was delivered, and what a worker handles on an
\* orderly subscription is not over and has nothing unfinished before it.
SubState ==
    /\ Q!TypeOK /\ subScenario.ordered \in BOOLEAN /\ \A m \in Events : Q!EventOf(m) = m
    /\ \A m \in Events : \A k \in msg[m].before :
         /\ msg[k].state \in {"stored", "purged"}
         /\ msg[m].state # "begun" => msg[k].seq < msg[m].seq
    /\ \A m \in Events : dlv[m].state # "none" => msg[m].state \in {"stored", "purged"}
    /\ \A e \in inbox \cup deadLetters : e \in Events /\ dlv[e].state # "none"
    /\ \A w \in Workers : wrk[w].phase \in {"handling", "failed"} =>
         /\ dlv[wrk[w].msg].state # "none"
         /\ subScenario.ordered /\ Orderly =>
              wrk[w].msg \notin deadLetters /\ msg[wrk[w].msg].before \subseteq inbox \cup deadLetters

\* Its steps: a message keeps what was stored before it began.
SubStep ==
    /\ subScenario' = subScenario
    /\ \A m \in Events : msg'[m].state # "none" =>
         msg'[m].before = IF msg[m].state = "none" THEN Q!Stored ELSE msg[m].before

\* Inserts in progress and their forwarders belong together, and the bus is what the queue has stored.
InsertInv ==
    /\ inserting \subseteq Forwarders
    /\ \A f \in inserting : fwd[f].phase = "publishing" /\ msg[Publishes(f)].state \in {"begun", "inserted"}
    /\ \A f, g \in inserting : Publishes(f) = Publishes(g) => f = g
    /\ \A e \in Events : msg[e].state # "purged" /\ (P!OnBus(e) <=> msg[e].state = "stored")

\* A message is that of a row with a position, and its insert began after everything before that row was stored.
PlaceInv ==
    /\ \A e \in Events : msg[e].state # "none" => \E o \in P!Positioned : rows[o].ev = e
    /\ \A o, p \in P!Positioned :
         Before(o, p) /\ msg[rows[p].ev].state # "none" => rows[o].ev \in msg[rows[p].ev].before

-----------------------------------------------------------------------------
(* Inserts.                                                                *)

\* What is used most.
LEMMA Known ==
  ASSUME OutState, SubState
  PROVE  /\ outScenario.forwarders \subseteq Forwarders /\ DOMAIN fwd = Forwarders /\ bus \in Seq(P!Message)
         /\ \A f, x : f \in Forwarders /\ fwd' = [fwd EXCEPT ![f] = x] => \A g \in Forwarders : g # f => fwd'[g] = fwd[g]
         /\ msg \in [Events -> Q!Message]
         /\ \A o \in P!Positioned : o \in P!Ords /\ There(o) /\ rows[o].ev \in Events
         /\ \A f \in Forwarders : fwd[f].phase = "publishing" => Publishes(f) \in Events
  <1>1. /\ outScenario.forwarders \subseteq Forwarders /\ fwd \in [Forwarders -> P!Fwd] /\ bus \in Seq(P!Message)
        /\ msg \in [Events -> Q!Message]
    BY DEF OutState, SubState, P!TypeOK, Q!TypeOK, Events
  <1>2. \A o \in P!Positioned : o \in P!Ords /\ There(o) /\ rows[o].ev \in Events
    BY DEF OutState, P!Positioned, There
  <1>3. \A f \in Forwarders : fwd[f].phase = "publishing" => Publishes(f) \in Events
    BY <1>2 DEF OutState
  <1> QED
    BY <1>1, <1>2, <1>3

\* A step of the pipeline is one of Outbox or leaves it alone.
LEMMA OutSteps == ASSUME [Next]_vars PROVE [P!Next]_P!vars
  <1>1. CASE Produce
    BY <1>1, Zenon DEF Produce, P!Next
  <1>2. CASE LeaseEnds
    BY <1>2, Zenon DEF LeaseEnds, P!Next
  <1>3. ASSUME NEW f \in outScenario.forwarders, Forward(f) \/ ForwarderDies(f) PROVE [P!Next]_P!vars
    BY <1>3, Zenon
       DEF Forward, ForwarderDies, InsertBegins, InsertNumbered, InsertEnds, InsertRepeated, P!Next, P!Forward, outVars,
           P!vars
  <1>4. CASE UNCHANGED outVars
    BY <1>4 DEF outVars, P!vars
  <1> QED
    BY <1>1, <1>2, <1>3, <1>4, Zenon DEF Next, Consume, WorkerDies, Passes, GiveUp, vars

\* A step of the pipeline is one of Delivery or leaves it alone.
LEMMA SubSteps == ASSUME OutState, SubState, InsertInv, [Next]_vars PROVE [Q!Next]_Q!vars
  <1>1. CASE \E w \in Workers : Consume(w) \/ WorkerDies(w)
    BY <1>1, Zenon DEF Consume, WorkerDies, Q!Next
  <1>2. CASE (\E m \in Events : Passes(m)) \/ GiveUp
    BY <1>2, Zenon DEF Passes, GiveUp, Events, Q!Next
  <1>3. ASSUME NEW f \in outScenario.forwarders, InsertBegins(f) \/ InsertNumbered(f) \/ InsertEnds(f) PROVE Q!Next
    <2>1. Publishes(f) \in 1..MaxEvents
      BY <1>3, Known DEF InsertBegins, InsertNumbered, InsertEnds, InsertInv, Events
    <2> QED
      BY <1>3, <2>1, Zenon DEF InsertBegins, InsertNumbered, InsertEnds, Q!Publishing, Q!Next
  <1>4. CASE UNCHANGED subVars
    BY <1>4 DEF subVars, Q!vars
  <1> QED
    BY <1>1, <1>2, <1>3, <1>4, Zenon DEF Next, Produce, LeaseEnds, Forward, ForwarderDies, InsertRepeated, vars

\* A step that leaves the inserts alone.
LEMMA InsertKept ==
  ASSUME InsertInv, UNCHANGED <<msg, bus, inserting>>, \A g \in inserting : fwd'[g] = fwd[g]
  PROVE  InsertInv'
  <1>1. \A g \in inserting : Publishes(g)' = Publishes(g)
    BY Zenon DEF Publishes, P!NextToPublish
  <1>2. \A e : P!OnBus(e)' <=> P!OnBus(e)
    BY DEF P!OnBus
  <1> QED
    BY <1>1, <1>2 DEF InsertInv

\* The steps that are not an insert's leave it alone: its forwarder is publishing, and nothing else is stored.
LEMMA OtherKeeps ==
  ASSUME OutState, SubState, InsertInv, NEW f \in Forwarders, UNCHANGED <<subVars, inserting>>,
         P!TakeLease(f) \/ P!NumberAndRead(f) \/ P!Mark(f) \/ InsertRepeated(f) \/ ForwarderDies(f)
  PROVE  InsertInv'
  <1>1. \E x : fwd' = [fwd EXCEPT ![f] = x]
    BY Zenon DEF P!TakeLease, P!NumberAndRead, P!Mark, InsertRepeated, P!Publish, ForwarderDies, P!Crash
  <1>2. \A g \in Forwarders : g # f => fwd'[g] = fwd[g]
    BY <1>1, Known
  <1>3. f \notin inserting
    BY DEF InsertInv, P!TakeLease, P!NumberAndRead, P!Mark, InsertRepeated, ForwarderDies
  <1>4. bus' = bus
    <2>1. CASE InsertRepeated(f)
      <3>1. P!OnBus(Publishes(f))
        BY <2>1, Known DEF InsertRepeated, InsertInv
      <3> QED
        BY <2>1, <3>1 DEF InsertRepeated, P!Publish, P!Stored, P!MessageOf, Publishes
    <2> QED
      BY <2>1 DEF P!TakeLease, P!NumberAndRead, P!Mark, ForwarderDies, P!Crash
  <1>5. msg' = msg /\ inserting' = inserting
    BY DEF subVars
  <1> QED
    BY <1>2, <1>3, <1>4, <1>5, InsertKept DEF InsertInv

\* What a publish that was not stored before does to the outbox's side.
LEMMA PublishShape ==
  ASSUME OutState, SubState, NEW f \in Forwarders, P!Publish(f) \/ P!PublishFails(f), ~P!OnBus(Publishes(f))
  PROVE  /\ \A g \in Forwarders : g # f => fwd'[g] = fwd[g]
         /\ bus' # bus => \A e : P!OnBus(e)' <=> P!OnBus(e) \/ e = Publishes(f)
         /\ P!Publish(f) => bus' # bus
  <1> DEFINE m == P!MessageOf(P!NextToPublish(fwd[f].todo))
  <1>1. bus \in Seq(P!Message)
    BY Known
  <1>2. \E x : fwd' = [fwd EXCEPT ![f] = x]
    BY Zenon DEF P!Publish, P!PublishFails
  <1>3. m.ev = Publishes(f)
    BY DEF P!MessageOf, Publishes
  <1>4. P!Stored(m) = Append(bus, m)
    BY <1>3 DEF P!Stored
  <1>5. /\ bus' \in {bus, Append(bus, m)}
        /\ P!Publish(f) => bus' = Append(bus, m)
    BY <1>4 DEF P!Publish, P!PublishFails
  <1> HIDE DEF m
  <1>6. ASSUME bus' = Append(bus, m) PROVE \A e : P!OnBus(e)' <=> P!OnBus(e) \/ e = Publishes(f)
    <2>1. /\ DOMAIN bus = 1..Len(bus) /\ Len(bus) \in Nat /\ DOMAIN bus' = 1..(Len(bus) + 1)
          /\ \A k \in 1..Len(bus) : bus'[k] = bus[k]
          /\ bus'[Len(bus) + 1] = m
      BY <1>1, <1>6
    <2>2. \A k \in DOMAIN bus' : k \in DOMAIN bus \/ k = Len(bus) + 1
      BY <2>1
    <2>3. Len(bus) + 1 \in DOMAIN bus' /\ \A k \in DOMAIN bus : k \in DOMAIN bus'
      BY <2>1
    <2> QED
      BY <1>3, <2>1, <2>2, <2>3 DEF P!OnBus
  <1>7. Append(bus, m) # bus
    BY <1>1
  <1>8. \A g \in Forwarders : g # f => fwd'[g] = fwd[g]
    BY <1>2, Known
  <1> QED
    BY <1>5, <1>6, <1>7, <1>8

\* Inserts stay with their forwarders, and the outbox's bus stays what the queue has stored.
LEMMA InsertStep == ASSUME OutState, SubState, InsertInv, [Next]_vars PROVE InsertInv'
  <1>0. outScenario.forwarders \subseteq Forwarders /\ msg \in [Events -> Q!Message]
    BY Known
  <1>a. \A g \in inserting : g \in Forwarders /\ fwd[g].phase = "publishing" /\ Publishes(g) \in Events
    BY Known DEF InsertInv
  <1>1. ASSUME NEW f \in Forwarders, InsertBegins(f) PROVE InsertInv'
    <2> DEFINE e == Publishes(f)
    <2>1. e \in Events /\ fwd[f].phase = "publishing"
      BY <1>1, Known DEF InsertBegins
    <2>2. /\ msg[e].state = "none" /\ msg'[e].state = "begun" /\ \A k \in Events : k # e => msg'[k] = msg[k]
          /\ inserting' = inserting \cup {f} /\ fwd' = fwd /\ bus' = bus
      BY <1>0, <1>1, <2>1 DEF InsertBegins, Q!Begin, Q!NoMessage, outVars
    <2>3. /\ \A g : Publishes(g)' = Publishes(g)
          /\ \A k : P!OnBus(k)' <=> P!OnBus(k)
      BY <2>2 DEF Publishes, P!NextToPublish, P!OnBus
    <2>4. \A g \in inserting : Publishes(g) # e
      BY <2>2 DEF InsertInv
    <2> HIDE DEF e
    <2>5. e = Publishes(f)
      BY DEF e
    <2> QED
      BY <1>a, <2>1, <2>2, <2>3, <2>4, <2>5 DEF InsertInv
  <1>2. ASSUME NEW f \in Forwarders, InsertNumbered(f) PROVE InsertInv'
    <2>1. f \in inserting /\ Publishes(f) \in Events
      BY <1>2, <1>a DEF InsertNumbered
    <2>2. /\ msg[Publishes(f)].state = "begun" /\ msg'[Publishes(f)].state = "inserted"
          /\ \A k \in Events : k # Publishes(f) => msg'[k] = msg[k]
          /\ inserting' = inserting /\ fwd' = fwd /\ bus' = bus
      BY <1>0, <1>2, <2>1 DEF InsertNumbered, Q!Insert, outVars, Q!Message
    <2>3. /\ \A g : Publishes(g)' = Publishes(g)
          /\ \A k : P!OnBus(k)' <=> P!OnBus(k)
      BY <2>2 DEF Publishes, P!NextToPublish, P!OnBus
    <2> QED
      BY <1>a, <2>1, <2>2, <2>3 DEF InsertInv
  <1>3. ASSUME NEW f \in Forwarders, InsertEnds(f) PROVE InsertInv'
    <2> DEFINE e == Publishes(f)
    <2>1. f \in inserting /\ e \in Events
      BY <1>3, <1>a DEF InsertEnds
    <2>2. /\ msg[e].state = "inserted" /\ msg'[e].state \in {"stored", "none"}
          /\ \A k \in Events : k # e => msg'[k] = msg[k]
          /\ inserting' = inserting \ {f} /\ (bus' # bus <=> msg'[e].state = "stored")
      BY <1>0, <1>3, <2>1 DEF InsertEnds, Q!Commit, Q!NoMessage, Q!Message
    <2>3. ~P!OnBus(e)
      BY <2>1, <2>2 DEF InsertInv
    <2>4. /\ \A g \in Forwarders : g # f => fwd'[g] = fwd[g]
          /\ bus' # bus => \A k : P!OnBus(k)' <=> P!OnBus(k) \/ k = e
      BY <1>3, <2>3, PublishShape DEF InsertEnds
    <2>5. \A g \in Forwarders : g # f => Publishes(g)' = Publishes(g)
      BY <2>4, Zenon DEF Publishes, P!NextToPublish
    <2>6. bus' = bus => \A k : P!OnBus(k)' <=> P!OnBus(k)
      BY DEF P!OnBus
    <2>7. \A g \in inserting' : Publishes(g) # e /\ g # f /\ g \in inserting
      BY <2>1, <2>2 DEF InsertInv
    <2> HIDE DEF e
    <2>8. \A g \in inserting' : fwd'[g] = fwd[g] /\ Publishes(g)' = Publishes(g) /\ msg'[Publishes(g)] = msg[Publishes(g)]
      BY <1>a, <2>2, <2>4, <2>5, <2>7
    <2>9. \A k \in Events : msg'[k].state # "purged" /\ (P!OnBus(k)' <=> msg'[k].state = "stored")
      BY <2>2, <2>3, <2>4, <2>6 DEF InsertInv
    <2> QED
      BY <1>a, <2>7, <2>8, <2>9 DEF InsertInv
  <1>4. ASSUME NEW f \in outScenario.forwarders, Forward(f) \/ ForwarderDies(f) PROVE InsertInv'
    <2>1. f \in Forwarders
      BY <1>0, <1>4
    <2>2. CASE InsertBegins(f) \/ InsertNumbered(f) \/ InsertEnds(f)
      BY <1>1, <1>2, <1>3, <2>1, <2>2
    <2>3. CASE /\ P!TakeLease(f) \/ P!NumberAndRead(f) \/ P!Mark(f) \/ InsertRepeated(f) \/ ForwarderDies(f)
               /\ UNCHANGED <<subVars, inserting>>
      BY <2>1, <2>3, OtherKeeps
    <2> QED
      BY Zenon, <1>4, <2>2, <2>3 DEF Forward, ForwarderDies, InsertRepeated
  <1>5. ASSUME Produce PROVE InsertInv'
    <2>1. UNCHANGED <<msg, bus, inserting>>
      BY Zenon, <1>5 DEF Produce, subVars, P!Emit, P!EndTx, P!Purge, P!Recover
    <2>2. fwd' = fwd
      <3>1. "rewind" \notin outScenario.faults
        BY DEF OutState
      <3> QED
        BY Zenon, <1>5, <3>1 DEF Produce, P!Emit, P!EndTx, P!Purge, P!Recover, P!Spend
    <2> QED
      BY <2>1, <2>2, InsertKept
  <1>6. ASSUME UNCHANGED <<msg, bus, inserting, fwd>> PROVE InsertInv'
    BY <1>6, InsertKept
  <1>7. ASSUME LeaseEnds \/ UNCHANGED vars PROVE UNCHANGED <<msg, bus, inserting, fwd>>
    BY <1>7 DEF LeaseEnds, P!LeaseEnds, vars, outVars, subVars
  <1>8. ASSUME NEW w \in Workers, Consume(w) \/ WorkerDies(w) PROVE UNCHANGED <<msg, bus, inserting, fwd>>
    BY Zenon, <1>8 DEF Consume, WorkerDies, outVars, Q!bus, Q!work, Q!claim, Q!claimNothing, Q!advance, Q!settle,
                       Q!ProcessOK, Q!ProcessFails, Q!deadLetter, Q!Crash
  <1>9. ASSUME NEW m \in Events, Passes(m) PROVE UNCHANGED <<msg, bus, inserting, fwd>>
    BY Zenon, <1>9 DEF Passes, outVars, Q!bus, Q!Passes
  <1>10. ASSUME GiveUp PROVE UNCHANGED <<msg, bus, inserting, fwd>>
    BY Zenon, <1>10 DEF GiveUp, outVars, Q!bus, Q!giveUp
  <1> QED
    BY <1>4, <1>5, <1>6, <1>7, <1>8, <1>9, <1>10 DEF Next

\* A message appears only by the insert of a forwarder that publishes it.
LEMMA BeginsBy ==
  ASSUME OutState, SubState, InsertInv, [Next]_vars, NEW e \in Events, msg[e].state = "none", msg'[e].state # "none"
  PROVE  \E f \in Forwarders : InsertBegins(f) /\ e = Publishes(f)
  <1>0. outScenario.forwarders \subseteq Forwarders /\ msg \in [Events -> Q!Message]
    BY Known
  <1>1. \E f \in outScenario.forwarders : InsertBegins(f) \/ InsertNumbered(f) \/ InsertEnds(f)
    <2>1. msg' # msg
      OBVIOUS
    <2> QED
      BY Zenon, <2>1
         DEF Next, Produce, LeaseEnds, Forward, InsertRepeated, ForwarderDies, Consume, WorkerDies, Passes, GiveUp, Q!work,
             Q!claim, Q!claimNothing, Q!advance, Q!settle, Q!ProcessOK, Q!ProcessFails, Q!deadLetter, Q!Crash, Q!Passes,
             Q!giveUp, Q!bus, vars, subVars
  <1>2. PICK f \in Forwarders : InsertBegins(f) \/ InsertNumbered(f) \/ InsertEnds(f)
    BY <1>0, <1>1
  <1>3. Publishes(f) \in Events
    BY <1>2, Known DEF InsertInv, InsertBegins, InsertNumbered, InsertEnds
  <1>4. \A k \in Events : k # Publishes(f) => msg'[k] = msg[k]
    BY <1>0, <1>2, <1>3 DEF InsertBegins, InsertNumbered, InsertEnds, Q!Begin, Q!Insert, Q!Commit
  <1>5. e = Publishes(f)
    BY <1>4
  <1> QED
    BY <1>2, <1>5 DEF InsertNumbered, InsertEnds, Q!Insert, Q!Commit

\* Messages belong to rows with positions, and take the positions' order.
LEMMA PlaceStep ==
  ASSUME OutState, OutState', OutStep, SubState, SubState', SubStep, InsertInv, PlaceInv, [Next]_vars PROVE PlaceInv'
  <1>1. /\ \A o \in P!Positioned : o \in P!Positioned' /\ rows'[o].ev = rows[o].ev
        /\ \A o, p \in P!Positioned : Before(o, p)' <=> Before(o, p)
        /\ \A o \in P!Positioned, p \in P!Positioned' : Before(p, o)' => p \in P!Positioned
    <2>1. \A o \in P!Positioned : o \in P!Positioned' /\ rows'[o].ev = rows[o].ev
      BY Known DEF OutStep
    <2>2. \A o, p \in P!Positioned : Before(o, p)' <=> Before(o, p)
      BY DEF OutStep, Before
    <2> QED
      BY <2>1, <2>2 DEF OutStep
  <1>2. \A o, p \in P!Positioned' : rows'[o].ev = rows'[p].ev => o = p
    BY DEF OutState, P!Positioned, There
  <1>3. \A o \in P!Positioned' : rows'[o].ev \in Events
    BY DEF OutState, P!Positioned, There
  <1>5. ASSUME NEW e \in Events, msg[e].state = "none", msg'[e].state # "none"
        PROVE  \E q \in P!Positioned' :
                 /\ rows'[q].ev = e
                 /\ \A p \in P!Positioned' : Before(p, q)' => rows'[p].ev \in msg'[e].before
    <2>1. PICK f \in Forwarders : InsertBegins(f) /\ e = Publishes(f)
      BY <1>5, BeginsBy
    <2>2. rows' = rows /\ fwd[f].phase = "publishing"
      BY <2>1 DEF InsertBegins, outVars
    <2>3. PICK q \in P!Positioned :
             /\ Publishes(f) = rows[q].ev
             /\ \A p \in P!Positioned : Before(p, q) => P!OnBus(rows[p].ev)
      BY <2>2 DEF OutState
    <2>4. msg'[e].before = Q!Stored
      BY <1>5 DEF SubStep
    <2>5. \A k \in Events : P!OnBus(k) => k \in Q!Stored
      BY DEF InsertInv, Q!Stored, Events
    <2>6. \A p \in P!Positioned' : p \in P!Positioned
      BY <2>2 DEF P!Positioned
    <2> QED
      BY <1>1, <1>3, <2>1, <2>2, <2>3, <2>4, <2>5, <2>6
  <1>6. ASSUME NEW e \in Events, msg'[e].state # "none", msg[e].state # "none"
        PROVE  msg'[e].before = msg[e].before
    BY <1>6 DEF SubStep
  <1>7. ASSUME NEW e \in Events, msg'[e].state # "none" PROVE \E o \in P!Positioned' : rows'[o].ev = e
    <2>1. CASE msg[e].state # "none"
      BY <1>1, <2>1 DEF PlaceInv
    <2> QED
      BY <1>5, <1>7, <2>1
  <1>8. ASSUME NEW o \in P!Positioned', NEW p \in P!Positioned', Before(o, p)', msg'[rows'[p].ev].state # "none"
        PROVE  rows'[o].ev \in msg'[rows'[p].ev].before
    <2>1. rows'[p].ev \in Events
      BY <1>3
    <2>2. CASE msg[rows'[p].ev].state = "none"
      BY <1>2, <1>5, <1>8, <2>1, <2>2
    <2>3. CASE msg[rows'[p].ev].state # "none"
      <3>1. PICK q \in P!Positioned : rows[q].ev = rows'[p].ev
        BY <2>1, <2>3 DEF PlaceInv
      <3>2. p \in P!Positioned
        BY <1>1, <1>2, <3>1
      <3>3. o \in P!Positioned
        BY <1>1, <1>8, <3>2
      <3>4. rows'[o].ev = rows[o].ev /\ rows'[p].ev = rows[p].ev /\ Before(o, p)
        BY <1>1, <1>8, <3>2, <3>3
      <3>5. rows[o].ev \in msg[rows[p].ev].before
        BY <2>3, <3>2, <3>3, <3>4 DEF PlaceInv
      <3> QED
        BY <1>6, <1>8, <2>1, <2>3, <3>4, <3>5
    <2> QED
      BY <2>2, <2>3
  <1> QED
    BY <1>7, <1>8 DEF PlaceInv

-----------------------------------------------------------------------------
(* The queue's order.                                                      *)

\* Messages follow the positions, stored and numbered.
LEMMA PlacesOrder == ASSUME OutState, SubState, InsertInv, PlaceInv PROVE QueueFollowsPositions
  <1> SUFFICES ASSUME NEW o \in P!Positioned, NEW p \in P!Positioned, Before(o, p), msg[rows[p].ev].state = "stored"
               PROVE  msg[rows[o].ev].state = "stored" /\ msg[rows[o].ev].seq < msg[rows[p].ev].seq
    BY DEF QueueFollowsPositions, Before
  <1>1. rows[o].ev \in msg[rows[p].ev].before /\ rows[o].ev \in Events /\ rows[p].ev \in Events
    BY Known DEF PlaceInv
  <1>2. msg[rows[o].ev].state \in {"stored", "purged"} /\ msg[rows[o].ev].seq < msg[rows[p].ev].seq
    BY <1>1 DEF SubState
  <1> QED
    BY <1>1, <1>2 DEF InsertInv

-----------------------------------------------------------------------------
(* EventFlow.                                                              *)

\* The rows of an event: at most one, and one with a position when the event has a message.
LEMMA EventRows ==
  ASSUME OutState, SubState, InsertInv, PlaceInv
  PROVE  /\ \A e, o : o \in RowsOf(e) <=> o \in P!Ords /\ There(o) /\ rows[o].ev = e
         /\ \A e : \A o, p \in RowsOf(e) : o = p
         /\ \A e : RowsOf(e) # {} => e \in Events
         /\ \A e \in Events : msg[e].state # "none" => \E o \in RowsOf(e) : o \in P!Positioned
         /\ \A e \in Events : dlv[e].state # "none" => msg[e].state = "stored"
         /\ \A e \in inbox \cup deadLetters : RowsOf(e) # {}
  <1>1. \A e, o : o \in RowsOf(e) <=> o \in P!Ords /\ There(o) /\ rows[o].ev = e
    BY DEF RowsOf, There
  <1>2. \A e : \A o, p \in RowsOf(e) : o = p
    BY <1>1 DEF OutState
  <1>3. \A e : RowsOf(e) # {} => e \in Events
    BY <1>1 DEF OutState
  <1>4. \A e \in Events : msg[e].state # "none" => \E o \in RowsOf(e) : o \in P!Positioned
    BY <1>1, Known DEF PlaceInv
  <1>5. \A e \in Events : dlv[e].state # "none" => msg[e].state = "stored"
    BY DEF SubState, InsertInv
  <1>6. \A e \in inbox \cup deadLetters : RowsOf(e) # {}
    BY <1>4, <1>5 DEF SubState
  <1> QED
    BY <1>1, <1>2, <1>3, <1>4, <1>5, <1>6

\* What the mapping makes of an event's state.
LEMMA Stages ==
  ASSUME OutState, SubState, InsertInv, PlaceInv
  PROVE  /\ \A e \in Events : e \in inbox => StageOf(e) = "applied"
         /\ \A e \in Events : e \in deadLetters \ inbox => StageOf(e) = "dead"
         /\ \A e \in Events : e \notin inbox \cup deadLetters /\ RowsOf(e) # {} => StageOf(e) = "committed"
         /\ \A e \in Events : RowsOf(e) = {} => StageOf(e) = "none"
  <1>1. \A e \in Events : e \in inbox \cup deadLetters => RowsOf(e) # {}
    BY EventRows
  <1> QED
    BY <1>1 DEF StageOf

\* The events an event's transaction saw.
CausesOf(e) == UNION {rows[o].seen : o \in RowsOf(e)}

\* What a worker handles has a row and, on an ordered subscription, neither ended nor is ahead of its turn.
LEMMA HandledInTurn ==
  ASSUME OutState, SubState, InsertInv, PlaceInv, Orderly, NEW w \in Workers, wrk[w].phase \in {"handling", "failed"}
  PROVE  /\ wrk[w].msg \in Events /\ RowsOf(wrk[w].msg) # {}
         /\ subScenario.ordered => wrk[w].msg \notin deadLetters
         /\ subScenario.ordered => \A c \in CausesOf(wrk[w].msg) : c \in inbox \cup deadLetters
  <1>0. PICK m : m = wrk[w].msg
    OBVIOUS
  <1>1. m \in Events
    BY <1>0 DEF SubState, Q!TypeOK, Q!Worker, Events
  <1>2. /\ dlv[m].state # "none"
        /\ subScenario.ordered => m \notin deadLetters /\ msg[m].before \subseteq inbox \cup deadLetters
    BY <1>0 DEF SubState
  <1>3. msg[m].state = "stored"
    BY <1>1, <1>2, EventRows
  <1>4. PICK o \in RowsOf(m) : o \in P!Positioned
    BY <1>1, <1>3, EventRows
  <1>5. ASSUME NEW c \in CausesOf(m) PROVE c \in msg[m].before
    <2>1. o \in P!Ords /\ rows[o].ev = m /\ c \in rows[o].seen
      BY <1>4, EventRows DEF CausesOf
    <2>2. PICK p \in P!Ords : p \in P!Positioned /\ Before(p, o) /\ rows[p].ev = c
      BY <1>4, <2>1 DEF OutState
    <2> QED
      BY <1>3, <1>4, <2>1, <2>2 DEF PlaceInv
  <1> QED
    BY <1>0, <1>1, <1>2, <1>4, <1>5

\* EventFlow's variables.
LEMMA FlowVars ==
  /\ Flow!vars = <<subScenario.ordered, [e \in Events |-> StageOf(e)], [e \in Events |-> CausesOf(e)]>>
  /\ Flow!vars' = <<subScenario'.ordered, [e \in Events |-> StageOf(e)'], [e \in Events |-> CausesOf(e)']>>
  BY DEF Flow!vars, CausesOf

\* The producer's side commits an event or changes nothing that EventFlow sees (producer.go: insert).
LEMMA CommitFlows ==
  ASSUME OutState, OutState', OutStep, SubState, SubStep, InsertInv, PlaceInv, UNCHANGED <<inbox, deadLetters>>
  PROVE  [Flow!Next]_Flow!vars
  <1>0. subScenario' = subScenario
    BY DEF SubStep
  <1>1. /\ \A o \in P!Ords : There(o) => There(o)'
        /\ \A o \in P!Ords : There(o)' => rows'[o].ev = rows[o].ev /\ rows'[o].seen = rows[o].seen
        /\ \A o, p \in P!Ords : There(o)' /\ ~There(o) /\ o # p => rows'[p] = rows[p]
    BY DEF OutStep
  <1>2. /\ \A e, o : o \in RowsOf(e) <=> o \in P!Ords /\ There(o) /\ rows[o].ev = e
        /\ \A e, o : o \in RowsOf(e)' <=> o \in P!Ords /\ There(o)' /\ rows'[o].ev = e
    BY DEF RowsOf, There, P!Ords
  <1>3. ASSUME NEW e, \A o : o \in RowsOf(e)' <=> o \in RowsOf(e)
        PROVE  StageOf(e)' = StageOf(e) /\ CausesOf(e)' = CausesOf(e)
    <2>1. RowsOf(e)' = RowsOf(e) /\ \A o \in RowsOf(e) : rows'[o].seen = rows[o].seen
      BY <1>1, <1>2, <1>3, Zenon
    <2>2. StageOf(e)' = StageOf(e)
      BY <2>1 DEF StageOf
    <2>3. CausesOf(e)' = CausesOf(e)
      BY <2>1 DEF CausesOf
    <2> QED
      BY <2>2, <2>3
  <1>4. CASE \A o \in P!Ords : There(o)' => There(o)
    <2>1. \A e, o : o \in RowsOf(e)' <=> o \in RowsOf(e)
      BY <1>1, <1>2, <1>4
    <2>2. \A e \in Events : StageOf(e)' = StageOf(e) /\ CausesOf(e)' = CausesOf(e)
      BY <1>3, <2>1
    <2> QED
      BY <1>0, <2>2, FlowVars
  <1>5. ASSUME NEW o \in P!Ords, There(o)', ~There(o) PROVE Flow!Next
    <2>a. PICK x : x = rows[o].ev
      OBVIOUS
    <2>1. /\ rows'[o].ev = x /\ rows'[o].seen = rows[o].seen
          /\ \A p \in P!Ords : p # o => (There(p)' <=> There(p)) /\ rows'[p].ev = rows[p].ev
      BY <1>1, <1>5, <2>a, SMTT(30) DEF There
    <2>2. \A p \in P!Ords : p # o /\ There(p)' => rows'[p].ev # x
      BY <1>5, <2>1 DEF OutState
    <2>3. x \in Events
      BY <1>5, <2>1 DEF OutState
    <2>4. /\ \A p : p \notin RowsOf(x) /\ (p \in RowsOf(x)' <=> p = o)
          /\ \A e : e # x => \A p : p \in RowsOf(e)' <=> p \in RowsOf(e)
      BY <1>2, <1>5, <2>a, <2>1, <2>2
    <2>5. \A e \in Events : e # x => StageOf(e)' = StageOf(e) /\ CausesOf(e)' = CausesOf(e)
      BY <1>3, <2>4
    <2>6. StageOf(x) = "none"
      BY <2>3, <2>4, Stages
    <2>7. StageOf(x)' = "committed"
      <3>1. x \notin inbox \cup deadLetters
        BY <2>3, <2>4, EventRows
      <3> QED
        BY <2>4, <3>1 DEF StageOf
    <2>8. CausesOf(x)' = rows[o].seen
      BY <2>1, <2>4 DEF CausesOf
    <2>9. rows[o].seen \subseteq {c \in Events : StageOf(c) # "none"}
      <3>1. ASSUME NEW c \in rows[o].seen PROVE c \in Events /\ StageOf(c) # "none"
        <4>1. PICK p \in P!Ords : There(p) /\ rows[p].ev = c
          BY <3>1 DEF OutState
        <4>2. p \in RowsOf(c) /\ c \in Events
          BY <4>1, EventRows
        <4> QED
          BY <4>2, SMTT(30) DEF StageOf
      <3> QED
        BY <3>1
    <2>b. PICK S : S = rows[o].seen
      OBVIOUS
    <2> DEFINE st == [e \in Events |-> StageOf(e)]
               ca == [e \in Events |-> CausesOf(e)]
    <2>10. st[x] = "none" /\ S \in SUBSET {c \in Events : st[c] # "none"}
      BY <2>3, <2>6, <2>9, <2>b
    <2>11. [e \in Events |-> StageOf(e)'] = [st EXCEPT ![x] = "committed"]
      BY <2>3, <2>5, <2>7, Zenon
    <2>12. [e \in Events |-> CausesOf(e)'] = [ca EXCEPT ![x] = S]
      BY <2>3, <2>5, <2>8, <2>b, Zenon
    <2>13. Flow!Commit(x)
      BY <1>0, <2>10, <2>11, <2>12, Zenon DEF Flow!Commit, CausesOf
    <2> QED
      BY <2>3, <2>13 DEF Flow!Next
  <1> QED
    BY <1>4, <1>5

\* A handler that commits applies its event, a dead letter ends it; EventFlow sees the first of either, in turn
\* (consumer.go: process, deadLetter).
LEMMA ConsumeFlows ==
  ASSUME OutState, SubState, InsertInv, PlaceInv, Orderly, NEW w \in Workers, Q!ProcessOK(w) \/ Q!deadLetter(w),
         UNCHANGED <<outVars, subScenario>>
  PROVE  [Flow!Next]_Flow!vars
  <1>0. PICK m : m = wrk[w].msg
    OBVIOUS
  <1>1. /\ m \in Events /\ RowsOf(m) # {}
        /\ subScenario.ordered => m \notin deadLetters
        /\ subScenario.ordered => \A c \in CausesOf(m) : c \in inbox \cup deadLetters
    BY <1>0, HandledInTurn DEF Q!ProcessOK, Q!deadLetter
  <1>2. Q!EventOf(m) = m
    BY <1>1 DEF SubState
  <1>3. \A e : RowsOf(e)' = RowsOf(e) /\ CausesOf(e)' = CausesOf(e)
    <2>1. rows' = rows
      BY DEF outVars
    <2> QED
      BY <2>1 DEF RowsOf, CausesOf, P!Ords
  <1> DEFINE st == [e \in Events |-> StageOf(e)]
             ca == [e \in Events |-> CausesOf(e)]
  <1>4. subScenario.ordered => \A c \in ca[m] : st[c] \in {"applied", "dead"}
    <2>1. \A c \in inbox \cup deadLetters : c \in Events /\ StageOf(c) \in {"applied", "dead"}
      BY EventRows, Stages
    <2> QED
      BY <1>1, <2>1, SMTT(30)
  <1>5. [e \in Events |-> CausesOf(e)'] = ca
    BY <1>3
  <1>6. CASE UNCHANGED <<inbox, deadLetters>>
    <2>1. \A e \in Events : StageOf(e)' = StageOf(e)
      BY <1>3, <1>6 DEF StageOf
    <2> QED
      BY <1>3, <2>1, FlowVars
  <1>7. CASE m \notin inbox /\ inbox' = inbox \cup {m} /\ deadLetters' = deadLetters
    <2>1. st[m] = "committed" \/ (st[m] = "dead" /\ ~subScenario.ordered)
      BY <1>1, <1>7, Stages
    <2>2. /\ StageOf(m)' = "applied"
          /\ \A e \in Events : e # m => StageOf(e)' = StageOf(e)
      BY <1>3, <1>7 DEF StageOf
    <2>3. [e \in Events |-> StageOf(e)'] = [st EXCEPT ![m] = "applied"]
      BY <1>1, <2>2, Zenon
    <2>4. Flow!Apply(m)
      BY <1>4, <1>5, <2>1, <2>3 DEF Flow!Apply, Flow!Turn, CausesOf
    <2> QED
      BY <1>1, <2>4 DEF Flow!Next
  <1>8. CASE m \notin deadLetters /\ deadLetters' = deadLetters \cup {m} /\ inbox' = inbox
    <2>1. CASE m \in inbox
      <3>1. \A e \in Events : StageOf(e)' = StageOf(e)
        BY <1>3, <1>8, <2>1 DEF StageOf
      <3> QED
        BY <1>3, <3>1, FlowVars
    <2>2. CASE m \notin inbox
      <3>1. st[m] = "committed"
        BY <1>1, <1>8, <2>2, Stages
      <3>2. /\ StageOf(m)' = "dead"
            /\ \A e \in Events : e # m => StageOf(e)' = StageOf(e)
        BY <1>3, <1>8, <2>2 DEF StageOf
      <3>3. [e \in Events |-> StageOf(e)'] = [st EXCEPT ![m] = "dead"]
        BY <1>1, <3>2, Zenon
      <3>4. Flow!DeadLetter(m)
        BY <1>4, <1>5, <3>1, <3>3, Zenon DEF Flow!DeadLetter, Flow!Turn, CausesOf
      <3> QED
        BY <1>1, <3>4 DEF Flow!Next
    <2> QED
      BY <2>1, <2>2
  <1> QED
    BY <1>0, <1>2, <1>6, <1>7, <1>8, Zenon DEF Q!ProcessOK, Q!deadLetter, Q!Applied, Q!consumer

\* A step of the pipeline is one of EventFlow, or nothing to it.
LEMMA StepFlows ==
  ASSUME OutState, OutState', OutStep, SubState, SubStep, InsertInv, PlaceInv, Orderly, [Next]_vars
  PROVE  Orderly' /\ [Flow!Next]_Flow!vars
  <1>1. subScenario' = subScenario /\ Orderly'
    BY DEF SubStep, Orderly
  <1>2. \/ UNCHANGED <<inbox, deadLetters>>
        \/ \E w \in Workers : (Q!ProcessOK(w) \/ Q!deadLetter(w)) /\ UNCHANGED outVars
    BY Zenon
       DEF Next, Produce, LeaseEnds, Forward, InsertBegins, InsertNumbered, InsertEnds, InsertRepeated, ForwarderDies,
           Consume, WorkerDies, Passes, GiveUp, Q!Begin, Q!Insert, Q!Commit, Q!work, Q!claim, Q!claimNothing, Q!advance,
           Q!settle, Q!ProcessFails, Q!Crash, Q!Passes, Q!giveUp, Q!consumer, vars, subVars
  <1>3. CASE UNCHANGED <<inbox, deadLetters>>
    BY <1>1, <1>3, CommitFlows
  <1>4. ASSUME NEW w \in Workers, Q!ProcessOK(w) \/ Q!deadLetter(w), UNCHANGED outVars PROVE [Flow!Next]_Flow!vars
    BY <1>1, <1>4, ConsumeFlows
  <1> QED
    BY <1>1, <1>2, <1>3, <1>4

\* Nothing is committed at first.
LEMMA InitFlows == ASSUME Init, OutState, SubState, InsertInv, PlaceInv PROVE Flow!Init
  <1>1. subScenario.ordered \in BOOLEAN
    BY DEF SubState
  <1>2. \A e : RowsOf(e) = {}
    BY DEF Init, P!Init, P!NoRow, RowsOf
  <1>3. \A e \in Events : StageOf(e) = "none" /\ CausesOf(e) = {}
    BY <1>2, Stages, SMTT(30) DEF CausesOf
  <1> QED
    BY <1>1, <1>3 DEF Flow!Init, CausesOf

\* Nothing is inserted or placed at first.
LEMMA InitSeam == ASSUME Init PROVE InsertInv /\ PlaceInv
  <1>1. /\ \A e \in Events : msg[e].state = "none"
        /\ inserting = {} /\ DOMAIN bus = {} /\ \A o \in P!Ords : rows[o].status = "none"
    BY SMTT(30) DEF Init, P!Init, P!NoRow, Q!Init, Q!NoMessage, Events
  <1>2. InsertInv
    BY <1>1, SMTT(30) DEF InsertInv, P!OnBus
  <1>3. PlaceInv
    BY <1>1, SMTT(30) DEF PlaceInv, P!Positioned
  <1> QED
    BY <1>2, <1>3

\* The parts together are well formed.
LEMMA PartsTyped == ASSUME OutState, SubState, InsertInv PROVE TypeOK
  BY Zenon DEF TypeOK, OutState, SubState, InsertInv

-----------------------------------------------------------------------------
(* The queue's and the consumer's part, from what is proved about          *)
(* Delivery.                                                               *)

DP == INSTANCE DeliveryProofs WITH
          Msgs <- 1..MaxEvents, Scenarios <- {d[2] : d \in Deployments}, scenario <- subScenario, faults <- subFaults

SubInv == DP!IInv /\ DP!EndedInv

\* The constants are those Delivery is proved for.
LEMMA SubConstants ==
  /\ 1..MaxEvents \subseteq Nat \ {0} /\ 1..MaxEvents # {} /\ DP!IsFiniteSet(1..MaxEvents)
  /\ Workers # {}
  /\ {d[2] : d \in Deployments} \subseteq DP!Scenario
  /\ MaxDeliver \in Nat \ {0} /\ AdvanceBatch \in Nat \ {0}
  <1>1. MaxEvents \in Nat \ {0} /\ \A d \in Deployments : d[2] \in Q!Scenario
    BY PipelineConstants, ZenonT(30)
  <1>2. 1..MaxEvents \subseteq Nat \ {0} /\ 1 \in 1..MaxEvents
    BY <1>1
  <1>3. DP!IsFiniteSet(1..MaxEvents)
    <2>1. IsFiniteSet(1..MaxEvents)
      BY <1>1, FS_Interval, SMTT(30)
    <2> QED
      BY <2>1, ZenonT(30) DEF IsFiniteSet, DP!IsFiniteSet
  <1>4. Q!Scenario = DP!Scenario
    BY ZenonT(30) DEF Q!Scenario, DP!Scenario
  <1> QED
    BY <1>1, <1>2, <1>3, <1>4, PipelineConstants, SMTT(30)

\* The steps are Delivery's.
LEMMA SameSubNext == [Q!Next]_Q!vars => [DP!Next]_DP!vars
  BY ZenonT(60)
     DEF Q!Next, DP!Next, Q!vars, DP!vars, Q!Publishing, DP!Publishing, Q!work, DP!work, Q!Begin, DP!Begin, Q!Insert,
         DP!Insert, Q!Commit, DP!Commit, Q!Purge, DP!Purge, Q!Passes, DP!Passes, Q!claim, DP!claim, Q!claimNothing,
         DP!claimNothing, Q!advance, DP!advance, Q!settle, DP!settle, Q!ProcessOK, DP!ProcessOK, Q!ProcessFails,
         DP!ProcessFails, Q!deadLetter, DP!deadLetter, Q!Crash, DP!Crash, Q!giveUp, DP!giveUp, Q!EventOf, DP!EventOf,
         Q!NoMessage, DP!NoMessage, Q!Stored, DP!Stored, Q!Spend, DP!Spend, Q!Handling, DP!Handling, Q!LeaseHeld,
         DP!LeaseHeld, Q!Claimable, DP!Claimable, Q!Due, DP!Due, Q!Ready, DP!Ready, Q!Expired, DP!Expired, Q!Queued,
         DP!Queued, Q!Readable, DP!Readable, Q!Xmin, DP!Xmin, Q!NoDlv, DP!NoDlv, Q!IdleWorker, DP!IdleWorker, Q!Applied,
         DP!Applied, Q!MustRecord, DP!MustRecord, Q!Exhausted, DP!Exhausted, Q!Cardinality, DP!Cardinality, Q!bus, DP!bus,
         Q!consumer, DP!consumer

\* The queue's invariant holds at first.
LEMMA InitSub == ASSUME Init PROVE SubInv
  <1>1. DP!Init
    BY SMTT(30) DEF Init, Q!Init, DP!Init, Q!NoMessage, DP!NoMessage, Q!NoDlv, DP!NoDlv, Q!IdleWorker, DP!IdleWorker
  <1> QED
    BY <1>1, SubConstants, DP!InitIInv, DP!InitEnded, SMTT(30) DEF SubInv

\* The queue's invariant is what the pipeline needs of a state: an event and its message are one.
LEMMA SubHolds == ASSUME SubInv PROVE SubState
  <1>1. DP!IInv /\ DP!EndedInv /\ DP!TypeOK /\ DP!BusInv /\ DP!QueueInv
    BY SMTT(30) DEF SubInv, DP!IInv
  <1>2. /\ subScenario \in Q!Scenario /\ "retention" \notin subScenario.faults
        /\ subScenario.eventOf = [m \in Events |-> m]
    BY <1>1, PipelineConstants, SMTT(30) DEF DP!TypeOK
  <1>3. /\ subScenario.ordered \in BOOLEAN
        /\ \A m \in Events : DP!EventOf(m) = m /\ Q!EventOf(m) = m
    <2>1. subScenario.ordered \in BOOLEAN
      BY <1>2, ZenonT(30) DEF Q!Scenario
    <2> QED
      BY <1>2, <2>1, SMTT(30) DEF DP!EventOf, Q!EventOf
  <1>4. Q!TypeOK
    BY ZenonT(30), <1>1 DEF Q!TypeOK, DP!TypeOK, Q!Message, DP!Message, Q!Dlv, DP!Dlv, Q!Worker, DP!Worker, Q!Events,
                       DP!Events, Q!EventOf, DP!EventOf
  <1>5. \A e \in inbox \cup deadLetters : e \in Events /\ dlv[e].state # "none"
    BY <1>1, <1>3, SMTT(30) DEF DP!EndedInv, Events
  <1>6. ASSUME NEW w \in Workers, wrk[w].phase \in {"handling", "failed"}
        PROVE  /\ dlv[wrk[w].msg].state # "none"
               /\ subScenario.ordered /\ Orderly =>
                    wrk[w].msg \notin deadLetters /\ msg[wrk[w].msg].before \subseteq inbox \cup deadLetters
    <2>1. wrk[w].msg \in Events /\ msg[wrk[w].msg].before \subseteq Events
      BY <1>1, SMTT(30) DEF DP!TypeOK, DP!Worker, DP!Message, Events
    <2>2. dlv[wrk[w].msg].state # "none"
      BY <1>1, <1>6, <2>1, SMTT(30) DEF DP!EndedInv, DP!Handling, Events
    <2>3. ASSUME subScenario.ordered, Orderly
          PROVE  wrk[w].msg \notin deadLetters /\ msg[wrk[w].msg].before \subseteq inbox \cup deadLetters
      <3>1. DP!Calm /\ DP!Reliable
        BY <1>2, <2>3, SMTT(30) DEF Orderly, DP!Calm, DP!Reliable
      <3>2. /\ DP!EventOf(wrk[w].msg) \notin deadLetters
            /\ \A k \in msg[wrk[w].msg].before : DP!EventOf(k) \in inbox \cup deadLetters
        <4>1. \A j, k \in 1..MaxEvents : DP!EventOf(j) = DP!EventOf(k) => j = k
          BY <1>3, SMTT(30) DEF Events
        <4> QED
          BY <1>1, <1>6, <3>1, <4>1, SubConstants, DP!HandledInTurn, SMTT(30)
      <3> QED
        BY <1>3, <2>1, <3>2, SMTT(30)
    <2> QED
      BY <2>2, <2>3, SMTT(30)
  <1>7. /\ \A m \in Events : \A k \in msg[m].before :
             /\ msg[k].state \in {"stored", "purged"}
             /\ msg[m].state # "begun" => msg[k].seq < msg[m].seq
        /\ \A m \in Events : dlv[m].state # "none" => msg[m].state \in {"stored", "purged"}
    BY <1>1, SMTT(30) DEF DP!BusInv, DP!QueueInv, Events
  <1> QED
    BY <1>3, <1>4, <1>5, <1>6, <1>7, SMTT(30) DEF SubState

\* Every step keeps it, and does to messages what the pipeline needs.
LEMMA SubMoves == ASSUME OutState, SubInv, InsertInv, [Next]_vars PROVE SubInv' /\ SubStep
  <1>1. [DP!Next]_DP!vars
    BY SubSteps, SubHolds, SameSubNext, SMTT(30)
  <1>2. DP!IInv /\ DP!EndedInv
    BY SMTT(30) DEF SubInv
  <1>3. DP!IInv' /\ DP!EndedInv'
    BY <1>1, <1>2, SubConstants, DP!StepIInv, DP!EndedStep, SMTT(30)
  <1>4. subScenario' = subScenario /\ \A m \in Events : DP!MsgSteps(m)
    BY <1>1, <1>2, SubConstants, DP!ScenarioKept, DP!BusShape, SMTT(30) DEF Events
  <1>5. \A m \in Events : msg'[m].state # "none" =>
          msg'[m].before = IF msg[m].state = "none" THEN Q!Stored ELSE msg[m].before
    BY <1>4, Zenon DEF DP!MsgSteps, DP!Stored, Q!Stored
  <1> QED
    BY <1>3, <1>4, <1>5, SMTT(30) DEF SubInv, SubStep

-----------------------------------------------------------------------------
(* The outbox's part, from what is proved about Outbox.                    *)

OP == INSTANCE OutboxPublishing WITH
          Scenarios <- {d[1] : d \in Deployments}, scenario <- outScenario, faults <- outFaults

OutInv == OP!StreamInv

\* The constants are those Outbox is proved for.
LEMMA OutConstants ==
  /\ Forwarders # {}
  /\ {d[1] : d \in Deployments} \subseteq OP!Scenario
  /\ Batch \in Nat \ {0} /\ PurgeBatch \in Nat \ {0}
  /\ MaxEvents \in Nat
  BY PipelineConstants, Zenon DEF P!Scenario, OP!Scenario

\* Operators of Outbox that the pipeline uses.
LEMMA SameOut ==
  /\ P!Ords = OP!Ords /\ P!Positioned = OP!PositionedIn(rows) /\ P!Positioned' = OP!PositionedIn(rows')
  /\ \A p, q : P!Less(p, q) <=> OP!Less(p, q)
  /\ \A r : P!PointOf(r) = OP!PointOf(r)
  /\ \A todo : P!NextToPublish(todo) = OP!NextToPublish(todo)
  /\ \A e : P!OnBus(e) <=> OP!In(bus, e)
  BY Zenon DEF P!Ords, OP!Ords, P!Positioned, OP!PositionedIn, OP!There, P!Less, OP!Less, P!PointOf, OP!PointOf,
               P!NextToPublish, OP!NextToPublish, P!OnBus, OP!In

\* The steps are Outbox's.
LEMMA SameOutNext == [P!Next]_P!vars => [OP!Next]_OP!vars
  BY ZenonT(60)
     DEF P!Next, OP!Next, P!vars, OP!vars, P!Forward, OP!Forward, P!Emit, OP!Emit, P!EndTx, OP!EndTx, P!TakeLease,
         OP!TakeLease, P!NumberAndRead, OP!NumberAndRead, P!Publish, OP!Publish, P!Mark, OP!Mark, P!PublishFails,
         OP!PublishFails, P!Crash, OP!Crash, P!LeaseEnds, OP!LeaseEnds, P!Purge, OP!Purge, P!ResendAsked, OP!ResendAsked,
         P!ResendBatch, OP!ResendBatch, P!ResendFails, OP!ResendFails, P!Backup, OP!Backup, P!Recover, OP!Recover,
         P!Ords, OP!Ords, P!NoRow, OP!NoRow, P!Spend, OP!Spend, P!IdleFwd, OP!IdleFwd, P!Numbered, OP!Numbered,
         P!Unpublished, OP!Unpublished, P!Committed, OP!Committed, P!Less, OP!Less, P!PointOf, OP!PointOf,
         P!Cardinality, OP!Cardinality, P!NoResend, OP!NoResend, P!Zero, OP!Zero, P!Pending, OP!Pending,
         P!Unnumbered, OP!Unnumbered, P!NumberedRows, OP!NumberedRows, P!FirstOf, OP!FirstOf, P!LastSeq, OP!LastSeq,
         P!NumberedHistory, OP!NumberedHistory, P!UnpublishedIn, OP!UnpublishedIn, P!NextToPublish, OP!NextToPublish,
         P!Stored, OP!Stored, P!OnBus, OP!OnBus, P!MessageOf, OP!MessageOf, P!Marked, OP!Marked, P!Ahead, OP!Ahead,
         P!Beyond, OP!Beyond, P!EventsAfter, OP!EventsAfter, P!Drained, OP!Drained, P!Resets, OP!Resets

\* The outbox's invariant holds at first.
LEMMA InitOut == ASSUME Init PROVE OutInv
  <1>1. OP!Init
    BY DEF Init, P!Init, OP!Init, P!NoResend, OP!NoResend, P!Zero, OP!Zero, P!IdleFwd, OP!IdleFwd, P!NoRow, OP!NoRow,
           P!Ords, OP!Ords
  <1> QED
    BY <1>1, OutConstants, OP!StreamInit, Zenon DEF OutInv

\* No deployment restores the database or lets a process outlive its lease.
LEMMA OutKnown == ASSUME OutInv PROVE OP!Unrewound /\ OP!Restarted
  <1>1. outScenario \in {d[1] : d \in Deployments}
    BY Zenon DEF OutInv, OP!StreamInv, OP!NumberInv, OP!TypeOK
  <1> QED
    BY <1>1, PipelineConstants, Zenon DEF OP!Unrewound, OP!Restarted

\* The outbox's invariant is what the pipeline needs of a state.
LEMMA OutHolds == ASSUME OutInv PROVE OutState
  <1>1. /\ OP!TypeOK /\ outScenario.forwarders \subseteq Forwarders
        /\ \A f \in Forwarders : fwd[f].phase = "publishing" =>
             \E q \in OP!PositionedIn(rows) :
               /\ OP!NextToPublish(fwd[f].todo)[1].ev = rows[q].ev
               /\ \A p \in OP!PositionedIn(rows) :
                    OP!Less(OP!PointOf(rows[p]), OP!PointOf(rows[q])) => OP!In(bus, rows[p].ev)
        /\ \A o \in OP!Ords : OP!There(rows, o) => rows[o].ev \in 1..MaxEvents
        /\ \A o, p \in OP!Ords : OP!There(rows, o) /\ OP!There(rows, p) /\ rows[o].ev = rows[p].ev => o = p
        /\ \A o \in OP!Ords : \A c \in rows[o].seen :
             \E p \in OP!Ords :
               /\ OP!There(rows, p) /\ rows[p].ev = c
               /\ o \in OP!PositionedIn(rows) =>
                    p \in OP!PositionedIn(rows) /\ OP!Less(OP!PointOf(rows[p]), OP!PointOf(rows[o]))
    BY OutKnown, OutConstants, OP!StreamState, Zenon DEF OutInv
  <1>2. P!TypeOK
    BY Zenon, <1>1 DEF P!TypeOK, OP!TypeOK, P!Ords, OP!Ords, P!Row, OP!Row, P!Counter, OP!Counter, P!Point, OP!Point,
                       P!Fork, OP!Fork, P!Fwd, OP!Fwd, P!Message, OP!Message, P!Resend, OP!Resend
  <1>3. "rewind" \notin outScenario.faults
    BY OutKnown, Zenon DEF OP!Unrewound
  <1>4. \A f \in Forwarders : fwd[f].phase = "publishing" =>
          \E q \in P!Positioned : /\ Publishes(f) = rows[q].ev
                                  /\ \A p \in P!Positioned : Before(p, q) => P!OnBus(rows[p].ev)
    BY <1>1, SameOut, Zenon DEF Before, Publishes
  <1>5. /\ \A o \in P!Ords : There(o) => rows[o].ev \in Events
        /\ \A o, p \in P!Ords : There(o) /\ There(p) /\ rows[o].ev = rows[p].ev => o = p
    BY <1>1, SameOut, Zenon DEF There, Events, OP!There
  <1>6. ASSUME NEW o \in P!Ords, NEW c \in rows[o].seen
        PROVE  \E p \in P!Ords : /\ There(p) /\ rows[p].ev = c
                                 /\ o \in P!Positioned => p \in P!Positioned /\ Before(p, o)
    <2>1. PICK p \in OP!Ords :
            /\ OP!There(rows, p) /\ rows[p].ev = c
            /\ o \in OP!PositionedIn(rows) =>
                 p \in OP!PositionedIn(rows) /\ OP!Less(OP!PointOf(rows[p]), OP!PointOf(rows[o]))
      BY <1>1, <1>6, SameOut, Zenon
    <2> QED
      BY <2>1, SameOut, Zenon DEF There, Before, OP!There
  <1> QED
    BY <1>1, <1>2, <1>3, <1>4, <1>5, <1>6, Zenon DEF OutState

\* Every step keeps it, and does to rows what the pipeline needs.
LEMMA OutMoves == ASSUME OutInv, [Next]_vars PROVE OutInv' /\ OutStep
  <1>1. [OP!Next]_OP!vars
    BY OutSteps, SameOutNext, Zenon
  <1>2. /\ OP!StreamInv' /\ outScenario' = outScenario
        /\ \A o \in OP!Ords : OP!There(rows, o) => OP!There(rows', o)
        /\ \A o \in OP!Ords : OP!There(rows', o) => rows'[o].ev = rows[o].ev /\ rows'[o].seen = rows[o].seen
        /\ \A o, p \in OP!Ords : OP!There(rows', o) /\ ~OP!There(rows, o) /\ o # p => rows'[p] = rows[p]
        /\ \A o \in OP!PositionedIn(rows) : /\ o \in OP!PositionedIn(rows')
                                            /\ OP!PointOf(rows'[o]) = OP!PointOf(rows[o])
        /\ \A o \in OP!PositionedIn(rows), p \in OP!PositionedIn(rows') :
             OP!Less(OP!PointOf(rows'[p]), OP!PointOf(rows'[o])) => p \in OP!PositionedIn(rows)
    BY <1>1, OutKnown, OutConstants, OP!StreamStep, Zenon DEF OutInv
  <1> QED
    BY <1>2, SameOut, Zenon DEF OutInv, OutStep, There, Before, OP!There

-----------------------------------------------------------------------------
(* The whole.                                                              *)

\* The inductive invariant.
PInv == OutInv /\ SubInv /\ InsertInv /\ PlaceInv

\* The initial state satisfies it.
LEMMA InitPInv == ASSUME Init PROVE PInv
  BY InitOut, InitSub, InitSeam, Zenon DEF PInv

\* Every step keeps it.
LEMMA StepPInv == ASSUME PInv, [Next]_vars PROVE PInv' /\ OutStep /\ SubStep
  <1>1. OutState /\ SubState /\ OutInv' /\ OutStep
    BY OutHolds, SubHolds, OutMoves, Zenon DEF PInv
  <1>2. SubInv' /\ SubStep
    BY <1>1, SubMoves, Zenon DEF PInv
  <1>3. OutState' /\ SubState'
    BY <1>1, <1>2, OutHolds, SubHolds, PTL
  <1>4. InsertInv' /\ PlaceInv'
    BY <1>1, <1>2, <1>3, InsertStep, PlaceStep, Zenon DEF PInv
  <1> QED
    BY <1>1, <1>2, <1>4, Zenon DEF PInv

\* The invariant holds in every state of every behaviour.
THEOREM Inductive == Spec => []PInv
  BY InitPInv, StepPInv, PTL DEF Spec

\* For any number of events, forwarders and workers the composed state is well formed, no two forwarders insert the
\* same event, and what the outbox takes to be published is exactly what the queue has stored (forwarder.go:
\* partition; pgqueue.go: Publish).
THEOREM WellFormed == Spec => []TypeOK
  <1>1. ASSUME PInv PROVE TypeOK
    BY <1>1, OutHolds, SubHolds, PartsTyped, Zenon DEF PInv
  <1> QED
    BY Inductive, <1>1, PTL

\* However many forwarders overlap, fail and die, an event that follows another one in the partition is stored after
\* it and with the larger number in the queue (forwarder.go: partition; pgqueue.go: Publish).
THEOREM QueueOrdered == Spec => []QueueFollowsPositions
  <1>1. ASSUME PInv PROVE QueueFollowsPositions
    BY <1>1, OutHolds, SubHolds, PlacesOrder, Zenon DEF PInv
  <1> QED
    BY Inductive, <1>1, PTL

\* Outbox, forwarders, queue and consumer, in any number, implement EventFlow: an event takes effect at most once or
\* becomes a dead letter, only after its transaction committed, and on an ordered subscription only after every event
\* committed before it was emitted has ended (number.go: numberIn; forwarder.go: partition; pgqueue.go: advance,
\* claimOrdered; consumer.go: Handle).
THEOREM EventsFlow == Spec /\ Orderly => ImplementsEventFlow
  <1>1. ASSUME PInv, PInv', Orderly, [Next]_vars PROVE Orderly' /\ [Flow!Next]_Flow!vars
    <2>1. OutState /\ SubState /\ OutStep /\ SubStep
      BY <1>1, OutHolds, SubHolds, StepPInv, Zenon DEF PInv
    <2>2. OutInv'
      BY <1>1, Zenon DEF PInv
    <2>3. OutState'
      BY <2>2, OutHolds, PTL
    <2> QED
      BY <1>1, <2>1, <2>3, StepFlows, Zenon DEF PInv
  <1>2. ASSUME Init PROVE Flow!Init
    BY <1>2, InitPInv, InitFlows, OutHolds, SubHolds, Zenon DEF PInv
  <1> QED
    BY Inductive, <1>1, <1>2, PTL DEF Spec, ImplementsEventFlow, Flow!Spec
=============================================================================
