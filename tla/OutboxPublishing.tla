-------------------------- MODULE OutboxPublishing --------------------------
(***************************************************************************)
(* Proofs about what Outbox publishes, purges and sends again, for any     *)
(* number of events and forwarders, any batch sizes and any mixture of     *)
(* faults, failovers and restores, while forwarders do not outlive a       *)
(* restore.                                                                *)
(*                                                                         *)
(* The steps that do not number take every row to a later version of       *)
(* itself (Kept); those that number are NumberShape's; a restore brings    *)
(* the backup back, of which everything is known that is known of the      *)
(* tables.                                                                 *)
(***************************************************************************)
EXTENDS OutboxProofs

-----------------------------------------------------------------------------
(* Publishing, while forwarders do not outlive a restore.                  *)

Restarted == "outlive" \notin scenario.faults

\* An event is in b, which stands for the bus.
In(b, ev) == \E k \in DOMAIN b : b[k].ev = ev

\* Marked rows are on the bus, and those before them are marked.
MarkIn(b, rs) ==
    /\ \A o \in Ords : rs[o].marked => rs[o].seq # 0 /\ In(b, rs[o].ev)
    /\ \A o, p \in PositionedIn(rs) : (rs[o].marked /\ Less(PointOf(rs[p]), PointOf(rs[o]))) => rs[p].marked

\* A position on the bus belongs to the event of its row.
AgreeIn(b, rs) ==
    \A k \in DOMAIN b : \A o \in PositionedIn(rs) :
        rs[o].epoch = b[k].epoch /\ rs[o].seq = b[k].seq => rs[o].ev = b[k].ev

\* What is on the bus was emitted and numbered, and an event of an open transaction is not.
BusIn(b, rs, c, e, d) ==
    /\ \A k \in DOMAIN b : /\ b[k].ev <= e /\ 0 < b[k].seq /\ b[k].epoch <= d
                           /\ b[k].epoch = d => c.epoch = d /\ b[k].seq <= c.last
    /\ \A o \in Ords : rs[o].status = "open" => ~In(b, rs[o].ev)

\* A forwarder x and its batch: what it has to do are rows, published in position order, and whatever is before one of
\* its rows is marked or in the batch.
Todo(x) == {t[2] : t \in x.todo}

BatchIn(x, b, rs) ==
    /\ x.phase \in {"idle", "leased"} => x.todo = {} /\ x.done = {}
    /\ x.phase = "marking" => x.todo = {}
    /\ \A t \in x.todo : t[1].ev = rs[t[2]].ev /\ PointOf(t[1]) = PointOf(rs[t[2]])
    /\ \A t, u \in x.todo : t[2] = u[2] => t = u
    /\ Todo(x) \cup x.done \subseteq PositionedIn(rs)
    /\ \A o \in x.done : In(b, rs[o].ev)
    /\ \A o \in Todo(x) \cup x.done, p \in PositionedIn(rs) :
         Less(PointOf(rs[p]), PointOf(rs[o])) => rs[p].marked \/ p \in Todo(x) \cup x.done
    /\ \A o \in x.done, p \in Todo(x) : Less(PointOf(rs[o]), PointOf(rs[p]))

\* An event on the bus has those before it on the bus before it.
FirstIn(b, rs) ==
    \A k \in DOMAIN b : \A o, p \in Ords :
        (There(rs, o) /\ rs[o].ev = b[k].ev /\ rs[p].status \in {"open", "committed", "purged"} /\ Prec(rs, p, o)) =>
            \E j \in 1..(k - 1) : b[j].ev = rs[p].ev

\* bs, which stands for the backup, is an earlier state of the rows rs.
BackupIn(bs, rs) ==
    /\ \A o \in Ords : There(bs, o) => /\ There(rs, o) /\ rs[o].ev = bs[o].ev
                                       /\ bs[o].seq # 0 => PointOf(rs[o]) = PointOf(bs[o])
    /\ \A o, p \in Ords : There(bs, o) /\ There(bs, p) /\ Prec(bs, p, o) => Prec(rs, p, o)

\* A redelivery r has sent, or has still ahead of it, what is kept.
ResendIn(r, rs, e) ==
    /\ r.kept \subseteq 1..e
    /\ \A o \in Ords : rs[o].ev \in r.kept =>
         /\ o \in PositionedIn(rs) /\ rs[o].marked
         /\ \/ rs[o].status = "purged" \/ rs[o].ev \in r.sent
            \/ r.phase = "sending" /\ Less(r.after, PointOf(rs[o]))

Parts ==
    /\ MarkIn(bus, rows) /\ MarkIn(bus, backup.rows)
    /\ AgreeIn(bus, rows) /\ AgreeIn(bus, backup.rows)
    /\ BusIn(bus, rows, counter, emitted, dbEpoch)
    /\ \A f \in Forwarders : BatchIn(fwd[f], bus, rows)
    /\ FirstIn(bus, rows) /\ FirstIn(bus, backup.rows)
    /\ BackupIn(backup.rows, rows)
    /\ ResendIn(resend, rows, emitted)

PublishInv == Restarted => Parts

-----------------------------------------------------------------------------
(* Steps that do not number keep what was published.                       *)

\* Marks keep following positions when the rows before a newly marked one are marked with it.
LEMMA MarkKept ==
  ASSUME NEW rs \in [Ords -> Row], NEW rt \in [Ords -> Row], NEW e \in Nat, RowsInv(rs, e), Kept(rs, rt, e),
         NEW b, MarkIn(b, rs),
         \A o \in Ords : rt[o].marked /\ ~rs[o].marked =>
            /\ rs[o].seq # 0 /\ In(b, rs[o].ev)
            /\ \A p \in PositionedIn(rs) : Less(PointOf(rs[p]), PointOf(rs[o])) => rt[p].marked
  PROVE  MarkIn(b, rt)
  <1>1. \A o \in Ords : rs[o].marked => rt[o].marked
    BY Zenon DEF Kept
  <1>2. \A o \in Ords : rt[o].seq = rs[o].seq
    BY Zenon DEF Kept
  <1>3. ASSUME NEW o \in Ords, rt[o].marked PROVE rt[o].seq # 0 /\ In(b, rt[o].ev)
    <2>1. rs[o].seq # 0 /\ In(b, rs[o].ev)
      BY <1>3, Zenon DEF MarkIn
    <2> QED
      BY <1>2, <2>1, KeptPositions, Zenon
  <1>4. ASSUME NEW o \in PositionedIn(rt), NEW p \in PositionedIn(rt), rt[o].marked, Less(PointOf(rt[p]), PointOf(rt[o]))
        PROVE  rt[p].marked
    <2>1. o \in Ords /\ p \in Ords /\ o \in PositionedIn(rs) /\ p \in PositionedIn(rs)
      BY KeptPositions, Zenon DEF PositionedIn
    <2>2. Less(PointOf(rs[p]), PointOf(rs[o]))
      BY <1>4, <2>1, KeptPositions, Zenon DEF PositionedIn
    <2> QED
      BY <1>1, <1>4, <2>1, <2>2, Zenon DEF MarkIn
  <1> QED
    BY <1>3, <1>4, Zenon DEF MarkIn

\* The bus goes on agreeing with the rows, and has them in order.
LEMMA BusKept ==
  ASSUME NEW rs \in [Ords -> Row], NEW rt \in [Ords -> Row], NEW e \in Nat, RowsInv(rs, e), Kept(rs, rt, e),
         NEW b, AgreeIn(b, rs), FirstIn(b, rs), \A o \in Ords : rs[o].status = "open" => ~In(b, rs[o].ev)
  PROVE  AgreeIn(b, rt) /\ FirstIn(b, rt)
  <1>1. AgreeIn(b, rt)
    <2>1. \A o \in PositionedIn(rt) : /\ o \in PositionedIn(rs) /\ rt[o].epoch = rs[o].epoch
                                     /\ rt[o].seq = rs[o].seq /\ rt[o].ev = rs[o].ev
      BY KeptPositions, SMTT(30) DEF PositionedIn, Kept
    <2> QED
      BY <2>1, Zenon DEF AgreeIn
  <1>2. ASSUME NEW k \in DOMAIN b, NEW o \in Ords, NEW p \in Ords,
               There(rt, o), rt[o].ev = b[k].ev, rt[p].status \in {"open", "committed", "purged"}, Prec(rt, p, o)
        PROVE  \E j \in 1..(k - 1) : b[j].ev = rt[p].ev
    <2>1. There(rs, o) /\ rs[o].ev = b[k].ev
      BY <1>2, ZenonT(30) DEF Kept, There, In
    <2>2. Prec(rs, p, o)
      BY <1>2, KeptPositions, Zenon
    <2>3. rs[p].status # "none"
      <3>1. SUFFICES ASSUME rs[p].status = "none" PROVE FALSE
        BY Zenon
      <3>2. rs[p].seq = 0
        BY <3>1, SMTT(30) DEF RowsInv, NoRow
      <3>3. p < o
        BY <2>2, <3>2, Zenon DEF Prec
      <3> QED
        BY <2>1, <3>1, <3>3, Zenon DEF RowsInv, There
    <2>4. rs[p].status \in {"open", "committed", "purged"} /\ rt[p].ev = rs[p].ev
      <3>1. rs[p] \in Row
        BY Zenon
      <3> QED
        BY <1>2, <2>3, <3>1, Zenon DEF Kept, There, Row
    <2> QED
      BY <2>1, <2>2, <2>4, Zenon DEF FirstIn
  <1> QED
    BY <1>1, <1>2, Zenon DEF FirstIn

\* A batch stays one.
LEMMA BatchKept ==
  ASSUME NEW rs \in [Ords -> Row], NEW rt \in [Ords -> Row], NEW e \in Nat, RowsInv(rs, e), Kept(rs, rt, e),
         NEW b, NEW x, BatchIn(x, b, rs)
  PROVE  BatchIn(x, b, rt)
  <1>1. \A o \in PositionedIn(rs) : /\ o \in Ords /\ o \in PositionedIn(rt) /\ PointOf(rt[o]) = PointOf(rs[o])
                                    /\ rt[o].ev = rs[o].ev /\ (rs[o].marked => rt[o].marked)
    BY KeptPositions, SMTT(30) DEF PositionedIn, Kept
  <1>2. \A o \in PositionedIn(rt) : o \in PositionedIn(rs)
    BY KeptPositions, Zenon DEF PositionedIn
  <1>3. \A t \in x.todo : t[2] \in Todo(x)
    BY Zenon DEF Todo
  <1> QED
    BY <1>1, <1>2, <1>3, Zenon DEF BatchIn

\* The backup stays an earlier state, and a redelivery keeps what it has to send.
LEMMA OthersKept ==
  ASSUME NEW rs \in [Ords -> Row], NEW rt \in [Ords -> Row], NEW e \in Nat, NEW et \in Nat, e <= et,
         RowsInv(rs, e), Kept(rs, rt, e), NEW bs, NEW r
  PROVE  /\ BackupIn(bs, rs) => BackupIn(bs, rt)
         /\ ResendIn(r, rs, e) => ResendIn(r, rt, et)
  <1>0. /\ \A o \in PositionedIn(rs) : /\ o \in Ords /\ o \in PositionedIn(rt) /\ PointOf(rt[o]) = PointOf(rs[o])
                                       /\ rt[o].ev = rs[o].ev /\ (rs[o].marked => rt[o].marked)
        /\ \A o \in PositionedIn(rt) : o \in PositionedIn(rs)
        /\ \A o, p \in Ords : Prec(rt, p, o) <=> Prec(rs, p, o)
    BY KeptPositions, SMTT(30) DEF PositionedIn, Kept
  <1>1. ASSUME BackupIn(bs, rs) PROVE BackupIn(bs, rt)
    <2>1. ASSUME NEW o \in Ords, There(bs, o)
          PROVE  /\ There(rt, o) /\ rt[o].ev = bs[o].ev
                 /\ bs[o].seq # 0 => PointOf(rt[o]) = PointOf(bs[o])
      <3>1. There(rs, o) /\ rs[o].ev = bs[o].ev /\ (bs[o].seq # 0 => PointOf(rs[o]) = PointOf(bs[o]))
        BY <1>1, <2>1, Zenon DEF BackupIn
      <3>2. There(rt, o) /\ rt[o].ev = rs[o].ev
        BY <3>1, Zenon DEF Kept, There
      <3>3. bs[o].seq # 0 => o \in PositionedIn(rs)
        BY <3>1, Zenon DEF PositionedIn, PointOf
      <3> QED
        BY <1>0, <3>1, <3>2, <3>3, Zenon
    <2> QED
      BY <1>0, <1>1, <2>1, Zenon DEF BackupIn
  <1>2. ASSUME ResendIn(r, rs, e) PROVE ResendIn(r, rt, et)
    <2>1. r.kept \subseteq 1..et /\ e + 1 \notin r.kept
      BY <1>2, SMTT(30) DEF ResendIn
    <2>2. ASSUME NEW o \in Ords, rt[o].ev \in r.kept
          PROVE  /\ o \in PositionedIn(rt) /\ rt[o].marked
                 /\ \/ rt[o].status = "purged" \/ rt[o].ev \in r.sent
                    \/ r.phase = "sending" /\ Less(r.after, PointOf(rt[o]))
      <3>1. rs[o].ev = rt[o].ev
        BY <2>1, <2>2, Zenon DEF Kept
      <3>2. /\ o \in PositionedIn(rs) /\ rs[o].marked
            /\ \/ rs[o].status = "purged" \/ rs[o].ev \in r.sent
               \/ r.phase = "sending" /\ Less(r.after, PointOf(rs[o]))
        BY <1>2, <2>2, <3>1, Zenon DEF ResendIn
      <3>3. rs[o].status = "purged" => rt[o].status = "purged"
        BY Zenon DEF Kept
      <3> QED
        BY <1>0, <3>1, <3>2, <3>3, Zenon
    <2> QED
      BY <2>1, <2>2, Zenon DEF ResendIn
  <1> QED
    BY <1>1, <1>2, Zenon

-----------------------------------------------------------------------------
(* Numbering keeps what was published.                                     *)

\* Numbering keeps marks, the bus, the other forwarders' batches, the backup and a redelivery as they should be.
LEMMA RenumberedKeeps ==
  ASSUME NEW rs \in [Ords -> Row], NEW rt \in [Ords -> Row], NEW e \in Nat, RowsInv(rs, e),
         NEW d \in Nat, NEW last \in Nat, Renumbered(rs, rt, d, last),
         NEW b, NEW x, NEW bs, NEW r
  PROVE  /\ MarkIn(b, rs) => MarkIn(b, rt)
         /\ AgreeIn(b, rs) /\ (\A k \in DOMAIN b : b[k].epoch = d => b[k].seq \in Nat /\ b[k].seq <= last) => AgreeIn(b, rt)
         /\ FirstIn(b, rs) => FirstIn(b, rt)
         /\ BatchIn(x, b, rs) => BatchIn(x, b, rt)
         /\ BackupIn(bs, rs) => BackupIn(bs, rt)
         /\ ResendIn(r, rs, e) => ResendIn(r, rt, e)
  <1>0. /\ \A o \in Ords : rt[o].status = rs[o].status /\ rt[o].ev = rs[o].ev /\ rt[o].marked = rs[o].marked
        /\ \A o \in PositionedIn(rs) : o \in Ords /\ o \in PositionedIn(rt) /\ rt[o] = rs[o]
        /\ \A o \in PositionedIn(rt), p \in PositionedIn(rt) :
              o \in PositionedIn(rs) /\ Less(PointOf(rt[p]), PointOf(rt[o])) => p \in PositionedIn(rs)
        /\ \A o \in Ords : rs[o].seq # 0 => o \in PositionedIn(rs)
    <2>1. \A o \in Ords : rt[o].status = rs[o].status /\ rt[o].ev = rs[o].ev /\ rt[o].marked = rs[o].marked
      BY Zenon DEF Renumbered
    <2>2. \A o \in Ords : rs[o].seq # 0 => o \in PositionedIn(rs)
      BY Zenon DEF RowsInv, PositionedIn
    <2> QED
      BY <2>1, <2>2, RenumberedOrder, Zenon
  <1>1. ASSUME MarkIn(b, rs) PROVE MarkIn(b, rt)
    <2>1. \A o \in Ords : rt[o].marked => o \in PositionedIn(rs) /\ rt[o].seq # 0 /\ In(b, rt[o].ev)
      BY <1>0, <1>1, Zenon DEF MarkIn
    <2>2. \A o \in PositionedIn(rt) : o \in Ords
      BY Zenon DEF PositionedIn
    <2>3. ASSUME NEW o \in PositionedIn(rt), NEW p \in PositionedIn(rt), rt[o].marked,
                 Less(PointOf(rt[p]), PointOf(rt[o]))
          PROVE  rt[p].marked
      <3>1. o \in PositionedIn(rs) /\ p \in PositionedIn(rs)
        BY <1>0, <2>1, <2>2, <2>3, Zenon
      <3>2. rt[o] = rs[o] /\ rt[p] = rs[p]
        BY <1>0, <3>1, Zenon
      <3> QED
        BY <1>1, <2>3, <3>1, <3>2, Zenon DEF MarkIn
    <2> QED
      BY <2>1, <2>3, Zenon DEF MarkIn
  <1>2. ASSUME AgreeIn(b, rs), \A k \in DOMAIN b : b[k].epoch = d => b[k].seq \in Nat /\ b[k].seq <= last
        PROVE  AgreeIn(b, rt)
    <2> SUFFICES ASSUME NEW k \in DOMAIN b, NEW o \in PositionedIn(rt), rt[o].epoch = b[k].epoch, rt[o].seq = b[k].seq
                 PROVE  rt[o].ev = b[k].ev
      BY Zenon DEF AgreeIn
    <2>1. CASE o \in PositionedIn(rs)
      BY <1>0, <1>2, <2>1, SMTT(30) DEF AgreeIn
    <2>2. CASE o \notin PositionedIn(rs)
      <3>1. o \in Ords /\ rt[o].seq # 0 /\ rs[o].seq = 0
        BY <1>0, <2>2, Zenon DEF PositionedIn
      <3>2. rt[o].epoch = d /\ last < rt[o].seq
        BY <3>1, Zenon DEF Renumbered
      <3>3. b[k].seq \in Nat /\ b[k].seq <= last
        BY <1>2, <3>2, Zenon
      <3> QED
        BY <3>2, <3>3, SMTT(30)
    <2> QED
      BY <2>1, <2>2, Zenon
  <1>3. ASSUME FirstIn(b, rs) PROVE FirstIn(b, rt)
    <2> SUFFICES ASSUME NEW k \in DOMAIN b, NEW o \in Ords, NEW p \in Ords, There(rt, o), rt[o].ev = b[k].ev,
                        rt[p].status \in {"open", "committed", "purged"}, Prec(rt, p, o)
                 PROVE  \E j \in 1..(k - 1) : b[j].ev = rt[p].ev
      BY Zenon DEF FirstIn
    <2>1. There(rs, o) /\ rs[o].ev = b[k].ev /\ rs[p].status \in {"open", "committed", "purged"} /\ rt[p].ev = rs[p].ev
      BY <1>0, Zenon DEF There
    <2>2. o # p
      <3>1. rt[o].epoch \in Nat /\ rt[o].seq \in Nat /\ o \in Nat
        BY OrdsFinite, Zenon DEF Row
      <3> QED
        BY <3>1, SMTT(30) DEF Prec, Less, PointOf
    <2>3. Prec(rs, p, o)
      BY <2>1, <2>2, RenumberedOrder, Zenon
    <2> QED
      BY <1>3, <2>1, <2>3, Zenon DEF FirstIn
  <1>4. ASSUME BatchIn(x, b, rs) PROVE BatchIn(x, b, rt)
    <2>1. \A t \in x.todo : t[2] \in Todo(x)
      BY Zenon DEF Todo
    <2>2. Todo(x) \cup x.done \subseteq PositionedIn(rs)
      BY <1>4, Zenon DEF BatchIn
    <2>3. ASSUME NEW o \in Todo(x) \cup x.done, NEW p \in PositionedIn(rt), Less(PointOf(rt[p]), PointOf(rt[o]))
          PROVE  rt[p].marked \/ p \in Todo(x) \cup x.done
      <3>1. o \in PositionedIn(rs) /\ p \in PositionedIn(rs)
        BY <1>0, <2>2, <2>3, Zenon
      <3>2. rt[o] = rs[o] /\ rt[p] = rs[p]
        BY <1>0, <3>1, Zenon
      <3> QED
        BY <1>4, <2>3, <3>1, <3>2, Zenon DEF BatchIn
    <2>4. \A o \in Todo(x) \cup x.done : rt[o] = rs[o] /\ o \in PositionedIn(rt)
      BY <1>0, <2>2, Zenon
    <2> QED
      BY <1>4, <2>1, <2>3, <2>4, Zenon DEF BatchIn
  <1>5. ASSUME BackupIn(bs, rs) PROVE BackupIn(bs, rt)
    <2>1. ASSUME NEW o \in Ords, There(bs, o)
          PROVE  /\ There(rt, o) /\ rt[o].ev = bs[o].ev
                 /\ bs[o].seq # 0 => PointOf(rt[o]) = PointOf(bs[o])
      <3>1. There(rs, o) /\ rs[o].ev = bs[o].ev /\ (bs[o].seq # 0 => PointOf(rs[o]) = PointOf(bs[o]))
        BY <1>5, <2>1, Zenon DEF BackupIn
      <3>2. There(rt, o)
        BY <1>0, <3>1, Zenon DEF There
      <3>3. bs[o].seq # 0 => rs[o].seq # 0
        BY <3>1, Zenon DEF PointOf
      <3> QED
        BY <1>0, <3>1, <3>2, <3>3, Zenon
    <2>2. ASSUME NEW o \in Ords, NEW p \in Ords, There(bs, o), There(bs, p), Prec(bs, p, o) PROVE Prec(rt, p, o)
      <3>1. There(rs, o) /\ There(rs, p) /\ Prec(rs, p, o)
        BY <1>5, <2>2, Zenon DEF BackupIn
      <3>2. o # p
        <4>1. rs[o].epoch \in Nat /\ rs[o].seq \in Nat /\ o \in Nat
          BY OrdsFinite, Zenon DEF Row
        <4> QED
          BY <3>1, <4>1, SMTT(30) DEF Prec, Less, PointOf
      <3> QED
        BY <3>1, <3>2, RenumberedOrder, Zenon DEF There
    <2> QED
      BY <2>1, <2>2, Zenon DEF BackupIn
  <1>6. ASSUME ResendIn(r, rs, e) PROVE ResendIn(r, rt, e)
    <2>1. ASSUME NEW o \in Ords, rt[o].ev \in r.kept
          PROVE  rt[o] = rs[o] /\ o \in PositionedIn(rs) /\ o \in PositionedIn(rt)
      BY <1>0, <1>6, <2>1, Zenon DEF ResendIn
    <2> QED
      BY <1>6, <2>1, Zenon DEF ResendIn
  <1> QED
    BY <1>1, <1>2, <1>3, <1>4, <1>5, <1>6, Zenon

-----------------------------------------------------------------------------
(* The bus grows.                                                          *)

\* bt is b with one more message.
Longer(b, bt, m) == bt = Append(b, m)

\* What was on the bus stays there, and the new message is on it.
LEMMA Appended ==
  ASSUME NEW b \in Seq(Message), NEW m \in Message, NEW bt, Longer(b, bt, m)
  PROVE  /\ Len(b) \in Nat /\ DOMAIN b = 1..Len(b) /\ DOMAIN bt = 1..(Len(b) + 1)
         /\ \A k \in DOMAIN b : bt[k] = b[k]
         /\ bt[Len(b) + 1] = m
         /\ \A ev : In(bt, ev) <=> In(b, ev) \/ ev = m.ev
  <1>1. /\ Len(b) \in Nat /\ DOMAIN b = 1..Len(b) /\ DOMAIN bt = 1..(Len(b) + 1)
        /\ \A k \in DOMAIN b : bt[k] = b[k]
        /\ bt[Len(b) + 1] = m
    BY SMTT(30) DEF Longer
  <1>2. \A k \in DOMAIN bt : k \in DOMAIN b \/ k = Len(b) + 1
    BY <1>1, SMTT(30)
  <1>3. DOMAIN b \subseteq DOMAIN bt /\ Len(b) + 1 \in DOMAIN bt
    BY <1>1, SMTT(30)
  <1>4. ASSUME NEW ev PROVE In(bt, ev) <=> In(b, ev) \/ ev = m.ev
    BY <1>1, <1>2, <1>3, Zenon DEF In
  <1> QED
    BY <1>1, <1>4, Zenon

\* The next row q of a batch x of the rows rs: those before it are on the bus.
LEMMA BeforeNext ==
  ASSUME NEW rs \in [Ords -> Row], NEW b, MarkIn(b, rs), NEW x \in Fwd, BatchIn(x, b, rs), x.todo # {},
         NEW q, q = NextToPublish(x.todo)[2]
  PROVE  /\ NextToPublish(x.todo) \in x.todo /\ q \in Todo(x) /\ q \in Ords /\ q \in PositionedIn(rs)
         /\ NextToPublish(x.todo)[1].ev = rs[q].ev /\ PointOf(NextToPublish(x.todo)[1]) = PointOf(rs[q])
         /\ \A p \in Todo(x) : ~Less(PointOf(rs[p]), PointOf(rs[q]))
         /\ \A p \in PositionedIn(rs) : Less(PointOf(rs[p]), PointOf(rs[q])) => In(b, rs[p].ev)
  <1> DEFINE t == NextToPublish(x.todo)
  <1>0. x.todo \subseteq Row \X Ords
    BY Zenon DEF Fwd
  <1>1. t \in x.todo /\ \A u \in x.todo : ~Less(PointOf(u[1]), PointOf(t[1]))
    BY <1>0, NextIsLeast, Zenon
  <1> HIDE DEF t
  <1>2. q \in Todo(x) /\ q \in Ords /\ q = t[2]
    BY <1>0, <1>1, Zenon DEF Todo, t
  <1>3. /\ q \in PositionedIn(rs) /\ t[1].ev = rs[q].ev /\ PointOf(t[1]) = PointOf(rs[q])
        /\ \A u \in x.todo : PointOf(u[1]) = PointOf(rs[u[2]])
    BY <1>1, <1>2, Zenon DEF BatchIn
  <1>4. \A p \in Todo(x) : ~Less(PointOf(rs[p]), PointOf(rs[q]))
    BY <1>1, <1>3, Zenon DEF Todo
  <1>5. ASSUME NEW p \in PositionedIn(rs), Less(PointOf(rs[p]), PointOf(rs[q])) PROVE In(b, rs[p].ev)
    <2>1. rs[p].marked \/ p \in x.done
      BY <1>2, <1>4, <1>5, Zenon DEF BatchIn
    <2> QED
      BY <2>1, Zenon DEF BatchIn, MarkIn, PositionedIn
  <1> QED
    BY <1>1, <1>2, <1>3, <1>4, <1>5, Zenon DEF t

\* What a forwarder publishes next is a row with everything before it on the bus.
LEMMA PublishesNext ==
  ASSUME TypeOK, Parts, NEW f \in Forwarders, fwd[f].phase = "publishing"
  PROVE  \E q \in PositionedIn(rows) :
           /\ NextToPublish(fwd[f].todo)[1].ev = rows[q].ev
           /\ \A p \in PositionedIn(rows) : Less(PointOf(rows[p]), PointOf(rows[q])) => In(bus, rows[p].ev)
  <1>1. rows \in [Ords -> Row] /\ fwd[f] \in Fwd /\ fwd[f].todo # {}
    BY SMTT(30) DEF TypeOK
  <1>2. MarkIn(bus, rows) /\ BatchIn(fwd[f], bus, rows)
    BY Zenon DEF Parts
  <1> DEFINE q == NextToPublish(fwd[f].todo)[2]
  <1>3. /\ q \in PositionedIn(rows) /\ NextToPublish(fwd[f].todo)[1].ev = rows[q].ev
        /\ \A p \in PositionedIn(rows) : Less(PointOf(rows[p]), PointOf(rows[q])) => In(bus, rows[p].ev)
    BY <1>1, <1>2, BeforeNext, SMTT(30)
  <1> QED
    BY <1>3, Zenon

\* A message of the next row q leaves the bus in order and in agreement with the rows, and with an earlier state of them.
LEMMA AppendKeeps ==
  ASSUME NEW rs \in [Ords -> Row], NEW bs \in [Ords -> Row], NEW c \in Counter, NEW h, NEW e \in Nat, NEW d \in Nat,
         RowsInv(rs, e), NumInv(rs, c, h, d), \A o \in Ords : bs[o].status # "open", BackupIn(bs, rs),
         NEW b \in Seq(Message), AgreeIn(b, rs), AgreeIn(b, bs), FirstIn(b, rs), FirstIn(b, bs), BusIn(b, rs, c, e, d),
         NEW m \in Message, NEW q \in PositionedIn(rs), m.ev = rs[q].ev, m.epoch = rs[q].epoch, m.seq = rs[q].seq,
         \A p \in PositionedIn(rs) : Less(PointOf(rs[p]), PointOf(rs[q])) => In(b, rs[p].ev),
         NEW bt, Longer(b, bt, m)
  PROVE  /\ AgreeIn(bt, rs) /\ AgreeIn(bt, bs) /\ FirstIn(bt, rs) /\ FirstIn(bt, bs) /\ BusIn(bt, rs, c, e, d)
  <1>0. /\ q \in Ords /\ There(rs, q) /\ rs[q].seq # 0
        /\ \A o \in Ords : There(rs, o) /\ rs[o].ev = m.ev => o = q
        /\ \A o \in PositionedIn(rs) : rs[o].epoch = m.epoch /\ rs[o].seq = m.seq => o = q
    <2>1. q \in Ords /\ There(rs, q) /\ rs[q].seq # 0
      BY Zenon DEF PositionedIn
    <2>2. \A o \in Ords : There(rs, o) /\ rs[o].ev = m.ev => o = q
      BY <2>1, ZenonT(30) DEF RowsInv, There
    <2>3. \A o \in PositionedIn(rs) : rs[o].epoch = m.epoch /\ rs[o].seq = m.seq => PointOf(rs[o]) = PointOf(rs[q])
      BY Zenon DEF PointOf
    <2> QED
      BY <2>1, <2>2, <2>3, Zenon DEF NumInv
  <1>1. /\ Len(b) \in Nat /\ DOMAIN b = 1..Len(b) /\ DOMAIN bt = 1..(Len(b) + 1)
        /\ \A k \in DOMAIN b : bt[k] = b[k]
        /\ bt[Len(b) + 1] = m
        /\ \A k \in DOMAIN bt : k \in DOMAIN b \/ k = Len(b) + 1
        /\ \A ev : In(bt, ev) <=> In(b, ev) \/ ev = m.ev
    <2>1. /\ Len(b) \in Nat /\ DOMAIN b = 1..Len(b) /\ DOMAIN bt = 1..(Len(b) + 1)
          /\ \A k \in DOMAIN b : bt[k] = b[k]
          /\ bt[Len(b) + 1] = m
          /\ \A ev : In(bt, ev) <=> In(b, ev) \/ ev = m.ev
      BY Appended, SMTT(30)
    <2>2. \A k \in DOMAIN bt : k \in DOMAIN b \/ k = Len(b) + 1
      BY <2>1, SMTT(30)
    <2> QED
      BY <2>1, <2>2, Zenon
  <1>2. \A o \in PositionedIn(bs) : /\ o \in PositionedIn(rs) /\ rs[o].ev = bs[o].ev
                                    /\ rs[o].epoch = bs[o].epoch /\ rs[o].seq = bs[o].seq
    BY ZenonT(30) DEF BackupIn, PositionedIn, PointOf
  <1>3. AgreeIn(bt, rs)
    <2> SUFFICES ASSUME NEW k \in DOMAIN bt, NEW o \in PositionedIn(rs), rs[o].epoch = bt[k].epoch, rs[o].seq = bt[k].seq
                 PROVE  rs[o].ev = bt[k].ev
      BY Zenon DEF AgreeIn
    <2>1. CASE k \in DOMAIN b
      BY <1>1, <2>1, SMTT(30) DEF AgreeIn
    <2>2. CASE k = Len(b) + 1
      BY <1>0, <1>1, <2>2, Zenon
    <2> QED
      BY <1>1, <2>1, <2>2, Zenon
  <1>4. AgreeIn(bt, bs)
    <2> SUFFICES ASSUME NEW k \in DOMAIN bt, NEW o \in PositionedIn(bs), bs[o].epoch = bt[k].epoch, bs[o].seq = bt[k].seq
                 PROVE  bs[o].ev = bt[k].ev
      BY Zenon DEF AgreeIn
    <2> QED
      BY <1>2, <1>3, SMTT(30) DEF AgreeIn
  \* Those before q are on the bus already.
  <1>5. ASSUME NEW p \in Ords, There(rs, p) \/ rs[p].status = "open", Prec(rs, p, q)
        PROVE  \E j \in 1..(Len(b) + 1 - 1) : bt[j].ev = rs[p].ev
    <2>1. rs[p].seq # 0 /\ Less(PointOf(rs[p]), PointOf(rs[q]))
      BY <1>0, <1>5, Zenon DEF Prec
    <2>2. p \in PositionedIn(rs)
      BY <2>1, Zenon DEF PositionedIn, RowsInv
    <2>3. PICK j \in DOMAIN b : b[j].ev = rs[p].ev
      BY <2>1, <2>2, Zenon DEF In
    <2>4. j \in 1..(Len(b) + 1 - 1) /\ bt[j] = b[j]
      BY <1>1, <2>3, SMTT(30)
    <2> QED
      BY <2>3, <2>4, Zenon
  <1>6. FirstIn(bt, rs)
    <2> SUFFICES ASSUME NEW k \in DOMAIN bt, NEW o \in Ords, NEW p \in Ords, There(rs, o), rs[o].ev = bt[k].ev,
                        rs[p].status \in {"open", "committed", "purged"}, Prec(rs, p, o)
                 PROVE  \E j \in 1..(k - 1) : bt[j].ev = rs[p].ev
      BY Zenon DEF FirstIn
    <2>1. CASE k \in DOMAIN b
      <3>1. PICK j \in 1..(k - 1) : b[j].ev = rs[p].ev
        BY <1>1, <2>1, SMTT(30) DEF FirstIn
      <3>2. j \in DOMAIN b
        BY <1>1, <2>1, SMTT(30)
      <3> QED
        BY <1>1, <3>1, <3>2, Zenon
    <2>2. CASE k = Len(b) + 1
      <3>1. o = q
        BY <1>0, <1>1, <2>2, Zenon
      <3> QED
        BY <1>5, <2>2, <3>1, SMTT(30) DEF There
    <2> QED
      BY <1>1, <2>1, <2>2, Zenon
  <1>7. FirstIn(bt, bs)
    <2> SUFFICES ASSUME NEW k \in DOMAIN bt, NEW o \in Ords, NEW p \in Ords, There(bs, o), bs[o].ev = bt[k].ev,
                        bs[p].status \in {"open", "committed", "purged"}, Prec(bs, p, o)
                 PROVE  \E j \in 1..(k - 1) : bt[j].ev = bs[p].ev
      BY Zenon DEF FirstIn
    <2>0. There(bs, p)
      BY Zenon DEF There
    <2>1. There(rs, o) /\ rs[o].ev = bs[o].ev /\ There(rs, p) /\ rs[p].ev = bs[p].ev /\ Prec(rs, p, o)
      BY <2>0, Zenon DEF BackupIn
    <2> QED
      BY <1>6, <2>1, ZenonT(30) DEF FirstIn, There
  <1>8. BusIn(bt, rs, c, e, d)
    <2>1. ASSUME NEW k \in DOMAIN bt
          PROVE  /\ bt[k].ev <= e /\ 0 < bt[k].seq /\ bt[k].epoch <= d
                 /\ bt[k].epoch = d => c.epoch = d /\ bt[k].seq <= c.last
      <3>1. CASE k \in DOMAIN b
        BY <1>1, <3>1, Zenon DEF BusIn
      <3>2. CASE k = Len(b) + 1
        <4>1. bt[k] = m /\ rs[q].ev \in 1..e /\ rs[q].seq \in Nat /\ rs[q].epoch \in Nat /\ c.epoch \in Nat
          BY <1>0, <1>1, <3>2, Zenon DEF RowsInv, There, Row, Counter
        <4>2. rs[q].epoch <= c.epoch /\ c.epoch <= d /\ (rs[q].epoch = c.epoch => rs[q].seq <= c.last)
          BY Zenon DEF NumInv
        <4> QED
          BY <1>0, <4>1, <4>2, SMTT(30)
      <3> QED
        BY <1>1, <3>1, <3>2, Zenon
    <2>2. ASSUME NEW o \in Ords, rs[o].status = "open" PROVE ~In(bt, rs[o].ev)
      <3>1. rs[o].ev # rs[q].ev
        BY <1>0, <2>2, Zenon DEF RowsInv, There
      <3>2. ~In(b, rs[o].ev)
        BY <2>2, ZenonT(30) DEF BusIn
      <3> QED
        BY <1>1, <3>1, <3>2, Zenon
    <2> QED
      BY <2>1, <2>2, Zenon DEF BusIn
  <1> QED
    BY <1>3, <1>4, <1>6, <1>7, <1>8, Zenon

\* Marks and batches do not mind what else is on the bus.
LEMMA MoreOnBus ==
  ASSUME NEW b, NEW bt, \A ev : In(b, ev) => In(bt, ev), NEW rs, NEW x
  PROVE  (MarkIn(b, rs) => MarkIn(bt, rs)) /\ (BatchIn(x, b, rs) => BatchIn(x, bt, rs))
  BY Zenon DEF MarkIn, BatchIn

-----------------------------------------------------------------------------
(* A forwarder's own steps.                                                *)

\* The batch read after numbering: what is before one of its rows and not marked is in it (forwarder.go: unpublishedIn).
LEMMA ReadBatch ==
  ASSUME NEW rs \in [Ords -> Row], NEW e, RowsInv(rs, e), NEW b, NEW x,
         x = [phase |-> "publishing", todo |-> {<<rs[o], o>> : o \in UnpublishedIn(rs)}, done |-> {}]
  PROVE  BatchIn(x, b, rs)
  <1> DEFINE un == {o \in Ords : rs[o].status = "committed" /\ rs[o].seq # 0 /\ ~rs[o].marked}
             g == [o \in un |-> PointOf(rs[o])]
             batch == UnpublishedIn(rs)
  <1>1. g \in [un -> Point]
    BY Zenon DEF PointOf, Point, Row
  <1>2. IsFiniteSet(un) /\ Batch \in Nat
    BY OrdsFinite, OutboxConstants, Zenon
  <1>3. \A o \in un : Below(un, g, o) = {p \in un : Less(PointOf(rs[p]), PointOf(rs[o]))}
    BY Zenon DEF Below
  <1>4. \A o : o \in batch <=> o \in un /\ Cardinality(Below(un, g, o)) < Batch
    BY <1>3, Zenon DEF UnpublishedIn
  <1>5. ASSUME NEW o \in batch, NEW p \in PositionedIn(rs), Less(PointOf(rs[p]), PointOf(rs[o]))
        PROVE  rs[p].marked \/ p \in batch
    <2>1. rs[p].marked \/ p \in un
      BY Zenon DEF PositionedIn, There, RowsInv
    <2>2. ASSUME p \in un PROVE p \in batch
      <3>1. o \in un /\ Less(g[p], g[o]) /\ Cardinality(Below(un, g, o)) < Batch
        BY <1>4, <1>5, <2>2, Zenon
      <3> HIDE DEF un, g, batch
      <3>2. Cardinality(Below(un, g, p)) < Batch
        BY <1>1, <1>2, <2>2, <3>1, FirstAreBelow, Zenon
      <3> QED
        BY <1>4, <2>2, <3>2, Zenon
    <2> QED
      BY <2>1, <2>2, Zenon
  <1>6. \A o \in batch : o \in PositionedIn(rs)
    BY <1>4, Zenon DEF PositionedIn, There
  <1> HIDE DEF batch, un, g
  <1>7. /\ x.phase = "publishing" /\ x.done = {}
        /\ \A t \in x.todo : \E o \in batch : t = <<rs[o], o>>
        /\ \A o \in batch : <<rs[o], o>> \in x.todo
    BY Zenon DEF batch
  <1>8. \A t \in x.todo : t[2] \in batch /\ t[1] = rs[t[2]] /\ t = <<rs[t[2]], t[2]>>
    BY <1>7, SMTT(30)
  <1>9. Todo(x) = batch
    <2>1. \A o \in batch : \E t \in x.todo : o = t[2]
      <3> TAKE o \in batch
      <3>1. <<rs[o], o>> \in x.todo /\ <<rs[o], o>>[2] = o
        BY <1>7, Zenon
      <3> QED
        BY <3>1, Zenon
    <2> QED
      BY <1>8, <2>1, ZenonT(30) DEF Todo
  <1>10. \A t, u \in x.todo : t[2] = u[2] => t = u
    <2> SUFFICES ASSUME NEW t \in x.todo, NEW u \in x.todo, t[2] = u[2] PROVE t = u
      BY Zenon
    <2>1. t = <<rs[t[2]], t[2]>> /\ u = <<rs[u[2]], u[2]>>
      BY <1>8, Zenon
    <2> QED
      BY <2>1, Zenon
  <1>11. \A t \in x.todo : t[1].ev = rs[t[2]].ev /\ PointOf(t[1]) = PointOf(rs[t[2]])
    BY <1>8, Zenon
  <1> QED
    BY <1>5, <1>6, <1>7, <1>9, <1>10, <1>11, Zenon DEF BatchIn

\* The next row is published.
LEMMA BatchAdvances ==
  ASSUME NEW rs \in [Ords -> Row], NEW c, NEW h, NEW d, NumInv(rs, c, h, d), NEW b, MarkIn(b, rs),
         NEW x \in Fwd, BatchIn(x, b, rs), x.todo # {}, x.phase = "publishing",
         NEW bt, BatchIn(x, bt, rs), NEW t, t = NextToPublish(x.todo), In(bt, rs[t[2]].ev),
         NEW xt, xt = [phase |-> IF x.todo = {t} THEN "marking" ELSE "publishing",
                       todo  |-> x.todo \ {t},
                       done  |-> x.done \cup {t[2]}]
  PROVE  BatchIn(xt, bt, rs)
  <1> DEFINE q == t[2]
  <1>1. /\ t \in x.todo /\ q \in Todo(x) /\ q \in PositionedIn(rs)
        /\ \A p \in Todo(x) : ~Less(PointOf(rs[p]), PointOf(rs[q]))
    BY BeforeNext, Zenon
  <1>2. /\ xt.todo = x.todo \ {t} /\ xt.done = x.done \cup {q}
        /\ xt.phase \in {"marking", "publishing"} /\ (xt.phase = "marking" => x.todo = {t})
    BY Zenon
  <1> HIDE DEF q
  <1>3. \A o : o \in Todo(xt) <=> o \in Todo(x) /\ o # q
    BY <1>1, <1>2, ZenonT(30) DEF Todo, BatchIn, q
  <1>4. \A o \in PositionedIn(rs) : PointOf(rs[o]) \in Point
    BY Zenon DEF PositionedIn, PointOf, Point, Row
  <1>5. ASSUME NEW p \in Todo(xt) PROVE Less(PointOf(rs[q]), PointOf(rs[p]))
    <2>1. p \in Todo(x) /\ p # q /\ p \in PositionedIn(rs)
      BY <1>3, Zenon DEF BatchIn
    <2>2. PointOf(rs[p]) # PointOf(rs[q])
      BY <1>1, <2>1, Zenon DEF NumInv
    <2> QED
      BY <1>1, <1>4, <2>1, <2>2, LessOrder, Zenon
  <1>6. \A o : o \in Todo(xt) \cup xt.done <=> o \in Todo(x) \cup x.done
    BY <1>1, <1>2, <1>3, Zenon
  <1>7. \A u \in xt.todo : u \in x.todo
    BY <1>2, Zenon
  <1>8. \A o \in xt.done : In(bt, rs[o].ev)
    BY <1>2, ZenonT(30) DEF BatchIn, q
  <1>9. \A o \in xt.done, p \in Todo(xt) : Less(PointOf(rs[o]), PointOf(rs[p]))
    BY <1>2, <1>3, <1>5, ZenonT(30) DEF BatchIn
  <1>10. \A o \in Todo(xt) \cup xt.done, p \in PositionedIn(rs) :
           Less(PointOf(rs[p]), PointOf(rs[o])) => rs[p].marked \/ p \in Todo(xt) \cup xt.done
    BY <1>6, ZenonT(30) DEF BatchIn
  <1>11. Todo(xt) \cup xt.done \subseteq PositionedIn(rs)
    BY <1>6, ZenonT(30) DEF BatchIn
  <1>12. /\ \A u \in xt.todo : u[1].ev = rs[u[2]].ev /\ PointOf(u[1]) = PointOf(rs[u[2]])
         /\ \A u, v \in xt.todo : u[2] = v[2] => u = v
    BY <1>7, Zenon DEF BatchIn
  <1>13. xt.phase = "marking" => xt.todo = {}
    BY <1>2, Zenon
  <1> QED
    BY <1>2, <1>8, <1>9, <1>10, <1>11, <1>12, <1>13, ZenonT(30) DEF BatchIn

\* The rest of a batch is given up after a failure; what was published stays to be marked.
LEMMA BatchEnds ==
  ASSUME NEW rs \in [Ords -> Row], NEW b, NEW x \in Fwd, BatchIn(x, b, rs)
  PROVE  BatchIn([x EXCEPT !.phase = "marking", !.todo = {}], b, rs) /\ BatchIn(IdleFwd, b, rs)
  <1> DEFINE xt == [x EXCEPT !.phase = "marking", !.todo = {}]
  <1>1. xt.phase = "marking" /\ xt.todo = {} /\ xt.done = x.done
    BY Zenon DEF Fwd
  <1>2. IdleFwd.phase = "idle" /\ IdleFwd.todo = {} /\ IdleFwd.done = {}
    BY Zenon DEF IdleFwd
  <1> HIDE DEF xt
  <1>3. Todo(xt) = {} /\ Todo(IdleFwd) = {}
    BY <1>1, <1>2, Zenon DEF Todo
  <1>4. \A o \in PositionedIn(rs) : PointOf(rs[o]) \in Point
    BY Zenon DEF PositionedIn, PointOf, Point, Row
  <1>5. ASSUME NEW o \in x.done, NEW p \in PositionedIn(rs), Less(PointOf(rs[p]), PointOf(rs[o]))
        PROVE  rs[p].marked \/ p \in x.done
    <2>1. o \in PositionedIn(rs) /\ (rs[p].marked \/ p \in Todo(x) \/ p \in x.done)
      BY <1>5, Zenon DEF BatchIn
    <2>2. p \in Todo(x) => Less(PointOf(rs[o]), PointOf(rs[p]))
      BY Zenon DEF BatchIn
    <2> QED
      BY <1>4, <1>5, <2>1, <2>2, LessOrder, Zenon
  <1>6. BatchIn(xt, b, rs)
    BY <1>1, <1>3, <1>5, Zenon DEF BatchIn
  <1>7. BatchIn(IdleFwd, b, rs)
    BY <1>2, <1>3, Zenon DEF BatchIn
  <1> QED
    BY <1>6, <1>7, Zenon DEF xt

-----------------------------------------------------------------------------
(* Redelivery and purge.                                                   *)

\* Published rows that are still there.
LEMMA PublishedRows ==
  ASSUME NumberInv
  PROVE  \A o : o \in Numbered \ Unpublished <=> o \in PositionedIn(rows) /\ rows[o].status = "committed" /\ rows[o].marked
  BY Zenon DEF Numbered, Unpublished, Committed, PositionedIn, There

\* A request keeps what it found (resend.go: judge).
LEMMA AskedKeeps == ASSUME NumberInv, ResendAsked PROVE ResendIn(resend', rows, emitted)
  <1>0. RowsInv(rows, emitted)
    BY Zenon DEF NumberInv, SnapInv
  <1>1. PICK after : resend' = [phase  |-> IF Ahead(after) THEN "answered" ELSE "sending",
                                after  |-> after,
                                beyond |-> Beyond(after),
                                kept   |-> IF Ahead(after) THEN {} ELSE EventsAfter(after, Numbered \ Unpublished),
                                sent   |-> {}]
    BY Zenon DEF ResendAsked
  <1>2. CASE Ahead(after)
    BY <1>1, <1>2, Zenon DEF ResendIn
  <1>3. CASE ~Ahead(after)
    <2>1. /\ resend'.phase = "sending" /\ resend'.after = after
          /\ resend'.kept = EventsAfter(after, Numbered \ Unpublished)
      BY <1>1, <1>3, Zenon
    <2>2. ASSUME NEW ev \in resend'.kept
          PROVE  \E p \in PositionedIn(rows) : rows[p].ev = ev /\ rows[p].marked /\ Less(after, PointOf(rows[p]))
      <3>1. PICK p \in Numbered \ Unpublished : rows[p].ev = ev /\ Less(after, PointOf(rows[p]))
        BY <2>1, <2>2, Zenon DEF EventsAfter
      <3> QED
        BY <3>1, PublishedRows, Zenon
    <2>3. \A p \in PositionedIn(rows) : p \in Ords /\ rows[p].status # "none" /\ rows[p].ev \in 1..emitted
      BY <1>0, Zenon DEF PositionedIn, There, RowsInv
    <2>4. resend'.kept \subseteq 1..emitted
      BY <2>2, <2>3, Zenon
    <2>5. ASSUME NEW o \in Ords, rows[o].ev \in resend'.kept
          PROVE  o \in PositionedIn(rows) /\ rows[o].marked /\ Less(after, PointOf(rows[o]))
      <3>1. PICK p \in PositionedIn(rows) : rows[p].ev = rows[o].ev /\ rows[p].marked /\ Less(after, PointOf(rows[p]))
        BY <2>2, <2>5, Zenon
      <3>2. rows[o].status # "none"
        <4>1. emitted \in Nat /\ rows[o].ev # 0
          BY <2>4, <2>5, OutboxConstants, SMTT(30) DEF NumberInv, TypeOK
        <4> QED
          BY <1>0, <4>1, SMTT(30) DEF RowsInv, NoRow
      <3>3. o = p
        BY <1>0, <2>3, <3>1, <3>2, Zenon DEF RowsInv
      <3> QED
        BY <3>1, <3>3, Zenon
    <2> QED
      BY <2>1, <2>4, <2>5, Zenon DEF ResendIn
  <1> QED
    BY <1>2, <1>3, Zenon

\* A batch sends the first published rows after the start, and the next one starts after them (resend.go: partition).
LEMMA ResentKeeps == ASSUME NumberInv, ResendIn(resend, rows, emitted), ResendBatch PROVE ResendIn(resend', rows, emitted)
  <1> DEFINE later == {o \in Numbered \ Unpublished : Less(resend.after, PointOf(rows[o]))}
             g == [o \in later |-> PointOf(rows[o])]
             batch == {o \in later : Cardinality({p \in later : Less(PointOf(rows[p]), PointOf(rows[o]))}) < Batch}
             first == {o \in later : Cardinality(Below(later, g, o)) < Batch}
             last == CHOOSE o \in batch : \A p \in batch : ~Less(PointOf(rows[o]), PointOf(rows[p]))
  <1>0. /\ rows \in [Ords -> Row] /\ resend \in Resend /\ RowsInv(rows, emitted) /\ Batch \in Nat
        /\ NumInv(rows, counter, history, dbEpoch)
    BY OutboxConstants, Zenon DEF NumberInv, SnapInv, TypeOK
  <1>1. /\ resend.phase = "sending"
        /\ resend'.sent = resend.sent \cup {rows[o].ev : o \in batch}
        /\ resend'.after = IF batch = {} THEN resend.after ELSE PointOf(rows[last])
        /\ resend'.phase = IF Drained(batch) THEN "answered" ELSE "sending"
        /\ resend'.kept = resend.kept
    BY <1>0, Zenon DEF ResendBatch, Resend
  <1>2. \A o \in Ords : PointOf(rows[o]) \in Point
    BY <1>0, Zenon DEF PointOf, Point, Row
  <1>3. later \subseteq PositionedIn(rows) /\ PositionedIn(rows) \subseteq Ords
    BY PublishedRows, Zenon DEF PositionedIn
  <1>4. IsFiniteSet(later) /\ later \subseteq Ords
    <2>1. later \in SUBSET Ords
      BY <1>3, Zenon
    <2> HIDE DEF later
    <2> QED
      BY <2>1, OrdsFinite, Zenon
  <1>5. g \in [later -> Point]
    BY <1>2, <1>4, Zenon
  <1>6. \A o \in later : Below(later, g, o) = {p \in later : Less(PointOf(rows[p]), PointOf(rows[o]))}
    BY Zenon DEF Below
  <1>7. batch = first /\ batch \subseteq later
    BY <1>6, Zenon
  <1>8. ASSUME NEW o \in batch, NEW p \in later, Less(PointOf(rows[p]), PointOf(rows[o])) PROVE p \in batch
    <2>1. o \in later /\ Less(g[p], g[o]) /\ Cardinality(Below(later, g, o)) < Batch
      BY <1>7, <1>8, Zenon
    <2> HIDE DEF later, g
    <2>2. Cardinality(Below(later, g, p)) < Batch
      BY <1>0, <1>4, <1>5, <1>8, <2>1, FirstAreBelow, Zenon
    <2> QED
      BY <1>7, <1>8, <2>2, Zenon
  <1>9. Drained(batch) => later \subseteq batch
    <2>1. Drained(batch) => Cardinality({o \in later : Cardinality(Below(later, g, o)) < Batch}) < Batch
      BY <1>7, Zenon DEF Drained
    <2> HIDE DEF later, g
    <2>2. Drained(batch) => \A o \in later : Cardinality(Below(later, g, o)) < Batch
      BY <1>0, <1>4, <1>5, <2>1, FewerAreAll, Zenon
    <2> QED
      BY <1>7, <2>2, Zenon
  <1>10. batch # {} => last \in batch
    <2>1. IsFiniteSet(batch)
      BY <1>4, <1>7, FS_Subset, Zenon
    <2> DEFINE gb == [o \in batch |-> PointOf(rows[o])]
    <2>2. gb \in [batch -> Point]
      BY <1>2, <1>4, <1>7, Zenon
    <2> HIDE DEF batch
    <2>3. batch # {} => \E o \in batch : \A p \in batch : ~Less(gb[o], gb[p])
      BY <2>1, <2>2, GreatestPoint, Zenon
    <2>4. batch # {} => \E o \in batch : \A p \in batch : ~Less(PointOf(rows[o]), PointOf(rows[p]))
      BY <2>3, Zenon
    <2> QED
      BY <2>4, Zenon
  <1>11. ASSUME NEW o \in Ords, rows[o].ev \in resend.kept
         PROVE  /\ o \in PositionedIn(rows) /\ rows[o].marked
                /\ \/ rows[o].status = "purged" \/ rows[o].ev \in resend'.sent
                   \/ resend'.phase = "sending" /\ Less(resend'.after, PointOf(rows[o]))
    <2>1. /\ o \in PositionedIn(rows) /\ rows[o].marked
          /\ \/ rows[o].status = "purged" \/ rows[o].ev \in resend.sent
             \/ Less(resend.after, PointOf(rows[o]))
      BY <1>11, Zenon DEF ResendIn
    <2>2. ASSUME rows[o].status # "purged", Less(resend.after, PointOf(rows[o])), o \notin batch
          PROVE  resend'.phase = "sending" /\ Less(resend'.after, PointOf(rows[o]))
      <3>1. o \in later
        BY <2>1, <2>2, PublishedRows, Zenon DEF PositionedIn, There
      <3>2. resend'.phase = "sending"
        BY <1>1, <1>9, <2>2, <3>1, Zenon
      <3>3. batch # {} => Less(PointOf(rows[last]), PointOf(rows[o]))
        <4> SUFFICES ASSUME batch # {} PROVE Less(PointOf(rows[last]), PointOf(rows[o]))
          BY Zenon
        <4>1. last \in batch
          BY <1>10, Zenon
        <4> HIDE DEF last, batch, later
        <4>2. last # o /\ last \in PositionedIn(rows)
          BY <1>3, <1>7, <2>2, <4>1, Zenon
        <4>3. PointOf(rows[last]) # PointOf(rows[o])
          BY <1>0, <2>1, <4>2, Zenon DEF NumInv
        <4>4. ~Less(PointOf(rows[o]), PointOf(rows[last]))
          BY <1>8, <2>2, <3>1, <4>1, Zenon
        <4> QED
          BY <1>2, <1>3, <4>2, <4>3, <4>4, LessOrder, Zenon
      <3> QED
        BY <1>1, <2>2, <3>2, <3>3, Zenon
    <2>3. o \in batch => rows[o].ev \in resend'.sent
      BY <1>1, Zenon
    <2> HIDE DEF batch
    <2> QED
      BY <1>1, <2>1, <2>2, <2>3, Zenon
  <1> QED
    BY <1>1, <1>11, Zenon DEF ResendIn

\* What a purge transaction deletes; one that finds fewer rows than it may delete, and goes on from where purges were, is
\* the last of its loop.
Deleted == {q \in Ords : rows[q].status = "committed" /\ rows'[q].status = "purged"}
LastPurge == Purge /\ Cardinality(Deleted) < PurgeBatch /\ \E q \in Deleted : PointOf(rows[q]) = counter'.purged

\* The last transaction of a purge leaves nothing before the position it notes (forwarder.go: Purge).
LEMMA LastPurgeLeaves == ASSUME NumberInv, MarkIn(bus, rows), LastPurge PROVE Settled'
  <1>0. /\ rows \in [Ords -> Row] /\ RowsInv(rows, emitted) /\ PurgeBatch \in Nat
        /\ \A o \in Ords : rows[o] \in Row /\ PointOf(rows[o]) \in Point
    BY OutboxConstants, ZenonT(30) DEF NumberInv, SnapInv, TypeOK, Row, PointOf, Point
  <1> DEFINE old(z) == {q \in Numbered \ Unpublished : ~Less(PointOf(rows[z]), PointOf(rows[q]))}
             size(z) == IF Cardinality(old(z)) < PurgeBatch THEN Cardinality(old(z)) ELSE PurgeBatch
             left(gone) == [q \in Ords |-> IF q \in gone THEN [rows[q] EXCEPT !.status = "purged"] ELSE rows[q]]
             top(gone) == CHOOSE q \in gone : \A r \in gone : ~Less(PointOf(rows[q]), PointOf(rows[r]))
             noted(gone) == [counter EXCEPT !.purged = IF Less(@, PointOf(rows[top(gone)])) THEN PointOf(rows[top(gone)])
                                                       ELSE @]
  <1>p. Purge
    BY Zenon DEF LastPurge
  <1>a. \E z \in Numbered \ Unpublished : \E gone \in SUBSET old(z) :
           Cardinality(gone) = size(z) /\ rows' = left(gone) /\ counter' = noted(gone)
    BY <1>p, Zenon DEF Purge
  <1>z. PICK z \in Numbered \ Unpublished : \E gone \in SUBSET old(z) : Cardinality(gone) = size(z) /\ rows' = left(gone)
    <2> HIDE DEF old, size, left, noted
    <2> QED
      BY <1>a, Zenon
  <1>b. PICK gone \in SUBSET old(z) : Cardinality(gone) = size(z) /\ rows' = left(gone)
    <2> HIDE DEF old, size, left
    <2> QED
      BY <1>z, Zenon
  <1>1. /\ gone \in SUBSET old(z)
        /\ Cardinality(gone) = IF Cardinality(old(z)) < PurgeBatch THEN Cardinality(old(z)) ELSE PurgeBatch
        /\ rows' = [q \in Ords |-> IF q \in gone THEN [rows[q] EXCEPT !.status = "purged"] ELSE rows[q]]
    BY <1>b, Zenon
  <1>2. old(z) \in SUBSET Ords /\ z \in Ords /\ \A q \in gone : rows[q].status = "committed" /\ rows[q].marked
    BY <1>1, PublishedRows, Zenon DEF PositionedIn
  <1>3. \A q \in Ords : /\ q \in gone => rows'[q].status = "purged"
                        /\ q \notin gone => rows'[q] = rows[q]
    BY <1>0, <1>1, Zenon DEF Row
  <1>4. Deleted = gone
    <2> HIDE DEF old
    <2>1. \A q : q \in Deleted <=> q \in gone
      BY <1>1, <1>2, <1>3, Zenon DEF Deleted
    <2> QED
      BY <2>1, Zenon
  <1>5. gone = old(z)
    <2> HIDE DEF old
    <2>1. IsFiniteSet(old(z))
      BY <1>2, OrdsFinite, FS_Subset, Zenon
    <2>2. Cardinality(old(z)) \in Nat /\ Cardinality(gone) < PurgeBatch
      BY <1>4, <2>1, FS_CardinalityType, Zenon DEF LastPurge
    <2>3. Cardinality(gone) = Cardinality(old(z))
      BY <1>0, <1>1, <2>2, SMTT(30)
    <2> QED
      BY <1>1, <2>1, <2>3, FS_Subset, Zenon
  <1>6. PICK t \in gone : PointOf(rows[t]) = counter'.purged
    BY <1>4, Zenon DEF LastPurge
  <1>7. SUFFICES ASSUME NEW p \in Ords, rows'[p].status = "committed", rows'[p].seq # 0,
                        Less(PointOf(rows'[p]), counter'.purged)
                 PROVE  FALSE
    BY Zenon DEF Settled, Numbered, Committed
  <1>8. p \notin gone /\ rows'[p] = rows[p] /\ t \in Ords
    BY <1>1, <1>2, <1>3, <1>7, Zenon
  <1>9. p \in PositionedIn(rows) /\ t \in PositionedIn(rows) /\ Less(PointOf(rows[p]), PointOf(rows[t]))
    BY <1>1, <1>6, <1>7, <1>8, PublishedRows, Zenon DEF PositionedIn, There
  <1>10. rows[p].marked
    BY <1>2, <1>9, Zenon DEF MarkIn
  <1>11. p \in Numbered \ Unpublished
    BY <1>7, <1>8, <1>9, <1>10, PublishedRows, Zenon
  <1>12. ~Less(PointOf(rows[z]), PointOf(rows[t]))
    BY <1>1, Zenon
  <1>13. ~Less(PointOf(rows[z]), PointOf(rows[p]))
    BY <1>0, <1>2, <1>8, <1>9, <1>12, LessOrder, Zenon
  <1> QED
    BY <1>5, <1>8, <1>11, <1>13, Zenon

-----------------------------------------------------------------------------
(* The invariant, step by step.                                            *)

\* What the lemmas above take from NumberInv.
Numbers(rs, c, h) ==
    /\ rs \in [Ords -> Row] /\ c \in Counter /\ RowsInv(rs, emitted) /\ NumInv(rs, c, h, dbEpoch)

\* What the numbering's invariant says of the tables and of the backup.
LEMMA NumbersHold ==
  ASSUME NumberInv
  PROVE  /\ Numbers(rows, counter, history) /\ Numbers(backup.rows, backup.counter, backup.history)
         /\ emitted \in Nat /\ dbEpoch \in Nat /\ bus \in Seq(Message) /\ fwd \in [Forwarders -> Fwd]
         /\ scenario.forwarders \subseteq Forwarders
         /\ \A o \in Ords : backup.rows[o].status # "open"
  BY OutboxConstants, SMTT(30) DEF NumberInv, TypeOK, SnapInv, Numbers, Scenario

\* A step that numbers nothing, and marks only rows it may mark.
LEMMA KeptStep ==
  ASSUME NumberInv, Parts, RowsStepped, UNCHANGED <<backup, bus, resend>>,
         counter'.epoch = counter.epoch, counter'.last = counter.last,
         emitted' \in {emitted, emitted + 1}, dbEpoch' \in {dbEpoch, dbEpoch + 1},
         \A f \in Forwarders : BatchIn(fwd'[f], bus, rows),
         \A o \in Ords : rows'[o].marked /\ ~rows[o].marked =>
            /\ rows[o].seq # 0 /\ In(bus, rows[o].ev)
            /\ \A p \in PositionedIn(rows) : Less(PointOf(rows[p]), PointOf(rows[o])) => rows'[p].marked
  PROVE  Parts'
  <1>0. /\ rows \in [Ords -> Row] /\ rows' \in [Ords -> Row] /\ RowsInv(rows, emitted)
        /\ emitted \in Nat /\ emitted' \in Nat /\ emitted <= emitted' /\ dbEpoch \in Nat
        /\ \A k \in DOMAIN bus : bus[k].epoch \in Nat /\ bus[k].ev \in Nat
    <2>1. rows \in [Ords -> Row] /\ RowsInv(rows, emitted) /\ emitted \in Nat /\ dbEpoch \in Nat /\ bus \in Seq(Message)
      BY NumbersHold, Zenon DEF Numbers
    <2>2. emitted' \in Nat /\ emitted <= emitted'
      BY <2>1, SMTT(30)
    <2>3. \A k \in DOMAIN bus : bus[k] \in Message
      BY <2>1, SMTT(30)
    <2> QED
      BY <2>1, <2>2, <2>3, OutboxConstants, SMTT(30) DEF RowsStepped, Message
  <1>1. Kept(rows, rows', emitted)
    BY <1>0, StepsKeep, Zenon DEF RowsStepped
  <1>2. MarkIn(bus, rows')
    BY <1>0, <1>1, MarkKept, ZenonT(30) DEF Parts
  <1>3. AgreeIn(bus, rows') /\ FirstIn(bus, rows')
    BY <1>0, <1>1, BusKept, ZenonT(30) DEF Parts, BusIn
  <1>4. \A f \in Forwarders : BatchIn(fwd'[f], bus, rows')
    BY <1>0, <1>1, BatchKept, ZenonT(30)
  <1>5. BackupIn(backup.rows, rows') /\ ResendIn(resend, rows', emitted')
    BY <1>0, <1>1, OthersKept, ZenonT(30) DEF Parts
  <1>6. BusIn(bus, rows', counter', emitted', dbEpoch')
    <2>1. ASSUME NEW k \in DOMAIN bus
          PROVE  /\ bus[k].ev <= emitted' /\ 0 < bus[k].seq /\ bus[k].epoch <= dbEpoch'
                 /\ bus[k].epoch = dbEpoch' => counter'.epoch = dbEpoch' /\ bus[k].seq <= counter'.last
      <3>1. /\ bus[k].ev <= emitted /\ 0 < bus[k].seq /\ bus[k].epoch <= dbEpoch
            /\ bus[k].epoch = dbEpoch => counter.epoch = dbEpoch /\ bus[k].seq <= counter.last
        BY ZenonT(30) DEF Parts, BusIn
      <3>2. bus[k].epoch \in Nat /\ bus[k].ev \in Nat
        BY <1>0, Zenon
      <3> QED
        BY <1>0, <3>1, <3>2, SMTT(30)
    <2>2. ASSUME NEW o \in Ords, rows'[o].status = "open" PROVE ~In(bus, rows'[o].ev)
      <3>1. CASE rows[o].status = "open"
        BY <1>1, <3>1, ZenonT(30) DEF Kept, Parts, BusIn
      <3>2. CASE rows[o].status = "none"
        <4>1. rows'[o].ev = emitted + 1
          BY <1>1, <2>2, <3>2, Zenon DEF Kept
        <4>2. \A k \in DOMAIN bus : bus[k].ev <= emitted
          BY ZenonT(30) DEF Parts, BusIn
        <4> QED
          BY <1>0, <4>1, <4>2, SMTT(30) DEF In
      <3> QED
        BY <1>1, <2>2, <3>1, <3>2, ZenonT(30) DEF Kept
    <2> QED
      BY <2>1, <2>2, ZenonT(30) DEF BusIn
  <1> QED
    BY <1>2, <1>3, <1>4, <1>5, <1>6, ZenonT(30) DEF Parts

\* A step of which only forwarders and leases notice.
LEMMA QuietStep ==
  ASSUME NumberInv, Parts, UNCHANGED <<rows, counter, dbEpoch, backup, emitted, bus, resend>>,
         \A f \in Forwarders : BatchIn(fwd'[f], bus, rows)
  PROVE  Parts'
  BY Zenon DEF Parts

\* A transaction begins or ends (producer.go: insert).
LEMMA TransactionStep == ASSUME NumberInv, Parts, NEW o \in Ords, Emit(o) \/ EndTx(o) PROVE Parts'
  <1>1. RowsStepped
    BY EmitShape, EndShape, Zenon
  <1>2. UNCHANGED <<counter, dbEpoch, backup, fwd, bus, resend>> /\ emitted' \in {emitted, emitted + 1}
    BY Zenon DEF Emit, EndTx
  <1>3. \A p \in Ords : /\ rows'[p].marked => rows[p].marked
                        /\ rows'[p].status = "purged" => rows[p].status = "purged"
    <2>1. rows \in [Ords -> Row] /\ rows[o] \in Row
      BY Zenon DEF NumberInv, TypeOK
    <2>2. CASE Emit(o)
      BY <2>1, <2>2, Zenon DEF Emit, NoRow
    <2>3. CASE EndTx(o)
      BY <2>1, <2>3, ZenonT(30) DEF EndTx, Row
    <2> QED
      BY <2>2, <2>3, Zenon
  <1>4. \A f \in Forwarders : BatchIn(fwd'[f], bus, rows)
    BY <1>2, Zenon DEF Parts
  <1> QED
    BY <1>1, <1>2, <1>3, <1>4, KeptStep, Zenon

\* A forwarder gets a state of its own.
LEMMA OneForwarder ==
  ASSUME NumberInv, Parts, NEW f \in Forwarders, NEW x, fwd' = [fwd EXCEPT ![f] = x], BatchIn(x, bus, rows)
  PROVE  \A g \in Forwarders : BatchIn(fwd'[g], bus, rows)
  <1>1. fwd \in [Forwarders -> Fwd]
    BY NumbersHold, Zenon
  <1>2. fwd'[f] = x /\ \A g \in Forwarders : g # f => fwd'[g] = fwd[g]
    BY <1>1, Zenon
  <1> QED
    BY <1>2, Zenon DEF Parts

\* A batch is marked (forwarder.go: markPublished).
LEMMA MarkStep == ASSUME NumberInv, Parts, NEW f \in Forwarders, Mark(f) PROVE Parts'
  <1>0. /\ fwd[f] \in Fwd /\ rows \in [Ords -> Row] /\ BatchIn(fwd[f], bus, rows) /\ RowsInv(rows, emitted)
        /\ fwd[f].todo = {} /\ UNCHANGED <<counter, dbEpoch, backup, emitted, bus, resend>>
        /\ fwd' = [fwd EXCEPT ![f] = IdleFwd]
    BY NumbersHold, ZenonT(30) DEF Numbers, Parts, Mark, BatchIn
  <1>1. \A g \in Forwarders : BatchIn(fwd'[g], bus, rows)
    BY <1>0, OneForwarder, BatchEnds, ZenonT(30)
  <1>2. CASE rows' = Marked(f)
    <2>1. RowsStepped
      BY <1>2, MarkShape, Zenon
    <2>2. \A o \in Ords : /\ rows'[o].status = rows[o].status
                          /\ rows'[o].marked <=> rows[o].marked \/ (o \in fwd[f].done /\ rows[o].status = "committed")
      <3>1. \A o \in Ords : rows[o] \in Row
        BY <1>0, Zenon
      <3> QED
        BY <1>2, <3>1, Zenon DEF Marked, Row
    <2>3. Todo(fwd[f]) = {}
      BY <1>0, Zenon DEF Todo
    <2>4. ASSUME NEW o \in Ords, rows'[o].marked, ~rows[o].marked
          PROVE  /\ rows[o].seq # 0 /\ In(bus, rows[o].ev)
                 /\ \A p \in PositionedIn(rows) : Less(PointOf(rows[p]), PointOf(rows[o])) => rows'[p].marked
      <3>1. o \in fwd[f].done
        BY <2>2, <2>4, Zenon
      <3>2. rows[o].seq # 0 /\ In(bus, rows[o].ev)
        BY <1>0, <3>1, Zenon DEF BatchIn, PositionedIn
      <3>3. ASSUME NEW p \in PositionedIn(rows), Less(PointOf(rows[p]), PointOf(rows[o])) PROVE rows'[p].marked
        <4>1. rows[p].marked \/ p \in fwd[f].done
          BY <1>0, <2>3, <3>1, <3>3, ZenonT(30) DEF BatchIn
        <4>2. p \in Ords /\ rows[p].status \in {"committed", "purged"} /\ (rows[p].status = "purged" => rows[p].marked)
          BY <1>0, Zenon DEF PositionedIn, There, RowsInv
        <4> QED
          BY <2>2, <4>1, <4>2, Zenon
      <3> QED
        BY <3>2, <3>3, Zenon
    <2> QED
      BY <1>0, <1>1, <2>1, <2>2, <2>4, KeptStep, Zenon
  <1>3. CASE rows' = rows
    BY <1>0, <1>1, <1>3, QuietStep, ZenonT(30)
  <1> QED
    BY <1>2, <1>3, Zenon DEF Mark

\* Rows are purged (forwarder.go: Purge).
LEMMA PurgeStep == ASSUME NumberInv, Parts, Purge PROVE Parts'
  <1>1. RowsStepped /\ counter'.epoch = counter.epoch /\ counter'.last = counter.last
    BY PurgeShape, Zenon
  <1>2. UNCHANGED <<dbEpoch, backup, emitted, fwd, bus, resend>>
    BY Zenon DEF Purge
  <1>3. \A o \in Ords : rows'[o].marked => rows[o].marked
    <2>1. \A o \in Ords : rows[o] \in Row
      BY Zenon DEF NumberInv, TypeOK
    <2>2. PICK gone : rows' = [q \in Ords |-> IF q \in gone THEN [rows[q] EXCEPT !.status = "purged"] ELSE rows[q]]
      BY Zenon DEF Purge
    <2> QED
      BY <2>1, <2>2, Zenon DEF Row
  <1>4. \A f \in Forwarders : BatchIn(fwd'[f], bus, rows)
    BY <1>2, Zenon DEF Parts
  <1> QED
    BY <1>1, <1>2, <1>3, <1>4, KeptStep, Zenon

\* Rows are numbered and a batch is read (forwarder.go: partition; number.go: numberIn).
LEMMA NumberingStep == ASSUME NumberInv, Parts, NEW f \in Forwarders, NumberAndRead(f), NumberInv' PROVE Parts'
  <1>0. /\ rows \in [Ords -> Row] /\ RowsInv(rows, emitted) /\ emitted \in Nat /\ dbEpoch \in Nat
        /\ bus \in Seq(Message) /\ counter \in Counter
        /\ rows' = NumberedRows /\ UNCHANGED <<dbEpoch, backup, emitted, bus, resend>>
        /\ counter' = [counter EXCEPT !.epoch = dbEpoch, !.last = LastSeq + Cardinality(Picked)]
    BY NumbersHold, Zenon DEF Numbers, NumberAndRead, Picked
  <1>1. rows' \in [Ords -> Row] /\ RowsInv(rows', emitted)
    BY <1>0, Zenon DEF NumberInv, TypeOK, SnapInv
  <1>2. Renumbered(rows, rows', dbEpoch, LastSeq) /\ LastSeq \in Nat /\ Cardinality(Picked) \in Nat
    BY <1>0, NumberRenumbers, NumberShape, Zenon DEF NumberInv
  <1>3. counter'.epoch = dbEpoch /\ counter'.last = LastSeq + Cardinality(Picked)
    BY <1>0, Zenon DEF Counter
  <1>4. \A k \in DOMAIN bus : /\ bus[k].seq \in Nat /\ bus[k].ev <= emitted /\ 0 < bus[k].seq /\ bus[k].epoch <= dbEpoch
                              /\ bus[k].epoch = dbEpoch => bus[k].seq <= LastSeq
    <2>1. \A k \in DOMAIN bus : bus[k].seq \in Nat
      <3>1. \A k \in DOMAIN bus : bus[k] \in Message
        BY <1>0, SMTT(30)
      <3> QED
        BY <3>1, Zenon DEF Message
    <2> QED
      BY <2>1, Zenon DEF Parts, BusIn, LastSeq
  <1>5. /\ MarkIn(bus, rows') /\ AgreeIn(bus, rows') /\ FirstIn(bus, rows')
        /\ \A g \in Forwarders : BatchIn(fwd[g], bus, rows')
        /\ BackupIn(backup.rows, rows') /\ ResendIn(resend, rows', emitted)
    BY <1>0, <1>1, <1>2, <1>4, RenumberedKeeps, ZenonT(30) DEF Parts
  <1>6. BusIn(bus, rows', counter', emitted, dbEpoch)
    <2>1. \A k \in DOMAIN bus : bus[k].epoch = dbEpoch => bus[k].seq <= counter'.last
      BY <1>2, <1>3, <1>4, SMTT(30)
    <2>2. \A o \in Ords : rows'[o].status = rows[o].status /\ rows'[o].ev = rows[o].ev
      BY <1>2, Zenon DEF Renumbered
    <2> QED
      BY <1>3, <1>4, <2>1, <2>2, Zenon DEF Parts, BusIn
  <1>7. \A g \in Forwarders : BatchIn(fwd'[g], bus, rows')
    <2> DEFINE x == [phase |-> "publishing", todo |-> {<<rows'[o], o>> : o \in UnpublishedIn(rows')}, done |-> {}]
    <2>1. BatchIn(x, bus, rows')
      BY <1>1, ReadBatch, Zenon
    <2>2. BatchIn(IdleFwd, bus, rows')
      <3>1. fwd[f] \in Fwd
        BY NumbersHold, Zenon
      <3> QED
        BY <1>1, <1>5, <3>1, BatchEnds, Zenon
    <2>3. fwd' = [fwd EXCEPT ![f] = IF UnpublishedIn(rows') = {} THEN IdleFwd ELSE x]
      BY <1>0, SMTT(30) DEF NumberAndRead
    <2> HIDE DEF x
    <2>4. /\ fwd'[f] \in {IdleFwd, x}
          /\ \A g \in Forwarders : g # f => fwd'[g] = fwd[g]
      <3>1. fwd \in [Forwarders -> Fwd]
        BY NumbersHold, Zenon
      <3> QED
        BY <2>3, <3>1, Zenon
    <2> QED
      BY <1>5, <2>1, <2>2, <2>4, ZenonT(30)
  <1> QED
    BY <1>0, <1>5, <1>6, <1>7, Zenon DEF Parts

\* The next row is published, or the attempt fails and may have stored it (forwarder.go: partition).
LEMMA BusStep == ASSUME NumberInv, Parts, NEW f \in Forwarders, Publish(f) \/ PublishFails(f) PROVE Parts'
  <1> DEFINE x == fwd[f]
             t == NextToPublish(x.todo)
             q == t[2]
             m == MessageOf(t)
  <1>0. /\ rows \in [Ords -> Row] /\ backup.rows \in [Ords -> Row] /\ counter \in Counter /\ RowsInv(rows, emitted)
        /\ NumInv(rows, counter, history, dbEpoch) /\ emitted \in Nat /\ dbEpoch \in Nat /\ bus \in Seq(Message)
        /\ fwd \in [Forwarders -> Fwd] /\ x \in Fwd /\ \A o \in Ords : backup.rows[o].status # "open"
    BY NumbersHold, Zenon DEF Numbers
  <1>1. /\ UNCHANGED <<rows, counter, dbEpoch, backup, emitted, resend>>
        /\ x.phase = "publishing" /\ bus' \in {bus, Stored(m)}
    BY Zenon DEF Publish, PublishFails
  <1>2. x.todo # {} /\ BatchIn(x, bus, rows)
    BY <1>1, ZenonT(30) DEF NumberInv, TypeOK, Parts
  <1>3. /\ t \in x.todo /\ q \in Ords /\ q \in PositionedIn(rows)
        /\ t[1].ev = rows[q].ev /\ PointOf(t[1]) = PointOf(rows[q])
        /\ \A p \in PositionedIn(rows) : Less(PointOf(rows[p]), PointOf(rows[q])) => In(bus, rows[p].ev)
    <2> HIDE DEF x
    <2> QED
      BY <1>0, <1>2, BeforeNext, ZenonT(30) DEF Parts
  <1>4. m.ev = rows[q].ev /\ m.epoch = rows[q].epoch /\ m.seq = rows[q].seq
    BY <1>3, ZenonT(30) DEF MessageOf, PointOf
  <1>5. m \in Message
    <2>1. t[1] \in Row /\ t[1].ev # 0
      BY <1>0, <1>3, Zenon DEF NumberInv, Fwd
    <2>2. t[1].ev \in 1..MaxEvents /\ t[1].epoch \in Nat /\ t[1].seq \in Nat
      BY <2>1, OutboxConstants, SMTT(30) DEF Row
    <2> QED
      BY <2>2, ZenonT(30) DEF MessageOf, Message
  <1> HIDE DEF x, t, q, m
  <1>6. bus' = bus \/ Longer(bus, bus', m)
    BY <1>1, Zenon DEF Stored, Longer
  <1>7. Publish(f) => In(bus', m.ev)
    <2>1. CASE Longer(bus, bus', m)
      BY <1>0, <1>5, <2>1, Appended, Zenon
    <2>2. CASE ~Longer(bus, bus', m)
      BY <2>2, Zenon DEF Longer, Publish, Stored, OnBus, In, m, t, x
    <2> QED
      BY <2>1, <2>2, Zenon
  <1>8. /\ AgreeIn(bus', rows) /\ AgreeIn(bus', backup.rows) /\ FirstIn(bus', rows) /\ FirstIn(bus', backup.rows)
        /\ BusIn(bus', rows, counter, emitted, dbEpoch)
    <2>1. CASE bus' = bus
      BY <2>1, Zenon DEF Parts
    <2>2. CASE Longer(bus, bus', m)
      BY <1>0, <1>3, <1>4, <1>5, <2>2, AppendKeeps, Zenon DEF Parts
    <2> QED
      BY <1>6, <2>1, <2>2, Zenon
  <1>9. \A ev : In(bus, ev) => In(bus', ev)
    <2>1. CASE Longer(bus, bus', m)
      BY <1>0, <1>5, <2>1, Appended, Zenon
    <2> QED
      BY <1>6, <2>1, Zenon
  <1>10. /\ MarkIn(bus', rows) /\ MarkIn(bus', backup.rows)
         /\ \A g \in Forwarders : BatchIn(fwd[g], bus', rows)
    BY <1>9, MoreOnBus, Zenon DEF Parts
  <1>11. BatchIn(fwd'[f], bus', rows) /\ \A g \in Forwarders : g # f => fwd'[g] = fwd[g]
    <2>0. BatchIn(x, bus', rows)
      BY <1>10, Zenon DEF x
    <2>1. CASE Publish(f)
      <3> DEFINE xt == [phase |-> IF x.todo = {t} THEN "marking" ELSE "publishing",
                        todo  |-> x.todo \ {t},
                        done  |-> x.done \cup {t[2]}]
      <3>1. fwd' = [fwd EXCEPT ![f] = xt]
        BY <1>0, <2>1, ZenonT(30) DEF Publish, x, t
      <3>2. In(bus', rows[t[2]].ev)
        BY <1>4, <1>7, <2>1, Zenon DEF q
      <3>3. BatchIn(xt, bus', rows)
        BY <1>0, <1>1, <1>2, <2>0, <3>2, BatchAdvances, ZenonT(30) DEF Parts, t
      <3> HIDE DEF xt
      <3> QED
        BY <1>0, <3>1, <3>3, Zenon
    <2>2. CASE PublishFails(f)
      <3> DEFINE xt == IF x.done = {} THEN IdleFwd ELSE [x EXCEPT !.phase = "marking", !.todo = {}]
      <3>1. fwd' = [fwd EXCEPT ![f] = xt]
        BY <1>0, <2>2, Zenon DEF PublishFails, x
      <3>2. BatchIn(xt, bus', rows)
        BY <1>0, <2>0, BatchEnds, Zenon
      <3> HIDE DEF xt
      <3> QED
        BY <1>0, <3>1, <3>2, Zenon
    <2> QED
      BY <2>1, <2>2, Zenon
  <1> QED
    BY <1>1, <1>8, <1>10, <1>11, ZenonT(30) DEF Parts

\* A redelivery goes on (resend.go: partition).
LEMMA ResendStep == ASSUME NumberInv, Parts, ResendAsked \/ ResendBatch \/ ResendFails PROVE Parts'
  <1>1. UNCHANGED <<rows, counter, dbEpoch, backup, emitted, fwd, bus>>
    BY Zenon DEF ResendAsked, ResendBatch, ResendFails
  <1>2. ResendIn(NoResend, rows, emitted)
    BY Zenon DEF NoResend, ResendIn
  <1>3. ResendIn(resend', rows, emitted)
    BY <1>2, AskedKeeps, ResentKeeps, Zenon DEF ResendFails, Parts
  <1> QED
    BY <1>1, <1>3, Zenon DEF Parts

\* What ends with the open transactions: nothing that is on the bus.
LEMMA EndedKeeps ==
  ASSUME NumberInv, Parts
  PROVE  /\ MarkIn(bus, EndedRows) /\ AgreeIn(bus, EndedRows) /\ FirstIn(bus, EndedRows)
         /\ BackupIn(EndedRows, rows) /\ RowsInv(rows, emitted)
  <1>0. /\ rows \in [Ords -> Row] /\ RowsInv(rows, emitted) /\ emitted \in Nat
        /\ EndedRows \in [Ords -> Row] /\ \A o \in Ords : RowStep(rows, EndedRows, o, emitted, emitted)
    BY NumbersHold, EndedShape, Zenon DEF Numbers
  <1>1. Kept(rows, EndedRows, emitted)
    BY <1>0, StepsKeep, Zenon
  <1>2. \A o \in Ords : /\ EndedRows[o].marked = rows[o].marked
                        /\ EndedRows[o].status = "purged" => rows[o].status = "purged"
                        /\ There(EndedRows, o) => EndedRows[o] = rows[o]
    <2>1. \A o \in Ords : rows[o] \in Row
      BY <1>0, Zenon
    <2> QED
      BY <2>1, Zenon DEF EndedRows, Row, There
  <1>3. MarkIn(bus, EndedRows)
    <2>1. MarkIn(bus, rows)
      BY Zenon DEF Parts
    <2>2. \A o \in Ords : ~(EndedRows[o].marked /\ ~rows[o].marked)
      BY <1>2, Zenon
    <2> QED
      BY <1>0, <1>1, <2>1, <2>2, MarkKept, Zenon
  <1>4. AgreeIn(bus, EndedRows) /\ FirstIn(bus, EndedRows)
    BY <1>0, <1>1, BusKept, Zenon DEF Parts, BusIn
  <1>5. BackupIn(EndedRows, rows)
    <2>1. \A o \in Ords : There(EndedRows, o) => There(rows, o) /\ EndedRows[o] = rows[o]
      BY <1>2, Zenon DEF There
    <2>2. \A o, p \in Ords : Prec(EndedRows, p, o) => Prec(rows, p, o)
      BY <1>0, <1>1, KeptPositions, Zenon
    <2> QED
      BY <2>1, <2>2, Zenon DEF BackupIn
  <1> QED
    BY <1>0, <1>3, <1>4, <1>5, Zenon

\* A backup is taken.
LEMMA BackupTaken == ASSUME NumberInv, Parts, Backup PROVE Parts'
  <1>1. UNCHANGED <<rows, counter, dbEpoch, emitted, fwd, bus, resend>> /\ backup'.rows = EndedRows
    BY Zenon DEF Backup, EndedRows
  <1> QED
    BY <1>1, EndedKeeps, Zenon DEF Parts

\* A failover ends transactions; a restore brings the backup and new forwarders.
LEMMA RecoverStep == ASSUME NumberInv, Parts, Restarted, Recover PROVE Parts'
  <1>0. /\ UNCHANGED <<backup, emitted, bus>> /\ dbEpoch' = dbEpoch + 1
    BY Zenon DEF Recover
  <1>1. CASE rows' = EndedRows /\ UNCHANGED <<counter, fwd, resend>>
    <2>1. RowsStepped
      <3>1. EndedRows \in [Ords -> Row] /\ \A o \in Ords : RowStep(rows, EndedRows, o, emitted, emitted')
        BY EndedShape, Zenon
      <3> QED
        BY <1>1, <3>1, Zenon DEF RowsStepped
    <2>2. \A o \in Ords : rows'[o].marked = rows[o].marked /\ (rows'[o].status = "purged" => rows[o].status = "purged")
      <3>1. \A o \in Ords : rows[o] \in Row
        BY Zenon DEF NumberInv, TypeOK
      <3> QED
        BY <1>1, <3>1, Zenon DEF EndedRows, Row
    <2>3. \A f \in Forwarders : BatchIn(fwd'[f], bus, rows)
      BY <1>1, Zenon DEF Parts
    <2> QED
      BY <1>0, <1>1, <2>1, <2>2, <2>3, KeptStep, Zenon
  <1>2. CASE /\ rows' = backup.rows /\ counter' = backup.counter
             /\ fwd' = [f \in Forwarders |-> IdleFwd] /\ resend' = NoResend
    <2>1. \A f \in Forwarders : BatchIn(fwd'[f], bus', rows')
      <3>1. Todo(IdleFwd) = {} /\ IdleFwd.phase = "idle" /\ IdleFwd.todo = {} /\ IdleFwd.done = {}
        BY Zenon DEF IdleFwd, Todo
      <3>2. BatchIn(IdleFwd, bus', rows')
        BY <3>1, Zenon DEF BatchIn
      <3> QED
        BY <1>2, <3>2, Zenon
    <2>2. ResendIn(resend', rows', emitted')
      BY <1>2, Zenon DEF NoResend, ResendIn
    <2>3. BusIn(bus, backup.rows, counter', emitted, dbEpoch')
      <3>1. \A k \in DOMAIN bus : bus[k].epoch \in Nat
        <4>1. bus \in Seq(Message)
          BY NumbersHold, Zenon
        <4>2. \A k \in DOMAIN bus : bus[k] \in Message
          BY <4>1, SMTT(30)
        <4> QED
          BY <4>2, Zenon DEF Message
      <3>2. dbEpoch \in Nat /\ \A o \in Ords : backup.rows[o].status # "open"
        BY NumbersHold, Zenon
      <3>3. \A k \in DOMAIN bus : bus[k].ev <= emitted /\ 0 < bus[k].seq /\ bus[k].epoch <= dbEpoch
        BY Zenon DEF Parts, BusIn
      <3>4. \A k \in DOMAIN bus : bus[k].epoch <= dbEpoch' /\ bus[k].epoch # dbEpoch'
        BY <1>0, <3>1, <3>2, <3>3, SMTT(30)
      <3> QED
        BY <3>2, <3>3, <3>4, Zenon DEF BusIn
    <2>4. BackupIn(backup.rows, backup.rows)
      BY Zenon DEF BackupIn
    <2> QED
      BY <1>0, <1>2, <2>1, <2>2, <2>3, <2>4, Zenon DEF Parts
  <1> QED
    BY <1>1, <1>2, Zenon DEF Recover, EndedRows, Restarted

\* Nothing is published at first.
LEMMA InitParts == Init => Parts
  <1> SUFFICES ASSUME Init PROVE Parts
    BY Zenon
  <1>1. /\ \A o \in Ords : rows[o] = NoRow /\ backup.rows[o] = NoRow
        /\ DOMAIN bus = {} /\ \A f \in Forwarders : fwd[f] = IdleFwd
    BY SMTT(30) DEF Init
  <1>2. NoRow.status = "none" /\ ~NoRow.marked /\ NoRow.ev = 0
    BY Zenon DEF NoRow
  <1>3. PositionedIn(rows) = {} /\ PositionedIn(backup.rows) = {}
    BY <1>1, <1>2, ZenonT(30) DEF PositionedIn, There
  <1>4. \A f \in Forwarders : BatchIn(fwd[f], bus, rows)
    <2>1. Todo(IdleFwd) = {} /\ IdleFwd.phase = "idle" /\ IdleFwd.todo = {} /\ IdleFwd.done = {}
      BY Zenon DEF IdleFwd, Todo
    <2> QED
      BY <1>1, <2>1, Zenon DEF BatchIn
  <1>5. ResendIn(resend, rows, emitted)
    BY Zenon DEF Init, NoResend, ResendIn
  <1>6. BackupIn(backup.rows, rows)
    BY <1>1, <1>2, Zenon DEF BackupIn, There
  <1> QED
    BY <1>1, <1>2, <1>3, <1>4, <1>5, <1>6, Zenon DEF Parts, MarkIn, AgreeIn, BusIn, FirstIn

\* Every step keeps the invariant of the publishing.
LEMMA PublishStep == ASSUME NumberInv, NumberInv', PublishInv, [Next]_vars PROVE PublishInv'
  <1>1. scenario' = scenario
    BY Zenon DEF Next, Emit, EndTx, Forward, TakeLease, NumberAndRead, Publish, Mark, PublishFails, Crash, LeaseEnds,
                 Purge, ResendAsked, ResendBatch, ResendFails, Backup, Recover, vars
  <1>2. SUFFICES ASSUME Restarted PROVE Parts'
    BY <1>1, Zenon DEF PublishInv, Restarted
  <1>3. Parts /\ scenario.forwarders \subseteq Forwarders
    BY <1>2, NumbersHold, Zenon DEF PublishInv
  <1>4. ASSUME NEW f \in Forwarders, TakeLease(f) \/ Crash(f) PROVE Parts'
    <2>0. fwd[f] \in Fwd /\ rows \in [Ords -> Row] /\ BatchIn(fwd[f], bus, rows)
      BY <1>3, NumbersHold, Zenon DEF Numbers, Parts
    <2>1. UNCHANGED <<rows, counter, dbEpoch, backup, emitted, bus, resend>>
      BY <1>4, Zenon DEF TakeLease, Crash
    <2>2. CASE TakeLease(f)
      <3> DEFINE x == [fwd[f] EXCEPT !.phase = "leased"]
      <3>1. fwd' = [fwd EXCEPT ![f] = x] /\ fwd[f].phase = "idle"
        BY <2>2, NumbersHold, Zenon DEF TakeLease
      <3>2. x.phase = "leased" /\ x.todo = fwd[f].todo /\ x.done = fwd[f].done
        BY <2>0, Zenon DEF Fwd
      <3>3. Todo(x) = Todo(fwd[f]) /\ x.todo = {} /\ x.done = {}
        BY <2>0, <3>1, <3>2, Zenon DEF Todo, BatchIn
      <3> HIDE DEF x
      <3>4. BatchIn(x, bus, rows)
        BY <2>0, <3>2, <3>3, ZenonT(30) DEF BatchIn
      <3> QED
        BY <1>3, <2>1, <3>1, <3>4, OneForwarder, QuietStep, Zenon
    <2>3. CASE Crash(f)
      <3>1. fwd' = [fwd EXCEPT ![f] = IdleFwd]
        BY <2>3, Zenon DEF Crash
      <3> QED
        BY <1>3, <2>0, <2>1, <3>1, BatchEnds, OneForwarder, QuietStep, Zenon
    <2> QED
      BY <1>4, <2>2, <2>3, Zenon
  <1>5. ASSUME LeaseEnds \/ UNCHANGED vars PROVE Parts'
    <2>1. UNCHANGED <<rows, counter, dbEpoch, backup, emitted, fwd, bus, resend>>
      BY <1>5, Zenon DEF LeaseEnds, vars
    <2> QED
      BY <1>3, <2>1, Zenon DEF Parts
  <1>6. ASSUME NEW f \in scenario.forwarders, Forward(f) \/ PublishFails(f) \/ Crash(f) PROVE Parts'
    BY <1>3, <1>4, <1>6, NumberingStep, BusStep, MarkStep, Zenon DEF Forward
  <1> QED
    BY <1>2, <1>3, <1>5, <1>6, TransactionStep, PurgeStep, ResendStep, BackupTaken, RecoverStep, Zenon DEF Next

\* Where forwarders do not outlive a restore, the invariant of publishing holds in every state of every behaviour.
THEOREM PublishingInductive == Spec => []PublishInv
  <1>1. Init => PublishInv
    BY InitParts, Zenon DEF PublishInv
  <1> QED
    BY <1>1, PublishStep, NumberingInductive, PTL DEF Spec

-----------------------------------------------------------------------------
(* What follows from it.                                                   *)

\* The rows with a position, by the names of both modules.
LEMMA PositionedRows == Positioned = PositionedIn(rows) /\ Numbered = {o \in Positioned : rows[o].status = "committed"}
  BY Zenon DEF Positioned, PositionedIn, There, Numbered, Committed

\* No row is marked whose event is not on the bus, with any forwarders overlapping, failing and crashing
\* (forwarder.go: markPublished).
THEOREM MarksAreTrue == Spec => [](Restarted => MarkedMeansPublished)
  <1>1. PublishInv /\ Restarted => MarkedMeansPublished
    BY ZenonT(30) DEF PublishInv, Parts, MarkIn, MarkedMeansPublished, Positioned, OnBus, In
  <1> QED
    BY <1>1, PublishingInductive, PTL

\* Marks follow the position order (forwarder.go: partition's deferred mark).
THEOREM MarksAreOrdered == Spec => [](Restarted => MarksFollowPositions)
  <1>1. PublishInv /\ Restarted => MarksFollowPositions
    BY PositionedRows, ZenonT(30) DEF PublishInv, Parts, MarkIn, MarksFollowPositions
  <1> QED
    BY <1>1, PublishingInductive, PTL

\* Events reach the bus for the first time in position order (forwarder.go: partition).
THEOREM PublishedInOrder == Spec => [](Restarted => FirstPublishedInOrder)
  <1>1. PublishInv /\ Restarted => FirstPublishedInOrder
    <2> SUFFICES ASSUME PublishInv, Restarted, NEW k \in DOMAIN bus, NEW o \in Positioned, NEW p \in Positioned,
                        rows[o].ev = bus[k].ev, Less(PointOf(rows[p]), PointOf(rows[o]))
                 PROVE  \E j \in 1..(k - 1) : bus[j].ev = rows[p].ev
      BY Zenon DEF FirstPublishedInOrder
    <2>1. /\ o \in Ords /\ p \in Ords /\ There(rows, o)
          /\ rows[p].status \in {"open", "committed", "purged"} /\ rows[p].seq # 0
      BY Zenon DEF Positioned, There
    <2>2. Prec(rows, p, o)
      BY <2>1, Zenon DEF Prec
    <2> QED
      BY <2>1, <2>2, Zenon DEF PublishInv, Parts, FirstIn
  <1> QED
    BY <1>1, PublishingInductive, PTL

\* judge tells positions of a lost branch from the others, and what was purged from what was not (resend.go: judge).
THEOREM JudgeIsSound == Spec => [](Restarted => JudgeSound)
  <1>1. NumberInv /\ PublishInv /\ Restarted => JudgeSound
    <2> SUFFICES ASSUME NumberInv, PublishInv, Restarted, NEW k \in DOMAIN bus,
                        NEW at, at = [epoch |-> bus[k].epoch, seq |-> bus[k].seq]
                 PROVE  /\ Ahead(at) <=> ~\E o \in Positioned : PointOf(rows[o]) = at /\ rows[o].ev = bus[k].ev
                        /\ ~Beyond(at) => ~\E o \in Positioned : rows[o].status = "purged" /\ Less(at, PointOf(rows[o]))
      BY Zenon DEF JudgeSound
    <2>0. /\ NumInv(rows, counter, history, dbEpoch) /\ PurgedIn(rows, counter)
          /\ AgreeIn(bus, rows) /\ bus[k].epoch \in Nat /\ bus[k].seq \in Nat /\ 0 < bus[k].seq
          /\ counter.last \in Nat /\ counter.epoch \in Nat /\ counter.purged \in Point
          /\ \A x \in history : x.fork \in Nat
          /\ \A o \in PositionedIn(rows) : o \in Ords /\ PointOf(rows[o]) \in Point
      <3>1. bus[k] \in Message
        BY SMTT(30) DEF NumberInv, TypeOK
      <3>2. bus[k].epoch \in Nat /\ bus[k].seq \in Nat /\ 0 < bus[k].seq /\ AgreeIn(bus, rows)
        BY <3>1, ZenonT(30) DEF Message, PublishInv, Parts, BusIn
      <3>3. counter.last \in Nat /\ counter.epoch \in Nat /\ counter.purged \in Point /\ \A x \in history : x.fork \in Nat
        BY Zenon DEF NumberInv, TypeOK, Counter, Fork
      <3>4. \A o \in PositionedIn(rows) : o \in Ords /\ PointOf(rows[o]) \in Point
        BY ZenonT(30) DEF NumberInv, TypeOK, PositionedIn, PointOf, Point, Row
      <3> QED
        BY <3>2, <3>3, <3>4, ZenonT(30) DEF NumberInv, SnapInv
    <2>1. at.epoch = bus[k].epoch /\ at.seq = bus[k].seq /\ at # Zero /\ at \in Point
      BY <2>0, SMTT(30) DEF Zero, Point
    <2>2. \A o \in PositionedIn(rows) : PointOf(rows[o]) = at <=> rows[o].epoch = bus[k].epoch /\ rows[o].seq = bus[k].seq
      BY ZenonT(30) DEF PointOf
    <2>3. ASSUME ~Ahead(at) PROVE \E o \in PositionedIn(rows) : PointOf(rows[o]) = at /\ rows[o].ev = bus[k].ev
      <3>1. CASE at.epoch = counter.epoch
        <4>1. at.seq \in 1..counter.last
          <5>1. ~(at.seq > counter.last)
            BY <2>1, <2>3, <3>1, Zenon DEF Ahead
          <5> QED
            BY <2>0, <2>1, <5>1, SMTT(30)
        <4>2. PICK o \in PositionedIn(rows) : rows[o].epoch = at.epoch /\ rows[o].seq = at.seq
          BY <2>0, <3>1, <4>1, SMTT(30) DEF NumInv
        <4> QED
          BY <2>0, <2>1, <2>2, <4>2, Zenon DEF AgreeIn
      <3>2. CASE at.epoch # counter.epoch
        <4>1. PICK x \in history : x.old = at.epoch /\ at.seq <= x.fork
          BY <2>1, <2>3, <3>2, Zenon DEF Ahead
        <4>2. at.seq \in 1..x.fork
          BY <2>0, <2>1, <4>1, SMTT(30)
        <4>3. PICK o \in PositionedIn(rows) : rows[o].epoch = at.epoch /\ rows[o].seq = at.seq
          BY <2>0, <4>1, <4>2, SMTT(30) DEF NumInv
        <4> QED
          BY <2>0, <2>1, <2>2, <4>3, Zenon DEF AgreeIn
      <3> QED
        BY <3>1, <3>2, ZenonT(30)
    <2>4. ASSUME Ahead(at), NEW o \in PositionedIn(rows), PointOf(rows[o]) = at PROVE FALSE
      <3>0. rows[o].epoch = at.epoch /\ rows[o].seq = at.seq
        BY <2>1, <2>2, <2>4, Zenon
      <3>1. CASE at.epoch = counter.epoch
        <4>1. at.seq > counter.last
          BY <2>4, <3>1, Zenon DEF Ahead
        <4>2. rows[o].seq <= counter.last
          BY <2>0, <3>0, <3>1, Zenon DEF NumInv
        <4> QED
          BY <2>0, <2>1, <3>0, <4>1, <4>2, SMTT(30)
      <3>2. CASE at.epoch # counter.epoch
        <4>1. PICK x \in history : x.old = rows[o].epoch
          BY <2>0, <3>0, <3>2, ZenonT(30) DEF NumInv
        <4>2. rows[o].seq <= x.fork
          BY <2>0, <4>1, Zenon DEF NumInv
        <4> QED
          BY <2>4, <3>0, <3>2, <4>1, <4>2, Zenon DEF Ahead
      <3> QED
        BY <3>1, <3>2, Zenon
    <2>5. ASSUME ~Beyond(at), NEW o \in PositionedIn(rows), rows[o].status = "purged", Less(at, PointOf(rows[o]))
          PROVE  FALSE
      <3>1. ~Less(counter.purged, PointOf(rows[o]))
        BY <2>0, <2>5, Zenon DEF PurgedIn
      <3>2. CASE counter.purged = Zero
        <4>1. 0 < rows[o].epoch
          BY <2>0, Zenon DEF NumInv
        <4> QED
          BY <3>1, <3>2, <4>1, SMTT(30) DEF Zero, Less, PointOf
      <3>3. CASE ~Less(at, counter.purged)
        BY <2>0, <2>1, <2>5, <3>1, <3>3, LessOrder, Zenon
      <3> QED
        BY <2>5, <3>2, <3>3, ZenonT(30) DEF Beyond
    <2> QED
      BY <2>3, <2>4, <2>5, PositionedRows, Zenon
  <1> QED
    BY <1>1, NumberingInductive, PublishingInductive, PTL

\* However many rows one purge transaction deletes and in whatever order, a reader by cursor misses no row without being
\* told, unless a purge has stopped half-way (readafter.go: ReadAfter; forwarder.go: Purge).
THEOREM ReaderSkipsNothing == Spec => []CursorSkipsNothing
  <1>1. NumberInv => CursorSkipsNothing
    <2> SUFFICES ASSUME NumberInv, Settled, counter.epoch = dbEpoch,
                        NEW c \in 0..counter.last, ~Resets(c), NEW o \in Positioned,
                        rows[o].epoch = dbEpoch, c < rows[o].seq, rows[o].status = "purged"
                 PROVE  FALSE
      BY Zenon DEF CursorSkipsNothing, ReadAfterSkipsNothing
    <2>0. /\ NumInv(rows, counter, history, dbEpoch) /\ PurgedIn(rows, counter) /\ Positioned = PositionedIn(rows)
          /\ counter.last \in Nat /\ dbEpoch \in Nat /\ c \in Nat /\ rows[o].seq \in Nat
      <3>1. NumInv(rows, counter, history, dbEpoch) /\ PurgedIn(rows, counter) /\ Positioned = PositionedIn(rows)
        BY PositionedRows, Zenon DEF NumberInv, SnapInv
      <3>2. counter \in Counter /\ dbEpoch \in Nat /\ rows \in [Ords -> Row] /\ o \in Ords
        BY Zenon DEF NumberInv, TypeOK, Positioned
      <3> QED
        BY <3>1, <3>2, SMTT(30) DEF Counter, Row
    <2>1. rows[o].seq <= counter.last
      BY <2>0, Zenon DEF NumInv
    <2>2. c # counter.last
      BY <2>0, <2>1, SMTT(30)
    <2>3. PICK n \in Numbered : PointOf(rows[n]) = [epoch |-> dbEpoch, seq |-> c + 1]
      BY <2>2, Zenon DEF Resets
    <2>4. n \in Positioned /\ rows[n].status = "committed" /\ rows[n].epoch = dbEpoch /\ rows[n].seq = c + 1
      BY <2>3, PositionedRows, Zenon DEF PointOf
    <2>5. CASE rows[o].seq = c + 1
      <3>1. PointOf(rows[o]) = PointOf(rows[n])
        BY <2>4, <2>5, Zenon DEF PointOf
      <3> QED
        BY <2>0, <2>4, <3>1, Zenon DEF NumInv
    <2>6. CASE rows[o].seq # c + 1
      <3>1. c + 1 < rows[o].seq
        BY <2>0, <2>6, SMTT(30)
      <3>2. Less(PointOf(rows[n]), PointOf(rows[o]))
        BY <2>4, <3>1, Zenon DEF Less, PointOf
      <3>3. ~Less(counter.purged, PointOf(rows[o])) /\ ~Less(PointOf(rows[n]), counter.purged)
        BY <2>0, <2>3, Zenon DEF PurgedIn, Settled, PositionedIn
      <3>4. PointOf(rows[n]) \in Point /\ PointOf(rows[o]) \in Point /\ counter.purged \in Point
        BY <2>0, <2>4, ZenonT(30) DEF NumberInv, TypeOK, PositionedIn, PointOf, Point, Row, Counter
      <3> QED
        BY <3>2, <3>3, <3>4, LessOrder, Zenon
    <2> QED
      BY <2>5, <2>6, Zenon
  <1> QED
    BY <1>1, NumberingInductive, PTL

\* The purge that the reader relies on: its last transaction leaves no hole, whatever holes the earlier ones left, because
\* rows are marked in the order of their positions (forwarder.go: Purge, markPublished).
THEOREM PurgeLeavesNoHole == Spec /\ []Restarted => [][LastPurge => Settled']_vars
  <1>1. NumberInv /\ PublishInv /\ Restarted => (LastPurge => Settled')
    BY LastPurgeLeaves, Zenon DEF PublishInv, Parts
  <1>2. NumberInv /\ PublishInv /\ Restarted => [LastPurge => Settled']_vars
    BY <1>1, Zenon
  <1> QED
    BY <1>2, NumberingInductive, PublishingInductive, PTL

\* A redelivery sends all it found that is still there (resend.go: partition).
THEOREM ResendIsComplete == Spec => [](Restarted => ResendSendsKept)
  <1>1. PublishInv /\ Restarted => ResendSendsKept
    BY Zenon DEF PublishInv, Parts, ResendIn, ResendSendsKept, Numbered, Committed
  <1> QED
    BY <1>1, PublishingInductive, PTL

-----------------------------------------------------------------------------
(* What a consumer of the bus relies on, while nothing is restored.        *)

StreamInv == NumberInv /\ PublishInv /\ SeenIn(rows)

\* It holds at first.
LEMMA StreamInit == ASSUME Init PROVE StreamInv
  <1>1. SeenIn(rows)
    BY SMTT(30) DEF Init, NoRow, SeenIn
  <1> QED
    BY <1>1, InitNumber, InitParts, Zenon DEF StreamInv, PublishInv

\* What a forwarder publishes next has everything before it on the bus; an event has one row; what its transaction saw
\* is in the table, and before it once it has its position (forwarder.go: partition; number.go: numberIn).
LEMMA StreamState ==
  ASSUME StreamInv, Restarted
  PROVE  /\ TypeOK /\ scenario.forwarders \subseteq Forwarders
         /\ \A f \in Forwarders : fwd[f].phase = "publishing" =>
              \E q \in PositionedIn(rows) :
                /\ NextToPublish(fwd[f].todo)[1].ev = rows[q].ev
                /\ \A p \in PositionedIn(rows) : Less(PointOf(rows[p]), PointOf(rows[q])) => In(bus, rows[p].ev)
         /\ \A o \in Ords : There(rows, o) => rows[o].ev \in 1..MaxEvents
         /\ \A o, p \in Ords : There(rows, o) /\ There(rows, p) /\ rows[o].ev = rows[p].ev => o = p
         /\ \A o \in Ords : \A c \in rows[o].seen :
              \E p \in Ords : /\ There(rows, p) /\ rows[p].ev = c
                              /\ o \in PositionedIn(rows) =>
                                   p \in PositionedIn(rows) /\ Less(PointOf(rows[p]), PointOf(rows[o]))
  <1>1. /\ Parts /\ SeenIn(rows) /\ TypeOK /\ RowsInv(rows, emitted) /\ CausalIn(rows)
        /\ scenario.forwarders \subseteq Forwarders
    BY NumbersHold, Zenon DEF StreamInv, PublishInv, NumberInv, SnapInv
  <1>2. rows \in [Ords -> Row] /\ emitted \in 0..MaxEvents /\ MaxEvents \in Nat
    BY <1>1, OutboxConstants, Zenon DEF TypeOK
  <1>3. \A f \in Forwarders : fwd[f].phase = "publishing" =>
          \E q \in PositionedIn(rows) :
            /\ NextToPublish(fwd[f].todo)[1].ev = rows[q].ev
            /\ \A p \in PositionedIn(rows) : Less(PointOf(rows[p]), PointOf(rows[q])) => In(bus, rows[p].ev)
    BY <1>1, PublishesNext, Zenon
  <1>4. ASSUME NEW o \in Ords, There(rows, o) PROVE rows[o].ev \in 1..MaxEvents
    <2>1. rows[o].ev \in 1..emitted
      BY <1>1, <1>2, <1>4, SMTT(30) DEF RowsInv, There, Row
    <2> QED
      BY <1>2, <2>1, SMTT(30)
  <1>5. \A o, p \in Ords : There(rows, o) /\ There(rows, p) /\ rows[o].ev = rows[p].ev => o = p
    BY <1>1, Zenon DEF RowsInv, There
  <1>6. ASSUME NEW o \in Ords, NEW c \in rows[o].seen
        PROVE  \E p \in Ords : /\ There(rows, p) /\ rows[p].ev = c
                               /\ o \in PositionedIn(rows) =>
                                    p \in PositionedIn(rows) /\ Less(PointOf(rows[p]), PointOf(rows[o]))
    <2>1. PICK p \in Ords : There(rows, p) /\ rows[p].ev = c
      BY <1>1, <1>6, Zenon DEF SeenIn
    <2> QED
      BY <1>1, <1>6, <2>1, Zenon DEF CausalIn
  <1> QED
    BY <1>1, <1>3, <1>4, <1>5, <1>6, Zenon

\* Rows stay as they committed and commit one at a time, and new positions are behind those given (producer.go:
\* insert; number.go: numberIn).
LEMMA StreamStep ==
  ASSUME StreamInv, Unrewound, [Next]_vars
  PROVE  /\ StreamInv' /\ scenario' = scenario
         /\ \A o \in Ords : There(rows, o) => There(rows', o)
         /\ \A o \in Ords : There(rows', o) => rows'[o].ev = rows[o].ev /\ rows'[o].seen = rows[o].seen
         /\ \A o, p \in Ords : There(rows', o) /\ ~There(rows, o) /\ o # p => rows'[p] = rows[p]
         /\ \A o \in PositionedIn(rows) : o \in PositionedIn(rows') /\ PointOf(rows'[o]) = PointOf(rows[o])
         /\ \A o \in PositionedIn(rows), p \in PositionedIn(rows') :
              Less(PointOf(rows'[p]), PointOf(rows'[o])) => p \in PositionedIn(rows)
  <1>1. NumberInv /\ PublishInv /\ SeenIn(rows)
    BY Zenon DEF StreamInv
  <1>2. NumberInv'
    BY <1>1, NumberStep, Zenon
  <1>3. PublishInv' /\ SeenIn(rows')
    BY <1>1, <1>2, PublishStep, SeenAdvances, Zenon
  <1>4. StreamInv'
    BY <1>2, <1>3, Zenon DEF StreamInv, SeenIn
  <1>5. scenario' = scenario
    BY Zenon DEF Next, Emit, EndTx, Forward, TakeLease, NumberAndRead, Publish, Mark, PublishFails, Crash, LeaseEnds,
                 Purge, ResendAsked, ResendBatch, ResendFails, Backup, Recover, vars
  <1>6. /\ \A o \in Ords : There(rows, o) => There(rows', o)
        /\ \A o \in Ords : There(rows', o) => rows'[o].ev = rows[o].ev /\ rows'[o].seen = rows[o].seen
        /\ \A o, p \in Ords : There(rows', o) /\ ~There(rows, o) /\ o # p => rows'[p] = rows[p]
    BY <1>1, CommitsAdvance, Zenon
  <1>7. /\ \A o \in PositionedIn(rows) : o \in PositionedIn(rows') /\ PointOf(rows'[o]) = PointOf(rows[o])
        /\ \A o \in PositionedIn(rows), p \in PositionedIn(rows') :
             Less(PointOf(rows'[p]), PointOf(rows'[o])) => p \in PositionedIn(rows)
    BY <1>1, <1>2, PositionsAdvance, Zenon
  <1> QED
    BY <1>4, <1>5, <1>6, <1>7, Zenon
=============================================================================
