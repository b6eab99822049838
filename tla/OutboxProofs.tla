---------------------------- MODULE OutboxProofs ----------------------------
(***************************************************************************)
(* Proofs about Outbox for any number of events and forwarders, any batch  *)
(* sizes and any mixture of faults, failovers and restores: types,         *)
(* numbering, and what every kind of step does to the rows.                *)
(* OutboxPublishing goes on from here to the bus.                          *)
(*                                                                         *)
(* The invariant speaks of a snapshot of the tables, because a restore     *)
(* brings one back: whatever holds of the tables now holds of the backup   *)
(* too.                                                                    *)
(***************************************************************************)
EXTENDS Outbox, Functions, FiniteSetTheorems, WellFoundedInduction, TLAPS

-----------------------------------------------------------------------------
(* Least and greatest members of sets of natural numbers.                  *)

\* Every set of natural numbers has a least member.
LEMMA LeastNat ==
  ASSUME NEW S, S \subseteq Nat, S # {}
  PROVE  \E n \in S : \A m \in S : n <= m
  <1> DEFINE R == OpToRel(<, Nat)
  <1>1. IsWellFoundedOn(R, Nat)
    BY NatLessThanWellFounded, Zenon
  <1>2. \A x, y \in Nat : <<x, y>> \in R <=> x < y
    BY Zenon DEF OpToRel
  <1> HIDE DEF R
  <1>3. PICK n \in S : \A m \in S : ~(<<m, n>> \in R)
    BY <1>1, WFMin, Zenon
  <1>4. \A m \in S : ~(m < n)
    BY <1>2, <1>3, Zenon
  <1>5. \A m \in S : n <= m
    BY <1>4, SMTT(30)
  <1> QED
    BY <1>5, Zenon

\* Every bounded set of natural numbers has a greatest member.
LEMMA GreatestNat ==
  ASSUME NEW S, S \subseteq Nat, S # {}, NEW b \in Nat, \A m \in S : m <= b
  PROVE  \E n \in S : \A m \in S : m <= n
  <1> DEFINE U == {u \in Nat : \A m \in S : m <= u}
  <1>1. PICK u \in U : \A v \in U : u <= v
    BY LeastNat, Zenon
  <1>2. u \in Nat /\ \A m \in S : m <= u
    BY Zenon
  <1>3. ASSUME u \notin S PROVE FALSE
    <2>1. \A m \in S : m <= u - 1
      BY <1>2, <1>3, SMTT(30)
    <2>2. PICK s \in S : TRUE
      BY Zenon
    <2>3. s \in Nat /\ s <= u - 1
      BY <2>1, Zenon
    <2>4. u - 1 \in Nat
      BY <1>2, <2>3, SMTT(30)
    <2> QED
      BY <1>1, <1>2, <2>1, <2>4, SMTT(30)
  <1> QED
    BY <1>2, <1>3, Zenon

-----------------------------------------------------------------------------
(* The rank of a member, by which numberIn counts positions.               *)

\* Counting the members up to each one numbers a finite set 1..n, in its order.
LEMMA Ranks ==
  ASSUME NEW S, S \subseteq Nat, IsFiniteSet(S)
  PROVE  /\ Cardinality(S) \in Nat
         /\ \A o \in S : Cardinality({p \in S : p <= o}) \in 1..Cardinality(S)
         /\ \A o, q \in S : q < o => Cardinality({p \in S : p <= q}) < Cardinality({p \in S : p <= o})
         /\ \A n \in 1..Cardinality(S) : \E o \in S : n = Cardinality({p \in S : p <= o})
  <1> DEFINE up(o) == {p \in S : p <= o}
             rank == [o \in S |-> Cardinality(up(o))]
  <1>1. Cardinality(S) \in Nat
    BY FS_CardinalityType, Zenon
  <1>2. ASSUME NEW o \in S PROVE IsFiniteSet(up(o)) /\ Cardinality(up(o)) \in 1..Cardinality(S)
    <2>1. up(o) \in SUBSET S /\ o \in up(o)
      BY SMTT(30)
    <2> HIDE DEF up
    <2>2. IsFiniteSet(up(o)) /\ Cardinality(up(o)) <= Cardinality(S)
      BY <2>1, FS_Subset, Zenon
    <2>3. Cardinality(up(o)) \in Nat /\ Cardinality(up(o)) # 0
      BY <2>1, <2>2, FS_CardinalityType, FS_EmptySet, Zenon
    <2> QED
      BY <1>1, <2>2, <2>3, SMTT(30)
  <1>3. ASSUME NEW o \in S, NEW q \in S, q < o PROVE Cardinality(up(q)) < Cardinality(up(o))
    <2>0. (\A x \in S : x <= q => x <= o) /\ o <= o /\ ~(o <= q)
      BY <1>3, SMTT(30)
    <2>1. up(q) \in SUBSET up(o) /\ o \in up(o) /\ o \notin up(q)
      BY <2>0, Zenon
    <2>2. IsFiniteSet(up(o)) /\ Cardinality(up(o)) \in Nat /\ Cardinality(up(q)) \in Nat
      BY <1>1, <1>2, SMTT(30)
    <2> HIDE DEF up
    <2>3. Cardinality(up(q)) <= Cardinality(up(o)) /\ Cardinality(up(q)) # Cardinality(up(o))
      BY <2>1, <2>2, FS_Subset, Zenon
    <2> QED
      BY <2>2, <2>3, SMTT(30)
  <1> HIDE DEF up
  <1>4. rank \in Injection(S, 1..Cardinality(S))
    <2>1. rank \in [S -> 1..Cardinality(S)]
      BY <1>2, Zenon
    <2>2. ASSUME NEW o \in S, NEW q \in S, rank[o] = rank[q] PROVE o = q
      <3>1. ~(o < q) /\ ~(q < o)
        BY <1>1, <1>2, <1>3, <2>2, SMTT(30)
      <3> QED
        BY <3>1, SMTT(30)
    <2> QED
      BY <2>1, <2>2, Zenon DEF Injection, IsInjective
  <1>5. IsFiniteSet(1..Cardinality(S)) /\ Cardinality(1..Cardinality(S)) = Cardinality(S)
    <2>1. /\ IsFiniteSet(1..Cardinality(S))
          /\ Cardinality(1..Cardinality(S)) = IF 1 > Cardinality(S) THEN 0 ELSE Cardinality(S) - 1 + 1
      BY <1>1, FS_Interval, SMTT(30)
    <2> QED
      BY <1>1, <2>1, SMTT(30)
  <1>6. rank \in Surjection(S, 1..Cardinality(S))
    BY <1>4, <1>5, FS_Injection, Zenon
  <1>7. \A n \in 1..Cardinality(S) : \E o \in S : n = rank[o]
    BY <1>6, Zenon DEF Surjection
  <1> QED
    BY <1>1, <1>2, <1>3, <1>7, Zenon DEF up

-----------------------------------------------------------------------------
(* Snapshots: the rows rs, the counter c, the history h, with e events     *)
(* emitted and the database in epoch d.                                    *)

There(rs, o) == rs[o].status \in {"committed", "purged"}

PositionedIn(rs) == {o \in Ords : There(rs, o) /\ rs[o].seq # 0}

\* Rows take their ords and events in order, and an event saw only rows before its own.
RowsInv(rs, e) ==
    /\ \A o \in Ords : rs[o].status = "none" => rs[o] = NoRow
    /\ \A o \in Ords : rs[o].status # "none" => rs[o].ev \in 1..e
    /\ \A o \in Ords : rs[o].seen \subseteq 1..e
    /\ \A o, p \in Ords : o # p /\ rs[o].status # "none" /\ rs[p].status # "none" => rs[o].ev # rs[p].ev
    /\ \A o, p \in Ords : p < o /\ rs[o].status # "none" => rs[p].status # "none"
    /\ \A o \in Ords : rs[o].seq # 0 => There(rs, o)
    /\ \A o \in Ords : rs[o].status = "purged" => rs[o].marked /\ rs[o].seq # 0
    /\ \A o, p \in Ords : rs[p].ev \in rs[o].seen => p < o /\ There(rs, p)

\* The numbering epochs are the history's and the counter's, each without gaps.
NumInv(rs, c, h, d) ==
    /\ 0 < d /\ c.epoch <= d
    /\ \A o, p \in PositionedIn(rs) : o # p => PointOf(rs[o]) # PointOf(rs[p])
    /\ \A o \in PositionedIn(rs) : /\ 0 < rs[o].epoch /\ rs[o].epoch <= c.epoch
                                   /\ rs[o].epoch = c.epoch \/ \E x \in h : x.old = rs[o].epoch
                                   /\ rs[o].epoch = c.epoch => rs[o].seq <= c.last
    /\ \A n \in 1..c.last : \E o \in PositionedIn(rs) : rs[o].epoch = c.epoch /\ rs[o].seq = n
    /\ \A x \in h : /\ x.old < c.epoch
                    /\ \A o \in PositionedIn(rs) : rs[o].epoch = x.old => rs[o].seq <= x.fork
                    /\ \A n \in 1..x.fork : \E o \in PositionedIn(rs) : rs[o].epoch = x.old /\ rs[o].seq = n

\* CausalOrder of the snapshot.
CausalIn(rs) ==
    \A o \in PositionedIn(rs), p \in Ords :
        There(rs, p) /\ rs[p].ev \in rs[o].seen => p \in PositionedIn(rs) /\ Less(PointOf(rs[p]), PointOf(rs[o]))

\* The purged position is past everything purged.
PurgedIn(rs, c) == \A o \in Ords : rs[o].status = "purged" => ~Less(c.purged, PointOf(rs[o]))

SnapInv(rs, c, h, e, d) == RowsInv(rs, e) /\ NumInv(rs, c, h, d) /\ CausalIn(rs) /\ PurgedIn(rs, c)

NumberInv ==
    /\ TypeOK
    /\ SnapInv(rows, counter, history, emitted, dbEpoch)
    /\ SnapInv(backup.rows, backup.counter, backup.history, emitted, dbEpoch)
    /\ \A o \in Ords : backup.rows[o].status # "open"
    /\ \A f \in Forwarders : \A t \in fwd[f].todo : t[1].ev # 0

-----------------------------------------------------------------------------
(* Points, and sets of things that have one.                               *)

\* Less orders points, first by epoch.
LEMMA LessOrder ==
  /\ \A p, q \in Point : p = q \/ Less(p, q) \/ Less(q, p)
  /\ \A p, q \in Point : Less(p, q) => ~Less(q, p)
  /\ \A p, q, r \in Point : Less(p, q) /\ Less(q, r) => Less(p, r)
  <1>0. \A p \in Point : p = [epoch |-> p.epoch, seq |-> p.seq] /\ p.epoch \in Nat /\ p.seq \in Nat
    BY SMTT(30) DEF Point
  <1>1. \A p, q \in Point : p = q \/ Less(p, q) \/ Less(q, p)
    <2> TAKE p \in Point, q \in Point
    <2>1. p.epoch < q.epoch \/ q.epoch < p.epoch \/ p.epoch = q.epoch
      BY <1>0, SMTT(30)
    <2>2. p.seq < q.seq \/ q.seq < p.seq \/ p.seq = q.seq
      BY <1>0, SMTT(30)
    <2> QED
      BY <1>0, <2>1, <2>2, Zenon DEF Less
  <1>2. \A p, q \in Point : Less(p, q) => ~Less(q, p)
    BY <1>0, SMTT(30) DEF Less
  <1>3. \A p, q, r \in Point : Less(p, q) /\ Less(q, r) => Less(p, r)
    BY <1>0, SMTT(30) DEF Less
  <1> QED
    BY <1>1, <1>2, <1>3, Zenon

\* Some member of a set has the least point.
LEMMA LeastPoint ==
  ASSUME NEW S, S # {}, NEW f \in [S -> Point]
  PROVE  \E t \in S : \A u \in S : ~Less(f[u], f[t])
  <1>0. \A t \in S : f[t].epoch \in Nat /\ f[t].seq \in Nat
    BY Zenon DEF Point
  <1> DEFINE E == {f[t].epoch : t \in S}
  <1>1. PICK e \in E : \A x \in E : e <= x
    <2>1. E \subseteq Nat /\ E # {}
      BY <1>0, Zenon
    <2> QED
      BY <2>1, LeastNat, Zenon
  <1> DEFINE Q == {f[t].seq : t \in {u \in S : f[u].epoch = e}}
  <1>2. PICK q \in Q : \A x \in Q : q <= x
    <2>1. Q \subseteq Nat /\ Q # {}
      BY <1>0, <1>1, Zenon
    <2> QED
      BY <2>1, LeastNat, Zenon
  <1>3. PICK t \in S : f[t].epoch = e /\ f[t].seq = q
    BY <1>2, Zenon
  <1>4. ASSUME NEW u \in S PROVE ~Less(f[u], f[t])
    <2>1. e <= f[u].epoch /\ (f[u].epoch = e => q <= f[u].seq)
      BY <1>1, <1>2, Zenon
    <2> QED
      BY <1>0, <1>3, <2>1, SMTT(30) DEF Less
  <1> QED
    BY <1>4, Zenon

\* The members of a finite set before a given one, as Batch counts them.
Below(S, f, o) == {p \in S : Less(f[p], f[o])}

\* The members before a later one are more.
LEMMA BelowGrows ==
  ASSUME NEW S, IsFiniteSet(S), NEW f \in [S -> Point], NEW o \in S, NEW q \in S, Less(f[q], f[o])
  PROVE  /\ Cardinality(Below(S, f, o)) \in Nat /\ Cardinality(Below(S, f, q)) \in Nat
         /\ Cardinality(Below(S, f, q)) < Cardinality(Below(S, f, o))
  <1>1. \A p \in S : f[p] \in Point
    BY Zenon
  <1>2. Below(S, f, o) \in SUBSET S /\ Below(S, f, q) \in SUBSET Below(S, f, o)
    BY <1>1, LessOrder, Zenon DEF Below
  <1>3. q \in Below(S, f, o) /\ q \notin Below(S, f, q)
    BY <1>1, LessOrder, Zenon DEF Below
  <1>4. IsFiniteSet(Below(S, f, o))
    BY <1>2, FS_Subset, Zenon
  <1>5. /\ IsFiniteSet(Below(S, f, q)) /\ Cardinality(Below(S, f, q)) <= Cardinality(Below(S, f, o))
        /\ Cardinality(Below(S, f, q)) # Cardinality(Below(S, f, o))
    BY <1>2, <1>3, <1>4, FS_Subset, Zenon
  <1>6. Cardinality(Below(S, f, o)) \in Nat /\ Cardinality(Below(S, f, q)) \in Nat
    BY <1>4, <1>5, FS_CardinalityType, Zenon
  <1> QED
    BY <1>5, <1>6, SMTT(30)

\* Some member of a finite set has the greatest point.
LEMMA GreatestPoint ==
  ASSUME NEW S, S # {}, IsFiniteSet(S), NEW f \in [S -> Point]
  PROVE  \E t \in S : \A u \in S : ~Less(f[t], f[u])
  <1> DEFINE N == {Cardinality(Below(S, f, t)) : t \in S}
  <1>1. ASSUME NEW t \in S
        PROVE  Cardinality(Below(S, f, t)) \in Nat /\ Cardinality(Below(S, f, t)) <= Cardinality(S)
    <2>1. Below(S, f, t) \in SUBSET S
      BY Zenon DEF Below
    <2>2. IsFiniteSet(Below(S, f, t)) /\ Cardinality(Below(S, f, t)) <= Cardinality(S)
      BY <2>1, FS_Subset, Zenon
    <2> QED
      BY <2>2, FS_CardinalityType, Zenon
  <1>2. Cardinality(S) \in Nat
    BY FS_CardinalityType, Zenon
  <1>3. PICK n \in N : \A m \in N : m <= n
    <2>1. N \subseteq Nat /\ N # {} /\ \A m \in N : m <= Cardinality(S)
      BY <1>1, Zenon
    <2> HIDE DEF N
    <2> QED
      BY <1>2, <2>1, GreatestNat, Zenon
  <1>4. PICK t \in S : n = Cardinality(Below(S, f, t))
    BY Zenon
  <1>5. ASSUME NEW u \in S, Less(f[t], f[u]) PROVE FALSE
    <2>1. Cardinality(Below(S, f, t)) < Cardinality(Below(S, f, u)) /\ Cardinality(Below(S, f, u)) <= n
      BY <1>3, <1>5, BelowGrows, Zenon
    <2> QED
      BY <1>1, <1>4, <2>1, SMTT(30)
  <1> QED
    BY <1>5, Zenon

\* The first n members of a finite set, by their points: one before another is among them first.
LEMMA FirstAreBelow ==
  ASSUME NEW S, IsFiniteSet(S), NEW f \in [S -> Point], NEW n \in Nat,
         NEW o \in S, Cardinality(Below(S, f, o)) < n, NEW q \in S, Less(f[q], f[o])
  PROVE  Cardinality(Below(S, f, q)) < n
  BY BelowGrows, SMTT(30)

\* If they are fewer than n, they are all.
LEMMA FewerAreAll ==
  ASSUME NEW S, IsFiniteSet(S), NEW f \in [S -> Point], NEW n \in Nat,
         Cardinality({o \in S : Cardinality(Below(S, f, o)) < n}) < n
  PROVE  \A o \in S : Cardinality(Below(S, f, o)) < n
  <1> DEFINE B == {o \in S : Cardinality(Below(S, f, o)) < n}
             R == S \ B
  <1>1. SUFFICES ASSUME R # {} PROVE FALSE
    BY Zenon
  <1>2. PICK t \in R : \A u \in R : ~Less(f[u], f[t])
    <2>1. [u \in R |-> f[u]] \in [R -> Point]
      BY Zenon
    <2> HIDE DEF R
    <2>2. \E t \in R : \A u \in R : ~Less([v \in R |-> f[v]][u], [v \in R |-> f[v]][t])
      BY <1>1, <2>1, LeastPoint, Zenon
    <2> QED
      BY <2>2, Zenon
  <1>3. Below(S, f, t) \in SUBSET B /\ B \in SUBSET S
    BY <1>2, Zenon DEF Below
  <1>4. IsFiniteSet(B)
    BY <1>3, FS_Subset, Zenon
  <1>5. Cardinality(Below(S, f, t)) <= Cardinality(B) /\ IsFiniteSet(Below(S, f, t))
    BY <1>3, <1>4, FS_Subset, Zenon
  <1>6. Cardinality(Below(S, f, t)) \in Nat /\ Cardinality(B) \in Nat
    BY <1>4, <1>5, FS_CardinalityType, Zenon
  <1>7. ~(Cardinality(Below(S, f, t)) < n)
    BY <1>2, Zenon
  <1> QED
    BY <1>5, <1>6, <1>7, SMTT(30)

-----------------------------------------------------------------------------
(* Numbering.                                                              *)

Picked == FirstOf(Unnumbered, Batch)

\* Ords and their subsets are finite sets of numbers.
LEMMA OrdsFinite == /\ Ords \subseteq Nat /\ IsFiniteSet(Ords) /\ Cardinality(Ords) = MaxEvents
                    /\ \A S \in SUBSET Ords : S \subseteq Nat /\ IsFiniteSet(S)
  <1>1. MaxEvents \in Nat
    BY OutboxConstants, Zenon
  <1>2. IsFiniteSet(1..MaxEvents) /\ Cardinality(1..MaxEvents) = IF 1 > MaxEvents THEN 0 ELSE MaxEvents - 1 + 1
    BY <1>1, FS_Interval, SMTT(30)
  <1>3. Cardinality(1..MaxEvents) = MaxEvents
    BY <1>1, <1>2, SMTT(30)
  <1>4. \A S \in SUBSET Ords : IsFiniteSet(S)
    BY <1>2, FS_Subset, Zenon DEF Ords
  <1> QED
    BY <1>2, <1>3, <1>4, SMTT(30) DEF Ords

\* The first n members of a set of numbers begin with its least ones.
LEMMA FirstAreLeast ==
  ASSUME NEW S, S \subseteq Nat, IsFiniteSet(S), NEW n \in Nat, NEW o \in FirstOf(S, n), NEW q \in S, q < o
  PROVE  q \in FirstOf(S, n)
  <1> DEFINE A == {p \in S : p < q}
             B == {p \in S : p < o}
  <1>o. o \in S /\ Cardinality(B) < n
    BY Zenon DEF FirstOf
  <1>0. \A x \in S : x < q => x < o
    BY <1>o, SMTT(30)
  <1>1. A \in SUBSET B /\ B \in SUBSET S
    BY <1>0, Zenon
  <1>2. IsFiniteSet(B)
    BY <1>1, FS_Subset, Zenon
  <1>3. Cardinality(A) <= Cardinality(B) /\ IsFiniteSet(A)
    BY <1>1, <1>2, FS_Subset, Zenon
  <1>4. Cardinality(A) \in Nat /\ Cardinality(B) \in Nat
    BY <1>2, <1>3, FS_CardinalityType, Zenon
  <1>5. Cardinality(A) < n
    BY <1>o, <1>3, <1>4, SMTT(30)
  <1> QED
    BY <1>5, Zenon DEF FirstOf

\* What numberIn does to each row: the first Batch unnumbered ones get the next sequence numbers in insertion order.
LEMMA NumberShape ==
  ASSUME TypeOK, rows' = NumberedRows
  PROVE  /\ LastSeq \in Nat /\ Cardinality(Picked) \in Nat /\ Picked \subseteq Unnumbered
         /\ \A o \in Ords : o \notin Picked => rows'[o] = rows[o]
         /\ \A o \in Picked : /\ rows'[o] \in Row
                              /\ rows'[o].status = rows[o].status /\ rows'[o].ev = rows[o].ev
                              /\ rows'[o].marked = rows[o].marked /\ rows'[o].seen = rows[o].seen
                              /\ rows'[o].epoch = dbEpoch
                              /\ LastSeq < rows'[o].seq /\ rows'[o].seq <= LastSeq + Cardinality(Picked)
         /\ \A o, q \in Picked : q < o => rows'[q].seq < rows'[o].seq
         /\ \A n \in Nat : LastSeq < n /\ n <= LastSeq + Cardinality(Picked) => \E o \in Picked : rows'[o].seq = n
         /\ \A o \in Picked, q \in Unnumbered : q < o => q \in Picked
  <1> DEFINE rank(o) == Cardinality({p \in Picked : p <= o})
  <1>0. /\ rows \in [Ords -> Row] /\ dbEpoch \in Nat /\ LastSeq \in Nat /\ Batch \in Nat
    BY OutboxConstants, Zenon DEF TypeOK, LastSeq, Counter
  <1>1. Picked \subseteq Unnumbered /\ Unnumbered \subseteq Ords
    BY Zenon DEF Picked, FirstOf, Unnumbered, Committed
  <1>2. Picked \subseteq Nat /\ IsFiniteSet(Picked) /\ Unnumbered \subseteq Nat /\ IsFiniteSet(Unnumbered)
    BY <1>1, OrdsFinite, Zenon
  <1>3. \A o \in Ords : rows'[o] = IF o \in Picked THEN [rows[o] EXCEPT !.seq = LastSeq + rank(o), !.epoch = dbEpoch]
                                   ELSE rows[o]
    BY Zenon DEF NumberedRows, Picked
  <1>4. /\ Cardinality(Picked) \in Nat
        /\ \A o \in Picked : rank(o) \in 1..Cardinality(Picked)
        /\ \A o, q \in Picked : q < o => rank(q) < rank(o)
        /\ \A n \in 1..Cardinality(Picked) : \E o \in Picked : n = rank(o)
    BY <1>2, Ranks, Zenon
  <1> HIDE DEF rank
  <1>5. ASSUME NEW o \in Picked
        PROVE  /\ rows'[o] \in Row
               /\ rows'[o].status = rows[o].status /\ rows'[o].ev = rows[o].ev
               /\ rows'[o].marked = rows[o].marked /\ rows'[o].seen = rows[o].seen
               /\ rows'[o].epoch = dbEpoch /\ rows'[o].seq = LastSeq + rank(o)
    <2>1. rows[o] \in Row /\ rank(o) \in Nat /\ rows'[o] = [rows[o] EXCEPT !.seq = LastSeq + rank(o), !.epoch = dbEpoch]
      <3>1. o \in Ords /\ rank(o) \in 1..Cardinality(Picked)
        BY <1>1, <1>4, Zenon
      <3>2. rank(o) \in Nat
        BY <1>4, <3>1, SMTT(30)
      <3> QED
        BY <1>0, <1>3, <3>1, <3>2, Zenon
    <2>2. LastSeq + rank(o) \in Nat
      BY <1>0, <2>1, SMTT(30)
    <2> QED
      BY <1>0, <2>1, <2>2, Zenon DEF Row
  <1>6. \A o \in Picked : LastSeq < rows'[o].seq /\ rows'[o].seq <= LastSeq + Cardinality(Picked)
    BY <1>0, <1>4, <1>5, SMTT(30)
  <1>7. \A o, q \in Picked : q < o => rows'[q].seq < rows'[o].seq
    BY <1>0, <1>4, <1>5, SMTT(30)
  <1>8. ASSUME NEW n \in Nat, LastSeq < n, n <= LastSeq + Cardinality(Picked) PROVE \E o \in Picked : rows'[o].seq = n
    <2>1. n - LastSeq \in 1..Cardinality(Picked)
      BY <1>0, <1>4, <1>8, SMTT(30)
    <2>2. PICK o \in Picked : n - LastSeq = rank(o)
      BY <1>4, <2>1, Zenon
    <2> QED
      BY <1>0, <1>5, <2>2, SMTT(30)
  <1>9. ASSUME NEW o \in Picked, NEW q \in Unnumbered, q < o PROVE q \in Picked
    BY <1>0, <1>2, <1>9, FirstAreLeast, Zenon DEF Picked
  <1> QED
    BY <1>0, <1>1, <1>3, <1>4, <1>5, <1>6, <1>7, <1>8, <1>9, Zenon

\* Numbering keeps the snapshot's invariant, in the epoch of the counter and in a new one (number.go: numberIn).
LEMMA NumberKeeps ==
  ASSUME NumberInv, rows' = NumberedRows, counter' \in Counter, counter'.epoch = dbEpoch,
         counter'.last = LastSeq + Cardinality(Picked), counter'.purged = counter.purged, history' = NumberedHistory
  PROVE  SnapInv(rows', counter', history', emitted, dbEpoch)
  <1>0. /\ rows \in [Ords -> Row] /\ counter \in Counter /\ dbEpoch \in Nat /\ history \subseteq Fork /\ TypeOK
        /\ counter.last \in Nat /\ counter.epoch \in Nat /\ LastSeq \in Nat /\ Cardinality(Picked) \in Nat
        /\ \A o \in Ords : rows[o].epoch \in Nat /\ rows[o].seq \in Nat
        /\ \A x \in history : x.old \in Nat /\ x.fork \in Nat
    BY NumberShape, Zenon DEF NumberInv, TypeOK, Counter, Row, Fork
  <1>1. RowsInv(rows, emitted) /\ NumInv(rows, counter, history, dbEpoch) /\ CausalIn(rows) /\ PurgedIn(rows, counter)
    BY Zenon DEF NumberInv, SnapInv
  <1>2. /\ \A o \in Picked : /\ o \in Ords /\ rows[o].status = "committed" /\ rows[o].seq = 0
                             /\ rows'[o].status = "committed" /\ rows'[o].ev = rows[o].ev
                             /\ rows'[o].seen = rows[o].seen /\ rows'[o].epoch = dbEpoch
                             /\ rows'[o].seq \in Nat /\ LastSeq < rows'[o].seq
                             /\ rows'[o].seq <= LastSeq + Cardinality(Picked)
        /\ \A o \in Ords : o \notin Picked => rows'[o] = rows[o]
    BY <1>0, NumberShape, Zenon DEF Unnumbered, Committed, Row
  <1>3. /\ \A o, q \in Picked : q < o => rows'[q].seq < rows'[o].seq
        /\ \A n \in Nat : LastSeq < n /\ n <= LastSeq + Cardinality(Picked) => \E o \in Picked : rows'[o].seq = n
        /\ \A o \in Picked, q \in Unnumbered : q < o => q \in Picked
    BY <1>0, NumberShape, Zenon
  <1>4. \A o \in Ords : o \in PositionedIn(rows') <=> o \in PositionedIn(rows) \/ o \in Picked
    BY <1>0, <1>2, SMTT(30) DEF PositionedIn, There
  <1>5. \A o \in PositionedIn(rows) : o \notin Picked /\ o \in Ords /\ rows'[o] = rows[o]
    BY <1>2, Zenon DEF PositionedIn
  <1>6. \A o \in PositionedIn(rows) : rows[o].epoch = dbEpoch =>
          counter.epoch = dbEpoch /\ rows[o].seq <= LastSeq
    BY <1>0, <1>1, <1>5, SMTT(30) DEF NumInv, LastSeq
  <1>7. RowsInv(rows', emitted)
    <2>1. \A o \in Ords : /\ rows'[o].status = rows[o].status /\ rows'[o].ev = rows[o].ev
                          /\ rows'[o].seen = rows[o].seen
                          /\ rows[o].status = "none" => rows'[o] = rows[o]
                          /\ rows[o].status = "purged" => rows'[o] = rows[o]
                          /\ rows'[o].seq # 0 => There(rows, o)
      BY <1>1, <1>2, ZenonT(30) DEF RowsInv, There
    <2> QED
      BY <1>1, <2>1, SMTT(30) DEF RowsInv, There
  <1>8. NumInv(rows', counter', history', dbEpoch)
    <2>1. 0 < dbEpoch /\ counter'.epoch <= dbEpoch
      BY <1>0, <1>1, SMTT(30) DEF NumInv
    <2>2. ASSUME NEW o \in PositionedIn(rows'), NEW p \in PositionedIn(rows'), o # p
          PROVE  PointOf(rows'[o]) # PointOf(rows'[p])
      <3>0. o \in Ords /\ p \in Ords
        BY Zenon DEF PositionedIn
      <3>1. CASE o \in Picked /\ p \in Picked
        <4>1. rows'[o].seq # rows'[p].seq
          <5>1. o < p \/ p < o
            BY <2>2, <3>0, OutboxConstants, SMTT(30) DEF Ords
          <5> QED
            BY <1>2, <1>3, <3>1, <5>1, SMTT(30)
        <4> QED
          BY <4>1, Zenon DEF PointOf
      <3>2. ASSUME NEW x \in PositionedIn(rows), NEW y \in Picked PROVE PointOf(rows'[x]) # PointOf(rows'[y])
        <4>1. rows'[x].epoch # rows'[y].epoch \/ rows'[x].seq # rows'[y].seq
          BY <1>0, <1>2, <1>5, <1>6, SMTT(30)
        <4> QED
          BY <4>1, Zenon DEF PointOf
      <3>3. CASE o \in PositionedIn(rows) /\ p \in PositionedIn(rows)
        BY <1>1, <1>5, <2>2, <3>3, ZenonT(30) DEF NumInv
      <3> QED
        BY <1>4, <3>0, <3>1, <3>2, <3>3, Zenon
    <2>3. ASSUME NEW o \in PositionedIn(rows')
          PROVE  /\ 0 < rows'[o].epoch /\ rows'[o].epoch <= counter'.epoch
                 /\ rows'[o].epoch = counter'.epoch \/ \E x \in history' : x.old = rows'[o].epoch
                 /\ rows'[o].epoch = counter'.epoch => rows'[o].seq <= counter'.last
      <3>1. CASE o \in Picked
        BY <1>0, <1>2, <2>1, <3>1, Zenon
      <3>2. CASE o \in PositionedIn(rows)
        <4>1. /\ 0 < rows[o].epoch /\ rows[o].epoch <= counter.epoch /\ rows[o].epoch \in Nat
              /\ rows[o].epoch = counter.epoch \/ \E x \in history : x.old = rows[o].epoch
              /\ rows'[o] = rows[o] /\ rows[o].seq \in Nat
          BY <1>0, <1>1, <1>5, <3>2, Zenon DEF NumInv
        <4>2. rows[o].epoch <= dbEpoch
          BY <1>0, <1>1, <4>1, SMTT(30) DEF NumInv
        <4>3. rows[o].epoch = dbEpoch \/ \E x \in history' : x.old = rows[o].epoch
          <5>1. CASE counter.epoch \in {0, dbEpoch}
            BY <1>0, <4>1, <5>1, SMTT(30) DEF NumberedHistory
          <5>2. CASE counter.epoch \notin {0, dbEpoch}
            <6>1. history' = history \cup {[old |-> counter.epoch, fork |-> counter.last, new |-> dbEpoch]}
              BY <5>2, Zenon DEF NumberedHistory
            <6>2. [old |-> counter.epoch, fork |-> counter.last, new |-> dbEpoch].old = counter.epoch
              BY Zenon
            <6>3. \E x \in history' : x.old = counter.epoch
              BY <6>1, <6>2, Zenon
            <6> QED
              BY <4>1, <6>1, <6>3, Zenon
          <5> QED
            BY <5>1, <5>2, Zenon
        <4> QED
          BY <1>0, <1>6, <3>2, <4>1, <4>2, <4>3, SMTT(30)
      <3> QED
        BY <1>4, <3>1, <3>2, Zenon DEF PositionedIn
    <2>4. ASSUME NEW n \in 1..counter'.last
          PROVE  \E o \in PositionedIn(rows') : rows'[o].epoch = counter'.epoch /\ rows'[o].seq = n
      <3>0. n \in Nat /\ 0 < n /\ n <= LastSeq + Cardinality(Picked)
        BY <1>0, SMTT(30)
      <3>1. CASE LastSeq < n
        BY <1>2, <1>3, <1>4, <3>0, <3>1, Zenon
      <3>2. CASE ~(LastSeq < n)
        <4>1. counter.epoch = dbEpoch /\ n \in 1..counter.last
          BY <1>0, <3>0, <3>2, SMTT(30) DEF LastSeq
        <4>2. PICK o \in PositionedIn(rows) : rows[o].epoch = counter.epoch /\ rows[o].seq = n
          BY <1>1, <4>1, Zenon DEF NumInv
        <4> QED
          BY <1>4, <1>5, <4>1, <4>2, Zenon
      <3> QED
        BY <3>1, <3>2, Zenon
    <2>5. ASSUME NEW x \in history'
          PROVE  /\ x.old < counter'.epoch
                 /\ \A o \in PositionedIn(rows') : rows'[o].epoch = x.old => rows'[o].seq <= x.fork
                 /\ \A n \in 1..x.fork : \E o \in PositionedIn(rows') : rows'[o].epoch = x.old /\ rows'[o].seq = n
      <3>1. \/ x \in history
            \/ counter.epoch \notin {0, dbEpoch} /\ x.old = counter.epoch /\ x.fork = counter.last
        BY SMTT(30) DEF NumberedHistory
      <3>2. x.old < dbEpoch /\ x.old \in Nat
        BY <1>0, <1>1, <3>1, SMTT(30) DEF NumInv
      <3>3. /\ \A o \in PositionedIn(rows) : rows[o].epoch = x.old => rows[o].seq <= x.fork
            /\ \A n \in 1..x.fork : \E o \in PositionedIn(rows) : rows[o].epoch = x.old /\ rows[o].seq = n
        BY <1>1, <3>1, SMTT(30) DEF NumInv
      <3>4. ASSUME NEW o \in PositionedIn(rows'), rows'[o].epoch = x.old PROVE rows'[o].seq <= x.fork
        <4>1. o \in PositionedIn(rows)
          BY <1>0, <1>2, <1>4, <3>2, <3>4, SMTT(30) DEF PositionedIn
        <4> QED
          BY <1>5, <3>3, <3>4, <4>1, Zenon
      <3>5. ASSUME NEW n \in 1..x.fork PROVE \E o \in PositionedIn(rows') : rows'[o].epoch = x.old /\ rows'[o].seq = n
        BY <1>4, <1>5, <3>3, ZenonT(30)
      <3> QED
        BY <3>2, <3>4, <3>5, Zenon
    <2> QED
      BY <2>1, <2>2, <2>3, <2>4, <2>5, Zenon DEF NumInv
  <1>9. CausalIn(rows')
    <2> SUFFICES ASSUME NEW o \in PositionedIn(rows'), NEW p \in Ords, There(rows', p), rows'[p].ev \in rows'[o].seen
                 PROVE  p \in PositionedIn(rows') /\ Less(PointOf(rows'[p]), PointOf(rows'[o]))
      BY Zenon DEF CausalIn
    <2>0. o \in Ords /\ There(rows, p) /\ rows[p].ev \in rows[o].seen /\ p < o
      BY <1>1, <1>2, ZenonT(30) DEF PositionedIn, There, RowsInv
    <2>1. CASE o \in PositionedIn(rows)
      BY <1>1, <1>4, <1>5, <2>0, <2>1, Zenon DEF CausalIn
    <2>2. CASE o \in Picked /\ p \in PositionedIn(rows)
      <3>1. rows'[p] = rows[p] /\ rows[p].epoch <= dbEpoch
        BY <1>0, <1>1, <1>5, <2>2, SMTT(30) DEF NumInv
      <3> QED
        BY <1>0, <1>2, <1>4, <1>6, <2>2, <3>1, SMTT(30) DEF Less, PointOf
    <2>3. CASE o \in Picked /\ p \notin PositionedIn(rows)
      <3>1. p \in Unnumbered
        BY <1>1, <2>0, <2>3, Zenon DEF Unnumbered, Committed, PositionedIn, There, RowsInv
      <3>2. p \in Picked
        BY <1>3, <2>0, <2>3, <3>1, Zenon
      <3> QED
        BY <1>2, <1>3, <1>4, <2>0, <2>3, <3>2, Zenon DEF Less, PointOf
    <2> QED
      BY <1>4, <2>0, <2>1, <2>2, <2>3, Zenon
  <1>10. PurgedIn(rows', counter')
    BY <1>1, <1>2, Zenon DEF PurgedIn
  <1> QED
    BY <1>7, <1>8, <1>9, <1>10, Zenon DEF SnapInv
-----------------------------------------------------------------------------
(* The other steps.                                                        *)

\* What each of them does to a row, with e events emitted before and et after it.
RowStep(rs, rt, o, e, et) ==
    \/ rt[o] = rs[o]
    \/ /\ rs[o].status = "none" /\ et = e + 1 /\ \A p \in Ords : p < o => rs[p].status # "none"
       /\ rt[o].status = "open" /\ rt[o].ev = e + 1 /\ rt[o].seq = 0
       /\ rt[o].seen = {rs[p].ev : p \in {q \in Ords : There(rs, q)}} /\ ~rt[o].marked
       /\ \A p \in Ords : p # o => rt[p] = rs[p]
    \/ /\ rs[o].status = "open" /\ rt[o].status \in {"committed", "rolled_back"}
       /\ rt[o].ev = rs[o].ev /\ rt[o].epoch = rs[o].epoch /\ rt[o].seq = rs[o].seq
       /\ rt[o].marked = rs[o].marked /\ rt[o].seen = rs[o].seen
    \/ /\ rs[o].status = "committed"
       /\ \/ rt[o].status = "committed" /\ rt[o].marked
          \/ rt[o].status = "purged" /\ rs[o].seq # 0 /\ rs[o].marked /\ rt[o].marked
       /\ rt[o].ev = rs[o].ev /\ rt[o].epoch = rs[o].epoch /\ rt[o].seq = rs[o].seq /\ rt[o].seen = rs[o].seen

\* Those steps keep the snapshot's invariant.
LEMMA SnapKept ==
  ASSUME NEW rs \in [Ords -> Row], NEW rt \in [Ords -> Row], NEW c \in Counter, NEW ct \in Counter,
         NEW h \in SUBSET Fork, NEW e \in Nat, NEW et \in Nat, NEW d \in Nat, NEW dt \in Nat,
         SnapInv(rs, c, h, e, d), \A o \in Ords : RowStep(rs, rt, o, e, et),
         ct.epoch = c.epoch, ct.last = c.last, e <= et, d <= dt, PurgedIn(rt, ct)
  PROVE  SnapInv(rt, ct, h, et, dt)
  <1>0. /\ c.epoch \in Nat /\ RowsInv(rs, e) /\ NumInv(rs, c, h, d) /\ CausalIn(rs)
        /\ \A o \in Ords : rs[o].ev \in Nat /\ rs[o] \in Row /\ rt[o] \in Row
    BY SMTT(30) DEF Counter, SnapInv, Row
  \* It is enough that positions stay.
  <1>1. ASSUME \A o \in Ords : /\ rs[o].seq # 0 => /\ rt[o].epoch = rs[o].epoch /\ rt[o].seq = rs[o].seq
                                                  /\ rt[o].seen = rs[o].seen /\ There(rt, o)
                               /\ rt[o].seq # 0 => rs[o].seq # 0,
               \A o, p \in Ords : rs[o].seq # 0 /\ There(rt, p) /\ rt[p].ev \in rt[o].seen =>
                 There(rs, p) /\ rs[p].ev \in rs[o].seen
        PROVE  NumInv(rt, ct, h, dt) /\ CausalIn(rt)
    <2>1. \A o \in Ords : o \in PositionedIn(rt) <=> o \in PositionedIn(rs)
      BY <1>0, <1>1, Zenon DEF PositionedIn, RowsInv
    <2>2. PositionedIn(rt) = PositionedIn(rs) /\ PositionedIn(rs) \subseteq Ords
      BY <2>1, Zenon DEF PositionedIn
    <2>3. \A o \in PositionedIn(rs) : /\ rt[o].epoch = rs[o].epoch /\ rt[o].seq = rs[o].seq /\ rt[o].seen = rs[o].seen
                                      /\ PointOf(rt[o]) = PointOf(rs[o]) /\ rs[o].seq # 0 /\ o \in Ords
      BY <1>1, Zenon DEF PositionedIn, PointOf
    <2>4. NumInv(rt, ct, h, dt)
      <3>1. 0 < dt /\ ct.epoch <= dt
        BY <1>0, SMTT(30) DEF NumInv
      <3> QED
        BY <1>0, <2>2, <2>3, <3>1, SMTT(30) DEF NumInv
    <2>5. CausalIn(rt)
      BY <1>0, <1>1, <2>2, <2>3, Zenon DEF CausalIn
    <2> QED
      BY <2>4, <2>5, Zenon
  <1>2. ASSUME NEW o \in Ords, rs[o].status = "none", et = e + 1, \A p \in Ords : p < o => rs[p].status # "none",
               rt[o].status = "open", rt[o].ev = e + 1, rt[o].seq = 0,
               rt[o].seen = {rs[p].ev : p \in {q \in Ords : There(rs, q)}}, \A p \in Ords : p # o => rt[p] = rs[p]
        PROVE  RowsInv(rt, et) /\ NumInv(rt, ct, h, dt) /\ CausalIn(rt)
    <2>0. /\ \A p \in Ords : There(rs, p) => rs[p].ev \in 1..e
          /\ \A p, q \in Ords : rs[p].seen \subseteq 1..e /\ rs[o] = NoRow
          /\ \A p \in Ords : rs[p].status # "none" => p < o
      <3>1. \A p \in Ords : rs[p].status # "none" => ~(o < p) /\ p # o
        BY <1>0, <1>2, Zenon DEF RowsInv
      <3>2. \A p \in Ords : p < o \/ o < p \/ p = o
        BY OutboxConstants, SMTT(30) DEF Ords
      <3> QED
        BY <1>0, <1>2, <3>1, <3>2, Zenon DEF RowsInv, There
    <2>1. ASSUME NEW p \in Ords, NEW q \in Ords, rt[q].ev \in rt[p].seen PROVE q < p /\ There(rt, q) /\ q # o
      <3>1. CASE p = o
        <4>1. PICK x \in Ords : There(rs, x) /\ rs[x].ev = rt[q].ev
          BY <1>2, <2>1, <3>1, Zenon
        <4>2. q # o
          BY <1>2, <2>0, <4>1, SMTT(30)
        <4>3. rs[q].ev = rs[x].ev /\ rs[q].status # "none"
          BY <1>0, <1>2, <2>0, <4>1, <4>2, SMTT(30) DEF RowsInv, NoRow
        <4>4. q = x
          BY <1>0, <4>1, <4>3, Zenon DEF RowsInv, There
        <4> QED
          BY <1>2, <2>0, <3>1, <4>1, <4>2, <4>3, <4>4, Zenon DEF There
      <3>2. CASE p # o
        <4>1. rt[q].ev \in rs[p].seen /\ rt[q].ev \in 1..e
          BY <1>2, <2>0, <2>1, <3>2, Zenon
        <4>2. q # o
          BY <1>2, <4>1, SMTT(30)
        <4> QED
          BY <1>0, <1>2, <3>2, <4>1, <4>2, Zenon DEF RowsInv, There
      <3> QED
        BY <3>1, <3>2, Zenon
    <2>2. RowsInv(rt, et)
      <3>1. \A p \in Ords : rt[p].status # "none" => rt[p].ev \in 1..et
        BY <1>0, <1>2, SMTT(30) DEF RowsInv
      <3>2. \A p \in Ords : rt[p].seen \subseteq 1..et
        BY <1>2, <2>0, SMTT(30)
      <3>3. \A p, q \in Ords : p # q /\ rt[p].status # "none" /\ rt[q].status # "none" => rt[p].ev # rt[q].ev
        BY <1>0, <1>2, SMTT(30) DEF RowsInv
      <3>4. \A p, q \in Ords : q < p /\ rt[p].status # "none" => rt[q].status # "none"
        BY <1>0, <1>2, <2>0, SMTT(30) DEF RowsInv
      <3>5. \A p \in Ords : rt[p].status = "none" => rt[p] = NoRow
        BY <1>0, <1>2, ZenonT(30) DEF RowsInv
      <3>6. \A p \in Ords : rt[p].seq # 0 => There(rt, p)
        BY <1>0, <1>2, Zenon DEF RowsInv, There
      <3>7. \A p \in Ords : rt[p].status = "purged" => rt[p].marked /\ rt[p].seq # 0
        BY <1>0, <1>2, ZenonT(30) DEF RowsInv
      <3> QED
        BY <2>1, <3>1, <3>2, <3>3, <3>4, <3>5, <3>6, <3>7, Zenon DEF RowsInv
    <2>3. \A p \in Ords : /\ rs[p].seq # 0 => rt[p] = rs[p] /\ There(rt, p)
                          /\ rt[p].seq # 0 => rs[p].seq # 0
      BY <1>0, <1>2, <2>0, Zenon DEF RowsInv, There, NoRow
    <2>4. \A p, q \in Ords : rs[p].seq # 0 /\ There(rt, q) /\ rt[q].ev \in rt[p].seen =>
                 There(rs, q) /\ rs[q].ev \in rs[p].seen
      BY <1>2, <2>0, <2>1, <2>3, Zenon DEF There, NoRow
    <2> QED
      BY <1>1, <2>2, <2>3, <2>4, Zenon
  <1>3. ASSUME \A o \in Ords : /\ rt[o].ev = rs[o].ev /\ rt[o].seq = rs[o].seq /\ rt[o].seen = rs[o].seen
                               /\ rs[o].seq # 0 => rt[o].epoch = rs[o].epoch
                               /\ rt[o].status = "none" => rt[o] = rs[o]
                               /\ rs[o].status = "none" => rt[o] = rs[o]
                               /\ There(rs, o) => There(rt, o)
                               /\ rt[o].status = "purged" => rt[o].marked /\ rs[o].seq # 0
        PROVE  RowsInv(rt, et) /\ NumInv(rt, ct, h, dt) /\ CausalIn(rt)
    <2>1. RowsInv(rt, et)
      <3>1. \A o \in Ords : rt[o].status # "none" => rt[o].ev \in 1..et
        BY <1>0, <1>3, SMTT(30) DEF RowsInv
      <3>2. \A o \in Ords : rt[o].seen \subseteq 1..et
        <4>1. 1..e \subseteq 1..et
          BY SMTT(30)
        <4> QED
          BY <1>0, <1>3, <4>1, Zenon DEF RowsInv
      <3> QED
        BY <1>0, <1>3, <3>1, <3>2, SMTT(30) DEF RowsInv
    <2>2. \A o, p \in Ords : rt[p].ev \in rt[o].seen => There(rs, p) /\ rs[p].ev \in rs[o].seen
      BY <1>0, <1>3, Zenon DEF RowsInv
    <2> QED
      BY <1>0, <1>1, <1>3, <2>1, <2>2, Zenon DEF RowsInv
  <1>4. RowsInv(rt, et) /\ NumInv(rt, ct, h, dt) /\ CausalIn(rt)
    <2>1. CASE \E o \in Ords : rs[o].status = "none" /\ rt[o] # rs[o]
      BY <1>2, <2>1, Zenon DEF RowStep
    <2>2. CASE \A o \in Ords : rs[o].status = "none" => rt[o] = rs[o]
      <3>1. ASSUME NEW o \in Ords
            PROVE  /\ rt[o].ev = rs[o].ev /\ rt[o].seq = rs[o].seq /\ rt[o].seen = rs[o].seen
                   /\ rs[o].seq # 0 => rt[o].epoch = rs[o].epoch
                   /\ rt[o].status = "none" => rt[o] = rs[o]
                   /\ rs[o].status = "none" => rt[o] = rs[o]
                   /\ There(rs, o) => There(rt, o)
                   /\ rt[o].status = "purged" => rt[o].marked /\ rs[o].seq # 0
        <4>1. RowStep(rs, rt, o, e, et)
          BY Zenon
        <4> QED
          BY <1>0, <2>2, <4>1, Zenon DEF RowStep, There, RowsInv
      <3> QED
        BY <1>3, <3>1, Zenon
    <2> QED
      BY <2>1, <2>2, Zenon
  <1> QED
    BY <1>4, Zenon DEF SnapInv
\* The rows after a step are rows, and each was taken through a RowStep.
RowsStepped == rows' \in [Ords -> Row] /\ \A o \in Ords : RowStep(rows, rows', o, emitted, emitted')

\* An insert (producer.go: insert).
LEMMA EmitShape == ASSUME NumberInv, NEW o \in Ords, Emit(o) PROVE RowsStepped
  <1> DEFINE seen == {rows[p].ev : p \in {q \in Ords : rows[q].status \in {"committed", "purged"}}}
             row == [NoRow EXCEPT !.status = "open", !.ev = emitted + 1, !.seen = seen]
  <1>0. /\ rows \in [Ords -> Row] /\ emitted \in Nat /\ MaxEvents \in Nat /\ emitted + 1 \in 0..MaxEvents
        /\ rows' = [rows EXCEPT ![o] = row] /\ emitted' = emitted + 1
        /\ rows[o].status = "none" /\ \A p \in Ords : p < o => rows[p].status # "none"
    BY OutboxConstants, SMTT(30) DEF NumberInv, TypeOK, Emit
  <1>1. seen \subseteq 1..MaxEvents
    <2>1. \A p \in Ords : rows[p].status # "none" => rows[p].ev \in 1..MaxEvents
      BY <1>0, SMTT(30) DEF NumberInv, SnapInv, RowsInv
    <2> QED
      BY <2>1, Zenon
  <1>2. seen = {rows[p].ev : p \in {q \in Ords : There(rows, q)}}
    BY Zenon DEF There
  <1> HIDE DEF seen
  <1>3. /\ row \in Row /\ row.status = "open" /\ row.ev = emitted + 1 /\ row.seq = 0 /\ row.seen = seen /\ ~row.marked
    BY <1>0, <1>1, Zenon DEF NoRow, Row
  <1> HIDE DEF row
  <1>4. rows' \in [Ords -> Row] /\ rows'[o] = row /\ \A p \in Ords : p # o => rows'[p] = rows[p]
    BY <1>0, <1>3, Zenon
  <1>5. ASSUME NEW p \in Ords PROVE RowStep(rows, rows', p, emitted, emitted')
    <2>1. CASE p = o
      BY <1>0, <1>2, <1>3, <1>4, <2>1, Zenon DEF RowStep
    <2>2. CASE p # o
      BY <1>4, <2>2, Zenon DEF RowStep
    <2> QED
      BY <2>1, <2>2, Zenon
  <1> QED
    BY <1>4, <1>5, Zenon DEF RowsStepped

\* A set of rows changes its status or gets its mark; the rest of the row stays.
LEMMA RowChange ==
  ASSUME NEW r \in Row, NEW s \in {"none", "open", "rolled_back", "committed", "purged"}
  PROVE  /\ [r EXCEPT !.status = s] \in Row /\ [r EXCEPT !.marked = TRUE] \in Row
         /\ [r EXCEPT !.status = s].status = s /\ [r EXCEPT !.status = s].ev = r.ev
         /\ [r EXCEPT !.status = s].epoch = r.epoch /\ [r EXCEPT !.status = s].seq = r.seq
         /\ [r EXCEPT !.status = s].marked = r.marked /\ [r EXCEPT !.status = s].seen = r.seen
         /\ [r EXCEPT !.marked = TRUE].status = r.status /\ [r EXCEPT !.marked = TRUE].ev = r.ev
         /\ [r EXCEPT !.marked = TRUE].epoch = r.epoch /\ [r EXCEPT !.marked = TRUE].seq = r.seq
         /\ [r EXCEPT !.marked = TRUE].marked /\ [r EXCEPT !.marked = TRUE].seen = r.seen
  BY Zenon DEF Row

\* A transaction ends.
LEMMA EndShape == ASSUME NumberInv, NEW o \in Ords, EndTx(o) PROVE RowsStepped
  <1>0. rows \in [Ords -> Row] /\ rows[o] \in Row /\ rows[o].status = "open"
    BY Zenon DEF NumberInv, TypeOK, EndTx
  <1>1. PICK end \in {"committed", "rolled_back"} : rows' = [rows EXCEPT ![o] = [rows[o] EXCEPT !.status = end]]
    BY <1>0, Zenon DEF EndTx
  <1> DEFINE row == [rows[o] EXCEPT !.status = end]
  <1>e. end \in {"none", "open", "rolled_back", "committed", "purged"}
    BY Zenon
  <1>2. /\ row \in Row /\ row.status = end /\ row.ev = rows[o].ev /\ row.epoch = rows[o].epoch
        /\ row.seq = rows[o].seq /\ row.marked = rows[o].marked /\ row.seen = rows[o].seen
    BY <1>0, <1>e, Zenon DEF Row
  <1> HIDE DEF row
  <1>3. rows' \in [Ords -> Row] /\ rows'[o] = row /\ \A p \in Ords : p # o => rows'[p] = rows[p]
    BY <1>0, <1>1, <1>2, Zenon DEF row
  <1>4. ASSUME NEW p \in Ords PROVE RowStep(rows, rows', p, emitted, emitted')
    <2>1. CASE p = o
      BY <1>0, <1>2, <1>3, <2>1, Zenon DEF RowStep
    <2>2. CASE p # o
      BY <1>3, <2>2, Zenon DEF RowStep
    <2> QED
      BY <2>1, <2>2, Zenon
  <1> QED
    BY <1>3, <1>4, Zenon DEF RowsStepped

\* Open transactions end in a backup and in a recovery.
EndedRows == [o \in Ords |-> IF rows[o].status = "open" THEN [rows[o] EXCEPT !.status = "rolled_back"] ELSE rows[o]]

\* Ending the open transactions takes every row a legal step.
LEMMA EndedShape ==
  ASSUME NumberInv, NEW e
  PROVE  /\ EndedRows \in [Ords -> Row] /\ \A o \in Ords : RowStep(rows, EndedRows, o, emitted, e)
         /\ \A o \in Ords : EndedRows[o].status # "open"
  <1>0. \A o \in Ords : rows[o] \in Row
    BY Zenon DEF NumberInv, TypeOK
  <1>1. ASSUME NEW o \in Ords
        PROVE  EndedRows[o] \in Row /\ RowStep(rows, EndedRows, o, emitted, e) /\ EndedRows[o].status # "open"
    <2>1. CASE rows[o].status = "open"
      <3> DEFINE row == [rows[o] EXCEPT !.status = "rolled_back"]
      <3>1. /\ row \in Row /\ row.status = "rolled_back" /\ row.ev = rows[o].ev /\ row.epoch = rows[o].epoch
            /\ row.seq = rows[o].seq /\ row.marked = rows[o].marked /\ row.seen = rows[o].seen
        BY <1>0, RowChange, ZenonT(30)
      <3>2. EndedRows[o] = row
        BY <2>1, Zenon DEF EndedRows
      <3> HIDE DEF row
      <3> QED
        BY <2>1, <3>1, <3>2, Zenon DEF RowStep
    <2>2. CASE rows[o].status # "open"
      BY <1>0, <2>2, Zenon DEF EndedRows, RowStep
    <2> QED
      BY <2>1, <2>2, Zenon
  <1>2. DOMAIN EndedRows = Ords /\ EndedRows = [o \in Ords |-> EndedRows[o]]
    BY Zenon DEF EndedRows
  <1> QED
    BY <1>1, <1>2, Zenon

\* Rows are marked (forwarder.go: markPublished).
LEMMA MarkShape == ASSUME NumberInv, NEW f \in Forwarders, rows' = Marked(f) PROVE RowsStepped
  <1>0. \A o \in Ords : rows[o] \in Row
    BY Zenon DEF NumberInv, TypeOK
  <1>1. ASSUME NEW o \in Ords PROVE rows'[o] \in Row /\ RowStep(rows, rows', o, emitted, emitted')
    <2>1. CASE o \in fwd[f].done /\ rows[o].status = "committed"
      <3> DEFINE row == [rows[o] EXCEPT !.marked = TRUE]
      <3>1. /\ row \in Row /\ row.status = rows[o].status /\ row.ev = rows[o].ev /\ row.epoch = rows[o].epoch
            /\ row.seq = rows[o].seq /\ row.marked /\ row.seen = rows[o].seen
        BY <1>0, RowChange, Zenon
      <3>2. rows'[o] = row
        BY <2>1, Zenon DEF Marked
      <3> HIDE DEF row
      <3> QED
        BY <2>1, <3>1, <3>2, Zenon DEF RowStep
    <2>2. CASE ~(o \in fwd[f].done /\ rows[o].status = "committed")
      BY <1>0, <2>2, Zenon DEF Marked, RowStep
    <2> QED
      BY <2>1, <2>2, Zenon
  <1>2. rows' = [o \in Ords |-> rows'[o]]
    BY Zenon DEF Marked
  <1> QED
    BY <1>1, <1>2, Zenon DEF RowsStepped
\* A purge deletes marked rows and moves the purged position past them (forwarder.go: Purge).
LEMMA PurgeShape ==
  ASSUME NumberInv, Purge
  PROVE  /\ RowsStepped /\ PurgedIn(rows', counter')
         /\ counter' \in Counter /\ counter'.epoch = counter.epoch /\ counter'.last = counter.last
  <1>0. /\ rows \in [Ords -> Row] /\ \A o \in Ords : rows[o] \in Row /\ PointOf(rows[o]) \in Point
        /\ counter \in Counter /\ counter.purged \in Point
    BY Zenon DEF NumberInv, TypeOK, Row, PointOf, Point, Counter
  <1> DEFINE published == Numbered \ Unpublished
             old(o) == {q \in published : ~Less(PointOf(rows[o]), PointOf(rows[q]))}
             top(gone) == CHOOSE q \in gone : \A r \in gone : ~Less(PointOf(rows[q]), PointOf(rows[r]))
  <1>1. PICK o \in published : \E gone \in SUBSET old(o) :
           /\ Cardinality(gone) = IF Cardinality(old(o)) < PurgeBatch THEN Cardinality(old(o)) ELSE PurgeBatch
           /\ rows' = [q \in Ords |-> IF q \in gone THEN [rows[q] EXCEPT !.status = "purged"] ELSE rows[q]]
           /\ counter' = [counter EXCEPT !.purged = IF Less(@, PointOf(rows[top(gone)])) THEN PointOf(rows[top(gone)])
                                                    ELSE @]
    BY Zenon DEF Purge
  <1>2. PICK gone \in SUBSET old(o) :
           /\ Cardinality(gone) = IF Cardinality(old(o)) < PurgeBatch THEN Cardinality(old(o)) ELSE PurgeBatch
           /\ rows' = [q \in Ords |-> IF q \in gone THEN [rows[q] EXCEPT !.status = "purged"] ELSE rows[q]]
           /\ counter' = [counter EXCEPT !.purged = IF Less(@, PointOf(rows[top(gone)])) THEN PointOf(rows[top(gone)])
                                                    ELSE @]
    BY <1>1, Zenon
  <1>3. /\ \A q \in published : q \in Ords /\ rows[q].status = "committed" /\ rows[q].seq # 0 /\ rows[q].marked
        /\ o \in old(o) /\ old(o) \subseteq published
    BY <1>0, LessOrder, Zenon DEF Numbered, Unpublished, Committed
  <1>4. gone \subseteq Ords /\ old(o) \subseteq Ords
    BY <1>3, Zenon
  <1> HIDE DEF old, published
  <1>5. gone # {} /\ IsFiniteSet(gone)
    <2>1. IsFiniteSet(gone) /\ IsFiniteSet(old(o))
      BY <1>4, OrdsFinite, Zenon
    <2>2. Cardinality(old(o)) \in Nat /\ Cardinality(old(o)) # 0
      BY <1>3, <2>1, FS_CardinalityType, FS_EmptySet, Zenon
    <2>3. Cardinality(gone) # 0
      BY <1>2, <2>2, OutboxConstants, Zenon
    <2> QED
      BY <2>1, <2>3, FS_EmptySet, Zenon
  <1> DEFINE t == top(gone)
  <1>6. t \in gone /\ \A r \in gone : ~Less(PointOf(rows[t]), PointOf(rows[r]))
    <2> DEFINE g == [q \in gone |-> PointOf(rows[q])]
    <2>1. g \in [gone -> Point]
      BY <1>0, <1>4, Zenon
    <2>2. \E q \in gone : \A r \in gone : ~Less(g[q], g[r])
      BY <1>5, <2>1, GreatestPoint, Zenon
    <2>3. \E q \in gone : \A r \in gone : ~Less(PointOf(rows[q]), PointOf(rows[r]))
      BY <2>2, Zenon
    <2> QED
      BY <2>3, Zenon
  <1>7. counter' = [counter EXCEPT !.purged = IF Less(counter.purged, PointOf(rows[t])) THEN PointOf(rows[t])
                                              ELSE counter.purged]
    BY <1>0, <1>2, Zenon DEF Counter
  <1> HIDE DEF t
  <1>8. /\ counter' \in Counter /\ counter'.epoch = counter.epoch /\ counter'.last = counter.last
        /\ counter'.purged = IF Less(counter.purged, PointOf(rows[t])) THEN PointOf(rows[t]) ELSE counter.purged
    BY <1>0, <1>4, <1>6, <1>7, Zenon DEF Counter
  <1>9. ASSUME NEW q \in Ords
        PROVE  /\ rows'[q] \in Row /\ RowStep(rows, rows', q, emitted, emitted')
               /\ PointOf(rows'[q]) = PointOf(rows[q])
               /\ rows'[q].status = "purged" => q \in gone \/ rows[q].status = "purged"
    <2>1. CASE q \in gone
      <3> DEFINE row == [rows[q] EXCEPT !.status = "purged"]
      <3>1. /\ row \in Row /\ row.status = "purged" /\ row.ev = rows[q].ev /\ row.epoch = rows[q].epoch
            /\ row.seq = rows[q].seq /\ row.marked = rows[q].marked /\ row.seen = rows[q].seen
        BY <1>0, RowChange, Zenon
      <3>2. rows'[q] = row
        BY <1>2, <2>1, Zenon
      <3> HIDE DEF row
      <3> QED
        BY <1>3, <2>1, <3>1, <3>2, Zenon DEF RowStep, PointOf
    <2>2. CASE q \notin gone
      BY <1>0, <1>2, <2>2, Zenon DEF RowStep
    <2> QED
      BY <2>1, <2>2, Zenon
  <1>10. RowsStepped
    <2>1. rows' = [q \in Ords |-> rows'[q]]
      BY <1>2, Zenon
    <2> QED
      BY <1>9, <2>1, Zenon DEF RowsStepped
  <1>11. PurgedIn(rows', counter')
    <2>1. ASSUME NEW q \in Ords, rows'[q].status = "purged" PROVE ~Less(counter'.purged, PointOf(rows[q]))
      <3>1. CASE q \in gone
        BY <1>0, <1>4, <1>6, <1>8, <3>1, LessOrder, Zenon
      <3>2. CASE rows[q].status = "purged"
        <4>1. ~Less(counter.purged, PointOf(rows[q]))
          BY <3>2, Zenon DEF NumberInv, SnapInv, PurgedIn
        <4> QED
          BY <1>0, <1>4, <1>6, <1>8, <4>1, LessOrder, Zenon
      <3> QED
        BY <1>9, <2>1, <3>1, <3>2, Zenon
    <2> QED
      BY <1>9, <2>1, Zenon DEF PurgedIn
  <1> QED
    BY <1>8, <1>10, <1>11, Zenon
\* The steps that change the tables.
LEMMA TableSteps ==
  ASSUME NumberInv, [Next]_vars
  PROVE  \/ \E o \in Ords : Emit(o) \/ EndTx(o)
         \/ \E f \in Forwarders : NumberAndRead(f)
         \/ (\E f \in Forwarders : rows' = Marked(f)) /\ UNCHANGED <<counter, history, dbEpoch, emitted>>
         \/ Purge \/ Recover
         \/ UNCHANGED <<rows, counter, history, dbEpoch, emitted>>
  <1>1. scenario.forwarders \subseteq Forwarders
    BY OutboxConstants, Zenon DEF NumberInv, TypeOK, Scenario
  <1>2. CASE \E f \in scenario.forwarders : Forward(f) \/ PublishFails(f) \/ Crash(f)
    <2>1. PICK f \in Forwarders : Forward(f) \/ PublishFails(f) \/ Crash(f)
      BY <1>1, <1>2, Zenon
    <2> QED
      BY <2>1, Zenon DEF Forward, TakeLease, Publish, Mark, PublishFails, Crash
  <1>3. CASE ~\E f \in scenario.forwarders : Forward(f) \/ PublishFails(f) \/ Crash(f)
    BY <1>3, Zenon DEF Next, LeaseEnds, ResendAsked, ResendBatch, ResendFails, Backup, vars
  <1> QED
    BY <1>2, <1>3, Zenon

\* A step that takes every row through a RowStep and numbers nothing.
LEMMA StepKeeps ==
  ASSUME NumberInv, RowsStepped, counter' \in Counter, counter'.epoch = counter.epoch, counter'.last = counter.last,
         history' = history, dbEpoch' \in Nat, dbEpoch <= dbEpoch', emitted' \in {emitted, emitted + 1},
         \/ PurgedIn(rows', counter')
         \/ counter' = counter /\ \A o \in Ords : rows'[o].status = "purged" => rows[o].status = "purged"
  PROVE  SnapInv(rows', counter', history', emitted', dbEpoch')
  <1>1. /\ rows \in [Ords -> Row] /\ rows' \in [Ords -> Row] /\ counter \in Counter /\ history \in SUBSET Fork
        /\ emitted \in Nat /\ emitted' \in Nat /\ emitted <= emitted' /\ dbEpoch \in Nat
        /\ SnapInv(rows, counter, history, emitted, dbEpoch)
    BY OutboxConstants, SMTT(30) DEF NumberInv, TypeOK, RowsStepped
  <1>2. PurgedIn(rows', counter')
    <2>1. CASE counter' = counter /\ \A o \in Ords : rows'[o].status = "purged" => rows[o].status = "purged"
      <3>1. \A o \in Ords : rows'[o].status = "purged" => rows'[o] = rows[o]
        BY <2>1, Zenon DEF RowsStepped, RowStep
      <3> QED
        BY <1>1, <2>1, <3>1, Zenon DEF SnapInv, PurgedIn
    <2> QED
      BY <2>1, Zenon
  <1> QED
    BY <1>1, <1>2, SnapKept, Zenon DEF RowsStepped

\* A snapshot stays one while events are emitted and epochs begin.
LEMMA SnapGrows ==
  ASSUME NEW rs \in [Ords -> Row], NEW c \in Counter, NEW h \in SUBSET Fork, NEW e \in Nat, NEW et \in Nat,
         NEW d \in Nat, NEW dt \in Nat, SnapInv(rs, c, h, e, d), e <= et, d <= dt
  PROVE  SnapInv(rs, c, h, et, dt)
  <1>1. \A o \in Ords : RowStep(rs, rs, o, e, et)
    BY Zenon DEF RowStep
  <1> QED
    BY <1>1, SnapKept, Zenon DEF SnapInv

\* The tables' part of NumberInv.
TablesOK ==
    /\ rows \in [Ords -> Row] /\ counter \in Counter /\ history \in SUBSET Fork
    /\ dbEpoch \in Nat /\ emitted \in 0..MaxEvents
    /\ SnapInv(rows, counter, history, emitted, dbEpoch)

\* Every step keeps the outbox's tables as they should be.
LEMMA TablesStep == ASSUME NumberInv, [Next]_vars PROVE TablesOK'
  <1>0. /\ rows \in [Ords -> Row] /\ counter \in Counter /\ history \in SUBSET Fork
        /\ dbEpoch \in Nat /\ emitted \in 0..MaxEvents /\ emitted \in Nat /\ MaxEvents \in Nat
        /\ SnapInv(rows, counter, history, emitted, dbEpoch)
    BY OutboxConstants, SMTT(30) DEF NumberInv, TypeOK
  <1>1. ASSUME NEW o \in Ords, Emit(o) PROVE TablesOK'
    <2>1. /\ UNCHANGED <<counter, history, dbEpoch>> /\ emitted' = emitted + 1 /\ emitted < MaxEvents
      BY <1>1, Zenon DEF Emit
    <2>2. RowsStepped
      BY <1>1, EmitShape, Zenon
    <2>3. \A p \in Ords : rows'[p].status = "purged" => rows[p].status = "purged"
      BY <1>0, <1>1, Zenon DEF Emit, NoRow
    <2>4. SnapInv(rows', counter', history', emitted', dbEpoch')
      BY <1>0, <2>1, <2>2, <2>3, StepKeeps, SMTT(30)
    <2> QED
      BY <1>0, <2>1, <2>2, <2>4, SMTT(30) DEF TablesOK, RowsStepped
  <1>2. ASSUME NEW o \in Ords, EndTx(o) PROVE TablesOK'
    <2>1. UNCHANGED <<counter, history, dbEpoch, emitted>>
      BY <1>2, Zenon DEF EndTx
    <2>2. RowsStepped
      BY <1>2, EndShape, Zenon
    <2>3. \A p \in Ords : rows'[p].status = "purged" => rows[p].status = "purged"
      BY <1>0, <1>2, Zenon DEF EndTx, Row
    <2>4. SnapInv(rows', counter', history', emitted', dbEpoch')
      BY <1>0, <2>1, <2>2, <2>3, StepKeeps, SMTT(30)
    <2> QED
      BY <1>0, <2>1, <2>2, <2>4, Zenon DEF TablesOK, RowsStepped
  <1>3. ASSUME NEW f \in Forwarders, NumberAndRead(f) PROVE TablesOK'
    <2>1. /\ UNCHANGED <<dbEpoch, emitted>> /\ rows' = NumberedRows /\ history' = NumberedHistory
          /\ counter' = [counter EXCEPT !.epoch = dbEpoch, !.last = LastSeq + Cardinality(Picked)]
      BY <1>3, Zenon DEF NumberAndRead, Picked
    <2>2. /\ LastSeq + Cardinality(Picked) \in Nat /\ rows' \in [Ords -> Row]
      <3>1. TypeOK /\ LastSeq \in Nat /\ Cardinality(Picked) \in Nat /\ Picked \subseteq Ords
        BY <2>1, NumberShape, Zenon DEF NumberInv, Unnumbered, Committed
      <3>2. \A o \in Ords : rows'[o] \in Row
        BY <1>0, <2>1, <3>1, NumberShape, Zenon
      <3>3. rows' = [o \in Ords |-> rows'[o]]
        BY <2>1, Zenon DEF NumberedRows
      <3> QED
        BY <3>1, <3>2, <3>3, SMTT(30)
    <2>3. /\ counter' \in Counter /\ counter'.epoch = dbEpoch /\ counter'.last = LastSeq + Cardinality(Picked)
          /\ counter'.purged = counter.purged
      BY <1>0, <2>1, <2>2, Zenon DEF Counter
    <2>4. history' \in SUBSET Fork
      BY <1>0, <2>1, SMTT(30) DEF NumberedHistory, Fork, Counter
    <2>5. SnapInv(rows', counter', history', emitted, dbEpoch)
      BY <2>1, <2>3, NumberKeeps, Zenon
    <2> QED
      BY <1>0, <2>1, <2>2, <2>3, <2>4, <2>5, Zenon DEF TablesOK
  <1>4. ASSUME NEW f \in Forwarders, rows' = Marked(f), UNCHANGED <<counter, history, dbEpoch, emitted>>
        PROVE  TablesOK'
    <2>1. RowsStepped
      BY <1>4, MarkShape, Zenon
    <2>2. \A p \in Ords : rows'[p].status = "purged" => rows[p].status = "purged"
      BY <1>0, <1>4, Zenon DEF Marked, Row
    <2>3. SnapInv(rows', counter', history', emitted', dbEpoch')
      BY <1>0, <1>4, <2>1, <2>2, StepKeeps, SMTT(30)
    <2> QED
      BY <1>0, <1>4, <2>1, <2>3, Zenon DEF TablesOK, RowsStepped
  <1>5. CASE Purge
    <2>1. UNCHANGED <<history, dbEpoch, emitted>>
      BY <1>5, Zenon DEF Purge
    <2>2. SnapInv(rows', counter', history', emitted', dbEpoch')
      BY <1>0, <1>5, <2>1, PurgeShape, StepKeeps, SMTT(30)
    <2> QED
      BY <1>0, <1>5, <2>1, <2>2, PurgeShape, Zenon DEF TablesOK, RowsStepped
  <1>6. CASE Recover
    <2>1. dbEpoch' = dbEpoch + 1 /\ emitted' = emitted
      BY <1>6, Zenon DEF Recover
    <2>2. CASE rows' = EndedRows /\ UNCHANGED <<counter, history>>
      <3>1. RowsStepped /\ \A p \in Ords : rows'[p].status = "purged" => rows[p].status = "purged"
        <4>1. \A p \in Ords : RowStep(rows, rows', p, emitted, emitted') /\ rows' \in [Ords -> Row]
          BY <2>2, EndedShape, Zenon
        <4>2. \A p \in Ords : rows'[p].status = "purged" => rows[p].status = "purged"
          BY <1>0, <2>2, Zenon DEF EndedRows, Row
        <4>3. rows' \in [Ords -> Row]
          BY <2>2, EndedShape, Zenon
        <4> QED
          BY <4>1, <4>2, <4>3, Zenon DEF RowsStepped
      <3>2. SnapInv(rows', counter', history', emitted', dbEpoch')
        BY <1>0, <2>1, <2>2, <3>1, StepKeeps, SMTT(30)
      <3> QED
        BY <1>0, <2>1, <2>2, <3>1, <3>2, SMTT(30) DEF TablesOK, RowsStepped
    <2>3. CASE rows' = backup.rows /\ counter' = backup.counter /\ history' = backup.history
      <3>1. /\ backup.rows \in [Ords -> Row] /\ backup.counter \in Counter /\ backup.history \in SUBSET Fork
            /\ SnapInv(backup.rows, backup.counter, backup.history, emitted, dbEpoch)
        BY Zenon DEF NumberInv, TypeOK
      <3>2. dbEpoch' \in Nat /\ dbEpoch <= dbEpoch'
        BY <1>0, <2>1, SMTT(30)
      <3>3. SnapInv(backup.rows, backup.counter, backup.history, emitted, dbEpoch')
        BY <1>0, <3>1, <3>2, SnapGrows, SMTT(30)
      <3> QED
        BY <1>0, <2>1, <2>3, <3>1, <3>2, <3>3, Zenon DEF TablesOK
    <2> QED
      BY <1>6, <2>2, <2>3, Zenon DEF Recover, EndedRows
  <1>7. CASE UNCHANGED <<rows, counter, history, dbEpoch, emitted>>
    BY <1>0, <1>7, Zenon DEF TablesOK
  <1> QED
    BY <1>1, <1>2, <1>3, <1>4, <1>5, <1>6, <1>7, TableSteps, Zenon
\* The backup's part of NumberInv.
BackupOK ==
    /\ backup \in [rows : [Ords -> Row], counter : Counter, history : SUBSET Fork]
    /\ SnapInv(backup.rows, backup.counter, backup.history, emitted, dbEpoch)
    /\ \A o \in Ords : backup.rows[o].status # "open"

\* Every step keeps the backup as it should be, a restore included.
LEMMA BackupStep == ASSUME NumberInv, [Next]_vars PROVE BackupOK'
  <1>0. /\ rows \in [Ords -> Row] /\ counter \in Counter /\ history \in SUBSET Fork
        /\ dbEpoch \in Nat /\ emitted \in Nat /\ SnapInv(rows, counter, history, emitted, dbEpoch)
        /\ backup \in [rows : [Ords -> Row], counter : Counter, history : SUBSET Fork] /\ BackupOK
    BY OutboxConstants, SMTT(30) DEF NumberInv, TypeOK, BackupOK
  <1>1. emitted' \in {emitted, emitted + 1} /\ dbEpoch' \in {dbEpoch, dbEpoch + 1}
    BY Zenon DEF Next, Emit, EndTx, Forward, TakeLease, NumberAndRead, Publish, Mark, PublishFails, Crash, LeaseEnds,
                 Purge, ResendAsked, ResendBatch, ResendFails, Backup, Recover, vars
  <1>2. emitted' \in Nat /\ emitted <= emitted' /\ dbEpoch' \in Nat /\ dbEpoch <= dbEpoch'
    BY <1>0, <1>1, SMTT(30)
  <1>3. CASE backup' = backup
    <2>1. SnapInv(backup.rows, backup.counter, backup.history, emitted', dbEpoch')
      BY <1>0, <1>2, SnapGrows, Zenon DEF BackupOK
    <2> QED
      BY <1>0, <1>3, <2>1, Zenon DEF BackupOK
  <1>4. CASE Backup
    <2>1. UNCHANGED <<emitted, dbEpoch>>
      BY <1>4, Zenon DEF Backup
    <2>2. backup'.rows = EndedRows /\ backup'.counter = counter /\ backup'.history = history
      BY <1>4, Zenon DEF Backup, EndedRows
    <2>3. EndedRows \in [Ords -> Row] /\ \A o \in Ords : RowStep(rows, EndedRows, o, emitted, emitted)
      BY EndedShape, Zenon
    <2>4. PurgedIn(EndedRows, counter)
      <3>1. \A o \in Ords : EndedRows[o].status = "purged" => EndedRows[o] = rows[o]
        BY <2>3, Zenon DEF RowStep, EndedRows, Row
      <3> QED
        BY <1>0, <3>1, Zenon DEF SnapInv, PurgedIn
    <2>5. SnapInv(EndedRows, counter, history, emitted, dbEpoch)
      BY <1>0, <2>3, <2>4, SnapKept, SMTT(30)
    <2>6. backup' \in [rows : [Ords -> Row], counter : Counter, history : SUBSET Fork]
      <3>1. backup' = [rows |-> EndedRows, counter |-> counter, history |-> history]
        BY <1>4, Zenon DEF Backup, EndedRows
      <3> QED
        BY <1>0, <2>3, <3>1, Zenon
    <2> QED
      BY <2>1, <2>2, <2>5, <2>6, EndedShape, Zenon DEF BackupOK
  <1>5. backup' = backup \/ Backup
    BY Zenon DEF Next, Emit, EndTx, Forward, TakeLease, NumberAndRead, Publish, Mark, PublishFails, Crash, LeaseEnds,
                 Purge, ResendAsked, ResendBatch, ResendFails, Recover, vars
  <1> QED
    BY <1>3, <1>4, <1>5, Zenon

\* The next row of a batch is one of its rows, with the least position (forwarder.go: partition).
LEMMA NextIsLeast ==
  ASSUME NEW todo, todo \subseteq Row \X Ords, todo # {}
  PROVE  /\ NextToPublish(todo) \in todo
         /\ \A u \in todo : ~Less(PointOf(u[1]), PointOf(NextToPublish(todo)[1]))
  <1> DEFINE g == [t \in todo |-> PointOf(t[1])]
  <1>1. g \in [todo -> Point]
    <2>1. \A t \in todo : t[1] \in Row
      BY Zenon
    <2> QED
      BY <2>1, Zenon DEF PointOf, Point, Row
  <1>2. \E t \in todo : \A u \in todo : ~Less(g[u], g[t])
    BY <1>1, LeastPoint, Zenon
  <1>3. \E t \in todo : \A u \in todo : ~Less(PointOf(u[1]), PointOf(t[1]))
    BY <1>2, Zenon
  <1> QED
    BY <1>3, Zenon DEF NextToPublish

\* The forwarders' part of NumberInv.
ForwardersOK ==
    /\ fwd \in [Forwarders -> Fwd]
    /\ \A f \in Forwarders :
         /\ fwd[f].phase = "publishing" => fwd[f].todo # {}
         /\ fwd[f].phase = "marking" => fwd[f].done # {}
         /\ \A t \in fwd[f].todo : t[1].ev # 0

\* A forwarder's new state.
LEMMA ForwarderSet ==
  ASSUME ForwardersOK, NEW f \in Forwarders, NEW x \in Fwd, fwd' = [fwd EXCEPT ![f] = x],
         x.phase = "publishing" => x.todo # {}, x.phase = "marking" => x.done # {}, \A t \in x.todo : t[1].ev # 0
  PROVE  ForwardersOK'
  <1>1. fwd' \in [Forwarders -> Fwd] /\ fwd'[f] = x /\ \A g \in Forwarders : g # f => fwd'[g] = fwd[g]
    BY Zenon DEF ForwardersOK
  <1> QED
    BY <1>1, Zenon DEF ForwardersOK

\* Every step keeps the forwarders' batches as they should be.
LEMMA ForwardersStep == ASSUME NumberInv, [Next]_vars PROVE ForwardersOK'
  <1>0. /\ ForwardersOK /\ fwd \in [Forwarders -> Fwd] /\ scenario.forwarders \subseteq Forwarders
        /\ \A f \in Forwarders : /\ fwd[f].todo \subseteq Row \X Ords /\ fwd[f].done \subseteq Ords /\ fwd[f] \in Fwd
                                 /\ \A t \in fwd[f].todo : t[1].ev # 0
    BY OutboxConstants, Zenon DEF ForwardersOK, NumberInv, TypeOK, Fwd, Scenario
  <1>1. IdleFwd \in Fwd /\ IdleFwd.phase = "idle" /\ IdleFwd.todo = {}
    BY Zenon DEF IdleFwd, Fwd
  <1>2. ASSUME NEW f \in Forwarders, TakeLease(f) PROVE ForwardersOK'
    <2> DEFINE x == [fwd[f] EXCEPT !.phase = "leased"]
    <2>1. x \in Fwd /\ x.phase = "leased" /\ x.todo = fwd[f].todo
      BY <1>0, Zenon DEF Fwd
    <2>2. fwd' = [fwd EXCEPT ![f] = x]
      BY <1>0, <1>2, Zenon DEF TakeLease
    <2> HIDE DEF x
    <2> QED
      BY <1>0, <2>1, <2>2, ForwarderSet, Zenon
  <1>3. ASSUME NEW f \in Forwarders, NumberAndRead(f) PROVE ForwardersOK'
    <2> DEFINE batch == UnpublishedIn(NumberedRows)
               x == [phase |-> "publishing", todo |-> {<<NumberedRows[o], o>> : o \in batch}, done |-> {}]
    <2>1. fwd' = [fwd EXCEPT ![f] = IF batch = {} THEN IdleFwd ELSE x] /\ rows' = NumberedRows
      BY <1>3, Zenon DEF NumberAndRead
    <2>2. \A o \in batch : o \in Ords /\ NumberedRows[o] \in Row /\ NumberedRows[o].ev # 0
      <3>1. TablesOK' /\ emitted' \in Nat
        BY TablesStep, OutboxConstants, SMTT(30) DEF TablesOK
      <3>2. \A o \in Ords : NumberedRows[o] \in Row
        BY <2>1, <3>1, Zenon DEF TablesOK
      <3>3. \A o \in Ords : NumberedRows[o].status # "none" => NumberedRows[o].ev # 0
        BY <2>1, <3>1, SMTT(30) DEF TablesOK, SnapInv, RowsInv
      <3> QED
        BY <3>2, <3>3, Zenon DEF UnpublishedIn
    <2> HIDE DEF batch
    <2>3. ASSUME batch # {} PROVE x \in Fwd /\ x.phase = "publishing" /\ x.todo # {} /\ \A t \in x.todo : t[1].ev # 0
      <3> DEFINE todo == {<<NumberedRows[o], o>> : o \in batch}
      <3>1. todo \in SUBSET (Row \X Ords)
        BY <2>2, SMTT(30)
      <3>2. todo # {} /\ \A t \in todo : t[1].ev # 0
        <4>1. PICK o \in batch : TRUE
          BY <2>3, Zenon
        <4>2. <<NumberedRows[o], o>> \in todo
          BY <4>1, Zenon
        <4>3. \A t \in todo : \E q \in batch : t = <<NumberedRows[q], q>>
          BY Zenon
        <4>4. \A t \in todo : \E q \in batch : t[1] = NumberedRows[q]
          BY <4>3, SMTT(30)
        <4> QED
          BY <2>2, <4>2, <4>4, Zenon
      <3>3. x = [phase |-> "publishing", todo |-> todo, done |-> {}]
        BY Zenon
      <3> HIDE DEF todo
      <3> QED
        BY <3>1, <3>2, <3>3, Zenon DEF Fwd
    <2> HIDE DEF x
    <2>4. CASE batch = {}
      <3>1. fwd' = [fwd EXCEPT ![f] = IdleFwd]
        BY <2>1, <2>4, Zenon
      <3> QED
        BY <1>0, <1>1, <3>1, ForwarderSet, Zenon
    <2>5. CASE batch # {}
      <3>1. fwd' = [fwd EXCEPT ![f] = x]
        BY <2>1, <2>5, Zenon
      <3> QED
        BY <1>0, <2>3, <2>5, <3>1, ForwarderSet, Zenon
    <2> QED
      BY <2>4, <2>5, Zenon
  <1>4. ASSUME NEW f \in Forwarders, Publish(f) PROVE ForwardersOK'
    <2> DEFINE t == NextToPublish(fwd[f].todo)
               x == [phase |-> IF fwd[f].todo = {t} THEN "marking" ELSE "publishing",
                     todo  |-> fwd[f].todo \ {t}, done |-> fwd[f].done \cup {t[2]}]
    <2>1. fwd' = [fwd EXCEPT ![f] = x]
      BY <1>0, <1>4, Zenon DEF Publish
    <2>2. t \in fwd[f].todo /\ t[2] \in Ords
      <3>1. fwd[f].todo # {}
        BY <1>0, <1>4, Zenon DEF Publish, ForwardersOK
      <3>2. t \in fwd[f].todo
        BY <1>0, <3>1, NextIsLeast, Zenon
      <3> QED
        BY <1>0, <3>2, Zenon
    <2> HIDE DEF t
    <2>3. /\ x \in Fwd
          /\ x.phase = "publishing" => x.todo # {}
          /\ x.phase = "marking" => x.done # {}
          /\ \A u \in x.todo : u[1].ev # 0
      <3>1. x.phase = "publishing" => x.todo # {}
        BY <2>2, Zenon
      <3>2. x \in Fwd
        BY <1>0, <2>2, Zenon DEF Fwd
      <3> QED
        BY <1>0, <2>2, <3>1, <3>2, Zenon
    <2> HIDE DEF x
    <2> QED
      BY <1>0, <2>1, <2>3, ForwarderSet, ZenonT(30)
  <1>5. ASSUME NEW f \in Forwarders, PublishFails(f) PROVE ForwardersOK'
    <2> DEFINE x == IF fwd[f].done = {} THEN IdleFwd ELSE [fwd[f] EXCEPT !.phase = "marking", !.todo = {}]
    <2>1. fwd' = [fwd EXCEPT ![f] = x]
      BY <1>0, <1>5, Zenon DEF PublishFails
    <2>2. x \in Fwd /\ x.phase # "publishing" /\ (x.phase = "marking" => x.done # {}) /\ x.todo = {}
      BY <1>0, <1>1, Zenon DEF Fwd
    <2> HIDE DEF x
    <2> QED
      BY <1>0, <2>1, <2>2, ForwarderSet, Zenon
  <1>6. ASSUME NEW f \in Forwarders, Mark(f) \/ Crash(f) PROVE ForwardersOK'
    <2>1. fwd' = [fwd EXCEPT ![f] = IdleFwd]
      BY <1>6, Zenon DEF Mark, Crash
    <2> QED
      BY <1>0, <1>1, <2>1, ForwarderSet, Zenon
  <1>7. CASE Recover
    <2>1. fwd' = fwd \/ fwd' = [f \in Forwarders |-> IdleFwd]
      BY <1>7, Zenon DEF Recover
    <2> QED
      BY <1>0, <1>1, <2>1, Zenon DEF ForwardersOK
  <1>8. CASE fwd' = fwd
    BY <1>0, <1>8, Zenon DEF ForwardersOK
  <1>9. \/ fwd' = fwd \/ Recover
        \/ \E f \in scenario.forwarders : Forward(f) \/ PublishFails(f) \/ Crash(f)
    BY Zenon DEF Next, Emit, EndTx, LeaseEnds, Purge, ResendAsked, ResendBatch, ResendFails, Backup, vars
  <1> QED
    BY <1>0, <1>2, <1>3, <1>4, <1>5, <1>6, <1>7, <1>8, <1>9, Zenon DEF Forward
\* The bus gets the next row of a batch, unless it has the event.
LEMMA BusShape ==
  ASSUME NumberInv, [Next]_vars
  PROVE  /\ bus' \in Seq(Message)
         /\ \/ bus' = bus
            \/ \E f \in Forwarders : LET t == NextToPublish(fwd[f].todo) IN
                 /\ fwd[f].phase = "publishing" /\ t \in fwd[f].todo /\ (Publish(f) \/ PublishFails(f))
                 /\ bus' = Append(bus, MessageOf(t)) /\ ~OnBus(t[1].ev)
  <1>0. /\ bus \in Seq(Message) /\ scenario.forwarders \subseteq Forwarders /\ MaxEvents \in Nat
        /\ \A f \in Forwarders : fwd[f].todo \subseteq Row \X Ords
    BY OutboxConstants, Zenon DEF NumberInv, TypeOK, Scenario, Fwd
  <1>1. bus' = bus \/ \E f \in scenario.forwarders : Publish(f) \/ PublishFails(f)
    BY Zenon DEF Next, Emit, EndTx, Forward, TakeLease, NumberAndRead, Mark, Crash, LeaseEnds, Purge, ResendAsked,
                 ResendBatch, ResendFails, Backup, Recover, vars
  <1>2. ASSUME NEW f \in Forwarders, Publish(f) \/ PublishFails(f), bus' # bus
        PROVE  LET t == NextToPublish(fwd[f].todo) IN
                 /\ fwd[f].phase = "publishing" /\ t \in fwd[f].todo /\ MessageOf(t) \in Message
                 /\ bus' = Append(bus, MessageOf(t)) /\ ~OnBus(t[1].ev)
    <2> DEFINE t == NextToPublish(fwd[f].todo)
    <2>1. fwd[f].phase = "publishing" /\ bus' \in {bus, Stored(MessageOf(t))}
      BY <1>2, Zenon DEF Publish, PublishFails
    <2>2. t \in fwd[f].todo
      <3>1. fwd[f].todo # {}
        BY <2>1, Zenon DEF NumberInv, TypeOK
      <3> QED
        BY <1>0, <3>1, NextIsLeast, Zenon
    <2>3. MessageOf(t) \in Message
      <3>1. t[1] \in Row /\ t[1].ev # 0
        BY <1>0, <2>2, Zenon DEF NumberInv
      <3>2. t[1].ev \in 1..MaxEvents /\ t[1].epoch \in Nat /\ t[1].seq \in Nat
        BY <1>0, <3>1, SMTT(30) DEF Row
      <3> QED
        BY <3>2, Zenon DEF MessageOf, Message
    <2>4. bus' = Stored(MessageOf(t)) /\ MessageOf(t).ev = t[1].ev
      BY <1>2, <2>1, Zenon DEF MessageOf
    <2> HIDE DEF t
    <2>5. bus' = Append(bus, MessageOf(t)) /\ ~OnBus(t[1].ev)
      BY <1>2, <2>4, Zenon DEF Stored
    <2> QED
      BY <2>1, <2>2, <2>3, <2>5, Zenon DEF t
  <1>3. CASE bus' = bus
    BY <1>0, <1>3, Zenon
  <1>4. CASE bus' # bus
    <2>1. PICK f \in Forwarders : Publish(f) \/ PublishFails(f)
      BY <1>0, <1>1, <1>4, Zenon
    <2> DEFINE t == NextToPublish(fwd[f].todo)
    <2>2. /\ fwd[f].phase = "publishing" /\ t \in fwd[f].todo /\ MessageOf(t) \in Message
          /\ bus' = Append(bus, MessageOf(t)) /\ ~OnBus(t[1].ev)
      BY <1>2, <1>4, <2>1, Zenon
    <2>3. bus' \in Seq(Message)
      BY <1>0, <2>2, SMTT(30)
    <2> QED
      BY <2>1, <2>2, <2>3, Zenon
  <1> QED
    BY <1>3, <1>4, Zenon

\* A redelivery keeps its type.
LEMMA ResendTypes == ASSUME NumberInv, [Next]_vars PROVE resend' \in Resend
  <1>0. /\ resend \in Resend /\ resend.sent \subseteq 1..MaxEvents /\ rows \in [Ords -> Row] /\ bus \in Seq(Message)
        /\ \A o \in Ords : PointOf(rows[o]) \in Point
        /\ Zero \in Point /\ emitted \in 0..MaxEvents /\ MaxEvents \in Nat
    BY OutboxConstants, Zenon DEF NumberInv, TypeOK, Resend, Zero, Point, PointOf, Row
  <1>1. \A o \in Numbered : o \in Ords /\ rows[o].ev \in 1..MaxEvents
    <2>1. \A o \in Ords : rows[o].status # "none" => rows[o].ev \in 1..emitted
      BY Zenon DEF NumberInv, SnapInv, RowsInv
    <2>2. 1..emitted \subseteq 1..MaxEvents
      BY <1>0, SMTT(30)
    <2> QED
      BY <2>1, <2>2, Zenon DEF Numbered, Committed
  <1>2. NoResend \in Resend
    BY <1>0, Zenon DEF NoResend, Resend
  <1>3. CASE ResendAsked
    <2>1. PICK after \in {[epoch |-> bus[k].epoch, seq |-> bus[k].seq] : k \in DOMAIN bus} \cup {Zero} :
            resend' = [phase  |-> IF Ahead(after) THEN "answered" ELSE "sending",
                       after  |-> after,
                       beyond |-> Beyond(after),
                       kept   |-> IF Ahead(after) THEN {} ELSE EventsAfter(after, Numbered \ Unpublished),
                       sent   |-> {}]
      BY <1>3, Zenon DEF ResendAsked
    <2>2. after \in Point
      <3>1. \A k \in DOMAIN bus : bus[k] \in Message
        BY <1>0, SMTT(30)
      <3> QED
        BY <1>0, <2>1, <3>1, SMTT(30) DEF Message, Point
    <2>3. EventsAfter(after, Numbered \ Unpublished) \subseteq 1..MaxEvents
      BY <1>1, Zenon DEF EventsAfter
    <2>4. Beyond(after) \in BOOLEAN
      BY Zenon DEF Beyond
    <2> QED
      BY <2>1, <2>2, <2>3, <2>4, Zenon DEF Resend
  <1>4. CASE ResendBatch
    <2> DEFINE later == {o \in Numbered \ Unpublished : Less(resend.after, PointOf(rows[o]))}
               batch == {o \in later : Cardinality({p \in later : Less(PointOf(rows[p]), PointOf(rows[o]))}) < Batch}
               last == CHOOSE o \in batch : \A p \in batch : ~Less(PointOf(rows[o]), PointOf(rows[p]))
               sent == {rows[o].ev : o \in batch}
               after == IF batch = {} THEN resend.after ELSE PointOf(rows[last])
               phase == IF Drained(batch) THEN "answered" ELSE resend.phase
    <2>1. resend' = [resend EXCEPT !.sent = resend.sent \cup sent, !.after = after, !.phase = phase]
      BY <1>0, <1>4, Zenon DEF ResendBatch, Resend
    <2>2. batch \subseteq Numbered /\ IsFiniteSet(batch)
      <3>1. batch \subseteq Numbered
        BY Zenon
      <3>2. batch \in SUBSET Ords
        BY <1>1, <3>1, Zenon
      <3> HIDE DEF batch
      <3> QED
        BY <3>1, <3>2, OrdsFinite, Zenon
    <2> HIDE DEF batch, later
    <2>3. sent \subseteq 1..MaxEvents
      BY <1>1, <2>2, Zenon
    <2>4. after \in Point
      <3>1. CASE batch # {}
        <4> DEFINE g == [q \in batch |-> PointOf(rows[q])]
        <4>1. g \in [batch -> Point]
          BY <1>0, <1>1, <2>2, Zenon
        <4>2. \E q \in batch : \A r \in batch : ~Less(g[q], g[r])
          BY <2>2, <3>1, <4>1, GreatestPoint, Zenon
        <4>3. \E q \in batch : \A r \in batch : ~Less(PointOf(rows[q]), PointOf(rows[r]))
          BY <4>2, Zenon
        <4>4. last \in batch
          BY <4>3, Zenon
        <4> HIDE DEF last
        <4> QED
          BY <1>0, <1>1, <2>2, <3>1, <4>4, Zenon
      <3>2. CASE batch = {}
        BY <1>0, <3>2, Zenon DEF Resend
      <3> QED
        BY <3>1, <3>2, Zenon
    <2>5. phase \in {"none", "sending", "answered"}
      BY <1>0, Zenon DEF Resend
    <2>6. resend.sent \cup sent \subseteq 1..MaxEvents
      BY <1>0, <2>3, Zenon
    <2> HIDE DEF sent, after, phase
    <2> QED
      BY <1>0, <2>1, <2>4, <2>5, <2>6, Zenon DEF Resend
  <1>5. resend' \in {resend, NoResend} \/ ResendAsked \/ ResendBatch
    BY Zenon DEF Next, Emit, EndTx, Forward, TakeLease, NumberAndRead, Publish, Mark, PublishFails, Crash, LeaseEnds,
                 Purge, ResendFails, Backup, Recover, vars
  <1> QED
    BY <1>0, <1>2, <1>3, <1>4, <1>5, Zenon

-----------------------------------------------------------------------------
(* Numbering, for every scenario.                                          *)

\* The empty outbox is as it should be.
LEMMA InitNumber == Init => NumberInv
  <1> SUFFICES ASSUME Init PROVE NumberInv
    BY Zenon
  <1>0. MaxEvents \in Nat /\ \A o \in Ords : rows[o] = NoRow
    BY OutboxConstants, Zenon DEF Init
  <1>1. NoRow \in Row /\ NoRow.status = "none" /\ NoRow.seq = 0 /\ NoRow.seen = {} /\ NoRow.ev = 0
    BY <1>0, SMTT(30) DEF NoRow, Row
  <1>2. rows \in [Ords -> Row] /\ counter \in Counter /\ history = {} /\ Zero \in Point
    BY <1>1, Zenon DEF Init, Counter, Zero, Point
  <1>3. TypeOK
    <2>1. backup \in [rows : [Ords -> Row], counter : Counter, history : SUBSET Fork]
      BY <1>2, Zenon DEF Init
    <2>2. fwd \in [Forwarders -> Fwd] /\ \A f \in Forwarders : fwd[f].phase = "idle"
      BY Zenon DEF Init, IdleFwd, Fwd
    <2>3. resend \in Resend
      BY <1>0, <1>2, Zenon DEF Init, NoResend, Resend
    <2>4. bus \in Seq(Message)
      BY SMTT(30) DEF Init
    <2> QED
      BY <1>0, <1>2, <2>1, <2>2, <2>3, <2>4, SMTT(30) DEF Init, TypeOK
  <1>4. PositionedIn(rows) = {}
    BY <1>0, <1>1, Zenon DEF PositionedIn, There
  <1>5. SnapInv(rows, counter, history, emitted, dbEpoch)
    <2>1. RowsInv(rows, emitted)
      BY <1>0, <1>1, Zenon DEF RowsInv, There
    <2>2. NumInv(rows, counter, history, dbEpoch)
      BY <1>2, <1>4, SMTT(30) DEF Init, NumInv
    <2>3. CausalIn(rows) /\ PurgedIn(rows, counter)
      BY <1>0, <1>1, <1>4, Zenon DEF CausalIn, PurgedIn
    <2> QED
      BY <2>1, <2>2, <2>3, Zenon DEF SnapInv
  <1>6. backup.rows = rows /\ backup.counter = counter /\ backup.history = history
    BY Zenon DEF Init
  <1>7. \A f \in Forwarders : fwd[f].todo = {}
    BY Zenon DEF Init, IdleFwd
  <1> QED
    BY <1>0, <1>1, <1>3, <1>5, <1>6, <1>7, Zenon DEF NumberInv

\* Every step keeps the invariant of the numbering.
LEMMA NumberStep == ASSUME NumberInv, [Next]_vars PROVE NumberInv'
  <1>1. scenario' = scenario /\ faults' \in {faults, faults + 1} /\ lease' \in {lease, "none"} \cup scenario.forwarders
    BY ZenonT(30) DEF Next, Emit, EndTx, Forward, TakeLease, NumberAndRead, Publish, Mark, PublishFails, Crash, LeaseEnds,
                 Purge, ResendAsked, ResendBatch, ResendFails, Backup, Recover, vars, Spend
  <1>2. scenario' \in Scenarios /\ faults' \in Nat /\ lease' \in Forwarders \cup {"none"}
    BY <1>1, OutboxConstants, SMTT(30) DEF NumberInv, TypeOK, Scenario
  <1>3. TablesOK' /\ BackupOK' /\ ForwardersOK' /\ bus' \in Seq(Message) /\ resend' \in Resend
    BY TablesStep, BackupStep, ForwardersStep, BusShape, ResendTypes, Zenon
  <1>4. TypeOK'
    BY <1>2, <1>3, Zenon DEF TypeOK, TablesOK, BackupOK, ForwardersOK
  <1> QED
    BY <1>3, <1>4, Zenon DEF NumberInv, TablesOK, BackupOK, ForwardersOK

\* The invariant of numbering holds in every state of every behaviour.
THEOREM NumberingInductive == Spec => []NumberInv
  BY InitNumber, NumberStep, PTL DEF Spec

\* For any number of events, batches, failovers and restores, the positions of each epoch are 1..n without gaps or
\* repetitions (number.go: numberIn).
THEOREM PositionsAreContiguous == Spec => []PositionsContiguous
  <1>1. NumberInv => PositionsContiguous
    <2> SUFFICES ASSUME NumberInv PROVE PositionsContiguous
      BY Zenon
    <2>0. /\ NumInv(rows, counter, history, dbEpoch) /\ RowsInv(rows, emitted) /\ Positioned = PositionedIn(rows)
          /\ \A o \in Positioned : rows[o].seq \in Nat /\ rows[o].seq # 0
          /\ \A x \in history : x.fork \in Nat
          /\ counter.last \in Nat
      BY Zenon DEF NumberInv, SnapInv, TypeOK, Counter, Positioned, PositionedIn, There, Row, Fork
    <2>1. {rows[o].seq : o \in {p \in Positioned : rows[p].epoch = counter.epoch}} = 1..counter.last
      BY <2>0, SMTT(30) DEF NumInv
    <2>2. \A x \in history : {rows[o].seq : o \in {p \in Positioned : rows[p].epoch = x.old}} = 1..x.fork
      BY <2>0, SMTT(30) DEF NumInv
    <2> QED
      BY <2>0, <2>1, <2>2, Zenon DEF PositionsContiguous, NumInv
  <1> QED
    BY NumberingInductive, <1>1, PTL

\* Numbering follows causality, however transactions overlap and whatever a failover or a restore loses
\* (producer.go: insert; number.go: numberIn).
THEOREM NumberingIsCausal == Spec => []CausalOrder
  <1>1. NumberInv => CausalOrder
    BY Zenon DEF NumberInv, SnapInv, CausalIn, CausalOrder, Positioned, PositionedIn, There
  <1> QED
    BY NumberingInductive, <1>1, PTL

-----------------------------------------------------------------------------
(* The rows by steps that do not number.                                   *)

\* The order in which rows are numbered, or will be.
Prec(rs, p, o) ==
    \/ rs[p].seq # 0 /\ (rs[o].seq # 0 => Less(PointOf(rs[p]), PointOf(rs[o])))
    \/ rs[p].seq = 0 /\ rs[o].seq = 0 /\ p < o

\* What they do to rows: positions and events stay, marks and purges are for good, and a new row has the next event.
Kept(rs, rt, e) ==
    \A o \in Ords :
        /\ rt[o].seq = rs[o].seq
        /\ rs[o].seq # 0 => rt[o].epoch = rs[o].epoch /\ There(rt, o)
        /\ rs[o].marked => rt[o].marked
        /\ There(rs, o) => There(rt, o)
        /\ There(rt, o) => There(rs, o) \/ rs[o].status = "open"
        /\ rs[o].status = "purged" => rt[o].status = "purged"
        /\ rs[o].status = "rolled_back" => rt[o].status = "rolled_back"
        /\ rt[o].status = "open" => rs[o].status \in {"none", "open"}
        /\ rs[o].status # "none" => rt[o].ev = rs[o].ev
        /\ rs[o].status = "none" => rt[o] = rs[o] \/ (rt[o].status = "open" /\ rt[o].ev = e + 1 /\ ~rt[o].marked)

\* Legal steps of the rows keep positions, marks and order.
LEMMA StepsKeep ==
  ASSUME NEW rs \in [Ords -> Row], NEW rt \in [Ords -> Row], NEW e \in Nat, NEW et \in Nat, RowsInv(rs, e),
         \A o \in Ords : RowStep(rs, rt, o, e, et)
  PROVE  Kept(rs, rt, e)
  <1>1. ASSUME NEW o \in Ords
        PROVE  /\ rt[o].seq = rs[o].seq
               /\ rs[o].seq # 0 => rt[o].epoch = rs[o].epoch /\ There(rt, o)
               /\ rs[o].marked => rt[o].marked
               /\ There(rs, o) => There(rt, o)
               /\ There(rt, o) => There(rs, o) \/ rs[o].status = "open"
               /\ rs[o].status = "purged" => rt[o].status = "purged"
               /\ rs[o].status = "rolled_back" => rt[o].status = "rolled_back"
               /\ rt[o].status = "open" => rs[o].status \in {"none", "open"}
               /\ rs[o].status # "none" => rt[o].ev = rs[o].ev
               /\ rs[o].status = "none" => rt[o] = rs[o] \/ (rt[o].status = "open" /\ rt[o].ev = e + 1 /\ ~rt[o].marked)
    <2>1. RowStep(rs, rt, o, e, et)
      BY Zenon
    <2>2. rs[o].status = "none" => rs[o].seq = 0 /\ ~rs[o].marked
      BY SMTT(30) DEF RowsInv, NoRow
    <2>3. rs[o].seq # 0 => There(rs, o)
      BY Zenon DEF RowsInv
    <2> QED
      BY <2>1, <2>2, <2>3, Zenon DEF RowStep, There
  <1> QED
    BY <1>1, Zenon DEF Kept

\* Positions are the same after such a step.
LEMMA KeptPositions ==
  ASSUME NEW rs \in [Ords -> Row], NEW rt \in [Ords -> Row], NEW e \in Nat, RowsInv(rs, e), Kept(rs, rt, e)
  PROVE  /\ \A o \in Ords : o \in PositionedIn(rt) <=> o \in PositionedIn(rs)
         /\ \A o \in Ords : rs[o].seq # 0 => PointOf(rt[o]) = PointOf(rs[o]) /\ rt[o].ev = rs[o].ev
         /\ \A o, p \in Ords : Prec(rt, p, o) <=> Prec(rs, p, o)
  <1>1. \A o \in Ords : rs[o].seq # 0 => PointOf(rt[o]) = PointOf(rs[o]) /\ rt[o].ev = rs[o].ev
    BY Zenon DEF Kept, PointOf, RowsInv, There
  <1>2. \A o \in Ords : o \in PositionedIn(rt) <=> o \in PositionedIn(rs)
    BY Zenon DEF Kept, PositionedIn, RowsInv
  <1>3. \A o, p \in Ords : Prec(rt, p, o) <=> Prec(rs, p, o)
    BY <1>1, Zenon DEF Kept, Prec
  <1> QED
    BY <1>1, <1>2, <1>3, Zenon

-----------------------------------------------------------------------------
(* The rows by numbering.                                                  *)

\* What it does to rows, with last the counter's sequence in the epoch d.
Renumbered(rs, rt, d, last) ==
    /\ \A o \in Ords : /\ rt[o].status = rs[o].status /\ rt[o].ev = rs[o].ev /\ rt[o].marked = rs[o].marked
                       /\ rs[o].seq # 0 => rt[o] = rs[o]
                       /\ rs[o].seq = 0 /\ rt[o].seq # 0 =>
                            rs[o].status = "committed" /\ rt[o].epoch = d /\ last < rt[o].seq
    /\ \A o, q \in Ords : rs[o].seq = 0 /\ rt[o].seq # 0 /\ rs[q].seq = 0 /\ rs[q].status = "committed" /\ q < o =>
         rt[q].seq # 0 /\ rt[q].seq < rt[o].seq
    /\ \A o \in PositionedIn(rs) : rs[o].epoch <= d /\ (rs[o].epoch = d => rs[o].seq <= last)

\* Numbering gives the picked rows the numbers behind the last one and leaves the others alone.
LEMMA NumberRenumbers ==
  ASSUME NumberInv, rows' = NumberedRows PROVE Renumbered(rows, rows', dbEpoch, LastSeq) /\ LastSeq \in Nat
  <1>0. /\ TypeOK /\ rows \in [Ords -> Row] /\ NumInv(rows, counter, history, dbEpoch) /\ RowsInv(rows, emitted)
        /\ counter.epoch \in Nat /\ dbEpoch \in Nat /\ counter.last \in Nat
        /\ \A o \in Ords : rows[o].epoch \in Nat
    BY Zenon DEF NumberInv, SnapInv, TypeOK, Counter, Row
  <1>1. /\ LastSeq \in Nat
        /\ \A o \in Picked : /\ o \in Ords /\ rows[o].seq = 0 /\ rows[o].status = "committed"
                             /\ rows'[o].status = rows[o].status /\ rows'[o].ev = rows[o].ev
                             /\ rows'[o].marked = rows[o].marked
                             /\ rows'[o].epoch = dbEpoch /\ LastSeq < rows'[o].seq /\ rows'[o].seq # 0
        /\ \A o \in Ords : o \notin Picked => rows'[o] = rows[o]
        /\ \A o, q \in Picked : q < o => rows'[q].seq < rows'[o].seq
        /\ \A o \in Picked, q \in Unnumbered : q < o => q \in Picked
    <2>1. \A o \in Picked : LastSeq < rows'[o].seq /\ rows'[o].seq \in Nat
      <3>1. \A o \in Picked : LastSeq < rows'[o].seq /\ rows'[o] \in Row
        BY <1>0, NumberShape, Zenon
      <3> QED
        BY <3>1, Zenon DEF Row
    <2>2. LastSeq \in Nat
      BY <1>0, NumberShape, Zenon
    <2>3. \A o \in Picked : rows'[o].seq # 0
      BY <2>1, <2>2, SMTT(30)
    <2> QED
      BY <1>0, <2>2, <2>3, NumberShape, ZenonT(30) DEF Unnumbered, Committed
  <1>2. \A o \in PositionedIn(rows) : rows[o].epoch <= dbEpoch /\ (rows[o].epoch = dbEpoch => rows[o].seq <= LastSeq)
    <2> TAKE o \in PositionedIn(rows)
    <2>1. /\ counter.epoch <= dbEpoch /\ rows[o].epoch <= counter.epoch /\ rows[o].epoch \in Nat
          /\ rows[o].epoch = counter.epoch => rows[o].seq <= counter.last
      BY <1>0, Zenon DEF NumInv, PositionedIn
    <2> QED
      BY <1>0, <2>1, SMTT(30) DEF LastSeq
  <1>3. \A o \in Ords : o \in Picked <=> rows[o].seq = 0 /\ rows'[o].seq # 0
    BY <1>1, Zenon
  <1>4. \A o \in Ords : rows[o].seq = 0 /\ rows[o].status = "committed" => o \in Unnumbered
    BY Zenon DEF Unnumbered, Committed
  <1>5. ASSUME NEW o \in Ords, NEW q \in Ords, rows[o].seq = 0, rows'[o].seq # 0, rows[q].seq = 0,
               rows[q].status = "committed", q < o
        PROVE  rows'[q].seq # 0 /\ rows'[q].seq < rows'[o].seq
    BY <1>1, <1>3, <1>4, <1>5, Zenon
  <1>6. \A o \in Ords : /\ rows'[o].status = rows[o].status /\ rows'[o].ev = rows[o].ev
                        /\ rows'[o].marked = rows[o].marked
                        /\ rows[o].seq # 0 => rows'[o] = rows[o]
                        /\ rows[o].seq = 0 /\ rows'[o].seq # 0 =>
                             rows[o].status = "committed" /\ rows'[o].epoch = dbEpoch /\ LastSeq < rows'[o].seq
    BY <1>1, <1>3, Zenon
  <1> QED
    BY <1>1, <1>2, <1>5, <1>6, Zenon DEF Renumbered

\* New positions are after all others, and the order in which rows are numbered was known before.
LEMMA RenumberedOrder ==
  ASSUME NEW rs \in [Ords -> Row], NEW rt \in [Ords -> Row], NEW e \in Nat, RowsInv(rs, e),
         NEW d \in Nat, NEW last \in Nat, Renumbered(rs, rt, d, last)
  PROVE  /\ \A o \in PositionedIn(rs) : o \in Ords /\ o \in PositionedIn(rt) /\ rt[o] = rs[o]
         /\ \A o \in PositionedIn(rt), p \in PositionedIn(rt) :
              o \in PositionedIn(rs) /\ Less(PointOf(rt[p]), PointOf(rt[o])) => p \in PositionedIn(rs)
         /\ \A o, p \in Ords : There(rs, o) /\ rs[p].status \in {"open", "committed", "purged"} /\ o # p =>
              /\ Prec(rt, p, o) => Prec(rs, p, o)
              /\ There(rs, p) /\ Prec(rs, p, o) => Prec(rt, p, o)
  <1>0. \A o \in Ords : /\ rs[o].epoch \in Nat /\ rs[o].seq \in Nat /\ rt[o].epoch \in Nat /\ rt[o].seq \in Nat
                        /\ o \in Nat
    BY OrdsFinite, Zenon DEF Row
  <1>1. \A o \in PositionedIn(rs) : o \in Ords /\ o \in PositionedIn(rt) /\ rt[o] = rs[o]
    BY Zenon DEF Renumbered, PositionedIn, There
  <1>2. ASSUME NEW o \in Ords, NEW p \in PositionedIn(rs), rs[o].seq = 0, rt[o].seq # 0
        PROVE  Less(PointOf(rt[p]), PointOf(rt[o])) /\ ~Less(PointOf(rt[o]), PointOf(rt[p]))
    <2>1. rt[o].epoch = d /\ last < rt[o].seq
      BY <1>2, Zenon DEF Renumbered
    <2>2. rs[p].epoch <= d /\ (rs[p].epoch = d => rs[p].seq <= last) /\ rt[p] = rs[p] /\ p \in Ords
      BY <1>1, Zenon DEF Renumbered
    <2> QED
      BY <1>0, <2>1, <2>2, SMTT(30) DEF Less, PointOf
  <1>3. \A o \in Ords : rs[o].seq # 0 => o \in PositionedIn(rs)
    BY Zenon DEF RowsInv, PositionedIn
  <1>4. ASSUME NEW o \in PositionedIn(rt), NEW p \in PositionedIn(rt), o \in PositionedIn(rs),
               Less(PointOf(rt[p]), PointOf(rt[o]))
        PROVE  p \in PositionedIn(rs)
    <2>1. p \in Ords /\ rt[p].seq # 0
      BY Zenon DEF PositionedIn
    <2> QED
      BY <1>2, <1>3, <1>4, <2>1, Zenon
  <1>5. ASSUME NEW o \in Ords, NEW p \in Ords, There(rs, o), rs[p].status \in {"open", "committed", "purged"}, o # p
        PROVE  /\ Prec(rt, p, o) => Prec(rs, p, o)
               /\ There(rs, p) /\ Prec(rs, p, o) => Prec(rt, p, o)
    <2>1. rs[o].seq = 0 => rs[o].status = "committed"
      BY <1>5, Zenon DEF There, RowsInv
    <2>2. rs[p].seq = 0 /\ rt[p].seq # 0 => rs[p].status = "committed"
      BY Zenon DEF Renumbered
    <2>3. CASE rs[p].seq # 0
      <3>1. p \in PositionedIn(rs) /\ rt[p] = rs[p]
        BY <1>1, <1>3, <2>3, Zenon
      <3>2. CASE rs[o].seq # 0
        <4>1. rt[o] = rs[o]
          BY <1>1, <1>3, <3>2, Zenon
        <4> QED
          BY <3>1, <4>1, Zenon DEF Prec
      <3>3. CASE rs[o].seq = 0
        BY <1>2, <2>3, <3>1, <3>3, Zenon DEF Prec
      <3> QED
        BY <3>2, <3>3, Zenon
    <2>4. CASE rs[p].seq = 0
      <3>1. CASE rs[o].seq # 0
        <4>1. o \in PositionedIn(rs) /\ rt[o] = rs[o]
          BY <1>1, <1>3, <3>1, Zenon
        <4>2. rt[p].seq # 0 => ~Less(PointOf(rt[p]), PointOf(rt[o]))
          BY <1>2, <2>4, <4>1, Zenon
        <4> QED
          BY <2>4, <3>1, <4>1, <4>2, SMTT(30) DEF Prec
      <3>2. CASE rs[o].seq = 0
        <4>1. p < o \/ o < p
          BY <1>0, <1>5, SMTT(30)
        <4>2. rt[o].seq # 0 /\ There(rs, p) /\ p < o => rt[p].seq # 0 /\ rt[p].seq < rt[o].seq
          BY <2>4, <3>2, Zenon DEF Renumbered, There, RowsInv
        <4>3. rt[p].seq # 0 /\ o < p => rt[o].seq # 0 /\ rt[o].seq < rt[p].seq
          BY <2>1, <2>4, <3>2, Zenon DEF Renumbered
        <4>4. (rt[o].seq # 0 => rt[o].epoch = d) /\ (rt[p].seq # 0 => rt[p].epoch = d)
          BY <2>4, <3>2, Zenon DEF Renumbered
        <4> QED
          BY <1>0, <2>2, <2>4, <3>2, <4>1, <4>2, <4>3, <4>4, SMTT(30) DEF Prec, Less, PointOf
      <3> QED
        BY <3>1, <3>2, Zenon
    <2> QED
      BY <2>3, <2>4, Zenon
  <1> QED
    BY <1>1, <1>4, <1>5, Zenon

-----------------------------------------------------------------------------
(* Rows while nothing is restored: what a composition with a transport     *)
(* needs to know of every step.                                            *)

Unrewound == "rewind" \notin scenario.faults

\* A step takes every row through a RowStep, or numbers.
LEMMA RowsAdvance ==
  ASSUME NumberInv, Unrewound, [Next]_vars
  PROVE  RowsStepped \/ rows' = NumberedRows
  <1>1. ASSUME NEW f \in Forwarders, NumberAndRead(f) PROVE rows' = NumberedRows
    BY <1>1, Zenon DEF NumberAndRead
  <1>2. CASE Recover
    <2>1. rows' = EndedRows
      BY <1>2, Zenon DEF Recover, Spend, Unrewound, EndedRows
    <2> QED
      BY <2>1, EndedShape, Zenon DEF RowsStepped
  <1>3. CASE rows' = rows
    BY <1>3, Zenon DEF RowsStepped, RowStep, NumberInv, TypeOK
  <1> QED
    BY <1>1, <1>2, <1>3, TableSteps, EmitShape, EndShape, MarkShape, PurgeShape, Zenon

\* Positions are for good, and new ones come after them.
LEMMA PositionsAdvance ==
  ASSUME NumberInv, NumberInv', Unrewound, [Next]_vars
  PROVE  /\ \A o \in PositionedIn(rows) : /\ o \in PositionedIn(rows') /\ rows'[o].ev = rows[o].ev
                                          /\ PointOf(rows'[o]) = PointOf(rows[o])
         /\ \A o \in PositionedIn(rows), p \in PositionedIn(rows') :
              Less(PointOf(rows'[p]), PointOf(rows'[o])) => p \in PositionedIn(rows)
  <1>0. /\ rows \in [Ords -> Row] /\ rows' \in [Ords -> Row] /\ emitted \in Nat /\ emitted' \in Nat
        /\ RowsInv(rows, emitted) /\ dbEpoch \in Nat
        /\ \A o \in PositionedIn(rows) : o \in Ords /\ rows[o].seq # 0
        /\ \A o \in PositionedIn(rows') : o \in Ords
    <2>1. rows \in [Ords -> Row] /\ emitted \in 0..MaxEvents /\ RowsInv(rows, emitted) /\ dbEpoch \in Nat
      BY Zenon DEF NumberInv, TypeOK, SnapInv
    <2>2. rows' \in [Ords -> Row] /\ emitted' \in 0..MaxEvents
      BY Zenon DEF NumberInv, TypeOK
    <2>3. emitted \in Nat /\ emitted' \in Nat
      BY <2>1, <2>2, SMTT(30)
    <2> QED
      BY <2>1, <2>2, <2>3, Zenon DEF PositionedIn
  <1>1. CASE RowsStepped
    <2>1. Kept(rows, rows', emitted)
      BY <1>0, <1>1, StepsKeep, Zenon DEF RowsStepped
    <2> QED
      BY <1>0, <2>1, KeptPositions, Zenon
  <1>2. CASE rows' = NumberedRows
    <2>1. Renumbered(rows, rows', dbEpoch, LastSeq) /\ LastSeq \in Nat
      BY <1>2, NumberRenumbers, Zenon
    <2>2. \A o \in PositionedIn(rows) : o \in PositionedIn(rows') /\ rows'[o] = rows[o]
      BY <1>0, <2>1, RenumberedOrder, SMTT(30)
    <2>3. \A o \in PositionedIn(rows'), p \in PositionedIn(rows') :
            o \in PositionedIn(rows) /\ Less(PointOf(rows'[p]), PointOf(rows'[o])) => p \in PositionedIn(rows)
      BY <1>0, <2>1, RenumberedOrder, Zenon
    <2> QED
      BY <2>2, <2>3, Zenon
  <1> QED
    BY <1>1, <1>2, RowsAdvance, Zenon

\* A committed row stays, with its event and what the event saw; rows commit one at a time.
LEMMA CommitsAdvance ==
  ASSUME NumberInv, Unrewound, [Next]_vars
  PROVE  /\ \A o \in Ords : There(rows, o) => There(rows', o)
         /\ \A o \in Ords : There(rows', o) => rows'[o].ev = rows[o].ev /\ rows'[o].seen = rows[o].seen
         /\ \A o, p \in Ords : There(rows', o) /\ ~There(rows, o) /\ o # p => rows'[p] = rows[p]
  <1>0. /\ rows \in [Ords -> Row] /\ TypeOK /\ Picked \subseteq Ords /\ RowsInv(rows, emitted)
    BY ZenonT(30) DEF NumberInv, TypeOK, SnapInv, Picked, FirstOf, Unnumbered, Committed
  <1>1. CASE rows' = NumberedRows
    <2>1. ASSUME NEW o \in Ords
          PROVE  rows'[o].status = rows[o].status /\ rows'[o].ev = rows[o].ev /\ rows'[o].seen = rows[o].seen
      BY <1>0, <1>1, NumberShape, Zenon
    <2> QED
      BY <2>1, Zenon DEF There
  <1>2. CASE RowsStepped
    <2>1. ASSUME NEW o \in Ords
          PROVE  /\ There(rows, o) => There(rows', o)
                 /\ There(rows', o) => rows'[o].ev = rows[o].ev /\ rows'[o].seen = rows[o].seen
      <3>1. RowStep(rows, rows', o, emitted, emitted')
        BY <1>2, Zenon DEF RowsStepped
      <3> QED
        BY <3>1, Zenon DEF RowStep, There
    <2>2. ASSUME NEW o \in Ords, NEW p \in Ords, There(rows', o), ~There(rows, o), o # p PROVE rows'[p] = rows[p]
      <3>1. ASSUME NEW q \in Ords, Emit(q) \/ EndTx(q) PROVE rows'[p] = rows[p]
        <4>1. \A r \in Ords : r # q => rows'[r] = rows[r]
          BY <1>0, <3>1, Zenon DEF Emit, EndTx
        <4> QED
          BY <2>2, <4>1, Zenon DEF There
      <3>2. ASSUME NEW f \in Forwarders, rows' = Marked(f) PROVE FALSE
        <4>1. rows[o] \in Row /\ rows'[o].status = rows[o].status
          BY <1>0, <3>2, RowChange, Zenon DEF Marked
        <4> QED
          BY <2>2, <4>1, Zenon DEF There
      <3>3. CASE Purge
        <4>1. rows'[o] = rows[o] \/ o \in Numbered
          BY Zenon, <3>3 DEF Purge
        <4> QED
          BY <2>2, <4>1, Zenon DEF There, Numbered, Committed
      <3>4. CASE Recover
        <4>1. rows' = EndedRows /\ rows[o] \in Row
          BY <1>0, <3>4, Zenon DEF Recover, Spend, Unrewound, EndedRows
        <4>2. rows'[o].status \in {rows[o].status, "rolled_back"}
          BY <4>1, RowChange, Zenon DEF EndedRows
        <4> QED
          BY <2>2, <4>2, Zenon DEF There
      <3>5. ASSUME NEW f \in Forwarders, NumberAndRead(f) PROVE FALSE
        <4>1. rows'[o].status = rows[o].status
          BY <1>0, <3>5, NumberShape, Zenon DEF NumberAndRead
        <4> QED
          BY <2>2, <4>1, Zenon DEF There
      <3>6. CASE UNCHANGED rows
        BY <3>6, Zenon
      <3> QED
        BY <3>1, <3>2, <3>3, <3>4, <3>5, <3>6, TableSteps, Zenon
    <2> QED
      BY <2>1, <2>2, Zenon
  <1> QED
    BY <1>1, <1>2, RowsAdvance, Zenon

\* What an event saw is committed.
SeenIn(rs) == \A o \in Ords : \A c \in rs[o].seen : \E p \in Ords : There(rs, p) /\ rs[p].ev = c

\* Without a restore every step keeps what events saw committed.
LEMMA SeenAdvances == ASSUME NumberInv, Unrewound, [Next]_vars, SeenIn(rows) PROVE SeenIn(rows')
  <1>0. TypeOK /\ Picked \subseteq Ords
    BY Zenon DEF NumberInv, Picked, FirstOf, Unnumbered, Committed
  <1>1. \A p \in Ords : There(rows, p) => There(rows', p) /\ rows'[p].ev = rows[p].ev
    BY CommitsAdvance, Zenon
  <1>2. ASSUME NEW o \in Ords, NEW c \in rows'[o].seen PROVE \E p \in Ords : There(rows, p) /\ rows[p].ev = c
    <2>1. CASE rows'[o].seen = rows[o].seen
      BY <1>2, <2>1, Zenon DEF SeenIn
    <2>2. CASE rows'[o].seen = {rows[p].ev : p \in {q \in Ords : There(rows, q)}}
      BY <1>2, <2>2, Zenon
    <2>3. CASE RowsStepped
      BY <2>1, <2>2, <2>3, Zenon DEF RowsStepped, RowStep
    <2>4. CASE rows' = NumberedRows
      BY <1>0, <2>1, <2>4, NumberShape, Zenon
    <2> QED
      BY <2>3, <2>4, RowsAdvance, Zenon
  <1> QED
    BY <1>1, <1>2, Zenon DEF SeenIn
=============================================================================
