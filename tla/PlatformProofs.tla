--------------------------- MODULE PlatformProofs ---------------------------
(***************************************************************************)
(* Proofs about components of the platform, each for every scenario of its *)
(* and every number of handlers, requests and faults.                      *)
(***************************************************************************)
EXTENDS Integers, Sequences, FiniteSets, FiniteSetTheorems, TLAPS

CONSTANTS Handlers, maxAttempts, CommandScenarios, Requests, ProcessScenarios

VARIABLES scenario,
          h, inUse, idleConns, keyRow, last, docs, voided, copies, answers, forgotten, remaining,
          proc, member, inflight, routed, deadline, mishaps

Cmd == INSTANCE Commands WITH Scenarios <- CommandScenarios

-----------------------------------------------------------------------------
(* Commands: what the transactions under way hold.                         *)

\* The record of key k is kept: a claim of k is answered by it.
Current(row) == row # Cmd!NoRow /\ ~row.expired
Kept(k) == Current(keyRow[k])

HandlerState ==
    [at : {"idle", "wait", "begin", "claim", "stored", "number", "commit", "hook"},
     req : {Cmd!NoRequest} \cup DOMAIN scenario.requests, attempt : Nat, gone : SUBSET Cmd!Keys,
     claimed : BOOLEAN, number : Nat, rolled : Nat, conn : {"none", "clean", "changed"}]

KeyRow == [body : {r.body : r \in DOMAIN scenario.requests} \cup {"none"}, number : Nat, expired : BOOLEAN]

CmdType ==
    /\ Cmd!Scenario(scenario)
    /\ DOMAIN copies = DOMAIN scenario.requests
    /\ h \in [Handlers -> HandlerState]
    /\ keyRow \in [Cmd!Keys -> KeyRow]
    /\ last \in Nat
    /\ forgotten \in [Cmd!Keys -> Nat]
    /\ idleConns \subseteq {"clean"}

\* A transaction holds its key from its claim to its end, and the series from its number to its end; the key it holds
\* has no kept record, and its number is the next one.
Held(x) ==
    /\ x.at # "idle" => x.req \in DOMAIN scenario.requests
    /\ x.claimed <=> x.at \in {"number", "commit"}
    /\ x.claimed => ~Kept(x.req.key)
    /\ (x.at = "commit" => x.number = last + 1) /\ (x.at # "commit" => x.number = 0)

Apart(x, y) == ~(x.claimed /\ y.claimed /\ x.req.key = y.req.key) /\ ~(x.at = "commit" /\ y.at = "commit")

HoldInv ==
    /\ \A i \in Handlers : Held(h[i])
    /\ \A i, j \in Handlers : i # j => Apart(h[i], h[j])

\* A kept record is a committed document's, and so is an answer; the numbers up to the last are documents' or voided.
DocsInv ==
    /\ \A k \in Cmd!Keys : keyRow[k] # Cmd!NoRow =>
        [key |-> k, body |-> keyRow[k].body, number |-> keyRow[k].number] \in docs
    /\ answers \subseteq docs
    /\ {d.number : d \in docs} \cup voided = 1 .. last

\* Every document but the one its key's record tells of was forgotten once; a number is one document's or voided.
CountInv ==
    /\ IsFiniteSet(docs) /\ IsFiniteSet(voided)
    /\ Cardinality(docs) + Cardinality(voided) = last
    /\ \A k \in Cmd!Keys : Cardinality({d \in docs : d.key = k}) <= forgotten[k] + (IF Kept(k) THEN 1 ELSE 0)

\* The handler has nothing in hand.
Loose(x) == ~x.claimed /\ x.number = 0 /\ x.at \notin {"number", "commit"}
            /\ (x.at # "idle" => x.req \in DOMAIN scenario.requests)

\* A handler goes on without a claim and without a number.
LetsGo(i) == \E x \in HandlerState : Loose(x) /\ h' = [h EXCEPT ![i] = x]

\* A handler with no request has nothing in hand.
LEMMA IdleLoose == Cmd!Idle \in HandlerState /\ Loose(Cmd!Idle)
  BY Zenon DEF Cmd!Idle, HandlerState, Loose, Cmd!NoRequest

\* The answer goes back: the handler is idle after it, or runs the hooks of rolled back attempts, with nothing in hand.
LEMMA GivesBackShape ==
  ASSUME NEW i \in Handlers, NEW f \in HandlerState, ~f.claimed, f.number = 0, f.req \in DOMAIN scenario.requests,
         Cmd!GivesBack(i, f)
  PROVE  LetsGo(i)
  <1>1. h' = [h EXCEPT ![i] = IF f.rolled > 0 THEN [f EXCEPT !.at = "hook"] ELSE Cmd!Idle]
    BY Zenon DEF Cmd!GivesBack
  <1>2. [f EXCEPT !.at = "hook"] \in HandlerState /\ Loose([f EXCEPT !.at = "hook"])
    BY Zenon DEF HandlerState, Loose
  <1> QED
    BY <1>1, <1>2, IdleLoose, Zenon DEF LetsGo

\* A rollback gives up the key and the number, whether the attempt is repeated or the error is returned.
LEMMA RollbackShape ==
  ASSUME CmdType, NEW i \in Handlers, h[i].req \in DOMAIN scenario.requests, NEW b, Cmd!Rollback(i, b)
  PROVE  LetsGo(i) /\ idleConns' \subseteq {"clean"}
  <1> DEFINE f == [h[i] EXCEPT !.claimed = FALSE, !.number = 0, !.conn = "none"]
             g == [f EXCEPT !.at = "begin", !.attempt = @ + 1, !.rolled = 0]
  <1>1. h[i] \in HandlerState
    BY Zenon DEF CmdType
  <1>2. f \in HandlerState /\ ~f.claimed /\ f.number = 0 /\ f.req \in DOMAIN scenario.requests
    BY <1>1, Zenon DEF HandlerState
  <1>3. g \in HandlerState /\ Loose(g)
    <2> HIDE DEF f
    <2>1. f.attempt + 1 \in Nat
      BY <1>2, SMTT(30) DEF HandlerState
    <2> QED
      BY <1>2, <2>1, Zenon DEF HandlerState, Loose
  <1>4. h' = [h EXCEPT ![i] = g] \/ Cmd!GivesBack(i, f)
    BY Zenon DEF Cmd!Rollback
  <1>5. idleConns' \subseteq {"clean"}
    BY Zenon DEF Cmd!Rollback, Cmd!release, CmdType
  <1> HIDE DEF f, g
  <1> QED
    BY <1>2, <1>3, <1>4, <1>5, GivesBackShape, Zenon DEF LetsGo

\* What a step does to the handlers: one lets go of what it had, claims its key, takes the next number or changes its
\* connection's settings, or none does anything.
Claims(i) ==
    /\ h[i].at = "claim" /\ ~Cmd!KeyLocked(i, h[i].req.key) /\ ~Kept(h[i].req.key)
    /\ h' = [h EXCEPT ![i] = [h[i] EXCEPT !.at = "number", !.claimed = TRUE, !.rolled = h[i].rolled + 1]]

Numbers(i) ==
    /\ h[i].at = "number" /\ ~Cmd!SeriesLocked(i)
    /\ h' = [h EXCEPT ![i] = [h[i] EXCEPT !.at = "commit", !.number = last + 1]]

Sets(i) == h[i].at # "idle" /\ h' = [h EXCEPT ![i] = [h[i] EXCEPT !.conn = "changed"]]

Tables == <<keyRow, last, docs, voided, forgotten>>

\* An attempt ends, or the handler goes on before its claim; what it answers is its key's record.
Leaves(i) ==
    /\ LetsGo(i) /\ UNCHANGED Tables
    /\ \A a \in answers' \ answers :
         LET r == h[i].req IN Cmd!Same(keyRow[r.key], r) /\ r.key \in Cmd!Keys /\
                              a = [key |-> r.key, body |-> r.body, number |-> keyRow[r.key].number]

\* It commits, whether its caller hears of it or not.
Commits(i) ==
    /\ h[i].at = "commit" /\ LetsGo(i) /\ Cmd!Committed(i) /\ UNCHANGED <<voided, forgotten>>
    /\ answers' \subseteq answers \cup {[key |-> h[i].req.key, body |-> h[i].req.body, number |-> h[i].number]}

Shape(i) ==
    /\ UNCHANGED scenario /\ DOMAIN copies' = DOMAIN copies /\ idleConns' \subseteq {"clean"}
    /\ \/ Leaves(i) \/ Commits(i)
       \/ (Claims(i) \/ Numbers(i) \/ Sets(i)) /\ UNCHANGED <<Tables, answers>>

\* Every step of a handler, and every failure it meets, has one of the shapes.
LEMMA HandlerShape ==
  ASSUME CmdType, HoldInv, NEW i \in Handlers,
         (\E r \in DOMAIN copies : Cmd!Arrive(i, r)) \/ Cmd!Step(i) \/ Cmd!Trouble(i)
  PROVE  Shape(i)
  <1>0. /\ h[i] \in HandlerState /\ h \in [Handlers -> HandlerState]
        /\ h[i].at # "idle" => h[i].req \in DOMAIN scenario.requests /\ h[i].req.key \in Cmd!Keys
        /\ idleConns \subseteq {"clean"} /\ DOMAIN copies = DOMAIN scenario.requests
    BY Zenon DEF CmdType, HoldInv, Held, Cmd!Scenario, Cmd!Keys
  <1>a. ASSUME NEW x \in HandlerState, Loose(x), h' = [h EXCEPT ![i] = x] PROVE LetsGo(i)
    BY <1>a, Zenon DEF LetsGo
  <1>1. ASSUME NEW r \in DOMAIN copies, Cmd!Arrive(i, r) PROVE Shape(i)
    <2>1. [Cmd!Idle EXCEPT !.at = "wait", !.req = r, !.attempt = 1] \in HandlerState
          /\ Loose([Cmd!Idle EXCEPT !.at = "wait", !.req = r, !.attempt = 1])
      BY <1>0, Zenon DEF HandlerState, Loose, Cmd!Idle
    <2>2. LetsGo(i)
      BY <1>1, <1>a, <2>1, Zenon DEF Cmd!Arrive
    <2> QED
      BY <1>0, <1>1, <2>2, Zenon DEF Cmd!Arrive, Shape, Leaves, Tables
  <1>2. CASE Cmd!Acquire(i) \/ Cmd!Busy(i) \/ Cmd!Hook(i)
    <2>1. h[i].at \in {"wait", "hook"} /\ h' \in {[h EXCEPT ![i].at = "begin"], [h EXCEPT ![i] = Cmd!Idle]}
      BY <1>2, Zenon DEF Cmd!Acquire, Cmd!Busy, Cmd!Hook
    <2>2. [h[i] EXCEPT !.at = "begin"] \in HandlerState /\ Loose([h[i] EXCEPT !.at = "begin"])
      BY <1>0, <2>1, Zenon DEF HandlerState, Loose, HoldInv, Held
    <2>3. LetsGo(i)
      BY <1>a, <2>1, <2>2, IdleLoose, Zenon
    <2> QED
      BY <1>0, <1>2, <2>3, Zenon DEF Cmd!Acquire, Cmd!Busy, Cmd!Hook, Shape, Leaves, Tables
  <1>3. CASE Cmd!Begin(i)
    <2>1. PICK c \in idleConns \cup {"clean"} :
            /\ idleConns' = idleConns \ {c}
            /\ h' = [h EXCEPT ![i].at = "claim", ![i].conn = c, ![i].gone = {k \in Cmd!Keys : keyRow[k].expired}]
      BY <1>3, Zenon DEF Cmd!Begin
    <2>2. PICK x : x = [h[i] EXCEPT !.at = "claim", !.conn = c, !.gone = {k \in Cmd!Keys : keyRow[k].expired}]
      BY Zenon
    <2>3. x \in HandlerState /\ Loose(x)
      BY <1>0, <1>3, <2>2, Zenon DEF HandlerState, Loose, HoldInv, Held, Cmd!Begin
    <2>4. h' = [h EXCEPT ![i] = x]
      BY <1>0, <2>1, <2>2, Zenon
    <2>5. LetsGo(i)
      BY <1>a, <2>3, <2>4, Zenon
    <2> QED
      BY <1>0, <1>3, <2>1, <2>5, Zenon DEF Cmd!Begin, Shape, Leaves, Tables
  <1>4. CASE Cmd!Claim(i)
    <2>1. CASE Cmd!Free(i, h[i].req.key)
      <3>1. Claims(i)
        BY <1>0, <1>4, <2>1, Zenon DEF Cmd!Claim, Claims, Cmd!Free, Kept, Current
      <3> QED
        BY <1>0, <1>4, <3>1, Zenon DEF Cmd!Claim, Shape, Tables
    <2>2. CASE ~Cmd!Free(i, h[i].req.key)
      <3>1. h[i].at = "claim" /\ h' = [h EXCEPT ![i] = [h[i] EXCEPT !.at = "stored"]]
        BY <1>4, <2>2, Zenon DEF Cmd!Claim
      <3>2. [h[i] EXCEPT !.at = "stored"] \in HandlerState /\ Loose([h[i] EXCEPT !.at = "stored"])
        BY <1>0, <3>1, Zenon DEF HandlerState, Loose, HoldInv, Held
      <3>3. LetsGo(i)
        BY <1>a, <3>1, <3>2, Zenon
      <3> QED
        BY <1>0, <1>4, <3>3, Zenon DEF Cmd!Claim, Shape, Leaves, Tables
    <2> QED
      BY <2>1, <2>2, Zenon
  <1>5. CASE Cmd!stored(i)
    <2>0. h[i].at = "stored" /\ UNCHANGED <<scenario, keyRow, last, docs, voided, copies, forgotten>>
      BY <1>5, Zenon DEF Cmd!stored
    <2>1. CASE Cmd!Same(keyRow[h[i].req.key], h[i].req)
      <3>1. h' = [h EXCEPT ![i] = Cmd!Idle] /\ idleConns' = idleConns \cup Cmd!release(h[i].conn)
            /\ answers' = answers \cup {[key |-> h[i].req.key, body |-> h[i].req.body,
                                         number |-> keyRow[h[i].req.key].number]}
        BY <1>5, <2>1, Zenon DEF Cmd!stored
      <3>2. LetsGo(i)
        BY <1>a, <3>1, IdleLoose, Zenon
      <3> QED
        BY <1>0, <2>0, <2>1, <3>1, <3>2, Zenon DEF Shape, Leaves, Tables, Cmd!release
    <2>2. CASE ~Cmd!Same(keyRow[h[i].req.key], h[i].req)
      <3>1. Cmd!Rollback(i, FALSE) /\ UNCHANGED answers
        BY <1>5, <2>2, Zenon DEF Cmd!stored
      <3> QED
        BY <1>0, <2>0, <3>1, RollbackShape, Zenon DEF Shape, Leaves, Tables
    <2> QED
      BY <2>1, <2>2, Zenon
  <1>6. CASE Cmd!NextNumber(i) \/ Cmd!LeavesSetting(i)
    <2>1. Numbers(i) \/ Sets(i)
      BY <1>0, <1>6, Zenon DEF Cmd!NextNumber, Cmd!LeavesSetting, Numbers, Sets, Cmd!InTx
    <2> QED
      BY <1>0, <1>6, <2>1, Zenon DEF Cmd!NextNumber, Cmd!LeavesSetting, Shape, Tables
  <1>7. CASE Cmd!InProgress(i) \/ Cmd!Conflict(i) \/ Cmd!Fails(i) \/ Cmd!CutOff(i)
    <2>1. h[i].at # "idle" /\ UNCHANGED <<scenario, keyRow, last, docs, voided, copies, answers, forgotten>>
      BY <1>7, Zenon DEF Cmd!InProgress, Cmd!Conflict, Cmd!Fails, Cmd!CutOff, Cmd!InTx
    <2>2. Cmd!Rollback(i, TRUE) \/ Cmd!Rollback(i, FALSE)
      BY <1>7, Zenon DEF Cmd!InProgress, Cmd!Conflict, Cmd!Fails, Cmd!CutOff
    <2>3. LetsGo(i) /\ idleConns' \subseteq {"clean"}
      BY <1>0, <2>1, <2>2, RollbackShape, Zenon
    <2> QED
      BY <2>1, <2>3, Zenon DEF Shape, Leaves, Tables
  <1>8. CASE Cmd!Commit(i)
    <2>1. LetsGo(i)
      BY <1>8, <1>a, IdleLoose, Zenon DEF Cmd!Commit
    <2> QED
      BY <1>0, <1>8, <2>1, Zenon DEF Cmd!Commit, Shape, Commits, Cmd!release
  <1>9. CASE Cmd!CommitLost(i)
    <2>1. PICK f : f = [h[i] EXCEPT !.claimed = FALSE, !.number = 0, !.conn = "none"]
      BY Zenon
    <2>2. h[i].at = "commit" /\ Cmd!Committed(i) /\ Cmd!GivesBack(i, f)
          /\ UNCHANGED <<scenario, idleConns, voided, copies, answers, forgotten>>
      BY <1>9, <2>1, Zenon DEF Cmd!CommitLost
    <2>3. f \in HandlerState /\ ~f.claimed /\ f.number = 0 /\ f.req \in DOMAIN scenario.requests
      BY <1>0, <2>1, <2>2, Zenon DEF HandlerState
    <2>4. LetsGo(i)
      BY <2>2, <2>3, GivesBackShape, Zenon
    <2> QED
      BY <1>0, <2>2, <2>4, Zenon DEF Shape, Commits
  <1> QED
    BY <1>1, <1>2, <1>3, <1>4, <1>5, <1>6, <1>7, <1>8, <1>9, Zenon DEF Cmd!Step, Cmd!Trouble

\* What happens to the tables besides: a record expires, an expired one that nobody holds is cleaned up, or the series
\* is raised while nobody has a number.
Expires(k) ==
    /\ Kept(k) /\ keyRow' = [keyRow EXCEPT ![k].expired = TRUE] /\ forgotten' = [forgotten EXCEPT ![k] = @ + 1]
    /\ UNCHANGED <<last, docs, voided>>

Cleans(k) ==
    /\ ~Kept(k) /\ keyRow' = [keyRow EXCEPT ![k] = Cmd!NoRow]
    /\ UNCHANGED <<last, docs, voided, forgotten>>

Raises ==
    /\ \A i \in Handlers : h[i].number = 0
    /\ last' = last + 1 /\ voided' = voided \cup (last + 1) .. (last + 1)
    /\ UNCHANGED <<keyRow, docs, forgotten>>

Elsewhere ==
    /\ UNCHANGED <<scenario, h, copies, idleConns, answers>>
    /\ UNCHANGED Tables \/ (\E k \in Cmd!Keys : Expires(k) \/ Cleans(k)) \/ Raises

\* The number committed is the next one.
LEMMA CommitsNext ==
  ASSUME CmdType, HoldInv, NEW i \in Handlers, Commits(i)
  PROVE  /\ last' = last + 1 /\ h[i].number = last + 1 /\ h[i].claimed /\ h[i].req \in DOMAIN scenario.requests
         /\ h[i].req.key \in Cmd!Keys /\ ~Kept(h[i].req.key)
  <1>1. /\ h[i].number = last + 1 /\ last \in Nat /\ h[i].claimed /\ h[i].req \in DOMAIN scenario.requests
        /\ h[i].req.key \in Cmd!Keys /\ ~Kept(h[i].req.key)
    BY Zenon DEF CmdType, HoldInv, Held, Commits, Cmd!Scenario, Cmd!Keys
  <1>2. \A n \in Nat : Cmd!Max({n, n + 1}) = n + 1
    BY SMTT(30) DEF Cmd!Max
  <1> QED
    BY <1>1, <1>2, Zenon DEF Commits, Cmd!Committed

\* So has every step of the component, but for a record's expiry, the cleanup and a raise of the series.
LEMMA NextShape ==
  ASSUME CmdType, HoldInv, [Cmd!Next]_Cmd!vars
  PROVE  Elsewhere \/ \E i \in Handlers : Shape(i)
  <1>1. CASE UNCHANGED Cmd!vars
    BY <1>1, Zenon DEF Cmd!vars, Elsewhere, Tables
  <1>2. ASSUME NEW k \in Cmd!Keys, Cmd!KeyExpires(k) PROVE Elsewhere
    <2>1. Expires(k)
      BY <1>2, Zenon DEF Cmd!KeyExpires, Expires, Kept, Current
    <2> QED
      BY <1>2, <2>1, Zenon DEF Cmd!KeyExpires, Elsewhere
  <1>3. ASSUME NEW k \in Cmd!Keys, Cmd!Cleanup(k) PROVE Elsewhere
    <2>1. Cleans(k)
      BY <1>3, Zenon DEF Cmd!Cleanup, Cleans, Kept, Current
    <2> QED
      BY <1>3, <2>1, Zenon DEF Cmd!Cleanup, Elsewhere
  <1>4. ASSUME Cmd!RaiseContinuous(last + 1) PROVE Elsewhere
    <2>1. Raises
      BY <1>4, Zenon DEF Cmd!RaiseContinuous, Raises
    <2> QED
      BY <1>4, <2>1, Zenon DEF Cmd!RaiseContinuous, Elsewhere
  <1> QED
    BY <1>1, <1>2, <1>3, <1>4, HandlerShape, Zenon DEF Cmd!Next

\* Every step keeps the types.
LEMMA CmdTypeStep ==
  ASSUME CmdType, HoldInv, [Cmd!Next]_Cmd!vars
  PROVE  CmdType'
  <1>0. CmdType
    BY Zenon
  <1>1. CASE Elsewhere
    <2>0. scenario' = scenario /\ copies' = copies /\ h' = h /\ idleConns' = idleConns
      BY <1>1, Zenon DEF Elsewhere
    <2>1. last' \in Nat
      BY <1>0, <1>1, SMTT(30) DEF CmdType, Elsewhere, Tables, Expires, Cleans, Raises
    <2>2. forgotten' \in [Cmd!Keys -> Nat]
      BY <1>0, <1>1, SMTT(30) DEF CmdType, Elsewhere, Tables, Expires, Cleans, Raises
    <2>3. keyRow' \in [Cmd!Keys -> KeyRow]
      <3>1. keyRow \in [Cmd!Keys -> KeyRow] /\ Cmd!NoRow \in KeyRow
        BY <1>0, Zenon DEF CmdType, KeyRow, Cmd!NoRow
      <3>2. \A x \in KeyRow : [x EXCEPT !.expired = TRUE] \in KeyRow
        BY Zenon DEF KeyRow
      <3>3. keyRow' = keyRow \/ \E k \in Cmd!Keys, x \in KeyRow : keyRow' = [keyRow EXCEPT ![k] = x]
        <4>1. ASSUME NEW k \in Cmd!Keys, Expires(k) \/ Cleans(k)
              PROVE  \E x \in KeyRow : keyRow' = [keyRow EXCEPT ![k] = x]
          BY <3>1, <3>2, <4>1, Zenon DEF Expires, Cleans
        <4> QED
          BY <1>1, <4>1, Zenon DEF Elsewhere, Tables, Raises
      <3> QED
        BY <3>1, <3>3, Zenon
    <2> QED
      BY <1>0, <2>0, <2>1, <2>2, <2>3, Zenon DEF CmdType, Cmd!Keys, KeyRow, HandlerState, Cmd!Scenario
  <1>2. ASSUME NEW i \in Handlers, Shape(i) PROVE CmdType'
    <2>0. scenario' = scenario /\ DOMAIN copies' = DOMAIN copies /\ idleConns' \subseteq {"clean"}
      BY <1>2, Zenon DEF Shape
    <2>1. h' \in [Handlers -> HandlerState]
      <3>1. CASE LetsGo(i)
        BY <1>0, <3>1, Zenon DEF LetsGo, CmdType
      <3>2. CASE Claims(i) \/ Numbers(i) \/ Sets(i)
        <4>0. h[i] \in HandlerState /\ last + 1 \in Nat /\ h[i].rolled + 1 \in Nat
          BY <1>0, SMTT(30) DEF CmdType, HandlerState
        <4>1. /\ [h[i] EXCEPT !.at = "number", !.claimed = TRUE, !.rolled = h[i].rolled + 1] \in HandlerState
              /\ [h[i] EXCEPT !.at = "commit", !.number = last + 1] \in HandlerState
              /\ [h[i] EXCEPT !.conn = "changed"] \in HandlerState
          BY <4>0, Zenon DEF HandlerState
        <4>2. \E x \in HandlerState : h' = [h EXCEPT ![i] = x]
          BY <3>2, <4>1, Zenon DEF Claims, Numbers, Sets
        <4> QED
          BY <1>0, <4>2, Zenon DEF CmdType
      <3> QED
        BY <1>2, <3>1, <3>2, Zenon DEF Shape, Leaves, Commits
    <2>2. last' \in Nat /\ forgotten' \in [Cmd!Keys -> Nat] /\ keyRow' \in [Cmd!Keys -> KeyRow]
      <3>1. CASE UNCHANGED Tables
        BY <1>0, <3>1, Zenon DEF CmdType, Tables
      <3>2. CASE Commits(i)
        <4>0. h[i].req \in DOMAIN scenario.requests /\ h[i].req.key \in Cmd!Keys /\ h[i].number \in Nat
          BY <1>0, <3>2, Zenon DEF Commits, HoldInv, Held, CmdType, Cmd!Scenario, Cmd!Keys, HandlerState
        <4>1. [body |-> h[i].req.body, number |-> h[i].number, expired |-> FALSE] \in KeyRow
          BY <4>0, Zenon DEF KeyRow
        <4>2. last' = last + 1
          BY <1>0, <3>2, CommitsNext, Zenon
        <4>3. keyRow \in [Cmd!Keys -> KeyRow] /\ forgotten \in [Cmd!Keys -> Nat] /\ last \in Nat
          BY <1>0, Zenon DEF CmdType
        <4>4. forgotten' = forgotten /\ \E x \in KeyRow : keyRow' = [keyRow EXCEPT ![h[i].req.key] = x]
          BY <3>2, <4>1, Zenon DEF Commits, Cmd!Committed
        <4> QED
          BY <4>0, <4>2, <4>3, <4>4, SMTT(30)
      <3> QED
        BY <1>2, <3>1, <3>2, Zenon DEF Shape, Leaves
    <2> QED
      BY <1>0, <2>0, <2>1, <2>2, Zenon DEF CmdType, Cmd!Keys, KeyRow, HandlerState, Cmd!Scenario
  <1> QED
    BY <1>1, <1>2, NextShape, Zenon

\* A step of one handler leaves what the others hold, when the keys and the number they hold stay as they are.
LEMMA HoldOthers ==
  ASSUME HoldInv, scenario' = scenario, NEW i \in Handlers, \A j \in Handlers \ {i} : h'[j] = h[j], Held(h[i])',
         \A j \in Handlers \ {i} : Apart(h'[i], h[j]) /\ (h[j].claimed => ~Current(keyRow'[h[j].req.key])),
         last' = last \/ \A j \in Handlers \ {i} : h[j].at # "commit"
  PROVE  HoldInv'
  <1>1. ASSUME NEW j \in Handlers \ {i} PROVE Held(h[j])'
    <2>1. Held(h[j]) /\ h'[j] = h[j] /\ (h[j].claimed => ~Current(keyRow'[h[j].req.key])) /\ (last' = last \/ h[j].at # "commit")
      BY Zenon DEF HoldInv
    <2>2. (h[j].at = "commit" => h[j].number = last' + 1) /\ (h[j].at # "commit" => h[j].number = 0)
      BY <2>1, Zenon DEF Held
    <2> QED
      BY <2>1, <2>2, Zenon DEF Held, Kept
  <1>2. ASSUME NEW j \in Handlers, NEW k \in Handlers, j # k PROVE Apart(h'[j], h'[k])
    BY <1>2, Zenon DEF HoldInv, Apart
  <1>3. \A j \in Handlers : Held(h[j])'
    BY <1>1, Zenon
  <1> QED
    BY <1>2, <1>3, Zenon DEF HoldInv, Apart

\* Every step keeps what transactions hold, apart.
LEMMA HoldStep ==
  ASSUME CmdType, CmdType', HoldInv, [Cmd!Next]_Cmd!vars
  PROVE  HoldInv'
  <1>0. /\ h \in [Handlers -> HandlerState] /\ keyRow \in [Cmd!Keys -> KeyRow] /\ last \in Nat
        /\ \A r \in DOMAIN scenario.requests : r.key \in Cmd!Keys
        /\ \A i \in Handlers : Held(h[i]) /\ (h[i].claimed => h[i].req.key \in Cmd!Keys)
        /\ \A i, j \in Handlers : i # j => Apart(h[i], h[j])
    <2>1. /\ h \in [Handlers -> HandlerState] /\ keyRow \in [Cmd!Keys -> KeyRow] /\ last \in Nat
          /\ \A r \in DOMAIN scenario.requests : r.key \in Cmd!Keys
      BY Zenon DEF CmdType, Cmd!Scenario, Cmd!Keys
    <2> QED
      BY <2>1, Zenon DEF HoldInv, Held
  <1>1. CASE Elsewhere
    <2>0. scenario' = scenario /\ h' = h
      BY <1>1, Zenon DEF Elsewhere
    <2>1. \A k \in Cmd!Keys : Kept(k)' => Kept(k)
      BY <1>0, <1>1, Zenon DEF Elsewhere, Tables, Expires, Cleans, Raises, Kept, Current, KeyRow
    <2>2. last' = last \/ \A i \in Handlers : h[i].at # "commit"
      BY <1>0, <1>1, SMTT(30) DEF Elsewhere, Tables, Expires, Cleans, Raises, Held
    <2>3. ASSUME NEW i \in Handlers PROVE Held(h[i])'
      <3>1. (h[i].at = "commit" => h[i].number = last' + 1) /\ (h[i].at # "commit" => h[i].number = 0)
        BY <1>0, <2>2, Zenon DEF Held
      <3> QED
        BY <1>0, <2>0, <2>1, <3>1, Zenon DEF Held
    <2> QED
      BY <1>0, <2>0, <2>3, Zenon DEF HoldInv, Apart
  <1>2. ASSUME NEW i \in Handlers, Shape(i) PROVE HoldInv'
    <2>0. scenario' = scenario /\ h[i] \in HandlerState /\ Held(h[i]) /\ \A j \in Handlers \ {i} : Apart(h[i], h[j])
      BY <1>0, <1>2, Zenon DEF Shape
    <2>a. ASSUME UNCHANGED <<keyRow, last>> PROVE \A j \in Handlers \ {i} : h[j].claimed => ~Current(keyRow'[h[j].req.key])
      BY <1>0, <2>a, Zenon DEF Held, Kept, Current
    <2>1. CASE LetsGo(i) /\ UNCHANGED <<keyRow, last>>
      <3>1. PICK x \in HandlerState : Loose(x) /\ h' = [h EXCEPT ![i] = x]
        BY <2>1, Zenon DEF LetsGo
      <3>2. h'[i] = x /\ \A j \in Handlers \ {i} : h'[j] = h[j]
        BY <1>0, <3>1, Zenon
      <3>3. Held(h[i])' /\ \A j \in Handlers \ {i} : Apart(h'[i], h[j])
        <4>1. ~x.claimed /\ x.number = 0 /\ x.at \notin {"number", "commit"}
              /\ (x.at # "idle" => x.req \in DOMAIN scenario'.requests)
          BY <2>0, <3>1, Zenon DEF Loose
        <4> QED
          BY <3>2, <4>1, Zenon DEF Held, Apart
      <3> QED
        BY <2>0, <2>1, <2>a, <3>2, <3>3, HoldOthers, Zenon
    <2>2. CASE Commits(i)
      <3>1. PICK x \in HandlerState : Loose(x) /\ h' = [h EXCEPT ![i] = x]
        BY <2>2, Zenon DEF LetsGo, Commits
      <3>2. h'[i] = x /\ \A j \in Handlers \ {i} : h'[j] = h[j]
        BY <1>0, <3>1, Zenon
      <3>3. Held(h[i])' /\ \A j \in Handlers \ {i} : Apart(h'[i], h[j])
        <4>1. ~x.claimed /\ x.number = 0 /\ x.at \notin {"number", "commit"}
              /\ (x.at # "idle" => x.req \in DOMAIN scenario'.requests)
          BY <2>0, <3>1, Zenon DEF Loose
        <4> QED
          BY <3>2, <4>1, Zenon DEF Held, Apart
      <3>4. \A k \in Cmd!Keys : k # h[i].req.key => keyRow'[k] = keyRow[k]
        BY <1>0, <2>2, Zenon DEF Commits, Cmd!Committed
      <3>5. h[i].at = "commit" /\ h[i].claimed
        BY <2>0, <2>2, Zenon DEF Commits, Held
      <3>6. \A j \in Handlers \ {i} : h[j].at # "commit" /\ (h[j].claimed => h[j].req.key # h[i].req.key)
        BY <2>0, <3>5, Zenon DEF Apart
      <3>7. \A j \in Handlers \ {i} : h[j].claimed => ~Current(keyRow'[h[j].req.key])
        BY <1>0, <3>4, <3>6, Zenon DEF Held, Kept
      <3> QED
        BY <2>0, <3>2, <3>3, <3>6, <3>7, HoldOthers, Zenon
    <2>3. CASE Claims(i) /\ UNCHANGED <<keyRow, last>>
      <3>1. /\ h'[i].at = "number" /\ h'[i].claimed = TRUE /\ h'[i].req = h[i].req /\ h'[i].number = h[i].number
            /\ \A j \in Handlers \ {i} : h'[j] = h[j]
        BY <1>0, <2>3, Zenon DEF Claims, HandlerState
      <3>2. \A j \in Handlers \ {i} : ~(h[j].claimed /\ h[j].req.key = h[i].req.key)
        BY <2>3, Zenon DEF Claims, Cmd!KeyLocked
      <3>3. h[i].at = "claim" /\ ~Kept(h[i].req.key)
        BY <2>3, Zenon DEF Claims
      <3>4. Held(h[i])'
        BY <2>0, <2>3, <3>1, <3>3, Zenon DEF Held, Kept, Current
      <3>5. \A j \in Handlers \ {i} : Apart(h'[i], h[j])
        BY <3>1, <3>2, Zenon DEF Apart
      <3> QED
        BY <2>0, <2>3, <2>a, <3>1, <3>4, <3>5, HoldOthers, Zenon
    <2>4. CASE Numbers(i) /\ UNCHANGED <<keyRow, last>>
      <3>1. /\ h'[i].at = "commit" /\ h'[i].claimed = h[i].claimed /\ h'[i].req = h[i].req /\ h'[i].number = last + 1
            /\ \A j \in Handlers \ {i} : h'[j] = h[j]
        BY <1>0, <2>4, Zenon DEF Numbers, HandlerState
      <3>2. \A j \in Handlers \ {i} : h[j].at # "commit"
        BY <1>0, <2>4, SMTT(30) DEF Numbers, Cmd!SeriesLocked, Held
      <3>3. h[i].at = "number"
        BY <2>4, Zenon DEF Numbers
      <3>4. Held(h[i])'
        BY <2>0, <2>4, <3>1, <3>3, Zenon DEF Held, Kept, Current
      <3>5. \A j \in Handlers \ {i} : Apart(h'[i], h[j])
        BY <2>0, <3>1, <3>2, Zenon DEF Apart
      <3> QED
        BY <2>0, <2>4, <2>a, <3>1, <3>4, <3>5, HoldOthers, Zenon
    <2>5. CASE Sets(i) /\ UNCHANGED <<keyRow, last>>
      <3>1. /\ h'[i].at = h[i].at /\ h'[i].claimed = h[i].claimed /\ h'[i].req = h[i].req /\ h'[i].number = h[i].number
            /\ \A j \in Handlers \ {i} : h'[j] = h[j]
        BY <1>0, <2>5, Zenon DEF Sets, HandlerState
      <3>2. Held(h[i])' /\ \A j \in Handlers \ {i} : Apart(h'[i], h[j])
        BY <2>0, <2>5, <3>1, Zenon DEF Held, Kept, Current, Apart
      <3> QED
        BY <2>0, <2>5, <2>a, <3>1, <3>2, HoldOthers, Zenon
    <2> QED
      BY <1>2, <2>1, <2>2, <2>3, <2>4, <2>5, Zenon DEF Shape, Leaves, Tables
  <1> QED
    BY <1>1, <1>2, NextShape, Zenon

\* Every step keeps records, answers and numbers the documents'.
LEMMA DocsStep ==
  ASSUME CmdType, HoldInv, DocsInv, [Cmd!Next]_Cmd!vars
  PROVE  DocsInv'
  <1>0. keyRow \in [Cmd!Keys -> KeyRow] /\ last \in Nat
    BY Zenon DEF CmdType
  <1>1. CASE Elsewhere
    <2>0. answers' = answers /\ docs' = docs /\ Cmd!Keys' = Cmd!Keys
      BY <1>1, Zenon DEF Elsewhere, Tables, Expires, Cleans, Raises, Cmd!Keys
    <2>1. {d.number : d \in docs'} \cup voided' = 1 .. last'
      BY <1>0, <1>1, SMTT(30) DEF Elsewhere, Tables, Expires, Cleans, Raises, DocsInv
    <2>2. ASSUME NEW k \in Cmd!Keys, keyRow'[k] # Cmd!NoRow
          PROVE  keyRow[k] # Cmd!NoRow /\ keyRow'[k].body = keyRow[k].body /\ keyRow'[k].number = keyRow[k].number
      BY <1>0, <1>1, <2>2, SMTT(30) DEF Elsewhere, Tables, Expires, Cleans, Raises, Kept, Current, KeyRow
    <2> QED
      BY <2>0, <2>1, <2>2, Zenon DEF DocsInv, Cmd!NoRow
  <1>2. ASSUME NEW i \in Handlers, Shape(i) PROVE DocsInv'
    <2>0. Cmd!Keys' = Cmd!Keys
      BY <1>2, Zenon DEF Shape, Cmd!Keys
    <2>1. CASE UNCHANGED <<Tables, answers>>
      BY <2>0, <2>1, Zenon DEF Tables, DocsInv, Cmd!NoRow
    <2>2. CASE Leaves(i)
      <3>1. UNCHANGED <<keyRow, last, docs, voided>>
        BY <2>2, Zenon DEF Leaves, Tables
      <3>2. ASSUME NEW a \in answers' PROVE a \in docs
        <4>1. CASE a \in answers
          BY <4>1, Zenon DEF DocsInv
        <4>2. CASE a \notin answers
          <5>1. /\ Cmd!Same(keyRow[h[i].req.key], h[i].req) /\ h[i].req.key \in Cmd!Keys
                /\ a = [key |-> h[i].req.key, body |-> h[i].req.body, number |-> keyRow[h[i].req.key].number]
            BY <2>2, <4>2, Zenon DEF Leaves
          <5> QED
            BY <5>1, Zenon DEF DocsInv, Cmd!Same
        <4> QED
          BY <4>1, <4>2, Zenon
      <3> QED
        BY <2>0, <3>1, <3>2, Zenon DEF DocsInv, Cmd!NoRow
    <2>3. CASE Commits(i)
      <3> DEFINE r == h[i].req
                 x == [key |-> h[i].req.key, body |-> h[i].req.body, number |-> last + 1]
      <3>1. /\ h[i].number = last + 1 /\ last' = last + 1 /\ h[i].req.key \in Cmd!Keys
        BY <2>3, CommitsNext, Zenon
      <3>2. docs' = docs \cup {x} /\ voided' = voided /\ answers' \subseteq answers \cup {x}
            /\ keyRow' = [keyRow EXCEPT ![h[i].req.key] = [body |-> h[i].req.body, number |-> last + 1, expired |-> FALSE]]
        BY <2>3, <3>1, Zenon DEF Commits, Cmd!Committed
      <3>3. {d.number : d \in docs'} \cup voided' = 1 .. last'
        <4>0. docs' = docs \cup {x} /\ x.number = last + 1
          BY <3>2, Zenon
        <4> HIDE DEF x
        <4>1. {d.number : d \in docs'} = {d.number : d \in docs} \cup {last + 1}
          BY <4>0, Zenon
        <4>2. 1 .. last + 1 = (1 .. last) \cup {last + 1}
          BY <1>0, SMTT(30)
        <4>3. {d.number : d \in docs} \cup voided = 1 .. last
          BY Zenon DEF DocsInv
        <4> QED
          BY <3>1, <3>2, <4>1, <4>2, <4>3, Zenon
      <3>4. ASSUME NEW k \in Cmd!Keys, keyRow'[k] # Cmd!NoRow
            PROVE  [key |-> k, body |-> keyRow'[k].body, number |-> keyRow'[k].number] \in docs'
        <4>1. CASE k = h[i].req.key
          BY <1>0, <3>2, <4>1, Zenon
        <4>2. CASE k # h[i].req.key
          <5>1. keyRow'[k] = keyRow[k]
            BY <1>0, <3>2, <4>2, Zenon
          <5> QED
            BY <3>2, <3>4, <5>1, SMTT(30) DEF DocsInv
        <4> QED
          BY <4>1, <4>2, Zenon
      <3>5. answers' \subseteq docs'
        BY <3>2, Zenon DEF DocsInv
      <3> QED
        BY <2>0, <3>3, <3>4, <3>5, Zenon DEF DocsInv, Cmd!NoRow
    <2> QED
      BY <1>2, <2>1, <2>2, <2>3, Zenon DEF Shape
  <1> QED
    BY <1>1, <1>2, NextShape, Zenon

\* Counting is the same in every module.
LEMMA SameCount == \A S : Cmd!Cardinality(S) = Cardinality(S)
  BY Zenon DEF Cmd!Cardinality, Cardinality

\* A set with one more member.
LEMMA OneMore ==
  ASSUME NEW S, IsFiniteSet(S), NEW x, x \notin S
  PROVE  IsFiniteSet(S \cup {x}) /\ Cardinality(S \cup {x}) = Cardinality(S) + 1 /\ Cardinality(S) \in Nat
  BY FS_AddElement, FS_CardinalityType, Zenon

\* Every step keeps the counts: a document is added by a transaction whose key has no kept record.
LEMMA CountStep ==
  ASSUME CmdType, HoldInv, DocsInv, CountInv, [Cmd!Next]_Cmd!vars
  PROVE  CountInv'
  <1>0. /\ keyRow \in [Cmd!Keys -> KeyRow] /\ last \in Nat /\ forgotten \in [Cmd!Keys -> Nat]
        /\ IsFiniteSet(docs) /\ IsFiniteSet(voided) /\ Cardinality(docs) \in Nat /\ Cardinality(voided) \in Nat
        /\ Cardinality(docs) + Cardinality(voided) = last
    BY FS_CardinalityType, Zenon DEF CmdType, CountInv
  <1>a. \A k : IsFiniteSet({d \in docs : d.key = k}) /\ Cardinality({d \in docs : d.key = k}) \in Nat
    BY <1>0, FS_Subset, FS_CardinalityType, Zenon
  <1>1. CASE Elsewhere
    <2>0. docs' = docs /\ Cmd!Keys' = Cmd!Keys
      BY <1>1, Zenon DEF Elsewhere, Tables, Expires, Cleans, Raises, Cmd!Keys
    <2>1. IsFiniteSet(voided') /\ Cardinality(docs') + Cardinality(voided') = last'
      <3>1. CASE voided' = voided /\ last' = last
        BY <1>0, <2>0, <3>1, Zenon
      <3>2. CASE Raises
        <4>1. voided' = voided \cup {last + 1} /\ last' = last + 1 /\ last + 1 \notin voided
          BY <1>0, <3>2, SMTT(30) DEF Raises, DocsInv
        <4>2. IsFiniteSet(voided') /\ Cardinality(voided') = Cardinality(voided) + 1
          BY <1>0, <4>1, OneMore, Zenon
        <4> QED
          BY <1>0, <2>0, <4>1, <4>2, SMTT(30)
      <3> QED
        BY <1>1, <3>1, <3>2, Zenon DEF Elsewhere, Tables, Expires, Cleans
    <2>2. ASSUME NEW k \in Cmd!Keys
          PROVE  forgotten[k] + (IF Kept(k) THEN 1 ELSE 0) <= forgotten'[k] + (IF Kept(k)' THEN 1 ELSE 0)
      BY <1>0, <1>1, <2>2, SMTT(30) DEF Elsewhere, Tables, Expires, Cleans, Raises, Kept, Current, KeyRow
    <2>3. ASSUME NEW k \in Cmd!Keys
          PROVE  Cardinality({d \in docs : d.key = k}) <= forgotten'[k] + (IF Kept(k)' THEN 1 ELSE 0)
      <3>1. forgotten'[k] \in Nat
        BY <1>0, <1>1, SMTT(30) DEF Elsewhere, Tables, Expires, Cleans, Raises
      <3>2. PICK n \in Nat : n = Cardinality({d \in docs : d.key = k})
        BY <1>a, Zenon
      <3>3. n <= forgotten[k] + (IF Kept(k) THEN 1 ELSE 0)
        BY <3>2, Zenon DEF CountInv
      <3>4. n <= forgotten'[k] + (IF Kept(k)' THEN 1 ELSE 0)
        BY <1>0, <2>2, <3>1, <3>3, SMTT(30)
      <3> QED
        BY <3>2, <3>4, Zenon
    <2> QED
      BY <1>0, <2>0, <2>1, <2>3, Zenon DEF CountInv
  <1>2. ASSUME NEW i \in Handlers, Shape(i) PROVE CountInv'
    <2>0. Cmd!Keys' = Cmd!Keys
      BY <1>2, Zenon DEF Shape, Cmd!Keys
    <2>1. CASE UNCHANGED Tables
      BY <2>0, <2>1, Zenon DEF Tables, CountInv, Kept, Current, Cmd!NoRow
    <2>2. CASE Commits(i)
      <3> DEFINE x == [key |-> h[i].req.key, body |-> h[i].req.body, number |-> last + 1]
      <3>1. /\ h[i].number = last + 1 /\ last' = last + 1 /\ h[i].req.key \in Cmd!Keys /\ ~Kept(h[i].req.key)
        BY <2>2, CommitsNext, Zenon
      <3>2. docs' = docs \cup {x} /\ voided' = voided /\ forgotten' = forgotten
            /\ keyRow' = [keyRow EXCEPT ![h[i].req.key] = [body |-> h[i].req.body, number |-> last + 1, expired |-> FALSE]]
        BY <2>2, <3>1, Zenon DEF Commits, Cmd!Committed
      <3>3. x \notin docs
        <4>1. \A d \in docs : d.number \in 1 .. last
          BY Zenon DEF DocsInv
        <4> QED
          BY <1>0, <4>1, SMTT(30)
      <3>4. IsFiniteSet(docs') /\ Cardinality(docs') = Cardinality(docs) + 1
        BY <1>0, <3>2, <3>3, OneMore, Zenon
      <3>5. ASSUME NEW k \in Cmd!Keys
            PROVE  Cardinality({d \in docs' : d.key = k}) <= forgotten[k] + (IF Current(keyRow'[k]) THEN 1 ELSE 0)
        <4>0. Cardinality({d \in docs : d.key = k}) <= forgotten[k] + (IF Kept(k) THEN 1 ELSE 0) /\ forgotten[k] \in Nat
          BY <1>0, Zenon DEF CountInv
        <4>1. CASE k = h[i].req.key
          <5>1. {d \in docs' : d.key = k} = {d \in docs : d.key = k} \cup {x}
            BY <3>2, <4>1, SMTT(30)
          <5>2. Cardinality({d \in docs' : d.key = k}) = Cardinality({d \in docs : d.key = k}) + 1
            BY <1>a, <3>3, <5>1, OneMore, Zenon
          <5>3. keyRow'[k] = [body |-> h[i].req.body, number |-> last + 1, expired |-> FALSE]
            BY <1>0, <3>2, <4>1, Zenon
          <5>4. Current(keyRow'[k])
            BY <1>0, <5>3, SMTT(30) DEF Current, Cmd!NoRow
          <5> QED
            BY <1>a, <3>1, <4>0, <4>1, <5>2, <5>4, SMTT(30)
        <4>2. CASE k # h[i].req.key
          <5>1. {d \in docs' : d.key = k} = {d \in docs : d.key = k} /\ keyRow'[k] = keyRow[k]
            BY <1>0, <3>2, <4>2, SMTT(30)
          <5> QED
            BY <4>0, <5>1, Zenon DEF Kept
        <4> QED
          BY <4>1, <4>2, Zenon
      <3> QED
        <4>1. Cardinality(docs') + Cardinality(voided') = last'
          BY <1>0, <3>1, <3>2, <3>4, SMTT(30)
        <4> QED
          BY <1>0, <2>0, <3>2, <3>4, <3>5, <4>1, Zenon DEF CountInv, Kept
    <2> QED
      BY <1>2, <2>1, <2>2, Zenon DEF Shape, Leaves, Tables
  <1> QED
    BY <1>1, <1>2, NextShape, Zenon

\* What commands, handlers and faults of any number keep.
CmdInv == CmdType /\ HoldInv /\ DocsInv /\ CountInv

\* Nothing is held, recorded or numbered at first.
LEMMA InitCmd ==
  ASSUME Cmd!CommandsConstants, Cmd!Init
  PROVE  CmdInv
  <1>1. CmdType
    <2>1. Cmd!Scenario(scenario) /\ DOMAIN copies = DOMAIN scenario.requests /\ last \in Nat /\ idleConns \subseteq {"clean"}
      BY Zenon DEF Cmd!CommandsConstants, Cmd!Init
    <2>2. h \in [Handlers -> HandlerState]
      BY IdleLoose, Zenon DEF Cmd!Init
    <2>3. keyRow \in [Cmd!Keys -> KeyRow] /\ forgotten \in [Cmd!Keys -> Nat]
      BY Zenon DEF Cmd!Init, KeyRow, Cmd!NoRow
    <2> QED
      BY <2>1, <2>2, <2>3, Zenon DEF CmdType
  <1>2. HoldInv
    BY Zenon DEF Cmd!Init, HoldInv, Held, Apart, Cmd!Idle
  <1>3. DocsInv
    BY SMTT(30) DEF Cmd!Init, DocsInv
  <1>4. CountInv
    <2>1. \A k : {d \in docs : d.key = k} = {}
      BY Zenon DEF Cmd!Init
    <2> QED
      BY <2>1, FS_EmptySet, SMTT(30) DEF Cmd!Init, CountInv, Kept, Current
  <1> QED
    BY <1>1, <1>2, <1>3, <1>4, Zenon DEF CmdInv

\* The invariant of the commands: whatever handlers, copies of requests, conflicts, failures, lost answers and expired
\* records meet, a transaction holds its key and its number until it ends (idem.go: Do; number.go: NextNumber).
THEOREM CommandsInductive == Cmd!CommandsConstants /\ Cmd!Spec => []CmdInv
  <1>1. Cmd!CommandsConstants /\ Cmd!Init => CmdInv
    BY InitCmd, Zenon
  <1>2. CmdInv /\ [Cmd!Next]_Cmd!vars => CmdInv'
    BY CmdTypeStep, HoldStep, DocsStep, CountStep, Zenon DEF CmdInv
  <1> QED
    BY <1>1, <1>2, PTL DEF Cmd!Spec

\* While a key's record is kept the command runs once, an answer is a committed outcome of that very request, and no
\* connection carries a setting of another (idem.go: Do, stored; pool.go: release).
THEOREM CommandsRunOnce ==
    Cmd!CommandsConstants /\ Cmd!Spec => [](Cmd!OncePerKey /\ Cmd!AnswersAreOwn /\ Cmd!ConnectionsAreClean)
  <1>1. ASSUME CmdInv PROVE Cmd!OncePerKey /\ Cmd!AnswersAreOwn /\ Cmd!ConnectionsAreClean
    <2>1. ASSUME NEW k \in Cmd!Keys PROVE Cardinality({d \in docs : d.key = k}) <= 1 + forgotten[k]
      <3>1. IsFiniteSet({d \in docs : d.key = k})
        BY <1>1, FS_Subset, Zenon DEF CmdInv, CountInv
      <3>2. PICK n \in Nat : n = Cardinality({d \in docs : d.key = k})
        BY <3>1, FS_CardinalityType, Zenon
      <3>3. n <= forgotten[k] + (IF Kept(k) THEN 1 ELSE 0) /\ forgotten[k] \in Nat
        BY <1>1, <3>2, Zenon DEF CmdInv, CountInv, CmdType
      <3>4. n <= 1 + forgotten[k]
        BY <3>3, SMTT(30)
      <3> QED
        BY <3>2, <3>4, Zenon
    <2> QED
      BY <1>1, <2>1, SameCount, Zenon
         DEF CmdInv, CmdType, DocsInv, Cmd!OncePerKey, Cmd!AnswersAreOwn, Cmd!ConnectionsAreClean
  <1> QED
    BY <1>1, CommandsInductive, PTL

\* A continuous series has neither gaps nor duplicates (number.go: NextNumber, RaiseContinuous).
THEOREM SeriesIsContinuous == Cmd!CommandsConstants /\ Cmd!Spec => []Cmd!NoGaps
  <1>1. ASSUME CmdInv PROVE Cmd!NoGaps
    BY <1>1, SameCount, Zenon DEF CmdInv, DocsInv, CountInv, Cmd!NoGaps
  <1> QED
    BY <1>1, CommandsInductive, PTL

-----------------------------------------------------------------------------
(* The process: its parts go in the order in which they are needed.        *)

Proc == INSTANCE Process WITH Scenarios <- ProcessScenarios

Starting == {"open", "build", "ready"}
Up == {"ready", "start", "serving", "draining", "shutdown"}

MemberState == [state : {"none", "starting", "ready", "stopping"}, listening : BOOLEAN,
                parts : SUBSET {"events", "jobs", "loops", "holder", "submitting"}, hand : SUBSET {"events", "jobs"},
                outbound : BOOLEAN, stopped : BOOLEAN]

ProcState == [pc : Starting \cup Up \cup {"stop", "exited"}, next : Nat, code : {0, 1, 78}, signal : BOOLEAN,
              bg : {"none", "on", "cancelled"}]
Answers == {"none", "running", "answered", "refused", "cut"}

ProcType ==
    /\ Proc!Scenario(scenario)
    /\ proc \in ProcState /\ proc.next \in DOMAIN scenario.order
    /\ member \in [Proc!Members -> MemberState]
    /\ inflight \in [Requests -> Answers]
    /\ routed \subseteq Proc!Members
    /\ deadline \in BOOLEAN

\* Until its databases are ready a process has no work; a member that runs anything has been started.
StartInv ==
    /\ proc.pc \in Starting => routed = {} /\ \A r \in Requests : inflight[r] = "none"
    /\ \A m \in Proc!Members :
        /\ member[m].state = "ready" => proc.pc \notin Starting /\ proc.bg # "none" /\ m \in Proc!Hosted
        /\ (member[m].parts # {} \/ member[m].hand # {}) =>
             proc.pc \notin Starting /\ proc.bg # "none" /\ m \in Proc!Hosted
        /\ m \in routed => proc.bg # "none" /\ m \in Proc!Hosted

\* Every member built has its connections, until it is stopped ...
OutInv ==
    /\ proc.pc = "open" => proc.next = 1
    /\ proc.pc = "build" => \A n \in DOMAIN scenario.order : n < proc.next => member[scenario.order[n]].outbound
    /\ proc.pc \in Up => \A m \in Proc!Hosted : member[m].outbound

\* ... and so has whatever runs or is in hand.
UseInv ==
    \A m \in Proc!Members : (member[m].parts # {} \/ member[m].hand # {}) => member[m].outbound /\ ~member[m].stopped

\* The servers are down before the background ends.
DownInv ==
    /\ proc.pc \in {"shutdown", "stop", "exited"} => \A m \in Proc!Members : ~member[m].listening
    /\ proc.bg = "cancelled" => proc.pc \in {"stop", "exited"}
    /\ proc.pc = "stop" => proc.bg = "cancelled"
    /\ \A m \in Proc!Members : member[m].stopped => proc.pc \in {"stop", "exited"}

\* The exit code tells of what was cut.
CodeInv ==
    /\ proc.pc \notin {"stop", "exited"} => proc.code = 0 /\ \A r \in Requests : inflight[r] # "cut"
    /\ proc.pc = "stop" /\ proc.code = 0 => \A r \in Requests : inflight[r] \notin {"running", "cut"}
    /\ proc.pc = "exited" => \A r \in Requests : inflight[r] # "running"

ProcInv ==
    /\ ProcType /\ StartInv /\ OutInv /\ UseInv /\ DownInv /\ CodeInv
    /\ Proc!RoutedIsListening /\ Proc!RequestsKeepTheirMember /\ Proc!CleanExit


\* What a step does to the process and to a member.
ProcBecomes(pc, code, bg) == proc'.pc = pc /\ proc'.code = code /\ proc'.bg = bg
Is(r, state, listening, parts, hand, outbound, stopped) ==
    /\ r \in MemberState
    /\ r.state = state /\ r.listening = listening /\ r.parts = parts
    /\ r.hand = hand /\ r.outbound = outbound /\ r.stopped = stopped

\* The fields a step sets, the others as they were.
LEMMA Edits ==
  ASSUME NEW r \in MemberState
  PROVE  /\ \A v \in BOOLEAN :
              Is([r EXCEPT !.listening = v], r.state, v, r.parts, r.hand, r.outbound, r.stopped)
         /\ \A v \in {"starting", "ready", "stopping"} :
              Is([r EXCEPT !.state = v], v, r.listening, r.parts, r.hand, r.outbound, r.stopped)
         /\ \A v \in SUBSET {"events", "jobs", "loops", "holder", "submitting"} :
              Is([r EXCEPT !.parts = v], r.state, r.listening, v, r.hand, r.outbound, r.stopped)
         /\ \A v \in SUBSET {"events", "jobs"} :
              Is([r EXCEPT !.hand = v], r.state, r.listening, r.parts, v, r.outbound, r.stopped)
         /\ \A v \in BOOLEAN :
              Is([r EXCEPT !.state = "starting", !.outbound = TRUE, !.listening = v],
                 "starting", v, r.parts, r.hand, TRUE, r.stopped)
         /\ Is([r EXCEPT !.stopped = TRUE, !.parts = {}, !.outbound = FALSE],
               r.state, r.listening, {}, r.hand, FALSE, TRUE)
  BY Zenon DEF MemberState, Is

\* A step at one member.
LEMMA OneMember ==
  ASSUME ProcType, NEW m \in Proc!Members, NEW e \in MemberState, member' = [member EXCEPT ![m] = e]
  PROVE  /\ member' \in [Proc!Members -> MemberState]
         /\ member'[m] = e /\ \A n \in Proc!Members \ {m} : member'[n] = member[n]
  <1>1. member \in [Proc!Members -> MemberState]
    BY Zenon DEF ProcType
  <1> QED
    BY <1>1, Zenon

\* A step that leaves the types as they are.
LEMMA ProcTypeStep ==
  ASSUME ProcType, UNCHANGED scenario, proc' \in ProcState, proc'.next \in DOMAIN scenario.order,
         member' \in [Proc!Members -> MemberState], inflight' \in [Requests -> Answers],
         routed' \subseteq Proc!Members, deadline' \in BOOLEAN
  PROVE  ProcType'
  BY Zenon DEF ProcType

\* The member in turn is one of the process's.
LEMMA TurnHosted ==
  ASSUME ProcType
  PROVE  /\ Proc!Turn \in Proc!Hosted /\ Proc!Turn \in Proc!Members
         /\ Proc!Hosted \subseteq Proc!Members
         /\ \A n \in DOMAIN scenario.order : scenario.order[n] \in Proc!Members
  <1>1. scenario.order \in Seq(Proc!Members) /\ proc.next \in DOMAIN scenario.order
    BY Zenon DEF ProcType, Proc!Scenario
  <1>2. \A n \in DOMAIN scenario.order : scenario.order[n] \in Proc!Members
    BY <1>1, SMTT(30)
  <1> QED
    BY <1>1, <1>2, Zenon DEF Proc!Turn, Proc!Hosted, Proc!Range

\* Exit, whatever it comes from: listeners are closed and what runs is cut.
LEMMA ExitStep ==
  ASSUME ProcInv, NEW code \in {0, 1, 78}, Proc!Exit(code), UNCHANGED <<scenario, routed, deadline>>,
         code = 0 => /\ \A r \in Requests : inflight[r] \notin {"running", "cut"}
                     /\ \A m \in Proc!Members : member[m].hand = {}
  PROVE  ProcInv'
  <1>0. /\ ProcType /\ proc \in ProcState /\ proc.next \in DOMAIN scenario.order
        /\ member \in [Proc!Members -> MemberState]
    BY Zenon DEF ProcInv, ProcType
  <1>1. proc' \in ProcState /\ ProcBecomes("exited", code, proc.bg) /\ proc'.next = proc.next
    BY <1>0, Zenon DEF ProcState, ProcBecomes, Proc!Exit, Starting, Up
  <1>2. \A m \in Proc!Members : Is(member'[m], member[m].state, FALSE, member[m].parts, member[m].hand,
                                   member[m].outbound, member[m].stopped)
    BY <1>0, Edits, Zenon DEF Proc!Exit
  <1>3. \A r \in Requests : inflight'[r] = IF inflight[r] = "running" THEN "cut" ELSE inflight[r]
    BY Zenon DEF Proc!Exit, Proc!Cut
  <1>4. ProcType'
    <2>2. member' \in [Proc!Members -> MemberState]
      BY <1>2, Zenon DEF Is, Proc!Exit
    <2>3. inflight' \in [Requests -> Answers]
      BY <1>0, Zenon DEF ProcType, Answers, Proc!Exit, Proc!Cut
    <2> QED
      BY <1>0, <1>1, <2>2, <2>3, ProcTypeStep, Zenon DEF ProcType
  <1>5. StartInv'
    BY <1>1, <1>2, Zenon DEF ProcInv, StartInv, ProcBecomes, Is, Starting, Proc!Hosted
  <1>6. OutInv' /\ UseInv'
    BY <1>1, <1>2, Zenon DEF ProcInv, OutInv, UseInv, ProcBecomes, Is, Up
  <1>7. DownInv'
    BY <1>1, <1>2, Zenon DEF ProcInv, DownInv, ProcBecomes, Is
  <1>8. CodeInv' /\ Proc!RequestsKeepTheirMember'
    BY <1>1, <1>3, Zenon DEF CodeInv, ProcBecomes, Proc!RequestsKeepTheirMember
  <1>9. Proc!RoutedIsListening'
    BY <1>1, Zenon DEF Proc!RoutedIsListening, ProcBecomes
  <1>10. Proc!CleanExit'
    BY <1>1, <1>2, <1>3, Zenon DEF Proc!CleanExit, ProcBecomes, Is
  <1> QED
    BY <1>4, <1>5, <1>6, <1>7, <1>8, <1>9, <1>10, Zenon DEF ProcInv

\* The platform probes, a request comes or is answered, the stop timeout passes: the process is as it was.
LEMMA ServeStep ==
  ASSUME ProcInv, UNCHANGED <<scenario, proc, member>>,
         \/ Proc!Deadline
         \/ \E m \in Proc!Members : Proc!Probe(m)
         \/ \E r \in Requests : Proc!Arrive(r) \/ Proc!Answer(r)
  PROVE  ProcInv'
  <1>0. ProcType /\ proc \in ProcState /\ inflight \in [Requests -> Answers] /\ routed \subseteq Proc!Members
    BY Zenon DEF ProcInv, ProcType
  <1>1. OutInv' /\ UseInv' /\ DownInv'
    BY Zenon DEF ProcInv, OutInv, UseInv, DownInv, Proc!Hosted
  <1>2. CASE Proc!Deadline
    <2>1. deadline' = TRUE /\ UNCHANGED <<inflight, routed>>
      BY <1>2, Zenon DEF Proc!Deadline
    <2>2. ProcType' /\ StartInv' /\ CodeInv' /\ Proc!CleanExit'
      BY <1>0, <2>1, Zenon DEF ProcInv, ProcType, StartInv, CodeInv, Proc!CleanExit, Proc!Hosted
    <2>3. Proc!RoutedIsListening' /\ Proc!RequestsKeepTheirMember'
      BY <2>1, Zenon DEF Proc!RoutedIsListening, Proc!RequestsKeepTheirMember
    <2> QED
      BY <1>1, <2>2, <2>3, Zenon DEF ProcInv
  <1>3. CASE \E m \in Proc!Members : Proc!Probe(m)
    <2>1. PICK m \in Proc!Members : Proc!Probe(m)
      BY <1>3, Zenon
    <2>2. UNCHANGED <<inflight, deadline>> /\ proc.pc # "exited"
      BY <2>1, Zenon DEF Proc!Probe
    <2>3. \A n \in routed' : n \in routed \/ (n = m /\ member[m].state = "ready" /\ member[m].listening)
      BY <2>1, Zenon DEF Proc!Probe, Proc!IsReady
    <2>4. ProcType' /\ CodeInv' /\ Proc!CleanExit' /\ Proc!RequestsKeepTheirMember'
      BY <1>0, <2>2, <2>3, Zenon DEF ProcInv, ProcType, CodeInv, Proc!CleanExit, Proc!RequestsKeepTheirMember
    <2>5. StartInv'
      <3>1. proc.pc \in Starting => routed' = {}
        BY <2>3, Zenon DEF ProcInv, StartInv
      <3>2. \A n \in Proc!Members : n \in routed' => proc.bg # "none" /\ n \in Proc!Hosted
        BY <2>3, Zenon DEF ProcInv, StartInv
      <3> QED
        BY <2>2, <3>1, <3>2, Zenon DEF ProcInv, StartInv, Proc!Hosted
    <2>6. Proc!RoutedIsListening'
      BY <2>2, <2>3, Zenon DEF ProcInv, Proc!RoutedIsListening
    <2> QED
      BY <1>1, <2>4, <2>5, <2>6, Zenon DEF ProcInv
  <1>4. CASE \E r \in Requests : Proc!Arrive(r) \/ Proc!Answer(r)
    <2>1. PICK r \in Requests : Proc!Arrive(r) \/ Proc!Answer(r)
      BY <1>4, Zenon
    <2>2. UNCHANGED <<routed, deadline>> /\ \A s \in Requests \ {r} : inflight'[s] = inflight[s]
      BY <1>0, <2>1, Zenon DEF Proc!Arrive, Proc!Answer
    <2>3. inflight' \in [Requests -> Answers] /\ inflight'[r] # "cut"
      BY <1>0, <2>1, Zenon DEF Proc!Arrive, Proc!Answer, Answers
    <2>4. /\ scenario.requests[r].member \in routed \/ inflight[r] = "running"
          /\ inflight'[r] = "running" =>
               /\ scenario.requests[r].member \in routed /\ member[scenario.requests[r].member].listening
               /\ proc.pc # "exited"
      <3>1. CASE Proc!Answer(r)
        <4>1. inflight'[r] = "answered" /\ inflight[r] = "running"
          BY <1>0, <3>1, Zenon DEF Proc!Answer
        <4> QED
          BY <4>1, Zenon
      <3>2. CASE Proc!Arrive(r)
        <4> DEFINE q == scenario.requests[r]
        <4>1. q.member \in routed /\ proc.pc # "exited"
          BY <3>2, Zenon DEF Proc!Arrive
        <4>2. ~member[q.member].listening => inflight'[r] = "refused"
          BY <1>0, <3>2, Zenon DEF Proc!Arrive
        <4> QED
          BY <4>1, <4>2, Zenon
      <3> QED
        BY <2>1, <3>1, <3>2, Zenon
    <2>5. proc.pc \notin Starting
      BY <2>4, Zenon DEF ProcInv, StartInv
    <2>6. inflight'[r] = "running" =>
            /\ proc.pc \notin {"shutdown", "stop", "exited"} /\ proc.bg = "on"
            /\ member[scenario.requests[r].member].outbound
      <3>1. HAVE inflight'[r] = "running"
      <3> DEFINE q == scenario.requests[r].member
      <3>2. q \in routed /\ q \in Proc!Members /\ member[q].listening
        BY <1>0, <2>4, <3>1, Zenon
      <3>3. proc.pc \notin {"shutdown", "stop", "exited"}
        BY <3>2, Zenon DEF ProcInv, DownInv
      <3>4. proc.bg # "none" /\ q \in Proc!Hosted /\ proc.bg # "cancelled"
        BY <3>2, <3>3, Zenon DEF ProcInv, StartInv, DownInv
      <3>5. proc.pc \in Up /\ proc.bg = "on"
        BY <1>0, <2>5, <3>3, <3>4, Zenon DEF ProcState, Starting, Up
      <3> QED
        BY <3>3, <3>4, <3>5, Zenon DEF ProcInv, OutInv
    <2>7. ProcType' /\ StartInv' /\ Proc!RoutedIsListening'
      BY <1>0, <2>2, <2>3, <2>5, Zenon DEF ProcInv, ProcType, StartInv, Proc!RoutedIsListening, Proc!Hosted
    <2>8. CodeInv'
      BY <2>2, <2>3, <2>6, Zenon DEF ProcInv, CodeInv
    <2>9. Proc!RequestsKeepTheirMember'
      BY <2>2, <2>6, Zenon DEF ProcInv, Proc!RequestsKeepTheirMember
    <2>10. Proc!CleanExit'
      BY <2>2, <2>3, Zenon DEF ProcInv, Proc!CleanExit
    <2> QED
      BY <1>1, <2>7, <2>8, <2>9, <2>10, Zenon DEF ProcInv
  <1> QED
    BY <1>2, <1>3, <1>4, Zenon

\* A member's background moves: parts end, a handler begins or ends.
LEMMA WorkStep ==
  ASSUME ProcInv, NEW m \in Proc!Members, proc.pc # "exited",
         UNCHANGED <<scenario, proc, inflight, routed, deadline>>,
         NEW parts \in SUBSET {"events", "jobs", "loops", "holder", "submitting"},
         NEW hand \in SUBSET {"events", "jobs"},
         parts # {} => member[m].parts # {}, hand # {} => member[m].parts # {} \/ member[m].hand # {},
         member' \in [Proc!Members -> MemberState], \A n \in Proc!Members \ {m} : member'[n] = member[n],
         Is(member'[m], member[m].state, member[m].listening, parts, hand, member[m].outbound, member[m].stopped)
  PROVE  ProcInv'
  <1>1. \A n \in Proc!Members :
          /\ member'[n].state = member[n].state /\ member'[n].listening = member[n].listening
          /\ member'[n].outbound = member[n].outbound /\ member'[n].stopped = member[n].stopped
          /\ member'[n].parts # {} => member[n].parts # {}
          /\ member'[n].hand # {} => member[n].parts # {} \/ member[n].hand # {}
    <2> SUFFICES ASSUME NEW n \in Proc!Members
                 PROVE  /\ member'[n].state = member[n].state /\ member'[n].listening = member[n].listening
                        /\ member'[n].outbound = member[n].outbound /\ member'[n].stopped = member[n].stopped
                        /\ member'[n].parts # {} => member[n].parts # {}
                        /\ member'[n].hand # {} => member[n].parts # {} \/ member[n].hand # {}
      BY Zenon
    <2>1. CASE n = m
      BY <2>1, Zenon DEF Is
    <2>2. CASE n # m
      BY <2>2, Zenon
    <2> QED
      BY <2>1, <2>2, Zenon
  <1>2. ProcType'
    BY ProcTypeStep, Zenon DEF ProcInv, ProcType
  <1>3. StartInv'
    BY <1>1, Zenon DEF ProcInv, StartInv, Proc!Hosted
  <1>4. OutInv'
    <2>1. ProcType BY Zenon DEF ProcInv
    <2> QED
      BY <1>1, <2>1, TurnHosted, Zenon DEF ProcInv, OutInv, Proc!Hosted
  <1>5. UseInv'
    BY <1>1, Zenon DEF ProcInv, UseInv
  <1>6. DownInv' /\ CodeInv'
    BY <1>1, Zenon DEF ProcInv, DownInv, CodeInv
  <1>7. Proc!RoutedIsListening' /\ Proc!CleanExit'
    BY <1>1, Zenon DEF ProcInv, ProcType, Proc!RoutedIsListening, Proc!CleanExit
  <1>8. Proc!RequestsKeepTheirMember'
    BY <1>1, Zenon DEF ProcInv, ProcType, Proc!Scenario, Proc!RequestsKeepTheirMember
  <1> QED
    BY <1>2, <1>3, <1>4, <1>5, <1>6, <1>7, <1>8, Zenon DEF ProcInv

\* submitUntilAccepted, StopSubs, Take and Give move a member's background.
LEMMA BackgroundStep ==
  ASSUME ProcInv, NEW m \in Proc!Members, NEW what \in {"jobs", "events"},
         Proc!submitUntilAccepted(m) \/ Proc!StopSubs(m) \/ Proc!Take(m, what) \/ Proc!Give(m, what)
  PROVE  ProcInv'
  <1>0. ProcType /\ member \in [Proc!Members -> MemberState]
    BY Zenon DEF ProcInv, ProcType
  <1>1. member[m] \in MemberState /\ member[m].parts \in SUBSET {"events", "jobs", "loops", "holder", "submitting"}
        /\ member[m].hand \in SUBSET {"events", "jobs"}
    BY <1>0, Zenon DEF MemberState
  <1>2. proc.pc # "exited" /\ UNCHANGED <<scenario, proc, inflight, routed, deadline>>
    BY Zenon DEF Proc!submitUntilAccepted, Proc!StopSubs, Proc!Take, Proc!Give, Proc!Background
  <1>3. ASSUME NEW parts \in SUBSET {"events", "jobs", "loops", "holder", "submitting"},
               parts # {} => member[m].parts # {}, member' = [member EXCEPT ![m] = [member[m] EXCEPT !.parts = parts]]
        PROVE  ProcInv'
    <2>1. Is([member[m] EXCEPT !.parts = parts], member[m].state, member[m].listening, parts, member[m].hand,
             member[m].outbound, member[m].stopped)
      BY <1>1, Edits, Zenon
    <2>2. /\ member' \in [Proc!Members -> MemberState]
          /\ member'[m] = [member[m] EXCEPT !.parts = parts] /\ \A n \in Proc!Members \ {m} : member'[n] = member[n]
      BY <1>0, <1>3, <2>1, OneMember, Zenon DEF Is
    <2> QED
      BY <1>1, <1>2, <1>3, <2>1, <2>2, WorkStep, Zenon
  <1>4. ASSUME NEW hand \in SUBSET {"events", "jobs"},
               hand # {} => member[m].parts # {} \/ member[m].hand # {},
               member' = [member EXCEPT ![m] = [member[m] EXCEPT !.hand = hand]]
        PROVE  ProcInv'
    <2>1. Is([member[m] EXCEPT !.hand = hand], member[m].state, member[m].listening, member[m].parts, hand,
             member[m].outbound, member[m].stopped)
      BY <1>1, Edits, Zenon
    <2>2. /\ member' \in [Proc!Members -> MemberState]
          /\ member'[m] = [member[m] EXCEPT !.hand = hand] /\ \A n \in Proc!Members \ {m} : member'[n] = member[n]
      BY <1>0, <1>4, <2>1, OneMember, Zenon DEF Is
    <2> QED
      BY <1>1, <1>2, <1>4, <2>1, <2>2, WorkStep, Zenon
  <1>5. CASE Proc!submitUntilAccepted(m)
    <2> DEFINE parts == (member[m].parts \ {"submitting"}) \cup {"holder"}
    <2>1. CASE member' = [member EXCEPT ![m].parts = (@ \ {"submitting"}) \cup {"holder"}]
      <3>1. member' = [member EXCEPT ![m] = [member[m] EXCEPT !.parts = parts]]
        BY <2>1, Zenon
      <3>2. parts \in SUBSET {"events", "jobs", "loops", "holder", "submitting"} /\ member[m].parts # {}
        BY <1>1, <1>5, Zenon DEF Proc!submitUntilAccepted
      <3> HIDE DEF parts
      <3> QED
        BY <1>3, <3>1, <3>2, Zenon
    <2>2. CASE UNCHANGED member
      <3>1. Is(member'[m], member[m].state, member[m].listening, member[m].parts, member[m].hand,
               member[m].outbound, member[m].stopped)
        BY <1>1, <2>2, Zenon DEF Is
      <3> QED
        BY <1>0, <1>1, <1>2, <2>2, <3>1, WorkStep, Zenon
    <2> QED
      BY <1>5, <2>1, <2>2, Zenon DEF Proc!submitUntilAccepted
  <1>6. CASE Proc!StopSubs(m)
    <2> DEFINE parts == member[m].parts \ {"events"}
    <2>1. member' = [member EXCEPT ![m] = [member[m] EXCEPT !.parts = parts]]
      BY <1>6, Zenon DEF Proc!StopSubs
    <2>2. parts \in SUBSET {"events", "jobs", "loops", "holder", "submitting"} /\ (parts # {} => member[m].parts # {})
      BY <1>1, Zenon
    <2> HIDE DEF parts
    <2> QED
      BY <1>3, <2>1, <2>2, Zenon
  <1>7. CASE Proc!Take(m, what)
    <2> DEFINE hand == member[m].hand \cup {what}
    <2>1. member' = [member EXCEPT ![m] = [member[m] EXCEPT !.hand = hand]]
      BY <1>7, Zenon DEF Proc!Take
    <2>2. hand \in SUBSET {"events", "jobs"} /\ member[m].parts # {}
      BY <1>1, <1>7, Zenon DEF Proc!Take
    <2> HIDE DEF hand
    <2> QED
      BY <1>4, <2>1, <2>2, Zenon
  <1>8. CASE Proc!Give(m, what)
    <2> DEFINE hand == member[m].hand \ {what}
    <2>1. member' = [member EXCEPT ![m] = [member[m] EXCEPT !.hand = hand]]
      BY <1>8, Zenon DEF Proc!Give
    <2>2. hand \in SUBSET {"events", "jobs"} /\ (hand # {} => member[m].hand # {})
      BY <1>1, Zenon
    <2> HIDE DEF hand
    <2> QED
      BY <1>4, <2>1, <2>2, Zenon
  <1> QED
    BY <1>5, <1>6, <1>7, <1>8, Zenon

\* The next member's turn, or the next phase.
LEMMA ThenNext ==
  ASSUME ProcType, NEW phase \in {"ready", "serving"}, Proc!Then(phase)
  PROVE  /\ proc' \in ProcState /\ proc'.next \in DOMAIN scenario.order
         /\ proc'.code = proc.code /\ proc'.bg = proc.bg
         /\ \/ proc'.pc = proc.pc /\ proc'.next = proc.next + 1
            \/ proc'.pc = phase /\ \A n \in DOMAIN scenario.order : n = proc.next \/ n < proc.next
  <1>1. scenario.order \in Seq(Proc!Members) /\ scenario.order # <<>> /\ proc \in ProcState
        /\ proc.next \in DOMAIN scenario.order
    BY Zenon DEF ProcType, Proc!Scenario
  <1>2. Len(scenario.order) \in Nat /\ Len(scenario.order) >= 1 /\ DOMAIN scenario.order = 1..Len(scenario.order)
    BY <1>1, SMTT(30)
  <1>3. CASE proc.next < Len(scenario.order)
    <2>1. proc' = [proc EXCEPT !.next = @ + 1]
      BY <1>3, Zenon DEF Proc!Then
    <2> QED
      BY <1>1, <1>2, <1>3, <2>1, SMTT(30) DEF ProcState
  <1>4. CASE ~(proc.next < Len(scenario.order))
    <2>1. proc' = [proc EXCEPT !.pc = phase, !.next = 1]
      BY <1>4, Zenon DEF Proc!Then
    <2>2. \A n \in DOMAIN scenario.order : n = proc.next \/ n < proc.next
      BY <1>1, <1>2, <1>4, SMTT(30)
    <2>3. proc' \in ProcState /\ proc'.next = 1 /\ proc'.pc = phase /\ proc'.code = proc.code /\ proc'.bg = proc.bg
      BY <1>1, <2>1, Zenon DEF ProcState, Starting, Up
    <2> QED
      BY <1>2, <2>2, <2>3, SMTT(30)
  <1> QED
    BY <1>3, <1>4, Zenon

\* A step of the start: nothing is routed or asked for yet, and the members' background is as it was.
LEMMA StartingStep ==
  ASSUME ProcInv, proc.pc \in Starting, UNCHANGED <<scenario, inflight, routed, deadline>>,
         proc' \in ProcState, proc'.next \in DOMAIN scenario.order, proc'.pc \in Starting \cup {"start"},
         proc'.code = proc.code, proc'.bg = proc.bg,
         member' \in [Proc!Members -> MemberState],
         \A m \in Proc!Members :
             /\ member'[m].state = "ready" => member[m].state = "ready"
             /\ member'[m].parts = member[m].parts /\ member'[m].hand = member[m].hand
             /\ member[m].outbound => member'[m].outbound
             /\ member'[m].stopped = member[m].stopped,
         OutInv'
  PROVE  ProcInv'
  <1>1. proc.pc \notin {"stop", "exited"} /\ proc'.pc \notin {"shutdown", "stop", "exited"} /\ routed' = {}
        /\ \A r \in Requests : inflight'[r] = "none"
    BY Zenon DEF ProcInv, StartInv, Starting
  <1>2. ProcType'
    BY ProcTypeStep, Zenon DEF ProcInv, ProcType
  <1>3. \A m \in Proc!Members : member'[m].parts = {} /\ member'[m].hand = {} /\ member'[m].state # "ready"
    BY Zenon DEF ProcInv, StartInv
  <1>4. StartInv'
    BY <1>1, <1>3, Zenon DEF StartInv
  <1>5. UseInv'
    BY Zenon DEF ProcInv, UseInv
  <1>6. DownInv'
    BY <1>1, Zenon DEF ProcInv, DownInv
  <1>7. CodeInv'
    BY <1>1, Zenon DEF ProcInv, CodeInv
  <1>8. Proc!RoutedIsListening' /\ Proc!RequestsKeepTheirMember' /\ Proc!CleanExit'
    BY <1>1, Zenon DEF Proc!RoutedIsListening, Proc!RequestsKeepTheirMember, Proc!CleanExit
  <1> QED
    BY <1>2, <1>4, <1>5, <1>6, <1>7, <1>8, Zenon DEF ProcInv

\* A process that ends while it waits has cut nothing.
LEMMA WaitStep ==
  ASSUME ProcInv, Proc!Open \/ Proc!PoolsReady
  PROVE  ProcInv'
  <1>0. ProcType /\ proc \in ProcState /\ proc.next \in DOMAIN scenario.order /\ member \in [Proc!Members -> MemberState]
    BY Zenon DEF ProcInv, ProcType
  <1>1. proc.pc \in Starting /\ UNCHANGED <<scenario, routed, deadline>>
    BY Zenon DEF Proc!Open, Proc!PoolsReady, Proc!Wait, Starting
  <1>2. /\ \A m \in Proc!Members : member[m].hand = {}
        /\ \A r \in Requests : inflight[r] \notin {"running", "cut"}
    BY <1>1, Zenon DEF ProcInv, StartInv
  <1>3. CASE \E code \in {0, 78} : Proc!Exit(code)
    BY <1>1, <1>2, <1>3, ExitStep, Zenon
  <1>4. CASE proc.pc = "open" /\ Proc!Go("build") /\ UNCHANGED <<member, inflight>>
    <2>1. proc' \in ProcState /\ proc'.pc = "build" /\ proc'.next = proc.next /\ proc'.code = proc.code
          /\ proc'.bg = proc.bg
      BY <1>0, <1>4, Zenon DEF Proc!Go, ProcState, Starting, Up
    <2>2. proc.next = 1
      BY <1>4, Zenon DEF ProcInv, OutInv
    <2>3. \A n \in DOMAIN scenario.order : ~(n < 1)
      BY <1>0, SMTT(30) DEF ProcType, Proc!Scenario
    <2>4. OutInv'
      BY <1>1, <2>1, <2>2, <2>3, Zenon DEF OutInv, Up
    <2>5. proc'.pc \in Starting \cup {"start"}
      BY <2>1, Zenon DEF Starting
    <2> QED
      BY <1>0, <1>1, <1>4, <2>1, <2>4, <2>5, StartingStep, Zenon
  <1>5. CASE proc.pc = "ready" /\ Proc!Go("start") /\ member' = Proc!Listening /\ UNCHANGED inflight
    <2>1. proc' \in ProcState /\ proc'.pc = "start" /\ proc'.next = proc.next /\ proc'.code = proc.code
          /\ proc'.bg = proc.bg
      BY <1>0, <1>5, Zenon DEF Proc!Go, ProcState, Starting, Up
    <2>2. \A m \in Proc!Members :
            /\ member'[m] \in MemberState
            /\ member'[m].state = member[m].state /\ member'[m].parts = member[m].parts
            /\ member'[m].hand = member[m].hand /\ member'[m].outbound = member[m].outbound
            /\ member'[m].stopped = member[m].stopped
      <3> SUFFICES ASSUME NEW m \in Proc!Members
                   PROVE  /\ member'[m] \in MemberState
                          /\ member'[m].state = member[m].state /\ member'[m].parts = member[m].parts
                          /\ member'[m].hand = member[m].hand /\ member'[m].outbound = member[m].outbound
                          /\ member'[m].stopped = member[m].stopped
        BY Zenon
      <3>1. member'[m] = IF m \in Proc!Hosted THEN [member[m] EXCEPT !.listening = TRUE] ELSE member[m]
        BY <1>5, Zenon DEF Proc!Listening
      <3>2. Is([member[m] EXCEPT !.listening = TRUE], member[m].state, TRUE, member[m].parts, member[m].hand,
               member[m].outbound, member[m].stopped)
        BY <1>0, Edits, Zenon
      <3>3. member[m] \in MemberState
        BY <1>0, Zenon
      <3> QED
        BY <3>1, <3>2, <3>3, Zenon DEF Is
    <2>3. member' \in [Proc!Members -> MemberState]
      BY <1>5, <2>2, Zenon DEF Proc!Listening
    <2>4. \A m \in Proc!Hosted : member[m].outbound
      BY <1>5, Zenon DEF ProcInv, OutInv, Up
    <2>5. OutInv'
      BY <1>0, <1>1, <2>1, <2>2, <2>4, TurnHosted, Zenon DEF OutInv, Proc!Hosted
    <2>6. proc'.pc \in Starting \cup {"start"}
      BY <2>1, Zenon
    <2> QED
      BY <1>0, <1>1, <1>5, <2>1, <2>2, <2>3, <2>5, <2>6, StartingStep, Zenon
  <1> QED
    BY <1>3, <1>4, <1>5, Zenon DEF Proc!Open, Proc!PoolsReady, Proc!Wait

\* Build, and a member that cannot be built.
LEMMA BuildStep ==
  ASSUME ProcInv, Proc!Build
  PROVE  ProcInv'
  <1>0. ProcType /\ proc \in ProcState /\ proc.next \in DOMAIN scenario.order /\ member \in [Proc!Members -> MemberState]
    BY Zenon DEF ProcInv, ProcType
  <1>1. proc.pc = "build" /\ proc.pc \in Starting /\ UNCHANGED <<scenario, routed, deadline>>
    BY Zenon DEF Proc!Build, Starting
  <1>2. CASE Proc!Exit(1)
    BY <1>1, <1>2, ExitStep, SMTT(30)
  <1>3. CASE /\ member' = [member EXCEPT ![Proc!Turn] = [@ EXCEPT !.state = "starting", !.outbound = TRUE,
                                                                  !.listening = Proc!Shell]]
             /\ Proc!Then("ready") /\ UNCHANGED inflight
    <2> DEFINE t == Proc!Turn
               e == [member[t] EXCEPT !.state = "starting", !.outbound = TRUE, !.listening = Proc!Shell]
    <2>1. t \in Proc!Members /\ t \in Proc!Hosted /\ member[t] \in MemberState /\ t = scenario.order[proc.next]
      BY <1>0, TurnHosted, Zenon DEF Proc!Turn
    <2>2. member' = [member EXCEPT ![t] = e]
      BY <1>3, Zenon
    <2>3. Is(e, "starting", Proc!Shell, member[t].parts, member[t].hand, TRUE, member[t].stopped)
      <3>1. Proc!Shell \in BOOLEAN BY Zenon DEF Proc!Shell
      <3> QED
        BY <2>1, <3>1, Edits, Zenon
    <2> HIDE DEF t, e
    <2>4. /\ member' \in [Proc!Members -> MemberState]
          /\ member'[t] = e /\ \A n \in Proc!Members \ {t} : member'[n] = member[n]
      BY <1>0, <2>1, <2>2, <2>3, OneMember, Zenon DEF Is
    <2>5. \A m \in Proc!Members :
            /\ member'[m].state = "ready" => member[m].state = "ready"
            /\ member'[m].parts = member[m].parts /\ member'[m].hand = member[m].hand
            /\ member[m].outbound \/ m = t => member'[m].outbound
            /\ member'[m].stopped = member[m].stopped
      <3> SUFFICES ASSUME NEW m \in Proc!Members
                   PROVE  /\ member'[m].state = "ready" => member[m].state = "ready"
                          /\ member'[m].parts = member[m].parts /\ member'[m].hand = member[m].hand
                          /\ member[m].outbound \/ m = t => member'[m].outbound
                          /\ member'[m].stopped = member[m].stopped
        BY Zenon
      <3>1. CASE m = t
        BY <2>3, <2>4, <3>1, Zenon DEF Is
      <3>2. CASE m # t
        BY <2>4, <3>2, Zenon
      <3> QED
        BY <3>1, <3>2, Zenon
    <2>6. /\ proc' \in ProcState /\ proc'.next \in DOMAIN scenario.order
          /\ proc'.code = proc.code /\ proc'.bg = proc.bg
          /\ \/ proc'.pc = "build" /\ proc'.next = proc.next + 1
             \/ proc'.pc = "ready" /\ \A n \in DOMAIN scenario.order : n = proc.next \/ n < proc.next
      BY <1>0, <1>1, <1>3, ThenNext, Zenon
    <2>7. \A n \in DOMAIN scenario.order : n = proc.next \/ n < proc.next => member'[scenario.order[n]].outbound
      <3>1. \A n \in DOMAIN scenario.order : n < proc.next => member[scenario.order[n]].outbound
        BY <1>1, Zenon DEF ProcInv, OutInv
      <3> QED
        BY <1>0, <2>1, <2>5, <3>1, TurnHosted, Zenon
    <2>8. OutInv'
      <3>1. CASE proc'.pc = "build" /\ proc'.next = proc.next + 1
        <4>1. \A n \in DOMAIN scenario.order : n < proc'.next => n = proc.next \/ n < proc.next
          BY <1>0, <3>1, SMTT(30) DEF ProcType, Proc!Scenario
        <4> QED
          BY <1>1, <2>7, <3>1, <4>1, Zenon DEF OutInv, Up
      <3>2. CASE proc'.pc = "ready" /\ \A n \in DOMAIN scenario.order : n = proc.next \/ n < proc.next
        <4>1. \A m \in Proc!Hosted : \E n \in DOMAIN scenario.order : m = scenario.order[n]
          BY Zenon DEF Proc!Hosted, Proc!Range
        <4>2. \A m \in Proc!Hosted : member'[m].outbound
          BY <2>7, <3>2, <4>1, Zenon
        <4> QED
          BY <1>1, <3>2, <4>2, Zenon DEF OutInv, Up, Proc!Hosted
      <3> QED
        BY <2>6, <3>1, <3>2, Zenon
    <2>9. proc'.pc \in Starting \cup {"start"}
      BY <2>6, Zenon DEF Starting
    <2> QED
      BY <1>1, <1>3, <2>4, <2>5, <2>6, <2>8, <2>9, StartingStep, Zenon
  <1> QED
    BY <1>2, <1>3, Zenon DEF Proc!Build

\* A step from the start to the drain: what runs has its member's connections and the background context.
LEMMA RunningStep ==
  ASSUME ProcInv, proc.pc \in {"start", "serving", "draining"}, UNCHANGED <<scenario, inflight, routed, deadline>>,
         proc' \in ProcState, proc'.next \in DOMAIN scenario.order, proc'.pc \in {"start", "serving", "draining"},
         proc'.code = proc.code, proc'.bg = proc.bg \/ (proc.bg # "cancelled" /\ proc'.bg = "on"),
         member' \in [Proc!Members -> MemberState],
         \A m \in Proc!Members :
             /\ member'[m].listening = member[m].listening /\ member'[m].hand = member[m].hand
             /\ member'[m].outbound = member[m].outbound /\ member'[m].stopped = member[m].stopped
             /\ member'[m].state = "ready" => member[m].state = "ready" \/ (m \in Proc!Hosted /\ proc'.bg # "none")
             /\ member'[m].parts # {} => member[m].parts # {} \/ (m \in Proc!Hosted /\ proc'.bg # "none")
  PROVE  ProcInv'
  <1>1. /\ proc.pc \notin {"stop", "exited"} /\ proc.pc \in Up
        /\ proc'.pc \notin {"shutdown", "stop", "exited", "open", "build"} /\ proc'.pc \notin Starting
    BY Zenon DEF Starting, Up
  <1>2. proc.bg # "cancelled" /\ proc'.bg # "cancelled" /\ (proc.bg # "none" => proc'.bg = proc.bg)
    <2>1. proc.bg # "cancelled"
      BY <1>1, Zenon DEF ProcInv, DownInv
    <2>2. proc.bg \in {"none", "on", "cancelled"}
      BY Zenon DEF ProcInv, ProcType, ProcState
    <2> QED
      BY <2>1, <2>2, Zenon
  <1>3. ProcType'
    BY ProcTypeStep, Zenon DEF ProcInv, ProcType
  <1>4. \A m \in Proc!Hosted : m \in Proc!Members /\ member[m].outbound /\ ~member[m].stopped
    <2>1. ProcType BY Zenon DEF ProcInv
    <2> QED
      BY <1>1, <2>1, TurnHosted, Zenon DEF ProcInv, OutInv, DownInv
  <1>5. StartInv'
    <2>1. \A m \in Proc!Members : member'[m].state = "ready" => proc'.bg # "none" /\ m \in Proc!Hosted
      BY <1>2, Zenon DEF ProcInv, StartInv
    <2>2. \A m \in Proc!Members : (member'[m].parts # {} \/ member'[m].hand # {}) => proc'.bg # "none" /\ m \in Proc!Hosted
      BY <1>2, Zenon DEF ProcInv, StartInv
    <2>3. \A m \in Proc!Members : m \in routed' => proc'.bg # "none" /\ m \in Proc!Hosted
      BY <1>2, Zenon DEF ProcInv, StartInv
    <2> QED
      BY <1>1, <2>1, <2>2, <2>3, Zenon DEF StartInv, Proc!Hosted
  <1>6. OutInv'
    BY <1>1, <1>4, Zenon DEF OutInv, Proc!Hosted
  <1>7. UseInv'
    BY <1>4, Zenon DEF ProcInv, UseInv
  <1>8. DownInv'
    BY <1>1, <1>2, Zenon DEF ProcInv, DownInv
  <1>9. CodeInv'
    BY <1>1, Zenon DEF ProcInv, CodeInv
  <1>10. Proc!RoutedIsListening'
    BY <1>1, Zenon DEF ProcInv, ProcType, Proc!RoutedIsListening
  <1>11. Proc!RequestsKeepTheirMember'
    BY <1>2, Zenon DEF ProcInv, ProcType, Proc!Scenario, Proc!RequestsKeepTheirMember
  <1>12. Proc!CleanExit'
    BY <1>1, Zenon DEF Proc!CleanExit
  <1> QED
    BY <1>3, <1>5, <1>6, <1>7, <1>8, <1>9, <1>10, <1>11, <1>12, Zenon DEF ProcInv

\* Start and MarkReady.
LEMMA StartStep ==
  ASSUME ProcInv, Proc!Start \/ Proc!MarkReady
  PROVE  ProcInv'
  <1>0. ProcType /\ proc \in ProcState /\ proc.next \in DOMAIN scenario.order /\ member \in [Proc!Members -> MemberState]
    BY Zenon DEF ProcInv, ProcType
  <1> DEFINE t == Proc!Turn
             set == {"events", "jobs", "loops", "holder", "submitting"}
  <1>1. t \in Proc!Members /\ t \in Proc!Hosted /\ member[t] \in MemberState
    BY <1>0, TurnHosted, Zenon
  <1>2. proc.pc = "start" /\ UNCHANGED <<scenario, routed, deadline>>
    BY Zenon DEF Proc!Start, Proc!MarkReady
  <1>3. proc.bg # "cancelled"
    BY <1>2, Zenon DEF ProcInv, DownInv
  <1> HIDE DEF t
  <1>4. CASE Proc!Exit(1)
    BY <1>2, <1>4, ExitStep, SMTT(30)
  <1>5. ASSUME NEW parts \in SUBSET set, member' = [member EXCEPT ![t].parts = parts],
               proc' = [proc EXCEPT !.bg = "on"], UNCHANGED inflight
        PROVE  ProcInv'
    <2> DEFINE e == [member[t] EXCEPT !.parts = parts]
    <2>1. member' = [member EXCEPT ![t] = e]
      BY <1>5, Zenon
    <2>2. Is(e, member[t].state, member[t].listening, parts, member[t].hand, member[t].outbound, member[t].stopped)
      BY <1>1, Edits, Zenon
    <2> HIDE DEF e
    <2>3. /\ member' \in [Proc!Members -> MemberState]
          /\ member'[t] = e /\ \A n \in Proc!Members \ {t} : member'[n] = member[n]
      BY <1>0, <1>1, <2>1, <2>2, OneMember, Zenon DEF Is
    <2>4. proc' \in ProcState /\ proc'.next = proc.next /\ proc'.pc = "start" /\ proc'.code = proc.code /\ proc'.bg = "on"
      BY <1>0, <1>2, <1>5, Zenon DEF ProcState
    <2>5. \A m \in Proc!Members :
               /\ member'[m].listening = member[m].listening /\ member'[m].hand = member[m].hand
               /\ member'[m].outbound = member[m].outbound /\ member'[m].stopped = member[m].stopped
               /\ member'[m].state = member[m].state
               /\ member'[m].parts # {} => member[m].parts # {} \/ m = t
      <3>1. \A m \in Proc!Members \ {t} : member'[m] = member[m]
        BY <2>3, Zenon
      <3> QED
        BY <2>2, <2>3, <3>1, Zenon DEF Is
    <2> QED
      BY <1>0, <1>1, <1>2, <1>3, <1>5, <2>3, <2>4, <2>5, RunningStep, Zenon
  <1>6. CASE Proc!MarkReady
    <2> DEFINE e == [member[t] EXCEPT !.state = "ready"]
    <2>1. member' = [member EXCEPT ![t] = e] /\ member[t].parts # {} /\ UNCHANGED inflight
      BY <1>6, Zenon DEF Proc!MarkReady, t
    <2>2. Is(e, "ready", member[t].listening, member[t].parts, member[t].hand, member[t].outbound, member[t].stopped)
      BY <1>1, Edits, Zenon
    <2> HIDE DEF e
    <2>3. /\ member' \in [Proc!Members -> MemberState]
          /\ member'[t] = e /\ \A n \in Proc!Members \ {t} : member'[n] = member[n]
      BY <1>0, <1>1, <2>1, <2>2, OneMember, Zenon DEF Is
    <2>4. /\ proc' \in ProcState /\ proc'.next \in DOMAIN scenario.order /\ proc'.pc \in {"start", "serving"}
          /\ proc'.code = proc.code /\ proc'.bg = proc.bg
      BY <1>0, <1>2, <1>6, ThenNext, Zenon DEF Proc!MarkReady
    <2>5. proc.bg # "none"
      BY <1>1, <2>1, Zenon DEF ProcInv, StartInv
    <2>6. \A m \in Proc!Members :
               /\ member'[m].listening = member[m].listening /\ member'[m].hand = member[m].hand
               /\ member'[m].outbound = member[m].outbound /\ member'[m].stopped = member[m].stopped
               /\ member'[m].state = "ready" => member[m].state = "ready" \/ m = t
               /\ member'[m].parts = member[m].parts
      <3>1. \A m \in Proc!Members \ {t} : member'[m] = member[m]
        BY <2>3, Zenon
      <3> QED
        BY <2>2, <2>3, <3>1, Zenon DEF Is
    <2> QED
      BY <1>0, <1>1, <1>2, <2>1, <2>3, <2>4, <2>5, <2>6, RunningStep, Zenon
  <1>7. CASE Proc!Start
    <2>1. Proc!Parts(scenario.phase) \cup {"holder"} \in SUBSET set /\ Proc!Parts(scenario.phase) \cup {"submitting"} \in SUBSET set
      BY Zenon DEF Proc!Parts
    <2> HIDE DEF set
    <2> QED
      BY <1>4, <1>5, <1>7, <2>1, Zenon DEF Proc!Start, t
  <1> QED
    BY <1>6, <1>7, Zenon

\* The stop begins: no member is ready any more.
LEMMA StopAllStep ==
  ASSUME ProcInv, Proc!StopAll
  PROVE  ProcInv'
  <1>0. ProcType /\ proc \in ProcState /\ proc.next \in DOMAIN scenario.order /\ member \in [Proc!Members -> MemberState]
    BY Zenon DEF ProcInv, ProcType
  <1>1. /\ proc.pc = "serving" /\ UNCHANGED <<scenario, inflight, routed, deadline>> /\ Proc!Go("draining")
        /\ member' = [m \in Proc!Members |-> IF m \in Proc!Hosted THEN [member[m] EXCEPT !.state = "stopping"] ELSE member[m]]
    BY Zenon DEF Proc!StopAll
  <1>2. proc' \in ProcState /\ proc'.pc = "draining" /\ proc'.next = proc.next /\ proc'.code = proc.code /\ proc'.bg = proc.bg
    BY <1>0, <1>1, Zenon DEF Proc!Go, ProcState, Up
  <1>3. \A m \in Proc!Members :
          /\ member'[m] \in MemberState
          /\ member'[m].listening = member[m].listening /\ member'[m].hand = member[m].hand
          /\ member'[m].outbound = member[m].outbound /\ member'[m].stopped = member[m].stopped
          /\ member'[m].state = "ready" => member[m].state = "ready"
          /\ member'[m].parts = member[m].parts
    <2> SUFFICES ASSUME NEW m \in Proc!Members
                 PROVE  /\ member'[m] \in MemberState
                        /\ member'[m].listening = member[m].listening /\ member'[m].hand = member[m].hand
                        /\ member'[m].outbound = member[m].outbound /\ member'[m].stopped = member[m].stopped
                        /\ member'[m].state = "ready" => member[m].state = "ready"
                        /\ member'[m].parts = member[m].parts
      BY Zenon
    <2>1. member'[m] = IF m \in Proc!Hosted THEN [member[m] EXCEPT !.state = "stopping"] ELSE member[m]
      BY <1>1, Zenon
    <2>2. member[m] \in MemberState
      BY <1>0, Zenon
    <2>3. Is([member[m] EXCEPT !.state = "stopping"], "stopping", member[m].listening, member[m].parts, member[m].hand,
             member[m].outbound, member[m].stopped)
      BY <2>2, Edits, Zenon
    <2> QED
      BY <2>1, <2>2, <2>3, Zenon DEF Is
  <1>4. member' \in [Proc!Members -> MemberState]
    BY <1>1, <1>3, Zenon
  <1> QED
    BY <1>0, <1>1, <1>2, <1>3, <1>4, RunningStep, Zenon

\* The drain has passed: the servers stop accepting.
LEMMA DrainStep ==
  ASSUME ProcInv, Proc!DrainPasses
  PROVE  ProcInv'
  <1>0. ProcType /\ proc \in ProcState /\ proc.next \in DOMAIN scenario.order /\ member \in [Proc!Members -> MemberState]
    BY Zenon DEF ProcInv, ProcType
  <1>1. /\ proc.pc = "draining" /\ (routed = {} \/ deadline) /\ UNCHANGED <<scenario, inflight, routed, deadline>>
        /\ Proc!Go("shutdown") /\ member' = Proc!Closed
    BY Zenon DEF Proc!DrainPasses
  <1>2. proc' \in ProcState /\ ProcBecomes("shutdown", proc.code, proc.bg) /\ proc'.next = proc.next
    BY <1>0, <1>1, Zenon DEF Proc!Go, ProcState, Up, ProcBecomes
  <1>3. \A m \in Proc!Members : Is(member'[m], member[m].state, FALSE, member[m].parts, member[m].hand,
                                   member[m].outbound, member[m].stopped)
    BY <1>0, <1>1, Edits, Zenon DEF Proc!Closed
  <1>4. ProcType'
    <2>1. member' \in [Proc!Members -> MemberState]
      BY <1>1, <1>3, Zenon DEF Is, Proc!Closed
    <2> QED
      BY <1>0, <1>1, <1>2, <2>1, ProcTypeStep, Zenon DEF ProcType
  <1>5. StartInv'
    BY <1>1, <1>2, <1>3, Zenon DEF ProcInv, StartInv, ProcBecomes, Is, Starting, Proc!Hosted
  <1>6. OutInv' /\ UseInv'
    <2>1. \A m \in Proc!Hosted : m \in Proc!Members /\ member[m].outbound
      BY <1>0, <1>1, TurnHosted, Zenon DEF ProcInv, OutInv, Up
    <2> QED
      BY <1>1, <1>2, <1>3, <2>1, Zenon DEF ProcInv, OutInv, UseInv, ProcBecomes, Is, Proc!Hosted
  <1>7. DownInv'
    BY <1>1, <1>2, <1>3, Zenon DEF ProcInv, DownInv, ProcBecomes, Is
  <1>8. CodeInv'
    BY <1>1, <1>2, Zenon DEF ProcInv, CodeInv, ProcBecomes
  <1>9. Proc!RoutedIsListening' /\ Proc!CleanExit'
    BY <1>1, <1>2, Zenon DEF ProcBecomes, Proc!RoutedIsListening, Proc!CleanExit
  <1>10. Proc!RequestsKeepTheirMember'
    BY <1>0, <1>1, <1>2, <1>3, Zenon DEF ProcInv, ProcType, Proc!Scenario, Proc!RequestsKeepTheirMember, ProcBecomes, Is
  <1> QED
    BY <1>4, <1>5, <1>6, <1>7, <1>8, <1>9, <1>10, Zenon DEF ProcInv

\* The servers are down and the background context ends.
LEMMA ServersDownStep ==
  ASSUME ProcInv, Proc!ServersDown
  PROVE  ProcInv'
  <1>0. /\ ProcType /\ proc \in ProcState /\ proc.next \in DOMAIN scenario.order
        /\ member \in [Proc!Members -> MemberState] /\ inflight \in [Requests -> Answers]
    BY Zenon DEF ProcInv, ProcType
  <1>1. /\ proc.pc = "shutdown" /\ UNCHANGED <<scenario, member, routed, deadline>>
        /\ (\A r \in Requests : inflight[r] # "running") \/ deadline
    BY Zenon DEF Proc!ServersDown, Proc!Left
  <1>2. /\ proc' \in ProcState /\ proc'.pc = "stop" /\ proc'.bg = "cancelled" /\ proc'.next = proc.next
        /\ (proc'.code = 0 => \A r \in Requests : inflight[r] # "running")
    <2>1. proc' = [proc EXCEPT !.pc = "stop", !.bg = "cancelled", !.code = IF Proc!Left = {} THEN proc.code ELSE 1]
      BY Zenon DEF Proc!ServersDown
    <2>2. /\ proc' \in ProcState /\ proc'.pc = "stop" /\ proc'.bg = "cancelled" /\ proc'.next = proc.next
          /\ proc'.code = IF Proc!Left = {} THEN proc.code ELSE 1
      BY <1>0, <2>1, Zenon DEF ProcState
    <2>3. Proc!Left = {} => \A r \in Requests : inflight[r] # "running"
      BY Zenon DEF Proc!Left
    <2> QED
      BY <2>2, <2>3, SMTT(30)
  <1>3. /\ inflight' \in [Requests -> Answers]
        /\ \A r \in Requests : /\ inflight'[r] = "running" => inflight[r] = "running"
                               /\ inflight'[r] = "cut" => inflight[r] \in {"running", "cut"}
    BY <1>0, Zenon DEF Proc!ServersDown, Proc!Cut, Answers
  <1>4. \A r \in Requests : inflight[r] # "cut"
    BY <1>1, Zenon DEF ProcInv, CodeInv
  <1>5. ProcType'
    BY <1>0, <1>1, <1>2, <1>3, ProcTypeStep, Zenon DEF ProcType
  <1>6. StartInv'
    BY <1>1, <1>2, Zenon DEF ProcInv, StartInv, Starting, Proc!Hosted
  <1>7. OutInv' /\ UseInv'
    BY <1>1, <1>2, Zenon DEF ProcInv, OutInv, UseInv, Up
  <1>8. DownInv'
    BY <1>1, <1>2, Zenon DEF ProcInv, DownInv
  <1>9. CodeInv'
    BY <1>2, <1>3, <1>4, Zenon DEF CodeInv
  <1>10. Proc!RoutedIsListening' /\ Proc!CleanExit'
    BY <1>1, <1>2, Zenon DEF ProcInv, Proc!RoutedIsListening, Proc!CleanExit
  <1>11. Proc!RequestsKeepTheirMember'
    BY <1>1, <1>3, Zenon DEF Proc!RequestsKeepTheirMember
  <1> QED
    BY <1>5, <1>6, <1>7, <1>8, <1>9, <1>10, <1>11, Zenon DEF ProcInv

\* A member is stopped: what it had in hand is gone, and then its connections.
LEMMA StopMemberStep ==
  ASSUME ProcInv, NEW m \in Proc!Members, Proc!StopMember(m)
  PROVE  ProcInv'
  <1>0. ProcType /\ proc \in ProcState /\ proc.next \in DOMAIN scenario.order /\ member \in [Proc!Members -> MemberState]
    BY Zenon DEF ProcInv, ProcType
  <1>1. /\ proc.pc = "stop" /\ UNCHANGED <<scenario, inflight, routed, deadline>> /\ member[m].hand = {}
        /\ member' = Proc!Released(m)
    BY Zenon DEF Proc!StopMember
  <1>2. proc' \in ProcState /\ proc'.pc = "stop" /\ proc'.bg = proc.bg /\ proc'.next = proc.next /\ proc'.code \in {proc.code, 1}
    BY <1>0, <1>1, Zenon DEF Proc!StopMember, ProcState
  <1> DEFINE e == [member[m] EXCEPT !.stopped = TRUE, !.parts = {}, !.outbound = FALSE]
  <1>3. member' = [member EXCEPT ![m] = e] /\ member[m] \in MemberState
    BY <1>0, <1>1, Zenon DEF Proc!Released
  <1>4. Is(e, member[m].state, member[m].listening, {}, member[m].hand, FALSE, TRUE)
    BY <1>3, Edits, Zenon
  <1> HIDE DEF e
  <1>5. /\ member' \in [Proc!Members -> MemberState]
        /\ member'[m] = e /\ \A n \in Proc!Members \ {m} : member'[n] = member[n]
    BY <1>0, <1>3, <1>4, OneMember, Zenon DEF Is
  <1>6. \A n \in Proc!Members :
          /\ member'[n].state = member[n].state /\ member'[n].listening = member[n].listening
          /\ member'[n] = member[n] \/ (n = m /\ member'[n].parts = {} /\ member'[n].hand = {})
    BY <1>1, <1>4, <1>5, Zenon DEF Is
  <1>7. ProcType'
    BY <1>0, <1>1, <1>2, <1>5, ProcTypeStep, Zenon DEF ProcType
  <1>8. StartInv'
    BY <1>1, <1>2, <1>6, Zenon DEF ProcInv, StartInv, Starting, Proc!Hosted
  <1>9. OutInv'
    BY <1>2, Zenon DEF OutInv, Up
  <1>10. UseInv'
    BY <1>6, Zenon DEF ProcInv, UseInv
  <1>11. DownInv'
    BY <1>1, <1>2, <1>6, Zenon DEF ProcInv, DownInv
  <1>12. CodeInv'
    BY <1>1, <1>2, SMTT(30) DEF ProcInv, CodeInv
  <1>13. Proc!RoutedIsListening'
    BY <1>0, <1>1, <1>2, <1>6, Zenon DEF ProcInv, ProcType, Proc!RoutedIsListening
  <1>14. Proc!CleanExit'
    BY <1>2, Zenon DEF Proc!CleanExit
  <1>15. Proc!RequestsKeepTheirMember'
    <2>1. proc.bg = "cancelled"
      BY <1>1, Zenon DEF ProcInv, DownInv
    <2> QED
      BY <1>1, <2>1, Zenon DEF ProcInv, Proc!RequestsKeepTheirMember
  <1> QED
    BY <1>7, <1>8, <1>9, <1>10, <1>11, <1>12, <1>13, <1>14, <1>15, Zenon DEF ProcInv

\* The process has stopped.
LEMMA StoppedStep ==
  ASSUME ProcInv, Proc!Stopped \/ Proc!ServeFails
  PROVE  ProcInv'
  <1>0. proc \in ProcState /\ UNCHANGED <<scenario, routed, deadline>>
    BY Zenon DEF ProcInv, ProcType, Proc!Stopped, Proc!ServeFails
  <1>1. CASE Proc!ServeFails
    BY <1>0, <1>1, ExitStep, SMTT(30) DEF Proc!ServeFails
  <1>2. CASE Proc!Stopped
    <2>1. proc.pc = "stop" /\ Proc!Exit(proc.code) /\ \A m \in Proc!Hosted : member[m].stopped
      BY <1>2, Zenon DEF Proc!Stopped
    <2>2. proc.code \in {0, 1, 78}
      BY <1>0, Zenon DEF ProcState
    <2>3. proc.code = 0 => \A r \in Requests : inflight[r] \notin {"running", "cut"}
      BY <2>1, Zenon DEF ProcInv, CodeInv
    <2>4. \A m \in Proc!Members : member[m].hand = {}
      BY <2>1, Zenon DEF ProcInv, StartInv, UseInv
    <2> QED
      BY <1>0, <2>1, <2>2, <2>3, <2>4, ExitStep, Zenon
  <1> QED
    BY <1>1, <1>2, Zenon

\* The stop signal.
LEMMA SignalStep ==
  ASSUME ProcInv, Proc!Signal
  PROVE  ProcInv'
  <1>1. proc \in ProcState /\ UNCHANGED <<scenario, member, inflight, routed, deadline>>
        /\ proc' = [proc EXCEPT !.signal = TRUE]
    BY Zenon DEF ProcInv, ProcType, Proc!Signal
  <1>2. proc' \in ProcState /\ proc'.pc = proc.pc /\ proc'.next = proc.next /\ proc'.code = proc.code /\ proc'.bg = proc.bg
    BY <1>1, Zenon DEF ProcState
  <1>3. ProcType'
    BY <1>1, <1>2, Zenon DEF ProcInv, ProcType
  <1>4. StartInv' /\ OutInv'
    BY <1>1, <1>2, Zenon DEF ProcInv, StartInv, OutInv, Proc!Hosted
  <1>5. UseInv' /\ DownInv' /\ CodeInv'
    BY <1>1, <1>2, Zenon DEF ProcInv, UseInv, DownInv, CodeInv
  <1>6. Proc!RoutedIsListening' /\ Proc!RequestsKeepTheirMember' /\ Proc!CleanExit'
    BY <1>1, <1>2, Zenon DEF ProcInv, Proc!RoutedIsListening, Proc!RequestsKeepTheirMember, Proc!CleanExit
  <1> QED
    BY <1>3, <1>4, <1>5, <1>6, Zenon DEF ProcInv

\* A process as it begins: nothing built, nothing asked.
LEMMA InitProc ==
  ASSUME Proc!ProcessConstants, Proc!Init
  PROVE  ProcInv
  <1>1. /\ Proc!Scenario(scenario) /\ proc = Proc!Fresh /\ routed = {} /\ deadline = FALSE
        /\ inflight = [r \in Requests |-> "none"] /\ member = [m \in Proc!Members |-> Proc!NotBuilt]
    BY Zenon DEF Proc!ProcessConstants, Proc!Init
  <1>2. proc \in ProcState /\ proc.pc = "open" /\ proc.next = 1 /\ proc.code = 0 /\ proc.bg = "none"
    BY <1>1, Zenon DEF Proc!Fresh, ProcState, Starting
  <1>3. Is(Proc!NotBuilt, "none", FALSE, {}, {}, FALSE, FALSE)
    BY Zenon DEF Proc!NotBuilt, MemberState, Is
  <1>4. \A m \in Proc!Members : Is(member[m], "none", FALSE, {}, {}, FALSE, FALSE)
    BY <1>1, <1>3, Zenon
  <1>5. ProcType
    <2>1. proc.next \in DOMAIN scenario.order
      BY <1>1, <1>2, SMTT(30) DEF Proc!Scenario
    <2>2. member \in [Proc!Members -> MemberState] /\ inflight \in [Requests -> Answers]
      BY <1>1, <1>3, Zenon DEF Answers, Is
    <2> QED
      BY <1>1, <1>2, <2>1, <2>2, Zenon DEF ProcType
  <1>6. StartInv /\ UseInv /\ DownInv
    BY <1>1, <1>2, <1>4, Zenon DEF StartInv, UseInv, DownInv, Is
  <1>7. OutInv
    BY <1>2, Zenon DEF OutInv, Up
  <1>8. CodeInv /\ Proc!RoutedIsListening /\ Proc!RequestsKeepTheirMember /\ Proc!CleanExit
    BY <1>1, <1>2, Zenon DEF CodeInv, Proc!RoutedIsListening, Proc!RequestsKeepTheirMember, Proc!CleanExit
  <1> QED
    BY <1>5, <1>6, <1>7, <1>8, Zenon DEF ProcInv

\* The inductive invariant of a process (launcher/serve.go, shell/shell.go, internal/host): what has been started has
\* been built, what runs has its connections, the servers are down before the background ends, and the exit code
\* tells of what was cut.
THEOREM ProcessInductive == Proc!ProcessConstants /\ Proc!Spec => []ProcInv
  <1>1. Proc!ProcessConstants /\ Proc!Init => ProcInv
    BY InitProc, Zenon
  <1>2. ProcInv /\ [Proc!Next]_(Proc!pvars) => ProcInv'
    <2> SUFFICES ASSUME ProcInv, [Proc!Next]_(Proc!pvars)
                 PROVE  ProcInv'
      BY Zenon
    <2>1. CASE UNCHANGED Proc!pvars
      <3>1. UNCHANGED <<scenario, proc, member, inflight, routed, deadline>>
        BY <2>1, Zenon DEF Proc!pvars
      <3> QED
        BY <3>1, Zenon DEF ProcInv, ProcType, StartInv, OutInv, UseInv, DownInv, CodeInv, Proc!Hosted,
                                 Proc!RoutedIsListening, Proc!RequestsKeepTheirMember, Proc!CleanExit
    <2>2. CASE Proc!Main
      BY <2>2, WaitStep, BuildStep, StartStep, StopAllStep, DrainStep, ServersDownStep, StoppedStep, Zenon DEF Proc!Main
    <2>3. CASE \E m \in Proc!Members, what \in {"jobs", "events"} :
                 Proc!submitUntilAccepted(m) \/ Proc!StopSubs(m) \/ Proc!Take(m, what) \/ Proc!Give(m, what)
      BY <2>3, BackgroundStep, Zenon
    <2>4. CASE Proc!Deadline
      <3>1. UNCHANGED <<scenario, proc, member>>
        BY <2>4, Zenon DEF Proc!Deadline
      <3> QED
        BY <2>4, <3>1, ServeStep, Zenon
    <2>5. CASE \E m \in Proc!Members : Proc!Probe(m)
      <3>1. UNCHANGED <<scenario, proc, member>>
        BY <2>5, Zenon DEF Proc!Probe
      <3> QED
        BY <2>5, <3>1, ServeStep, Zenon
    <2>6. CASE \E r \in Requests : Proc!Arrive(r) \/ Proc!Answer(r)
      <3>1. UNCHANGED <<scenario, proc, member>>
        BY <2>6, Zenon DEF Proc!Arrive, Proc!Answer
      <3> QED
        BY <2>6, <3>1, ServeStep, Zenon
    <2>7. CASE Proc!ServeFails \/ Proc!Signal
      BY <2>7, StoppedStep, SignalStep, Zenon
    <2>8. CASE \E m \in Proc!Members : Proc!StopMember(m)
      BY <2>8, StopMemberStep, Zenon
    <2>9. "jobs" \in {"jobs", "events"}
      BY Zenon
    <2> QED
      BY <2>1, <2>2, <2>3, <2>4, <2>5, <2>6, <2>7, <2>8, <2>9, Zenon DEF Proc!Next
  <1> QED
    BY <1>1, <1>2, PTL DEF Proc!Spec

\* A process stops from the outside in (StopAll, Member.Stop): what is routed to listens, a request in progress keeps
\* what it uses until the stop timeout, a handler ends with its connections open, and a process that exits with 0 cut
\* nothing; for any members' order, requests and failures.
THEOREM ProcessStopsInOrder == Proc!ProcessConstants /\ Proc!Spec => []Proc!StopsInOrder
  <1>1. ProcInv => Proc!StopsInOrder
    BY Zenon DEF ProcInv, UseInv, Proc!StopsInOrder, Proc!HandlersKeepTheirConnections
  <1> QED
    BY <1>1, ProcessInductive, PTL
=============================================================================
