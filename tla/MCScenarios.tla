---------------------------- MODULE MCScenarios ----------------------------
(***************************************************************************)
(* The scenarios of fourteen components for TLC.  A scenario says what     *)
(* happens in a behaviour and how often: the calls that come, the messages *)
(* lost, the crashes, the failovers.  The safety run looks at the Safety   *)
(* scenarios of every component, the liveness run at the Liveness ones.    *)
(* Those of the tiers, the projections and the lists are in MCTiering,     *)
(* MCView and MCLists.                                                     *)
(***************************************************************************)
EXTENDS Integers, TLC

CONSTANTS Callers, Requests, Asking, Verifying

\* The redelivery after a recovery.
RedelCases == LET
    Zero == [k \in {"publish", "purge", "producer", "dead", "fail", "stop", "backup", "back"} |-> 0]
    Of(b) == [subs |-> {"x"}, time |-> 3, atOnce |-> 2, restarts |-> TRUE, prompt |-> TRUE, address |-> TRUE,
              budget |-> b @@ Zero]
    Once == [publish |-> 2, backup |-> 1, back |-> 1]
    \* The consumer's database goes back once, between its producer's messages ...
    Plain == Of([publish |-> 3, backup |-> 1, back |-> 1])
    \* ... while the producer does not answer, the process stops, the producer purges, or itself goes back,
    Failing == [Of([fail |-> 1, dead |-> 1] @@ Once) EXCEPT !.time = 2]
    Stopping == [Of([stop |-> 1] @@ Once) EXCEPT !.time = 2]
    Purging == Of([purge |-> 1] @@ Once)
    Producing == Of([producer |-> 1] @@ Once)
    \* ... and with two subscriptions.
    Both == [Of([Once EXCEPT !.publish = 1]) EXCEPT !.subs = {"x", "y"}, !.time = 2, !.atOnce = 1]
    \* The member has no address for its producer.
    Unreachable == [Of([Once EXCEPT !.publish = 1]) EXCEPT !.address = FALSE, !.time = 2]
    IN [Safety |-> {Plain, Failing, Stopping, Purging, Producing, Both, Unreachable},
        Liveness |-> {[Purging EXCEPT !.budget.publish = 1], Unreachable}]

\* The outbound calls: what each caller calls, and how many attempts may fail.
CallCases == LET
    Of(a, b, c, n) == [calls |-> [x \in Callers |-> CASE x = 1 -> a [] x = 2 -> b [] OTHER -> c], faults |-> n]
    IN [Safety |-> {Of("read", "read", "none", 4), Of("read", "command", "none", 3), Of("read", "command", "background", 2)},
        Liveness |-> {Of("read", "none", "none", 3), Of("read", "read", "none", 2)}]

\* The two-phase reservations: the commands that may arrive, each as often as its number says, in any order.
HoldCases == LET
    H(b, n) == [op |-> "hold", id |-> b, content |-> n]
    Q(b) == [op |-> "query", id |-> b]
    F(b) == [op |-> "confirm", id |-> b]
    X(b) == [op |-> "cancel", id |-> b]
    U(b, c, n) == [op |-> "consume", id |-> b, consumption |-> c, amount |-> n]
    Competing == [stock |-> 3, failures |-> 1,
        commands |-> H("p", 2) :> 2 @@ H("q", 2) :> 1 @@ H("q", 1) :> 1
            @@ F("p") :> 2 @@ X("p") :> 1 @@ X("q") :> 2 @@ F("q") :> 1]
    Consuming == [stock |-> 3, failures |-> 0,
        commands |-> H("p", 2) :> 1 @@ H("q", 1) :> 1 @@ F("p") :> 1 @@ X("p") :> 1
            @@ U("p", "c", 1) :> 1 @@ U("p", "d", 1) :> 2 @@ U("p", "d", 2) :> 1 @@ U("q", "c", 1) :> 1]
    Expiring == [stock |-> 2, failures |-> 1,
        commands |-> H("p", 1) :> 1 @@ H("q", 1) :> 1 @@ F("p") :> 1 @@ X("p") :> 1 @@ Q("p") :> 1]
    IN [Safety |-> {Competing, Consuming, Expiring}, Liveness |-> {Expiring}]

\* The idempotent commands: the requests that may arrive, the connection budget, and the faults.
CmdCases == LET
    R(k, b) == [key |-> k, body |-> b]
    None == [conflict |-> 0, fail |-> 0, setting |-> 0, expire |-> 0, raise |-> 0, cutoff |-> 0, lost |-> 0]
    \* One key, repeated with its own body and with another one.
    Repeated == [keys |-> [k |-> 0], budget |-> 2, requests |-> R("k", "x") :> 3 @@ R("k", "y") :> 1,
        remaining |-> [None EXCEPT !.conflict = 1, !.lost = 1, !.expire = 1, !.fail = 1]]
    \* Two keys draw from one series of numbers.
    Numbers == [keys |-> [k |-> 0, l |-> 0], budget |-> 2, requests |-> R("k", "x") :> 2 @@ R("l", "y") :> 1,
        remaining |-> [None EXCEPT !.conflict = 1, !.lost = 1, !.raise = 1, !.cutoff = 1, !.setting = 1]]
    \* The budget holds one transaction.
    OneSlot == [keys |-> [k |-> 0, l |-> 0], budget |-> 1, requests |-> R("k", "x") :> 2 @@ R("l", "y") :> 1,
        remaining |-> [None EXCEPT !.conflict = 3, !.fail = 1]]
    IN [Safety |-> {Repeated, Numbers}, Liveness |-> {OneSlot}]

\* A rolling upgrade: a runner of the old and one of the new release, each with its newest version of the two sets.
MigrCases ==
    [Safety |-> {[from |-> 0, newest |-> [old |-> <<1, 1>>, new |-> <<1, 2>>],
                  odds |-> [lint |-> 1, fail |-> 2, crash |-> 1, again |-> 2]]},
     Liveness |-> {}]

\* The audit trail.
AuditCases == LET
    None == [write |-> 0, read |-> 0, denial |-> 0, lost |-> 0, backup |-> 0, restore |-> 0, ownBackup |-> 0,
             ownRestore |-> 0, age |-> 0, crash |-> 0, minute |-> 0]
    Of(b) == [rounds |-> {"job"}, sender |-> TRUE, refused |-> {}, chance |-> b @@ None]
    \* The audit component's database is restored, twice; the member's own; under strict reads; while two rounds run.
    Restoring == Of([write |-> 2, backup |-> 2, restore |-> 2, age |-> 1])
    Owning == Of([write |-> 3, ownBackup |-> 1, ownRestore |-> 1])
    Reading == Of([write |-> 1, read |-> 1, backup |-> 1, restore |-> 1, crash |-> 1])
    Racing == [Of([write |-> 1, backup |-> 1, restore |-> 1]) EXCEPT !.rounds = {"job", "host"}]
    \* Denials past the budget of a minute; records the audit component refuses.
    Denying == [Of([denial |-> 4, minute |-> 2, crash |-> 1]) EXCEPT !.sender = FALSE]
    Refusing == [Of([write |-> 3, lost |-> 1]) EXCEPT !.refused = {1, 2}]
    IN [Safety |-> {Restoring, Owning, Reading, Racing, Denying, Refusing},
        Liveness |-> {Of([write |-> 1, backup |-> 2, restore |-> 1, age |-> 1]), Refusing}]

\* A full recovery: what was done before the database went back, and what fails meanwhile.
RecCases == LET
    None == [issue |-> 0, change |-> 0, tighten |-> 0, widen |-> 0, rollback |-> 0, down |-> 0, backup |-> 0,
             freeze |-> 0, crash |-> 0]
    Plain == [tightens |-> {"t", "u"}, outsideSays |-> "consistent", refused |-> {}, outside |-> {}, unknown |-> {},
              ofDocument |-> {}, after |-> {}, luck |-> None]
    Of(s, b) == [s EXCEPT !.luck = b @@ None]
    \* Two tightenings, one of which may roll back, and an evidence store that is down.
    Tightening == Of(Plain, [tighten |-> 2, rollback |-> 1, down |-> 1, backup |-> 1, freeze |-> 1, crash |-> 1])
    \* Kinds of operations: outside the member, unknown to it, refused by the store.
    Kinds == Of([Plain EXCEPT !.tightens = {"u", "v"}, !.outside = {"u"}, !.unknown = {"v"}, !.refused = {"w"}],
                [tighten |-> 2, widen |-> 1, backup |-> 1, freeze |-> 1])
    \* An order of replay, and an operation on a document that may be gone.
    Ordered == Of([Plain EXCEPT !.outside = {"u"}, !.outsideSays = "inconsistent", !.ofDocument = {"t"},
                                !.after = {<<"u", "t">>}],
                  [tighten |-> 2, issue |-> 1, backup |-> 1, freeze |-> 1])
    \* Documents and their numbers, and a second recovery.
    Numbering == Of(Plain, [issue |-> 3, change |-> 2, down |-> 1, backup |-> 1, freeze |-> 1])
    Twice == Of(Plain, [issue |-> 2, tighten |-> 1, backup |-> 1, freeze |-> 2])
    IN [Safety |-> {Tightening, Kinds, Ordered, Numbering, Twice},
        Liveness |-> {Of(Plain, [issue |-> 1, tighten |-> 1, backup |-> 1, freeze |-> 1, crash |-> 1])}]

\* A process and its members.
ProcCases == LET
    None == [refused |-> 0, build |-> 0, submit |-> 0, start |-> 0, serve |-> 0, module |-> 0]
    Asks(m, s, rd) == [member |-> m, surface |-> s, read |-> rd]
    \* A member of its own, and two in a shell.
    Alone == [kind |-> "alone", order |-> <<"a">>, phase |-> "", stops |-> TRUE,
              requests |-> [r \in Requests |-> Asks("a", IF r = 1 THEN "http" ELSE "grpc", FALSE)],
              mishaps |-> [None EXCEPT !.submit = 1, !.serve = 1, !.module = 1, !.refused = 1]]
    Shelled == [Alone EXCEPT !.kind = "shell", !.order = <<"a", "b">>,
                             !.requests = [r \in Requests |-> Asks(IF r = 1 THEN "a" ELSE "b", "http", FALSE)],
                             !.mishaps = [None EXCEPT !.build = 1, !.start = 1, !.submit = 1]]
    \* Started in a phase of a recovery.
    In(p) == [Alone EXCEPT !.phase = p, !.mishaps = None]
    ReadOnly == [In("read_only") EXCEPT !.requests = [r \in Requests |-> Asks("a", "http", r = 1)]]
    IN [Safety |-> {Alone, Shelled, In("frozen"), In("verifying"), ReadOnly},
        \* Its definitions are refused twice.
        Liveness |-> {[Alone EXCEPT !.mishaps = [None EXCEPT !.submit = 2]]}]

\* The authorization view: one write of each kind against what the authority and the machine may do.
AccCases == LET
    None == [revoke |-> 0, grant |-> 0, raise |-> 0, stale |-> 0, recover |-> 0, suspend |-> 0, lag |-> 0,
             lost |-> 0, restart |-> 0]
    Of(kind, b) == [kinds |-> [r \in Asking |-> kind], answers |-> {}, until |-> 6, fate |-> b @@ None]
    Revoking == Of("low", [revoke |-> 1, grant |-> 1])
    Sleeping == Of("low", [revoke |-> 1, suspend |-> 1])
    Raising == Of("high", [raise |-> 1, lost |-> 1])
    HighStale == [Of("high", [stale |-> 1]) EXCEPT !.until = 5]
    Tightening == [Of("tightening", [stale |-> 1]) EXCEPT !.until = 4]
    \* Answers of a replica that lags, of a generation before a recovery, of another installation.
    Lagging == [Of("low", [revoke |-> 1, lag |-> 1, recover |-> 1, restart |-> 1]) EXCEPT
                   !.answers = {"lagging", "old generation", "another instance"}, !.until = 1]
    Living == [Of("low", [recover |-> 1, lag |-> 1]) EXCEPT !.answers = {"lagging", "old generation"}, !.until = 1]
    IN [Safety |-> {Revoking, Sleeping, Raising, HighStale, Tightening, Lagging}, Liveness |-> {Living}]

\* The token keys: two requests, one with a token of the issuer's old key and one with a token of its new one.
KeyCases == LET
    Withdrawing == [tokens |-> [r \in Verifying |-> IF r = 1 THEN "old" ELSE "new"], until |-> 3,
                    ahead |-> [publish |-> 0, withdraw |-> 1, fail |-> 1]]
    IN [Safety |-> {Withdrawing}, Liveness |-> {[Withdrawing EXCEPT !.until = 1]}]

\* The scheduled jobs: schedules over days of Day hours, in zones that change their offset or do not.
SchedCases == LET
    Daily == [hours |-> {1, 2}, doms |-> 0 .. 2, dows |-> 0 .. 1]
    Odd == [hours |-> {0, 2}, doms |-> {1}, dows |-> {1}]
    Rare == [hours |-> {0, 3}, doms |-> 0 .. 2, dows |-> {1}]
    Weekly == [hours |-> {0}, doms |-> 0 .. 2, dows |-> {1}]
    Still == [at |-> 100, before |-> 0, after |-> 0]
    Forward == [at |-> 5, before |-> 0, after |-> 2]
    BackZone == [at |-> 6, before |-> 1, after |-> -1]
    NoRolls == [back |-> 0, own |-> 0, restart |-> 0]
    P(s, z, p) == [schedule |-> s, zone |-> z, policy |-> p, backlog |-> 1, from |-> 1, until |-> 11, rolls |-> NoRolls]
    Zones == {P(s, z, "all") : s \in {Daily, Odd}, z \in {Forward, BackZone}} \cup {P(Rare, Still, "all")}
    Policies == {P(Daily, Forward, p) : p \in {"none", "latest"}}
    \* The database's clock goes back, a runner's own clock is off, and a runner starts again.
    Clocks == {[P(Rare, Forward, "all") EXCEPT !.from = 2, !.until = 8, !.rolls = [back |-> 1, own |-> 1, restart |-> 1]]}
    IN [Safety |-> Zones \cup Policies \cup Clocks, Liveness |-> {[P(Weekly, Forward, "all") EXCEPT !.until = 10]}]

\* The in-memory transport: three messages, two of which match the subscription.
MemCases == LET
    Of(o) == [messages |-> {"m", "n", "o"}, matching |-> {"m", "n"}, ordered |-> o,
              slips |-> [publish |-> 3, deadline |-> 2, nak |-> 2, stop |-> 1]]
    IN [Safety |-> {Of(TRUE), Of(FALSE)},
        Liveness |-> {[Of(TRUE) EXCEPT !.messages = {"m", "n"},
                                       !.slips = [publish |-> 2, deadline |-> 1, nak |-> 1, stop |-> 2]]}]

\* The run profile.
GenCases == LET
    None == [advance |-> 0, fail |-> 0, faulty |-> 0, revoke |-> 0, unread |-> 0]
    Case(who, credentials, cas, until, may) ==
        [advancers |-> who, credentials |-> credentials, cas |-> cas, until |-> until, elsewhere |-> {},
         may |-> may @@ None]
    Rotating == Case({1}, {1}, 3, 0, [advance |-> 3, faulty |-> 1])
    Revoking == Case({1, 2}, {1, 2}, 1, 1, [advance |-> 3, revoke |-> 1])
    RevokingCA == Case({1}, {1}, 2, 1, [advance |-> 3, revoke |-> 1])
    Failing == Case({1, 2}, {1}, 2, 0, [advance |-> 2, fail |-> 1])
    Unreadable == Case({1}, {1}, 2, 1, [advance |-> 2, revoke |-> 1, unread |-> 1])
    Elsewhere == [Case({1, 2}, {1}, 1, 0, [advance |-> 3]) EXCEPT !.elsewhere = {2}]
    IN [Safety |-> {Rotating, Revoking, RevokingCA, Failing, Unreadable, Elsewhere}, Liveness |-> {}]

\* Requests about amounts: every amount of up to two places near zero, at the scales and cash units of currencies, and
\* splits of small totals by up to three weights.
AmtCases == LET
    Modes == {"half_away_from_zero", "half_even"}
    Decimals == {[coef |-> c, places |-> p] : c \in -30 .. 30, p \in 0 .. 2}
    Fives == {[coef |-> 5 * c, places |-> 2] : c \in -26 .. 26}
    Units == {[coef |-> 5, places |-> 2], [coef |-> 2, places |-> 1], [coef |-> 3, places |-> 0], [coef |-> 0, places |-> 0]}
    Reading == {[op |-> "parse", d |-> d, scale |-> s] : d \in Decimals, s \in 0 .. 2}
    Rounding == {[op |-> "round", d |-> d, scale |-> s, mode |-> m] :
                    d \in Decimals \cup Fives, s \in 0 .. 1, m \in Modes}
    Cash == {[op |-> "cash", d |-> d, unit |-> u, scale |-> 2, mode |-> m] : d \in Decimals, u \in Units, m \in Modes}
    Weights == UNION {[1 .. n -> 0 .. 3] : n \in 1 .. 3}
    Splitting == {[op |-> "allocate", d |-> d, weights |-> w, scale |-> 0] :
                     d \in {[coef |-> c, places |-> 1] : c \in {-50, -7, 0, 70}}, w \in Weights}
                 \cup {[op |-> "allocate", d |-> [coef |-> 7, places |-> 1], weights |-> w, scale |-> 1] :
                          w \in [1 .. 3 -> {-1, 1, 2, 5}]}
    IN [Safety |-> Reading \cup Rounding \cup Cash \cup Splitting, Liveness |-> {}]
=============================================================================
