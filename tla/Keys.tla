-------------------------------- MODULE Keys --------------------------------
(***************************************************************************)
(* The issuer's keys a process holds to verify tokens (identity/keys.go):   *)
(* the periodic refresh, the refresh an unknown key ID starts, the requests *)
(* that wait for it, and the age past which keys are not used.              *)
(*                                                                         *)
(* The issuer is external: it publishes and withdraws key IDs.  A fetch     *)
(* reads them at one moment and stores them at a later one, at most         *)
(* FetchMax after (the client's timeout), so two fetches may cross.  The    *)
(* period of the refresh loop is not modelled: it may fetch at any time.    *)
(***************************************************************************)
EXTENDS Integers, FiniteSets

CONSTANTS
    Verifying,          \* requests
    KeyMaxAge,          \* age past which keys are not used; an hour in the code
    UnknownKIDRefresh,  \* least time between refreshes for unknown key IDs; 30 s in the code
    FetchMax,           \* longest fetch; 10 s in the code
    Scenarios           \* the issuer's changes, failing fetches, the tokens' key IDs and the end of time

VARIABLES
    scenario,
    second,             \* the clock
    issuer,             \* the published key IDs, and when each one was withdrawn
    keyset,             \* the key set: key IDs, time of the fetch, of the last refresh for an unknown one, refresh running
    fetch,              \* the fetches of the loop and of an unknown key ID
    verify,             \* the requests
    ahead               \* changes and failures still to come

kvars == <<scenario, second, issuer, keyset, fetch, verify, ahead>>

Fetchers == {"loop", "unknown"}
NoFetch == [pc |-> "idle"]

Happens(what) == ahead[what] > 0 /\ ahead' = [ahead EXCEPT ![what] = @ - 1]

-----------------------------------------------------------------------------
(* The issuer and time.                                                    *)

PublishKey(kid) ==
    /\ kid \notin issuer.kids /\ issuer.withdrawn[kid] < 0 /\ Happens("publish")
    /\ issuer' = [issuer EXCEPT !.kids = @ \cup {kid}]
    /\ UNCHANGED <<scenario, second, keyset, fetch, verify>>

WithdrawKey(kid) ==
    /\ kid \in issuer.kids /\ Happens("withdraw")
    /\ issuer' = [kids |-> issuer.kids \ {kid}, withdrawn |-> [issuer.withdrawn EXCEPT ![kid] = second]]
    /\ UNCHANGED <<scenario, second, keyset, fetch, verify>>

Tick ==
    /\ second < scenario.until
    /\ \A f \in Fetchers : fetch[f].pc = "read" => second < fetch[f].began + FetchMax
    /\ second' = second + 1
    /\ UNCHANGED <<scenario, issuer, keyset, fetch, verify, ahead>>

-----------------------------------------------------------------------------
(* refresh.                                                                *)

\* The issuer answers a fetch.
Read(f) ==
    /\ fetch[f].pc = IF f = "loop" THEN "idle" ELSE "started"
    /\ fetch' = [fetch EXCEPT ![f] = [pc |-> "read", began |-> second, kids |-> issuer.kids]]
    /\ UNCHANGED <<scenario, second, issuer, keyset, verify, ahead>>

\* The refresh an unknown key ID started has ended, well or not.
Ends(f, k) == IF f = "unknown" THEN [k EXCEPT !.inflight = FALSE] ELSE k

Failed(f, k) == Ends(f, k)

Refreshed(f, k) == Ends(f, [k EXCEPT !.kids = fetch[f].kids, !.fetchedAt = second])

\* The requests that wait for it go on.
Waited == verify' = [r \in Verifying |->
    IF verify[r] = "waiting" /\ keyset.inflight /\ ~keyset'.inflight THEN "resolving" ELSE verify[r]]

Store(f) ==
    /\ fetch[f].pc = "read"
    /\ keyset' = Refreshed(f, keyset) /\ Waited
    /\ fetch' = [fetch EXCEPT ![f] = NoFetch]
    /\ UNCHANGED <<scenario, second, issuer, ahead>>

FetchFails(f) ==
    /\ fetch[f].pc # "idle" /\ Happens("fail")
    /\ keyset' = Failed(f, keyset) /\ Waited
    /\ fetch' = [fetch EXCEPT ![f] = NoFetch]
    /\ UNCHANGED <<scenario, second, issuer>>

-----------------------------------------------------------------------------
(* keyfunc.                                                                *)

Known(kid) == kid \in keyset.kids

\* Under the lock: an unknown key ID joins the refresh that runs, or starts one at most every UnknownKIDRefresh.
Look(r) ==
    LET kid == scenario.tokens[r]
        starts == ~Known(kid) /\ ~keyset.inflight /\ second - keyset.lastUnknown >= UnknownKIDRefresh IN
    /\ verify[r] = "idle"
    /\ verify' = [verify EXCEPT ![r] = IF ~Known(kid) /\ (keyset.inflight \/ starts) THEN "waiting" ELSE "resolving"]
    /\ keyset' = IF starts THEN [keyset EXCEPT !.lastUnknown = second, !.inflight = TRUE] ELSE keyset
    /\ fetch' = IF starts THEN [fetch EXCEPT !["unknown"] = [pc |-> "started"]] ELSE fetch
    /\ UNCHANGED <<scenario, second, issuer, ahead>>

Fresh == keyset.fetchedAt >= 0 /\ second - keyset.fetchedAt <= KeyMaxAge

Resolve(r) ==
    /\ verify[r] = "resolving"
    /\ verify' = [verify EXCEPT ![r] =
            IF ~Fresh THEN "unavailable" ELSE IF ~Known(scenario.tokens[r]) THEN "unknown" ELSE "accepted"]
    /\ UNCHANGED <<scenario, second, issuer, keyset, fetch, ahead>>

-----------------------------------------------------------------------------

Init ==
    /\ scenario \in Scenarios
    /\ second = 0
    /\ issuer = [kids |-> {"old"}, withdrawn |-> [kid \in {"old", "new"} |-> -1]]
    /\ \E ok \in BOOLEAN :      \* the first fetch may fail
        keyset = [kids |-> IF ok THEN {"old"} ELSE {}, fetchedAt |-> IF ok THEN 0 ELSE -1,
                  lastUnknown |-> -UnknownKIDRefresh, inflight |-> FALSE]
    /\ fetch = [f \in Fetchers |-> NoFetch]
    /\ verify = [r \in Verifying |-> "idle"]
    /\ ahead = scenario.ahead

Fetching == \E f \in Fetchers : Read(f) \/ Store(f)

Next ==
    \/ \E kid \in {"old", "new"} : PublishKey(kid) \/ WithdrawKey(kid)
    \/ Tick \/ Fetching
    \/ \E f \in Fetchers : FetchFails(f)
    \/ \E r \in Verifying : Look(r) \/ Resolve(r)

Spec == Init /\ [][Next]_kvars

-----------------------------------------------------------------------------
(* Properties.                                                             *)

\* A token whose key was withdrawn is accepted at most KeyMaxAge, and the length of a fetch, after: whatever fetches
\* fail, cross or come late (keyfunc, refresh).
WithdrawnIsRefused ==
    \A r \in Verifying :
        verify[r] = "resolving" /\ verify'[r] = "accepted" =>
            LET w == issuer.withdrawn[scenario.tokens[r]] IN w < 0 \/ second <= w + KeyMaxAge + FetchMax
=============================================================================
