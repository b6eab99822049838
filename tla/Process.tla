------------------------------ MODULE Process ------------------------------
(***************************************************************************)
(* A process from its start to its exit: one member alone                  *)
(* (launcher/serve.go) or several in a shell (shell/shell.go), built and    *)
(* run by internal/host.  The platform routes requests to the members it    *)
(* last saw ready (/readyz); a stop signal may come at any time.  The stop  *)
(* is StopAll: not ready at once, the drain delay, the servers, then the    *)
(* background work, all within the stop timeout.                            *)
(*                                                                         *)
(* External: the platform's probes, which see a member not ready within    *)
(* the drain delay, and handlers, which end once their context is          *)
(* cancelled.                                                              *)
(***************************************************************************)
EXTENDS Integers, FiniteSets, Sequences, SequencesExt

CONSTANTS
    Requests,       \* requests of the user and of the system surface
    Scenarios       \* the process: kind, order of members, phase, requests, mishaps

VARIABLES
    scenario,
    proc,           \* the process: pc, the member in turn, exit code, stop signal, background context
    member,         \* per member: lifecycle state, listening, background parts, handlers in hand, outbound connections
    inflight,       \* per request: none, running, answered, refused, cut
    routed,         \* members the platform routes requests to
    deadline,       \* the stop timeout passed
    mishaps         \* failures still to come

pvars == <<scenario, proc, member, inflight, routed, deadline, mishaps>>

Members == {"a", "b"}

Hosted == Range(scenario.order)
Shell == scenario.kind = "shell"
Turn == scenario.order[proc.next]

Mishap(what) == mishaps[what] > 0 /\ mishaps' = [mishaps EXCEPT ![what] = @ - 1]

NotBuilt == [state |-> "none", listening |-> FALSE, parts |-> {}, hand |-> {}, outbound |-> FALSE, stopped |-> FALSE]
Fresh == [pc |-> "open", next |-> 1, code |-> 0, signal |-> FALSE, bg |-> "none"]

IsReady(m) == member[m].state = "ready"

\* Requests and handlers still running when the process ends are cut.
Cut(S) == inflight' = [r \in Requests |-> IF inflight[r] = "running" /\ r \in S THEN "cut" ELSE inflight[r]]
Exit(code) ==
    /\ proc' = [proc EXCEPT !.pc = "exited", !.code = code]
    /\ Cut(Requests)
    /\ member' = [m \in Members |-> [member[m] EXCEPT !.listening = FALSE]]

Go(pc) == proc' = [proc EXCEPT !.pc = pc]
Then(last) ==
    proc' = IF proc.next < Len(scenario.order) THEN [proc EXCEPT !.next = @ + 1]
            ELSE [proc EXCEPT !.pc = last, !.next = 1]

-----------------------------------------------------------------------------
(* Starting: the pools and the bus, the members, their databases, their    *)
(* background.  A shell's members listen as they are built; alone, a       *)
(* member listens once its database is ready.                              *)

\* Waiting for the bus, or for a database: it comes, the stop signal ends the wait, or it is refused (ReadyExit).
Wait(pc, next, after) ==
    /\ proc.pc = pc
    /\ \/ Go(next) /\ after /\ UNCHANGED <<inflight, mishaps>>
       \/ proc.signal /\ Exit(0) /\ UNCHANGED mishaps
       \/ Mishap("refused") /\ Exit(78)
    /\ UNCHANGED <<scenario, routed, deadline>>

Open == Wait("open", "build", UNCHANGED member)

Build ==
    /\ proc.pc = "build"
    /\ \/ /\ member' = [member EXCEPT ![Turn] = [@ EXCEPT !.state = "starting", !.outbound = TRUE, !.listening = Shell]]
          /\ Then("ready") /\ UNCHANGED <<inflight, mishaps>>
       \/ Mishap("build") /\ Exit(1)
    /\ UNCHANGED <<scenario, routed, deadline>>

Listening == [m \in Members |-> IF m \in Hosted THEN [member[m] EXCEPT !.listening = TRUE] ELSE member[m]]

PoolsReady == Wait("ready", "start", member' = Listening)

\* What runs in a phase: events and projections in all but frozen, jobs only when open, the host's loops in the others.
Parts(phase) ==
    (IF phase # "frozen" THEN {"events"} ELSE {}) \cup (IF phase = "" THEN {"jobs"} ELSE {})
        \cup (IF phase \notin {"", "frozen"} THEN {"loops"} ELSE {})

\* Member.Start: the definitions are submitted once; when that fails the background goes on submitting them.
Start ==
    /\ proc.pc = "start" /\ member[Turn].parts = {}
    /\ \/ /\ \/ member' = [member EXCEPT ![Turn].parts = Parts(scenario.phase) \cup {"holder"}] /\ UNCHANGED mishaps
             \/ Mishap("submit") /\ member' = [member EXCEPT ![Turn].parts = Parts(scenario.phase) \cup {"submitting"}]
          /\ proc' = [proc EXCEPT !.bg = "on"] /\ UNCHANGED inflight
       \/ Mishap("start") /\ Exit(1)
    /\ UNCHANGED <<scenario, routed, deadline>>

MarkReady ==
    /\ proc.pc = "start" /\ member[Turn].parts # {}
    /\ member' = [member EXCEPT ![Turn].state = "ready"]
    /\ Then("serving")
    /\ UNCHANGED <<scenario, inflight, routed, deadline, mishaps>>

Background == proc.bg = "on" /\ proc.pc # "exited"

submitUntilAccepted(m) ==
    /\ Background /\ "submitting" \in member[m].parts
    /\ \/ member' = [member EXCEPT ![m].parts = (@ \ {"submitting"}) \cup {"holder"}] /\ UNCHANGED mishaps
       \/ Mishap("submit") /\ UNCHANGED member
    /\ UNCHANGED <<scenario, proc, inflight, routed, deadline>>

-----------------------------------------------------------------------------
(* Serving.                                                                *)

Probe(m) ==
    /\ proc.pc # "exited"
    /\ routed' = IF IsReady(m) /\ member[m].listening THEN routed \cup {m} ELSE routed \ {m}
    /\ routed' # routed
    /\ UNCHANGED <<scenario, proc, member, inflight, deadline, mishaps>>

\* httpx serve: MAINTENANCE in a recovery phase, but for reads once it is read-only; the system surface answers in all.
Admitted(q) == scenario.phase = "" \/ q.surface = "grpc" \/ (scenario.phase = "read_only" /\ q.read)

Arrive(r) ==
    LET q == scenario.requests[r] IN
    /\ inflight[r] = "none" /\ q.member \in routed /\ proc.pc # "exited"
    /\ inflight' = [inflight EXCEPT ![r] = IF ~member[q.member].listening THEN "refused"
                                           ELSE IF Admitted(q) THEN "running" ELSE "answered"]
    /\ UNCHANGED <<scenario, proc, member, routed, deadline, mishaps>>

Answer(r) ==
    /\ inflight[r] = "running"
    /\ inflight' = [inflight EXCEPT ![r] = "answered"]
    /\ UNCHANGED <<scenario, proc, member, routed, deadline, mishaps>>

\* A job's or an event's handler; the background context ends them, subscriptions hand out until they are stopped.
Take(m, what) ==
    /\ what \in member[m].parts \ member[m].hand /\ what \in {"jobs", "events"} /\ proc.pc # "exited"
    /\ what = "jobs" => Background
    /\ member' = [member EXCEPT ![m].hand = @ \cup {what}]
    /\ UNCHANGED <<scenario, proc, inflight, routed, deadline, mishaps>>

Give(m, what) ==
    /\ what \in member[m].hand /\ proc.pc # "exited"
    /\ member' = [member EXCEPT ![m].hand = @ \ {what}]
    /\ UNCHANGED <<scenario, proc, inflight, routed, deadline, mishaps>>

\* Alone, the process ends when a listener fails.
ServeFails ==
    /\ ~Shell /\ proc.pc = "serving" /\ Mishap("serve") /\ Exit(1)
    /\ UNCHANGED <<scenario, routed, deadline>>

-----------------------------------------------------------------------------
(* StopAll.                                                                *)

Signal ==
    /\ scenario.stops /\ ~proc.signal /\ proc.pc # "exited"
    /\ proc' = [proc EXCEPT !.signal = TRUE]
    /\ UNCHANGED <<scenario, member, inflight, routed, deadline, mishaps>>

StopAll ==
    /\ proc.pc = "serving" /\ proc.signal
    /\ member' = [m \in Members |-> IF m \in Hosted THEN [member[m] EXCEPT !.state = "stopping"] ELSE member[m]]
    /\ Go("draining")
    /\ UNCHANGED <<scenario, inflight, routed, deadline, mishaps>>

Deadline ==
    /\ proc.pc \in {"draining", "shutdown", "stop"} /\ ~deadline
    /\ deadline' = TRUE
    /\ UNCHANGED <<scenario, proc, member, inflight, routed, mishaps>>

Closed == [m \in Members |-> [member[m] EXCEPT !.listening = FALSE]]

\* The drain delay, at most until the deadline: the platform has seen the members not ready.  The servers stop accepting.
DrainPasses ==
    /\ proc.pc = "draining" /\ (routed = {} \/ deadline)
    /\ member' = Closed /\ Go("shutdown")
    /\ UNCHANGED <<scenario, inflight, routed, deadline, mishaps>>

Left == {r \in Requests : inflight[r] = "running"}

\* Mutation of ServersDown: the background stops while requests still run.
ServersDownAtOnce ==
    /\ proc.pc = "shutdown"
    /\ Cut({})
    /\ proc' = [proc EXCEPT !.pc = "stop", !.bg = "cancelled", !.code = IF Left = {} THEN @ ELSE 1]
    /\ UNCHANGED <<scenario, member, routed, deadline, mishaps>>

\* Every request finished, or the deadline: the gRPC calls are cut, the HTTP requests go on; then the background ends.
ServersDown ==
    /\ proc.pc = "shutdown" /\ (Left = {} \/ deadline)
    /\ Cut({r \in Requests : scenario.requests[r].surface = "grpc"})
    /\ proc' = [proc EXCEPT !.pc = "stop", !.bg = "cancelled", !.code = IF Left = {} THEN @ ELSE 1]
    /\ UNCHANGED <<scenario, member, routed, deadline, mishaps>>

\* Member.Stop first stops the subscriptions: nothing new is handed out.
StopSubs(m) ==
    /\ proc.pc = "stop" /\ "events" \in member[m].parts
    /\ member' = [member EXCEPT ![m].parts = @ \ {"events"}]
    /\ UNCHANGED <<scenario, proc, inflight, routed, deadline, mishaps>>

Released(m) == [member EXCEPT ![m] = [@ EXCEPT !.stopped = TRUE, !.parts = {}, !.outbound = FALSE]]

\* Then it waits for what is in hand, stops the module within the deadline, releases the outbound connections.
StopMember(m) ==
    /\ proc.pc = "stop" /\ m \in Hosted /\ ~member[m].stopped
    /\ "events" \notin member[m].parts /\ member[m].hand = {}
    /\ member' = Released(m)
    /\ \/ UNCHANGED <<proc, mishaps>>
       \/ deadline /\ Mishap("module") /\ proc' = [proc EXCEPT !.code = 1]
    /\ UNCHANGED <<scenario, inflight, routed, deadline>>

Stopped ==
    /\ proc.pc = "stop" /\ \A m \in Hosted : member[m].stopped
    /\ Exit(proc.code)
    /\ UNCHANGED <<scenario, routed, deadline, mishaps>>

-----------------------------------------------------------------------------

\* What a scenario is: the order of one or more members, and what is asked of which of them.
Scenario(s) ==
    /\ s.order \in Seq(Members) /\ s.order # <<>>
    /\ \A r \in Requests : s.requests[r].member \in Members

ProcessConstants == \A s \in Scenarios : Scenario(s)

Init ==
    /\ scenario \in Scenarios
    /\ proc = Fresh
    /\ member = [m \in Members |-> NotBuilt]
    /\ inflight = [r \in Requests |-> "none"]
    /\ routed = {} /\ deadline = FALSE
    /\ mishaps = scenario.mishaps

Main == Open \/ Build \/ PoolsReady \/ Start \/ MarkReady \/ StopAll \/ DrainPasses \/ ServersDown \/ Stopped

Next ==
    \/ Main \/ ServeFails \/ Signal \/ Deadline
    \/ \E m \in Members : submitUntilAccepted(m) \/ Probe(m) \/ StopSubs(m) \/ StopMember(m)
    \/ \E m \in Members, what \in {"jobs", "events"} : Take(m, what) \/ Give(m, what)
    \/ \E r \in Requests : Arrive(r) \/ Answer(r)

Spec == Init /\ [][Next]_pvars

-----------------------------------------------------------------------------
(* Properties.                                                             *)

\* A member the platform routes to still listens, until the stop timeout: no caller meets a closed port (the drain
\* delay of StopAll, a shell stopping its members together).
RoutedIsListening == \A m \in routed : member[m].listening \/ deadline \/ proc.pc = "exited"

\* A request in progress keeps the background context and its member's outbound connections until the stop timeout
\* (StopAll's order).
RequestsKeepTheirMember ==
    \A r \in Requests : inflight[r] = "running" =>
        \/ deadline
        \/ proc.bg = "on" /\ member[scenario.requests[r].member].outbound

\* A job or an event in hand ends with its member's outbound connections open (Member.Stop).
HandlersKeepTheirConnections == \A m \in Members : member[m].hand # {} => member[m].outbound

\* The process exits with 0 only when no request was cut and no handler was left (StopAll's exit code, a stop during
\* the start).
CleanExit ==
    proc.pc = "exited" /\ proc.code = 0 =>
        (\A r \in Requests : inflight[r] # "cut") /\ (\A m \in Members : member[m].hand = {})

StopsInOrder == RoutedIsListening /\ RequestsKeepTheirMember /\ HandlersKeepTheirConnections /\ CleanExit
=============================================================================
