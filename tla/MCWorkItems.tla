---------------------------- MODULE MCWorkItems ----------------------------
(* Instances of WorkItems for TLC.                                         *)
EXTENDS WorkItems, TLC

CONSTANTS a, w1, w2

\* Every item has the same job.
Jobs(kind, effect, maxWait, errors) ==
    [i \in Items |-> [kind |-> kind, effect |-> effect, maxWait |-> maxWait, errors |-> errors]]

LocalItem ==
    [job    |-> Jobs("queue", "local", TRUE, {"retryable", "permanent", "wait"}),
     faults |-> {"crash", "stall", "stop", "renew", "read", "requeue", "resolve", "hold", "failover", "restore"}]

SingletonItem ==
    [job    |-> Jobs("singleton", "local", FALSE, {"retryable", "permanent"}),
     faults |-> {"crash", "stall", "stop", "renew", "requeue", "failover", "restore"}]

\* A restore brings back rows from before a call that stays made; the recovery of the external side is not the
\* runner's.  What hold and a failed read do to a call is the subject of CallOnHold.
CallItem ==
    [job    |-> Jobs("queue", "non_idempotent_external", FALSE, {"retryable", "permanent", "not_effective", "wait"}),
     faults |-> {"crash", "stall", "stop", "renew", "requeue", "verify", "resolve", "failover"}]

EveryJob == {LocalItem, SingletonItem, CallItem}

CallOnHold ==
    {[job    |-> Jobs("queue", "non_idempotent_external", FALSE, {"retryable", "wait"}),
      faults |-> {"requeue", "hold"}]}
=============================================================================
