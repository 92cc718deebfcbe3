---------------------------- MODULE MCWorkerPool ----------------------------
(* Accounts for the runs of WorkerPool. *)
EXTENDS WorkerPool

CONSTANTS e1, e2

TwoExtra == <<e1, e2>>

\* At most two faults in a behaviour, of whichever kinds.
TwoFaults == budget.rpc + budget.redis + budget.crash >= RpcFaults + RedisFaults + Crashes - 2
=============================================================================
