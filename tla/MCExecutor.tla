----------------------------- MODULE MCExecutor -----------------------------
(* Small instances of Executor for TLC: workers are interchangeable. *)
EXTENDS Executor, TLC

WorkerSymmetry == Permutations(Workers)

\* The faults of a behaviour, and at most one, or two, of them, of whichever kind.
Faults    == (RpcFaults - budget.rpc) + (QueueFaults - budget.queue) + (Crashes - budget.crash)
OneFault  == Faults <= 1
TwoFaults == Faults <= 2
=============================================================================
