----------------------------- MODULE WorkerPool -----------------------------
(***************************************************************************)
(* Who may execute on a chain: the master's periodic health check, the     *)
(* executor and simulator queues it pauses and resumes, the wallet states  *)
(* it posts, and the executor thread that keeps one BullMQ worker per EOA. *)
(*                                                                         *)
(* The handler of a nodeWalletsStates message walks over the EOAs of the   *)
(* message and is suspended wherever it creates a worker; a later message  *)
(* may be handled meanwhile.                                               *)
(***************************************************************************)
EXTENDS Integers, Sequences, FiniteSets

CONSTANTS
  Master,       \* the node's master account
  Extra,        \* sequence of worker accounts from the mnemonic or the private keys
  WorkerCount,  \* executor.workerCount of the chain
  MaxPending,   \* bound on messages posted and not yet handled to the end
  Changes, RpcFaults, RedisFaults, Crashes  \* environment budgets

ASSUME PoolConstantsOK ==
  /\ Extra \in Seq({Extra[i] : i \in 1..Len(Extra)})
  /\ Master \notin {Extra[i] : i \in 1..Len(Extra)}
  /\ \A i, j \in 1..Len(Extra) : i # j => Extra[i] # Extra[j]
  /\ {WorkerCount, MaxPending, Changes, RpcFaults, RedisFaults, Crashes} \subseteq Nat

VARIABLES
  \* environment
  funded,    \* EOAs whose balance reaches the threshold
  backed,    \* everything else the chain's health depends on is fine
  budget,    \* changes and faults left
  \* master
  checkPc,   \* step of performCheck
  seen,      \* what the running check found
  latest,    \* status of the chain in latestResult
  missed,    \* history: queues not told of the latest status, since a call failed
  overlap,   \* history: a check began before the last message was handled to the end
  \* Redis
  paused,    \* queue -> paused
  \* executor thread of the chain
  thread,    \* online or exited
  inbox,     \* messages posted to it: sets of active EOAs
  handlers,  \* suspended message handlers
  workers,   \* BullMQ workers of the thread, in the order they were created
  registered \* executorWorkers: EOA -> index of its worker, 0 if none

master == <<checkPc, seen, latest, missed, overlap, paused>>
execThread == <<thread, inbox, handlers, workers, registered>>
vars   == <<funded, backed, budget, master, execThread>>

-----------------------------------------------------------------------------
\* The accounts a health check looks at, and those the node can sign with.
Known   == IF Extra = <<>> THEN <<Master>> ELSE Extra
Checked == IF WorkerCount = 0 THEN <<Master>>
           ELSE SubSeq(Known, 1, IF WorkerCount < Len(Known) THEN WorkerCount ELSE Len(Known))

N        == Len(Checked)
Eoas     == {Checked[i] : i \in 1..N}
Accounts == {Known[i] : i \in 1..Len(Known)}
Queues   == {"executor", "simulator"}
Healths  == {"none", "healthy", "unhealthy"}

Handler  == [active: SUBSET Eoas, at: 1..N]
Worker   == [eoa: Eoas, st: {"running", "pausing", "paused"}]

Init ==
  /\ funded \in SUBSET Eoas
  /\ backed \in BOOLEAN
  /\ budget = [change |-> Changes, rpc |-> RpcFaults, redis |-> RedisFaults, crash |-> Crashes]
  /\ checkPc = "sleep"
  /\ seen = [active |-> {}, status |-> "none"]
  /\ latest = "none"
  /\ missed = {} /\ overlap = FALSE
  /\ paused \in [Queues -> BOOLEAN]      \* as a previous run of the node left them
  /\ thread = "online"
  /\ inbox = <<>>
  /\ handlers = <<>>
  /\ workers = <<>>
  /\ registered = [e \in Eoas |-> 0]

Spend(kind) == /\ budget[kind] > 0
               /\ budget' = [budget EXCEPT ![kind] = @ - 1]

-----------------------------------------------------------------------------
(* Master: HealthCheckService.performCheck and the handlers of its events *)

Pending == Len(inbox) + Len(handlers)

\* The services are asked; a failing RPC makes funded EOAs look inactive or the
\* chain unhealthy. A change of status is told to the queues first.
Gather ==
  /\ checkPc = "sleep"
  /\ Pending < MaxPending
  /\ overlap' = (overlap \/ Pending > 0)
  /\ \E A \in SUBSET funded, answered \in BOOLEAN :
       /\ IF A = funded /\ answered THEN UNCHANGED budget ELSE Spend("rpc")
       /\ LET status == IF A # {} /\ backed /\ answered /\ thread = "online"
                          THEN "healthy" ELSE "unhealthy"
          IN  /\ seen' = [active |-> A, status |-> status]
              /\ checkPc' = IF status # latest THEN "executor" ELSE "post"
  /\ UNCHANGED <<funded, backed, latest, missed, paused, execThread>>

Told(q) == /\ paused' = [paused EXCEPT ![q] = (seen.status = "unhealthy")]
           /\ missed' = missed \ {q}

SetQueueStopsAtFirst(q) ==   \* variant: the simulator queue is forgotten
  /\ checkPc = q
  /\ Told(q)
  /\ checkPc' = "post"
  /\ UNCHANGED <<funded, backed, budget, seen, latest, overlap, execThread>>

\* "chain:healthChanged": one queue after the other is paused or resumed. An error, of a
\* call that took effect or not, ends the round of events, yet the result counts as the
\* latest one: the queues left are told nothing before the status changes again.
SetQueue(q) ==
  /\ checkPc = q
  /\ \/ /\ Told(q)
        /\ checkPc' = IF q = "executor" THEN "simulator" ELSE "post"
        /\ UNCHANGED <<budget, latest>>
     \/ /\ Spend("redis")
        /\ checkPc' = "sleep"
        /\ latest' = seen.status
        /\ missed' = IF q = "executor" THEN Queues ELSE missed \cup {q}
        /\ paused' \in {paused, [paused EXCEPT ![q] = (seen.status = "unhealthy")]}
  /\ UNCHANGED <<funded, backed, seen, overlap, execThread>>

PostOfChanges ==   \* variant: the wallet states are posted only with a change of status
  /\ checkPc = "post"
  /\ inbox' = IF thread = "online" /\ seen.status # latest THEN Append(inbox, seen.active) ELSE inbox
  /\ latest' = seen.status
  /\ checkPc' = "sleep"
  /\ UNCHANGED <<funded, backed, budget, seen, missed, overlap, paused, thread, handlers, workers, registered>>

\* "nodeService:healthChecked": the wallet states go to the thread if it is online.
Post ==
  /\ checkPc = "post"
  /\ inbox' = IF thread = "online" THEN Append(inbox, seen.active) ELSE inbox
  /\ latest' = seen.status
  /\ checkPc' = "sleep"
  /\ UNCHANGED <<funded, backed, budget, seen, missed, overlap, paused, thread, handlers, workers, registered>>

-----------------------------------------------------------------------------
(* Executor thread: the handler of nodeWalletsStates *)

Exited ==
  /\ thread' = "exited"
  /\ inbox' = <<>>
  /\ handlers' = <<>>
  /\ workers' = <<>>
  /\ registered' = [e \in Eoas |-> 0]

\* Where a walk from i over the EOAs of A stops to create a worker, N + 1 if nowhere.
NextToCreate(A, i, reg) ==
  LET missing == {k \in i..N : Checked[k] \in A /\ reg[Checked[k]] = 0}
  IN  IF missing = {} THEN N + 1 ELSE CHOOSE k \in missing : \A l \in missing : k <= l

\* Variants of Switched with a bug.
SwitchedWithoutPause(s, active)  == IF active /\ s = "paused" THEN "running" ELSE s
SwitchedWithoutResume(s, active) == IF ~active /\ s = "running" THEN "pausing" ELSE s

\* A worker of an active EOA resumes, unless it is still finishing its last job;
\* a running worker of an inactive one is told to pause.
Switched(s, active) ==
  IF active THEN (IF s = "paused" THEN "running" ELSE s)
            ELSE (IF s = "running" THEN "pausing" ELSE s)

\* The workers after the walk passed the positions from i to k - 1.
Walked(A, i, k, ws, reg) ==
  [x \in DOMAIN ws |->
    IF \E j \in i..(k - 1) : reg[Checked[j]] = x
      THEN [ws[x] EXCEPT !.st = Switched(@, ws[x].eoa \in A)]
      ELSE ws[x]]

WalkOnForever(A, i, hs, ws, reg) ==  \* variant: the walk has no end
  LET k == NextToCreate(A, i, reg) IN
  /\ workers' = Walked(A, i, k, ws, reg)
  /\ handlers' = Append(hs, [active |-> A, at |-> k])
  /\ registered' = reg
  /\ UNCHANGED thread

\* A walk from i until it creates a worker (the handler is suspended), is done, or
\* meets an account the node has no key of (the rejection ends the thread).
WalkOn(A, i, hs, ws, reg) ==
  LET k == NextToCreate(A, i, reg) IN
  IF k <= N /\ Checked[k] \notin Accounts
    THEN Exited
    ELSE /\ workers' = Walked(A, i, k, ws, reg)
         /\ handlers' = IF k > N THEN hs ELSE Append(hs, [active |-> A, at |-> k])
         /\ registered' = reg
         /\ UNCHANGED thread

Without(s, i) == SubSeq(s, 1, i - 1) \o SubSeq(s, i + 1, Len(s))

Receive ==
  /\ thread = "online"
  /\ inbox # <<>>
  /\ WalkOn(Head(inbox), 1, handlers, workers, registered)
  /\ inbox' = IF thread' = "online" THEN Tail(inbox) ELSE <<>>
  /\ UNCHANGED <<funded, backed, budget, master>>

CreatedUnregistered(i) ==   \* variant: the map is not told of the new worker
  LET h == handlers[i]
      e == Checked[h.at]
  IN
  /\ i \in 1..Len(handlers)
  /\ WalkOn(h.active, h.at + 1, Without(handlers, i),
            Append(workers, [eoa |-> e, st |-> "running"]), registered)
  /\ inbox' = IF thread' = "online" THEN inbox ELSE <<>>
  /\ UNCHANGED <<funded, backed, budget, master>>

\* createWorker has answered: the worker is running, the map is told, the walk goes on.
Created(i) ==
  LET h == handlers[i]
      e == Checked[h.at]
  IN
  /\ i \in 1..Len(handlers)
  /\ WalkOn(h.active, h.at + 1, Without(handlers, i),
            Append(workers, [eoa |-> e, st |-> "running"]),
            [registered EXCEPT ![e] = Len(workers) + 1])
  /\ inbox' = IF thread' = "online" THEN inbox ELSE <<>>
  /\ UNCHANGED <<funded, backed, budget, master>>

\* A pausing worker has finished its last job.
LastJobDone(x) ==
  /\ workers[x].st = "pausing"
  /\ workers' = [workers EXCEPT ![x].st = "paused"]
  /\ UNCHANGED <<funded, backed, budget, master, thread, inbox, handlers, registered>>

\* The thread dies, a failing createWorker included; it is spawned again.
ThreadExit ==
  /\ thread = "online"
  /\ Spend("crash")
  /\ Exited
  /\ UNCHANGED <<funded, backed, master>>

ThreadStart ==
  /\ thread = "exited"
  /\ thread' = "online"
  /\ UNCHANGED <<funded, backed, budget, master, inbox, handlers, workers, registered>>

\* The node restarts: only what is in Redis survives.
NodeRestart ==
  /\ Spend("crash")
  /\ checkPc' = "sleep"
  /\ seen' = [active |-> {}, status |-> "none"]
  /\ latest' = "none"
  /\ missed' = {} /\ overlap' = FALSE
  /\ Exited
  /\ UNCHANGED <<funded, backed, paused>>

\* Balances, the paymaster and the other services change.
Change ==
  /\ Spend("change")
  /\ \/ \E e \in Eoas : funded' = (funded \ {e}) \cup ({e} \ funded)
     \/ UNCHANGED funded
  /\ backed' = IF funded' = funded THEN ~backed ELSE backed
  /\ UNCHANGED <<master, execThread>>

-----------------------------------------------------------------------------
MasterStep == Gather \/ Post \/ \E q \in Queues : SetQueue(q)

ThreadStep == Receive \/ ThreadStart \/ \E i \in 1..Len(handlers) : Created(i)

Next ==
  \/ MasterStep \/ ThreadStep
  \/ \E x \in 1..Len(workers) : LastJobDone(x)
  \/ ThreadExit \/ NodeRestart \/ Change

Spec == Init /\ [][Next]_vars

\* The check runs for ever, threads are respawned, workers are created and jobs end.
FairSpec ==
  /\ Spec
  /\ WF_vars(MasterStep)
  /\ WF_vars(Receive) /\ WF_vars(ThreadStart) /\ WF_vars(Created(1))
  /\ WF_vars(\E x \in 1..Len(workers) : LastJobDone(x))

-----------------------------------------------------------------------------
TypeOK ==
  /\ funded \subseteq Eoas /\ backed \in BOOLEAN
  /\ budget \in [{"change", "rpc", "redis", "crash"} -> Nat]
  /\ checkPc \in {"sleep", "post"} \cup Queues
  /\ seen \in [active: SUBSET Eoas, status: Healths]
  /\ latest \in Healths
  /\ missed \subseteq Queues /\ overlap \in BOOLEAN
  /\ paused \in [Queues -> BOOLEAN]
  /\ thread \in {"online", "exited"}
  /\ inbox \in Seq(SUBSET Eoas)
  /\ handlers \in Seq(Handler)
  /\ workers \in Seq(Worker)
  /\ registered \in [Eoas -> 0..Len(workers)]

\* nonce-manager.service.ts:47-49: "EOA workers always execute only one transaction at
\* a time. There will be no concurrency within a single EOA worker." So the thread
\* has at most one BullMQ worker (of concurrency 1) for an EOA.
OneWorkerPerEoa ==
  \A e \in Eoas : Cardinality({x \in 1..Len(workers) : workers[x].eoa = e}) <= 1

\* Checks that begin only once the last message is handled keep to it, whatever exits and
\* restarts: it takes one that begins while a handler waits for a worker to break it.
OneWorkerUnlessOverlap == overlap \/ OneWorkerPerEoa

\* Between two checks the queues stand as the latest status says, whatever the node found
\* them like when it started (master/bootstrap.ts:161-178). A queue that a failing call kept
\* from being told is right again from the next change of status on.
QueuesFollowHealth ==
  checkPc = "sleep" /\ latest # "none"
    => \A q \in Queues \ missed : paused[q] = (latest = "unhealthy")

\* An EOA that stays funded gets its worker back, after crashes of the thread or the node,
\* failed balance checks and a pause that was still under way; one that stays below the
\* threshold is stopped for good. Where checks overlap, an older message may be handled to
\* its end after a newer one, and a second worker takes the place of the first in
\* executorWorkers. The worker the map knows follows the balance of its EOA all the same:
\* whatever a late handler resumed or paused, the messages of the next checks put right.
RegisteredRuns(e) == registered[e] # 0 /\ workers[registered[e]].st = "running"

RegisteredFollow ==
  \A e \in Eoas : /\ <>[](e \in funded) => []<>RegisteredRuns(e)
                  /\ <>[](e \notin funded) => <>[]~RegisteredRuns(e)
=============================================================================
