------------------------------ MODULE Executor ------------------------------
(***************************************************************************)
(* Block execution on one chain: the executor queue, the EOA workers that  *)
(* take jobs from it (ExecutorProcessor), the in-memory nonce manager and  *)
(* the per-userOp fields written to storage, against a chain that includes,*)
(* reverts, replaces or drops transactions.                                *)
(*                                                                         *)
(* A worker's processJob is cut into one action per await; the constants   *)
(* RpcFaults, QueueFaults and Crashes bound how often the environment may  *)
(* misbehave, everything else is finite because attempts are.              *)
(***************************************************************************)
EXTENDS Integers, FiniteSets

CONSTANTS
  Ops,          \* MEE userOps
  Workers,      \* EOA worker accounts of the chain
  MaxJobs,      \* job slots: bound on jobs alive at once
  MaxTx,        \* bound on transactions broadcast
  MaxAttempts,  \* EXECUTOR_QUEUE_JOB_ATTEMPTS
  MaxStalled,   \* BullMQ's maxStalledCount
  Faulty,       \* userOps whose on-chain validation always fails
  Failing,      \* userOps whose call reverts: included with success = false
  Expiring,     \* userOps whose upper bound may pass during the run
  SyncMode,     \* low block time chain with sendTransactionSync support
  GasOverride,  \* executionOverrides.gas set: no gas estimation before sending
  RpcFaults, QueueFaults, Crashes  \* environment budgets

ASSUME ConstantsOK ==
  /\ Workers # {}
  /\ IsFiniteSet(Ops)
  /\ {MaxJobs, MaxTx, MaxAttempts, MaxStalled, RpcFaults, QueueFaults, Crashes}
       \subseteq Nat
  /\ Faulty \subseteq Ops /\ Failing \subseteq Ops /\ Expiring \subseteq Ops
  /\ SyncMode \in BOOLEAN /\ GasOverride \in BOOLEAN

VARIABLES
  \* chain
  txs,       \* transaction id (its hash) -> transaction
  ntx,       \* transactions broadcast so far
  nonceOf,   \* worker -> nonce of its account, counting included transactions
  opState,   \* userOp -> fresh, or executed with the success flag of its event
  expired,   \* userOps past their upper bound timestamp
  \* BullMQ queue of the chain
  jobs,      \* slot -> job
  submitted, \* userOps a batch of which was ever handed to the queue
  \* executor thread
  pc,        \* worker -> next step of its processor
  mem,       \* worker -> local variables of processJob
  cache,     \* worker -> nonce manager entry
  \* storage
  store,     \* userOp -> custom fields
  blind,     \* userOps reported executed without a receipt (history)
  budget     \* environment faults left

chain    == <<txs, ntx, nonceOf, opState, expired>>
queue    == <<jobs, submitted>>
thread   == <<pc, mem, cache>>
storage  == <<store, blind>>
vars     == <<chain, queue, thread, storage, budget>>

-----------------------------------------------------------------------------
Slots   == 1..MaxJobs
TxIds   == 1..MaxTx
NoTx    == 0
NoJob   == 0
NoNonce == -1

NonRetriable == {"failedOp", "blockGas", "unrecognized"}
Retriable    == {"nonce", "gas", "timeout", "sync"}
Errors       == NonRetriable \cup Retriable

Phases == {"idle", "prev", "forget", "filter", "nonce", "send", "fast", "wait", "timeout",
           "save", "adjust", "simulate", "add", "retain", "finish", "throw", "failed"}

Attempts == 0..(IF MaxAttempts = 0 THEN 0 ELSE MaxAttempts - 1)
Tx    == [from: Workers, nonce: Nat, ops: SUBSET Ops,
          st: {"unsent", "pending", "mined", "reverted", "gone"}]
Job   == [st: {"free", "waiting", "active"}, ops: SUBSET Ops, prev: TxIds \cup {NoTx},
          attempts: Attempts, stalls: 0..MaxStalled]
Local == [job: Slots \cup {NoJob}, ops: SUBSET Ops, nonce: Int, tx: TxIds \cup {NoTx},
          again: BOOLEAN, err: Errors, split: BOOLEAN, fromPrev: BOOLEAN,
          valid: SUBSET Ops, invalid: SUBSET Ops]
Entry == [used: Int, unused: Int]
Field == [error: BOOLEAN, finished: BOOLEAN, confirmed: BOOLEAN,
          tx: TxIds \cup {NoTx}]

NewJob(B) == [st |-> "waiting", ops |-> B, prev |-> NoTx, attempts |-> 0, stalls |-> 0]
FreeJob   == [NewJob({}) EXCEPT !.st = "free"]
Idle      == [job |-> NoJob, ops |-> {}, nonce |-> NoNonce, tx |-> NoTx, again |-> FALSE,
              err |-> "gas", split |-> FALSE, fromPrev |-> FALSE,
              valid |-> {}, invalid |-> {}]
NoEntry   == [used |-> NoNonce, unused |-> NoNonce]

Init ==
  /\ txs = [t \in TxIds |-> [from |-> CHOOSE w \in Workers : TRUE, nonce |-> 0,
                             ops |-> {}, st |-> "unsent"]]
  /\ ntx = 0
  /\ nonceOf = [w \in Workers |-> 0]
  /\ opState = [o \in Ops |-> "fresh"]
  /\ expired = {}
  /\ jobs = [j \in Slots |-> FreeJob]
  /\ submitted = {}
  /\ pc = [w \in Workers |-> "idle"]
  /\ mem = [w \in Workers |-> Idle]
  /\ cache = [w \in Workers |-> NoEntry]
  /\ store = [o \in Ops |-> [error |-> FALSE, finished |-> FALSE,
                             confirmed |-> FALSE, tx |-> NoTx]]
  /\ blind = {}
  /\ budget = [rpc |-> RpcFaults, queue |-> QueueFaults, crash |-> Crashes]

-----------------------------------------------------------------------------
(* Helpers *)

\* One fault of the given kind, taken from its budget.
Fault(kind) == /\ budget[kind] > 0
               /\ budget' = [budget EXCEPT ![kind] = @ - 1]
NoFault     == UNCHANGED budget

\* executorService.addJobs: the batch enters the queue in the first free slot.
AddJob(j, B) ==
  /\ jobs[j].st = "free"
  /\ \A i \in Slots : jobs[i].st = "free" => j <= i
  /\ jobs' = [jobs EXCEPT ![j] = NewJob(B)]

JobOf(w)    == jobs[mem[w].job]
Goto(w, p)  == pc' = [pc EXCEPT ![w] = p]
Locals(w, r) == mem' = [mem EXCEPT ![w] = r]
SetJob(j, r) == jobs' = [jobs EXCEPT ![j] = r]

\* What the EntryPoint accepts now; the whole handleOps call reverts otherwise.
Valid(o)    == opState[o] = "fresh" /\ o \notin Faulty /\ o \notin expired

Included(t) == txs[t].st \in {"mined", "reverted"}
\* The chain will answer for t unless the wait is cut short.
Awaited(t)  == Included(t) \/ (txs[t].st = "pending" /\ txs[t].nonce = nonceOf[txs[t].from])

\* Storage writes. hset overlays the fields it is given: no update clears an error.
MarkFailed(S) ==
  store' = [o \in Ops |-> IF o \in S
                            THEN [store[o] EXCEPT !.error = TRUE, !.finished = TRUE]
                            ELSE store[o]]

ReportWithoutEvents(S, t, r, isConfirmed) ==  \* a missing event goes unnoticed
  /\ store' = [o \in Ops |->
       IF o \in S THEN [error |-> store[o].error \/ opState[o] = "bad", finished |-> TRUE,
                       confirmed |-> isConfirmed, tx |-> t]
                  ELSE store[o]]
  /\ UNCHANGED blind

\* handleSupertransactionExecutionResult with receipt r for the transaction t
\* that was sent: an op without a UserOperationEvent in r is marked failed.
Report(S, t, r, isConfirmed) ==
  /\ store' = [o \in Ops |->
       IF o \in S
         THEN [error     |-> store[o].error \/ o \notin txs[r].ops \/ opState[o] = "bad",
               finished  |-> TRUE,
               confirmed |-> isConfirmed,
               tx        |-> t]
         ELSE store[o]]
  /\ UNCHANGED blind

\* The same without a receipt: every op is marked executed.
ReportBlind(S, t) ==
  /\ store' = [o \in Ops |->
       IF o \in S THEN [store[o] EXCEPT !.finished = TRUE, !.confirmed = TRUE, !.tx = t]
                  ELSE store[o]]
  /\ blind' = blind \cup S

\* handlePostExecution: what the receipt r says of the ops is final, and the job is done.
PostExecution(w, t, r) == Report(mem[w].ops, t, r, TRUE) /\ Goto(w, "finish")

\* Nonce manager
UseCached(w)        == cache[w].unused # NoNonce /\ cache[w].unused # cache[w].used
FetchNonce(w)       == cache' = [cache EXCEPT ![w].unused = nonceOf[w]]
MarkNonceAsUsed(w, n) == cache' = [cache EXCEPT ![w] = [used |-> n, unused |-> n + 1]]

\* Where processJob goes on an error e of executeBlock.
OnError(w, e, hash) ==
  LET m == mem[w] IN
  IF e \in NonRetriable
    THEN IF e = "blockGas" /\ Cardinality(m.ops) = 1
           THEN Goto(w, "throw") /\ UNCHANGED mem
           ELSE /\ Goto(w, "simulate")
                /\ Locals(w, [m EXCEPT !.split = (e = "blockGas"), !.fromPrev = FALSE,
                                     !.tx = NoTx])
    ELSE IF m.again
      THEN Goto(w, "throw") /\ UNCHANGED mem
      ELSE IF e = "timeout" /\ hash # NoTx
        THEN Goto(w, "timeout") /\ UNCHANGED mem
        ELSE /\ Goto(w, "adjust")
             /\ Locals(w, [m EXCEPT !.err = e, !.tx = NoTx])

-----------------------------------------------------------------------------
(* Variants of the actions below with a bug each, which the runs must reject. *)

QueueRetryOnceMore(w) ==     \* off by one in the attempts
  /\ pc[w] = "failed"
  /\ SetJob(mem[w].job, IF JobOf(w).attempts < MaxAttempts
                          THEN [JobOf(w) EXCEPT !.st = "waiting", !.attempts = @ + 1]
                          ELSE FreeJob)
  /\ Locals(w, Idle)
  /\ Goto(w, "idle")
  /\ UNCHANGED <<chain, submitted, cache, storage, budget>>

ThrowTooLate(w) ==           \* the last attempt is not recognised
  /\ pc[w] = "throw"
  /\ IF JobOf(w).attempts = MaxAttempts THEN MarkFailed(mem[w].ops) ELSE UNCHANGED store
  /\ Goto(w, "failed")
  /\ UNCHANGED <<chain, queue, mem, cache, blind, budget>>

PrevReceiptContinues(w) ==   \* the early return after a found receipt is missing
  LET t == JobOf(w).prev IN
  /\ pc[w] = "prev"
  /\ IF txs[t].st = "mined" THEN Report(mem[w].ops, t, t, TRUE) ELSE UNCHANGED storage
  /\ SetJob(mem[w].job, [JobOf(w) EXCEPT !.prev = NoTx])
  /\ Goto(w, "filter")
  /\ UNCHANGED <<chain, submitted, mem, cache, budget>>

ResyncAsUsed(w) ==           \* the nonce of a pending transaction counts as used
  /\ pc[w] = "timeout"
  /\ MarkNonceAsUsed(w, mem[w].nonce)
  /\ Goto(w, "save")
  /\ UNCHANGED <<chain, queue, mem, storage, budget>>

RetainAll(w) ==              \* the job keeps the userOps queued again
  /\ pc[w] = "retain"
  /\ MarkFailed(mem[w].invalid)
  /\ Goto(w, "failed")
  /\ UNCHANGED <<chain, queue, mem, cache, blind, budget>>

-----------------------------------------------------------------------------
(* The queue *)

\* The batcher hands over a block of userOps it has not handed over before.
Submit ==
  /\ \E B \in SUBSET (Ops \ submitted), j \in Slots :
       /\ B # {}
       /\ AddJob(j, B)
       /\ submitted' = submitted \cup B
  /\ UNCHANGED <<chain, thread, storage, budget>>

\* An idle worker is handed a waiting job (concurrency 1 per worker).
Take(w) ==
  /\ pc[w] = "idle"
  /\ \E j \in Slots :
       /\ jobs[j].st = "waiting"
       /\ SetJob(j, [jobs[j] EXCEPT !.st = "active"])
       /\ Locals(w, [Idle EXCEPT !.job = j, !.ops = jobs[j].ops])
       /\ Goto(w, IF jobs[j].prev # NoTx THEN "prev" ELSE "filter")
  /\ UNCHANGED <<chain, submitted, cache, storage, budget>>

\* The processor returned: the job completes and is removed (removeOnComplete).
Finish(w) ==
  /\ pc[w] = "finish"
  /\ SetJob(mem[w].job, FreeJob)
  /\ Locals(w, Idle)
  /\ Goto(w, "idle")
  /\ UNCHANGED <<chain, submitted, cache, storage, budget>>

\* The catch block of processJob: the last attempt gives the ops their error.
Throw(w) ==
  /\ pc[w] = "throw"
  /\ IF JobOf(w).attempts = MaxAttempts - 1
       THEN MarkFailed(mem[w].ops)
       ELSE UNCHANGED store
  /\ Goto(w, "failed")
  /\ UNCHANGED <<chain, queue, mem, cache, blind, budget>>

\* BullMQ's reaction to the rethrown error: retry or drop (removeOnFail).
QueueRetry(w) ==
  /\ pc[w] = "failed"
  /\ SetJob(mem[w].job, IF JobOf(w).attempts + 1 < MaxAttempts
                          THEN [JobOf(w) EXCEPT !.st = "waiting", !.attempts = @ + 1]
                          ELSE FreeJob)
  /\ Locals(w, Idle)
  /\ Goto(w, "idle")
  /\ UNCHANGED <<chain, submitted, cache, storage, budget>>

\* A crash of the chain's executor thread takes all its workers and the nonce cache.
Crash ==
  /\ Fault("crash")
  /\ \E w \in Workers : pc[w] # "idle"
  /\ pc' = [w \in Workers |-> "idle"]
  /\ mem' = [w \in Workers |-> Idle]
  /\ cache' = [w \in Workers |-> NoEntry]
  /\ UNCHANGED <<chain, queue, storage>>

\* BullMQ finds an active job nobody holds; past the limit it fails the job
\* without running the processor.
Stalled ==
  /\ \E j \in Slots :
       /\ jobs[j].st = "active"
       /\ \A w \in Workers : mem[w].job # j
       /\ SetJob(j, IF jobs[j].stalls < MaxStalled
                      THEN [jobs[j] EXCEPT !.st = "waiting", !.stalls = @ + 1]
                      ELSE FreeJob)
  /\ UNCHANGED <<chain, submitted, thread, storage, budget>>

-----------------------------------------------------------------------------
(* processJob *)

\* The receipt of the transaction an earlier attempt timed out on.
PrevReceipt(w) ==
  LET t == JobOf(w).prev IN
  /\ pc[w] = "prev"
  /\ \/ /\ txs[t].st = "mined"
        /\ PostExecution(w, t, t)
        /\ NoFault
        /\ UNCHANGED mem
     \/ /\ txs[t].st = "reverted"
        /\ Goto(w, "simulate")
        /\ Locals(w, [mem[w] EXCEPT !.fromPrev = TRUE, !.split = FALSE])
        /\ NoFault
        /\ UNCHANGED storage
     \/ /\ IF txs[t].st \in {"pending", "gone"} THEN NoFault ELSE Fault("rpc")
        /\ Goto(w, "forget")
        /\ UNCHANGED <<mem, storage>>
  /\ UNCHANGED <<chain, queue, cache>>

\* Whatever failed there is swallowed: the job drops the hash and the block runs again.
Forget(w) ==
  /\ pc[w] = "forget"
  /\ \/ /\ SetJob(mem[w].job, [JobOf(w) EXCEPT !.prev = NoTx])
        /\ Goto(w, "filter")
        /\ NoFault
     \/ /\ Fault("queue")
        /\ Goto(w, "throw")
        /\ UNCHANGED jobs
  /\ UNCHANGED <<chain, submitted, mem, cache, storage>>

\* validateMeeUserOpTimebounds: expired ops are failed and leave the job. Only a
\* block that lost ops here is checked for being empty.
Filter(w) ==
  LET late == mem[w].ops \cap expired
      rest == mem[w].ops \ expired
  IN
  /\ pc[w] = "filter"
  /\ MarkFailed(late)
  /\ Locals(w, [mem[w] EXCEPT !.ops = rest])
  /\ \/ /\ SetJob(mem[w].job, [JobOf(w) EXCEPT !.ops = rest])
        /\ Goto(w, IF late # {} /\ rest = {} THEN "finish" ELSE "nonce")
        /\ NoFault
     \/ /\ late # {}
        /\ Fault("queue")
        /\ Goto(w, "throw")
        /\ UNCHANGED jobs
  /\ UNCHANGED <<chain, submitted, cache, blind>>

\* nonceManagerService.getNonce, from the cache unless it is out of sync.
GetNonce(w) ==
  /\ pc[w] = "nonce"
  /\ \/ /\ IF UseCached(w) THEN UNCHANGED cache ELSE FetchNonce(w)
        /\ Locals(w, [mem[w] EXCEPT !.nonce = cache'[w].unused])
        /\ Goto(w, "send")
        /\ NoFault
     \/ /\ Fault("rpc")
        /\ Goto(w, "throw")
        /\ UNCHANGED <<mem, cache>>
  /\ UNCHANGED <<chain, queue, storage>>

\* adjustNonceAndGasByError: a nonce of 0 does not replace the old one.
Adjust(w) ==
  LET e == mem[w].err IN
  /\ pc[w] = "adjust"
  /\ \/ /\ IF e = "nonce" \/ (e = "gas" /\ ~UseCached(w))
             THEN FetchNonce(w) ELSE UNCHANGED cache
        /\ Locals(w, [mem[w] EXCEPT !.again = TRUE,
                        !.nonce = IF e \in {"nonce", "gas"} /\ cache'[w].unused # 0
                                    THEN cache'[w].unused ELSE @])
        /\ Goto(w, "send")
        /\ NoFault
     \/ /\ e \in {"nonce", "gas"}
        /\ Fault("rpc")
        /\ Goto(w, "throw")
        /\ UNCHANGED <<mem, cache>>
  /\ UNCHANGED <<chain, queue, storage>>

\* The transaction reaches the mempool.
Broadcast(w) ==
  /\ ntx < MaxTx
  /\ GasOverride \/ \A o \in mem[w].ops : Valid(o)
  /\ mem[w].nonce >= nonceOf[w]
  /\ ntx' = ntx + 1
  /\ txs' = [txs EXCEPT ![ntx + 1] = [from |-> w, nonce |-> mem[w].nonce,
                                      ops |-> mem[w].ops, st |-> "pending"]]

\* Errors a healthy RPC answers a send with.
Rejections(w) ==
  IF ~GasOverride /\ \E o \in mem[w].ops : ~Valid(o) THEN {"failedOp"}
  ELSE IF mem[w].nonce < nonceOf[w] THEN {"nonce"}
  ELSE IF \E t \in TxIds : /\ txs[t].st = "pending"
                           /\ txs[t].from = w
                           /\ txs[t].nonce = mem[w].nonce
         THEN {"nonce", "gas"}  \* already known, replacement underpriced
  ELSE {}

\* executeBlock up to the answer of the send.
Send(w) ==
  /\ pc[w] = "send"
  /\ \/ /\ Broadcast(w)
        /\ Locals(w, [mem[w] EXCEPT !.tx = ntx'])
        /\ Goto(w, "fast")
        /\ NoFault
     \/ /\ \E e \in Rejections(w) : OnError(w, e, NoTx)
        /\ NoFault
        /\ UNCHANGED <<txs, ntx>>
     \/ /\ Fault("rpc")                     \* nothing was sent
        /\ \E e \in Errors \ {"failedOp"} : OnError(w, e, NoTx)
        /\ UNCHANGED <<txs, ntx>>
     \/ /\ Fault("rpc")                     \* sent, but the answer was lost
        /\ Broadcast(w)
        /\ \E e \in {"nonce", "timeout", "sync", "unrecognized"} : OnError(w, e, NoTx)
  /\ UNCHANGED <<nonceOf, opState, expired, queue, cache, storage>>

\* In sync mode the send itself answers with the receipt of one confirmation; a revert, or
\* no receipt in time, is an error of the send.
SyncReceipt(w) ==
  LET t == mem[w].tx IN
  \/ /\ Included(t)
     /\ NoFault
     /\ MarkNonceAsUsed(w, mem[w].nonce)
     /\ IF txs[t].st = "mined"
          THEN /\ Report(mem[w].ops, t, t, FALSE)
               /\ Goto(w, "wait")
               /\ UNCHANGED mem
          ELSE /\ OnError(w, "unrecognized", NoTx)
               /\ UNCHANGED storage
  \/ /\ IF Awaited(t) THEN Fault("rpc") ELSE NoFault
     /\ \E e \in {"timeout", "sync"} : OnError(w, e, NoTx)
     /\ UNCHANGED <<cache, storage>>

\* Otherwise the receipt is asked for, and an error of that is swallowed.
AsyncReceipt(w) ==
  LET t == mem[w].tx IN
  /\ \/ /\ Included(t)
        /\ MarkNonceAsUsed(w, mem[w].nonce)
        /\ IF txs[t].st = "mined" THEN Report(mem[w].ops, t, t, FALSE)
                                  ELSE UNCHANGED storage
     \/ UNCHANGED <<cache, storage>>
  /\ Goto(w, "wait")
  /\ NoFault
  /\ UNCHANGED mem

\* The fast receipt, of one confirmation.
FastReceipt(w) ==
  /\ pc[w] = "fast"
  /\ IF SyncMode THEN SyncReceipt(w) ELSE AsyncReceipt(w)
  /\ UNCHANGED <<chain, queue>>

\* handleDefaultBlockTxReceipt: waitForTransactionReceipt may answer with the
\* receipt of a transaction that took the same nonce.
WaitReceipt(w) ==
  LET t == mem[w].tx IN
  /\ pc[w] = "wait"
  /\ \/ /\ \E r \in TxIds :
             /\ Included(r) /\ txs[r].from = w /\ txs[r].nonce = mem[w].nonce
             /\ MarkNonceAsUsed(w, mem[w].nonce)
             /\ IF txs[r].st = "mined"
                  THEN PostExecution(w, t, r) /\ UNCHANGED mem
                  ELSE /\ OnError(w, "unrecognized", NoTx)
                       /\ UNCHANGED storage
        /\ NoFault
     \/ /\ IF Awaited(t) THEN Fault("rpc") ELSE NoFault
        /\ OnError(w, "timeout", t)
        /\ UNCHANGED <<cache, storage>>
     \/ /\ Fault("rpc")
        /\ ReportBlind(mem[w].ops, t)
        /\ Goto(w, "finish")
        /\ UNCHANGED <<mem, cache>>
  /\ UNCHANGED <<chain, queue>>

\* The first send timed out with a hash: the nonce is read afresh ...
Resync(w) ==
  /\ pc[w] = "timeout"
  /\ \/ FetchNonce(w) /\ NoFault
     \/ Fault("rpc") /\ UNCHANGED cache
  /\ Goto(w, "save")
  /\ UNCHANGED <<chain, queue, mem, storage>>

\* ... and the job keeps the hash, whether or not the nonce was read. Then it fails.
SaveTimedOut(w) ==
  /\ pc[w] = "save"
  /\ \/ /\ SetJob(mem[w].job, [JobOf(w) EXCEPT !.prev = mem[w].tx])
        /\ NoFault
     \/ Fault("queue") /\ UNCHANGED jobs
  /\ Goto(w, "throw")
  /\ UNCHANGED <<chain, submitted, mem, cache, storage>>

\* simulateBlockExecution; an RPC failure makes a good op look faulty.
Simulate(w) ==
  LET bad == {o \in mem[w].ops : ~Valid(o)} IN
  /\ pc[w] = "simulate"
  /\ \E S \in SUBSET mem[w].ops :
       /\ bad \subseteq S
       /\ IF S = bad THEN NoFault ELSE Fault("rpc")
       /\ Locals(w, [mem[w] EXCEPT !.invalid = S, !.valid = mem[w].ops \ S])
  /\ Goto(w, "add")
  /\ UNCHANGED <<chain, queue, cache, storage>>

\* An error while the block is taken apart: swallowed when it came from the
\* previous receipt (the block runs again), else a retry.
RegenerationFails(w) ==
  /\ Fault("queue")
  /\ IF mem[w].fromPrev
       THEN /\ Locals(w, [mem[w] EXCEPT !.fromPrev = FALSE, !.valid = {}, !.invalid = {}])
            /\ Goto(w, "forget")
       ELSE Goto(w, "throw") /\ UNCHANGED mem
  /\ UNCHANGED <<jobs, store>>

\* The valid ops go back to the queue, together or each in a job of its own.
Regenerate(w) ==
  /\ pc[w] = "add"
  /\ \/ /\ mem[w].valid # {}
        /\ \E S \in SUBSET mem[w].valid, j \in Slots :
             /\ IF mem[w].split THEN Cardinality(S) = 1 ELSE S = mem[w].valid
             /\ AddJob(j, S)
             /\ Locals(w, [mem[w] EXCEPT !.valid = @ \ S])
        /\ NoFault
        /\ UNCHANGED <<pc, store>>
     \/ /\ mem[w].valid # {}
        /\ RegenerationFails(w)
     \/ /\ mem[w].valid = {}
        /\ Goto(w, "retain")
        /\ NoFault
        /\ UNCHANGED <<jobs, mem, store>>
  /\ UNCHANGED <<chain, submitted, cache, blind>>

\* The faulty ops stay in the job and are marked reverted.
Retain(w) ==
  /\ pc[w] = "retain"
  /\ \/ /\ SetJob(mem[w].job, [JobOf(w) EXCEPT !.ops = mem[w].invalid, !.prev = NoTx])
        /\ MarkFailed(mem[w].invalid)
        /\ Goto(w, "finish")
        /\ NoFault
        /\ UNCHANGED mem
     \/ RegenerationFails(w)
  /\ UNCHANGED <<chain, submitted, cache, blind>>

-----------------------------------------------------------------------------
(* The chain *)

\* A pending transaction is included. handleOps reverts as a whole when an op is
\* invalid; other transactions with the same nonce can no longer be included.
Include(t) ==
  LET x  == txs[t]
      ok == \A o \in x.ops : Valid(o)
  IN
  /\ x.st = "pending"
  /\ x.nonce = nonceOf[x.from]
  /\ txs' = [u \in TxIds |->
       IF u = t THEN [x EXCEPT !.st = IF ok THEN "mined" ELSE "reverted"]
       ELSE IF /\ txs[u].st = "pending"
               /\ txs[u].from = x.from
               /\ txs[u].nonce = x.nonce
              THEN [txs[u] EXCEPT !.st = "gone"]
       ELSE txs[u]]
  /\ nonceOf' = [nonceOf EXCEPT ![x.from] = @ + 1]
  /\ opState' = [o \in Ops |-> IF ok /\ o \in x.ops
                                 THEN IF o \in Failing THEN "bad" ELSE "ok"
                                 ELSE opState[o]]
  /\ UNCHANGED <<ntx, expired, queue, thread, storage, budget>>

\* A pending transaction falls out of the mempool.
Drop(t) ==
  /\ txs[t].st = "pending"
  /\ Fault("rpc")
  /\ txs' = [txs EXCEPT ![t].st = "gone"]
  /\ UNCHANGED <<ntx, nonceOf, opState, expired, queue, thread, storage>>

\* Time passes the upper bound of o.
Expire(o) ==
  /\ o \in Expiring \ expired
  /\ expired' = expired \cup {o}
  /\ UNCHANGED <<txs, ntx, nonceOf, opState, queue, thread, storage, budget>>

-----------------------------------------------------------------------------
Step(w) ==
  \/ Take(w) \/ PrevReceipt(w) \/ Forget(w) \/ Filter(w) \/ GetNonce(w) \/ Send(w)
  \/ FastReceipt(w) \/ WaitReceipt(w) \/ Resync(w) \/ SaveTimedOut(w) \/ Adjust(w)
  \/ Simulate(w) \/ Regenerate(w) \/ Retain(w) \/ Finish(w) \/ Throw(w)
  \/ QueueRetry(w)

Next ==
  \/ Submit \/ Crash \/ Stalled
  \/ \E w \in Workers : Step(w)
  \/ \E t \in TxIds : Include(t) \/ Drop(t)
  \/ \E o \in Ops : Expire(o)

Spec == Init /\ [][Next]_vars

\* Workers keep running, the stalled check is periodic, and the chain includes a
\* transaction whose nonce is next unless the environment drops it.
Fairness ==
  /\ \A w \in Workers : WF_vars(Step(w))
  /\ WF_vars(Stalled)
  /\ \A t \in TxIds : WF_vars(Include(t))

FairSpec == Spec /\ Fairness

-----------------------------------------------------------------------------
TypeOK ==
  /\ txs \in [TxIds -> Tx]
  /\ ntx \in 0..MaxTx
  /\ nonceOf \in [Workers -> Nat]
  /\ opState \in [Ops -> {"fresh", "ok", "bad"}]
  /\ expired \subseteq Expiring
  /\ jobs \in [Slots -> Job]
  /\ submitted \subseteq Ops
  /\ pc \in [Workers -> Phases]
  /\ mem \in [Workers -> Local]
  /\ cache \in [Workers -> Entry]
  /\ store \in [Ops -> Field]
  /\ blind \subseteq Ops
  /\ budget \in [{"rpc", "queue", "crash"} -> Nat]

Live(j) == jobs[j].st # "free"

\* The nonce manager never runs ahead of the chain: neither the cached nonce nor
\* a pending transaction waits for a nonce nobody will fill (edge case 5 of
\* nonce-manager.service.ts).
NoFutureNonce ==
  /\ \A w \in Workers : cache[w].unused <= nonceOf[w]
  /\ \A t \in TxIds : txs[t].st = "pending" => txs[t].nonce <= nonceOf[txs[t].from]

\* A userOp reported as executed with a receipt was executed on chain with
\* success, whichever transaction the receipt belonged to.
SuccessIsReal ==
  \A o \in Ops :
    store[o].finished /\ ~store[o].error /\ o \notin blind => opState[o] = "ok"

\* No queue call has failed and no thread has died.
Undisturbed == budget.queue = QueueFaults /\ budget.crash = Crashes

\* Every userOp handed to the queue is in a live job until it has its final status:
\* splitting, regenerating, retrying, expiring and restarting never drop one. And it is in
\* one job only, except while its worker adds new blocks: as long as queue and threads are
\* undisturbed it is never executed from two blocks (processJob,
\* handleUserOpsRevertsFromBlock).
OpInOneJob ==
  \A o \in Ops : LET holding == {j \in Slots : Live(j) /\ o \in jobs[j].ops} IN
    /\ o \in submitted => store[o].finished \/ holding # {}
    /\ Undisturbed => \A i, j \in holding :
         i = j \/ \E w \in Workers : mem[w].job \in {i, j} /\ pc[w] \in {"add", "retain"}

\* A confirmed success is final: no later job, retry or regenerated block turns
\* it into an error or takes its transaction away.
ConfirmedIsFinal ==
  [][\A o \in Ops :
       Undisturbed /\ store[o].confirmed /\ ~store[o].error => store'[o] = store[o]]_vars

\* Every userOp handed to the queue gets a final status, through retries, splits
\* and one restart of the thread, by the end of its attempts at the latest.
EveryOpFinishes == \A o \in Ops : (o \in submitted) ~> store[o].finished
=============================================================================
