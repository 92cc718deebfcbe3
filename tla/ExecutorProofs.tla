--------------------------- MODULE ExecutorProofs ---------------------------
(***************************************************************************)
(* Safety of block execution for every number of userOps, workers, jobs,   *)
(* attempts and faults.                                                    *)
(***************************************************************************)
EXTENDS Executor, TLAPS

\* A worker that is not idle holds a job.
BusyHasJob == \A w \in Workers : pc[w] # "idle" => mem[w].job \in Slots

TypeInv == TypeOK /\ BusyHasJob

LEMMA ConstantFacts ==
  /\ MaxJobs \in Nat /\ MaxTx \in Nat /\ MaxAttempts \in Nat /\ MaxStalled \in Nat
  /\ RpcFaults \in Nat /\ QueueFaults \in Nat /\ Crashes \in Nat
  /\ Workers # {}
BY ConstantsOK DEF ConstantsOK

LEMMA JobTypes ==
  /\ FreeJob \in Job
  /\ \A B \in SUBSET Ops : NewJob(B) \in Job
BY ConstantFacts DEF FreeJob, NewJob, Job, Attempts, NoTx

LEMMA LocalTypes ==
  /\ Idle \in Local
  /\ NoEntry \in Entry
BY DEF Idle, Local, Errors, Retriable, NoTx, NoJob, NoNonce, NoEntry, Entry

LEMMA TypeInit == Init => TypeInv
<1> SUFFICES ASSUME Init PROVE TypeInv
  OBVIOUS
<1>1. txs \in [TxIds -> Tx]
  BY ConstantFacts DEF Init, Tx
<1>2. jobs \in [Slots -> Job] /\ mem \in [Workers -> Local] /\ cache \in [Workers -> Entry]
  BY JobTypes, LocalTypes DEF Init
<1>3. store \in [Ops -> Field]
  BY DEF Init, Field, NoTx
<1>4. budget \in [{"rpc", "queue", "crash"} -> Nat]
  BY ConstantFacts DEF Init
<1>5. pc \in [Workers -> Phases] /\ BusyHasJob
  BY DEF Init, Phases, BusyHasJob
<1>6. ntx \in 0..MaxTx /\ nonceOf \in [Workers -> Nat]
  BY ConstantFacts DEF Init
<1>7. /\ opState \in [Ops -> {"fresh", "ok", "bad"}]
      /\ expired \subseteq Expiring /\ submitted \subseteq Ops /\ blind \subseteq Ops
  BY DEF Init
<1> QED
  BY <1>1, <1>2, <1>3, <1>4, <1>5, <1>6, <1>7 DEF TypeInv, TypeOK

ChainOK   == /\ txs \in [TxIds -> Tx] /\ ntx \in 0..MaxTx /\ nonceOf \in [Workers -> Nat]
             /\ opState \in [Ops -> {"fresh", "ok", "bad"}] /\ expired \subseteq Expiring
QueueOK   == jobs \in [Slots -> Job] /\ submitted \subseteq Ops
ThreadOK  == pc \in [Workers -> Phases] /\ mem \in [Workers -> Local] /\ BusyHasJob
CacheOK   == cache \in [Workers -> Entry]
StorageOK == store \in [Ops -> Field] /\ blind \subseteq Ops
BudgetOK  == budget \in [{"rpc", "queue", "crash"} -> Nat]

LEMMA TypeParts ==
  TypeInv <=> ChainOK /\ QueueOK /\ ThreadOK /\ CacheOK /\ StorageOK /\ BudgetOK
BY DEF TypeInv, TypeOK, ChainOK, QueueOK, ThreadOK, CacheOK, StorageOK, BudgetOK

LEMMA FaultType ==
  ASSUME TypeInv, NoFault \/ \E k \in {"rpc", "queue", "crash"} : Fault(k)
  PROVE  BudgetOK'
<1>1. budget \in [{"rpc", "queue", "crash"} -> Nat]
  BY DEF TypeInv, TypeOK
<1>2. CASE NoFault
  BY <1>1, <1>2 DEF NoFault, BudgetOK
<1>3. CASE \E k \in {"rpc", "queue", "crash"} : Fault(k)
  BY <1>1, <1>3 DEF Fault, BudgetOK
<1> QED BY <1>2, <1>3

\* One worker moves to phase p with locals r, the others stay as they are.
LEMMA ThreadStep ==
  ASSUME TypeInv, NEW w \in Workers, NEW p \in Phases, Goto(w, p),
         NEW r \in Local, Locals(w, r) \/ (UNCHANGED mem /\ r = mem[w]),
         p = "idle" \/ r.job \in Slots
  PROVE  ThreadOK'
BY DEF TypeInv, TypeOK, BusyHasJob, ThreadOK, Goto, Locals

LEMMA JobStep ==
  ASSUME TypeInv, NEW j, NEW r \in Job, SetJob(j, r)
  PROVE  jobs' \in [Slots -> Job]
BY DEF TypeInv, TypeOK, SetJob

LEMMA OnErrorType ==
  ASSUME TypeInv, NEW w \in Workers, NEW e \in Errors, NEW hash,
         OnError(w, e, hash), pc[w] # "idle"
  PROVE  ThreadOK'
<1> DEFINE m == mem[w]
<1>1. m \in Local /\ m.job \in Slots
  BY DEF TypeInv, TypeOK, BusyHasJob
<1>2. PICK p \in Phases : Goto(w, p)
  BY DEF OnError, Phases
<1>3. CASE UNCHANGED mem
  BY <1>1, <1>2, <1>3, ThreadStep
<1>4. CASE Locals(w, [m EXCEPT !.split = (e = "blockGas"), !.fromPrev = FALSE, !.tx = NoTx])
  <2> DEFINE r == [m EXCEPT !.split = (e = "blockGas"), !.fromPrev = FALSE, !.tx = NoTx]
  <2>1. r \in Local /\ r.job = m.job
    BY <1>1 DEF Local, NoTx
  <2> QED BY <1>1, <1>2, <1>4, <2>1, ThreadStep
<1>5. CASE Locals(w, [m EXCEPT !.err = e, !.tx = NoTx])
  <2> DEFINE r == [m EXCEPT !.err = e, !.tx = NoTx]
  <2>1. r \in Local /\ r.job = m.job
    BY <1>1 DEF Local, NoTx
  <2> QED BY <1>1, <1>2, <1>5, <2>1, ThreadStep
<1> QED BY <1>3, <1>4, <1>5 DEF OnError

\* Report, ReportBlind and MarkFailed write well-formed fields.
LEMMA StorageType ==
  ASSUME TypeInv, NEW S \in SUBSET Ops, NEW t \in TxIds \cup {NoTx}, NEW r, NEW c \in BOOLEAN,
         \/ MarkFailed(S) /\ UNCHANGED blind
         \/ Report(S, t, r, c) \/ ReportBlind(S, t)
         \/ UNCHANGED storage
  PROVE  StorageOK'
<1>1. store \in [Ops -> Field] /\ blind \subseteq Ops
  BY DEF TypeInv, TypeOK
<1>2. CASE MarkFailed(S) /\ UNCHANGED blind
  BY <1>1, <1>2 DEF MarkFailed, Field, StorageOK
<1>3. CASE Report(S, t, r, c)
  BY <1>1, <1>3 DEF Report, Field, StorageOK
<1>4. CASE ReportBlind(S, t)
  BY <1>1, <1>4 DEF ReportBlind, Field, StorageOK
<1>5. CASE UNCHANGED storage
  BY <1>1, <1>5 DEF storage, StorageOK
<1> QED BY <1>2, <1>3, <1>4, <1>5

LEMMA TypeStep == TypeInv /\ [Next]_vars => TypeInv'
<1> SUFFICES ASSUME TypeInv, [Next]_vars PROVE TypeInv'
  OBVIOUS
<1> USE DEF Phases
<1>0. ChainOK /\ QueueOK /\ ThreadOK /\ CacheOK /\ StorageOK /\ BudgetOK
  BY TypeParts
<1>u. /\ UNCHANGED chain => ChainOK'
      /\ UNCHANGED queue => QueueOK'
      /\ UNCHANGED jobs /\ UNCHANGED submitted => QueueOK'
      /\ UNCHANGED <<pc, mem>> => ThreadOK'
      /\ UNCHANGED cache => CacheOK'
      /\ UNCHANGED storage => StorageOK'
      /\ UNCHANGED budget => BudgetOK'
  BY <1>0 DEF chain, queue, storage, ChainOK, QueueOK, ThreadOK, BusyHasJob, CacheOK,
              StorageOK, BudgetOK
<1>p. ChainOK' /\ QueueOK' /\ ThreadOK' /\ CacheOK' /\ StorageOK' /\ BudgetOK' => TypeInv'
  BY DEF TypeInv, TypeOK, ChainOK, QueueOK, ThreadOK, CacheOK, StorageOK, BudgetOK
<1>1. CASE Submit
  <2>1. PICK B \in SUBSET Ops, j \in Slots : AddJob(j, B) /\ submitted' = submitted \cup B
    BY <1>1 DEF Submit
  <2>2. QueueOK'
    BY <1>0, <2>1, JobTypes DEF AddJob, QueueOK
  <2> QED BY <1>1, <1>u, <2>2, <1>p DEF Submit, thread
<1>2. CASE Crash
  <2>1. ThreadOK' /\ CacheOK'
    BY <1>2, LocalTypes DEF Crash, ThreadOK, CacheOK, BusyHasJob
  <2> QED BY <1>2, <1>u, <2>1, FaultType, <1>p DEF Crash
<1>3. CASE Stalled
  <2>1. PICK j \in Slots :
          SetJob(j, IF jobs[j].stalls < MaxStalled
                      THEN [jobs[j] EXCEPT !.st = "waiting", !.stalls = @ + 1]
                      ELSE FreeJob)
    BY <1>3 DEF Stalled
  <2>2. jobs[j].stalls < MaxStalled => [jobs[j] EXCEPT !.st = "waiting", !.stalls = @ + 1] \in Job
    <3>1. jobs[j] \in Job
      BY <1>0 DEF QueueOK
    <3>2. jobs[j].stalls < MaxStalled => jobs[j].stalls + 1 \in 0..MaxStalled
      BY <3>1, ConstantFacts DEF Job
    <3> QED BY <3>1, <3>2 DEF Job
  <2>3. QueueOK'
    BY <1>3, <1>0, <2>1, <2>2, JobTypes, JobStep DEF QueueOK, Stalled
  <2> QED BY <1>3, <1>u, <2>3, <1>p DEF Stalled, thread
<1>4. ASSUME NEW w \in Workers, Step(w) PROVE TypeInv'
  <2>0. /\ mem[w] \in Local
        /\ pc[w] # "idle" => mem[w].job \in Slots /\ JobOf(w) \in Job
        /\ cache[w] \in Entry /\ nonceOf[w] \in Nat
    BY <1>0 DEF ThreadOK, QueueOK, CacheOK, ChainOK, BusyHasJob, JobOf
  <2>c. (FetchNonce(w) \/ UNCHANGED cache \/ MarkNonceAsUsed(w, mem[w].nonce)) => CacheOK'
    BY <1>0, <2>0 DEF CacheOK, Entry, FetchNonce, MarkNonceAsUsed, Local
  <2>1. CASE Take(w)
    <3>1. PICK j \in Slots :
            /\ SetJob(j, [jobs[j] EXCEPT !.st = "active"])
            /\ Locals(w, [Idle EXCEPT !.job = j, !.ops = jobs[j].ops])
            /\ Goto(w, IF jobs[j].prev # NoTx THEN "prev" ELSE "filter")
      BY <2>1 DEF Take
    <3> DEFINE r == [Idle EXCEPT !.job = j, !.ops = jobs[j].ops]
    <3>2. jobs[j] \in Job
      BY <1>0 DEF QueueOK
    <3>3. [jobs[j] EXCEPT !.st = "active"] \in Job
      BY <3>2 DEF Job
    <3>4. r \in Local /\ r.job = j
      BY <3>2, LocalTypes DEF Job, Local
    <3>5. ThreadOK'
      BY <3>1, <3>4, ThreadStep
    <3>6. QueueOK'
      BY <2>1, <1>0, <3>1, <3>3, JobStep DEF Take, QueueOK
    <3> QED BY <2>1, <1>u, <3>5, <3>6, <1>p DEF Take
  <2>2. CASE PrevReceipt(w)
    <3>1. JobOf(w).prev \in TxIds \cup {NoTx} /\ mem[w].ops \in SUBSET Ops
      BY <2>0, <2>2 DEF PrevReceipt, PostExecution, Job, Local
    <3>2. StorageOK'
      BY <2>2, <3>1, StorageType DEF PrevReceipt, PostExecution
    <3>3. BudgetOK'
      BY <2>2, FaultType DEF PrevReceipt, PostExecution
    <3>4. ThreadOK'
      <4>1. [mem[w] EXCEPT !.fromPrev = TRUE, !.split = FALSE] \in Local
        BY <2>0 DEF Local
      <4>2. [mem[w] EXCEPT !.fromPrev = TRUE, !.split = FALSE].job = mem[w].job
        BY <2>0 DEF Local
      <4> QED BY <2>0, <2>2, <4>1, <4>2, ThreadStep DEF PrevReceipt, PostExecution
    <3> QED BY <2>2, <1>u, <3>2, <3>3, <3>4, <1>p DEF PrevReceipt, PostExecution
  <2>16. CASE Forget(w)
    <3>1. [JobOf(w) EXCEPT !.prev = NoTx] \in Job
      BY <2>0, <2>16 DEF Forget, Job, NoTx
    <3>2. QueueOK'
      BY <1>0, <2>16, <3>1, JobStep DEF Forget, QueueOK
    <3>3. ThreadOK'
      BY <2>0, <2>16, ThreadStep DEF Forget
    <3>4. BudgetOK'
      BY <2>16, FaultType DEF Forget
    <3> QED BY <2>16, <1>u, <3>2, <3>3, <3>4, <1>p DEF Forget
  <2>3. CASE Filter(w)
    <3> DEFINE rest == mem[w].ops \ expired
    <3>1. [JobOf(w) EXCEPT !.ops = rest] \in Job /\ [mem[w] EXCEPT !.ops = rest] \in Local
          /\ [mem[w] EXCEPT !.ops = rest].job = mem[w].job
      BY <2>0, <2>3 DEF Filter, Job, Local
    <3>2. MarkFailed(mem[w].ops \cap expired) /\ UNCHANGED blind => StorageOK'
      BY <2>0, StorageType DEF Local, NoTx
    <3>3. ThreadOK'
      BY <2>0, <2>3, <3>1, ThreadStep DEF Filter
    <3>4. QueueOK'
      BY <1>0, <2>3, <3>1, JobStep DEF Filter, QueueOK
    <3>5. BudgetOK'
      BY <2>3, FaultType DEF Filter
    <3> QED BY <2>3, <1>u, <3>2, <3>3, <3>4, <3>5, <1>p DEF Filter
  <2>4. CASE GetNonce(w)
    <3> DEFINE r == [mem[w] EXCEPT !.nonce = cache'[w].unused]
    <3>1. CacheOK'
      BY <2>4, <2>c DEF GetNonce
    <3>2. r \in Local /\ r.job = mem[w].job
      <4>1. cache'[w].unused \in Int
        BY <3>1 DEF CacheOK, Entry
      <4> QED BY <4>1, <2>0 DEF Local
    <3>3. ThreadOK'
      BY <2>0, <2>4, <3>2, ThreadStep DEF GetNonce
    <3>4. BudgetOK'
      BY <2>4, FaultType DEF GetNonce
    <3> QED BY <2>4, <1>u, <3>1, <3>3, <3>4, <1>p DEF GetNonce
  <2>5. CASE Send(w)
    <3> DEFINE x == [from |-> w, nonce |-> mem[w].nonce, ops |-> mem[w].ops, st |-> "pending"]
               r == [mem[w] EXCEPT !.tx = ntx']
    <3>1. Broadcast(w) => /\ ntx' \in TxIds /\ ntx' \in 0..MaxTx
                          /\ txs' \in [TxIds -> Tx]
      <4> SUFFICES ASSUME Broadcast(w) PROVE ntx' \in TxIds /\ ntx' \in 0..MaxTx /\ txs' \in [TxIds -> Tx]
        OBVIOUS
      <4>1. x \in Tx
        BY <2>0 DEF Broadcast, Tx, Local
      <4>2. ntx' \in TxIds /\ ntx' \in 0..MaxTx
        BY <1>0, ConstantFacts DEF ChainOK, Broadcast, TxIds
      <4>3. txs' = [txs EXCEPT ![ntx + 1] = x]
        BY DEF Broadcast
      <4> QED BY <4>1, <4>2, <4>3, <1>0 DEF ChainOK
    <3>2. ChainOK'
      BY <2>5, <1>0, <3>1 DEF Send, ChainOK
    <3>3. Broadcast(w) => r \in Local /\ r.job = mem[w].job
      BY <2>0, <3>1 DEF Local
    <3>4. ThreadOK'
      <4>1. Rejections(w) \subseteq Errors
        BY DEF Rejections, Errors, NonRetriable, Retriable
      <4>2. Errors \ {"failedOp"} \subseteq Errors /\ {"nonce", "timeout", "sync", "unrecognized"} \subseteq Errors
        BY DEF Errors, NonRetriable, Retriable
      <4>3. (\E e \in Errors : OnError(w, e, NoTx)) => ThreadOK'
        BY <2>5, OnErrorType DEF Send
      <4>4. Broadcast(w) /\ Locals(w, r) /\ Goto(w, "fast") => ThreadOK'
        BY <2>0, <2>5, <3>3, ThreadStep DEF Send
      <4> QED BY <2>5, <4>1, <4>2, <4>3, <4>4 DEF Send
    <3>5. BudgetOK'
      BY <2>5, FaultType DEF Send
    <3> QED BY <2>5, <1>u, <3>2, <3>4, <3>5, <1>p DEF Send
  <2>6. CASE FastReceipt(w)
    <3>1. mem[w].ops \in SUBSET Ops /\ mem[w].tx \in TxIds \cup {NoTx}
      BY <2>0 DEF Local
    <3>2. StorageOK'
      BY <2>6, <3>1, StorageType DEF FastReceipt, SyncReceipt, AsyncReceipt
    <3>3. CacheOK'
      BY <2>6, <2>c DEF FastReceipt, SyncReceipt, AsyncReceipt
    <3>4. BudgetOK'
      BY <2>6, FaultType DEF FastReceipt, SyncReceipt, AsyncReceipt
    <3>5. ThreadOK'
      <4>1. "unrecognized" \in Errors /\ {"timeout", "sync"} \subseteq Errors
        BY DEF Errors, NonRetriable, Retriable
      <4>2. (\E e \in Errors : OnError(w, e, NoTx)) => ThreadOK'
        BY <2>6, OnErrorType DEF FastReceipt, SyncReceipt, AsyncReceipt
      <4>3. Goto(w, "wait") /\ UNCHANGED mem => ThreadOK'
        BY <2>0, <2>6, ThreadStep DEF FastReceipt, SyncReceipt, AsyncReceipt
      <4> QED BY <2>6, <4>1, <4>2, <4>3 DEF FastReceipt, SyncReceipt, AsyncReceipt
    <3> QED BY <2>6, <1>u, <3>2, <3>3, <3>4, <3>5, <1>p DEF FastReceipt, SyncReceipt, AsyncReceipt
  <2>7. CASE WaitReceipt(w)
    <3>1. mem[w].ops \in SUBSET Ops /\ mem[w].tx \in TxIds \cup {NoTx}
      BY <2>0 DEF Local
    <3>2. StorageOK'
      BY <2>7, <3>1, StorageType DEF WaitReceipt, PostExecution
    <3>3. CacheOK'
      BY <2>7, <2>c DEF WaitReceipt, PostExecution
    <3>4. BudgetOK'
      BY <2>7, FaultType DEF WaitReceipt, PostExecution
    <3>5. ThreadOK'
      <4>1. "unrecognized" \in Errors /\ "timeout" \in Errors
        BY DEF Errors, NonRetriable, Retriable
      <4>2. (\E e \in Errors, t \in TxIds \cup {NoTx} : OnError(w, e, t)) => ThreadOK'
        BY <2>7, OnErrorType DEF WaitReceipt, PostExecution
      <4>3. Goto(w, "finish") /\ UNCHANGED mem => ThreadOK'
        BY <2>0, <2>7, ThreadStep DEF WaitReceipt, PostExecution
      <4> QED BY <2>7, <3>1, <4>1, <4>2, <4>3 DEF WaitReceipt, PostExecution, NoTx
    <3> QED BY <2>7, <1>u, <3>2, <3>3, <3>4, <3>5, <1>p DEF WaitReceipt, PostExecution
  <2>8. CASE SaveTimedOut(w)
    <3>1. [JobOf(w) EXCEPT !.prev = mem[w].tx] \in Job
      BY <2>0, <2>8 DEF SaveTimedOut, Job, Local
    <3>2. QueueOK'
      BY <1>0, <2>8, <3>1, JobStep DEF SaveTimedOut, QueueOK
    <3>3. ThreadOK'
      BY <2>0, <2>8, ThreadStep DEF SaveTimedOut
    <3>4. BudgetOK'
      BY <2>8, FaultType DEF SaveTimedOut
    <3> QED BY <2>8, <1>u, <3>2, <3>3, <3>4, <1>p DEF SaveTimedOut
  <2>17. CASE Resync(w)
    <3>1. ThreadOK'
      BY <2>0, <2>17, ThreadStep DEF Resync
    <3>2. CacheOK' /\ BudgetOK'
      BY <2>17, <2>c, FaultType DEF Resync
    <3> QED BY <2>17, <1>u, <3>1, <3>2, <1>p DEF Resync
  <2>9. CASE Adjust(w)
    <3> DEFINE r == [mem[w] EXCEPT !.again = TRUE,
                       !.nonce = IF mem[w].err \in {"nonce", "gas"} /\ cache'[w].unused # 0
                                   THEN cache'[w].unused ELSE @]
    <3>1. CacheOK'
      BY <2>9, <2>c DEF Adjust
    <3>2. r \in Local /\ r.job = mem[w].job
      <4>1. cache'[w].unused \in Int
        BY <3>1 DEF CacheOK, Entry
      <4> QED BY <4>1, <2>0 DEF Local
    <3>3. ThreadOK'
      BY <2>0, <2>9, <3>2, ThreadStep DEF Adjust
    <3>4. BudgetOK'
      BY <2>9, FaultType DEF Adjust
    <3> QED BY <2>9, <1>u, <3>1, <3>3, <3>4, <1>p DEF Adjust
  <2>10. CASE Simulate(w)
    <3>1. \A S \in SUBSET mem[w].ops :
            LET r == [mem[w] EXCEPT !.invalid = S, !.valid = mem[w].ops \ S]
            IN  r \in Local /\ r.job = mem[w].job
      BY <2>0 DEF Local
    <3>2. ThreadOK'
      BY <2>0, <2>10, <3>1, ThreadStep DEF Simulate
    <3>3. BudgetOK'
      BY <2>10, FaultType DEF Simulate
    <3> QED BY <2>10, <1>u, <3>2, <3>3, <1>p DEF Simulate
  <2>f. ASSUME RegenerationFails(w), pc[w] # "idle", UNCHANGED <<submitted, blind>>
        PROVE  ThreadOK' /\ QueueOK' /\ StorageOK' /\ BudgetOK'
    <3>1. LET r == [mem[w] EXCEPT !.fromPrev = FALSE, !.valid = {}, !.invalid = {}]
          IN  r \in Local /\ r.job = mem[w].job
      BY <2>0 DEF Local
    <3>2. ThreadOK'
      BY <2>0, <2>f, <3>1, ThreadStep DEF RegenerationFails
    <3>3. QueueOK' /\ StorageOK' /\ BudgetOK'
      BY <1>u, <2>f, FaultType DEF RegenerationFails, storage
    <3> QED BY <3>2, <3>3
  <2>11. CASE Regenerate(w)
    <3>1. \A S \in SUBSET mem[w].valid :
            LET r == [mem[w] EXCEPT !.valid = @ \ S]
            IN  r \in Local /\ r.job = mem[w].job /\ S \in SUBSET Ops
      BY <2>0 DEF Local
    <3>2. CASE RegenerationFails(w)
      BY <2>11, <1>u, <2>f, <3>2, <1>p DEF Regenerate
    <3>3. CASE \E S \in SUBSET mem[w].valid, j \in Slots :
                 /\ AddJob(j, S) /\ Locals(w, [mem[w] EXCEPT !.valid = @ \ S])
                 /\ NoFault /\ UNCHANGED <<pc, store>>
      <4>1. QueueOK'
        BY <1>0, <2>11, <3>1, <3>3, JobTypes DEF AddJob, QueueOK, Regenerate
      <4>2. ThreadOK'
        BY <1>0, <2>0, <2>11, <3>1, <3>3 DEF ThreadOK, BusyHasJob, Locals, Regenerate
      <4>3. StorageOK' /\ BudgetOK'
        BY <1>u, <2>11, <3>3, FaultType DEF Regenerate, storage
      <4> QED BY <2>11, <1>u, <4>1, <4>2, <4>3, <1>p DEF Regenerate
    <3>4. CASE Goto(w, "retain") /\ NoFault /\ UNCHANGED <<jobs, mem, store>>
      <4>1. ThreadOK'
        BY <2>0, <2>11, <3>4, ThreadStep DEF Regenerate
      <4> QED BY <2>11, <1>u, <3>4, <4>1, <1>p DEF Regenerate, storage, NoFault
    <3> QED BY <2>11, <3>2, <3>3, <3>4 DEF Regenerate
  <2>12. CASE Retain(w)
    <3>1. CASE RegenerationFails(w)
      BY <2>12, <1>u, <2>f, <3>1, <1>p DEF Retain
    <3>2. CASE ~RegenerationFails(w)
      <4>1. [JobOf(w) EXCEPT !.ops = mem[w].invalid, !.prev = NoTx] \in Job
            /\ mem[w].invalid \in SUBSET Ops
        BY <2>0, <2>12 DEF Retain, Job, NoTx, Local
      <4>2. QueueOK'
        BY <1>0, <2>12, <3>2, <4>1, JobStep DEF Retain, QueueOK
      <4>3. StorageOK'
        BY <2>12, <3>2, <4>1, StorageType DEF Retain, NoTx
      <4>4. ThreadOK' /\ BudgetOK'
        BY <2>0, <2>12, <3>2, ThreadStep, FaultType DEF Retain
      <4> QED BY <2>12, <1>u, <4>2, <4>3, <4>4, <1>p DEF Retain
    <3> QED BY <3>1, <3>2
  <2>13. CASE Finish(w)
    <3>1. QueueOK' /\ ThreadOK'
      BY <1>0, <2>13, JobTypes, LocalTypes, JobStep, ThreadStep DEF Finish, QueueOK
    <3> QED BY <2>13, <1>u, <3>1, <1>p DEF Finish
  <2>14. CASE Throw(w)
    <3>1. mem[w].ops \in SUBSET Ops
      BY <2>0 DEF Local
    <3>2. StorageOK'
      BY <2>14, <3>1, StorageType DEF Throw, NoTx, storage
    <3>3. ThreadOK'
      BY <2>0, <2>14, ThreadStep DEF Throw
    <3> QED BY <2>14, <1>u, <3>2, <3>3, <1>p DEF Throw
  <2>15. CASE QueueRetry(w)
    <3>1. JobOf(w).attempts + 1 < MaxAttempts
            => [JobOf(w) EXCEPT !.st = "waiting", !.attempts = @ + 1] \in Job
      <4>1. JobOf(w) \in Job
        BY <2>0, <2>15 DEF QueueRetry
      <4>2. JobOf(w).attempts + 1 < MaxAttempts => JobOf(w).attempts + 1 \in Attempts
        BY <4>1, ConstantFacts DEF Job, Attempts
      <4> QED BY <4>1, <4>2 DEF Job
    <3>2. QueueOK'
      BY <1>0, <2>15, <3>1, JobTypes, JobStep DEF QueueRetry, QueueOK
    <3>3. ThreadOK'
      BY <2>15, LocalTypes, ThreadStep DEF QueueRetry
    <3> QED BY <2>15, <1>u, <3>2, <3>3, <1>p DEF QueueRetry
  <2> QED
    BY <1>4, <2>1, <2>2, <2>3, <2>4, <2>5, <2>6, <2>7, <2>8, <2>9, <2>10, <2>11, <2>12,
       <2>13, <2>14, <2>15, <2>16, <2>17 DEF Step
<1>5. ASSUME NEW t \in TxIds, Include(t) PROVE TypeInv'
  <2>1. txs[t] \in Tx
    BY <1>0 DEF ChainOK
  <2>2. \A u \in TxIds : /\ [txs[u] EXCEPT !.st = "gone"] \in Tx
                         /\ [txs[u] EXCEPT !.st = "mined"] \in Tx
                         /\ [txs[u] EXCEPT !.st = "reverted"] \in Tx
    BY <1>0 DEF ChainOK, Tx
  <2>3. txs' \in [TxIds -> Tx]
    BY <1>0, <1>5, <2>2 DEF Include, ChainOK
  <2>4. nonceOf' \in [Workers -> Nat]
    BY <1>0, <1>5, <2>1 DEF Include, ChainOK, Tx
  <2>5. ChainOK'
    BY <1>0, <1>5, <2>3, <2>4 DEF Include, ChainOK
  <2> QED BY <1>5, <1>u, <2>5, <1>p DEF Include, thread
<1>6. ASSUME NEW t \in TxIds, Drop(t) PROVE TypeInv'
  <2>1. [txs[t] EXCEPT !.st = "gone"] \in Tx
    BY <1>0 DEF ChainOK, Tx
  <2>2. ChainOK'
    BY <1>0, <1>6, <2>1 DEF Drop, ChainOK
  <2>3. BudgetOK'
    BY <1>6, FaultType DEF Drop
  <2> QED BY <1>6, <1>u, <2>2, <2>3, <1>p DEF Drop, thread
<1>7. ASSUME NEW o \in Ops, Expire(o) PROVE TypeInv'
  <2>1. ChainOK'
    BY <1>0, <1>7 DEF Expire, ChainOK
  <2> QED BY <1>7, <1>u, <2>1, <1>p DEF Expire, thread
<1>8. CASE UNCHANGED vars
  BY <1>8, <1>u, <1>p DEF vars, thread, queue
<1> QED BY <1>1, <1>2, <1>3, <1>4, <1>5, <1>6, <1>7, <1>8 DEF Next

\* Every reachable state is well formed, and a busy worker holds a job.
THEOREM TypeInvariant == Spec => []TypeInv
<1>1. Init => TypeInv
  BY TypeInit
<1>2. TypeInv /\ [Next]_vars => TypeInv'
  BY TypeStep
<1> QED BY <1>1, <1>2, PTL DEF Spec

\* Every reachable state is well formed.
THEOREM TypeCorrect == Spec => []TypeOK
<1>1. TypeInv => TypeOK
  BY DEF TypeInv
<1> QED BY <1>1, TypeInvariant, PTL

-----------------------------------------------------------------------------
(* Who touches what: the frame of a worker's step. *)

\* A busy worker holds an active job that no other worker holds, and a worker
\* that looks up a previous receipt has the hash of one.
HeldInv ==
  \A w \in Workers :
    /\ pc[w] = "idle" => mem[w].job = NoJob
    /\ pc[w] # "idle" => JobOf(w).st = "active"
    /\ pc[w] = "prev" => JobOf(w).prev # NoTx
    /\ \A v \in Workers \ {w} : pc[w] # "idle" => mem[v].job # mem[w].job

\* Nonces of transactions, of the cache and of the workers' locals.
NonceInv ==
  /\ \A w \in Workers : cache[w].unused <= nonceOf[w] /\ mem[w].nonce <= nonceOf[w]
  /\ \A t \in TxIds :
       /\ txs[t].st = "pending" => txs[t].nonce <= nonceOf[txs[t].from]
       /\ Included(t) => txs[t].nonce < nonceOf[txs[t].from]
       /\ t > ntx => txs[t].st = "unsent"
  /\ \A w \in Workers : pc[w] \in {"fast", "wait"} =>
       /\ mem[w].tx \in 1..ntx
       /\ txs[mem[w].tx].from = w
       /\ txs[mem[w].tx].nonce = mem[w].nonce

\* The ops of a successful transaction have been executed.
MinedInv == \A t \in TxIds : txs[t].st = "mined" => \A o \in txs[t].ops : opState[o] # "fresh"

SuccessInv == MinedInv /\ SuccessIsReal

\* A step of w leaves the other workers alone, and the jobs they may hold.
LEMMA OnErrorFrame ==
  ASSUME TypeInv, NEW w \in Workers, NEW e, NEW hash, OnError(w, e, hash)
  PROVE  /\ \A v \in Workers \ {w} : pc'[v] = pc[v] /\ mem'[v] = mem[v]
         /\ mem'[w].job = mem[w].job /\ mem'[w].nonce = mem[w].nonce
         /\ pc'[w] \in {"throw", "simulate", "timeout", "adjust"}
<1> DEFINE m == mem[w]
<1>1. m \in Local /\ w \in Workers
  BY DEF TypeInv, TypeOK
<1>2. PICK p \in {"throw", "simulate", "timeout", "adjust"} : Goto(w, p)
  BY DEF OnError
<1>3. (\A v \in Workers \ {w} : pc'[v] = pc[v]) /\ pc'[w] = p
  BY <1>2 DEF Goto, TypeInv, TypeOK
<1>4. PICK r \in {m, [m EXCEPT !.split = (e = "blockGas"), !.fromPrev = FALSE, !.tx = NoTx],
                  [m EXCEPT !.err = e, !.tx = NoTx]} : Locals(w, r) \/ (UNCHANGED mem /\ r = m)
  BY DEF OnError
<1>5. r.job = m.job /\ r.nonce = m.nonce
  BY <1>1, <1>4 DEF Local
<1>6. (\A v \in Workers \ {w} : mem'[v] = mem[v]) /\ mem'[w] = r
  BY <1>1, <1>4 DEF Locals, TypeInv, TypeOK
<1> QED BY <1>2, <1>3, <1>5, <1>6

LEMMA StepFrame ==
  ASSUME TypeInv, NEW w \in Workers, Step(w)
  PROVE  /\ \A v \in Workers \ {w} : pc'[v] = pc[v] /\ mem'[v] = mem[v] /\ cache'[v] = cache[v]
         /\ \A j \in Slots : j # mem[w].job /\ jobs[j].st = "active" => jobs'[j] = jobs[j]
<1> DEFINE Frame == /\ \A v \in Workers \ {w} : /\ pc'[v] = pc[v] /\ mem'[v] = mem[v]
                                                /\ cache'[v] = cache[v]
                    /\ \A j \in Slots : j # mem[w].job /\ jobs[j].st = "active" => jobs'[j] = jobs[j]
<1>1. /\ pc \in [Workers -> Phases] /\ mem \in [Workers -> Local]
      /\ cache \in [Workers -> Entry] /\ jobs \in [Slots -> Job]
  BY DEF TypeInv, TypeOK
<1>2. /\ (UNCHANGED pc \/ \E p : Goto(w, p)) => \A v \in Workers \ {w} : pc'[v] = pc[v]
      /\ (UNCHANGED mem \/ \E r : Locals(w, r)) => \A v \in Workers \ {w} : mem'[v] = mem[v]
  BY <1>1 DEF Goto, Locals
<1>3. (UNCHANGED cache \/ FetchNonce(w) \/ MarkNonceAsUsed(w, mem[w].nonce))
        => \A v \in Workers \ {w} : cache'[v] = cache[v]
  BY <1>1 DEF FetchNonce, MarkNonceAsUsed
<1>4. (UNCHANGED jobs \/ \E r : SetJob(mem[w].job, r))
        => \A j \in Slots : j # mem[w].job => jobs'[j] = jobs[j]
  BY <1>1 DEF SetJob
<1>5. (\E e, h : OnError(w, e, h)) => \A v \in Workers \ {w} : pc'[v] = pc[v] /\ mem'[v] = mem[v]
  BY OnErrorFrame
<1>6. CASE Take(w)
  BY <1>1, <1>2, <1>6 DEF Take, SetJob
<1>7. CASE PrevReceipt(w)
  BY <1>2, <1>7 DEF PrevReceipt, PostExecution, queue
<1>8. CASE Filter(w) \/ Forget(w)
  BY <1>2, <1>4, <1>8 DEF Filter, Forget
<1>9. CASE GetNonce(w)
  BY <1>2, <1>3, <1>9 DEF GetNonce, queue
<1>10. CASE Send(w)
  BY <1>2, <1>5, <1>10 DEF Send, queue
<1>11. CASE FastReceipt(w)
  BY <1>2, <1>3, <1>5, <1>11 DEF FastReceipt, SyncReceipt, AsyncReceipt, queue
<1>12. CASE WaitReceipt(w)
  BY <1>2, <1>3, <1>5, <1>12 DEF WaitReceipt, PostExecution, queue
<1>13. CASE Resync(w) \/ SaveTimedOut(w)
  BY <1>2, <1>3, <1>4, <1>13 DEF Resync, SaveTimedOut, queue
<1>14. CASE Adjust(w)
  BY <1>2, <1>3, <1>14 DEF Adjust, queue
<1>15. CASE Simulate(w)
  BY <1>2, <1>15 DEF Simulate, queue
<1>16. CASE Regenerate(w)
  BY <1>1, <1>2, <1>16 DEF Regenerate, RegenerationFails, AddJob
<1>17. CASE Retain(w)
  BY <1>2, <1>4, <1>17 DEF Retain, RegenerationFails
<1>18. CASE Finish(w)
  BY <1>2, <1>4, <1>18 DEF Finish
<1>19. CASE Throw(w)
  BY <1>2, <1>19 DEF Throw, queue
<1>20. CASE QueueRetry(w)
  BY <1>2, <1>4, <1>20 DEF QueueRetry
<1> QED BY <1>6, <1>7, <1>8, <1>9, <1>10, <1>11, <1>12, <1>13, <1>14, <1>15, <1>16, <1>17,
           <1>18, <1>19, <1>20 DEF Step

\* What w itself does to the job it holds: it keeps it, active, or gives it up.
LEMMA StepHolds ==
  ASSUME TypeInv, HeldInv, NEW w \in Workers, Step(w)
  PROVE  \/ /\ pc[w] # "idle" /\ pc'[w] # "idle" /\ pc'[w] # "prev"
            /\ mem'[w].job = mem[w].job /\ jobs'[mem[w].job].st = "active"
         \/ pc[w] # "idle" /\ pc'[w] = "idle" /\ mem'[w].job = NoJob
         \/ /\ pc[w] = "idle" /\ pc'[w] # "idle" /\ mem'[w].job \in Slots
            /\ jobs[mem'[w].job].st = "waiting" /\ jobs'[mem'[w].job].st = "active"
            /\ pc'[w] = "prev" => jobs'[mem'[w].job].prev # NoTx
<1> DEFINE j == mem[w].job
           Keeps == /\ pc[w] # "idle" /\ pc'[w] # "idle" /\ pc'[w] # "prev"
                    /\ mem'[w].job = j /\ jobs'[j].st = "active"
           Leaves == pc[w] # "idle" /\ pc'[w] = "idle" /\ mem'[w].job = NoJob
<1>1. /\ pc \in [Workers -> Phases] /\ mem \in [Workers -> Local] /\ jobs \in [Slots -> Job]
      /\ mem[w] \in Local
      /\ pc[w] # "idle" => j \in Slots /\ jobs[j].st = "active" /\ jobs[j] \in Job
  BY DEF TypeInv, TypeOK, BusyHasJob, HeldInv, JobOf
<1>2. /\ \A p : Goto(w, p) => pc'[w] = p
      /\ UNCHANGED pc => pc'[w] = pc[w]
      /\ \A r : Locals(w, r) => mem'[w] = r
      /\ UNCHANGED mem => mem'[w] = mem[w]
  BY <1>1 DEF Goto, Locals
<1>3. pc[w] # "idle" /\ UNCHANGED jobs => jobs'[j].st = "active"
  BY <1>1
<1>4. \A r : pc[w] # "idle" /\ SetJob(j, r) => jobs'[j] = r
  BY <1>1 DEF SetJob
<1>5. (\E e, h : OnError(w, e, h)) => /\ mem'[w].job = j
                                      /\ pc'[w] # "idle" /\ pc'[w] # "prev"
  BY OnErrorFrame
<1>6. CASE Take(w)
  <2>1. PICK k \in Slots :
          /\ jobs[k].st = "waiting"
          /\ SetJob(k, [jobs[k] EXCEPT !.st = "active"])
          /\ Locals(w, [Idle EXCEPT !.job = k, !.ops = jobs[k].ops])
          /\ Goto(w, IF jobs[k].prev # NoTx THEN "prev" ELSE "filter")
    BY <1>6 DEF Take
  <2>2. mem'[w].job = k
    BY <1>2, <2>1 DEF Idle
  <2>3. jobs'[k].st = "active" /\ jobs'[k].prev = jobs[k].prev
    BY <1>1, <2>1 DEF SetJob, Job
  <2> QED BY <1>2, <1>6, <2>1, <2>2, <2>3 DEF Take
<1>7. CASE PrevReceipt(w)
  <2>1. [mem[w] EXCEPT !.fromPrev = TRUE, !.split = FALSE].job = j
    BY <1>1 DEF Local
  <2> QED BY <1>2, <1>3, <1>7, <2>1 DEF PrevReceipt, PostExecution, queue
<1>21. CASE Forget(w)
  <2>1. [JobOf(w) EXCEPT !.prev = NoTx].st = "active"
    BY <1>1, <1>21 DEF Forget, JobOf, Job
  <2> QED BY <1>2, <1>3, <1>4, <1>21, <2>1 DEF Forget
<1>8. CASE Filter(w)
  <2>1. \A R : [mem[w] EXCEPT !.ops = R].job = j
    BY <1>1 DEF Local
  <2>2. \A R : pc[w] # "idle" => [JobOf(w) EXCEPT !.ops = R].st = "active"
    BY <1>1 DEF JobOf, Job
  <2> QED BY <1>2, <1>3, <1>4, <1>8, <2>1, <2>2 DEF Filter
<1>9. CASE GetNonce(w)
  <2>1. \A n : [mem[w] EXCEPT !.nonce = n].job = j
    BY <1>1 DEF Local
  <2> QED BY <1>2, <1>3, <1>9, <2>1 DEF GetNonce, queue
<1>10. CASE Send(w)
  <2>1. \A t : [mem[w] EXCEPT !.tx = t].job = j
    BY <1>1 DEF Local
  <2> QED BY <1>2, <1>3, <1>5, <1>10, <2>1 DEF Send, queue
<1>11. CASE FastReceipt(w)
  BY <1>2, <1>3, <1>5, <1>11 DEF FastReceipt, SyncReceipt, AsyncReceipt, queue
<1>12. CASE WaitReceipt(w)
  BY <1>2, <1>3, <1>5, <1>12 DEF WaitReceipt, PostExecution, queue
<1>13. CASE SaveTimedOut(w)
  <2>1. pc[w] # "idle" => [JobOf(w) EXCEPT !.prev = mem[w].tx].st = "active"
    BY <1>1 DEF JobOf, Job
  <2> QED BY <1>2, <1>3, <1>4, <1>13, <2>1 DEF SaveTimedOut
<1>22. CASE Resync(w)
  BY <1>2, <1>3, <1>22 DEF Resync, queue
<1>14. CASE Adjust(w)
  <2>1. \A n : [mem[w] EXCEPT !.again = TRUE, !.nonce = n].job = j
    BY <1>1 DEF Local
  <2> QED BY <1>2, <1>3, <1>14, <2>1 DEF Adjust, queue
<1>15. CASE Simulate(w)
  <2>1. \A S, V : [mem[w] EXCEPT !.invalid = S, !.valid = V].job = j
    BY <1>1 DEF Local
  <2>2. PICK S \in SUBSET mem[w].ops :
          Locals(w, [mem[w] EXCEPT !.invalid = S, !.valid = mem[w].ops \ S])
    BY <1>15 DEF Simulate
  <2>3. mem'[w] = [mem[w] EXCEPT !.invalid = S, !.valid = mem[w].ops \ S]
    BY <1>1, <2>2 DEF Locals
  <2>4. mem'[w].job = j
    BY <2>1, <2>3
  <2> QED BY <1>2, <1>3, <1>15, <2>4 DEF Simulate, queue
<1>f. ASSUME RegenerationFails(w), pc[w] \in {"add", "retain"} PROVE Keeps
  <2>1. [mem[w] EXCEPT !.fromPrev = FALSE, !.valid = {}, !.invalid = {}].job = j
    BY <1>1 DEF Local
  <2> QED BY <1>2, <1>3, <1>f, <2>1 DEF RegenerationFails
<1>16. CASE Regenerate(w)
  <2>1. CASE RegenerationFails(w)
    BY <1>16, <1>f, <2>1 DEF Regenerate
  <2>2. CASE \E S \in SUBSET mem[w].valid, k \in Slots :
               AddJob(k, S) /\ Locals(w, [mem[w] EXCEPT !.valid = @ \ S]) /\ UNCHANGED pc
    <3>1. \A S : [mem[w] EXCEPT !.valid = @ \ S].job = j
      BY <1>1 DEF Local
    <3>2. jobs'[j].st = "active"
      BY <1>1, <1>16, <2>2 DEF AddJob, Regenerate
    <3> QED BY <1>2, <1>16, <2>2, <3>1, <3>2 DEF Regenerate
  <2>3. CASE Goto(w, "retain") /\ UNCHANGED <<jobs, mem>>
    BY <1>2, <1>3, <1>16, <2>3 DEF Regenerate
  <2> QED BY <1>16, <2>1, <2>2, <2>3 DEF Regenerate
<1>17. CASE Retain(w)
  <2>1. pc[w] # "idle" => [JobOf(w) EXCEPT !.ops = mem[w].invalid, !.prev = NoTx].st = "active"
    BY <1>1 DEF JobOf, Job
  <2> QED BY <1>2, <1>4, <1>17, <1>f, <2>1 DEF Retain
<1>18. CASE Finish(w)
  BY <1>2, <1>18 DEF Finish, Idle
<1>19. CASE Throw(w)
  BY <1>2, <1>3, <1>19 DEF Throw, queue
<1>20. CASE QueueRetry(w)
  BY <1>2, <1>20 DEF QueueRetry, Idle
<1> QED BY <1>6, <1>7, <1>8, <1>9, <1>10, <1>11, <1>12, <1>13, <1>14, <1>15, <1>16, <1>17,
           <1>18, <1>19, <1>20, <1>21, <1>22 DEF Step

LEMMA HeldInit == Init => HeldInv
BY DEF Init, HeldInv, Idle

LEMMA HeldStep == TypeInv /\ HeldInv /\ [Next]_vars => HeldInv'
<1> SUFFICES ASSUME TypeInv, HeldInv, [Next]_vars PROVE HeldInv'
  OBVIOUS
<1>0. /\ jobs \in [Slots -> Job] /\ mem \in [Workers -> Local] /\ BusyHasJob
  BY DEF TypeInv, TypeOK
\* Steps that leave the threads and the active jobs alone.
<1>1. ASSUME UNCHANGED <<pc, mem>>,
             \A w \in Workers : pc[w] # "idle" =>
               jobs'[mem[w].job] = jobs[mem[w].job]
      PROVE  HeldInv'
  BY <1>1 DEF HeldInv, JobOf
<1>2. CASE Submit
  BY <1>0, <1>1, <1>2 DEF Submit, AddJob, thread, HeldInv, JobOf, BusyHasJob
<1>3. CASE Crash
  BY <1>3 DEF Crash, HeldInv, Idle
<1>4. CASE Stalled
  BY <1>0, <1>1, <1>4 DEF Stalled, SetJob, thread, HeldInv, JobOf, BusyHasJob
<1>5. ASSUME NEW w \in Workers, Step(w) PROVE HeldInv'
  <2>1. /\ \A v \in Workers \ {w} : pc'[v] = pc[v] /\ mem'[v] = mem[v]
        /\ \A j \in Slots : j # mem[w].job /\ jobs[j].st = "active" => jobs'[j] = jobs[j]
    BY <1>5, StepFrame
  <2>2. \A v \in Workers \ {w} :
          /\ pc'[v] = "idle" => mem'[v].job = NoJob
          /\ pc'[v] # "idle" => jobs'[mem'[v].job] = jobs[mem[v].job]
          /\ pc'[v] # "idle" => mem[v].job \in Slots /\ jobs[mem[v].job].st = "active"
          /\ \A u \in Workers \ {v, w} : pc'[v] # "idle" => mem'[u].job # mem'[v].job
    BY <1>0, <2>1 DEF HeldInv, BusyHasJob, JobOf
  <2>3. \A v \in Workers \ {w} : pc'[v] # "idle" => mem'[w].job # mem'[v].job
    BY <1>5, <2>1, <2>2, StepHolds DEF HeldInv, NoJob, Slots
  <2>4. /\ pc'[w] = "idle" => mem'[w].job = NoJob
        /\ pc'[w] # "idle" => jobs'[mem'[w].job].st = "active"
        /\ pc'[w] = "prev" => jobs'[mem'[w].job].prev # NoTx
    BY <1>5, StepHolds
  <2>5. \A v \in Workers \ {w} : pc'[w] # "idle" => mem'[v].job # mem'[w].job
    BY <1>0, <2>2, <2>3, <1>5, StepHolds DEF NoJob, Slots, BusyHasJob
  <2> QED BY <2>1, <2>2, <2>3, <2>4, <2>5 DEF HeldInv, JobOf
<1>6. CASE (\E t \in TxIds : Include(t) \/ Drop(t)) \/ (\E o \in Ops : Expire(o)) \/ UNCHANGED vars
  BY <1>1, <1>6 DEF Include, Drop, Expire, vars, queue, thread
<1> QED BY <1>2, <1>3, <1>4, <1>5, <1>6 DEF Next

\* A job is never in the hands of two workers.
THEOREM JobsHeldOnce == Spec => []HeldInv
<1> QED BY HeldInit, HeldStep, TypeInvariant, PTL DEF Spec

-----------------------------------------------------------------------------
(* Nonces *)

LEMMA NonceInit == Init => NonceInv
BY ConstantFacts DEF Init, NonceInv, NoEntry, Idle, NoNonce, Included, TxIds

\* What a worker's step does to the chain: nothing, or one more transaction.
LEMMA StepChain ==
  ASSUME NEW w \in Workers, Step(w)
  PROVE  /\ UNCHANGED <<nonceOf, opState>>
         /\ UNCHANGED <<txs, ntx>> \/ (pc[w] = "send" /\ Broadcast(w))
BY DEF Step, Take, PrevReceipt, Forget, Filter, GetNonce, Send, FastReceipt, SyncReceipt, AsyncReceipt,
       WaitReceipt, PostExecution, Resync, SaveTimedOut,
       Adjust, Simulate, Regenerate, Retain, Finish, Throw, QueueRetry, chain

\* The nonce w goes on with, and its cache entry, are those of the chain or older.
LEMMA StepNonces ==
  ASSUME TypeInv, NonceInv, NEW w \in Workers, Step(w)
  PROVE  /\ cache'[w].unused <= nonceOf[w]
         /\ mem'[w].nonce <= nonceOf[w]
         /\ pc'[w] \in {"fast", "wait"} =>
              /\ mem'[w].tx \in 1..ntx'
              /\ txs'[mem'[w].tx].from = w
              /\ txs'[mem'[w].tx].nonce = mem'[w].nonce
<1> DEFINE m  == mem[w]
           Fine == mem'[w].nonce <= nonceOf[w]
           Sent == /\ mem'[w].tx \in 1..ntx' /\ txs'[mem'[w].tx].from = w
                   /\ txs'[mem'[w].tx].nonce = mem'[w].nonce
<1>0. /\ m \in Local /\ cache[w] \in Entry /\ nonceOf[w] \in Nat
      /\ pc \in [Workers -> Phases] /\ mem \in [Workers -> Local] /\ cache \in [Workers -> Entry]
      /\ m.nonce <= nonceOf[w] /\ cache[w].unused <= nonceOf[w]
  BY DEF TypeInv, TypeOK, NonceInv
<1>1. /\ \A p : Goto(w, p) => pc'[w] = p
      /\ \A x : Locals(w, x) => mem'[w] = x
      /\ UNCHANGED mem => mem'[w] = m
  BY <1>0 DEF Goto, Locals
<1>2. /\ UNCHANGED cache => cache'[w].unused <= nonceOf[w]
      /\ FetchNonce(w) => cache'[w].unused <= nonceOf[w]
  BY <1>0 DEF FetchNonce, Entry
<1>4. (\E e, h : OnError(w, e, h)) => Fine /\ pc'[w] \notin {"fast", "wait"}
  BY <1>0, OnErrorFrame
<1>5. CASE Take(w)
  <2>1. \A j : [Idle EXCEPT !.job = j, !.ops = jobs[j].ops].nonce = NoNonce
    BY DEF Idle
  <2>2. mem'[w].nonce = NoNonce
    BY <1>1, <1>5, <2>1 DEF Take
  <2>3. pc'[w] \in {"prev", "filter"} /\ UNCHANGED cache
    BY <1>1, <1>5 DEF Take
  <2> QED BY <1>0, <1>2, <2>2, <2>3 DEF NoNonce
<1>6. CASE PrevReceipt(w)
  <2>1. [m EXCEPT !.fromPrev = TRUE, !.split = FALSE].nonce = m.nonce
    BY <1>0 DEF Local
  <2> QED BY <1>0, <1>1, <1>2, <1>6, <2>1 DEF PrevReceipt, PostExecution
<1>7. CASE Filter(w)
  <2>1. \A R : [m EXCEPT !.ops = R].nonce = m.nonce
    BY <1>0 DEF Local
  <2> QED BY <1>0, <1>1, <1>2, <1>7, <2>1 DEF Filter
<1>8. CASE GetNonce(w)
  <2>1. \A n : [m EXCEPT !.nonce = n].nonce = n
    BY <1>0 DEF Local
  <2> QED BY <1>0, <1>1, <1>2, <1>8, <2>1 DEF GetNonce
<1>9. CASE Send(w)
  <2>1. CASE Broadcast(w) /\ Locals(w, [m EXCEPT !.tx = ntx']) /\ Goto(w, "fast")
    <3>1. mem'[w] = [m EXCEPT !.tx = ntx']
      BY <1>1, <2>1
    <3>2. mem'[w].tx = ntx' /\ mem'[w].nonce = m.nonce
      BY <1>0, <3>1 DEF Local
    <3>3. ntx' = ntx + 1 /\ ntx' \in TxIds /\ ntx' \in 1..ntx'
      BY <2>1, ConstantFacts DEF Broadcast, TypeInv, TypeOK, TxIds
    <3>4. txs'[ntx'].from = w /\ txs'[ntx'].nonce = m.nonce
      BY <2>1, <3>3 DEF Broadcast, TypeInv, TypeOK
    <3> QED BY <1>0, <1>2, <1>9, <3>2, <3>3, <3>4 DEF Send
  <2>2. CASE \E e : OnError(w, e, NoTx)
    BY <1>2, <1>4, <1>9, <2>2 DEF Send
  <2> QED BY <1>9, <2>1, <2>2 DEF Send
<1>10. CASE FastReceipt(w)
  <2>1. /\ m.tx \in 1..ntx /\ txs[m.tx].from = w /\ txs[m.tx].nonce = m.nonce
        /\ UNCHANGED <<ntx, txs>>
    BY <1>10 DEF FastReceipt, SyncReceipt, AsyncReceipt, NonceInv, chain
  <2>2. Included(m.tx) => m.nonce < nonceOf[w]
    <3>1. m.tx \in TxIds
      BY <2>1, ConstantFacts DEF TypeInv, TypeOK, TxIds
    <3> QED BY <2>1, <3>1 DEF NonceInv
  <2>3. cache'[w].unused <= nonceOf[w]
    <3>1. UNCHANGED cache \/ (Included(m.tx) /\ MarkNonceAsUsed(w, m.nonce))
      BY <1>10 DEF FastReceipt, SyncReceipt, AsyncReceipt
    <3>2. CASE UNCHANGED cache
      BY <1>2, <3>2
    <3>3. CASE Included(m.tx) /\ MarkNonceAsUsed(w, m.nonce)
      <4>1. m.nonce < nonceOf[w]
        BY <2>2, <3>3
      <4> QED BY <1>0, <3>3, <4>1 DEF MarkNonceAsUsed, Local
    <3> QED BY <3>1, <3>2, <3>3
  <2>4. UNCHANGED mem \/ (Fine /\ pc'[w] \notin {"fast", "wait"})
    BY <1>4, <1>10 DEF FastReceipt, SyncReceipt, AsyncReceipt
  <2> QED BY <1>0, <1>1, <2>1, <2>3, <2>4
<1>11. CASE WaitReceipt(w)
  <2>1. \A t \in TxIds : Included(t) /\ txs[t].from = w /\ txs[t].nonce = m.nonce
                           => m.nonce < nonceOf[w]
    BY DEF NonceInv
  <2>2. cache'[w].unused <= nonceOf[w]
    <3>1. \/ UNCHANGED cache
          \/ MarkNonceAsUsed(w, m.nonce) /\ \E t \in TxIds :
               Included(t) /\ txs[t].from = w /\ txs[t].nonce = m.nonce
      BY <1>11 DEF WaitReceipt, PostExecution
    <3>2. CASE UNCHANGED cache
      BY <1>2, <3>2
    <3>3. CASE MarkNonceAsUsed(w, m.nonce) /\ m.nonce < nonceOf[w]
      BY <1>0, <3>3 DEF MarkNonceAsUsed, Local
    <3> QED BY <2>1, <3>1, <3>2, <3>3
  <2>3. (Goto(w, "finish") /\ UNCHANGED mem) \/ (Fine /\ pc'[w] \notin {"fast", "wait"})
    BY <1>4, <1>11 DEF WaitReceipt, PostExecution
  <2> QED BY <1>0, <1>1, <2>2, <2>3
<1>12. CASE Resync(w) \/ SaveTimedOut(w) \/ Forget(w)
  BY <1>0, <1>1, <1>2, <1>12 DEF Resync, SaveTimedOut, Forget
<1>13. CASE Adjust(w)
  <2>1. \A n : [m EXCEPT !.again = TRUE, !.nonce = n].nonce = n
    BY <1>0 DEF Local
  <2>2. cache'[w].unused <= nonceOf[w]
    BY <1>2, <1>13 DEF Adjust
  <2> QED BY <1>0, <1>1, <1>13, <2>1, <2>2 DEF Adjust
<1>14. CASE Simulate(w)
  <2>1. PICK S \in SUBSET m.ops : Locals(w, [m EXCEPT !.invalid = S, !.valid = m.ops \ S])
    BY <1>14 DEF Simulate
  <2>2. mem'[w] = [m EXCEPT !.invalid = S, !.valid = m.ops \ S]
    BY <1>1, <2>1
  <2>3. Fine
    BY <1>0, <2>2 DEF Local
  <2> QED BY <1>1, <1>2, <1>14, <2>3 DEF Simulate
<1>f. ASSUME RegenerationFails(w), pc[w] \in {"add", "retain"}
      PROVE  Fine /\ pc'[w] \notin {"fast", "wait"}
  <2>1. [m EXCEPT !.fromPrev = FALSE, !.valid = {}, !.invalid = {}].nonce = m.nonce
    BY <1>0 DEF Local
  <2> QED BY <1>0, <1>1, <1>f, <2>1 DEF RegenerationFails
<1>15. CASE Regenerate(w)
  <2>1. \A S : [m EXCEPT !.valid = @ \ S].nonce = m.nonce
    BY <1>0 DEF Local
  <2>2. Fine /\ pc'[w] \notin {"fast", "wait"}
    BY <1>0, <1>1, <1>15, <1>f, <2>1 DEF Regenerate
  <2> QED BY <1>2, <1>15, <2>2 DEF Regenerate
<1>16. CASE Retain(w)
  BY <1>0, <1>1, <1>2, <1>16, <1>f DEF Retain
<1>17. CASE Finish(w)
  BY <1>0, <1>1, <1>2, <1>17 DEF Finish, Idle, NoNonce
<1>18. CASE Throw(w)
  BY <1>0, <1>1, <1>2, <1>18 DEF Throw
<1>19. CASE QueueRetry(w)
  BY <1>0, <1>1, <1>2, <1>19 DEF QueueRetry, Idle, NoNonce
<1> QED BY <1>5, <1>6, <1>7, <1>8, <1>9, <1>10, <1>11, <1>12, <1>13, <1>14, <1>15, <1>16,
           <1>17, <1>18, <1>19 DEF Step

LEMMA NonceStep == TypeInv /\ NonceInv /\ [Next]_vars => NonceInv'
<1> SUFFICES ASSUME TypeInv, NonceInv, [Next]_vars PROVE NonceInv'
  OBVIOUS
<1>0. /\ mem \in [Workers -> Local] /\ cache \in [Workers -> Entry] /\ txs \in [TxIds -> Tx]
      /\ nonceOf \in [Workers -> Nat] /\ ntx \in 0..MaxTx /\ MaxTx \in Nat
  BY ConstantFacts DEF TypeInv, TypeOK
<1>1. ASSUME NEW w \in Workers, Step(w) PROVE NonceInv'
  <2>1. \A v \in Workers \ {w} : pc'[v] = pc[v] /\ mem'[v] = mem[v] /\ cache'[v] = cache[v]
    BY <1>1, StepFrame
  <2>2. /\ UNCHANGED <<nonceOf, opState>>
        /\ UNCHANGED <<txs, ntx>> \/ (pc[w] = "send" /\ Broadcast(w))
    BY <1>1, StepChain
  <2>3. /\ ntx' \in 0..MaxTx /\ ntx' >= ntx
        /\ \A t \in TxIds : t # ntx' \/ ntx' = ntx => txs'[t] = txs[t]
        /\ ntx' # ntx => /\ ntx' = ntx + 1 /\ ntx' \in TxIds /\ txs'[ntx'].from = w
                         /\ txs'[ntx'].nonce = mem[w].nonce /\ txs'[ntx'].st = "pending"
    <3>1. CASE UNCHANGED <<txs, ntx>>
      BY <1>0, <3>1
    <3>2. CASE Broadcast(w)
      <4>1. /\ ntx < MaxTx /\ ntx' = ntx + 1
            /\ txs' = [txs EXCEPT ![ntx + 1] = [from |-> w, nonce |-> mem[w].nonce,
                                                ops |-> mem[w].ops, st |-> "pending"]]
        BY <3>2 DEF Broadcast
      <4>2. ntx' \in 0..MaxTx /\ ntx' > ntx /\ ntx' \in TxIds
        BY <1>0, <4>1 DEF TxIds
      <4>3. /\ \A t \in TxIds : t # ntx' => txs'[t] = txs[t]
            /\ txs'[ntx'] = [from |-> w, nonce |-> mem[w].nonce,
                             ops |-> mem[w].ops, st |-> "pending"]
        BY <1>0, <4>1, <4>2
      <4> QED BY <1>0, <4>1, <4>2, <4>3
    <3> QED BY <2>2, <3>1, <3>2
  <2>4. \A v \in Workers : cache'[v].unused <= nonceOf'[v] /\ mem'[v].nonce <= nonceOf'[v]
    BY <1>1, <2>1, <2>2, StepNonces DEF NonceInv
  <2>5. \A t \in TxIds :
          /\ txs'[t].st = "pending" => txs'[t].nonce <= nonceOf'[txs'[t].from]
          /\ Included(t)' => txs'[t].nonce < nonceOf'[txs'[t].from]
          /\ t > ntx' => txs'[t].st = "unsent"
    BY <1>0, <2>2, <2>3 DEF NonceInv, Included, TxIds
  <2>6. \A v \in Workers : pc'[v] \in {"fast", "wait"} =>
          /\ mem'[v].tx \in 1..ntx'
          /\ txs'[mem'[v].tx].from = v
          /\ txs'[mem'[v].tx].nonce = mem'[v].nonce
    <3>1. 1..ntx \subseteq TxIds /\ 1..ntx \subseteq 1..ntx'
      BY <1>0, <2>3 DEF TxIds
    <3>2. \A t \in 1..ntx : txs'[t] = txs[t]
      BY <1>0, <2>3, <3>1
    <3>3. \A v \in Workers \ {w} : pc'[v] \in {"fast", "wait"} =>
            /\ mem'[v].tx \in 1..ntx /\ txs[mem'[v].tx].from = v
            /\ txs[mem'[v].tx].nonce = mem'[v].nonce
      BY <2>1 DEF NonceInv
    <3> QED BY <1>1, <3>1, <3>2, <3>3, StepNonces
  <2> QED BY <2>4, <2>5, <2>6 DEF NonceInv
<1>2. ASSUME NEW t \in TxIds, Include(t) PROVE NonceInv'
  <2>1. /\ txs[t].st = "pending" /\ txs[t].nonce = nonceOf[txs[t].from] /\ txs[t].from \in Workers
        /\ nonceOf' = [nonceOf EXCEPT ![txs[t].from] = @ + 1]
        /\ UNCHANGED <<ntx, pc, mem, cache>>
    BY <1>0, <1>2 DEF Include, Tx, thread
  <2>2. \A w \in Workers : nonceOf[w] <= nonceOf'[w] /\ nonceOf'[w] \in Nat
    BY <1>0, <2>1
  <2>3. \A u \in TxIds :
          /\ txs'[u].nonce = txs[u].nonce /\ txs'[u].from = txs[u].from
          /\ txs'[u].st = txs[u].st \/ txs'[u].st = "gone" \/ u = t
          /\ txs'[t].st # "pending"
          /\ txs[u].st = "unsent" => txs'[u].st = "unsent"
    BY <1>0, <1>2 DEF Include, Tx
  <2>4. \A w \in Workers : cache'[w].unused <= nonceOf'[w] /\ mem'[w].nonce <= nonceOf'[w]
    BY <1>0, <2>1, <2>2 DEF NonceInv, Entry, Local
  <2>5. \A u \in TxIds : txs[u].from \in Workers /\ txs[u].nonce \in Nat
    BY <1>0 DEF Tx
  <2>6. \A u \in TxIds :
          /\ txs'[u].st = "pending" => txs'[u].nonce <= nonceOf'[txs'[u].from]
          /\ Included(u)' => txs'[u].nonce < nonceOf'[txs'[u].from]
          /\ u > ntx' => txs'[u].st = "unsent"
    <3> SUFFICES ASSUME NEW u \in TxIds
                 PROVE  /\ txs'[u].st = "pending" => txs'[u].nonce <= nonceOf'[txs'[u].from]
                        /\ Included(u)' => txs'[u].nonce < nonceOf'[txs'[u].from]
                        /\ u > ntx' => txs'[u].st = "unsent"
      OBVIOUS
    <3>1. CASE u = t
      BY <1>0, <2>1, <2>3, <2>5, <3>1 DEF NonceInv
    <3>2. CASE u # t
      BY <1>0, <2>1, <2>2, <2>3, <2>5, <3>2 DEF NonceInv, Included
    <3> QED BY <3>1, <3>2
  <2>7. \A w \in Workers : pc'[w] \in {"fast", "wait"} =>
          /\ mem'[w].tx \in 1..ntx'
          /\ txs'[mem'[w].tx].from = w
          /\ txs'[mem'[w].tx].nonce = mem'[w].nonce
    <3>1. 1..ntx \subseteq TxIds
      BY <1>0 DEF TxIds
    <3> QED BY <2>1, <2>3, <3>1 DEF NonceInv
  <2> QED BY <2>4, <2>6, <2>7 DEF NonceInv
<1>3. ASSUME NEW t \in TxIds, Drop(t) PROVE NonceInv'
  BY <1>0, <1>3 DEF Drop, NonceInv, Included, thread, TxIds, Tx
<1>4. CASE Crash
  BY <1>0, <1>4 DEF Crash, NonceInv, Included, Idle, NoEntry, NoNonce, chain
<1>5. CASE Submit \/ Stalled \/ (\E o \in Ops : Expire(o)) \/ UNCHANGED vars
  BY <1>5 DEF Submit, Stalled, Expire, vars, chain, thread, NonceInv, Included
<1> QED BY <1>1, <1>2, <1>3, <1>4, <1>5 DEF Next

LEMMA NonceInvariant == Spec => []NonceInv
<1> QED BY NonceInit, NonceStep, TypeInvariant, PTL DEF Spec

\* The nonce manager and the pending transactions never run ahead of the chain.
THEOREM NonceNeverFuture == Spec => []NoFutureNonce
<1>1. NonceInv => NoFutureNonce
  BY DEF NonceInv, NoFutureNonce
<1> QED BY <1>1, NonceInvariant, PTL

-----------------------------------------------------------------------------
(* Statuses *)

LEMMA SuccessInit == Init => SuccessInv
BY DEF Init, SuccessInv, MinedInv, SuccessIsReal

\* A report with the receipt of a successful transaction claims no more than it did.
LEMMA ReportSound ==
  ASSUME TypeInv, SuccessInv, NEW S, NEW t, NEW r \in TxIds, NEW c,
         txs[r].st = "mined", Report(S, t, r, c)
  PROVE  \A o \in Ops : store'[o].finished /\ ~store'[o].error /\ o \notin blind' => opState[o] = "ok"
BY DEF Report, SuccessInv, MinedInv, SuccessIsReal, TypeInv, TypeOK

\* Whatever else writes statuses: errors, or successes recorded as blind.
LEMMA OtherWrites ==
  ASSUME TypeInv, SuccessInv,
         NEW S, NEW t, \/ UNCHANGED storage
                       \/ UNCHANGED <<store, blind>>
                       \/ MarkFailed(S) /\ UNCHANGED blind
                       \/ ReportBlind(S, t)
  PROVE  \A o \in Ops : store'[o].finished /\ ~store'[o].error /\ o \notin blind' => opState[o] = "ok"
<1>1. store \in [Ops -> Field]
  BY DEF TypeInv, TypeOK
<1>2. CASE UNCHANGED storage \/ UNCHANGED <<store, blind>>
  BY <1>2 DEF storage, SuccessInv, SuccessIsReal
<1>3. CASE MarkFailed(S) /\ UNCHANGED blind
  BY <1>1, <1>3 DEF MarkFailed, SuccessInv, SuccessIsReal, Field
<1>4. CASE ReportBlind(S, t)
  BY <1>1, <1>4 DEF ReportBlind, SuccessInv, SuccessIsReal, Field
<1> QED BY <1>2, <1>3, <1>4

LEMMA SuccessStep == TypeInv /\ HeldInv /\ NonceInv /\ SuccessInv /\ [Next]_vars => SuccessInv'
<1> SUFFICES ASSUME TypeInv, HeldInv, NonceInv, SuccessInv, [Next]_vars PROVE SuccessInv'
  OBVIOUS
<1>0. /\ mem \in [Workers -> Local] /\ txs \in [TxIds -> Tx] /\ jobs \in [Slots -> Job]
      /\ store \in [Ops -> Field] /\ opState \in [Ops -> {"fresh", "ok", "bad"}]
  BY DEF TypeInv, TypeOK
<1> DEFINE Sound == \A o \in Ops : store'[o].finished /\ ~store'[o].error /\ o \notin blind'
                                     => opState[o] = "ok"
<1>1. ASSUME NEW w \in Workers, Step(w) PROVE SuccessInv'
  <2>1. /\ UNCHANGED opState
        /\ UNCHANGED <<txs, ntx>> \/ Broadcast(w)
    BY <1>1, StepChain
  <2>2. MinedInv'
    BY <1>0, <2>1 DEF Broadcast, SuccessInv, MinedInv
  <2>3. Sound
    <3>1. CASE PrevReceipt(w)
      <4>1. JobOf(w).prev \in TxIds
        BY <1>0, <3>1 DEF PrevReceipt, PostExecution, HeldInv, TypeInv, BusyHasJob, JobOf, Job
      <4> QED BY <3>1, <4>1, ReportSound, OtherWrites DEF PrevReceipt, PostExecution
    <3>2. CASE FastReceipt(w)
      <4>1. mem[w].tx \in TxIds
        BY <3>2, ConstantFacts DEF FastReceipt, SyncReceipt, AsyncReceipt, NonceInv, TypeInv, TypeOK, TxIds
      <4> QED BY <3>2, <4>1, ReportSound, OtherWrites DEF FastReceipt, SyncReceipt, AsyncReceipt
    <3>3. CASE WaitReceipt(w)
      BY <3>3, ReportSound, OtherWrites DEF WaitReceipt, PostExecution
    <3>4. CASE Filter(w)
      BY <3>4, OtherWrites DEF Filter
    <3>5. CASE Throw(w)
      BY <3>5, OtherWrites DEF Throw
    <3>6. CASE Regenerate(w)
      BY <3>6, OtherWrites DEF Regenerate, RegenerationFails
    <3>7. CASE Retain(w)
      BY <3>7, OtherWrites DEF Retain, RegenerationFails
    <3>8. CASE \/ Take(w) \/ Forget(w) \/ GetNonce(w) \/ Send(w) \/ Resync(w)
               \/ SaveTimedOut(w) \/ Adjust(w) \/ Simulate(w) \/ Finish(w) \/ QueueRetry(w)
      BY <3>8, OtherWrites DEF Take, Forget, GetNonce, Send, Resync, SaveTimedOut, Adjust,
                               Simulate, Finish, QueueRetry, storage
    <3> QED BY <1>1, <3>1, <3>2, <3>3, <3>4, <3>5, <3>6, <3>7, <3>8 DEF Step
  <2> QED BY <2>1, <2>2, <2>3 DEF SuccessInv, SuccessIsReal
<1>2. ASSUME NEW t \in TxIds, Include(t) PROVE SuccessInv'
  <2> DEFINE ok == \A o \in txs[t].ops : Valid(o)
  <2>1. \A o \in Ops : opState[o] # "fresh" => opState'[o] = opState[o]
    BY <1>0, <1>2 DEF Include, Valid
  <2>2. \A u \in TxIds : txs'[u].st = "mined" => (txs[u].st = "mined" \/ (u = t /\ ok))
    BY <1>0, <1>2 DEF Include, Tx
  <2>3. \A u \in TxIds : txs'[u].ops = txs[u].ops /\ txs[u].ops \in SUBSET Ops
    BY <1>0, <1>2 DEF Include, Tx
  <2>4. ok => \A o \in txs[t].ops : opState'[o] # "fresh"
    BY <1>0, <1>2, <2>3 DEF Include
  <2>5. MinedInv'
    BY <2>1, <2>2, <2>3, <2>4 DEF SuccessInv, MinedInv
  <2>6. SuccessIsReal'
    BY <1>2, <2>1 DEF Include, storage, SuccessInv, SuccessIsReal
  <2> QED BY <2>5, <2>6 DEF SuccessInv
<1>3. ASSUME NEW t \in TxIds, Drop(t) PROVE SuccessInv'
  BY <1>0, <1>3 DEF Drop, storage, SuccessInv, MinedInv, SuccessIsReal, Tx
<1>4. CASE Submit \/ Crash \/ Stalled \/ (\E o \in Ops : Expire(o)) \/ UNCHANGED vars
  BY <1>4 DEF Submit, Crash, Stalled, Expire, vars, chain, storage, SuccessInv, MinedInv,
              SuccessIsReal
<1> QED BY <1>1, <1>2, <1>3, <1>4 DEF Next

\* A userOp reported as executed with a receipt was executed with success.
THEOREM SuccessSound == Spec => []SuccessIsReal
<1>1. SuccessInv => SuccessIsReal
  BY DEF SuccessInv
<1> QED BY <1>1, SuccessInit, SuccessStep, TypeInvariant, JobsHeldOnce,
           NonceInvariant, PTL DEF Spec

-----------------------------------------------------------------------------
(* Where a userOp is, from the hand-over to its final status.               *)

\* Job attempts are configured, and no job is orphaned more often than BullMQ's stalled
\* check forgives: past maxStalledCount it fails a job without running the processor, and
\* nobody gives its userOps a status.
FewCrashes == MaxAttempts > 0 /\ Crashes <= MaxStalled

\* Job j still has to see to o: it lists o, and its worker has not queued o again.
Solid(j, o) ==
  /\ Live(j) /\ o \in jobs[j].ops
  /\ \A w \in Workers : mem[w].job = j /\ pc[w] \in {"add", "retain"}
                          => o \in mem[w].valid \cup mem[w].invalid

Done(S) == \A o \in S : store[o].finished

\* Until it rewrites its job a worker knows all userOps in it that have no status yet, sorts
\* all it knows when it takes a block apart, and gives the job up for good only once they
\* have a status.
WorkInv == \A w \in Workers :
  /\ pc[w] \notin {"idle", "finish"} => /\ mem[w].ops \subseteq JobOf(w).ops
                                        /\ Done(JobOf(w).ops \ mem[w].ops)
  /\ pc[w] \in {"add", "retain"} => /\ mem[w].valid \cup mem[w].invalid \subseteq mem[w].ops
                                    /\ mem[w].valid \cap mem[w].invalid = {}
  /\ pc[w] = "retain" => mem[w].valid = {}
  /\ pc[w] = "finish" \/ (pc[w] = "failed" /\ JobOf(w).attempts + 1 >= MaxAttempts)
       => Done(JobOf(w).ops)

\* Only submitted userOps are in jobs, and only they are confirmed.
SubmitInv ==
  /\ \A j \in Slots : Live(j) => jobs[j].ops \subseteq submitted
  /\ \A o \in Ops : store[o].confirmed => o \in submitted

\* A job was found stalled at most once for each crash, and there is a crash to spare
\* for the one nobody holds now.
StallInv ==
  /\ budget.queue <= QueueFaults /\ budget.crash <= Crashes
  /\ \A j \in Slots : Live(j) =>
       /\ jobs[j].stalls <= Crashes - budget.crash
       /\ (jobs[j].st = "active" /\ \A w \in Workers : mem[w].job # j)
            => jobs[j].stalls < Crashes - budget.crash

\* A submitted userOp has its final status or a job that has to see to it ...
KeptInv == \A o \in submitted : store[o].finished \/ \E j \in Slots : Solid(j, o)

\* ... and only one such job, while nothing fails, ...
OnceInv == Undisturbed => \A o \in Ops : \A i, j \in Slots : Solid(i, o) /\ Solid(j, o) => i = j

\* ... which is as good as over when the userOp is confirmed.
FinalInv == Undisturbed => \A o \in Ops : \A j \in Slots :
  store[o].confirmed /\ Solid(j, o) => \E w \in Workers : mem[w].job = j /\ pc[w] = "finish"

JobInv == WorkInv /\ SubmitInv /\ StallInv /\ KeptInv /\ OnceInv /\ FinalInv

-----------------------------------------------------------------------------
(* What the steps of a worker do to its job, its locals and the storage: one *)
(* operator for each way to treat the job.                                   *)

OthersStay(w) == \A v \in Workers \ {w} : pc'[v] = pc[v] /\ mem'[v] = mem[v]

OtherJobsStay(w) == \A i \in Slots \ {mem[w].job} : jobs'[i] = jobs[i]

\* No other storage entry than those of S changes, a status stays final, and only a
\* worker that is done confirms.
Writes(S, w) == \A o \in Ops :
  /\ o \notin S => store'[o] = store[o]
  /\ store[o].finished => store'[o].finished
  /\ store'[o].confirmed => store[o].confirmed \/ pc'[w] = "finish"

\* w goes on with its job, which may lose userOps that have their status.
GoesOn(w) ==
  LET j == mem[w].job IN
  /\ pc[w] \notin {"idle", "finish", "failed", "add", "retain"}
  /\ pc'[w] \notin {"idle", "retain"}
  /\ mem'[w].job = j
  /\ jobs'[j].st = "active" /\ jobs'[j].stalls = jobs[j].stalls
  /\ mem'[w].ops \subseteq jobs'[j].ops /\ jobs'[j].ops \subseteq jobs[j].ops
  /\ \A o \in jobs[j].ops \ mem'[w].ops : store'[o].finished
  /\ pc'[w] = "finish" \/ (pc'[w] = "failed" /\ jobs'[j].attempts + 1 >= MaxAttempts)
       => \A o \in mem'[w].ops : store'[o].finished
  /\ pc'[w] = "add" => /\ mem'[w].valid \cup mem'[w].invalid = mem'[w].ops
                       /\ mem'[w].valid \cap mem'[w].invalid = {}
  /\ Writes(mem[w].ops, w)
  /\ OtherJobsStay(w)
  /\ budget'.queue <= budget.queue /\ budget'.crash = budget.crash

\* w has put the valid userOps S into job k, or has no more of them.
Adds(w) ==
  LET j == mem[w].job IN
  /\ pc[w] = "add"
  /\ \E S \in SUBSET mem[w].valid : \E k \in Slots :
       /\ jobs[k].st = "free" /\ k # j
       /\ jobs' = [jobs EXCEPT ![k] = NewJob(S)]
       /\ mem'[w].job = j /\ mem'[w].ops = mem[w].ops
       /\ mem'[w].valid = mem[w].valid \ S /\ mem'[w].invalid = mem[w].invalid
  /\ pc'[w] = "add" /\ UNCHANGED <<store, budget>>

Added(w) ==
  /\ pc[w] = "add" /\ pc'[w] = "retain" /\ mem[w].valid = {}
  /\ UNCHANGED <<jobs, mem, store, budget>>

\* The queue fails while w takes its block apart.
Stumbles(w) ==
  LET j == mem[w].job IN
  /\ pc[w] \in {"add", "retain"} /\ pc'[w] \in {"forget", "throw"}
  /\ mem'[w].job = j /\ mem'[w].ops = mem[w].ops
  /\ jobs'[j].st = "active" /\ jobs'[j].stalls = jobs[j].stalls /\ jobs'[j].ops = jobs[j].ops
  /\ OtherJobsStay(w) /\ UNCHANGED store
  /\ budget.queue > 0 /\ budget' = [budget EXCEPT !.queue = @ - 1]

\* The job keeps the faulty userOps, with their status.
Retains(w) ==
  LET j == mem[w].job IN
  /\ pc[w] = "retain" /\ pc'[w] = "finish" /\ UNCHANGED <<mem, budget>>
  /\ jobs'[j].st = "active" /\ jobs'[j].stalls = jobs[j].stalls
  /\ jobs'[j].ops = mem[w].invalid
  /\ OtherJobsStay(w) /\ Writes(mem[w].invalid, w)
  /\ \A o \in mem[w].invalid : store'[o].finished
  /\ \A o \in Ops : store'[o].confirmed => store[o].confirmed

\* The job of w is over, or waits for its next attempt.
Leaves(w) ==
  LET j == mem[w].job IN
  /\ pc[w] \in {"finish", "failed"} /\ pc'[w] = "idle" /\ mem'[w].job = NoJob
  /\ \/ jobs'[j].st = "free" /\ Done(jobs[j].ops)
     \/ /\ pc[w] = "failed"
        /\ jobs'[j].st = "waiting" /\ jobs'[j].stalls = jobs[j].stalls
        /\ jobs'[j].ops = jobs[j].ops
  /\ OtherJobsStay(w) /\ UNCHANGED <<store, budget>>

Takes(w) ==
  \E j \in Slots :
    /\ pc[w] = "idle" /\ pc'[w] \in {"prev", "filter"} /\ jobs[j].st = "waiting"
    /\ jobs'[j].st = "active" /\ jobs'[j].stalls = jobs[j].stalls /\ jobs'[j].ops = jobs[j].ops
    /\ \A i \in Slots \ {j} : jobs'[i] = jobs[i]
    /\ mem'[w].job = j /\ mem'[w].ops = jobs[j].ops
    /\ UNCHANGED <<store, budget>>

\* The assignments of a step that w makes: its next phase, its locals and its job.
LEMMA Assignments ==
  ASSUME TypeInv, NEW w \in Workers
  PROVE  /\ \A p : Goto(w, p) => pc'[w] = p
         /\ UNCHANGED pc => pc'[w] = pc[w]
         /\ \A r : Locals(w, r) => mem'[w] = r
         /\ UNCHANGED mem => mem'[w] = mem[w]
         /\ mem[w] \in Local
         /\ pc[w] # "idle" => mem[w].job \in Slots /\ jobs[mem[w].job] \in Job
         /\ \A r : SetJob(mem[w].job, r) =>
              /\ OtherJobsStay(w)
              /\ mem[w].job \in Slots => jobs'[mem[w].job] = r
         /\ UNCHANGED jobs => OtherJobsStay(w) /\ jobs'[mem[w].job] = jobs[mem[w].job]
<1>1. /\ pc \in [Workers -> Phases] /\ mem \in [Workers -> Local] /\ jobs \in [Slots -> Job]
      /\ BusyHasJob
  BY DEF TypeInv, TypeOK
<1> QED BY <1>1 DEF Goto, Locals, SetJob, OtherJobsStay, BusyHasJob

\* What the helpers that write statuses write.
LEMMA StatusWrites ==
  ASSUME TypeInv, NEW w, NEW S \in SUBSET Ops
  PROVE  /\ UNCHANGED store => Writes(S, w)
         /\ MarkFailed(S) => /\ Writes(S, w) /\ \A o \in S : store'[o].finished
                             /\ \A o \in Ops : store'[o].confirmed => store[o].confirmed
         /\ \A t, r : \A c \in BOOLEAN : Report(S, t, r, c) /\ (c => pc'[w] = "finish") =>
              Writes(S, w) /\ \A o \in S : store'[o].finished
         /\ \A t : ReportBlind(S, t) /\ pc'[w] = "finish" =>
              Writes(S, w) /\ \A o \in S : store'[o].finished
<1>1. store \in [Ops -> Field]
  BY DEF TypeInv, TypeOK
<1>2. UNCHANGED store => Writes(S, w)
  BY DEF Writes
<1>3. MarkFailed(S) => /\ Writes(S, w) /\ \A o \in S : store'[o].finished
                       /\ \A o \in Ops : store'[o].confirmed => store[o].confirmed
  BY <1>1 DEF Writes, MarkFailed, Field
<1>4. \A t, r : \A c \in BOOLEAN : Report(S, t, r, c) /\ (c => pc'[w] = "finish") =>
              Writes(S, w) /\ \A o \in S : store'[o].finished
  <2> SUFFICES ASSUME NEW t, NEW r, NEW c \in BOOLEAN, Report(S, t, r, c), c => pc'[w] = "finish"
               PROVE  Writes(S, w) /\ \A o \in S : store'[o].finished
    OBVIOUS
  <2>1. \A o \in Ops : /\ o \notin S => store'[o] = store[o]
                       /\ o \in S => store'[o].finished /\ store'[o].confirmed = c
    BY DEF Report
  <2> QED BY <2>1 DEF Writes
<1>5. \A t : ReportBlind(S, t) /\ pc'[w] = "finish" =>
              Writes(S, w) /\ \A o \in S : store'[o].finished
  <2> SUFFICES ASSUME NEW t, ReportBlind(S, t), pc'[w] = "finish"
               PROVE  Writes(S, w) /\ \A o \in S : store'[o].finished
    OBVIOUS
  <2>1. \A o \in Ops : /\ o \notin S => store'[o] = store[o]
                       /\ o \in S => store'[o].finished
    BY <1>1 DEF ReportBlind, Field
  <2> QED BY <2>1 DEF Writes
<1> QED BY <1>2, <1>3, <1>4, <1>5

LEMMA OnErrorKeeps ==
  ASSUME TypeInv, NEW w \in Workers, NEW e, NEW hash, OnError(w, e, hash)
  PROVE  mem'[w].ops = mem[w].ops
<1> DEFINE m == mem[w]
<1>1. m \in Local
  BY DEF TypeInv, TypeOK
<1>2. PICK r \in {m, [m EXCEPT !.split = (e = "blockGas"), !.fromPrev = FALSE, !.tx = NoTx],
                  [m EXCEPT !.err = e, !.tx = NoTx]} : Locals(w, r) \/ (UNCHANGED mem /\ r = m)
  BY DEF OnError
<1>3. r.ops = m.ops
  BY <1>1, <1>2 DEF Local
<1>4. mem'[w] = r
  BY <1>2, Assignments
<1> QED BY <1>3, <1>4

LEMMA OtherFaults ==
  ASSUME TypeInv, NoFault \/ Fault("rpc") \/ Fault("queue")
  PROVE  budget'.queue <= budget.queue /\ budget'.crash = budget.crash
BY DEF TypeInv, TypeOK, NoFault, Fault

\* A step that keeps the userOps of the job.
LEMMA KeepsOps ==
  ASSUME TypeInv, HeldInv, WorkInv, NEW w \in Workers,
         pc[w] \notin {"idle", "finish", "failed", "add", "retain"},
         pc'[w] \notin {"idle", "failed", "add", "retain"},
         mem'[w].job = mem[w].job, mem'[w].ops = mem[w].ops,
         UNCHANGED jobs \/ \E p : SetJob(mem[w].job, [JobOf(w) EXCEPT !.prev = p]),
         Writes(mem[w].ops, w),
         pc'[w] = "finish" => \A o \in mem[w].ops : store'[o].finished,
         NoFault \/ Fault("rpc") \/ Fault("queue")
  PROVE  GoesOn(w)
<1> DEFINE j == mem[w].job
<1>1. /\ j \in Slots /\ jobs[j] \in Job /\ jobs[j].st = "active"
      /\ mem[w].ops \subseteq jobs[j].ops /\ \A o \in jobs[j].ops \ mem[w].ops : store[o].finished
      /\ jobs[j].ops \subseteq Ops
  BY Assignments DEF HeldInv, WorkInv, JobOf, Done, Job
<1>2. /\ OtherJobsStay(w)
      /\ jobs'[j].st = "active" /\ jobs'[j].stalls = jobs[j].stalls /\ jobs'[j].ops = jobs[j].ops
  <2>1. CASE UNCHANGED jobs
    BY <1>1, <2>1, Assignments
  <2>2. CASE \E p : SetJob(j, [JobOf(w) EXCEPT !.prev = p])
    <3>1. PICK p : SetJob(j, [jobs[j] EXCEPT !.prev = p])
      BY <2>2 DEF JobOf
    <3>2. jobs'[j] = [jobs[j] EXCEPT !.prev = p] /\ OtherJobsStay(w)
      BY <1>1, <3>1, Assignments
    <3> QED BY <1>1, <3>2 DEF Job
  <2> QED BY <2>1, <2>2
<1>3. budget'.queue <= budget.queue /\ budget'.crash = budget.crash
  BY OtherFaults
<1>4. \A o \in jobs[j].ops \ mem[w].ops : store'[o].finished
  BY <1>1 DEF Writes
<1> QED BY <1>1, <1>2, <1>3, <1>4 DEF GoesOn

LEMMA GoesOnSteps ==
  ASSUME FewCrashes, TypeInv, HeldInv, WorkInv, NEW w \in Workers,
         \/ PrevReceipt(w) \/ Forget(w) \/ Filter(w) \/ GetNonce(w) \/ Send(w)
         \/ FastReceipt(w) \/ WaitReceipt(w) \/ Resync(w) \/ SaveTimedOut(w) \/ Adjust(w)
         \/ Simulate(w) \/ Throw(w)
  PROVE  GoesOn(w)
<1> DEFINE m == mem[w]
           j == m.job
<1>0. m \in Local /\ m.ops \in SUBSET Ops
  BY Assignments DEF Local
<1>1. pc[w] \notin {"idle", "finish"} =>
        /\ j \in Slots /\ jobs[j] \in Job /\ jobs[j].st = "active" /\ jobs[j].ops \subseteq Ops
        /\ m.ops \subseteq jobs[j].ops /\ \A o \in jobs[j].ops \ m.ops : store[o].finished
  BY Assignments DEF HeldInv, WorkInv, JobOf, Done, Job
<1>2. /\ \A p : Goto(w, p) => pc'[w] = p
      /\ \A r : Locals(w, r) => mem'[w] = r
      /\ UNCHANGED mem => mem'[w] = m
  BY Assignments
<1>3. (\E e, h : OnError(w, e, h)) =>
        /\ mem'[w].job = j /\ mem'[w].ops = m.ops
        /\ pc'[w] \in {"throw", "simulate", "timeout", "adjust"}
  BY OnErrorFrame, OnErrorKeeps
<1>4. /\ UNCHANGED store => Writes(m.ops, w)
      /\ \A t, r : \A c \in BOOLEAN : Report(m.ops, t, r, c) /\ (c => pc'[w] = "finish") =>
           Writes(m.ops, w) /\ \A o \in m.ops : store'[o].finished
      /\ \A t : ReportBlind(m.ops, t) /\ pc'[w] = "finish" =>
           Writes(m.ops, w) /\ \A o \in m.ops : store'[o].finished
  BY <1>0, StatusWrites
<1>5. CASE PrevReceipt(w)
  <2>1. pc[w] = "prev" /\ pc'[w] \in {"finish", "simulate", "forget"} /\ (NoFault \/ Fault("rpc"))
    BY <1>2, <1>5 DEF PrevReceipt, PostExecution
  <2>2. mem'[w].job = j /\ mem'[w].ops = m.ops
    <3>1. LET r == [m EXCEPT !.fromPrev = TRUE, !.split = FALSE]
          IN  r.job = j /\ r.ops = m.ops
      BY <1>0 DEF Local
    <3> QED BY <1>2, <1>5, <3>1 DEF PrevReceipt, PostExecution
  <2>3. UNCHANGED jobs
    BY <1>5 DEF PrevReceipt, PostExecution, queue
  <2>4. Writes(m.ops, w) /\ (pc'[w] = "finish" => \A o \in m.ops : store'[o].finished)
    BY <1>2, <1>4, <1>5 DEF PrevReceipt, PostExecution, storage
  <2> QED BY <2>1, <2>2, <2>3, <2>4, KeepsOps
<1>6. CASE GetNonce(w)
  <2>1. pc[w] = "nonce" /\ pc'[w] \in {"send", "throw"} /\ (NoFault \/ Fault("rpc"))
    BY <1>2, <1>6 DEF GetNonce
  <2>2. mem'[w].job = j /\ mem'[w].ops = m.ops
    <3>1. \A n : [m EXCEPT !.nonce = n].job = j /\ [m EXCEPT !.nonce = n].ops = m.ops
      BY <1>0 DEF Local
    <3> QED BY <1>2, <1>6, <3>1 DEF GetNonce
  <2>3. UNCHANGED jobs /\ Writes(m.ops, w)
    BY <1>4, <1>6 DEF GetNonce, storage, queue
  <2> QED BY <2>1, <2>2, <2>3, KeepsOps
<1>7. CASE Send(w)
  <2>1. pc[w] = "send" /\ (NoFault \/ Fault("rpc"))
    BY <1>7 DEF Send
  <2>2. /\ mem'[w].job = j /\ mem'[w].ops = m.ops
        /\ pc'[w] \in {"fast", "throw", "simulate", "timeout", "adjust"}
    <3>1. \A n : [m EXCEPT !.tx = n].job = j /\ [m EXCEPT !.tx = n].ops = m.ops
      BY <1>0 DEF Local
    <3> QED BY <1>2, <1>3, <1>7, <3>1 DEF Send
  <2>3. UNCHANGED jobs /\ Writes(m.ops, w)
    BY <1>4, <1>7 DEF Send, storage, queue
  <2> QED BY <2>1, <2>2, <2>3, KeepsOps
<1>8. CASE FastReceipt(w)
  <2>1. pc[w] = "fast" /\ (NoFault \/ Fault("rpc"))
    BY <1>8 DEF FastReceipt, SyncReceipt, AsyncReceipt
  <2>2. /\ mem'[w].job = j /\ mem'[w].ops = m.ops
        /\ pc'[w] \in {"wait", "throw", "simulate", "timeout", "adjust"}
    BY <1>2, <1>3, <1>8 DEF FastReceipt, SyncReceipt, AsyncReceipt
  <2>3. UNCHANGED jobs
    BY <1>8 DEF FastReceipt, SyncReceipt, AsyncReceipt, queue
  <2>4. Writes(m.ops, w)
    BY <1>4, <1>8 DEF FastReceipt, SyncReceipt, AsyncReceipt, storage
  <2> QED BY <2>1, <2>2, <2>3, <2>4, KeepsOps
<1>9. CASE WaitReceipt(w)
  <2>1. pc[w] = "wait" /\ (NoFault \/ Fault("rpc"))
    BY <1>9 DEF WaitReceipt, PostExecution
  <2>2. /\ mem'[w].job = j /\ mem'[w].ops = m.ops
        /\ pc'[w] \in {"finish", "throw", "simulate", "timeout", "adjust"}
    BY <1>2, <1>3, <1>9 DEF WaitReceipt, PostExecution
  <2>3. UNCHANGED jobs
    BY <1>9 DEF WaitReceipt, PostExecution, queue
  <2>4. Writes(m.ops, w) /\ (pc'[w] = "finish" => \A o \in m.ops : store'[o].finished)
    BY <1>2, <1>3, <1>4, <1>9 DEF WaitReceipt, PostExecution, storage
  <2> QED BY <2>1, <2>2, <2>3, <2>4, KeepsOps
<1>10. CASE Resync(w) \/ SaveTimedOut(w) \/ Forget(w)
  <2>1. /\ pc[w] \in {"timeout", "save", "forget"} /\ pc'[w] \in {"save", "throw", "filter"}
        /\ NoFault \/ Fault("rpc") \/ Fault("queue")
        /\ mem'[w] = m /\ Writes(m.ops, w)
        /\ UNCHANGED jobs \/ \E p : SetJob(j, [JobOf(w) EXCEPT !.prev = p])
    BY <1>2, <1>4, <1>10 DEF Resync, SaveTimedOut, Forget, storage, queue
  <2> QED BY <2>1, KeepsOps
<1>11. CASE Adjust(w)
  <2>1. pc[w] = "adjust" /\ pc'[w] \in {"send", "throw"} /\ (NoFault \/ Fault("rpc"))
    BY <1>2, <1>11 DEF Adjust
  <2>2. mem'[w].job = j /\ mem'[w].ops = m.ops
    <3>1. \A n : LET r == [m EXCEPT !.again = TRUE, !.nonce = n] IN r.job = j /\ r.ops = m.ops
      BY <1>0 DEF Local
    <3> QED BY <1>2, <1>11, <3>1 DEF Adjust
  <2>3. UNCHANGED jobs /\ Writes(m.ops, w)
    BY <1>4, <1>11 DEF Adjust, storage, queue
  <2> QED BY <2>1, <2>2, <2>3, KeepsOps
<1>12. CASE Filter(w)
  <2> DEFINE late == m.ops \cap expired
             rest == m.ops \ expired
  <2>1. /\ pc[w] = "filter" /\ MarkFailed(late) /\ Locals(w, [m EXCEPT !.ops = rest])
        /\ \/ /\ SetJob(j, [JobOf(w) EXCEPT !.ops = rest]) /\ NoFault
              /\ Goto(w, IF late # {} /\ rest = {} THEN "finish" ELSE "nonce")
           \/ UNCHANGED jobs /\ Fault("queue") /\ Goto(w, "throw")
    BY <1>12 DEF Filter
  <2>2. mem'[w].job = j /\ mem'[w].ops = rest
    BY <1>0, <1>2, <2>1 DEF Local
  <2>3. /\ jobs'[j].st = "active" /\ jobs'[j].stalls = jobs[j].stalls
        /\ jobs'[j].ops \in {rest, jobs[j].ops} /\ OtherJobsStay(w)
    <3>1. jobs'[j] \in {jobs[j], [jobs[j] EXCEPT !.ops = rest]} /\ OtherJobsStay(w)
      BY <1>1, <2>1, Assignments DEF JobOf
    <3> QED BY <1>1, <2>1, <3>1 DEF Job
  <2>4. Writes(late, w) /\ \A o \in late : store'[o].finished
    BY <1>0, <2>1, StatusWrites
  <2>5. pc'[w] \in {"finish", "nonce", "throw"} /\ (pc'[w] = "finish" => rest = {})
    BY <1>2, <2>1
  <2>6. Writes(m.ops, w)
    BY <2>4 DEF Writes
  <2>7. \A o \in jobs[j].ops \ rest : store'[o].finished
    BY <1>1, <2>1, <2>4 DEF Writes
  <2>8. budget'.queue <= budget.queue /\ budget'.crash = budget.crash
    BY <2>1, OtherFaults
  <2> QED BY <1>1, <2>1, <2>2, <2>3, <2>5, <2>6, <2>7, <2>8 DEF GoesOn
<1>13. CASE Simulate(w)
  <2>1. PICK S \in SUBSET m.ops :
          /\ S = {o \in m.ops : ~Valid(o)} \/ Fault("rpc")
          /\ NoFault \/ Fault("rpc")
          /\ Locals(w, [m EXCEPT !.invalid = S, !.valid = m.ops \ S])
    BY <1>13 DEF Simulate
  <2>2. /\ mem'[w].job = j /\ mem'[w].ops = m.ops
        /\ mem'[w].invalid = S /\ mem'[w].valid = m.ops \ S
    BY <1>0, <1>2, <2>1 DEF Local
  <2>3. pc[w] = "simulate" /\ pc'[w] = "add"
    BY <1>2, <1>13 DEF Simulate
  <2>4. UNCHANGED jobs /\ OtherJobsStay(w) /\ Writes(m.ops, w)
    BY <1>4, <1>13, Assignments DEF Simulate, queue, storage
  <2>5. budget'.queue <= budget.queue /\ budget'.crash = budget.crash
    BY <2>1, OtherFaults
  <2>6. \A o \in jobs[j].ops \ m.ops : store'[o].finished
    BY <1>1, <2>3, <2>4 DEF Writes
  <2> QED BY <1>1, <2>2, <2>3, <2>4, <2>5, <2>6 DEF GoesOn
<1>14. CASE Throw(w)
  <2>1. /\ pc[w] = "throw" /\ pc'[w] = "failed" /\ UNCHANGED <<jobs, budget>>
        /\ mem'[w] = m /\ OtherJobsStay(w)
    BY <1>2, <1>14, Assignments DEF Throw, queue
  <2>2. Writes(m.ops, w)
    BY <1>0, <1>4, <1>14, StatusWrites DEF Throw
  <2>3. jobs[j].attempts + 1 >= MaxAttempts => \A o \in m.ops : store'[o].finished
    <3>1. jobs[j].attempts + 1 >= MaxAttempts => jobs[j].attempts = MaxAttempts - 1
      BY <1>1, <2>1, ConstantFacts DEF Job, Attempts, FewCrashes
    <3> QED BY <1>0, <1>14, <3>1, StatusWrites DEF Throw, JobOf
  <2>4. \A o \in jobs[j].ops \ m.ops : store'[o].finished
    BY <1>1, <2>1, <2>2 DEF Writes
  <2>5. budget'.queue <= budget.queue
    BY <2>1 DEF TypeInv, TypeOK
  <2> QED BY <1>1, <2>1, <2>2, <2>3, <2>4, <2>5 DEF GoesOn
<1> QED BY <1>5, <1>6, <1>7, <1>8, <1>9, <1>10, <1>11, <1>12, <1>13, <1>14

LEMMA RegenerationSteps ==
  ASSUME TypeInv, HeldInv, WorkInv, NEW w \in Workers, Regenerate(w) \/ Retain(w)
  PROVE  Adds(w) \/ Added(w) \/ Stumbles(w) \/ Retains(w)
<1> DEFINE m == mem[w]
           j == m.job
<1>0. m \in Local /\ pc[w] \in {"add", "retain"}
  BY Assignments DEF Regenerate, Retain
<1>1. j \in Slots /\ jobs[j] \in Job /\ jobs[j].st = "active"
  BY <1>0, Assignments DEF HeldInv, JobOf
<1>2. /\ \A p : Goto(w, p) => pc'[w] = p
      /\ \A r : Locals(w, r) => mem'[w] = r
      /\ UNCHANGED mem => mem'[w] = m
      /\ UNCHANGED pc => pc'[w] = pc[w]
      /\ \A r : SetJob(j, r) => OtherJobsStay(w) /\ jobs'[j] = r
      /\ UNCHANGED jobs => OtherJobsStay(w) /\ jobs'[j] = jobs[j]
  BY <1>1, Assignments
<1>3. CASE RegenerationFails(w)
  <2>1. /\ UNCHANGED store /\ budget.queue > 0
        /\ budget' = [budget EXCEPT !.queue = @ - 1]
    BY <1>3 DEF RegenerationFails, Fault
  <2>2. CASE m.fromPrev
    <3>1. /\ jobs'[j] = jobs[j] /\ OtherJobsStay(w)
          /\ mem'[w] = [m EXCEPT !.fromPrev = FALSE, !.valid = {}, !.invalid = {}]
          /\ pc'[w] = "forget"
      BY <1>2, <1>3, <2>2 DEF RegenerationFails
    <3>2. mem'[w].job = j /\ mem'[w].ops = m.ops
      BY <1>0, <3>1 DEF Local
    <3> QED BY <1>0, <1>1, <2>1, <3>1, <3>2 DEF Stumbles
  <2>3. CASE ~m.fromPrev
    <3>1. pc'[w] = "throw" /\ mem'[w] = m /\ OtherJobsStay(w) /\ jobs'[j] = jobs[j]
      BY <1>2, <1>3, <2>3 DEF RegenerationFails
    <3> QED BY <1>0, <1>1, <2>1, <3>1 DEF Stumbles
  <2> QED BY <2>2, <2>3
<1>4. CASE Regenerate(w) /\ ~RegenerationFails(w)
  <2>0. pc[w] = "add"
    BY <1>4 DEF Regenerate
  <2>1. CASE \E S \in SUBSET m.valid : \E k \in Slots :
               AddJob(k, S) /\ Locals(w, [m EXCEPT !.valid = @ \ S])
               /\ UNCHANGED <<pc, store, budget>>
    <3>1. PICK S \in SUBSET m.valid : \E k \in Slots :
               AddJob(k, S) /\ Locals(w, [m EXCEPT !.valid = @ \ S])
               /\ UNCHANGED <<pc, store, budget>>
      BY <2>1
    <3>2. PICK k \in Slots :
               AddJob(k, S) /\ Locals(w, [m EXCEPT !.valid = @ \ S])
               /\ UNCHANGED <<pc, store, budget>>
      BY <3>1
    <3>3. mem'[w] = [m EXCEPT !.valid = @ \ S]
      BY <1>2, <3>2
    <3>4. /\ mem'[w].job = j /\ mem'[w].ops = m.ops /\ mem'[w].valid = m.valid \ S
          /\ mem'[w].invalid = m.invalid
      BY <1>0, <3>3 DEF Local
    <3>5. jobs[k].st = "free" /\ k # j /\ jobs' = [jobs EXCEPT ![k] = NewJob(S)]
      BY <1>1, <3>2 DEF AddJob
    <3> QED BY <2>0, <1>2, <3>2, <3>4, <3>5 DEF Adds
  <2>2. CASE m.valid = {} /\ Goto(w, "retain") /\ NoFault /\ UNCHANGED <<jobs, mem, store>>
    BY <2>0, <1>2, <2>2 DEF Added, NoFault
  <2> QED BY <1>4, <2>1, <2>2 DEF Regenerate, NoFault
<1>5. CASE Retain(w) /\ ~RegenerationFails(w)
  <2>1. /\ pc[w] = "retain" /\ SetJob(j, [JobOf(w) EXCEPT !.ops = m.invalid, !.prev = NoTx])
        /\ MarkFailed(m.invalid) /\ Goto(w, "finish") /\ UNCHANGED <<mem, budget>>
    BY <1>5 DEF Retain, NoFault
  <2>2. /\ jobs'[j] = [jobs[j] EXCEPT !.ops = m.invalid, !.prev = NoTx] /\ OtherJobsStay(w)
        /\ pc'[w] = "finish"
    BY <1>2, <2>1 DEF JobOf
  <2>3. jobs'[j].st = "active" /\ jobs'[j].stalls = jobs[j].stalls /\ jobs'[j].ops = m.invalid
    BY <1>1, <2>2 DEF Job
  <2>4. /\ Writes(m.invalid, w) /\ \A o \in m.invalid : store'[o].finished
        /\ \A o \in Ops : store'[o].confirmed => store[o].confirmed
    <3>1. m.invalid \in SUBSET Ops
      BY <1>0 DEF Local
    <3> QED BY <2>1, <3>1, StatusWrites
  <2> QED BY <2>1, <2>2, <2>3, <2>4 DEF Retains
<1> QED BY <1>3, <1>4, <1>5

LEMMA QueueSteps ==
  ASSUME TypeInv, HeldInv, WorkInv, NEW w \in Workers, Take(w) \/ Finish(w) \/ QueueRetry(w)
  PROVE  Takes(w) \/ Leaves(w)
<1> DEFINE j == mem[w].job
<1>1. /\ jobs \in [Slots -> Job] /\ mem[w] \in Local
      /\ pc[w] # "idle" => j \in Slots /\ jobs[j] \in Job
  BY Assignments DEF TypeInv, TypeOK
<1>2. /\ \A p : Goto(w, p) => pc'[w] = p
      /\ \A r : Locals(w, r) => mem'[w] = r
      /\ \A r : SetJob(j, r) => OtherJobsStay(w) /\ (j \in Slots => jobs'[j] = r)
  BY Assignments
<1>3. CASE Take(w)
  <2>1. PICK k \in Slots :
          /\ jobs[k].st = "waiting" /\ SetJob(k, [jobs[k] EXCEPT !.st = "active"])
          /\ Locals(w, [Idle EXCEPT !.job = k, !.ops = jobs[k].ops])
          /\ Goto(w, IF jobs[k].prev # NoTx THEN "prev" ELSE "filter")
    BY <1>3 DEF Take
  <2>2. mem'[w].job = k /\ mem'[w].ops = jobs[k].ops
    BY <1>2, <2>1 DEF Idle
  <2>3. /\ jobs'[k].st = "active" /\ jobs'[k].stalls = jobs[k].stalls /\ jobs'[k].ops = jobs[k].ops
        /\ \A i \in Slots \ {k} : jobs'[i] = jobs[i]
    BY <1>1, <2>1 DEF SetJob, Job
  <2> QED BY <1>2, <1>3, <2>1, <2>2, <2>3 DEF Take, Takes, storage
<1>4. CASE Finish(w)
  <2>1. jobs'[j] = FreeJob /\ OtherJobsStay(w) /\ mem'[w].job = NoJob /\ pc'[w] = "idle"
    BY <1>1, <1>2, <1>4 DEF Finish, Idle
  <2>2. FreeJob.st = "free"
    BY DEF FreeJob, NewJob
  <2>3. Done(jobs[j].ops)
    BY <1>4 DEF Finish, WorkInv, JobOf
  <2> QED BY <1>4, <2>1, <2>2, <2>3 DEF Finish, Leaves, storage
<1>5. CASE QueueRetry(w)
  <2>1. OtherJobsStay(w) /\ mem'[w].job = NoJob /\ pc'[w] = "idle" /\ pc[w] = "failed"
    BY <1>1, <1>2, <1>5 DEF QueueRetry, Idle
  <2>2. CASE jobs[j].attempts + 1 < MaxAttempts
    <3>1. jobs'[j] = [jobs[j] EXCEPT !.st = "waiting", !.attempts = @ + 1]
      BY <1>1, <1>2, <1>5, <2>2 DEF QueueRetry, JobOf
    <3>2. /\ jobs'[j].st = "waiting" /\ jobs'[j].stalls = jobs[j].stalls
          /\ jobs'[j].ops = jobs[j].ops
      BY <1>1, <2>1, <3>1 DEF Job
    <3> QED BY <1>5, <2>1, <3>2 DEF QueueRetry, Leaves, storage
  <2>3. CASE ~(jobs[j].attempts + 1 < MaxAttempts)
    <3>1. jobs'[j] = FreeJob
      BY <1>1, <1>2, <1>5, <2>3 DEF QueueRetry, JobOf
    <3>2. FreeJob.st = "free"
      BY DEF FreeJob, NewJob
    <3>3. Done(jobs[j].ops)
      <4>1. jobs[j].attempts + 1 >= MaxAttempts
        BY <1>1, <2>1, <2>3, ConstantFacts DEF Job, Attempts
      <4> QED BY <2>1, <4>1 DEF WorkInv, JobOf
    <3> QED BY <1>5, <2>1, <3>1, <3>2, <3>3 DEF QueueRetry, Leaves, storage
  <2> QED BY <2>2, <2>3
<1> QED BY <1>3, <1>4, <1>5

\* Every step of a worker is of one of these kinds, and hands no new userOps to the queue.
LEMMA StepKinds ==
  ASSUME FewCrashes, TypeInv, HeldInv, WorkInv, NEW w \in Workers, Step(w)
  PROVE  /\ \/ GoesOn(w) \/ Adds(w) \/ Added(w) \/ Stumbles(w) \/ Retains(w)
            \/ Leaves(w) \/ Takes(w)
         /\ OthersStay(w) /\ UNCHANGED submitted
<1>1. OthersStay(w)
  BY StepFrame DEF OthersStay
<1>2. UNCHANGED submitted
  BY DEF Step, Take, PrevReceipt, Forget, Filter, GetNonce, Send, FastReceipt, SyncReceipt, AsyncReceipt,
         WaitReceipt, PostExecution,
         Resync, SaveTimedOut, Adjust, Simulate, Regenerate, Retain, Finish, Throw, QueueRetry, queue
<1> QED BY <1>1, <1>2, GoesOnSteps, RegenerationSteps, QueueSteps DEF Step

\* No step takes a final status away.
LEMMA StepStatuses ==
  ASSUME FewCrashes, TypeInv, HeldInv, WorkInv, NEW w \in Workers, Step(w)
  PROVE  \A o \in Ops : store[o].finished => store'[o].finished
BY StepKinds DEF GoesOn, Adds, Added, Stumbles, Retains, Leaves, Takes, Writes

\* Who holds a job: nobody but w holds the job of w, and nobody a job that is not active.
LEMMA Holders ==
  ASSUME TypeInv, HeldInv, NEW w \in Workers
  PROVE  /\ pc[w] # "idle" => \A v \in Workers \ {w} : mem[v].job # mem[w].job
         /\ pc[w] = "idle" => mem[w].job = NoJob
         /\ \A i \in Slots : jobs[i].st # "active" => \A v \in Workers : mem[v].job # i
         /\ NoJob \notin Slots
         /\ \A i \in Slots : jobs[i].ops \in SUBSET Ops
         /\ pc[w] # "idle" => mem[w].job \in Slots
<1>1. NoJob \notin Slots
  BY DEF NoJob, Slots
<1>2. \A i \in Slots : jobs[i].ops \in SUBSET Ops
  BY DEF TypeInv, TypeOK, Job
<1> QED BY <1>1, <1>2 DEF HeldInv, JobOf, TypeInv, BusyHasJob

LEMMA WorkStep ==
  ASSUME FewCrashes, TypeInv, HeldInv, WorkInv, NEW w \in Workers, Step(w)
  PROVE  WorkInv'
<1> DEFINE Fine(v) ==
      /\ pc'[v] \notin {"idle", "finish"} =>
           /\ mem'[v].ops \subseteq jobs'[mem'[v].job].ops
           /\ \A o \in jobs'[mem'[v].job].ops \ mem'[v].ops : store'[o].finished
      /\ pc'[v] \in {"add", "retain"} =>
           /\ mem'[v].valid \cup mem'[v].invalid \subseteq mem'[v].ops
           /\ mem'[v].valid \cap mem'[v].invalid = {}
      /\ pc'[v] = "retain" => mem'[v].valid = {}
      /\ pc'[v] = "finish" \/ (pc'[v] = "failed" /\ jobs'[mem'[v].job].attempts + 1 >= MaxAttempts)
           => \A o \in jobs'[mem'[v].job].ops : store'[o].finished
<1>1. ASSUME NEW v \in Workers \ {w} PROVE Fine(v)
  <2>1. CASE pc[v] = "idle"
    BY <2>1, StepKinds DEF OthersStay
  <2>2. CASE pc[v] # "idle"
    <3>1. /\ pc'[v] = pc[v] /\ mem'[v] = mem[v]
          /\ jobs'[mem[v].job] = jobs[mem[v].job]
          /\ jobs[mem[v].job].ops \in SUBSET Ops
      BY <2>2, StepFrame, Holders DEF HeldInv, JobOf, TypeInv, BusyHasJob
    <3>2. /\ pc[v] \notin {"idle", "finish"} =>
               /\ mem[v].ops \subseteq jobs[mem[v].job].ops
               /\ \A o \in jobs[mem[v].job].ops \ mem[v].ops : store[o].finished
          /\ pc[v] \in {"add", "retain"} =>
               /\ mem[v].valid \cup mem[v].invalid \subseteq mem[v].ops
               /\ mem[v].valid \cap mem[v].invalid = {}
          /\ pc[v] = "retain" => mem[v].valid = {}
          /\ pc[v] = "finish" \/ (pc[v] = "failed" /\ jobs[mem[v].job].attempts + 1 >= MaxAttempts)
               => \A o \in jobs[mem[v].job].ops : store[o].finished
      BY DEF WorkInv, JobOf, Done
    <3> QED BY <3>1, <3>2, StepStatuses
  <2> QED BY <2>1, <2>2
<1>2. Fine(w)
  <2>1. /\ pc[w] \notin {"idle", "finish"} =>
             /\ mem[w].ops \subseteq jobs[mem[w].job].ops
             /\ \A o \in jobs[mem[w].job].ops \ mem[w].ops : store[o].finished
        /\ pc[w] \in {"add", "retain"} =>
             /\ mem[w].valid \cup mem[w].invalid \subseteq mem[w].ops
             /\ mem[w].valid \cap mem[w].invalid = {}
        /\ pc[w] # "idle" => mem[w].job \in Slots
        /\ jobs \in [Slots -> Job]
    BY DEF WorkInv, JobOf, Done, TypeInv, TypeOK, BusyHasJob
  <2>2. CASE GoesOn(w)
    BY <2>2 DEF GoesOn
  <2>3. CASE Adds(w)
    BY <2>1, <2>3 DEF Adds
  <2>4. CASE Added(w)
    BY <2>1, <2>4 DEF Added
  <2>5. CASE Stumbles(w)
    BY <2>1, <2>5 DEF Stumbles
  <2>6. CASE Retains(w)
    BY <2>6 DEF Retains
  <2>7. CASE Leaves(w)
    BY <2>7 DEF Leaves
  <2>8. CASE Takes(w)
    BY <2>8 DEF Takes
  <2> QED BY <2>2, <2>3, <2>4, <2>5, <2>6, <2>7, <2>8, StepKinds
<1> QED BY <1>1, <1>2 DEF WorkInv, JobOf, Done

\* The jobs of the queue after a step of w: those of before, with no more userOps and no
\* more stalls, or a new one with userOps of w's own.
LEMMA StepJobs ==
  ASSUME FewCrashes, TypeInv, HeldInv, WorkInv, NEW w \in Workers, Step(w),
         NEW i \in Slots, Live(i)'
  PROVE  /\ \/ /\ Live(i) /\ jobs'[i].stalls = jobs[i].stalls /\ jobs'[i].ops \subseteq jobs[i].ops
            \/ /\ jobs'[i].st = "waiting" /\ jobs'[i].stalls = 0
               /\ Live(mem[w].job) /\ mem[w].job \in Slots
               /\ jobs'[i].ops \subseteq jobs[mem[w].job].ops
         /\ jobs'[i].st = "active" /\ (\A v \in Workers : mem'[v].job # i)
              => jobs[i].st = "active" /\ \A v \in Workers : mem[v].job # i
<1> DEFINE j == mem[w].job
<1>1. /\ pc[w] \notin {"idle", "finish"} => mem[w].ops \subseteq jobs[j].ops
      /\ pc[w] \in {"add", "retain"} => mem[w].valid \cup mem[w].invalid \subseteq mem[w].ops
      /\ pc[w] # "idle" => j \in Slots /\ jobs[j].st = "active"
      /\ jobs \in [Slots -> Job]
  BY DEF WorkInv, JobOf, TypeInv, TypeOK, BusyHasJob, HeldInv
<1>2. OthersStay(w)
  BY StepKinds
<1>3. (pc[w] = "idle" => j = NoJob) /\ NoJob \notin Slots
  BY Holders
<1>4. CASE GoesOn(w)
  BY <1>1, <1>2, <1>4 DEF GoesOn, OtherJobsStay, OthersStay, Live
<1>5. CASE Adds(w)
  <2>1. PICK S \in SUBSET mem[w].valid : \E k \in Slots :
          jobs[k].st = "free" /\ k # j /\ jobs' = [jobs EXCEPT ![k] = NewJob(S)] /\ mem'[w].job = j
    BY <1>5 DEF Adds
  <2>2. PICK k \in Slots :
          jobs[k].st = "free" /\ k # j /\ jobs' = [jobs EXCEPT ![k] = NewJob(S)] /\ mem'[w].job = j
    BY <2>1
  <2>3. pc[w] = "add" /\ S \subseteq jobs[j].ops
    BY <1>1, <1>5 DEF Adds
  <2>4. CASE i = k
    <3>1. jobs'[i].st = "waiting" /\ jobs'[i].stalls = 0 /\ jobs'[i].ops = S
      BY <1>1, <2>2, <2>4 DEF NewJob
    <3> QED BY <1>1, <2>3, <3>1 DEF Live
  <2>5. CASE i # k
    BY <1>1, <1>2, <2>2, <2>5 DEF Live, OthersStay
  <2> QED BY <2>4, <2>5
<1>6. CASE Added(w)
  BY <1>1, <1>2, <1>6 DEF Added, OthersStay, Live
<1>7. CASE Stumbles(w)
  BY <1>1, <1>2, <1>7 DEF Stumbles, OtherJobsStay, OthersStay, Live
<1>8. CASE Retains(w)
  BY <1>1, <1>2, <1>8 DEF Retains, OtherJobsStay, OthersStay, Live
<1>9. CASE Leaves(w)
  BY <1>1, <1>2, <1>9 DEF Leaves, OtherJobsStay, OthersStay, Live
<1>10. CASE Takes(w)
  BY <1>1, <1>2, <1>3, <1>10 DEF Takes, OthersStay, Live
<1> QED BY <1>4, <1>5, <1>6, <1>7, <1>8, <1>9, <1>10, StepKinds

\* Whether job i still has to see to o depends on the job and on who holds it.
LEMMA SolidElsewhere ==
  ASSUME NEW w \in Workers, OthersStay(w), NEW i \in Slots, NEW o \in Ops,
         jobs'[i] = jobs[i], i # mem[w].job, i # mem'[w].job
  PROVE  Solid(i, o)' <=> Solid(i, o)
BY DEF Solid, Live, OthersStay

\* The job w holds is w's affair.
LEMMA SolidHere ==
  ASSUME TypeInv, HeldInv, NEW w \in Workers, pc[w] # "idle", NEW o \in Ops
  PROVE  Solid(mem[w].job, o) <=>
           /\ o \in jobs[mem[w].job].ops
           /\ pc[w] \in {"add", "retain"} => o \in mem[w].valid \cup mem[w].invalid
<1>1. \A v \in Workers \ {w} : mem[v].job # mem[w].job
  BY Holders
<1>2. Live(mem[w].job)
  BY DEF HeldInv, JobOf, Live
<1> QED BY <1>1, <1>2 DEF Solid

\* A userOp leaves a job with its status or for another job, and a job sees to a userOp
\* it did not see to only when w has just added it.
LEMMA SolidStep ==
  ASSUME FewCrashes, TypeInv, HeldInv, WorkInv, TypeInv', HeldInv',
         NEW w \in Workers, Step(w), NEW o \in Ops
  PROVE  /\ \A i \in Slots : Solid(i, o) => store'[o].finished \/ \E k \in Slots : Solid(k, o)'
         /\ ~Stumbles(w) =>
              \/ \A i \in Slots : Solid(i, o)' => Solid(i, o)
              \/ /\ pc[w] = "add" /\ Solid(mem[w].job, o)
                 /\ \E k \in Slots : \A i \in Slots :
                      Solid(i, o)' => i = k \/ (i # mem[w].job /\ Solid(i, o))
<1> SUFFICES ASSUME NEW j, j = mem[w].job
             PROVE  /\ \A i \in Slots :
                         Solid(i, o) => store'[o].finished \/ \E k \in Slots : Solid(k, o)'
                    /\ ~Stumbles(w) =>
                         \/ \A i \in Slots : Solid(i, o)' => Solid(i, o)
                         \/ /\ pc[w] = "add" /\ Solid(j, o)
                            /\ \E k \in Slots : \A i \in Slots :
                                 Solid(i, o)' => i = k \/ (i # j /\ Solid(i, o))
  OBVIOUS
<1> DEFINE Moves == \A i \in Slots :
                      Solid(i, o) => store'[o].finished \/ \E k \in Slots : Solid(k, o)'
           Fewer == \A i \in Slots : Solid(i, o)' => Solid(i, o)
           One   == /\ pc[w] = "add" /\ Solid(j, o)
                    /\ \E k \in Slots : \A i \in Slots :
                         Solid(i, o)' => i = k \/ (i # j /\ Solid(i, o))
<1>1. /\ pc[w] \notin {"idle", "finish"} => mem[w].ops \subseteq jobs[j].ops
      /\ pc[w] \in {"add", "retain"} => /\ mem[w].valid \cup mem[w].invalid \subseteq mem[w].ops
                                        /\ mem[w].valid \cap mem[w].invalid = {}
      /\ pc[w] = "retain" => mem[w].valid = {}
      /\ pc[w] = "finish" => Done(jobs[j].ops)
      /\ pc[w] # "idle" => j \in Slots
      /\ jobs \in [Slots -> Job] /\ j \in Slots \cup {NoJob}
  BY Assignments DEF WorkInv, JobOf, TypeInv, TypeOK, BusyHasJob, Local
<1>2. OthersStay(w) /\ (pc[w] = "idle" => j = NoJob) /\ NoJob \notin Slots
  BY StepKinds, Holders
<1>3. pc[w] # "idle" =>
        (Solid(j, o) <=> /\ o \in jobs[j].ops
                         /\ pc[w] \in {"add", "retain"} => o \in mem[w].valid \cup mem[w].invalid)
  BY SolidHere
<1>4. pc'[w] # "idle" /\ mem'[w].job = j =>
        (Solid(j, o)' <=>
           /\ o \in jobs'[j].ops
           /\ pc'[w] \in {"add", "retain"} => o \in mem'[w].valid \cup mem'[w].invalid)
  <2>1. ASSUME pc'[w] # "idle", mem'[w].job = j
        PROVE  (\A v \in Workers \ {w} : mem'[v].job # j) /\ jobs'[j].st # "free"
    BY <2>1 DEF HeldInv, JobOf
  <2> QED BY <2>1 DEF Solid, Live
<1>5. ASSUME OtherJobsStay(w), mem'[w].job = j \/ mem'[w].job = NoJob
      PROVE  \A i \in Slots \ {j} : Solid(i, o)' <=> Solid(i, o)
  BY <1>2, <1>5, SolidElsewhere DEF OtherJobsStay
<1>6. CASE GoesOn(w)
  <2>1. \A i \in Slots \ {j} : Solid(i, o)' <=> Solid(i, o)
    BY <1>5, <1>6 DEF GoesOn
  <2>2. pc[w] # "idle" /\ Solid(j, o)' => Solid(j, o)
    BY <1>1, <1>3, <1>4, <1>6 DEF GoesOn
  <2>3. Solid(j, o) => store'[o].finished \/ Solid(j, o)'
    BY <1>1, <1>3, <1>4, <1>6 DEF GoesOn
  <2>4. pc[w] # "idle" /\ j \in Slots
    BY <1>1, <1>6 DEF GoesOn
  <2> QED BY <2>1, <2>2, <2>3, <2>4
<1>7. CASE Adds(w)
  <2>0. pc[w] = "add" /\ pc'[w] = "add"
    BY <1>7 DEF Adds
  <2>1. PICK S \in SUBSET mem[w].valid : \E k \in Slots :
          /\ jobs[k].st = "free" /\ k # j /\ jobs' = [jobs EXCEPT ![k] = NewJob(S)]
          /\ mem'[w].job = j /\ mem'[w].valid = mem[w].valid \ S
          /\ mem'[w].invalid = mem[w].invalid
    BY <1>7 DEF Adds
  <2>2. PICK k \in Slots :
          /\ jobs[k].st = "free" /\ k # j /\ jobs' = [jobs EXCEPT ![k] = NewJob(S)]
          /\ mem'[w].job = j /\ mem'[w].valid = mem[w].valid \ S
          /\ mem'[w].invalid = mem[w].invalid
    BY <2>1
  <2>3. \A i \in Slots \ {j, k} : Solid(i, o)' <=> Solid(i, o)
    <3> SUFFICES ASSUME NEW i \in Slots \ {j, k} PROVE Solid(i, o)' <=> Solid(i, o)
      OBVIOUS
    <3>1. jobs'[i] = jobs[i]
      BY <1>1, <2>2
    <3> QED BY <1>2, <2>2, <3>1, SolidElsewhere
  <2>4. jobs'[k].st = "waiting" /\ jobs'[k].ops = S /\ jobs'[j] = jobs[j]
    BY <1>1, <2>0, <2>2 DEF NewJob
  <2>5. Solid(k, o)' <=> o \in S
    <3>1. \A v \in Workers : mem'[v].job # k
      BY <2>4 DEF HeldInv, JobOf, NoJob, Slots
    <3> QED BY <2>4, <3>1 DEF Solid, Live
  <2>6. Solid(j, o) => Solid(j, o)' \/ o \in S
    BY <1>3, <1>4, <2>0, <2>2, <2>4
  <2>7. /\ Solid(j, o)' => Solid(j, o) /\ o \notin S
        /\ o \in S => Solid(j, o)
    BY <1>1, <1>3, <1>4, <2>0, <2>2, <2>4
  <2>8. Moves
    <3>1. j \in Slots /\ ~Solid(k, o)
      BY <1>1, <2>0, <2>2 DEF Solid, Live
    <3> QED BY <2>3, <2>5, <2>6, <3>1
  <2>9. CASE o \in S
    <3>1. One
      BY <2>0, <2>2, <2>3, <2>7, <2>9
    <3> QED BY <2>8, <3>1
  <2>10. CASE o \notin S
    <3>1. Fewer
      BY <2>3, <2>5, <2>7, <2>10
    <3> QED BY <2>8, <3>1
  <2> QED BY <2>9, <2>10
<1>8. CASE Added(w) \/ Retains(w)
  <2>0. pc[w] \in {"add", "retain"} /\ mem'[w] = mem[w] /\ pc'[w] \in {"retain", "finish"}
    BY <1>8 DEF Added, Retains
  <2>1. \A i \in Slots \ {j} : Solid(i, o)' <=> Solid(i, o)
    BY <1>5, <1>8, <2>0 DEF Added, Retains, OtherJobsStay
  <2>2. Solid(j, o)' => Solid(j, o)
    BY <1>1, <1>3, <1>4, <1>8, <2>0 DEF Added, Retains
  <2>3. Solid(j, o) => store'[o].finished \/ Solid(j, o)'
    BY <1>1, <1>3, <1>4, <1>8, <2>0 DEF Added, Retains
  <2> QED BY <1>1, <2>0, <2>1, <2>2, <2>3
<1>9. CASE Stumbles(w)
  <2>1. \A i \in Slots \ {j} : Solid(i, o)' <=> Solid(i, o)
    BY <1>5, <1>9 DEF Stumbles
  <2>2. Solid(j, o) => Solid(j, o)'
    BY <1>1, <1>3, <1>4, <1>9 DEF Stumbles
  <2> QED BY <1>9, <2>1, <2>2
<1>10. CASE Leaves(w)
  <2>0. /\ pc[w] \in {"finish", "failed"} /\ pc'[w] = "idle" /\ mem'[w].job = NoJob
        /\ UNCHANGED store
    BY <1>10 DEF Leaves
  <2>1. \A i \in Slots \ {j} : Solid(i, o)' <=> Solid(i, o)
    BY <1>5, <1>10, <2>0 DEF Leaves
  <2>2. \/ jobs'[j].st = "free" /\ Done(jobs[j].ops)
        \/ jobs'[j].st = "waiting" /\ jobs'[j].ops = jobs[j].ops
    BY <1>10 DEF Leaves
  <2>3. Solid(j, o)' => Solid(j, o)
    BY <1>1, <1>3, <2>0, <2>2 DEF Solid, Live
  <2>4. Solid(j, o) => store'[o].finished \/ Solid(j, o)'
    <3>1. \A v \in Workers : mem'[v].job # j \/ pc'[v] = "idle"
      BY <1>1, <1>2, <2>0, Holders DEF OthersStay
    <3> QED BY <1>3, <2>0, <2>2, <3>1 DEF Solid, Live, Done
  <2> QED BY <2>1, <2>3, <2>4, <2>0, <1>1, <1>10
<1>11. CASE Takes(w)
  <2>1. PICK k \in Slots :
          /\ pc[w] = "idle" /\ pc'[w] \in {"prev", "filter"} /\ jobs[k].st = "waiting"
          /\ jobs'[k].st = "active" /\ jobs'[k].ops = jobs[k].ops
          /\ \A i \in Slots \ {k} : jobs'[i] = jobs[i]
          /\ mem'[w].job = k
    BY <1>11 DEF Takes
  <2>2. \A i \in Slots \ {k} : Solid(i, o)' <=> Solid(i, o)
    BY <1>2, <2>1, SolidElsewhere
  <2>3. (\A v \in Workers : mem[v].job # k) /\ \A v \in Workers \ {w} : mem'[v].job # k
    BY <1>2, <2>1, Holders DEF OthersStay
  <2>4. Solid(k, o)' <=> Solid(k, o)
    BY <2>1, <2>3 DEF Solid, Live
  <2> QED BY <2>1, <2>2, <2>4
<1> QED BY <1>6, <1>7, <1>8, <1>9, <1>10, <1>11, StepKinds

LEMMA StumblesDisturbs ==
  ASSUME TypeInv, StallInv, NEW w \in Workers, Stumbles(w)
  PROVE  budget'.queue < QueueFaults /\ budget'.crash = budget.crash
<1>1. budget.queue \in Nat /\ budget.crash \in Nat
  BY DEF TypeInv, TypeOK
<1>2. budget'.queue = budget.queue - 1 /\ budget'.crash = budget.crash
  BY DEF Stumbles, TypeInv, TypeOK
<1> QED BY <1>1, <1>2, ConstantFacts DEF StallInv

\* The budgets, but for the calls of the queue that fail.
LEMMA StepBudget ==
  ASSUME FewCrashes, TypeInv, HeldInv, WorkInv, StallInv, NEW w \in Workers, Step(w)
  PROVE  /\ budget'.crash = budget.crash /\ budget'.queue <= QueueFaults
         /\ Undisturbed' => Undisturbed /\ ~Stumbles(w)
<1>1. budget.queue \in Nat /\ budget.queue <= QueueFaults
  BY DEF TypeInv, TypeOK, StallInv
<1>2. CASE Stumbles(w)
  BY <1>2, StumblesDisturbs, ConstantFacts DEF Undisturbed, Stumbles, TypeInv, TypeOK
<1>3. CASE ~Stumbles(w)
  <2>1. /\ budget'.queue <= budget.queue /\ budget'.crash = budget.crash
        /\ budget'.queue \in Nat
    BY <1>1, <1>3, StepKinds, TypeStep DEF GoesOn, Adds, Added, Retains, Leaves, Takes,
                                           Next, TypeInv, TypeOK
  <2> QED BY <1>1, <1>3, <2>1, ConstantFacts DEF Undisturbed
<1> QED BY <1>2, <1>3

LEMMA JobInvWorker ==
  ASSUME FewCrashes, TypeInv, HeldInv, JobInv, TypeInv', HeldInv', NEW w \in Workers, Step(w)
  PROVE  JobInv'
<1> DEFINE j == mem[w].job
<1>0. /\ WorkInv /\ SubmitInv /\ StallInv /\ KeptInv /\ OnceInv /\ FinalInv
      /\ store \in [Ops -> Field] /\ jobs \in [Slots -> Job] /\ submitted \subseteq Ops
  BY DEF JobInv, TypeInv, TypeOK
<1>1. WorkInv'
  BY <1>0, WorkStep
<1>2. OthersStay(w) /\ UNCHANGED submitted
  BY <1>0, StepKinds
\* Whoever is confirmed by this step was in w's hands.
<1>3. \A o \in Ops : store'[o].confirmed =>
        \/ store[o].confirmed
        \/ /\ GoesOn(w) /\ pc'[w] = "finish" /\ mem'[w].job = j /\ j \in Slots
           /\ o \in jobs[j].ops /\ Solid(j, o)
  <2> SUFFICES ASSUME NEW o \in Ops, store'[o].confirmed, ~store[o].confirmed
               PROVE  /\ GoesOn(w) /\ pc'[w] = "finish" /\ mem'[w].job = j /\ j \in Slots
                      /\ o \in jobs[j].ops /\ Solid(j, o)
    OBVIOUS
  <2>1. GoesOn(w)
    BY <1>0, StepKinds DEF Adds, Added, Stumbles, Retains, Leaves, Takes
  <2>2. o \in mem[w].ops /\ pc'[w] = "finish" /\ mem'[w].job = j
        /\ pc[w] \notin {"idle", "finish", "add", "retain"}
    BY <2>1 DEF GoesOn, Writes
  <2>3. o \in jobs[j].ops
    BY <1>0, <2>2 DEF WorkInv, JobOf
  <2>4. Solid(j, o)
    BY <2>2, <2>3, SolidHere
  <2>5. j \in Slots
    BY <2>2, Holders
  <2> QED BY <2>1, <2>2, <2>3, <2>4, <2>5
<1>4. SubmitInv'
  <2>1. \A i \in Slots : Live(i)' => jobs'[i].ops \subseteq submitted
    BY <1>0, StepJobs DEF SubmitInv
  <2>2. \A o \in Ops : store'[o].confirmed => o \in submitted
    BY <1>0, <1>3 DEF SubmitInv, Solid
  <2> QED BY <1>2, <2>1, <2>2 DEF SubmitInv
<1>5. StallInv'
  <2>1. /\ budget'.crash = budget.crash /\ budget'.queue <= QueueFaults
        /\ budget.crash \in Nat /\ budget.crash <= Crashes
    BY <1>0, StepBudget DEF TypeInv, TypeOK, StallInv
  <2> SUFFICES ASSUME NEW i \in Slots, Live(i)'
               PROVE  /\ jobs'[i].stalls <= Crashes - budget.crash
                      /\ (jobs'[i].st = "active" /\ \A v \in Workers : mem'[v].job # i)
                           => jobs'[i].stalls < Crashes - budget.crash
    BY <2>1 DEF StallInv
  <2>2. CASE Live(i) /\ jobs'[i].stalls = jobs[i].stalls
    BY <1>0, <2>2, StepJobs DEF StallInv
  <2>3. CASE jobs'[i].st = "waiting" /\ jobs'[i].stalls = 0
    BY <2>1, <2>3, ConstantFacts
  <2> QED BY <1>0, <2>2, <2>3, StepJobs
<1>6. KeptInv'
  <2> SUFFICES ASSUME NEW o \in submitted
               PROVE  store'[o].finished \/ \E i \in Slots : Solid(i, o)'
    BY <1>2 DEF KeptInv
  <2>1. o \in Ops
    BY <1>0
  <2>2. CASE store[o].finished
    BY <1>0, <2>1, <2>2, StepStatuses
  <2>3. CASE ~store[o].finished
    <3>1. PICK i \in Slots : Solid(i, o)
      BY <1>0, <2>3 DEF KeptInv
    <3> QED BY <1>0, <2>1, <3>1, SolidStep
  <2> QED BY <2>2, <2>3
<1>7. ASSUME Undisturbed' PROVE Undisturbed /\ ~Stumbles(w)
  BY <1>0, <1>7, StepBudget DEF Undisturbed
<1>8. OnceInv'
  <2> SUFFICES ASSUME Undisturbed', NEW o \in Ops, NEW h \in Slots, NEW i \in Slots,
                      Solid(h, o)', Solid(i, o)'
               PROVE  h = i
    BY DEF OnceInv
  <2>1. \A a, b \in Slots : Solid(a, o) /\ Solid(b, o) => a = b
    BY <1>0, <1>7 DEF OnceInv
  <2>2. CASE \A a \in Slots : Solid(a, o)' => Solid(a, o)
    BY <2>1, <2>2
  <2>3. CASE /\ pc[w] = "add" /\ Solid(j, o)
             /\ \E k \in Slots : \A a \in Slots :
                  Solid(a, o)' => a = k \/ (a # mem[w].job /\ Solid(a, o))
    <3>1. j \in Slots
      BY <2>3, Holders
    <3> QED BY <2>1, <2>3, <3>1
  <2> QED BY <1>0, <1>7, <2>2, <2>3, SolidStep
<1>9. FinalInv'
  <2> SUFFICES ASSUME Undisturbed', NEW o \in Ops, NEW i \in Slots,
                      store'[o].confirmed, Solid(i, o)'
               PROVE  \E v \in Workers : mem'[v].job = i /\ pc'[v] = "finish"
    BY DEF FinalInv
  <2>1. \A a, b \in Slots : Solid(a, o) /\ Solid(b, o) => a = b
    BY <1>0, <1>7 DEF OnceInv
  \* A confirmed userOp is in the hands of a worker that is done, which is not w but when
  \* it leaves.
  <2>2. ASSUME store[o].confirmed, NEW a \in Slots, Solid(a, o)
        PROVE  \E v \in Workers : mem[v].job = a /\ pc[v] = "finish"
    BY <1>0, <1>7, <2>2 DEF FinalInv
  <2>3. CASE Solid(i, o)
    <3>1. CASE store[o].confirmed
      <4>1. PICK v \in Workers : mem[v].job = i /\ pc[v] = "finish"
        BY <2>2, <2>3, <3>1
      <4>2. CASE v # w
        BY <1>2, <4>1, <4>2 DEF OthersStay
      <4>3. CASE v = w
        <5>1. Leaves(w)
          BY <1>0, <4>1, <4>3, StepKinds DEF GoesOn, Adds, Added, Stumbles, Retains, Takes
        <5>2. jobs'[j].st = "free"
          BY <4>1, <4>3, <5>1 DEF Leaves
        <5> QED BY <4>1, <4>3, <5>2 DEF Solid, Live
      <4> QED BY <4>2, <4>3
    <3>2. CASE ~store[o].confirmed
      BY <1>3, <2>1, <2>3, <3>2
    <3> QED BY <3>1, <3>2
  <2>4. CASE ~Solid(i, o)
    <3>1. pc[w] = "add" /\ Solid(j, o) /\ j \in Slots
      BY <1>0, <1>7, <2>4, SolidStep, Holders
    <3>2. store[o].confirmed
      BY <1>3, <3>1 DEF GoesOn
    <3>3. PICK v \in Workers : mem[v].job = j /\ pc[v] = "finish"
      BY <2>2, <3>1, <3>2
    <3> QED BY <3>1, <3>3, Holders
  <2> QED BY <2>3, <2>4
<1> QED BY <1>1, <1>4, <1>5, <1>6, <1>8, <1>9 DEF JobInv

LEMMA JobInvInit == FewCrashes /\ Init => JobInv
<1> SUFFICES ASSUME Init PROVE JobInv
  OBVIOUS
<1>1. \A i \in Slots : jobs[i].st = "free"
  BY DEF Init, FreeJob, NewJob
<1>2. \A w \in Workers : pc[w] = "idle"
  BY DEF Init
<1>3. submitted = {} /\ \A o \in Ops : ~store[o].confirmed
  BY DEF Init
<1>4. WorkInv
  BY <1>2 DEF WorkInv
<1>5. SubmitInv /\ KeptInv /\ OnceInv /\ FinalInv
  BY <1>1, <1>3 DEF SubmitInv, KeptInv, OnceInv, FinalInv, Solid, Live
<1>6. StallInv
  BY <1>1, ConstantFacts DEF Init, StallInv, Live
<1> QED BY <1>4, <1>5, <1>6 DEF JobInv

\* Steps of the chain, and no step at all, concern neither jobs nor statuses.
LEMMA JobInvChain ==
  ASSUME TypeInv, JobInv, UNCHANGED <<queue, thread, storage>>,
         UNCHANGED budget \/ Fault("rpc")
  PROVE  JobInv'
<1>1. UNCHANGED <<jobs, submitted, pc, mem, store>>
  BY DEF queue, thread, storage
<1>2. budget'.queue = budget.queue /\ budget'.crash = budget.crash
  BY DEF Fault, TypeInv, TypeOK
<1>3. \A i \in Slots, o \in Ops : Solid(i, o)' <=> Solid(i, o)
  BY <1>1 DEF Solid, Live
<1>4. WorkInv' /\ SubmitInv' /\ StallInv'
  BY <1>1, <1>2 DEF JobInv, WorkInv, SubmitInv, StallInv, JobOf, Done, Live
<1>5. KeptInv'
  BY <1>1, <1>3 DEF JobInv, KeptInv, TypeInv, TypeOK
<1>6. Undisturbed' => Undisturbed
  BY <1>2 DEF Undisturbed
<1>7. OnceInv' /\ FinalInv'
  BY <1>1, <1>3, <1>6 DEF JobInv, OnceInv, FinalInv
<1> QED BY <1>4, <1>5, <1>7 DEF JobInv

LEMMA JobInvSubmit ==
  ASSUME TypeInv, HeldInv, JobInv, Submit
  PROVE  JobInv'
<1>0. /\ WorkInv /\ SubmitInv /\ StallInv /\ KeptInv /\ OnceInv /\ FinalInv
      /\ jobs \in [Slots -> Job] /\ submitted \subseteq Ops
      /\ budget.crash \in Nat /\ budget.crash <= Crashes
  BY DEF JobInv, StallInv, TypeInv, TypeOK
<1>1. PICK B \in SUBSET (Ops \ submitted) : \E k \in Slots :
        AddJob(k, B) /\ submitted' = submitted \cup B
  BY DEF Submit
<1>2. PICK k \in Slots : AddJob(k, B) /\ submitted' = submitted \cup B
  BY <1>1
<1>3. UNCHANGED <<pc, mem, store, budget>>
  BY DEF Submit, thread, storage
<1>4. /\ jobs[k].st = "free" /\ jobs'[k].st = "waiting" /\ jobs'[k].stalls = 0 /\ jobs'[k].ops = B
      /\ \A i \in Slots \ {k} : jobs'[i] = jobs[i]
  BY <1>0, <1>2 DEF AddJob, NewJob
<1>5. \A w \in Workers : mem[w].job # k
  BY <1>4, Holders
<1>6. \A o \in Ops : /\ \A i \in Slots \ {k} : Solid(i, o)' <=> Solid(i, o)
                     /\ Solid(k, o)' <=> o \in B
                     /\ ~Solid(k, o)
  BY <1>3, <1>4, <1>5 DEF Solid, Live
<1>7. \A o \in B : \A i \in Slots : ~Solid(i, o)
  BY <1>0 DEF SubmitInv, Solid
<1>8. WorkInv'
  <2>1. \A w \in Workers : pc[w] # "idle" => jobs'[mem[w].job] = jobs[mem[w].job]
    BY <1>4, <1>5 DEF TypeInv, BusyHasJob
  <2> QED BY <1>0, <1>3, <2>1 DEF WorkInv, JobOf, Done
<1>9. SubmitInv'
  BY <1>0, <1>2, <1>3, <1>4 DEF SubmitInv, Live
<1>10. StallInv'
  BY <1>0, <1>3, <1>4, ConstantFacts DEF StallInv, Live
<1>11. KeptInv'
  BY <1>0, <1>2, <1>3, <1>6 DEF KeptInv
<1>12. OnceInv'
  BY <1>0, <1>3, <1>6, <1>7 DEF OnceInv, Undisturbed
<1>13. FinalInv'
  <2>1. \A o \in B : ~store[o].confirmed
    BY <1>0 DEF SubmitInv
  <2> QED BY <1>0, <1>3, <1>6, <2>1 DEF FinalInv, Undisturbed
<1> QED BY <1>8, <1>9, <1>10, <1>11, <1>12, <1>13 DEF JobInv

LEMMA JobInvCrash ==
  ASSUME TypeInv, JobInv, Crash
  PROVE  JobInv'
<1>0. /\ WorkInv /\ SubmitInv /\ StallInv /\ KeptInv /\ submitted \subseteq Ops
      /\ jobs \in [Slots -> Job] /\ budget.crash \in Nat
  BY DEF JobInv, TypeInv, TypeOK
<1>1. /\ UNCHANGED <<jobs, submitted, store>>
      /\ \A w \in Workers : pc'[w] = "idle" /\ mem'[w].job = NoJob
  BY DEF Crash, queue, storage, Idle
<1>2. budget'.crash = budget.crash - 1 /\ budget'.queue = budget.queue
  BY DEF Crash, Fault, TypeInv, TypeOK
<1>3. ~Undisturbed'
  BY <1>0, <1>2, ConstantFacts DEF StallInv, Undisturbed
<1>4. WorkInv' /\ SubmitInv'
  BY <1>0, <1>1 DEF WorkInv, SubmitInv, Live
<1>5. StallInv'
  <2>1. \A i \in Slots : jobs[i].stalls \in Int
    BY <1>0, ConstantFacts DEF Job
  <2> QED BY <1>0, <1>1, <1>2, <2>1, ConstantFacts DEF StallInv, Live
<1>6. KeptInv'
  <2>1. \A o \in Ops : \A i \in Slots : Solid(i, o) => Solid(i, o)'
    BY <1>1 DEF Solid, Live
  <2> QED BY <1>0, <1>1, <2>1 DEF KeptInv
<1> QED BY <1>3, <1>4, <1>5, <1>6 DEF JobInv, OnceInv, FinalInv

LEMMA JobInvStalled ==
  ASSUME FewCrashes, TypeInv, HeldInv, JobInv, Stalled
  PROVE  JobInv'
<1>0. /\ WorkInv /\ SubmitInv /\ StallInv /\ KeptInv /\ OnceInv /\ FinalInv
      /\ jobs \in [Slots -> Job] /\ submitted \subseteq Ops
      /\ budget.crash \in Nat /\ budget.crash <= Crashes
  BY DEF JobInv, StallInv, TypeInv, TypeOK
<1>1. PICK k \in Slots :
        /\ jobs[k].st = "active" /\ \A w \in Workers : mem[w].job # k
        /\ SetJob(k, IF jobs[k].stalls < MaxStalled
                       THEN [jobs[k] EXCEPT !.st = "waiting", !.stalls = @ + 1]
                       ELSE FreeJob)
  BY DEF Stalled
<1>2. UNCHANGED <<submitted, pc, mem, store, budget>>
  BY DEF Stalled, thread, storage
<1>3. jobs[k].stalls < Crashes - budget.crash /\ jobs[k].stalls \in Nat
  BY <1>0, <1>1, ConstantFacts DEF StallInv, Live, Job
<1>4. jobs[k].stalls < MaxStalled
  BY <1>0, <1>3, ConstantFacts DEF FewCrashes
<1>5. /\ jobs'[k].st = "waiting" /\ jobs'[k].stalls = jobs[k].stalls + 1
      /\ jobs'[k].ops = jobs[k].ops
      /\ \A i \in Slots \ {k} : jobs'[i] = jobs[i]
  <2>1. jobs' = [jobs EXCEPT ![k] = [jobs[k] EXCEPT !.st = "waiting", !.stalls = @ + 1]]
    BY <1>1, <1>4 DEF SetJob
  <2> QED BY <1>0, <2>1 DEF Job
<1>6. \A o \in Ops : \A i \in Slots : Solid(i, o)' <=> Solid(i, o)
  BY <1>1, <1>2, <1>5 DEF Solid, Live
<1>7. WorkInv'
  <2>1. \A w \in Workers : pc[w] # "idle" => jobs'[mem[w].job] = jobs[mem[w].job]
    BY <1>1, <1>5 DEF TypeInv, BusyHasJob
  <2> QED BY <1>0, <1>2, <2>1 DEF WorkInv, JobOf, Done
<1>8. SubmitInv'
  BY <1>0, <1>1, <1>2, <1>5 DEF SubmitInv, Live
<1>9. StallInv'
  <2>1. jobs'[k].stalls <= Crashes - budget.crash
    BY <1>0, <1>3, <1>5, ConstantFacts
  <2> QED BY <1>0, <1>2, <1>5, <2>1 DEF StallInv, Live
<1>10. KeptInv' /\ OnceInv' /\ FinalInv'
  BY <1>0, <1>2, <1>6 DEF KeptInv, OnceInv, FinalInv, Undisturbed
<1> QED BY <1>7, <1>8, <1>9, <1>10 DEF JobInv

LEMMA JobInvStep == FewCrashes /\ TypeInv /\ HeldInv /\ JobInv /\ [Next]_vars => JobInv'
<1> SUFFICES ASSUME FewCrashes, TypeInv, HeldInv, JobInv, [Next]_vars PROVE JobInv'
  OBVIOUS
<1>1. TypeInv' /\ HeldInv'
  BY TypeStep, HeldStep
<1>2. CASE Submit \/ Crash \/ Stalled
  BY <1>2, JobInvSubmit, JobInvCrash, JobInvStalled
<1>3. CASE \E w \in Workers : Step(w)
  BY <1>1, <1>3, JobInvWorker
<1>4. CASE (\E t \in TxIds : Include(t) \/ Drop(t)) \/ (\E o \in Ops : Expire(o)) \/ UNCHANGED vars
  BY <1>4, JobInvChain DEF Include, Drop, Expire, vars
<1> QED BY <1>2, <1>3, <1>4 DEF Next

LEMMA JobInvariant == ASSUME FewCrashes PROVE Spec => []JobInv
<1>1. TypeInv /\ HeldInv /\ JobInv /\ [Next]_vars => JobInv'
  BY JobInvStep
<1> QED BY <1>1, JobInvInit, TypeInvariant, JobsHeldOnce, PTL DEF Spec

\* A userOp that was handed to the queue has its final status or a job that lists it: no
\* retry, split, regeneration (handleUserOpsRevertsFromBlock), expiry or restart drops it.
\* And while neither queue nor thread fails it is in one job only, but for the moments in
\* which a worker puts its valid userOps into new jobs and takes them out of its own.
THEOREM OneJobTheorem == ASSUME FewCrashes PROVE Spec => []OpInOneJob
<1>1. JobInv => OpInOneJob
  <2> SUFFICES ASSUME KeptInv, OnceInv, NEW o \in Ops
               PROVE  LET holding == {j \in Slots : Live(j) /\ o \in jobs[j].ops} IN
                        /\ o \in submitted => store[o].finished \/ holding # {}
                        /\ Undisturbed => \A i, j \in holding :
                             i = j \/ \E w \in Workers : mem[w].job \in {i, j}
                                                         /\ pc[w] \in {"add", "retain"}
    BY DEF JobInv, OpInOneJob
  <2> DEFINE holding == {j \in Slots : Live(j) /\ o \in jobs[j].ops}
  <2>1. o \in submitted => store[o].finished \/ holding # {}
    BY DEF KeptInv, Solid
  <2>2. ASSUME Undisturbed, NEW i \in holding, NEW j \in holding,
               ~\E w \in Workers : mem[w].job \in {i, j} /\ pc[w] \in {"add", "retain"}
        PROVE  i = j
    <3>1. Solid(i, o) /\ Solid(j, o)
      BY <2>2 DEF Solid
    <3> QED BY <2>2, <3>1 DEF OnceInv
  <2> QED BY <2>1, <2>2
<1> QED BY <1>1, JobInvariant, PTL

\* What a confirmed userOp's entry says is changed by no step: writes concern userOps that
\* their worker's job still has to see to, and such a job is over when they are confirmed.
LEMMA FinalStep ==
  ASSUME FewCrashes, TypeInv, HeldInv, JobInv, TypeInv', [Next]_vars, Undisturbed,
         NEW o \in Ops, store[o].confirmed
  PROVE  store'[o] = store[o]
<1>0. WorkInv /\ FinalInv
  BY DEF JobInv
<1>1. CASE \E w \in Workers : Step(w)
  <2>1. PICK w \in Workers : Step(w)
    BY <1>1
  <2>2. CASE GoesOn(w)
    <3>1. /\ o \notin mem[w].ops => store'[o] = store[o]
          /\ pc[w] \notin {"idle", "finish", "failed", "add", "retain"}
      BY <2>2 DEF GoesOn, Writes
    <3>2. o \in mem[w].ops => Solid(mem[w].job, o)
      BY <1>0, <3>1, SolidHere DEF WorkInv, JobOf
    <3>3. mem[w].job \in Slots /\ \A v \in Workers \ {w} : mem[v].job # mem[w].job
      BY <3>1, Holders
    <3> QED BY <1>0, <3>1, <3>2, <3>3 DEF FinalInv
  <2>3. CASE Retains(w)
    <3>1. o \notin mem[w].invalid => store'[o] = store[o]
      BY <2>3 DEF Retains, Writes
    <3>2. o \in mem[w].invalid => Solid(mem[w].job, o)
      BY <1>0, <2>3, SolidHere DEF WorkInv, JobOf, Retains
    <3>3. mem[w].job \in Slots /\ \A v \in Workers \ {w} : mem[v].job # mem[w].job
      BY <2>3, Holders DEF Retains
    <3> QED BY <1>0, <2>3, <3>1, <3>2, <3>3 DEF FinalInv, Retains
  <2>4. CASE ~GoesOn(w) /\ ~Retains(w)
    BY <1>0, <2>1, <2>4, StepKinds DEF Adds, Added, Stumbles, Leaves, Takes
  <2> QED BY <2>2, <2>3, <2>4
<1>2. CASE UNCHANGED storage
  BY <1>2 DEF storage
<1> QED BY <1>1, <1>2 DEF Next, Submit, Crash, Stalled, Include, Drop, Expire, vars

\* While neither queue nor thread fails, a confirmed success is final: no later job, retry
\* or regenerated block turns it into an error or takes its transaction away.
THEOREM FinalTheorem == ASSUME FewCrashes PROVE Spec => ConfirmedIsFinal
<1> DEFINE Final == \A o \in Ops :
             Undisturbed /\ store[o].confirmed /\ ~store[o].error => store'[o] = store[o]
<1>1. TypeInv /\ HeldInv /\ JobInv /\ TypeInv' /\ [Next]_vars => [Final]_vars
  BY FinalStep
<1> QED BY <1>1, TypeInvariant, JobsHeldOnce, JobInvariant, PTL DEF Spec, ConfirmedIsFinal
=============================================================================
