------------------------------ MODULE Explorer ------------------------------
(***************************************************************************)
(* One supertransaction between its clients and the node: executeQuote     *)
(* requests that may overlap, the records StorageService keeps of it, the  *)
(* jobs that run its userOps, and getQuote queries that derive a status    *)
(* from the records and ask the chain for confirmations.                   *)
(*                                                                         *)
(* The simulator and the executor are reduced to what they write and when; *)
(* Pipeline and Executor have them in full. Blocks may be reorganised.     *)
(***************************************************************************)
EXTENDS Integers, FiniteSets

CONSTANTS
  Ops,                \* userOps by index: 0 is the payment
  ChainOf,            \* userOp -> chain
  Requests, Queries,  \* concurrent calls of executeQuote, clients of getQuote
  None,
  WaitConfirmations,  \* of the chain
  Asked,              \* confirmations a query may ask for
  LowBlockTime,       \* whether the chain reports a block before it is confirmed
  Lag,                \* how many blocks a cached block number may be old
  Scenarios           \* who acts and how often: requests, sponsor, and the budgets of
                      \* blocks, queries, reorganisations and faults

ASSUME ConstantsOK ==
  /\ 0 \in Ops /\ IsFiniteSet(Ops) /\ Requests # {} /\ IsFiniteSet(Requests) /\ None \notin Requests
  /\ {WaitConfirmations, Lag} \cup Asked \subseteq Nat
  /\ \A s \in Scenarios :
       s.requests \subseteq Requests /\ s.clients \subseteq Queries /\ {s.trusted, s.succeeds} \subseteq BOOLEAN
       /\ s.budget \in [{"block", "query", "reorg", "rpc", "queue", "crash"} -> Nat]
  /\ WaitConfirmations > 0 /\ LowBlockTime \in BOOLEAN

VARIABLES
  succeeds,  \* whether the calls of the userOps succeed
  trusted,   \* whether the payment is sponsored by the trusted gas tank
  request,   \* request -> step of executeQuote
  listed,    \* how often the list of userOps was pushed to storage
  job,       \* request -> userOp -> stage of the job it queued
  field,     \* userOp -> custom fields in storage
  writes,    \* what queries left to write in the background (equal ones count as one)
  height, block,   \* the chain: last block; userOp -> block of its transaction, or 0
  sent,      \* userOp -> the request whose job's transaction was included, or None
  query,     \* client -> local variables of getQuote
  \* history
  overlap,   \* two requests were both between hasQuote and createQuote
  lost,      \* userOps whose jobs could not be queued
  first,     \* userOp -> first block it was ever in
  unseen,    \* userOps reported without a receipt
  dropped,   \* userOps a query declared dropped
  told,      \* userOps answered with a final status, and with a confirmed success
  budget

chain   == <<height, block, sent, first>>
storage == <<listed, field, writes>>
calls   == <<request, overlap, lost>>
answers == <<query, told, dropped>>
given   == <<trusted, succeeds>>
vars    == <<given, calls, storage, job, chain, answers, unseen, budget>>

Final  == {"MINED_SUCCESS", "MINED_FAIL", "FAILED"}
Status == Final \cup {"PENDING", "MINING", "SKIPPED"}
Stages == {"none", "adding", "simulate", "execute", "sent", "fast", "done"}
Field  == [hash: BOOLEAN, error: BOOLEAN, started: BOOLEAN, finished: BOOLEAN,
           confirmed: BOOLEAN, skipped: BOOLEAN, confirmations: Int]
NoField == [hash |-> FALSE, error |-> FALSE, started |-> FALSE, finished |-> FALSE,
            confirmed |-> FALSE, skipped |-> FALSE, confirmations |-> 0]
Answer  == [status: Status, confirmed: BOOLEAN, confirmations: Int]
ASSUME NoneIsNoAnswer == None \notin Answer
Write   == [op: Ops, kind: {"count", "drop"}, n: Int]
Unasked == [receipt |-> "none", block |-> 0, number |-> 0, answer |-> None]
Quiet   == [open |-> FALSE, asked |-> 0, snap |-> [o \in Ops |-> NoField],
            fetch |-> [o \in Ops |-> Unasked],
            knew |-> [final |-> {}, sure |-> {}]]

Init ==
  /\ \E s \in Scenarios :
       /\ trusted = s.trusted /\ succeeds = s.succeeds
       /\ request = [r \in Requests |-> IF r \in s.requests THEN "new" ELSE "absent"]
       /\ query = [q \in s.clients |-> Quiet]
       /\ budget = s.budget
  /\ listed = 0
  /\ job = [r \in Requests |-> [o \in Ops |-> "none"]]
  /\ field = [o \in Ops |-> NoField] /\ writes = {}
  /\ height = 1 /\ block = [o \in Ops |-> 0]
  /\ sent = [o \in Ops |-> None]
  /\ overlap = FALSE /\ lost = {} /\ first = [o \in Ops |-> 0]
  /\ unseen = {} /\ dropped = {} /\ told = [final |-> {}, sure |-> {}]

\* One step of a kind the environment has a budget for.
Spend(kind) == /\ budget[kind] > 0
               /\ budget' = [budget EXCEPT ![kind] = @ - 1]
NoFault     == UNCHANGED budget
Go(r, step) == request' = [request EXCEPT ![r] = step]
Scheduled   == IF trusted THEN Ops \ {0} ELSE Ops

-----------------------------------------------------------------------------
(* Variants of the definitions below with a bug each, which the run must reject. *)

HasQuoteLater(r) ==          \* a stored quote is not noticed
  /\ request[r] = "new"
  /\ Go(r, "checking")
  /\ overlap' = (overlap \/ (listed = 0 /\ \E s \in Requests : request[s] = "checking"))
  /\ UNCHANGED <<given, lost, storage, job, chain, answers, unseen, budget>>

CreateQuoteAgain(r) ==       \* the write is repeated
  /\ request[r] \in {"checking", "created"}
  /\ Go(r, "created")
  /\ listed' = listed + 1
  /\ UNCHANGED <<given, overlap, lost, field, writes, job, chain, answers, unseen, budget>>

MarkConfirmed(r) ==          \* the payment is not marked as skipped
  /\ trusted /\ request[r] = "accepted" /\ ~field[0].confirmed
  /\ field' = [field EXCEPT ![0].confirmed = TRUE]
  /\ UNCHANGED <<given, calls, listed, writes, job, chain, answers, unseen, budget>>

StartAfresh(r, o) ==         \* the fields are replaced, not added to
  /\ job[r][o] = "execute"
  /\ job' = [job EXCEPT ![r][o] = "sent"]
  /\ field' = [field EXCEPT ![o] = [NoField EXCEPT !.started = TRUE]]
  /\ UNCHANGED <<given, calls, listed, writes, chain, answers, unseen, budget>>

CountedOneMore(number, receipt) == number - receipt + 2

-----------------------------------------------------------------------------
(* executeQuote *)

\* A supertransaction that is stored is refused.
HasQuote(r) ==
  /\ request[r] = "new"
  /\ Go(r, IF listed > 0 THEN "refused" ELSE "checking")
  /\ overlap' = (overlap \/ (listed = 0 /\ \E s \in Requests : request[s] = "checking"))
  /\ UNCHANGED <<given, lost, storage, job, chain, answers, unseen, budget>>

\* The payment userOp is simulated unless its sponsor is trusted: it fails once the
\* userOp was executed, or for reasons of its own.
Refuse(r) ==
  /\ request[r] = "checking"
  /\ Go(r, "refused")
  /\ UNCHANGED <<given, overlap, lost, storage, job, chain, answers, unseen, budget>>

CreateQuote(r) ==
  /\ request[r] = "checking"
  /\ trusted \/ block[0] = 0
  /\ Go(r, "created")
  /\ listed' = listed + 1
  /\ UNCHANGED <<given, overlap, lost, field, writes, job, chain, answers, unseen, budget>>

\* The jobs are added in the background and the client is answered.
Schedule(r) ==
  /\ request[r] = "created"
  /\ Go(r, "accepted")
  /\ job' = [job EXCEPT ![r] = [o \in Ops |-> IF o \in Scheduled THEN "adding" ELSE "done"]]
  /\ UNCHANGED <<given, overlap, lost, storage, chain, answers, unseen, budget>>

AddJobs(r, c) ==
  LET S == {o \in Ops : job[r][o] = "adding" /\ ChainOf[o] = c} IN
  /\ S # {}
  /\ \/ /\ NoFault
        /\ job' = [job EXCEPT ![r] = [o \in Ops |-> IF o \in S THEN "simulate" ELSE @[o]]]
        /\ UNCHANGED lost
     \/ /\ Spend("queue")
        /\ job' = [job EXCEPT ![r] = [o \in Ops |-> IF o \in S THEN "done" ELSE @[o]]]
        /\ lost' = lost \cup S
  /\ UNCHANGED <<given, request, overlap, storage, chain, answers, unseen>>

\* The trusted payment is marked as confirmed and skipped in the background. A failing
\* write is a rejection nobody handles: it ends the worker (Crash).
MarkSkipped(r) ==
  /\ trusted /\ request[r] = "accepted" /\ ~field[0].skipped
  /\ field' = [field EXCEPT ![0].skipped = TRUE, ![0].confirmed = TRUE]
  /\ UNCHANGED <<given, calls, listed, writes, job, chain, answers, unseen, budget>>

\* The API worker exits with what it has not finished.
Crash(r) ==
  LET adding == {o \in Ops : job[r][o] = "adding"} IN
  /\ Spend("crash")
  /\ \/ request[r] \in {"checking", "created"} \/ adding # {}
     \/ trusted /\ request[r] = "accepted" /\ ~field[0].skipped
  /\ Go(r, "crashed")
  /\ lost' = lost \cup (IF request[r] = "created" THEN Ops ELSE adding)
                  \cup (IF trusted /\ request[r] = "accepted" THEN {0} ELSE {})
  /\ job' = [job EXCEPT ![r] = [o \in Ops |-> IF o \in adding THEN "done" ELSE @[o]]]
  /\ UNCHANGED <<given, overlap, storage, chain, answers, unseen>>

-----------------------------------------------------------------------------
(* A job of a userOp: what the simulator and the executor write *)

Stage(r, o, stage) == job' = [job EXCEPT ![r][o] = stage]
Depth(o)  == IF block[o] = 0 THEN 0 ELSE height - block[o] + 1
Mined(r, o) == sent[o] = r /\ block[o] # 0

\* The simulation passes unless the userOp was executed already, or fails: the error
\* is set if there is none (hsetnx).
Simulate(r, o) ==
  /\ job[r][o] = "simulate"
  /\ \/ block[o] = 0 /\ Stage(r, o, "execute") /\ UNCHANGED field
     \/ Stage(r, o, "done") /\ field' = [field EXCEPT ![o].error = TRUE]
  /\ UNCHANGED <<given, calls, listed, writes, chain, answers, unseen, budget>>

Start(r, o) ==
  /\ job[r][o] = "execute"
  /\ Stage(r, o, "sent")
  /\ field' = [field EXCEPT ![o].started = TRUE]
  /\ UNCHANGED <<given, calls, listed, writes, chain, answers, unseen, budget>>

\* handleSupertransactionExecutionResult. A low block time chain is reported at once
\* as unconfirmed, and once more when it is confirmed.
Report(r, o) ==
  LET deep == Depth(o) >= WaitConfirmations IN
  /\ Mined(r, o)
  /\ \/ deep /\ job[r][o] \in {"sent", "fast"} /\ Stage(r, o, "done")
     \/ LowBlockTime /\ ~deep /\ job[r][o] = "sent" /\ Stage(r, o, "fast")
  /\ field' = [field EXCEPT ![o] =
       [field[o] EXCEPT !.hash = TRUE, !.finished = TRUE, !.confirmed = deep,
                        !.confirmations = IF deep THEN WaitConfirmations ELSE 1,
                        !.error = field[o].error \/ ~succeeds]]
  /\ UNCHANGED <<given, calls, listed, writes, chain, answers, unseen, budget>>

\* The receipt could not be fetched: the userOp counts as executed and confirmed.
ReportBlind(r, o) ==
  /\ job[r][o] \in {"sent", "fast"}
  /\ Spend("rpc")
  /\ Stage(r, o, "done")
  /\ field' = [field EXCEPT ![o] =
       [@ EXCEPT !.hash = TRUE, !.finished = TRUE, !.confirmed = TRUE,
                 !.confirmations = WaitConfirmations]]
  /\ unseen' = unseen \cup {o}
  /\ UNCHANGED <<given, calls, listed, writes, chain, answers>>

\* The block fails, or its receipt does not come in time.
Fail(r, o) ==
  /\ job[r][o] \in {"sent", "fast"}
  /\ ~Mined(r, o) \/ Depth(o) < WaitConfirmations
  /\ Stage(r, o, "done")
  /\ field' = [field EXCEPT ![o].error = TRUE, ![o].finished = TRUE]
  /\ UNCHANGED <<given, calls, listed, writes, chain, answers, unseen, budget>>

-----------------------------------------------------------------------------
(* The chain *)

NewBlock ==
  /\ Spend("block")
  /\ height' = height + 1
  /\ UNCHANGED <<given, calls, storage, job, block, sent, first, answers, unseen>>

\* A transaction is included in a new block; one that lost its block may be again.
Include(r, o) ==
  /\ Spend("block") /\ block[o] = 0
  /\ sent[o] = r \/ (sent[o] = None /\ job[r][o] = "sent")
  /\ height' = height + 1
  /\ block' = [block EXCEPT ![o] = height + 1]
  /\ sent' = [sent EXCEPT ![o] = r]
  /\ first' = [first EXCEPT ![o] = IF @ = 0 THEN height + 1 ELSE @]
  /\ UNCHANGED <<given, calls, storage, job, answers, unseen>>

\* A branch of the same length replaces the blocks from b on.
Reorg ==
  /\ Spend("reorg")
  /\ \E b \in 2..height :
       /\ \E o \in Ops : block[o] >= b
       /\ block' = [o \in Ops |-> IF block[o] >= b THEN 0 ELSE block[o]]
  /\ UNCHANGED <<given, calls, storage, job, height, sent, first, answers, unseen>>

-----------------------------------------------------------------------------
(* getQuote *)

StatusOf(f) ==
  IF f.skipped THEN "SKIPPED"
  ELSE IF f.hash
    THEN IF f.finished THEN IF f.error THEN "MINED_FAIL" ELSE "MINED_SUCCESS"
         ELSE IF f.started THEN "MINING" ELSE "PENDING"
    ELSE IF f.error THEN "FAILED" ELSE "PENDING"

OnChain(f) == StatusOf(f) \in {"MINED_SUCCESS", "MINED_FAIL"}

\* Stored confirmations, with what stands for none or zero.
Known(f) ==
  IF ~OnChain(f) THEN 0
  ELSE IF f.confirmations # 0 THEN f.confirmations
  ELSE IF f.confirmed THEN WaitConfirmations ELSE 1

Custom(o, n)     == o # 0 /\ n > WaitConfirmations
MustFetch(f, o, n) == f.hash /\ OnChain(f) /\ Custom(o, n) /\ n > Known(f)
Counted(number, receipt) == number - receipt + 1

\* The answer on o, whose record was f, to a query for n confirmations of which
\* there are k.
AnswerOf(f, o, n, k) ==
  [status |-> StatusOf(f), confirmations |-> k,
   confirmed |-> f.confirmed /\ (OnChain(f) /\ Custom(o, n) => k >= n)]

Fetch(q, o) == query[q].fetch[o]
SetFetch(q, o, f) == query' = [query EXCEPT ![q].fetch[o] = f]

\* What a client is told once every userOp has its answer.
Told(q) ==
  LET answer(o) == query[q].fetch[o].answer IN
  IF query[q].open /\ \A o \in Ops : answer(o) # None
    THEN [final |-> {o \in Ops : answer(o).status \in Final},
          sure  |-> {o \in Ops : answer(o).status = "MINED_SUCCESS" /\ answer(o).confirmed}]
    ELSE [final |-> {}, sure |-> {}]
Tell(q) == told' = [final |-> told.final \cup Told(q)'.final,
                    sure  |-> told.sure \cup Told(q)'.sure]

\* The records are read at once; what they settle is answered from them.
Ask(q) ==
  /\ ~query[q].open /\ listed > 0 /\ Spend("query")
  /\ \E n \in Asked :
       query' = [query EXCEPT ![q] =
         [open |-> TRUE, asked |-> n, snap |-> field, knew |-> told,
          fetch |-> [o \in Ops |->
            [Unasked EXCEPT !.answer = IF MustFetch(field[o], o, n) THEN None
                                       ELSE AnswerOf(field[o], o, n, Known(field[o]))]]]]
  /\ Tell(q)
  /\ UNCHANGED <<given, calls, storage, job, chain, dropped, unseen>>

\* getTransactionReceipt: a node that lags behind does not know the transaction.
GetReceipt(q, o) ==
  /\ query[q].open /\ Fetch(q, o).answer = None /\ Fetch(q, o).receipt = "none"
  /\ \/ /\ NoFault
        /\ SetFetch(q, o, [Fetch(q, o) EXCEPT
             !.receipt = IF block[o] = 0 THEN "missing" ELSE "found",
             !.block = block[o]])
     \/ /\ Spend("rpc")
        /\ \E r \in {"missing", "failed"} :
             SetFetch(q, o, [Fetch(q, o) EXCEPT !.receipt = r])
  /\ UNCHANGED <<given, calls, storage, job, chain, told, dropped, unseen>>

\* getBlockNumber, asked for at the same time, may be answered from a cache.
GetBlockNumber(q, o) ==
  /\ query[q].open /\ Fetch(q, o).answer = None /\ Fetch(q, o).number = 0
  /\ \E h \in (height - Lag)..height :
       h > 0 /\ SetFetch(q, o, [Fetch(q, o) EXCEPT !.number = h])
  /\ UNCHANGED <<given, calls, storage, job, chain, told, dropped, unseen, budget>>

\* Both are there: the count is answered, and stored in the background.
Resolve(q, o) ==
  LET f == Fetch(q, o)
      n == Counted(f.number, f.block) IN
  /\ query[q].open /\ f.answer = None /\ f.receipt = "found" /\ f.number > 0
  /\ SetFetch(q, o, [f EXCEPT !.answer = AnswerOf(query[q].snap[o], o, query[q].asked, n)])
  /\ writes' = writes \cup {[op |-> o, kind |-> "count", n |-> n]}
  /\ Tell(q)
  /\ UNCHANGED <<given, calls, listed, field, job, chain, dropped, unseen, budget>>

\* A failed request leaves the answer with what is stored. A missing receipt of a
\* transaction with confirmations fails the userOp, in the answer and in storage.
ResolveError(q, o) ==
  LET f     == Fetch(q, o)
      saved == query[q].snap[o]
      drop  == f.receipt = "missing" /\ Known(saved) > 0
      a     == AnswerOf(saved, o, query[q].asked, Known(saved)) IN
  /\ query[q].open /\ f.answer = None /\ f.receipt \in {"missing", "failed"}
  /\ SetFetch(q, o, [f EXCEPT !.answer = IF drop THEN [a EXCEPT !.status = "FAILED"] ELSE a])
  /\ writes' = IF drop THEN writes \cup {[op |-> o, kind |-> "drop", n |-> 0]} ELSE writes
  /\ dropped' = IF drop THEN dropped \cup {o} ELSE dropped
  /\ Tell(q)
  /\ UNCHANGED <<given, calls, listed, field, job, chain, unseen, budget>>

\* The answer was read.
Close(q) ==
  /\ query[q].open
  /\ \A o \in Ops : Fetch(q, o).answer # None
  /\ query' = [query EXCEPT ![q] = Quiet]
  /\ UNCHANGED <<given, calls, storage, job, chain, told, dropped, unseen, budget>>

\* A write reaches storage, before or after its query was answered; or it fails, which
\* ends the worker.
Store(w) ==
  /\ w \in writes
  /\ writes' = writes \ {w}
  /\ \/ /\ NoFault
        /\ field' = [field EXCEPT ![w.op] = IF w.kind = "count" THEN [@ EXCEPT !.confirmations = w.n]
                                            ELSE [@ EXCEPT !.error = TRUE]]
     \/ Spend("crash") /\ UNCHANGED field
  /\ UNCHANGED <<given, calls, listed, job, chain, answers, unseen>>

-----------------------------------------------------------------------------
Request(r) == \/ HasQuote(r) \/ Refuse(r) \/ CreateQuote(r) \/ Schedule(r) \/ MarkSkipped(r)
              \/ \E o \in Ops : AddJobs(r, ChainOf[o])
Job(r, o)  == Simulate(r, o) \/ Start(r, o) \/ Report(r, o) \/ ReportBlind(r, o) \/ Fail(r, o)
Query(q)   == \/ Ask(q) \/ Close(q)
              \/ \E o \in Ops : \/ GetReceipt(q, o) \/ GetBlockNumber(q, o) \/ Resolve(q, o)
                                \/ ResolveError(q, o)

Next ==
  \/ \E r \in Requests : Request(r) \/ Crash(r)
  \/ \E r \in Requests, o \in Ops : Job(r, o) \/ Include(r, o)
  \/ NewBlock \/ Reorg
  \/ \E q \in DOMAIN query : Query(q)
  \/ \E w \in writes : Store(w)

Spec == Init /\ [][Next]_vars

\* The node's own steps; nothing obliges the chain, or a client to come back.
Fairness ==
  /\ \A r \in Requests : WF_vars(Request(r))
  /\ \A r \in Requests, o \in Ops :
       WF_vars(Simulate(r, o) \/ Start(r, o) \/ Report(r, o) \/ Fail(r, o))
FairSpec == Spec /\ Fairness

-----------------------------------------------------------------------------
TypeOK ==
  /\ trusted \in BOOLEAN /\ overlap \in BOOLEAN /\ listed \in 0..Cardinality(Requests)
  /\ request \in [Requests -> {"absent", "new", "checking", "created", "accepted", "refused", "crashed"}]
  /\ job \in [Requests -> [Ops -> Stages]] /\ field \in [Ops -> Field] /\ writes \subseteq Write
  /\ height \in Nat /\ block \in [Ops -> 0..height] /\ first \in [Ops -> 0..height]
  /\ sent \in [Ops -> Requests \cup {None}] /\ succeeds \in BOOLEAN
  /\ lost \cup unseen \cup dropped \cup told.final \cup told.sure \subseteq Ops
  /\ \A q \in DOMAIN query, o \in Ops : Fetch(q, o).answer \in Answer \cup {None}

\* Who is told that a userOp is confirmed is never told so earlier than the node's
\* own number of blocks, and the number asked for, were built on its first block:
\* whatever reorganisations, cached block numbers and late writes do to the count
\* (getQuote, and the executor's reports). A report without a receipt claims it blindly.
ConfirmedIsDeep ==
  \A q \in DOMAIN query, o \in Ops \ unseen :
    LET a == Fetch(q, o).answer IN
    a # None /\ a.status # "SKIPPED" /\ a.confirmed =>
      /\ height - first[o] + 1 >= WaitConfirmations
      /\ Custom(o, query[q].asked) => height - first[o] + 1 >= query[q].asked

\* A client that asks again is never told that a userOp with a final status is pending
\* or being mined (constants.ts: FINAL STATE); and a confirmed success stays one, unless a
\* query found the transaction gone, or two requests that overlapped have queued the userOp
\* twice.
AnswersStay ==
  \A q \in DOMAIN query, o \in Ops : Fetch(q, o).answer # None =>
    /\ o \in query[q].knew.final => Fetch(q, o).answer.status \in Final
    /\ o \in query[q].knew.sure =>
         Fetch(q, o).answer.status = "MINED_SUCCESS" \/ o \in dropped \/ overlap \/ o \in unseen

\* A userOp is queued twice, and listed twice in the answers, only by requests that
\* both looked for the quote before one of them had stored it.
QueuedOnce ==
  \/ overlap
  \/ /\ listed <= 1
     /\ \A o \in Ops : Cardinality({r \in Requests : job[r][o] \notin {"none", "done"}}) <= 1

\* Every userOp of a stored quote gets a final status, or is skipped, unless its job
\* could not be queued.
AcceptedEnds ==
  \A o \in Ops : listed > 0 ~> (StatusOf(field[o]) \in Final \cup {"SKIPPED"} \/ o \in lost)

=============================================================================
