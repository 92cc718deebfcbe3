# TLA+ verification of composable-batch-erc

The repository holds a MEE node (`orchestrator-node`), the contracts of composable
execution (`contracts`), a TypeScript SDK (`sdk`) and a Rust service that finds ERC-20
storage slots (`orchestrator-node/apps/token-storage-detection`). This directory models
the parts that decide *whether a userOp is executed, once, and reported truthfully*, and
what these parts stand on. Paths without a prefix are below
`src/orchestrator-node/src/modules/`. `PROJECT.json` maps every definition to its lines.

1. Inventory — 2. Modules — 3. Runs and bounds — 4. Fairness — 5. Findings — 6. Proofs —
7. What is left out — 8. Plan

## 1. Inventory

| part | state it keeps | operations | hard behaviour | what makes it correct |
|---|---|---|---|---|
| executor (`executor/`) | a BullMQ job per block, locals of `processJob` across awaits | take, filter, send, receipts, retry, regenerate, fail | RPC answers lost or late, replaced transactions, a thread that dies between two queue calls | no userOp is lost or in two jobs, a reported success is one, a final status stays |
| nonce manager (`nonce-manager/`) | used and unused nonce per EOA, in memory | `getNonce`, `markNonceAsUsed` | lost with the thread, stale | never ahead of the chain |
| workers of an EOA (`workers/executor/bootstrap.ts`) | EOA -> BullMQ worker | create, pause, resume on `nodeWalletsStates` | a message that arrives while workers are being created | one worker per EOA, those with funds run |
| node health (`health-check/`, `node/`) | latest result per chain, paused queues in Redis | periodic check, events | a check that fails half way | queues follow the health |
| simulator (`simulator/`) | a BullMQ job per userOp | validate, simulate, re-queue, fail | three calls at once, re-queue then throw, time windows | in the window or forced at its end; an error is final |
| batcher (`batcher/`) | a lock; the completed jobs of the simulator queue | pack, hand over, remove | crash between hand-over and removal | nothing lost, blocks within the cap |
| quotes: a quote (`quotes/`, `simulator/simulation.service.ts`, `payment/`, `merkle-tree/`, `entry-point/`, `user-ops/`, `price-feeds/`) | the quote under way | `requestQuote`, the checks of `executeQuote`, reading transfers back | answers of several chains in any order, estimates made for one shape of a userOp and executed in another | an accepted userOp ran, its gas covers it, the fee is what is signed, both handlers agree on the hash |
| quotes: execution and answers (`quotes/`, `storage/`) | quotes and userOps in Redis, write-once fields | `executeQuote`, `getQuote` | two requests for one quote, jobs added in the background, confirmations beside reorganisations | scheduled once, an answered status stays, confirmations are real |
| RPC manager (`rpc-manager/`, `workers/workers.service.ts`) | order, state and metrics of providers; copies in threads and processes | checks, promotion, sync, requests | checks beside promotions and requests, restarts | a request fails only if nobody can answer; copies follow |
| gas manager (`gas-manager/`, `gas-estimator/`) | price history, gas info per chain; copies in threads and processes | fetch, sync, forced fetch before a retry, gas conditions | overlapping fetches, failing requests, copies that restart | fees stay in the range of what was quoted, copies know what the master knows |
| token slot detection (`apps/token-storage-detection`, `token-slot-detection/`) | a record per token in Redis; the node's cache of slots and gas limits | search, cached lookups, health check | checks that fail, requests that hang, a lock that is poisoned | a record is wrong only for reasons one can name; every call ends |
| contracts (`contracts/`) | storage slots per namespace | `executeComposable`, inputs, outputs, constraints | batches inside batches, caught reverts | a running batch finds what it captured |

How they interact: `requestQuote` (API process) asks the chains for balances, simulates
the userOps with token overrides whose slots the detection service finds, and prices their
gas with the gas manager's copy. `executeQuote` stores the quote and adds simulator jobs
to Redis. A simulator thread completes a job when its userOp can run. The master's batcher
packs completed jobs into blocks and adds them to the executor queue. The executor thread
of the chain has one BullMQ worker per EOA; each takes blocks, sends them with the nonce
manager's nonce, waits for the receipt and takes the block apart if it reverts. The
master's health check pauses the queues and tells the thread which EOAs are funded. All of
them use the RPC manager, whose state the master computes and posts to threads and
processes. On chain, the userOps of the SDK run composable batches.

Not modelled, with the reasons in `PROJECT.json`: the encoder and the contracts service
(encodings of a library), the API's parsing of requests, lenses, SDK, demo and scripts.
Encodings, hashes, texts of errors and HTTP are abstract everywhere.

## 2. Modules

| module | code | composes |
|---|---|---|
| `Executor` | `executor/`, `nonce-manager/`, the executor queue, the chain | – |
| `ExecutorProofs` | theorems about it | `Executor` |
| `WorkerPool` | `health-check/`, `node/`, `workers/executor/bootstrap.ts`, `master/bootstrap.ts` | – |
| `PoolProofs` | theorems about it | `WorkerPool` |
| `Simulator` | `simulator/`, `executeQuote` | – |
| `Pipeline` | `batcher/` and the executor queue as it sees it | `Simulator` |
| `PipelineProofs` | theorems about it | `Pipeline` |
| `Handover` | abstract specification: each accepted userOp is handed over once or rejected | refined by `Pipeline` |
| `Explorer` | `executeQuote`, `getQuote`, `storage/` | the executor reduced to what it stores |
| `ExplorerProofs` | theorems about it | `Explorer` |
| `CallTraces` | reading a trace of the entry point | – |
| `QuoteOps` | preparing, hashing and signing userOps | `CallTraces` |
| `Fees`, `Transfers` | what a quote costs; transfers of a mined block | – |
| `Quote` | `requestQuote`, the checks of `executeQuote`, `getUserOpTransfers` | `QuoteOps`, `Fees`, `Transfers` |
| `QuoteProofs` | theorems about it | `Quote` |
| `RpcErrors` | `classify-error.ts` | – |
| `RpcManager` | `rpc-manager/`, `workers/workers.service.ts` | `RpcErrors` |
| `GasConditions` | the rules of prices, fee histories, tips and L1 fees | – |
| `GasManager` | `gas-manager/`, master and copies | `GasConditions` |
| `ChainProofs` | theorems about both, whose names therefore differ (`RpcSpec`, `Spec`) | `RpcManager`, `GasManager` |
| `SlotTrace` | the parser of a balanceOf trace (Rust) | – |
| `SlotDetection` | the detection service and the node's calls of it | `SlotTrace` |
| `SlotProofs` | theorems about it | `SlotDetection` |
| `ComposableExecution` | `contracts/*.sol` | – |
| `ComposableProofs` | theorems about it | `ComposableExecution` |

Each `MC*` module adds the model values and symmetry for the configurations. Operators
commented "variant" are not used by a specification: they are the code with a plausible
bug, used to see that a property notices it.

### Executor

`pc[w]` is the await at which worker `w` stands, `mem[w]` its locals, `jobs` the BullMQ
jobs with data and attempt, `cache` the nonce manager, `store` what the status fields of a
userOp say, `txs` and `opState` the chain, `submitted` the userOps the queue was given.
`blind` records the transactions that were reported executed without a receipt.
One action per stretch of `processJob` between awaits: `Take`, `PrevReceipt` and `Forget`
(lines 96–175: the receipt of the last attempt, and the job that drops its hash),
`Filter` (time bounds), `GetNonce`, `Send`, `FastReceipt` (`SyncReceipt` in sync mode, else
`AsyncReceipt`), `WaitReceipt`, `Resync` and `SaveTimedOut` (a send that timed out: the
nonce is read afresh, the job keeps the hash), `Adjust`, `Simulate`, `Regenerate`,
`Retain`, `Finish`, `Throw`; `QueueRetry` and `Stalled` are BullMQ's, `Crash` a thread
exit, `Include`, `Drop` and `Expire` the chain's. An RPC call may fail before or after it
took effect, within `RpcFaults`; each queue call, every `updateData` among them, within
`QueueFaults`.

### WorkerPool

One chain. `checkPc`, `seen`, `latest` are the running `performCheck` and its result;
`paused` the queues, and `missed` those a failing call kept from being told of the latest
status (`Told` is the call that does not fail); `overlap` is history: a check began before the last
message was handled to the end; `inbox`, `handlers`, `workers`, `registered` the executor thread:
messages not yet read, handlers suspended in `createWorker`, BullMQ workers, and the map
`executorWorkers`. Actions: `Gather`, `SetQueue`, `Post` of the master, `Receive`,
`Created`, `LastJobDone`, `ThreadExit`, `ThreadStart`, `NodeRestart`, and `Change` for
balances and everything else that makes a chain healthy.

### Simulator, Pipeline, Handover

`sims` are job slots with the step of `processJob`, the calls asked and not answered, and
the attempt; `strays` is a validation that outlives its attempt, since the first rejection
of `Promise.all` ends the attempt and not the other calls. `phase` puts the clock in the
window of each userOp: early, open, closing (a forced userOp may still run) or over.
`req`, `stored`, `scheduled` are the requests, `failed` the error fields. The constant
`Quotes` holds the supertransactions of a run, each with its own userOps and budgets. `bat`
is the running batcher, `blocks` the executor queue. `Handover` is implemented with
`accepted`, `handed`, `rejected` computed from these (`Promise` in `Pipeline`): each userOp
is handed over once; after a crash or a failing Redis call, `trouble` allows it again.

### Explorer

`request[r]` is the step of an `executeQuote`, `listed` how often the list of userOps was
pushed, `job` the life of each queued userOp, `field` its custom fields in Redis. The chain
is a height and the block of each transaction, and may be reorganised. `query[q]` holds the
local variables of a `getQuote`: the fields it read, then, per userOp, the receipt and the
block number, which are answered apart. `writes` are the writes that queries left in the
background: they reach storage in any order, after the answer and beside the next query,
or never, since the worker dies of one that fails. `first`, `dropped`, `unseen` and `told`
are history.

### CallTraces, QuoteOps, Fees, Transfers, Quote

Pure rules first, and `Quote` as the order they are applied in. A trace is a sequence of
frames; `CallTraces` says what the node takes for a failure, and what happened in the EVM
(`Undone`, `Ran`). `QuoteOps` has two shapes of each userOp: the one that is prepared for
simulation and the one that executes, with the trigger, deployment and session data each
carries; a hash is the record of what it covers. `Fees` computes limits, prices and the fee
in integers; `Transfers` assigns events and native calls to userOps by the marks around
them. In `Quote`, `phase` runs from `asked` over `balances` and `simulate` (both only where
the request calls for them), `estimate` and `commit` to `quoted`, and with the signed
request from `sent` over `validate` to `accepted` and `mined`; `refused` ends it with a
reason. `QuoteRequest` is what the request schemas let in, `Regular` what the SDK makes of it.

### RpcManager

`master` holds the order of providers, their states and metrics; `checking` and
`promotions` the checks under way; per worker a process state, an inbox and a `copy`;
requests hold the list of providers they took at the start. A worker that receives a sync
before its setup dies of the unhandled rejection and is restarted. What an error does to a
request, its provider and the metrics comes from `RpcErrors`: error class, status, code and
the topics of the message.

### GasManager

The master, one API process with all chains and one executor thread per chain. `calls` are
the fetches under way, `fetching` the flags that should keep them apart, `history` the
price list of each process, `infos` what it knows, `wire` the messages of the master to each
copy. `Fetch`, `Quoted` and `Finish` are the steps of a fetch; the schedule starts them in the
master, and a thread whose transaction must be replaced fetches for itself (`RetryFetched`)
or takes what it knows (`RetryKnown`). `tried` are the fees first executions were to pay
(`Execute`): a retry falls back to them where its own are zero (`Kept`), and raises by 20
percent per attempt made, up to the last of `Attempts`; `Sync` delivers a message of the master and `Restart`
empties a copy.

### SlotTrace, SlotDetection

`SlotTrace` runs a program (calls, delegate calls, hashes and reads) on a small EVM and
feeds its log to the parser, so that what was read and what the parser says was read can be
compared. `SlotDetection` has one token: `db` and `poisoned` in the service, `cache` and
`limit` in the node, `at[c]` the step of a call through both, `checks[c]` the results of
its checks. Records carry, as history, which checks failed.

### ComposableExecution

A stack of frames, one per running batch, each with the account, the mode (call through
the module, or delegatecall), the instruction it is at and what it captured; `store` is
Storage, `Unset` where a slot is not initialized. A call of a batch may start a batch of any
account (`Begin`, `Nest`), or lead to an account that writes Storage itself
(`WriteStorage`), in the namespace of its delegatecalls; a batch that reverts brings Storage
back to `saved`, and the caller may catch that. Each word of the memory behind a value is
any word. Nothing guards a batch against another of the same account and mode: its frame
gives up the claim on its captures when one starts (`Unclaimed`), and on a slot its account
writes itself (`Overwritten`).

## 3. Runs and bounds

Passing runs; the bounds are those under which the case named still happens.

| run | shows | bounds and why they suffice |
|---|---|---|
| `executor_safety` | no userOp is lost or in two jobs, nonces stay behind the chain, reported successes are true, confirmed statuses stay | 2 userOps (one whose call reverts), 2 workers, 2 attempts, one fault of any kind (constraint `OneFault`: an RPC answer, a queue call, the thread) at any await: nonces and jobs only meet between two workers, and one lost answer gives every disagreement of node and chain |
| `executor_regen` | every userOp gets a status, though its blocks revert and are taken apart | synchronous send, gas override (no estimation, so blocks revert on chain), a faulty userOp that expires; two faults out of an RPC call, a queue call and a thread exit at any step (constraint `TwoFaults`), one stalled restart (BullMQ's default) |
| `pool` | queues follow health, the worker the thread knows of follows its balance, and it is the only one unless checks overlapped | 2 EOAs, 2 changes, two faults out of an RPC call, a Redis call and a crash (constraint `TwoFaults`); 2 messages or handlers at once, enough for the older to end after the newer |
| `pipeline` | the pipeline implements `Handover`; blocks within the cap; completion only in the window or forced; nothing is lost and everything ends | five supertransactions, one per question: two userOps that do not fit one block with one forced by the clean-up of the other and an account deployed late, changing conditions, an RPC fault, and a crash or a failing Redis call at any step |
| `explorer` | confirmations are never claimed early, answers stay, queued once, accepted userOps end | four scenarios: a client beside a reorganisation and an RPC fault, two clients, two requests at once, a crash with a failing queue; 4 blocks with 2 confirmations to wait for and block numbers one block old |
| `quote` | a userOp that is accepted ran, gas covers it, funds are there, the fee is what is signed, hashes agree, transfers are the userOp's own | 20 kinds of requests over 2 chains and 3 tokens, every trace with up to two frames beside or below the account's call, prices from 0, a feed and support cache in each state |
| `rpc_sync` | copies agree, threads get configured, a request fails only after everybody active failed | 2 providers, 2 rounds of checks, a thread and an API process, 1 exit at any step, 1 request; messages with two topics, and every class, status and code beside one |
| `gas` | fees in range, copies know what the master knows, nothing known is forgotten | a rollup with fee history above a layer with legacy prices, prices that spike below and above the limits, crowded and empty blocks; fetches that overlap, failing requests, two retries and a restart, in budgets of their own (`Scenarios`); 3 attempts, the default, so both percentages; standard mode above, where a fresh tip may be zero and a retry falls back to the first |
| `slots` | a record is wrong only after the failed checks it names; every call ends | tokens with one mapping in five places and three layouts, a second mapping beside it in any two places, balances in shares, sums or beyond u8, and none; two or three calls with faults of RPC, Redis, HTTP, a block and a restart |
| `composable_nested` | captures stay | 2 accounts, both modes, 3 batches or direct writes, depth 3: the outer, one of another namespace and one of its own |

Thresholds are smaller than the code's (provider failures 2 for 3, requests 2 for 10,
history 4 for 20): only their order matters. Job, transaction and slot counts are large
enough that no action is disabled for want of one, or the run bounds what starts, not what
runs. Deadlock is not checked: every model ends when its budgets are used up and its work
is done; that nothing gets stuck before is what the liveness runs show.

## 4. Fairness

* `Executor`: weak fairness of each worker's step, BullMQ's retry and stalled check, and
  of the chain for a pending transaction that can be included. Threads run while the
  process does, BullMQ retries with a fixed delay; faults have budgets, so an RPC that
  fails for ever is not covered by `EveryOpFinishes`.
* `WorkerPool`: the timer of the check (`MasterStep`), the event loop of the thread
  (`Receive`, the oldest `Created`), the thread's restart by the master, jobs that end.
* `Pipeline`: each request, each job slot, the clock, the batcher (event and 75 ms timer)
  and an executor that takes blocks. No fairness on changes of the world.
* `Explorer`: each request's steps and each queued userOp's job. Not the chain, not the
  clients: a receipt may never come, and the executor's last attempt then fails the userOp.
* `RpcManager`: initialisation, starts of workers and their reading of messages.
* `SlotDetection`: the steps of both processes and the timer of a request. RPC answers have
  none: a request may hang, which the timer is for.
* `Quote` and `GasManager` state safety only.

## 5. Findings

Two runs are expected to fail; `PROJECT.json` quotes the line each contradicts.

* `pool_overlap` – a check that posts while workers are still being created gives an EOA a
  second worker, although "there will be no concurrency within a single EOA worker".
* `composable_stale` – Storage keeps a slot initialized for good, so a batch may read what
  an earlier transaction captured, which `tldr.md:116` rules out.

The models show more places where the code does not do what its text says. They are
modelled as the code is, and no property asks otherwise:

* `executor.processor.ts:1186`: a receipt error counts as an execution and leaves the nonce
  unmarked (`blind`). Line 297: a job emptied by regeneration and restarted after a crash is
  sent as an empty block, since the check for "no userop remaining" compares lengths.
* `workers/executor/bootstrap.ts:54`: with `workerCount` 0 beside worker accounts the
  thread dies on every wallet message (`chain-configuration.md:164`: "0 = use master only").
  `health-check.service.ts:149`: a pause or resume that failed once is not repeated before
  the status changes again.
* `quotes.service.ts:697`: two requests for one quote both pass `hasQuote`
  (set `Requests` to two). `simulator.processor.ts:246`: when a Redis error ends the first
  attempt, an invalid signature found later is reported and the userOp still executed.
* `workers.service.ts:268`: an API process that is not listening yet is sent no
  configuration. `rpc-manager.service.ts:658`: a degraded primary that was replaced stays
  degraded, and line 517 lets a fallback replace a primary whose metrics were just reset.
* `executor.processor.ts:166`: a retry asks for the receipt of the last attempt once and then
  drops the hash, so a transaction included later leaves its userOps reported as failed,
  where lines 112-113 say that a delayed receipt "will be fetched here and finalized". After
  the last attempt (line 591) nobody asks any more.
* `executor.processor.ts:1541`: a stray `;` ends the condition, so only a replacement error
  forces a fetch of gas, although the comment above says every gas error does.
* `gas-manager.service.ts:156`: the early return of a second fetch clears the flag of the
  first; a forced fetch beside one returns at once with the old price. With fee history the
  forced fetch brings a new history and the old tip. A retry whose fresh tip is zero pays the
  first execution's (`executor.processor.ts:477`), which may exceed its own maximum fee; a
  node refuses that. Line 208: one history, and line 190:
  one mode, for all chains of the master. Line 248: a ratio of exactly 500 (or 200) takes
  the next branch, although the comment ignores what is above. A median of 0 divides by
  zero. A copy that restarts knows nothing until the master's next fetch, and quotes and
  blocks of the chain fail meanwhile.
* `classify-error.ts`: one provider's invalid key ends a request that a fallback could
  answer; a timeout is sent again to a provider that says "already known".
* `quotes.service.ts:283`: the trigger is checked against the balance of the payment when
  both name one token address, whatever their chains; line 355: amount and fee are checked
  apart, never as a sum. A native fee in fusion mode is checked on the EOA and paid by the
  account. Quotes for accounts on both sides of 3.0.0, or without a type above 2.2.0, are
  given and never accepted.
* `simulation.service.ts:405`: the trigger is prepared on the first userOp of its chain,
  `executeQuote` sets it on index 1: the estimate fits only with the order of the SDK. An
  empty override list of a userOp still replaces the global one. A preparation that fails
  leaves the quote unsimulated, silently.
* `flat-trace-call-result.ts:102`: a caught revert that is the last call counts as a failure
  of the userOp, and a caught error other than a revert always does.
* `price-feeds.service.ts:60`: the comparison is inverted: within its TTL a price is fetched
  anew, after it the old one is served for ever (`.env.example:52`). A price of 0 makes the
  fee 0. `arbitrary-payment.service.ts`: a failed lookup is cached for an hour as "not
  supported", and the first provider answers, not the cheapest.
* `userop.service.ts:588`: without a postOp, native transfers go to the next userOp's record;
  values of reverted calls count.
* `quotes.service.ts:1742`: a receipt missing once is stored as an error for good, so a
  userOp goes from failed to executed-and-failed. Overlapping requests list userOps twice; a
  crash after `createQuote` strands the quote; the result of `createQuote` is ignored.
* `slot_finder.rs:58`: failed checks are left out, so with the RPC down for a moment "no
  slot" is stored for good; a request that overlaps may overwrite a found slot with it; ties
  are decided by the order of a hash set, so 2 may be chosen over 0 (line 40 says the
  opposite). `handlers.rs:258`: a failing write panics with the lock held, and every later
  request panics until the process restarts. `lib.rs:35`: with holder 1 a Vyper mapping at
  slot 1 is told as Solidity. The node takes no notice of `contract`, `lang` and
  `updateRatio`: overrides of Vyper tokens and of tokens with a separate storage contract go
  to the wrong place; and its health check is healthy from the cache.
* `erc-draft.md:629` says that in a delegatecall Storage sees the account's caller as
  `msg.sender`; it sees the account itself (`Storage.sol:33`), and so does the model. What
  an account captures by delegatecall therefore shares the namespace of what it writes
  itself. A batch within a batch of the same account and mode overwrites its captures.
* `ComposableExecutionLib.sol:180`: constraint `i` is compared with word `i` of the value,
  so on a value of one word all but the first see the memory behind it.

## 6. Proofs

`tlapm` proves what follows for every value of the constants allowed by the assumptions of
the modules (`ConstantsOK`, `QuoteConstantsOK`, ..., which TLC evaluates in every run): any
number of userOps, workers, providers, chains, attempts, faults. Every safety invariant and
every action property of the passing runs is proved. Few are inductive; what makes them so
is said here, and is a description of why the code works. Each step lemma takes one action
and one part of the invariant; the theorems combine them.

### Executor (`ExecutorProofs`)

* `TypeCorrect`: with `BusyHasJob`, a worker that is not idle has the number of a job, or
  its step would write outside `jobs`.
* `JobsHeldOnce` (`HeldInv`): a busy worker's job is active and nobody else's. BullMQ gives
  a job to one worker, and what a worker does to its job changes no other worker's.
* `NonceNeverFuture`: the cached nonce comes from the local of a worker, which comes from
  the cache, the chain, or a receipt. `NonceInv` bounds all three, and says of a worker that
  waits that its transaction is its own and has the nonce it holds, so an included one moves
  the chain's nonce past it.
* `SuccessSound`, with `MinedInv`: userOps of a transaction that succeeded are executed,
  which no later step of the chain takes back.
* `OneJobTheorem` (`OpInOneJob`) and `FinalTheorem` (`ConfirmedIsFinal`), with `JobInv`: a
  job is solid for a userOp if it lists it and its worker has not queued it again
  (`WorkInv` says of the userOps its job lists that those a worker no longer holds are
  finished, and of those it tells apart which are which); every submitted userOp that
  is not finished has a solid job (`KeptInv`), and but for faults of queue and thread only
  one (`OnceInv`), which does not touch what is confirmed (`FinalInv`). They assume
  `FewCrashes`: at least one attempt, and no more crashes than BullMQ's `maxStalledCount`
  forgives. `executor.config.ts:10` admits 0 attempts (default 3); then no attempt is ever
  the last, and nobody stores the failure.

### WorkerPool (`PoolProofs`)

* `TypeCorrect`; `QueuesStand`: between two checks the queues of the chain are as its latest
  status says, those excepted that a failing call kept from being told of it (`QueueInv`
  carries it through a check that has gathered and not yet set its queues).
* `OneWorker` (`OneWorkerUnlessOverlap`): until a check begins before the last message is
  handled to the end, there is at most one message or handler at a time (`OneMessage`), and
  a registered worker is the only one of its account (`MapInv`). With checks that overlap it
  is false: the run `pool_overlap`.

### Pipeline (`PipelineProofs`)

* `TypeCorrect`; `BlocksWithinLimit`: `PackFacts` is about every order in which the jobs are
  found: all userOps that fit are packed, nothing else is, and the gas added up on the way
  is the gas of the block.
* `NoneLost` (`NothingLost`): at every await a userOp of an accepted quote is carried by a job
  that has not failed and not been replaced, by a batch on its way (`RoundOK`: the jobs of a
  round stay completed until they are removed), by a block, or has an error. It assumes
  `FewDisruptions`: BullMQ drops a job after its attempts are used up
  (`SIMULATOR_QUEUE_JOB_ATTEMPTS`) or its thread was lost too often.
* `CompletedInTime` (`CompletesInWindow`): a positive trace under way was taken in the window
  of a deployed account (`Okay`, `Moves`: time only goes forward and accounts stay).
* `KeptPromise`: every step is a step of `Handover` or a stutter (`Promise!Safety`). The
  invariant (`Accounted`) says that nothing happens to a userOp before it is taken on, that a
  round hands over only userOps of the completed jobs it took (`FromJobs`), and, as long as no
  process died and no call of Redis failed, that a userOp has one live job and no error or
  block beside it (`Sole`) and one place in the batches of a round (`AtOnePlace`; the lemmas
  about `Pack` show that userOps named once are packed once). A job that has queued
  the next one is no longer live, so a userOp never has two. The theorem assumes `OneRequest`: two
  requests for one quote may both get past `hasQuote`, and every userOp gets two jobs.

### RPC and gas (`ChainProofs`)

* `RpcTypeCorrect`: every order of providers, in the master, on its way, in a copy and in a
  request, tells them apart, though promotions swap entries one message at a time.
* `CopiesAlike` (`CopiesFollow`), with `FollowInv`: what a copy will hold after its inbox is
  what the master holds now, provider by provider; a thread that cannot be reached has no
  copy and nothing on its way.
* `FailuresThorough` (`FailureIsThorough`), with `RequestInv`: a request has tried every
  provider of its list up to the one it is at that stayed active since.
* `FeesTheorem` (`FeesInRange`), with `DataInv`: every price that is known, on its way or under
  way lies between two that were answered but for the buffer of the mode, every fee
  history is one that was answered, and what a first execution was to pay is in range
  (`TriedOK`). The fees pay base fee and tip; where a retry keeps the first execution's tip,
  only the base fee (`KeptFacts`). A retry raises by at most `MostRaise`, for any number of
  attempts (`BumpedFacts`). The lemmas about `Median` are for lists of any length.
* `CopiesKnow` (`CopyKnows`), with `KeepInv`; `NothingForgotten` (`KnownStays`);
  `GasTypeCorrect`, where fetches that run at once are told apart by their number
  (`ApartInv`), since the flag that should prevent them does not (section 5).

### Quotes (`QuoteProofs`)

Steps read what earlier steps found out, so the invariant says of each result what it is of:
balances of the holder, in the order asked (`BalanceInv`); simulations of traces the chain
answered (`SimsInv`); userOps priced from these simulations (`OpsInv`), the quote made of
these userOps with the payment rebuilt (`QuoteInv`), the fee covered (`PaidInv`), signatures of
this quote (`SignedInv`), validations of the payment (`ChecksInv`).

* `NothingUnrunAccepted` (`AcceptedRan`): for every call trace. A frame is undone by itself or
  by a frame around it; the scan over the reverts looks at the frames around each and after
  it, and the lemmas show that no frame it accepts encloses the call of the account.
* `TransfersAreOwn` (`OwnTransfers`): for every block in which userOps follow each other.
* `ChargedIsSigned` (`ChargedWhatItSigned`): neither limits nor price of a userOp depend on what
  the payment transfers.
* `FundsAreThere`, `LimitsAreEnough`, `HandlersAgree` (`FundingIsThere`, `GasCovers`,
  `CommittedVerifies`) hold of what the SDK sends (`SdkRequests`: every request is `Regular`):
  an account pays for its own userOps, the accounts of sponsors and sessions exist, and a
  sponsored trigger is carried by the first userOp. The node checks none of it; without it
  the simulation prepares another userOp than `executeQuote` executes (section 5).

### Explorer (`ExplorerProofs`)

* `OnceUnlessRaced` (`QueuedOnce`): unless two requests overlapped, one of them has
  passed `hasQuote` (`SerialInv`, `StageInv`).
* `ConfirmedTheorem` (`ConfirmedIsDeep`), with `DepthInv`: confirmations in a record, a snapshot,
  an answer and every write under way (`WritesHonest`) belong to the block the transaction was first in.
* `AnswersTheorem` (`AnswersStay`), with `StayInv`: what is final in a record, in the fields a
  query has read, and in what it will answer.

### Token slots (`SlotProofs`), composable execution (`ComposableProofs`)

* `RecordsTheorem` (`ParserFinds => (Spec => []RecordsHold)`): a record comes from an answer under
  way (`AnswersHold`), an answer from the results of checks (`ChecksHold`); each says what it
  has really seen. That the parser finds the entries a balance depends on (`ParserFinds`) is
  an assumption on the tokens, which the run checks on its tokens.
* `CapturesAreKept` (`CapturesStay`): a revert brings Storage back to `saved`, so every frame
  must have started from a Storage that held the captures below it (`SavedInv`); a capture
  writes the namespace of the top frame, so no frame below with captures may share it
  (`SpaceInv`). The contracts do not prevent that it does: a frame whose account starts
  another batch in the same mode claims nothing any more (`Unclaimed`), nor does one for a
  slot its account writes itself (`Overwritten`). The theorem is about all others.
* `TypeCorrect` of both.

Recursive functions over `0..n` (`Pack`, `GasFor`, `SumOf`) are proved about for every input:
`LeastExists` turns well-foundedness of the naturals into least counterexamples, and
`SolutionExists` shows that the recursion has a solution.

Only model-checked: the liveness properties (`EveryOpFinishes`, `RegisteredFollow`, `ThreadsConfigured`, `EveryCallEnds` and the others, and the eventuality in `KeepsPromise`; fairness
and ENABLED are out of the prover's reach), and the parser of the slot detection.

## 7. Abstractions

* Executor: gas values, except for what blocks fit; Redis writes in the background arrive
  in order; no chain reorganisation; BullMQ's lock is not lost by a thread that lives;
  queue order is open; MaxAttempts is at least 1.
* WorkerPool: one chain; paymaster funding, whitelists and the other services of a check
  are the one flag `backed`.
* Simulator and Pipeline: one supertransaction on one chain; validAfter and validUntil of
  the userOp are its window; one stray validation per userOp; one simulator thread; a
  trusted payment userOp, a userOp missing from storage and a failing write of the quote
  are left out; the simulator jobs of a batch are removed in one step, of which any subset
  may fail. The userOps of a quote whose background `addJobs` fails count as not accepted.
  After a crash or a failing Redis call `KeepsPromise` allows a second handover: the entry
  point refuses the second execution.
* Explorer: one supertransaction; expiry of records after 15 days; the fields that matter to
  a status; a block number is at most `Lag` blocks old.
* Quote: the orchestration fee (`quotes.service.ts:481`) and the buffers on gas limits are left
  out of totals and limits; sizes and gas are small integers, hashes are what they cover, amounts of one unit
  of each token; LiFi's fee rounds away at that size; API keys of price providers are there.
* RpcManager: response times, which only reach the log. A thread that is restarted starts:
  if its startup fails, the exit handler of `workers.service.ts:336-345` rejects, and nothing
  in the code handles that.
* GasManager: one copy of each kind; the chain minimum the executor enforces once more on what
  it sends (`executor.processor.ts:706-716`); a fee history is its base fee and fullness; messages
  arrive in order.
* SlotDetection: one token; frames have memory for a hash, as compilers lay it out; the
  random override value never equals the balance; a chain and its provider exist; with
  local tracing, the trace ends.
* ComposableExecution: installation of the
  module, entry point checks and `msg.value` are left out; calls that revert are one
  choice; the world changes between batches and when a call returns.

Hazards of `PROJECT.json` that no property catches going wrong, each with its reason there,
since the code does let it go wrong and section 5 says so: two requests for one quote
(`QueuedOnce` leaves their race out), userOps stranded after `createQuote` (`AcceptedEnds`
leaves lost ones out), reports without a receipt (`blind`), wallet messages for accounts a
thread has not prepared, a provider degraded when its metrics are reset, API processes
without a configuration, one price history for all chains, userOps in an order the SDK does
not build, one token address on two chains, the inverted test of the price cache, a receipt
that is late (reported as failed, executed afterwards), a lock that stays poisoned, a batch
inside one of the same account and mode, and words read behind a value.

## 8. Plan

1. Compose: `Executor` as the reader of `Pipeline`'s blocks, with an abstract life cycle of
   a userOp that both, and `Explorer`, implement.
2. Extend: installation and entry points of the composable module; the captures a batch of
   the SDK may refer to; which accounts the node sets up for a chain.
