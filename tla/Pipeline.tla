------------------------------ MODULE Pipeline ------------------------------
(***************************************************************************)
(* From an accepted supertransaction to the executor queue of one chain:   *)
(* the simulator queue of Simulator.tla, the batcher of the master that    *)
(* packs its completed jobs into blocks, and the executor queue as the     *)
(* batcher sees it.                                                        *)
(***************************************************************************)
EXTENDS Simulator, SequencesExt

CONSTANTS
  Gas,        \* userOp -> gas it counts for in a block
  GasCap,     \* batcher.batchGasLimit
  MaxBlocks   \* bound on blocks handed over

ASSUME PipelineConstantsOK ==
  /\ Gas \in [Ops -> Nat] /\ GasCap \in Nat /\ MaxBlocks \in Nat

VARIABLES
  bat,     \* the running tryToBatchCompletedSimulations (eventListenerLocked: one at most)
  blocks   \* jobs of the executor queue, in the order they were added

vars == <<simVars, bat, blocks>>

-----------------------------------------------------------------------------
Batch == [ops: Seq(Ops), gas: Nat]
Block == [ops: Seq(Ops), gas: Nat, waiting: BOOLEAN]
Empty == [ops |-> <<>>, gas |-> 0]

IdleBatcher == [pc |-> "idle", jobs |-> {}, batches |-> <<>>]

Init ==
  /\ SimInit
  /\ bat = IdleBatcher
  /\ blocks = <<>>

-----------------------------------------------------------------------------
(* BatcherService.tryToBatchCompletedSimulations *)

TooBig(o) == Gas[o] > GasCap

PlaceUnchecked(p, o) ==   \* variant: compares without the userOp's own gas
  IF TooBig(o) THEN p
  ELSE IF p.open.gas > GasCap
    THEN [full |-> Append(p.full, p.open), open |-> [ops |-> <<o>>, gas |-> Gas[o]]]
    ELSE [p EXCEPT !.open = [ops |-> Append(@.ops, o), gas |-> @.gas + Gas[o]]]

\* A userOp too big for any block is left out; one that does not fit closes the batch built
\* so far and opens the next.
Place(p, o) ==
  IF TooBig(o) THEN p
  ELSE IF p.open.gas + Gas[o] > GasCap
    THEN [full |-> Append(p.full, p.open), open |-> [ops |-> <<o>>, gas |-> Gas[o]]]
    ELSE [p EXCEPT !.open = [ops |-> Append(@.ops, o), gas |-> @.gas + Gas[o]]]

Pack(order) ==
  LET placed[n \in 0..Len(order)] ==
        IF n = 0 THEN [full |-> <<>>, open |-> Empty] ELSE Place(placed[n - 1], order[n])
      last == placed[Len(order)]
  IN  IF last.open = Empty THEN last.full ELSE Append(last.full, last.open)

DoneJobs == {j \in Slots : sims[j].st = "done"}

\* A "completed" event or the 75 ms timer, while no block waits for a worker.
Count ==
  /\ bat.pc = "idle"
  /\ \A i \in 1..Len(blocks) : ~blocks[i].waiting
  /\ DoneJobs # {}
  /\ bat' = [bat EXCEPT !.pc = "fetch"]
  /\ UNCHANGED <<simVars, blocks>>

\* The completed jobs, in any order, are packed; what fits no block gets an error.
Fetch ==
  /\ bat.pc = "fetch"
  /\ \E order \in SetToSeqs(DoneJobs) :
       bat' = [pc |-> "hand", jobs |-> DoneJobs,
               batches |-> Pack([i \in 1..Len(order) |-> sims[order[i]].op])]
  /\ failed' = failed \cup {o \in {sims[j].op : j \in DoneJobs} : TooBig(o)}
  /\ UNCHANGED <<world, intake, sims, strays, budget, blocks>>

AsBlocks(bs) == [i \in 1..Len(bs) |->
                   [ops |-> bs[i].ops, gas |-> bs[i].gas, waiting |-> TRUE]]

\* Variant: the simulator jobs go before the blocks are in.
HandRemovedFirst ==
  /\ bat.pc = "hand"
  /\ sims' = [j \in Slots |-> IF j \in bat.jobs THEN FreeJob ELSE sims[j]]
  /\ \/ blocks' = blocks \o AsBlocks(bat.batches) /\ NoFault
     \/ Spend("disruption") /\ UNCHANGED blocks
  /\ bat' = IdleBatcher
  /\ UNCHANGED <<world, intake, failed, strays>>

\* executorService.addJobs; a failing call leaves all for the next round.
Hand ==
  /\ bat.pc = "hand"
  /\ Len(blocks) + Len(bat.batches) <= MaxBlocks
  /\ \/ /\ blocks' = blocks \o AsBlocks(bat.batches)
        /\ bat' = [bat EXCEPT !.pc = "remove"]
        /\ NoFault
     \/ /\ Spend("disruption")
        /\ bat' = IdleBatcher
        /\ UNCHANGED blocks
  /\ UNCHANGED <<world, intake, failed, sims, strays>>

\* The simulator jobs are removed one by one; those whose call fails stay completed.
RemoveJobs ==
  /\ bat.pc = "remove"
  /\ \E R \in SUBSET bat.jobs :
       /\ IF R = bat.jobs THEN NoFault ELSE Spend("disruption")
       /\ sims' = [j \in Slots |-> IF j \in R THEN FreeJob ELSE sims[j]]
  /\ bat' = IdleBatcher
  /\ UNCHANGED <<world, intake, failed, strays, blocks>>

\* An EOA worker of the executor takes a block (Executor.tla).
TakeBlock ==
  /\ \E i \in 1..Len(blocks) :
       /\ blocks[i].waiting
       /\ blocks' = [blocks EXCEPT ![i].waiting = FALSE]
  /\ UNCHANGED <<simVars, bat>>

\* The node dies: requests under way, the batcher's round and the simulator thread.
NodeCrash ==
  /\ Spend("disruption")
  /\ req' = [r \in Requests |-> IF req[r] \in {"checked", "stored"} THEN "dead" ELSE req[r]]
  /\ sims' = Changed(LostJobs)
  /\ strays' = [o \in quote.ops |-> "none"]
  /\ bat' = IdleBatcher
  /\ UNCHANGED <<world, stored, scheduled, failed, blocks>>

-----------------------------------------------------------------------------
BatcherStep == Count \/ Fetch \/ Hand \/ RemoveJobs

Next ==
  \/ SimStep /\ UNCHANGED <<bat, blocks>>
  \/ BatcherStep \/ TakeBlock \/ NodeCrash

Spec == Init /\ [][Next]_vars

Beside(A) == A /\ UNCHANGED <<bat, blocks>>

\* Calls answer, jobs and timers run, time passes, workers take blocks.
FairSpec ==
  /\ Spec
  /\ \A r \in Requests : WF_vars(Beside(RequestStep(r)))
  /\ \A j \in Slots : WF_vars(Beside(JobStep(j)))
  /\ WF_vars(\E o \in quote.ops : Beside(Advance(o)))
  /\ WF_vars(BatcherStep) /\ WF_vars(TakeBlock)

-----------------------------------------------------------------------------
TypeOK ==
  /\ quote \in Quotes
  /\ phase \in [quote.ops -> Phases] /\ deployed \in BOOLEAN /\ ready \subseteq quote.ops
  /\ req \in [Requests -> {"idle", "checked", "stored", "done", "refused", "dead"}]
  /\ stored \in BOOLEAN /\ scheduled \subseteq Requests
  /\ failed \subseteq quote.ops
  /\ sims \in [Slots -> Job]
  /\ \A j \in Slots : sims[j].asked # {} => sims[j].st = "active" /\ sims[j].pc = "check"
  /\ strays \in [quote.ops -> {"none", "valid", "defer"}]
  /\ budget \in Faults
  /\ bat \in [pc: {"idle", "fetch", "hand", "remove"}, jobs: SUBSET Slots, batches: Seq(Batch)]
  /\ blocks \in Seq(Block)

InBlock(o, b)  == \E i \in 1..Len(b.ops) : b.ops[i] = o
HandedOver(o)  == \E i \in 1..Len(blocks) : InBlock(o, blocks[i])
InSimulator(o) == \E j \in Slots : sims[j].op = o /\ sims[j].st # "free"
Accepted       == IF scheduled = {} THEN {} ELSE quote.ops

\* Once the jobs of an accepted quote are in the queue, each userOp is in the simulator
\* queue, in a block or marked failed, at every step of re-queueing, batching, removing,
\* retrying and dying in between.
NothingLost == \A o \in Accepted : InSimulator(o) \/ HandedOver(o) \/ o \in failed

\* The gas a sequence of userOps counts for.
GasFor(ops) ==
  LET sum[n \in 0..Len(ops)] == IF n = 0 THEN 0 ELSE sum[n - 1] + Gas[ops[n]]
  IN  sum[Len(ops)]

\* A block stays within the chain's batch gas limit and is never empty: the executor
\* sends every block it is given as one transaction.
BlocksFit ==
  \A i \in 1..Len(blocks) : blocks[i].ops # <<>> /\ GasFor(blocks[i].ops) <= GasCap

\* A job completes only for a userOp that can be executed at that moment or could be
\* when its trace was taken and is still in its window, or one that is forced near the
\* end of it. Answers may be old: the first attempt waits for the slowest of three calls.
Completes(j) == sims[j].st = "active" /\ sims'[j].st = "done"
CompletesInWindow ==
  [][\A j \in Slots : Completes(j) =>
       LET o == sims[j].op IN
       \/ phase[o] \in {"open", "closing"} /\ deployed /\ o \notin quote.badSig
       \/ o \in Forced /\ phase[o] \in {"closing", "over"}]_vars

-----------------------------------------------------------------------------
\* How often a userOp is in the blocks handed over: a block has one place at most for each
\* job slot, as a round packs each completed job once.
Places(bs, o) == {x \in (1..Len(bs)) \X Slots :
                    x[2] <= Len(bs[x[1]].ops) /\ bs[x[1]].ops[x[2]] = o}
Times(o)      == Cardinality(Places(blocks, o))

Promise == INSTANCE Handover
             WITH accepted <- Accepted, handed <- [o \in Ops |-> Times(o)], rejected <- failed,
                  troubled <- budget.disruption < quote.faults.disruption

\* The pipeline keeps the promise of Handover: at least one block or an error for each
\* userOp in the end, and exactly one of them and once as long as no crash and no lost
\* Redis call comes in between. One request, as two for one quote may both be accepted.
KeepsPromise == Promise!Spec
=============================================================================
