----------------------------- MODULE Simulator -----------------------------
(***************************************************************************)
(* The way of one supertransaction's userOps of a chain into and through   *)
(* the simulator queue: requests that execute its quote, the BullMQ jobs   *)
(* SimulatorProcessor works on, and its re-queueing of userOps that cannot *)
(* be executed yet.                                                        *)
(*                                                                         *)
(* The first attempt of a fresh job runs three calls at once; they answer  *)
(* in any order and the first error ends the attempt, not the other calls. *)
(* Pipeline.tla adds the batcher that empties the queue.                   *)
(***************************************************************************)
EXTENDS Integers, FiniteSetsExt, Functions

CONSTANTS
  Ops,          \* userOps
  Requests,     \* requests that execute the quote
  Quotes,       \* supertransactions the node may be given, with what happens around them:
                \*   ops        its userOps on this chain,
                \*   cleanUps   those that are clean-ups: the others of the chain are forced,
                \*   badSig     those whose account rejects the signature,
                \*   early      those whose window has not begun at first,
                \*   unready    those whose on-chain conditions are not met at first,
                \*   undeployed the account does not exist at first,
                \*   faults     bounds on RPC requests that fail, on disruptions (failing
                \*              Redis calls, crashes) and on changes of on-chain conditions
  MaxSims,      \* job slots: bound on simulator jobs alive at once
  Concurrency,  \* simulator.workerConcurrency of the one simulator thread
  MaxAttempts,  \* SIMULATOR_QUEUE_JOB_ATTEMPTS
  MaxStalled    \* BullMQ's maxStalledCount

Faults == [rpc: Nat, disruption: Nat, change: Nat]

ASSUME SimulatorConstantsOK ==
  /\ IsFiniteSet(Ops) /\ Ops # {}
  /\ \A q \in Quotes :
       /\ q.ops \subseteq Ops /\ q.ops # {} /\ q.undeployed \in BOOLEAN
       /\ UNION {q.cleanUps, q.badSig, q.early, q.unready} \subseteq q.ops
       /\ q.faults \in Faults
  /\ MaxAttempts \in Nat \ {0}
  /\ {MaxSims, Concurrency, MaxStalled} \subseteq Nat

VARIABLES
  quote,     \* the supertransaction, never changed
  phase,     \* userOp -> where the time stands in its execution window
  deployed,  \* its account exists and validates within its gas (no AA20, AA23)
  ready,     \* userOps whose on-chain conditions are met
  req,       \* request -> step of executeQuote
  stored,    \* the quote is in storage
  scheduled, \* requests whose userOps reached the queue
  failed,    \* userOps with an error in storage
  sims,      \* slot -> simulator job
  strays,    \* userOp -> validation that outlives the attempt it belonged to
  budget     \* environment faults left

world   == <<quote, phase, deployed, ready>>
intake  == <<req, stored, scheduled>>
simVars == <<world, intake, failed, sims, strays, budget>>

-----------------------------------------------------------------------------
Phases == {"early", "open", "closing", "over"}
Calls  == {"quote", "valid", "defer", "sim"}
Slots  == 1..MaxSims

Job == [op: Ops, st: {"free", "ready", "active", "done"}, retry: BOOLEAN,
        attempts: 0..(MaxAttempts - 1), stalls: 0..MaxStalled,
        pc: {"check", "trace", "requeue", "drop", "lost"},
        asked: SUBSET Calls, sim: {"unknown", "ok", "bad"}]

NewJob(o, retry) == [op |-> o, st |-> "ready", retry |-> retry, attempts |-> 0,
                     stalls |-> 0, pc |-> "check", asked |-> {}, sim |-> "unknown"]
FreeJob == [NewJob(CHOOSE o \in Ops : TRUE, FALSE) EXCEPT !.st = "free"]

\* forceExecute && !isCleanUpUserOp
Forced == IF quote.cleanUps = {} THEN {} ELSE quote.ops \ quote.cleanUps

SimInit ==
  /\ quote \in Quotes
  /\ phase = [o \in quote.ops |-> IF o \in quote.early THEN "early" ELSE "open"]
  /\ deployed = ~quote.undeployed
  /\ ready = quote.ops \ quote.unready
  /\ req = [r \in Requests |-> "idle"]
  /\ stored = FALSE
  /\ scheduled = {}
  /\ failed = {}
  /\ sims = [j \in Slots |-> FreeJob]
  /\ strays = [o \in quote.ops |-> "none"]
  /\ budget = quote.faults

Spend(kind) == /\ budget[kind] > 0
               /\ budget' = [budget EXCEPT ![kind] = @ - 1]
NoFault     == UNCHANGED budget

\* The queue after f, a table of the changed slots, was applied.
Changed(f)   == [j \in Slots |-> IF j \in DOMAIN f THEN f[j] ELSE sims[j]]
Set1(j, job) == sims' = [sims EXCEPT ![j] = job]
Free         == {j \in Slots : sims[j].st = "free"}

\* simulatorService.addJobs: one job per userOp of B in the lowest free slots.
Added(B, retry) ==
  LET S == {j \in Free : Cardinality({i \in Free : i <= j}) <= Cardinality(B)}
      f == CHOOSE g \in Bijection(S, B) : TRUE
  IN  [j \in S |-> NewJob(f[j], retry)]
Room(B) == Cardinality(Free) >= Cardinality(B)

-----------------------------------------------------------------------------
(* QuotesService.executeQuote *)

\* hasQuote; the checks of the supertransaction follow.
Check(r) ==
  /\ req[r] = "idle"
  /\ req' = [req EXCEPT ![r] = IF stored THEN "refused" ELSE "checked"]
  /\ UNCHANGED <<world, stored, scheduled, failed, sims, strays, budget>>

\* createQuote, one transaction of Redis that overwrites what is there.
Store(r) ==
  /\ req[r] = "checked"
  /\ req' = [req EXCEPT ![r] = "stored"]
  /\ stored' = TRUE
  /\ UNCHANGED <<world, scheduled, failed, sims, strays, budget>>

\* The jobs are added in the background; a failure is logged, the request succeeds.
Schedule(r) ==
  /\ req[r] = "stored"
  /\ req' = [req EXCEPT ![r] = "done"]
  /\ \/ /\ Room(quote.ops)
        /\ sims' = Changed(Added(quote.ops, FALSE))
        /\ scheduled' = scheduled \cup {r}
        /\ NoFault
     \/ /\ Spend("disruption")
        /\ UNCHANGED <<sims, scheduled>>
  /\ UNCHANGED <<world, stored, failed, strays>>

-----------------------------------------------------------------------------
(* SimulatorProcessor *)

\* What the account says, and what a trace of handleOps says, at this moment.
Verdict(o) ==
  IF ~deployed THEN "defer"
  ELSE IF o \in quote.badSig THEN "error"
  ELSE IF phase[o] = "early" THEN "defer"
  ELSE IF phase[o] = "over" THEN "error"
  ELSE "pass"
Executable(o) ==
  deployed /\ o \notin quote.badSig /\ phase[o] \in {"open", "closing"} /\ o \in ready

\* BullMQ after an error that may be retried: the last attempt is removed (removeOnFail).
FailAttempt(j) ==
  Set1(j, IF sims[j].attempts + 1 < MaxAttempts
            THEN [NewJob(sims[j].op, sims[j].retry) EXCEPT
                    !.attempts = sims[j].attempts + 1, !.stalls = sims[j].stalls]
            ELSE FreeJob)

GotoKeepsCalls(j, p) == Set1(j, [sims[j] EXCEPT !.pc = p])   \* variant: calls stay open

Goto(j, p) == Set1(j, [sims[j] EXCEPT !.pc = p, !.asked = {}])

At(j, p) == sims[j].st = "active" /\ sims[j].pc = p

Take(j) ==
  /\ sims[j].st = "ready"
  /\ Cardinality({i \in Slots : sims[i].st = "active" /\ sims[i].pc # "lost"}) < Concurrency
  /\ Set1(j, [sims[j] EXCEPT !.st = "active",
                !.asked = IF sims[j].attempts = 0 /\ ~sims[j].retry
                            THEN {"quote", "valid", "sim"} ELSE {}])
  /\ UNCHANGED <<world, intake, failed, strays, budget>>

\* Variants of the steps below with a bug.
AnswerValidationGoesOn(j) ==    \* an error is stored but the attempt goes on
  LET o == sims[j].op IN
  /\ At(j, "check") /\ "valid" \in sims[j].asked
  /\ \E v \in {Verdict(o), "error"} :
       /\ IF v = Verdict(o) THEN NoFault ELSE Spend("rpc")
       /\ failed' = IF v = "error" THEN failed \cup {o} ELSE failed
       /\ Set1(j, [sims[j] EXCEPT !.asked = IF v = "defer" THEN (@ \ {"valid"}) \cup {"defer"}
                                                          ELSE @ \ {"valid"}])
  /\ UNCHANGED <<world, intake, strays>>
DecideLate(j) ==                \* the deadline is not looked at
  LET s == sims[j].sim IN
  /\ At(j, "check") /\ sims[j].asked = {}
  /\ IF s = "unknown" THEN Goto(j, "trace")
     ELSE IF s = "ok" THEN Set1(j, [sims[j] EXCEPT !.st = "done"]) ELSE Goto(j, "requeue")
  /\ UNCHANGED <<world, intake, failed, strays, budget>>

\* hasUserOp answers; if Redis fails the attempt does, and a validation that is
\* still under way goes on by itself.
AnswerQuote(j) ==
  LET job == sims[j] IN
  /\ At(j, "check") /\ "quote" \in job.asked
  /\ \/ /\ Set1(j, [job EXCEPT !.asked = @ \ {"quote"}])
        /\ UNCHANGED <<strays, budget>>
     \/ /\ Spend("disruption")
        /\ FailAttempt(j)
        /\ strays' = IF {"valid", "defer"} \cap job.asked = {} THEN strays
                     ELSE [strays EXCEPT ![job.op] =
                             IF "valid" \in job.asked THEN "valid" ELSE "defer"]
  /\ UNCHANGED <<world, intake, failed>>

\* simulateSimulateHandleOp answers. An error, be it of the call itself, is final.
AnswerValidation(j) ==
  LET o == sims[j].op IN
  /\ At(j, "check") /\ "valid" \in sims[j].asked
  /\ \E v \in {Verdict(o), "error"} :
       /\ IF v = Verdict(o) THEN NoFault ELSE Spend("rpc")
       /\ failed' = IF v = "error" THEN failed \cup {o} ELSE failed
       /\ CASE v = "error" -> Goto(j, "drop")
            [] v = "defer" -> Set1(j, [sims[j] EXCEPT !.asked = (@ \ {"valid"}) \cup {"defer"}])
            [] v = "pass"  -> Set1(j, [sims[j] EXCEPT !.asked = @ \ {"valid"}])
  /\ UNCHANGED <<world, intake, strays>>

\* simulateHandleOps answers; a failing call counts as a revert.
TraceResult(o, ok) == \/ ok = Executable(o) /\ NoFault
                      \/ Executable(o) /\ ~ok /\ Spend("rpc")

AnswerSimulation(j) ==
  /\ At(j, "check") /\ "sim" \in sims[j].asked
  /\ \E ok \in BOOLEAN :
       /\ TraceResult(sims[j].op, ok)
       /\ Set1(j, [sims[j] EXCEPT !.asked = @ \ {"sim"}, !.sim = IF ok THEN "ok" ELSE "bad"])
  /\ UNCHANGED <<world, intake, failed, strays>>

\* With all answers there: the deadline, then the result of the trace if there is one.
Decide(j) ==
  LET o == sims[j].op IN
  /\ At(j, "check") /\ sims[j].asked = {}
  /\ failed' = IF o \notin Forced /\ phase[o] = "over" THEN failed \cup {o} ELSE failed
  /\ IF o \in Forced /\ phase[o] \in {"closing", "over"}
       THEN Set1(j, [sims[j] EXCEPT !.st = "done"])
     ELSE IF phase[o] = "over" THEN Goto(j, "drop")
     ELSE IF sims[j].sim = "unknown" THEN Goto(j, "trace")
     ELSE IF sims[j].sim = "ok" THEN Set1(j, [sims[j] EXCEPT !.st = "done"])
     ELSE Goto(j, "requeue")
  /\ UNCHANGED <<world, intake, strays, budget>>

\* The trace of a retried userOp answers.
Trace(j) ==
  /\ At(j, "trace")
  /\ \E ok \in BOOLEAN :
       /\ TraceResult(sims[j].op, ok)
       /\ IF ok THEN Set1(j, [sims[j] EXCEPT !.st = "done"]) ELSE Goto(j, "requeue")
  /\ UNCHANGED <<world, intake, failed, strays>>

\* A job for a later try is added, then the running one is failed for good.
Requeue(j) ==
  /\ At(j, "requeue") \/ (At(j, "check") /\ "defer" \in sims[j].asked)
  /\ \/ /\ Room({sims[j].op})
        /\ sims' = [Changed(Added({sims[j].op}, TRUE)) EXCEPT ![j].pc = "drop", ![j].asked = {}]
        /\ NoFault
     \/ Spend("disruption") /\ FailAttempt(j)
  /\ UNCHANGED <<world, intake, failed, strays>>

Drop(j) ==
  /\ At(j, "drop")
  /\ Set1(j, FreeJob)
  /\ UNCHANGED <<world, intake, failed, strays, budget>>

\* A stray validation goes through the same motions; nobody hears of its error.
Stray(o) ==
  /\ \/ /\ strays[o] = "valid"
        /\ failed' = IF Verdict(o) = "error" THEN failed \cup {o} ELSE failed
        /\ strays' = [strays EXCEPT ![o] = IF Verdict(o) = "defer" THEN "defer" ELSE "none"]
        /\ UNCHANGED sims
     \/ /\ strays[o] = "defer"
        /\ Room({o})
        /\ sims' = Changed(Added({o}, TRUE))
        /\ strays' = [strays EXCEPT ![o] = "none"]
        /\ UNCHANGED failed
  /\ UNCHANGED <<world, intake, budget>>

-----------------------------------------------------------------------------
(* Environment *)

LostJobs == [j \in {i \in Slots : sims[i].st = "active"} |->
               [sims[j] EXCEPT !.pc = "lost", !.asked = {}, !.sim = "unknown"]]

\* The simulator thread dies with the jobs it works on.
SimCrash ==
  /\ \E j \in Slots : sims[j].st = "active"
  /\ Spend("disruption")
  /\ sims' = Changed(LostJobs)
  /\ strays' = [o \in quote.ops |-> "none"]
  /\ UNCHANGED <<world, intake, failed>>

SimStalled(j) ==
  /\ At(j, "lost")
  /\ Set1(j, IF sims[j].stalls < MaxStalled
               THEN [sims[j] EXCEPT !.st = "ready", !.pc = "check", !.stalls = @ + 1]
               ELSE FreeJob)
  /\ UNCHANGED <<world, intake, failed, strays, budget>>

\* The safe window before the end matters to forced userOps only.
Later(o) == CASE phase[o] = "early" -> "open"
              [] phase[o] = "open" /\ o \in Forced -> "closing"
              [] OTHER -> "over"

Advance(o) ==
  /\ phase[o] # "over"
  /\ phase' = [phase EXCEPT ![o] = Later(o)]
  /\ UNCHANGED <<quote, deployed, ready, intake, failed, sims, strays, budget>>

\* The account is deployed, or the conditions of a userOp change.
ChainChange ==
  /\ Spend("change")
  /\ \/ ~deployed /\ deployed' = TRUE /\ UNCHANGED ready
     \/ \E o \in quote.ops : ready' = (ready \ {o}) \cup ({o} \ ready) /\ UNCHANGED deployed
  /\ UNCHANGED <<quote, phase, intake, failed, sims, strays>>

-----------------------------------------------------------------------------
RequestStep(r) == Check(r) \/ Store(r) \/ Schedule(r)
JobStep(j) ==
  \/ Take(j) \/ AnswerQuote(j) \/ AnswerValidation(j) \/ AnswerSimulation(j)
  \/ Decide(j) \/ Trace(j) \/ Requeue(j) \/ Drop(j) \/ SimStalled(j)

SimStep ==
  \/ \E r \in Requests : RequestStep(r)
  \/ \E j \in Slots : JobStep(j)
  \/ \E o \in quote.ops : Stray(o) \/ Advance(o)
  \/ SimCrash \/ ChainChange
=============================================================================
