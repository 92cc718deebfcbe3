----------------------------- MODULE RpcManager -----------------------------
(***************************************************************************)
(* The RPC providers of one chain: the master checks their health, swaps a *)
(* better fallback with the primary and tells the other processes, which   *)
(* keep copies of order and state and send their requests by them.         *)
(*                                                                         *)
(* Workers are threads (executor, simulator) and cluster workers (API).    *)
(* What the master posts arrives in order; a worker that exits loses its   *)
(* copy and what was on the way, and is started again.                     *)
(***************************************************************************)
EXTENDS Integers, Sequences, FiniteSets, RpcErrors

CONSTANTS
  Providers,
  Listed,             \* provider -> its place in the configuration, from 0
  Workers,            \* processes with a copy
  Cluster,            \* the API workers among them
  None,               \* no copy, no request
  FailureThreshold,   \* failures in a row that degrade a provider
  MinimumRequests,    \* requests before a fallback can be promoted
  PromotionThreshold, \* the least success rate of a promoted one, in percent
  Errors,             \* what requests fail with
  MaxRounds,          \* bound on rounds of health checks
  MaxExits,           \* bound on workers that exit by a fault
  MaxRequests         \* bound on requests of workers

Orders == {f \in [Providers -> Nat] : \A p, q \in Providers : f[p] = f[q] => p = q}

ASSUME RpcConstantsOK ==
  /\ IsFiniteSet(Providers) /\ \A e \in Errors : e.status \in Nat /\ e.says \subseteq Topics
  /\ Listed \in Orders /\ \E p \in Providers : Listed[p] = 0
  /\ Cluster \subseteq Workers
  /\ FailureThreshold \in Nat \ {0}
  /\ {MinimumRequests, PromotionThreshold, MaxRounds, MaxExits, MaxRequests} \subseteq Nat

VARIABLES
  prio, state, metrics,     \* the master's providers
  checking,                 \* providers whose check of this round is on the way
  scheduled,                \* promotion checks queued with setImmediate
  started,                  \* initialize of the workers service is through
  life, again, inbox, conf, \* workers: where they are, restarted, messages, copy
  req,                      \* a request of each worker on the way
  rounds, exits, requests   \* counted against their bounds

master == <<prio, state, metrics, checking, scheduled>>
worker == <<life, again, inbox, conf, req>>
counts == <<rounds, exits, requests>>
rpcVars == <<master, started, worker, counts>>

Fresh   == [total |-> 0, ok |-> 0, failing |-> 0]   \* ProviderMetrics.reset
Healthy == [p \in Providers |-> "active"]

RpcInit ==
  /\ prio = Listed
  /\ state = Healthy
  /\ metrics = [p \in Providers |-> Fresh]
  /\ checking = {}
  /\ scheduled = 0
  /\ started = FALSE
  /\ life = [w \in Workers |-> "down"]
  /\ again = [w \in Workers |-> FALSE]
  /\ inbox = [w \in Workers |-> <<>>]
  /\ conf = [w \in Workers |-> None]
  /\ req = [w \in Workers |-> None]
  /\ rounds = 0 /\ exits = 0 /\ requests = 0

-----------------------------------------------------------------------------
(* Messages of the master *)

\* Messages to a thread wait until it listens; an API worker is sent nothing before.
Reached(l) == {w \in Workers : l[w] = "listening" \/ (l[w] = "online" /\ w \notin Cluster)}

Posted(m, l) == [w \in Workers |-> IF w \in Reached(l) THEN Append(inbox[w], m) ELSE inbox[w]]

SetupListed == [type |-> "setup", prio |-> Listed]   \* variant: the configuration as read
SetupMessage == [type |-> "setup", prio |-> prio]
StateMessage(p, s) == [type |-> "state", provider |-> p, state |-> s]
OrderMessage(o) == [type |-> "order", prio |-> o, state |-> state]

-----------------------------------------------------------------------------
(* Health checks and promotion in the master *)

StartRound ==
  /\ checking = {}
  /\ rounds < MaxRounds
  /\ checking' = Providers
  /\ rounds' = rounds + 1
  /\ UNCHANGED <<prio, state, metrics, scheduled, started, worker, exits, requests>>

Recovers(p) == metrics[p].failing > 0

CheckPasses(p) ==
  /\ p \in checking
  /\ checking' = checking \ {p}
  /\ metrics' = [metrics EXCEPT ![p] =
       [total |-> @.total + 1, ok |-> @.ok + 1, failing |-> 0]]
  /\ scheduled' = scheduled + 1
  /\ IF Recovers(p)
     THEN /\ state' = [state EXCEPT ![p] = "active"]
          /\ inbox' = Posted(StateMessage(p, "active"), life)
     ELSE UNCHANGED <<state, inbox>>
  /\ UNCHANGED <<prio, started, life, again, conf, req, counts>>

CheckFails(p) ==
  /\ p \in checking
  /\ checking' = checking \ {p}
  /\ metrics' = [metrics EXCEPT ![p] =
       [total |-> @.total + 1, ok |-> @.ok, failing |-> @.failing + 1]]
  /\ IF metrics'[p].failing >= FailureThreshold
     THEN /\ state' = [state EXCEPT ![p] = "degraded"]
          /\ inbox' = Posted(StateMessage(p, "degraded"), life)
     ELSE UNCHANGED <<state, inbox>>
  /\ UNCHANGED <<prio, scheduled, started, life, again, conf, req, counts>>

\* Success rates; without a request the rate is 0.
Below(m, n) == IF m.total = 0 THEN n.ok > 0 ELSE n.ok * m.total > m.ok * n.total

Promotable(p) ==
  /\ prio[p] # 0
  /\ metrics[p].ok > 0
  /\ metrics[p].total >= MinimumRequests
  /\ 100 * metrics[p].ok >= PromotionThreshold * metrics[p].total

\* The first of the fallbacks with the best rate.
BestFallback(p) ==
  /\ Promotable(p)
  /\ \A q \in Providers : Promotable(q) =>
       /\ ~Below(metrics[p], metrics[q])
       /\ Below(metrics[q], metrics[p]) \/ prio[p] <= prio[q]

Replaceable(p) ==
  \E primary \in Providers :
    /\ prio[primary] = 0
    /\ \/ Below(metrics[primary], metrics[p])
       \/ metrics[primary].failing >= FailureThreshold

Swapped(p) == [q \in Providers |->
  IF q = p THEN 0 ELSE IF prio[q] = 0 THEN prio[p] ELSE prio[q]]

PromoteUnsynced(p) ==   \* variant: only the new primary is told
  /\ prio' = Swapped(p)
  /\ metrics' = [q \in Providers |-> IF q = p \/ prio[q] = 0 THEN Fresh ELSE metrics[q]]
  /\ inbox' = Posted([type |-> "order", prio |-> [prio EXCEPT ![p] = 0], state |-> state], life)

Promote(p) ==
  /\ prio' = Swapped(p)
  /\ metrics' = [q \in Providers |-> IF q = p \/ prio[q] = 0 THEN Fresh ELSE metrics[q]]
  /\ inbox' = Posted(OrderMessage(Swapped(p)), life)

PromotionCheck ==
  /\ scheduled > 0
  /\ scheduled' = scheduled - 1
  /\ \/ \E p \in Providers : BestFallback(p) /\ Replaceable(p) /\ Promote(p)
     \/ /\ ~ \E p \in Providers : BestFallback(p) /\ Replaceable(p)
        /\ UNCHANGED <<prio, metrics, inbox>>
  /\ UNCHANGED <<state, checking, started, life, again, conf, req, counts>>

-----------------------------------------------------------------------------
(* Workers start, stop and follow *)

OnlineAlone(w) ==   \* variant: a restarted worker is sent nothing
  /\ life[w] = "down"
  /\ life' = [life EXCEPT ![w] = "online"]
  /\ UNCHANGED <<master, started, again, inbox, conf, req, counts>>

\* A worker is online; one that was restarted has the master send every copy again.
Online(w) ==
  /\ life[w] = "down"
  /\ life' = [life EXCEPT ![w] = "online"]
  /\ inbox' = IF again[w] THEN Posted(SetupMessage, life') ELSE inbox
  /\ UNCHANGED <<master, started, again, conf, req, counts>>

Listening(w) ==
  /\ w \in Cluster
  /\ life[w] = "online"
  /\ life' = [life EXCEPT ![w] = "listening"]
  /\ UNCHANGED <<master, started, again, inbox, conf, req, counts>>

\* initialize has waited for the threads, not for the API workers.
Started ==
  /\ ~started
  /\ \A w \in Workers \ Cluster : life[w] # "down" \/ again[w]
  /\ started' = TRUE
  /\ inbox' = Posted(SetupMessage, life)
  /\ UNCHANGED <<master, life, again, conf, req, counts>>

Gone(w) ==
  /\ life' = [life EXCEPT ![w] = "down"]
  /\ again' = [again EXCEPT ![w] = TRUE]
  /\ inbox' = [inbox EXCEPT ![w] = <<>>]
  /\ conf' = [conf EXCEPT ![w] = None]
  /\ req' = [req EXCEPT ![w] = None]

Exit(w) ==
  /\ life[w] # "down"
  /\ exits < MaxExits
  /\ exits' = exits + 1
  /\ Gone(w)
  /\ UNCHANGED <<master, started, rounds, requests>>

\* setup of a copy: every provider starts active; a second setup is ignored.
SetUp(w, m) == IF conf[w] = None THEN [prio |-> m.prio, state |-> Healthy] ELSE conf[w]

\* syncProviders.
Synced(c, m) ==
  IF m.type = "state" THEN [c EXCEPT !.state = [@ EXCEPT ![m.provider] = m.state]]
  ELSE [prio |-> m.prio, state |-> m.state]

\* A request only stays sure of providers that stay active.
StillActive(r, c) ==
  IF r = None THEN None ELSE [r EXCEPT !.steady = {p \in @ : c.state[p] = "active"}]

\* syncProviders without a configuration throws, and the rejection ends the process.
Receive(w) ==
  /\ inbox[w] # <<>>
  /\ LET m == Head(inbox[w]) IN
     IF m.type # "setup" /\ conf[w] = None THEN Gone(w)
     ELSE LET c == IF m.type = "setup" THEN SetUp(w, m) ELSE Synced(conf[w], m) IN
          /\ conf' = [conf EXCEPT ![w] = c]
          /\ req' = [req EXCEPT ![w] = StillActive(@, c)]
          /\ inbox' = [inbox EXCEPT ![w] = Tail(@)]
          /\ UNCHANGED <<life, again>>
  /\ UNCHANGED <<master, started, counts>>

-----------------------------------------------------------------------------
(* executeRequest in a worker *)

\* The provider at place i of an order.
At(o, i) == CHOOSE p \in Providers : Cardinality({q \in Providers : o[q] < o[p]}) = i - 1

StartRequest(w) ==
  /\ conf[w] # None
  /\ req[w] = None
  /\ requests < MaxRequests
  /\ requests' = requests + 1
  /\ req' = [req EXCEPT ![w] = [order |-> conf[w].prio, at |-> 1, tried |-> {}, final |-> FALSE,
                                steady |-> {p \in Providers : conf[w].state[p] = "active"}]]
  /\ UNCHANGED <<master, started, life, again, inbox, conf, rounds, exits>>

Skips(w, p) == conf[w].state[p] = "degraded" /\ req[w].at < Cardinality(Providers)

\* Failures of the provider, with which the next one takes over the request.
Retried == {e \in Errors : classifyError(e) \in {"RETRIABLE", "RATE_LIMIT"}}
ChainSpoke == {OfTheChain(e) : e \in Retried}

Passed(r, skipped, p) ==
  {[r EXCEPT !.at = @ + 1, !.tried = IF skipped THEN @ ELSE @ \cup {p}, !.final = @ \/ (~skipped /\ b)] :
     b \in ChainSpoke}

TryLive(w) ==   \* variant: the request goes by the live order of the providers
  /\ req[w] # None /\ req[w].at <= Cardinality(Providers)
  /\ LET p == At(conf[w].prio, req[w].at) IN
     \E r \in Passed(req[w], Skips(w, p), p) : req' = [req EXCEPT ![w] = r]
  /\ UNCHANGED <<master, started, life, again, inbox, conf, counts>>

\* The next provider is skipped, or tried and fails with an error worth a retry.
Try(w) ==
  /\ req[w] # None /\ req[w].at <= Cardinality(Providers)
  /\ LET p == At(req[w].order, req[w].at) IN
     \E r \in Passed(req[w], Skips(w, p), p) : req' = [req EXCEPT ![w] = r]
  /\ UNCHANGED <<master, started, life, again, inbox, conf, counts>>

\* It is answered, fails for good, or all providers have failed.
EndRequest(w) ==
  /\ req[w] # None
  /\ req[w].at <= Cardinality(Providers) => ~Skips(w, At(req[w].order, req[w].at))
  /\ req' = [req EXCEPT ![w] = None]
  /\ UNCHANGED <<master, started, life, again, inbox, conf, counts>>

-----------------------------------------------------------------------------
MasterStep ==
  \/ StartRound \/ PromotionCheck \/ Started
  \/ \E p \in Providers : CheckPasses(p) \/ CheckFails(p)
WorkerStep(w) ==
  \/ Online(w) \/ Listening(w) \/ Exit(w) \/ Receive(w)
  \/ StartRequest(w) \/ Try(w) \/ EndRequest(w)

RpcNext == MasterStep \/ \E w \in Workers : WorkerStep(w)
RpcSpec == RpcInit /\ [][RpcNext]_rpcVars

\* Workers come up and read their messages; the master starts them all.
RpcFairSpec ==
  /\ RpcSpec
  /\ WF_rpcVars(Started)
  /\ \A w \in Workers :
       WF_rpcVars(Online(w)) /\ WF_rpcVars(Listening(w)) /\ WF_rpcVars(Receive(w))

-----------------------------------------------------------------------------
Message ==
  [type : {"setup"}, prio : Orders]
  \cup [type : {"state"}, provider : Providers, state : {"active", "degraded"}]
  \cup [type : {"order"}, prio : Orders, state : [Providers -> {"active", "degraded"}]]
Copy == [prio : Orders, state : [Providers -> {"active", "degraded"}]]
Request == [order : Orders, at : 1..(Cardinality(Providers) + 1), tried : SUBSET Providers,
            final : BOOLEAN, steady : SUBSET Providers]

\* Every order of providers, the master's, a copy's and one under way, tells them apart
\* (executeRequest and getPrimaryRpcProvider take the first).
RpcTypeOK ==
  /\ prio \in Orders
  /\ state \in [Providers -> {"active", "degraded"}]
  /\ metrics \in [Providers -> [total : Nat, ok : Nat, failing : Nat]]
  /\ checking \subseteq Providers
  /\ scheduled \in Nat
  /\ started \in BOOLEAN
  /\ life \in [Workers -> {"down", "online", "listening"}]
  /\ again \in [Workers -> BOOLEAN]
  /\ inbox \in [Workers -> Seq(Message)]
  /\ conf \in [Workers -> Copy \cup {None}]
  /\ req \in [Workers -> Request \cup {None}]
  /\ {rounds, exits, requests} \subseteq Nat

\* A worker that has read what it was sent has the order of the master, restarts and
\* promotions in between included, and takes no provider for degraded that the master
\* has recovered. (It may take a degraded one for active: setup starts a copy so.)
CopiesFollow ==
  \A w \in Workers : conf[w] # None /\ inbox[w] = <<>> =>
    /\ conf[w].prio = prio
    /\ \A p \in Providers : conf[w].state[p] = "degraded" => state[p] = "degraded"

\* A request that failed with all providers has tried each one that was active for as
\* long as the request ran, whatever was promoted meanwhile, and none after the chain has
\* spoken, even if its message also reads like a limit or a timeout (executeRequest:365,
\* classify-error.ts:47).
FailureIsThorough ==
  \A w \in Workers : req[w] # None =>
    /\ req[w].at > Cardinality(Providers) => req[w].steady \subseteq req[w].tried
    /\ ~req[w].final

\* Threads get their configuration in the end, however often they exit.
ThreadsConfigured == \A w \in Workers \ Cluster : <>[](conf[w] # None)
=============================================================================
