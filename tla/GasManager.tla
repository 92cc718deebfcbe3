----------------------------- MODULE GasManager -----------------------------
(***************************************************************************)
(* The gas manager: the master fetches what every chain says about gas, at *)
(* intervals, and sends it to the other processes, which keep a copy.  The *)
(* threads that execute fetch for themselves when a transaction has to be  *)
(* replaced.                                                               *)
(*                                                                         *)
(* A fetch asks for the price, the fee history and the tip at once. The    *)
(* history of prices moves when the price is answered; the other answers   *)
(* change nothing before all three are in.                                 *)
(***************************************************************************)
EXTENDS GasConditions

CONSTANTS
  Chains,
  First,        \* the first configured chain
  Mode,         \* gasPriceMode of each chain
  Eip1559,      \* chains with fee history
  LeastFee,     \* chain -> minMaxFeePerGas, or 0
  L1Of,         \* chain -> the layer below, or Null
  Quotes,       \* chain -> prices its RPC answers
  Histories,    \* chain -> fee histories
  Tips,         \* chain -> eth_maxPriorityFeePerGas
  Api,          \* the process that makes quotes for all chains; the others are the
                \* executor threads, one of each chain in Threads
  Threads,
  MaxHistory,   \* maxHistorySize
  Attempts,     \* attempts of an executor job, EXECUTOR_QUEUE_JOB_ATTEMPTS
  Budgets       \* bounds: how often timers tick, requests fail, transactions are retried
                \* and processes restart, [fetches, faults, retries, restarts]

ASSUME GasConstantsOK ==
  /\ First \in Chains /\ Threads \subseteq Chains /\ Eip1559 \subseteq Chains
  /\ Api \notin Chains \cup {"master"} /\ "master" \notin Chains
  /\ Mode \in [Chains -> {"standard", "fast", "rapid"}]
  /\ LeastFee \in [Chains -> Nat] /\ L1Of \in [Chains -> Chains \cup {Null}]
  /\ Quotes \in [Chains -> SUBSET Nat] /\ Tips \in [Chains -> SUBSET Nat]
  /\ Histories \in [Chains -> SUBSET [base : Nat, rewards : Seq([{50, 75, 95} -> Nat]), used : Seq(Nat)]]
  /\ Gwei \in Nat /\ Null \notin Nat /\ Null \notin Chains
  /\ MaxHistory \in Nat \ {0} /\ Attempts \in Nat \ {0}
  /\ \A b \in Budgets : b \in [fetches : Nat, faults : Nat, retries : Nat, restarts : Nat]

Master == "master"
Copies == Threads \cup {Api}
Processes == {Master} \cup Copies

\* The chains a process keeps, and the one its chainSettings accessor gives.
Serves(p) == IF p \in Threads THEN {p} ELSE Chains
Own(p)    == IF p \in Threads THEN p ELSE First

VARIABLES
  fetching,   \* gasInfoFetchingInProgress
  history,    \* legacyGasPriceHistory of each process
  infos,      \* gasInfosByChain of each process
  calls,      \* fetches under way
  wire,       \* sync messages on their way, per copy and chain
  tried,      \* what the first executions of a thread were to pay
  sent,       \* what the last retry of a thread was to pay
  astray,     \* <<copy, chain>> that restarted or fetched since they heard from the master
  budget      \* what is left of the bounds

vars == <<fetching, history, infos, calls, wire, tried, sent, astray, budget>>

Nothing == [gasPrice |-> Null, feeHistory |-> Null, maxPriorityFee |-> Null]
Fields  == DOMAIN Nothing

-----------------------------------------------------------------------------
(* setGasInfo, syncGasInfo *)

MergedBlind(old, new) == new   \* variant: a failed request overwrites what is known

\* A field without an answer keeps what is known.
Merged(old, new) == [x \in Fields |-> IF new[x] # Null THEN new[x] ELSE old[x]]

Stored(p, c, new) == [infos EXCEPT ![p][c] = Merged(@, new)]

AnnouncedFresh(old, new) == new   \* variant: what was answered is sent, not what is known

\* The sync message tells all the master knows.
Announced(old, new) == Merged(old, new)

ToAllChains(c, i) ==   \* variant: the chain is not looked at
  [p \in Copies |-> [d \in Serves(p) |-> Append(wire[p][d], i)]]

\* To the API, and to the thread of the chain.
ToAll(c, i) ==
  [p \in Copies |-> [d \in Serves(p) |-> IF d = c THEN Append(wire[p][d], i) ELSE wire[p][d]]]

-----------------------------------------------------------------------------
(* getCurrentGasConditions *)

Unknown == [base |-> Null, tip |-> Null, max |-> Null]

\* Without a tip it counts as zero; without the rest the conditions fail.
Conditions(c, i, tip) ==
  IF c \in Eip1559
  THEN IF i.feeHistory = Null THEN Unknown
       ELSE Market(i.feeHistory, IF tip = Null THEN 0 ELSE tip, Mode[c])
  ELSE IF i.gasPrice = Null THEN Unknown ELSE Legacy(i.gasPrice, LeastFee[c])

Current(p, c) == Conditions(c, infos[p][c], infos[p][c].maxPriorityFee)

\* A quote also asks for the layer below, and fails without it.
ForQuote(c) ==
  IF c \in Eip1559 /\ L1Of[c] # Null /\ Current(Api, L1Of[c]) = Unknown
  THEN Unknown ELSE Current(Api, c)

Bumped(x, percent) ==
  IF x = Unknown THEN x
  ELSE [base |-> x.base, tip |-> Raised(x.tip, percent), max |-> Raised(x.max, percent)]

\* 20% for each attempt, from the second on.
Percents  == {20 * Larger(1, n) : n \in 0..(Attempts - 1)}
MostRaise == 20 * Larger(1, Attempts - 1) + 50

KeptTogether(x, old) ==   \* variant: without a tip both fees are those of before
  IF x = Unknown \/ x.tip # 0 THEN x
  ELSE [base |-> x.base, tip |-> old.tip, max |-> old.max]

\* A fee of zero counts as none: the first execution's is paid again.
Kept(x, old) ==
  IF x = Unknown THEN x
  ELSE [base |-> x.base, tip |-> IF x.tip = 0 THEN old.tip ELSE x.tip,
        max |-> IF x.max = 0 THEN old.max ELSE x.max]

-----------------------------------------------------------------------------
(* fetchGasInfo *)

\* kept is the tip a retry reads while the fetch runs, retry what it adds in percent, old
\* what was to be paid before.
Begun(p, c, retry, old) ==
  [at |-> p, chain |-> c, nr |-> IF p = Master THEN budget.fetches ELSE budget.retries,
   first |-> FALSE, done |-> FALSE, price |-> Null,
   retry |-> retry, old |-> old, kept |-> infos[p][c].maxPriorityFee]

\* initialize fetches every chain once; the timer of a chain starts when that is through.
Init ==
  /\ budget \in Budgets
  /\ fetching = [p \in Processes |-> [c \in Serves(p) |-> p = Master]]
  /\ history = [p \in Processes |-> <<>>]
  /\ infos = [p \in Processes |-> [c \in Serves(p) |-> Nothing]]
  /\ calls = {[Begun(Master, c, 0, Unknown) EXCEPT !.first = TRUE] : c \in Chains}
  /\ wire = [p \in Copies |-> [c \in Serves(p) |-> <<>>]]
  /\ tried = [p \in Threads |-> {}]
  /\ sent = [p \in Threads |-> Unknown]
  /\ astray = {}

\* The timer ticks. While another fetch runs this one returns at once, and the finally
\* block clears the flag of the one that runs.
Fetch(c) ==
  /\ \A f \in calls : f.at = Master /\ f.chain = c => ~f.first
  /\ budget.fetches > 0 /\ budget' = [budget EXCEPT !.fetches = @ - 1]
  /\ fetching' = [fetching EXCEPT ![Master][c] = ~@]
  /\ calls' = IF fetching[Master][c] THEN calls
              ELSE calls \cup {Begun(Master, c, 0, Unknown)}
  /\ UNCHANGED <<history, infos, wire, tried, sent, astray>>

Pushed(h, q) == IF Len(h) < MaxHistory THEN Append(h, q) ELSE Append(Tail(h), q)

Failing(n) == budget.faults >= n /\ budget' = [budget EXCEPT !.faults = @ - n]

\* The RPC answers the price, or the request fails. In the master the mode is that of the
\* first configured chain, and one history serves all chains.
Quoted(f) ==
  /\ ~f.done
  /\ \/ \E q \in Quotes[f.chain] :
          LET h == Pushed(history[f.at], q) IN
          /\ history' = [history EXCEPT ![f.at] = h]
          /\ calls' = (calls \ {f}) \cup {[f EXCEPT !.done = TRUE, !.price = Priced(h, q, Mode[Own(f.at)])]}
          /\ UNCHANGED budget
     \/ calls' = (calls \ {f}) \cup {[f EXCEPT !.done = TRUE]} /\ Failing(1) /\ UNCHANGED history
  /\ UNCHANGED <<fetching, infos, wire, tried, sent, astray>>

Answered(f) ==
  [gasPrice       : {f.price},
   feeHistory     : {HistoryFor(x, Mode[Own(f.at)]) : x \in Histories[f.chain]} \cup {Null},
   maxPriorityFee : Tips[f.chain] \cup {Null}]

\* All answers are in. A retry goes on with the new history, but the tip of before.
Finish(f) ==
  /\ f.done
  /\ \E new \in Answered(f) :
       /\ Failing(Cardinality({x \in Fields \ {"gasPrice"} : new[x] = Null}))
       /\ infos' = Stored(f.at, f.chain, new)
       /\ wire' = IF f.at = Master
                  THEN ToAll(f.chain, Announced(infos[Master][f.chain], new)) ELSE wire
       /\ sent' = IF f.retry = 0 THEN sent
                  ELSE [sent EXCEPT ![f.at] =
                          Kept(Bumped(Conditions(f.chain, infos'[f.at][f.chain], f.kept), f.retry), f.old)]
  /\ fetching' = [fetching EXCEPT ![f.at][f.chain] = FALSE]
  /\ calls' = calls \ {f}
  /\ astray' = IF f.at = Master THEN astray ELSE astray \cup {<<f.at, f.chain>>}
  /\ UNCHANGED <<history, tried>>

\* gasInfoSync
Sync(p, c) ==
  /\ wire[p][c] # <<>>
  /\ infos' = Stored(p, c, Head(wire[p][c]))
  /\ wire' = [wire EXCEPT ![p][c] = Tail(@)]
  /\ astray' = astray \ {<<p, c>>}
  /\ UNCHANGED <<fetching, history, calls, tried, sent, budget>>

-----------------------------------------------------------------------------
(* ExecutorProcessor.processJob, adjustNonceAndGasByError *)

\* A job is executed at the fees of now. Only first executions that a retry may follow are
\* kept.
Execute(p) ==
  /\ budget.retries > 0
  /\ Current(p, p) # Unknown
  /\ tried' = [tried EXCEPT ![p] = @ \cup {Current(p, p)}]
  /\ UNCHANGED <<fetching, history, infos, calls, wire, sent, astray, budget>>

Retrying(p, percent, old) ==
  /\ budget.retries > 0 /\ budget' = [budget EXCEPT !.retries = @ - 1]
  /\ percent \in Percents /\ old \in tried[p]

\* A transaction that is too cheap, or late: what is known is taken once more, although the
\* comment beside it wants the answers of now for every gas error.
RetryKnown(p, percent, old) ==
  /\ Retrying(p, percent, old)
  /\ sent' = [sent EXCEPT ![p] = Kept(Bumped(Current(p, p), percent), old)]
  /\ UNCHANGED <<fetching, history, infos, calls, wire, tried, astray>>

\* One that has to be replaced: fetched anew, unless a fetch runs. With fee history two
\* calls force the fetch: the second returns at once, clears the flag of the first and
\* reads the tip there is.
RetryFetched(p, percent, old) ==
  /\ Retrying(p, percent, old)
  /\ IF fetching[p][p]
     THEN /\ sent' = [sent EXCEPT ![p] = Kept(Bumped(Current(p, p), percent + 50), old)]
          /\ fetching' = [fetching EXCEPT ![p][p] = FALSE]
          /\ UNCHANGED calls
     ELSE /\ calls' = calls \cup {Begun(p, p, percent + 50, old)}
          /\ fetching' = [fetching EXCEPT ![p][p] = p \notin Eip1559]
          /\ UNCHANGED sent
  /\ UNCHANGED <<history, infos, wire, tried, astray>>

\* The thread or the process dies with what it knows, and hears again at the next fetch.
Restart(p) ==
  /\ budget.restarts > 0 /\ budget' = [budget EXCEPT !.restarts = @ - 1]
  /\ infos' = [infos EXCEPT ![p] = [c \in Serves(p) |-> Nothing]]
  /\ history' = [history EXCEPT ![p] = <<>>]
  /\ fetching' = [fetching EXCEPT ![p] = [c \in Serves(p) |-> FALSE]]
  /\ wire' = [wire EXCEPT ![p] = [c \in Serves(p) |-> <<>>]]
  /\ calls' = {f \in calls : f.at # p}
  /\ tried' = IF p \in Threads THEN [tried EXCEPT ![p] = {}] ELSE tried
  /\ sent' = IF p \in Threads THEN [sent EXCEPT ![p] = Unknown] ELSE sent
  /\ astray' = astray \cup {<<p, c>> : c \in Serves(p)}

Next ==
  \/ \E c \in Chains : Fetch(c)
  \/ \E f \in calls : Quoted(f) \/ Finish(f)
  \/ \E p \in Copies : Restart(p) \/ \E c \in Serves(p) : Sync(p, c)
  \/ \E p \in Threads :
       \/ Execute(p)
       \/ \E n \in Percents, old \in tried[p] : RetryKnown(p, n, old) \/ RetryFetched(p, n, old)

Spec == Init /\ [][Next]_vars

-----------------------------------------------------------------------------
TypeOK ==
  /\ \A p \in Processes : Len(history[p]) <= MaxHistory /\ fetching[p] \in [Serves(p) -> BOOLEAN]
  /\ \A p \in Processes : \A c \in Serves(p) :
       /\ infos[p][c].gasPrice \in Nat \cup {Null} /\ infos[p][c].maxPriorityFee \in Tips[c] \cup {Null}
  /\ astray \subseteq UNION {{p} \X Serves(p) : p \in Copies}
  \* two fetches that run at once are told apart
  /\ \A f, g \in calls : f.nr = g.nr /\ f.chain = g.chain /\ f.at = g.at => f = g

\* What a chain of the history of a process was quoted, and what its blocks paid.
Prices(p) == UNION {Quotes[c] : c \in Serves(p)}
Paid(c)   == UNION {{x.rewards[k][Percentile(m)] : k \in DOMAIN x.rewards, m \in {Mode[c], Mode[First]}} : x \in Histories[c]}

\* Between two of the tips that can be paid or answered; percent is the greatest raise of a
\* retry, which may keep one of the tips of before on top of what pays the base fee alone.
MarketInRange(c, x, percent, before) ==
  LET paid == (Paid(c) \ {0}) \cup {IF Mode[c] = "standard" THEN 0 ELSE Gwei} IN
  /\ \E h \in Histories[c] : x.base = h.base
  /\ x.max >= x.base + x.tip \/ (x.max >= x.base /\ x.tip \in before)
  /\ \E t \in paid : t <= x.tip
  /\ \E t \in paid \cup Tips[c] : x.tip <= Raised(Raised(t, 50), percent)

LegacyInRange(ps, c, x, percent) ==
  /\ x.tip = x.max /\ LeastFee[c] <= x.max
  /\ \E q \in ps : q <= x.max
  /\ \E q \in ps, m \in {Mode[First], Mode[c]} :
       x.max <= Raised(Larger(LeastFee[c], Raised(q, Buffer(m))), percent)

InRange(ps, c, x, percent, before) ==
  x = Unknown \/ IF c \in Eip1559 THEN MarketInRange(c, x, percent, before)
                 ELSE LegacyInRange(ps, c, x, percent)

\* However spikes, broken answers, failures, crowded blocks and overlapping fetches mix, the
\* fees of a quote or a transaction stay between the least and the greatest that was
\* answered, but for the raises of the mode and of a retry, and pay the base fee and the
\* tip, or the base fee where a retry keeps the tip of the first execution
\* (gas-manager.service.ts:184, gas-estimator-v2.service.ts:42, executor.processor.ts:475).
FeesInRange ==
  /\ \A p \in Copies : \A c \in Serves(p) : InRange(Prices(Master), c, Current(p, c), 0, {})
  /\ \A c \in Chains : InRange(Prices(Master), c, ForQuote(c), 0, {})
  /\ \A p \in Threads : InRange(Prices(Master), p, sent[p], MostRaise, {x.tip : x \in tried[p]})

\* A copy never falls behind for good: the last message of a chain says all the master
\* knows, and a copy that has heard it knows the same, whatever requests failed; after a
\* restart, or a fetch of its own, from the next message on (setGasInfo).
CopyKnows ==
  \A p \in Copies : \A c \in Serves(p) : LET told == wire[p][c] IN
    IF told # <<>> THEN told[Len(told)] = infos[Master][c]
    ELSE <<p, c>> \in astray \/ \A x \in Fields : infos[p][c][x] = infos[Master][c][x]
                                 \/ (infos[Master][c][x] = Null /\ p \in Threads)

\* What is known of a chain stays known, whatever fails and in whatever order answers come
\* in: a process forgets only when it restarts (setGasInfo).
KnownStays ==
  [][\A p \in Processes : \A c \in Serves(p) : \A x \in Fields :
       infos[p][c][x] # Null => infos'[p][c][x] # Null \/ (p # Master /\ Restart(p))]_vars
=============================================================================
