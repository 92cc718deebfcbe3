-------------------------------- MODULE Quote --------------------------------
(***************************************************************************)
(* The life of one quote: requestQuote checks balances, simulates the      *)
(* userOps, estimates their gas, prices them and commits to their hash;    *)
(* executeQuote takes the signed quote, signs each userOp and lets the     *)
(* payment be validated before anything is stored.                         *)
(*                                                                         *)
(* Answers of the chains come in any order and may fail.  What follows     *)
(* the acceptance is the subject of Explorer and Pipeline, but for the     *)
(* transfers that are read out of the mined block.                         *)
(***************************************************************************)
EXTENDS QuoteOps, Fees, Transfers

CONSTANTS
  Requests,     \* requests a client sends
  Traces,       \* (request, index) -> traces the chain may answer in simulation
  PayTraces,    \* request -> traces of the signed payment userOp
  Blocks,       \* request -> mined blocks of its userOps: [logs, traces]
  ChainType,    \* chain -> "optimism", "arbitrum" or "other"
  GasPrices,    \* [base, tip] a chain may answer
  L1Answers,    \* chain -> what it answers about the layer below
  TokenPrices,  \* prices of the payment token; 0 is a price as well
  GluexRates,   \* tokens for one native token
  Configured,   \* <<chain, token>> of the configured payment tokens
  TestChains,
  Retries,      \* retries of the validation (20)
  Null

Chains == DOMAIN ChainType

UserOp ==
  [sender : STRING, chain : Chains, deploys : BOOLEAN, calls : Nat, session : {"no", "use", "enable"},
   spends : BOOLEAN, own : {"absent", "empty", "some"}, actions : Seq(STRING \cup {NoAction})]

\* The versions are those of the chains the client lists; a simulation needs a type, and
\* only the fusion endpoint takes a trigger.
QuoteRequest(listed) ==
  {q \in [type : {"none", "simple", "onchain"} \cup Triggering, permit : BOOLEAN,
          sponsor : {"none", "third", "trusted"}, versions : [listed -> Nat], simulate : BOOLEAN, newSdk : BOOLEAN,
          pay : [chain : Chains, token : STRING \cup {Native}, sender : STRING, deploys : BOOLEAN, refund : STRING],
          trigger : [chain : Chains, token : STRING \cup {Native}, amount : Nat] \cup {NoTrigger},
          ops : Seq(UserOp) \ {<<>>}] :
     (q.simulate => q.type # "none") /\ (~q.permit => q.trigger = NoTrigger)}

Caches == [feed : [price : Nat, expired : BOOLEAN], support : {"unknown", "yes", "no"}]

Reasons ==
  {"mismatch", "token", "trigger", "rpc", "funding", "type", "revert", "l1", "price", "balance",
   "versions", "hash", "transaction", "late", "sponsor", "signature", "window", "payment"}

ASSUME QuoteConstantsOK ==
  /\ GasPrices \subseteq [base : Nat, tip : Nat] /\ TokenPrices \subseteq Nat /\ GluexRates \subseteq Nat
  /\ Retries \in Nat /\ Null \notin Reasons /\ Null \notin BOOLEAN
  /\ \A c \in Chains : \A a \in L1Answers[c] :
       \/ ChainType[c] = "optimism" /\ a.fee \in Nat
       \/ ChainType[c] = "arbitrum" /\ a.gas \in Nat /\ a.price \in Nat
       \/ ChainType[c] = "other"
  /\ \A s \in Requests :
       /\ s.ask \in QuoteRequest(DOMAIN s.ask.versions) /\ s.caches \in Caches
       /\ \A h \in {"eoa", s.ask.ops[1].sender} :
            /\ s.funds[<<h, s.ask.pay.chain, s.ask.pay.token>>] \in Nat
            /\ s.ask.trigger = NoTrigger \/ s.funds[<<h, s.ask.trigger.chain, s.ask.trigger.token>>] \in Nat

\* What the EVM and the EntryPoint leave in traces and logs.
ASSUME ChainsOK ==
  \A s \in Requests :
    /\ \A i \in Indices(s.ask) : \A t \in Traces[<<s.ask, i>>] :
         CallTrace(t) /\ (Ran(t) /\ Deploys(s.ask, i) => Spends(t, "create"))
    /\ \A t \in PayTraces[s.ask] : CallTrace(t)
    /\ \A b \in Blocks[s.ask] : InOrder(b.logs) /\ InTurn(b.trace)

VARIABLES
  request,    \* what the client asks
  funds,      \* <<holder, chain, token>> -> balance; holder is "eoa" or an account
  caches,     \* the payment token's price feed, and which tokens are taken (unless expired)
  phase,      \* where the two handlers are
  reason,     \* why the quote was refused
  balances,   \* tokenBalances, in the order of the promises
  sims,       \* simulationResults
  ops,        \* meePackedUserOpsWithGasInfo
  fee,        \* tokenAmount
  cost,       \* totalCostInDollars
  quote,      \* hash and userOps given to the client
  sponsored,  \* the payment userOp came back with a signature
  signed,     \* signedPackedMeeUserOps
  checks,     \* attempts left of the two validations and their results
  mined,      \* the block of the userOps
  assets      \* userOp -> transfers recorded for it

vars == <<request, funds, caches, phase, reason, balances, sims, ops, fee, cost, quote, sponsored, signed, checks,
          mined, assets>>

asking    == <<request, funds, caches>>
pricing   == <<fee, cost, quote>>
execution == <<sponsored, signed, checks>>
recording == <<mined, assets>>

Refused(why) == phase' = "refused" /\ reason' = why

r == request
N == Len(r.ops) + 1

-----------------------------------------------------------------------------
(* requestQuote: the payment and the balances *)

FeeType(q) == IF <<q.pay.chain, q.pay.token>> \notin Configured THEN "ARBITRARY_TOKEN"
              ELSE IF q.pay.token = Native THEN "NATIVE" ELSE "CONFIGURED_TOKEN"

\* In fusion mode the payment is pulled from the user's EOA, unless a sponsor pays.
Payment(q, amount) ==
  IF FeeType(q) = "NATIVE" THEN [call |-> "value", from |-> q.pay.sender, amount |-> amount]
  ELSE IF q.permit /\ ~Sponsored(q) THEN [call |-> "transferFrom", from |-> "eoa", amount |-> amount]
  ELSE [call |-> "transfer", from |-> q.pay.sender, amount |-> amount]

\* Whose balances are asked for.
Holder(q) == IF q.permit THEN "eoa" ELSE q.ops[1].sender

\* With the same token for both the payment's balance stands for the trigger's.
SameToken(q) == q.trigger # NoTrigger /\ q.pay.token = q.trigger.token

Asked(q) ==
  (IF Trusted(q) THEN <<>> ELSE <<q.pay>>) \o
  (IF q.permit /\ (Trusted(q) \/ ~SameToken(q)) THEN <<q.trigger>> ELSE <<>>)

PaymentBalance == IF Trusted(r) THEN 0 ELSE balances[1]

TriggerBalanceFirst == balances[1]   \* variant: the position is not adjusted

TriggerBalance ==
  IF Trusted(r) THEN balances[1] ELSE IF SameToken(r) THEN PaymentBalance ELSE balances[2]

Init ==
  /\ \E s \in Requests : request = s.ask /\ funds = s.funds /\ caches = s.caches
  /\ phase = "asked" /\ reason = Null
  /\ balances = <<>> /\ sims = <<>> /\ ops = <<>> /\ fee = 0 /\ cost = 0
  /\ quote = Null /\ sponsored = FALSE /\ signed = <<>> /\ checks = Null
  /\ mined = Null /\ assets = <<>>

\* Test and main chains, or accounts on both sides of 2.2.0.
Mismatched(q) ==
  \/ \E i \in Indices(q) : (Requested(q)[i].chain \in TestChains) # (q.pay.chain \in TestChains)
  \/ Mixed(q, 22)

\* isArbitraryPaymentTokensSupported: a provider that does not answer does not support the
\* chain, and that is kept for an hour as well.
Supports(yes) ==
  IF caches.support = "unknown" THEN caches' = [caches EXCEPT !.support = IF yes THEN "yes" ELSE "no"]
  ELSE yes = (caches.support = "yes") /\ UNCHANGED caches

\* Other tokens are taken where a provider supports the chain, but not from a sponsor.
RefuseRequest ==
  /\ phase = "asked"
  /\ \/ Mismatched(r) /\ Refused("mismatch") /\ UNCHANGED caches
     \/ /\ ~Mismatched(r) /\ FeeType(r) = "ARBITRARY_TOKEN" /\ Refused("token")
        /\ Supports(FALSE) \/ (Sponsored(r) /\ Supports(TRUE))
  /\ UNCHANGED <<request, funds, balances, sims, ops, pricing, execution, recording>>

\* Without simulation the balances are not looked at.
RequestQuote ==
  /\ phase = "asked" /\ ~Mismatched(r)
  /\ IF FeeType(r) = "ARBITRARY_TOKEN" THEN ~Sponsored(r) /\ Supports(TRUE) ELSE UNCHANGED caches
  /\ IF ~r.simulate
     THEN phase' = "estimate" /\ ops' = [i \in 1..N |-> Null] /\ UNCHANGED <<reason, balances>>
     ELSE IF r.permit /\ r.trigger = NoTrigger
     THEN Refused("trigger") /\ UNCHANGED <<balances, ops>>
     ELSE phase' = "balances" /\ balances' = [k \in DOMAIN Asked(r) |-> Null] /\ UNCHANGED <<reason, ops>>
  /\ UNCHANGED <<request, funds, sims, pricing, execution, recording>>

BalanceAnswered(k) ==
  /\ phase = "balances" /\ balances[k] = Null
  /\ \/ balances' = [balances EXCEPT ![k] = funds[<<Holder(r), Asked(r)[k].chain, Asked(r)[k].token>>]] /\ UNCHANGED <<phase, reason>>
     \/ Refused("rpc") /\ UNCHANGED balances
  /\ UNCHANGED <<asking, sims, ops, pricing, execution, recording>>

\* All balances are there. What throws in the preparation leaves the quote unsimulated.
CheckFunding ==
  /\ phase = "balances" /\ \A k \in DOMAIN balances : balances[k] # Null
  /\ IF r.permit /\ TriggerBalance < r.trigger.amount
     THEN Refused("funding") /\ UNCHANGED <<sims, ops>>
     ELSE IF r.type = "none" THEN Refused("type") /\ UNCHANGED <<sims, ops>>
     ELSE IF PreparationThrows(r)
     THEN phase' = "estimate" /\ ops' = [i \in 1..N |-> Null] /\ UNCHANGED <<reason, sims>>
     ELSE phase' = "simulate" /\ sims' = [i \in 1..N |-> Null] /\ UNCHANGED <<reason, ops>>
  /\ UNCHANGED <<asking, balances, pricing, execution, recording>>

-----------------------------------------------------------------------------
(* simulateAndEstimateUserOpGas *)

Result(i, t) ==
  [revert |-> ~Passes(t), trace |-> t, verification |-> VerificationCovers(r, i, t),
   call |-> CallCovers(r, i, t), policies |-> PoliciesCover(r, i)]

NoLimits(revert) == [revert |-> revert, trace |-> <<>>, verification |-> {}, call |-> {}, policies |-> {}]

\* The chain: a userOp that needs the trigger's tokens, whose session is not enabled, or
\* whose signature points outside its list of hashes, does not run.
Runs(i) == /\ Requested(r)[i].spends => Funded(r, i)
           /\ Requested(r)[i].session # "no" => SessionMode(r, i) = "enable"
           /\ Dummy(r, i).at < Dummy(r, i).of

\* A trusted payment is not simulated; a failed trace request counts as a revert.
SimulateOp(i) ==
  /\ phase = "simulate" /\ sims[i] = Null
  /\ \/ /\ TrustedPayment(r, i)
        /\ sims' = [sims EXCEPT ![i] = NoLimits(FALSE)]
     \/ /\ ~TrustedPayment(r, i)
        /\ \/ \E t \in {t \in Traces[<<r, i>>] : Ran(t) => Runs(i)} : sims' = [sims EXCEPT ![i] = Result(i, t)]
           \/ sims' = [sims EXCEPT ![i] = NoLimits(TRUE)]
  /\ UNCHANGED <<asking, phase, reason, balances, ops, pricing, execution, recording>>

\* The slot of a token override is not found, or a gas limit is zero: Promise.all rejects
\* and the quote goes on without simulation.
SimulationThrows ==
  /\ phase = "simulate"
  /\ phase' = "estimate" /\ sims' = <<>> /\ ops' = [i \in 1..N |-> Null]
  /\ UNCHANGED <<asking, reason, balances, pricing, execution, recording>>

CollectSimulations ==
  /\ phase = "simulate" /\ \A i \in 1..N : sims[i] # Null
  /\ IF \E i \in 1..N : sims[i].revert
     THEN Refused("revert") /\ UNCHANGED ops
     ELSE phase' = "estimate" /\ ops' = [i \in 1..N |-> Null] /\ UNCHANGED reason
  /\ UNCHANGED <<asking, balances, sims, pricing, execution, recording>>

-----------------------------------------------------------------------------
(* getPackedMeeUserOpWithGasEstimates, getUserOpCost *)

InitCode(i) == Requested(r)[i].deploys /\ FirstSeen(r, i)

\* The limits of the simulation, or the defaults; every thing they cover costs one.
Limits(i) ==
  IF TrustedPayment(r, i) THEN [verification |-> {}, call |-> {}, policies |-> {}]
  ELSE IF sims = <<>>
  THEN [verification |-> DefaultCovers(InitCode(i)), call |-> {"request"}, policies |-> {}]
  ELSE [verification |-> sims[i].verification, call |-> sims[i].call, policies |-> sims[i].policies]

\* getPaymasterAndData: who gets back what the limits leave.
Refund(i) ==
  IF TrustedPayment(r, i) THEN "nobody"
  ELSE IF Trusted(r) THEN "kept"
  ELSE IF Sponsored(r) THEN r.pay.sender
  ELSE IF r.pay.refund # "none" THEN r.pay.refund ELSE "user"

Packed(i, pays, price, l1) ==
  [nr |-> i, pays |-> pays, price |-> price, l1 |-> l1, limits |-> Limits(i),
   limit |-> Cardinality(Limits(i).verification) + Cardinality(Limits(i).call)
             + Cardinality(Limits(i).policies) + l1.used,
   initCode |-> InitCode(i), refund |-> Refund(i)]

Unpaid(i) == IF i = 1 /\ ~Trusted(r) THEN Payment(r, 0) ELSE Null

\* A placeholder costs nothing and asks no layer below.
EstimateOp(i) ==
  /\ phase = "estimate" /\ ops[i] = Null
  /\ \/ \E p \in GasPrices :
          IF TrustedPayment(r, i)
          THEN /\ ops' = [ops EXCEPT ![i] = Packed(i, Null, 0, [used |-> 0, fee |-> 0])]
               /\ UNCHANGED <<phase, reason>>
          ELSE \E a \in L1Answers[Requested(r)[i].chain] :
                 LET l1 == L1Cost(ChainType[Requested(r)[i].chain], a, p.base) IN
                 IF l1 = Failure THEN Refused("l1") /\ UNCHANGED ops
                 ELSE ops' = [ops EXCEPT ![i] = Packed(i, Unpaid(i), p.base + p.tip, l1)] /\ UNCHANGED <<phase, reason>>
     \/ Refused("rpc") /\ UNCHANGED ops
  /\ UNCHANGED <<asking, balances, sims, pricing, execution, recording>>

SumOf(costs) ==
  LET sum[i \in 0..Len(costs)] == IF i = 0 THEN 0 ELSE sum[i - 1] + costs[i] IN sum[Len(costs)]

Total(os) == SumOf([i \in DOMAIN os |-> OpCost(os[i])])

\* What may be charged for the cost c, and the price feed after that.
Charges(c) ==
  IF FeeType(r) = "ARBITRARY_TOKEN"   \* by the providers that support the chain now
  THEN {[amount |-> n, feed |-> caches.feed] :
          n \in UNION {Routed(c, ps, TokenPrices, TokenPrices, GluexRates) : ps \in SUBSET {"lifi", "gluex"}}}
  ELSE {[amount |-> TokenAmount(c, p),
         feed |-> IF CacheServes(caches.feed) THEN caches.feed ELSE [price |-> p, expired |-> FALSE]] :
          p \in OraclePrices(caches.feed, TokenPrices)}

\* The price feed or a provider answers, or the quote fails.
PriceFee ==
  /\ phase = "estimate" /\ \A i \in 1..N : ops[i] # Null
  /\ cost' = Total(ops)
  /\ \/ \E x \in Charges(Total(ops)) :
          /\ fee' = x.amount /\ caches' = [caches EXCEPT !.feed = x.feed]
          /\ IF r.simulate /\ ~Sponsored(r) /\ PaymentBalance < x.amount
             THEN Refused("balance") ELSE phase' = "commit" /\ UNCHANGED reason
     \/ Refused("price") /\ UNCHANGED <<fee, caches>>
  /\ UNCHANGED <<request, funds, balances, sims, ops, quote, execution, recording>>

Committed(os) == [hash |-> Root(os, r.type = "simple", Eip712(r), Trusted(r)), ops |-> os]

CommitFresh ==   \* variant: the rebuilt payment asks for the price of gas again
  /\ phase = "commit"
  /\ \E p \in GasPrices :
       quote' = Committed([ops EXCEPT ![1] = IF Trusted(r) THEN @ ELSE Packed(1, Payment(r, fee), p.base + p.tip, @.l1)])
  /\ phase' = "quoted"
  /\ UNCHANGED <<asking, reason, balances, sims, ops, fee, cost, execution, recording>>

\* The payment is built again, now with the fee, at the prices it was charged with.
Commit ==
  /\ phase = "commit"
  /\ quote' = Committed([ops EXCEPT ![1] = IF Trusted(r) THEN @ ELSE Packed(1, Payment(r, fee), @.price, @.l1)])
  /\ phase' = "quoted"
  /\ UNCHANGED <<asking, reason, balances, sims, ops, fee, cost, execution, recording>>

-----------------------------------------------------------------------------
(* executeQuote *)

\* The type is the client's, or that of its signature.
Type == IF r.type = "none" THEN "simple" ELSE r.type

TrustedNow == sponsored /\ Trusted(r)

\* The client signs the hash; a sponsor signs its userOp, or the client lost that signature.
Send ==
  /\ phase = "quoted"
  /\ phase' = "sent" /\ sponsored' \in (IF Sponsored(r) THEN BOOLEAN ELSE {FALSE})
  /\ UNCHANGED <<asking, reason, balances, sims, ops, pricing, signed, checks, recording>>

\* The hash is computed again, then every userOp signed; a trusted payment is not
\* validated but for its window and the signature of the gas tank's owner.
ExecuteQuote ==
  /\ phase = "sent"
  /\ \/ Mixed(r, 30) /\ Refused("versions") /\ UNCHANGED <<signed, checks>>
     \/ /\ Root(quote.ops, Type = "simple", Eip712(r), TrustedNow) # quote.hash
        /\ Refused("hash") /\ UNCHANGED <<signed, checks>>
     \/ Type = "onchain" /\ Refused("transaction") /\ UNCHANGED <<signed, checks>>
     \/ TrustedNow /\ (Refused("late") \/ Refused("sponsor")) /\ UNCHANGED <<signed, checks>>
     \/ /\ Root(quote.ops, Type = "simple", Eip712(r), TrustedNow) = quote.hash /\ ~Mixed(r, 30)
        /\ signed' = [i \in 1..N |-> Signed(r, Type, sponsored, TrustedNow, i)]
        /\ IF TrustedNow
           THEN phase' = "accepted" /\ checks' = Null
           ELSE /\ phase' = "validate"
                /\ checks' = [sig |-> Null, sigLeft |-> Retries, run |-> Null,
                              runLeft |-> IF Type = "onchain" THEN Retries ELSE 0]
        /\ UNCHANGED reason
  /\ UNCHANGED <<asking, balances, sims, ops, pricing, sponsored, recording>>

\* The account: its validator finds the userOp's hash where the signature says, in the
\* list, or the tree, that was signed.
Verifies(i) ==
  LET s == signed[i] IN
  CASE s.form = "sponsor" -> TRUE
    [] s.form = "hashes"  -> /\ s.from = (IF r.newSdk /\ Trusted(r) THEN 2 ELSE 1)
                             /\ s.from + s.at - 1 = i
                             /\ s.timed = (Requested(r)[i].session = "no")
    [] OTHER              -> s.of = i /\ (s.form = "trigger" => s.owner = (Type = "permit" /\ AtLeast(r, 30)))

ValidateSignatureForever ==   \* variant: a failing signature is tried again in any case
  /\ phase = "validate" /\ checks.sig = Null
  /\ \/ Verifies(1) /\ checks' = [checks EXCEPT !.sig = TRUE]
     \/ checks' = [checks EXCEPT !.sigLeft = @ - 1]
  /\ UNCHANGED <<asking, phase, reason, balances, sims, ops, pricing, sponsored, signed, recording>>

\* simulateSimulateHandleOp: what fails is tried again; a chain may lag behind the trigger.
ValidateSignature ==
  /\ phase = "validate" /\ checks.sig = Null
  /\ \/ /\ Verifies(1) /\ (Sponsored(r) => sponsored)
        /\ checks' = [checks EXCEPT !.sig = TRUE] /\ UNCHANGED <<phase, reason>>
     \/ /\ checks.sigLeft > 0
        /\ checks' = [checks EXCEPT !.sigLeft = @ - 1] /\ UNCHANGED <<phase, reason>>
     \/ /\ checks.sigLeft = 0
        /\ \/ checks' = [checks EXCEPT !.sig = FALSE] /\ UNCHANGED <<phase, reason>>
           \/ Refused("rpc") /\ UNCHANGED checks
  /\ UNCHANGED <<asking, balances, sims, ops, pricing, sponsored, signed, recording>>

\* simulateHandleOps: a revert is tried again, a failed request is not.
ValidateExecution ==
  /\ phase = "validate" /\ checks.run = Null
  /\ \/ \E t \in PayTraces[r] :
          IF Passes(t) \/ checks.runLeft = 0
          THEN checks' = [checks EXCEPT !.run = [ok |-> Passes(t), trace |-> t]]
          ELSE checks' = [checks EXCEPT !.runLeft = @ - 1]
     \/ checks' = [checks EXCEPT !.run = [ok |-> FALSE, trace |-> <<>>]]
  /\ UNCHANGED <<asking, phase, reason, balances, sims, ops, pricing, sponsored, signed, recording>>

Accept ==
  /\ phase = "validate" /\ checks.sig # Null /\ checks.run # Null
  /\ IF ~checks.sig THEN Refused("signature")
     ELSE \/ Refused("window")
          \/ IF ~checks.run.ok THEN Refused("payment") ELSE phase' = "accepted" /\ UNCHANGED reason
  /\ UNCHANGED <<asking, balances, sims, ops, pricing, execution, recording>>

-----------------------------------------------------------------------------
(* handleUserOpsConfirmation: in the background, once the block is mined. *)

\* The names of some tokens cannot be read, or the trace cannot, and then nothing is kept.
RecordTransfers ==
  /\ phase = "accepted"
  /\ \E b \in Blocks[r], unknown \in SUBSET {1, 2} :
       /\ mined' = b
       /\ \/ assets' = Recorded(b.logs, b.trace, {b.logs[k].nr : k \in DOMAIN b.logs} \ unknown)
          \/ assets' = <<>>
  /\ phase' = "mined"
  /\ UNCHANGED <<asking, reason, balances, sims, ops, pricing, execution>>

Next ==
  \/ RefuseRequest \/ RequestQuote \/ CheckFunding \/ SimulationThrows \/ CollectSimulations
  \/ \E k \in DOMAIN balances : BalanceAnswered(k)
  \/ \E i \in 1..N : SimulateOp(i) \/ EstimateOp(i)
  \/ PriceFee \/ Commit \/ Send \/ ExecuteQuote
  \/ ValidateSignature \/ ValidateExecution \/ Accept \/ RecordTransfers

Spec == Init /\ [][Next]_vars

-----------------------------------------------------------------------------
TypeOK ==
  /\ phase \in {"asked", "balances", "simulate", "estimate", "commit", "quoted",
               "sent", "validate", "accepted", "mined", "refused"}
  /\ (phase = "refused") = (reason # Null)
  /\ balances \in Seq(Nat \cup {Null}) /\ Len(balances) <= 2
  /\ sims = <<>> \/ Len(sims) = N
  /\ ops = <<>> \/ Len(ops) = N
  /\ fee \in Nat /\ cost \in Nat /\ caches.support \in {"unknown", "yes", "no"}
  /\ phase \in {"validate", "accepted"} => Len(signed) = N
  /\ checks # Null => checks.sigLeft \in 0..Retries /\ checks.runLeft \in 0..Retries

\* What the SDK sends, and the node takes for granted: an account pays for its own userOps,
\* accounts of sponsors and of sessions are deployed, all userOps use sessions or none, and
\* with a sponsor the first userOp is on the chain of the trigger, which it carries.
Regular(q) ==
  /\ Sponsored(q) \/ q.permit \/ q.pay.sender = q.ops[1].sender
  /\ Sponsored(q) => ~q.pay.deploys
  /\ Sponsored(q) /\ q.type \in Triggering /\ q.trigger # NoTrigger => q.ops[1].chain = q.trigger.chain
  /\ \A i \in DOMAIN q.ops : q.ops[i].session # "no" => ~q.ops[i].deploys /\ q.type \notin Triggering
  /\ \A i, j \in DOMAIN q.ops : (q.ops[i].session = "no") = (q.ops[j].session = "no")

Simulated == sims # <<>> /\ phase \notin {"simulate", "refused"}

\* The trace of a simulation is judged by its reverts: what the node takes for a success
\* did run, with no frame around the call of the account undone; caught reverts, reverts
\* of the EntryPoint and failures that are no reverts included (flat-trace-call-result.ts).
\* The payment of an accepted quote ran as well.
AcceptedRan ==
  /\ Simulated => \A i \in 1..N : TrustedPayment(r, i) \/ Ran(sims[i].trace)
  /\ phase = "accepted" /\ ~Trusted(r) => Ran(checks.run.trace)

\* A repeated action reads its policies warm.
Reads(i) == LET as == Requested(r)[i].actions IN
  {[call |-> k, cold |-> as[k] \notin {as[j] : j \in 1..k-1}] : k \in {j \in DOMAIN as : as[j] # NoAction}}

Needs(i) == [verification |->
               {"nonce"} \cup (IF Requested(r)[i].deploys /\ FirstSeen(r, i) THEN {"create"} ELSE {})
               \cup (IF Triggers(r.type, Sponsored(r), i) THEN {"trigger"} ELSE {})
               \cup (IF Requested(r)[i].session # "no" THEN {"session"} ELSE {"validate"})
               \cup (IF Requested(r)[i].session = "enable" THEN {"enable"} ELSE {}),
             call |-> {"calls"} \cup (IF PullRemoved(r, i) THEN {"pull"} ELSE {})]

\* What is left out of the simulation is in the gas limits of the quote: a userOp's limits
\* account for the deployment, the trigger, the pull and the policies that it will execute,
\* although executeQuote picks the userOp that triggers by another rule than the
\* simulation; an account is created once, and paid for in a quote without simulation too.
GasCovers ==
  quote # Null => \A i \in 1..N :
    LET o == quote.ops[i] IN
    /\ o.initCode => "create" \in o.limits.verification
    /\ sims = <<>> \/ TrustedPayment(r, i)
       \/ /\ Needs(i).verification \subseteq o.limits.verification /\ Needs(i).call \subseteq o.limits.call
          /\ Requested(r)[i].session = "use" => o.limits.policies = Reads(i)

Afterwards == {"commit", "quoted", "sent", "validate", "accepted", "mined"}

\* A quote that was simulated is given only to a user who holds the amount of the trigger
\* on its chain, and the fee unless a sponsor pays, where it is taken from (a native fee
\* is paid by the account, out of the trigger): each check reads the right balance. Tokens
\* are compared by their addresses: with the same on two chains, as the native tokens have,
\* the amount of the trigger is sought on the chain of the payment.
FundingIsThere ==
  r.simulate /\ phase \in Afterwards =>
    /\ r.permit /\ (Trusted(r) \/ ~SameToken(r) \/ r.trigger.chain = r.pay.chain) =>
         funds[<<"eoa", r.trigger.chain, r.trigger.token>>] >= r.trigger.amount
    /\ ~Sponsored(r) =>
         LET holder == IF FeeType(r) = "NATIVE" THEN Holder(r) ELSE Payment(r, fee).from
         IN funds[<<holder, r.pay.chain, r.pay.token>>] >= fee

\* The fee that was computed is the fee of the userOps that are signed: rebuilding the
\* payment changes neither what the quote costs nor what the payment transfers.
ChargedWhatItSigned ==
  quote # Null => /\ Total(quote.ops) = cost
                  /\ ~Trusted(r) => quote.ops[1].pays.amount = fee

\* The two handlers agree: an unchanged quote is never refused for its hash (but for the
\* lost signature of a sponsor, or a request that named no type), every userOp the node
\* will execute verifies, and exactly one of them executes the trigger.
CommittedVerifies ==
  /\ reason = "hash" => (Sponsored(r) /\ ~sponsored) \/ r.type = "none"
  /\ reason = "versions" => \E c, d \in DOMAIN r.versions : r.versions[c] < 30 /\ r.versions[d] >= 30
  /\ phase \in {"accepted", "mined"} =>
       /\ \A i \in 1..N : TrustedPayment(r, i) \/ Verifies(i)
       /\ Type \in Triggering =>
            Cardinality({i \in 1..N : signed[i].form = "trigger" /\ signed[i].executes}) = 1

\* A transfer is recorded for the userOp that made it, and for no other, whatever cannot be
\* read: only native transfers of a userOp without postOp go to the next one that has it.
OwnTransfers ==
  phase = "mined" => \A op \in DOMAIN assets :
    /\ \A x \in assets[op].erc20 \cup assets[op].withdrawn : x.op = op
    /\ \A x \in assets[op].native :
         x.op = op \/ \E n \in DOMAIN mined.trace : mined.trace[n].op = x.op /\ ~Collects(mined.trace[n])
    /\ \A q \in DOMAIN assets \ {op} : assets[op].native \cap assets[q].native = {}
=============================================================================
