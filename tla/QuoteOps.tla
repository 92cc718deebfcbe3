------------------------------ MODULE QuoteOps ------------------------------
(***************************************************************************)
(* The userOps of a supertransaction while a quote is made and carried     *)
(* out: how they are prepared for simulation, what their gas limits cover, *)
(* how they are hashed and how they are signed.                            *)
(*                                                                         *)
(* A request r is a record                                                 *)
(*   type     quote type, or "none" where the client leaves it out         *)
(*   permit   TRUE on the fusion endpoint                                  *)
(*   sponsor  "none", "third" or "trusted" (the hosted gas tank)           *)
(*   versions chain -> MEE version of its accounts; 22 stands for 2.2.0     *)
(*   simulate, newSdk (isEIP712TrustedSponsorshipSupported)                *)
(*   pay      [chain, token, sender, deploys, refund]; refund is where the  *)
(*            rest of the gas goes, or "none"                              *)
(*   trigger  [chain, token, amount], or NoTrigger                         *)
(*   ops      sequence of [sender, chain, deploys, calls, session, spends,   *)
(*            own, actions]                                                *)
(* where deploys says that the userOp brings initCode, calls counts its    *)
(* calls, session is "no", "use" or "enable", spends that it needs the     *)
(* tokens of the trigger, own which token overrides of its own it has      *)
(* ("absent", "empty" or "some"), and actions lists what the session's     *)
(* permission says of each call, or NoAction.                              *)
(***************************************************************************)
EXTENDS Naturals, Sequences, FiniteSets, CallTraces

CONSTANTS NoTrigger, Native, NoAction   \* Native is the zero address

\* isVersionConsistentAndAboveTarget throws if the versions lie on both sides.
AtLeast(r, target) == \A c \in DOMAIN r.versions : r.versions[c] >= target
Mixed(r, target)   == ~AtLeast(r, target) /\ \E c \in DOMAIN r.versions : r.versions[c] >= target
Eip712(r) == AtLeast(r, 22)

Sponsored(r) == r.sponsor # "none"
Trusted(r)   == r.sponsor = "trusted"
Fusion(r)    == r.type # "simple"

\* preparePaymentUserOp: the payment userOp comes first; a trusted one is a placeholder.
Requested(r) ==
  << [sender |-> r.pay.sender, chain |-> r.pay.chain, deploys |-> r.pay.deploys /\ ~Trusted(r),
      calls |-> 1, session |-> "no", spends |-> FALSE, own |-> "absent", actions |-> <<>>] >> \o r.ops

Indices(r) == DOMAIN Requested(r)

TrustedPayment(r, i) == i = 1 /\ Trusted(r)

FirstSeen(r, i) == \A j \in 1..i-1 : \/ Requested(r)[j].sender # Requested(r)[i].sender
                                     \/ Requested(r)[j].chain # Requested(r)[i].chain

-----------------------------------------------------------------------------
(* simulateUserOps, preparePackedUserOpForSimulation *)

\* The first userOp of the user on the chain of the trigger holds the token pull.
TokenPull(r, i) ==
  /\ Fusion(r) /\ r.trigger # NoTrigger
  /\ i # 1 /\ Requested(r)[i].chain = r.trigger.chain
  /\ \A j \in 2..i-1 : Requested(r)[j].chain # r.trigger.chain

\* removeCallFromCalldata takes the pull away, which an override replaces.
PullRemoved(r, i) == TokenPull(r, i) /\ r.trigger.token # Native

\* All userOps of a chain are simulated with the first initCode found there.
Deploys(r, i) ==
  /\ \E j \in Indices(r) : Requested(r)[j].chain = Requested(r)[i].chain /\ Requested(r)[j].deploys
  /\ ~(Sponsored(r) /\ i = 1)

TriggerPreparedByPayment(r, i) == Fusion(r) /\ i = 1   \* variant: sponsorship is forgotten

\* isPermitRequired, isRedeemDelegationRequired, isSafeExecutionRequired
TriggerPrepared(r, i) ==
  /\ Fusion(r)
  /\ IF Sponsored(r) THEN TokenPull(r, i) ELSE i = 1

\* The quote types whose trigger runs while a userOp is validated.
Triggering == {"permit", "mm-dtk", "safe-sa"}

\* With one enabling userOp on a chain all of its sessions are simulated as enabling.
SessionMode(r, i) ==
  IF \E j \in Indices(r) : /\ Requested(r)[j].chain = Requested(r)[i].chain
                           /\ Requested(r)[j].session = "enable"
  THEN "enable" ELSE "use"

\* The calldata of the pull does not decode, or the trigger is missing.
PreparationThrows(r) ==
  Fusion(r) /\ \/ r.trigger = NoTrigger
               \/ \E i \in Indices(r) : PullRemoved(r, i) /\ Requested(r)[i].calls = 1

\* The account whose userOps are funded: the first one that is the user's.
FirstDev(r) == IF Sponsored(r) THEN 2 ELSE 1

\* Is the trigger's amount among the overrides of userOp i? Its own list replaces the
\* global one even when it is empty, and only that of the first userOp is extended.
Funded(r, i) ==
  /\ Fusion(r) /\ Requested(r)[i].chain = r.trigger.chain
  /\ Requested(r)[i].sender = Requested(r)[FirstDev(r)].sender
  /\ \/ Requested(r)[i].own = "absent"
     \/ Requested(r)[i].own = "some" /\ i = FirstDev(r)

\* getEIP712DummySignature, or an older one without hashes.
Dummy(r, i) ==
  LET n == Cardinality(Indices(r)) IN
  IF r.versions[Requested(r)[i].chain] < 22 \/ (Sponsored(r) /\ i = 1) THEN [at |-> 0, of |-> 1]
  ELSE IF Trusted(r) THEN [at |-> IF i > 1 THEN i - 2 ELSE 0, of |-> n - 1]
  ELSE [at |-> i - 1, of |-> n]

-----------------------------------------------------------------------------
(* simulateAndEstimateUserOpGas: what the limits account for, given the trace t. *)

VerificationCovers(r, i, t) ==
  CASE Requested(r)[i].session = "enable" -> {"nonce", "session", "enable"}   \* preOpGas
    [] Requested(r)[i].session = "use"    -> {"nonce", "session"}
    [] OTHER ->
       {"nonce", "validate"}
       \cup (IF Spends(t, "create") /\ FirstSeen(r, i) /\ Deploys(r, i) THEN {"create"} ELSE {})
       \cup (IF TriggerPrepared(r, i) /\ r.type \in Triggering THEN {"trigger"} ELSE {})

\* getSmartSessionUseModeVerificationGasLimit: per call with an action, its check and its
\* policies, which are read cold the first time.
PolicyRead(as, k) == [call |-> k, cold |-> \A j \in 1..k-1 : as[j] # as[k]]

PoliciesCover(r, i) ==
  IF Requested(r)[i].session # "use" THEN {}
  ELSE LET as == Requested(r)[i].actions IN {PolicyRead(as, k) : k \in {j \in DOMAIN as : as[j] # NoAction}}

\* getDefaultUserOpGasLimits, for a quote without simulation.
DefaultCovers(initCode) == {"base"} \cup (IF initCode THEN {"create"} ELSE {})

CallCovers(r, i, t) ==
  (IF Spends(t, "inner") THEN {"calls"} ELSE {}) \cup (IF PullRemoved(r, i) THEN {"pull"} ELSE {})

-----------------------------------------------------------------------------
(* MerkleTreeService.createMerkleTree: leaves are sorted, so a root is the set of them. *)

Root(ops, simple, eip712, trusted) ==
  {[op     |-> IF i = 1 /\ trusted THEN [ops[i] EXCEPT !.price = 0] ELSE ops[i],
    random |-> i = 1 /\ trusted,
    as     |-> IF eip712 /\ simple THEN "eip712" ELSE "legacy"] : i \in DOMAIN ops}

-----------------------------------------------------------------------------
(* executeQuote: how userOp i is signed. *)

PositionUnshifted(r, i, trusted) ==   \* variant: the payment is left out, the index stays
  IF r.newSdk /\ trusted THEN [at |-> i, from |-> 2] ELSE [at |-> i, from |-> 1]

\* The position of the userOp's hash among those in its signature, and the first of them.
Position(r, i, trusted) ==
  IF r.newSdk /\ trusted THEN [at |-> i - 1, from |-> 2] ELSE [at |-> i, from |-> 1]

\* The window is in the signature unless some userOp uses a session.
Timed(r) == \A j \in DOMAIN r.ops : r.ops[j].session = "no"

\* A list of hashes from 2.2.0 on, a proof before.
SimpleSigned(r, i, trusted) ==
  IF Eip712(r)
  THEN [form |-> "hashes", at |-> Position(r, i, trusted).at, from |-> Position(r, i, trusted).from,
        timed |-> Timed(r)]
  ELSE [form |-> "proof", of |-> i, timed |-> Timed(r)]

OnchainSigned(i) == [form |-> "proof", of |-> i, timed |-> TRUE]

\* The userOp that carries the permit, the delegation or the Safe transaction.
Triggers(type, sponsored, i) == type \in Triggering /\ i = (IF sponsored THEN 2 ELSE 1)

\* From 3.0.0 on a permit names its owner.
PermitSigned(r, sponsored, i) ==
  [form |-> "trigger", of |-> i, executes |-> Triggers("permit", sponsored, i), owner |-> AtLeast(r, 30)]

DelegationSigned(sponsored, i) ==
  [form |-> "trigger", of |-> i, executes |-> Triggers("mm-dtk", sponsored, i), owner |-> FALSE]

SafeSigned(sponsored, i) ==
  [form |-> "trigger", of |-> i, executes |-> Triggers("safe-sa", sponsored, i), owner |-> FALSE]

Signed(r, type, sponsored, trusted, i) ==
  IF i = 1 /\ sponsored THEN [form |-> "sponsor"]
  ELSE CASE type = "simple"  -> SimpleSigned(r, i, trusted)
         [] type = "onchain" -> OnchainSigned(i)
         [] type = "permit"  -> PermitSigned(r, sponsored, i)
         [] type = "mm-dtk"  -> DelegationSigned(sponsored, i)
         [] type = "safe-sa" -> SafeSigned(sponsored, i)
=============================================================================
