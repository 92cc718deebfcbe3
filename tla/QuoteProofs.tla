----------------------------- MODULE QuoteProofs -----------------------------
(***************************************************************************)
(* What is accepted has run, is paid for and verifies, for every request   *)
(* of the SDK, all balances, prices, traces and blocks.                    *)
(*                                                                         *)
(* What the handlers find out stays what it was when the next step reads   *)
(* it: balances are those of the holder (BalanceInv), simulations come     *)
(* from traces the chain answered (SimsInv), userOps are priced from these *)
(* simulations (OpsInv), the quote is made of these userOps (QuoteInv),    *)
(* and signatures are of this quote (SignedInv, ChecksInv).                *)
(***************************************************************************)
EXTENDS Quote, TLAPS, FiniteSetTheorems, SequenceTheorems, WellFoundedInduction

Early   == {"asked", "balances", "simulate", "estimate"}
Given   == {"quoted", "sent", "validate", "accepted", "mined"}
Phases  == Early \cup {"commit", "refused"} \cup Given

RequestInv ==
  /\ \E s \in Requests : request = s.ask /\ funds = s.funds
  /\ caches \in Caches
  /\ phase \in Phases /\ reason \in Reasons \cup {Null}
  /\ phase = "refused" <=> reason # Null

\* The balance that is asked for k-th.
Balance(k) == funds[<<Holder(r), Asked(r)[k].chain, Asked(r)[k].token>>]

BalanceInv ==
  /\ balances = <<>> \/ balances \in [DOMAIN Asked(r) -> Nat \cup {Null}]
  /\ \A k \in DOMAIN balances : balances[k] \in {Null, Balance(k)}
  /\ phase = "balances" => DOMAIN balances = DOMAIN Asked(r) /\ (r.permit => r.trigger # NoTrigger)
  /\ r.simulate /\ phase \notin {"asked", "balances", "refused"} =>
       /\ DOMAIN balances = DOMAIN Asked(r) /\ \A k \in DOMAIN balances : balances[k] = Balance(k)
       /\ r.permit => r.trigger # NoTrigger /\ TriggerBalance >= r.trigger.amount

\* What the simulation of a userOp can end with.
Outcome(i, x) ==
  \/ TrustedPayment(r, i) /\ x = NoLimits(FALSE)
  \/ x = NoLimits(TRUE)
  \/ ~TrustedPayment(r, i) /\ x.trace \in Traces[<<r, i>>] /\ x = Result(i, x.trace)

\* The handler is past the simulation.
Past == phase \notin {"asked", "balances", "simulate", "refused"} \/ quote # Null

SimsInv ==
  /\ phase \in {"asked", "balances"} => sims = <<>>
  /\ phase = "simulate" => sims # <<>>
  /\ sims # <<>> => /\ ~PreparationThrows(r) /\ sims = [i \in 1..N |-> sims[i]]
                    /\ \A i \in 1..N : sims[i] = Null \/ Outcome(i, sims[i])
                    /\ Past => \A i \in 1..N : Outcome(i, sims[i]) /\ ~sims[i].revert

Answers == [used : Nat, fee : Nat]

\* A userOp with its gas, as it was first priced.
Priced(i, o) ==
  IF TrustedPayment(r, i) THEN o = Packed(i, Null, 0, [used |-> 0, fee |-> 0])
  ELSE o.price \in Nat /\ o.l1 \in Answers /\ o = Packed(i, Unpaid(i), o.price, o.l1)

OpsInv ==
  /\ phase \in {"asked", "balances", "simulate"} => ops = <<>>
  /\ phase = "estimate" => ops # <<>>
  /\ ops # <<>> => ops = [i \in 1..N |-> ops[i]] /\ \A i \in 1..N : ops[i] = Null \/ Priced(i, ops[i])

\* The userOps with the payment rebuilt.
Rebuilt == [ops EXCEPT ![1] = IF Trusted(r) THEN @ ELSE Packed(1, Payment(r, fee), @.price, @.l1)]

QuoteInv ==
  /\ fee \in Nat /\ cost \in Nat
  /\ phase \in Early \cup {"commit"} => quote = Null
  /\ phase = "commit" \/ phase \in Given \/ quote # Null =>
       /\ ops # <<>> /\ cost = Total(ops) /\ \A i \in 1..N : Priced(i, ops[i])
  /\ phase \in Given \/ quote # Null => quote = Committed(Rebuilt)

PaidInv == r.simulate /\ ~Sponsored(r) /\ (phase = "commit" \/ phase \in Given) => fee <= PaymentBalance

SignedInv ==
  /\ sponsored \in BOOLEAN
  /\ phase \in {"validate", "accepted", "mined"} =>
       /\ signed = [i \in 1..N |-> Signed(r, Type, sponsored, TrustedNow, i)]
       /\ ~Mixed(r, 30) /\ TrustedNow = Trusted(r) /\ (Eip712(r) => (Type = "simple") = (r.type = "simple"))
  /\ reason = "hash" => (Sponsored(r) /\ ~sponsored) \/ r.type = "none"
  /\ reason = "versions" => Mixed(r, 30)

Validation ==
  /\ checks = [sig |-> checks.sig, sigLeft |-> checks.sigLeft, run |-> checks.run, runLeft |-> checks.runLeft]
  /\ checks.sigLeft \in 0..Retries /\ checks.runLeft \in 0..Retries
  /\ checks.sig \in BOOLEAN \cup {Null}

RunFound ==
  checks.run.ok \in BOOLEAN /\ (checks.run.ok => checks.run.trace \in PayTraces[r] /\ Passes(checks.run.trace))

ChecksInv ==
  /\ checks = Null \/ Validation
  /\ phase = "validate" =>
       /\ Validation
       /\ checks.sig = TRUE => Verifies(1)
       /\ checks.run = Null \/ RunFound
  /\ phase \in {"accepted", "mined"} /\ ~Trusted(r) => Verifies(1) /\ RunFound /\ checks.run.ok

MinedInv ==
  phase = "mined" =>
    /\ mined \in Blocks[r]
    /\ assets = <<>> \/ \E known : assets = Recorded(mined.logs, mined.trace, known)

LEMMA LeastExists ==
  ASSUME NEW S \in SUBSET Nat, S # {}
  PROVE  \E k \in S : \A l \in S : k <= l
<1> DEFINE Smaller == {ss \in Nat \X Nat : ss[1] < ss[2]}
<1>1. IsWellFoundedOn(Smaller, Nat)
  BY NatLessThanWellFounded DEF OpToRel
<1>2. PICK x \in S : \A y \in S : <<y, x>> \notin Smaller
  <2> HIDE DEF Smaller
  <2> QED BY <1>1, WFMin
<1>3. \A y \in S : ~(y < x)
  BY <1>2
<1> QED BY <1>3

-----------------------------------------------------------------------------
(* Call traces *)

\* Frames begin with the call of the EntryPoint; only that one encloses innerHandleOp.
LEMMA TraceShape ==
  ASSUME NEW t, CallTrace(t)
  PROVE  /\ DOMAIN t \subseteq Nat \ {0} /\ 1 \in DOMAIN t /\ t[1].depth = 0
         /\ \A i \in DOMAIN t : t[i].depth \in Nat /\ (i # 1 => t[i].depth >= 1)
         /\ \A i \in DOMAIN t : \A k \in 1..i : k \in DOMAIN t
<1> DEFINE n == Len(t)
<1>1. n \in Nat /\ DOMAIN t = 1..n /\ n # 0 /\ \A i \in 1..n : t[i] \in Frame
  BY DEF CallTrace
<1>2. \A i \in 2..n : t[i].depth \in 1..(t[i-1].depth + 1)
  BY DEF CallTrace
<1> HIDE DEF n
<1>3. \A i \in 1..n : t[i].depth \in Nat
  BY <1>1 DEF Frame
<1>4. t[1].depth = 0
  BY DEF CallTrace
<1>5. ASSUME NEW i \in 1..n, i # 1 PROVE t[i].depth >= 1
  <2>1. i \in 2..n /\ i - 1 \in 1..n
    BY <1>1, <1>5
  <2> QED BY <1>2, <1>3, <2>1
<1> QED BY <1>1, <1>3, <1>4, <1>5

\* The node's reading of a trace is sound: what it lets pass did run.
LEMMA PassedRan == ASSUME NEW t, CallTrace(t), Passes(t) PROVE Ran(t)
<1>1. ~Failed(t, 1)
  BY TraceShape DEF Passes, Handled
<1>2. PICK a \in DOMAIN t : t[a].kind = "inner" /\ Children(t, a) # {} /\ (Failed(t, a) => Siblings(t, a) = {})
  BY <1>1 DEF CallTrace
<1>3. t[a].depth = 1 /\ a # 1 /\ a \in Nat
  BY <1>2, TraceShape DEF CallTrace
<1>4. ASSUME NEW b \in DOMAIN t, Inside(t, b, a) PROVE b = 1
  BY <1>3, <1>4, TraceShape DEF Inside
<1>5. ~Failed(t, a)
  <2> SUFFICES ASSUME Failed(t, a) PROVE FALSE
    OBVIOUS
  <2>1. PICK s \in Siblings(t, 1) \cup {c \in Children(t, 1) : c > a} : TRUE
    BY <1>4 DEF Passes, Handled, WentOn
  <2>2. s \in DOMAIN t /\ s > a /\ t[s].depth = 1
    <3>1. s \notin Siblings(t, 1)
      BY TraceShape DEF Siblings
    <3> QED BY <2>1, <3>1, TraceShape DEF Children
  <2>3. \A k \in a..s : t[k].depth >= t[a].depth
    BY <1>3, <2>2, TraceShape
  <2> QED BY <1>2, <1>3, <2>2, <2>3 DEF Siblings
<1>6. ~Undone(t, a)
  BY <1>1, <1>4, <1>5 DEF Undone
<1> DEFINE c == CHOOSE i \in Children(t, a) : \A j \in Children(t, a) : i <= j
<1>7. c \in Children(t, a)
  <2>1. Children(t, a) \in SUBSET Nat
    BY TraceShape DEF Children
  <2> QED BY <1>2, <2>1, LeastExists
<1> HIDE DEF c
<1>8. c \in DOMAIN t /\ Inside(t, a, c) /\ t[c].depth = 2
  BY <1>3, <1>7 DEF Children
<1>9. ~Failed(t, c)
  BY <1>2, <1>7, <1>8 DEF Passes, Handled
<1>10. ASSUME NEW b \in DOMAIN t, Inside(t, b, c) PROVE b \in {1, a}
  <2>1. b \in Nat /\ c \in Nat /\ t[b].depth \in Nat /\ (b # 1 => t[b].depth = 1)
    BY <1>8, <1>10, TraceShape DEF Inside
  <2>2. b # 1 => ~(b < a) /\ ~(a < b)
    BY <1>3, <1>8, <1>10, <2>1 DEF Inside
  <2> QED BY <1>3, <2>1, <2>2
<1>11. ~Undone(t, c)
  BY <1>1, <1>5, <1>9, <1>10 DEF Undone
<1> QED BY <1>2, <1>6, <1>7, <1>11 DEF Ran, c

-----------------------------------------------------------------------------
(* Transfers *)

\* What OwnTransfers says of what is recorded, as, and the trace t of the block.
Owned(as, t) ==
  \A op \in DOMAIN as :
    /\ \A x \in as[op].erc20 \cup as[op].withdrawn : x.op = op
    /\ \A x \in as[op].native : x.op = op \/ \E n \in DOMAIN t : t[n].op = x.op /\ ~Collects(t[n])
    /\ \A q \in DOMAIN as \ {op} : as[op].native \cap as[q].native = {}

\* The event of a userOp is the last that names it.
LEMMA LastClosing ==
  ASSUME NEW logs, InOrder(logs), NEW op, Closing(logs, op) # {}
  PROVE  \E e \in Closing(logs, op) : \A y \in Closing(logs, op) : y <= e
<1> DEFINE n == Len(logs)
           Rest == {n - e : e \in Closing(logs, op)}
<1>1. n \in Nat /\ DOMAIN logs = 1..n
  BY DEF InOrder
<1> HIDE DEF n
<1>2. Closing(logs, op) \subseteq 1..n
  BY <1>1 DEF Closing, Ends
<1>3. Rest \in SUBSET Nat /\ Rest # {}
  BY <1>1, <1>2
<1>4. PICK k \in Rest : \A l \in Rest : k <= l
  <2> HIDE DEF Rest
  <2> QED BY <1>3, LeastExists
<1>5. PICK e \in Closing(logs, op) : k = n - e
  BY <1>4
<1>6. \A y \in Closing(logs, op) : n - e <= n - y
  BY <1>4, <1>5
<1> QED BY <1>1, <1>2, <1>5, <1>6

\* What an event closes was moved by its userOp.
LEMMA ClosedInOrder ==
  ASSUME NEW logs, InOrder(logs), NEW e \in Ends(logs), NEW k \in Closed(logs, e),
         logs[k].kind \in {"transfer", "withdrawn"}
  PROVE  logs[k].op = logs[e].op
<1> DEFINE n == Len(logs)
<1>1. n \in Nat /\ DOMAIN logs = 1..n
  BY DEF InOrder
<1> HIDE DEF n
<1>2. e \in 1..n /\ logs[e].kind = "op"
  BY <1>1 DEF Ends
<1>3. k \in 1..e-1 /\ k \in DOMAIN logs /\ k < e /\ Tracked(logs, k)
  BY <1>1, <1>2 DEF Closed
<1>4. ASSUME NEW d \in k..e-1, logs[d].kind = "op" PROVE FALSE
  <2>1. d \in DOMAIN logs /\ d < e /\ ~(d < k) /\ Tracked(logs, d)
    BY <1>1, <1>2, <1>3 DEF Tracked
  <2> QED BY <1>4, <2>1 DEF Closed, Ends
<1> QED BY <1>2, <1>3, <1>4 DEF InOrder, Tracked, Ends

\* A value comes from the call that is said to make it, and its postOp, or no one before
\* the one that collected it, had a postOp.
LEMMA ValueFrom ==
  ASSUME NEW t, InTurn(t), NEW n \in DOMAIN t, NEW x \in NativeOf(t, n)
  PROVE  \E m \in DOMAIN t : /\ m <= n /\ t[m].op = x.op
                             /\ \A k \in m..n-1 : ~Collects(t[k])
<1>1. PICK m \in Pending(t, n) : x \in Values(t[m])
  BY DEF NativeOf
<1>2. DOMAIN t = 1..Len(t) /\ Len(t) \in Nat
  BY DEF InTurn
<1>3. m \in 1..n /\ m \in DOMAIN t /\ \A k \in m..n-1 : ~Collects(t[k])
  BY <1>2 DEF Pending
<1>4. x.op = t[m].op
  BY <1>1 DEF Values
<1> QED BY <1>2, <1>3, <1>4

\* Call m made the value x that the postOp of call n collected for op.
Collected(t, op, x, n, m) ==
  /\ n \in DOMAIN t /\ t[n].op = op /\ Collects(t[n])
  /\ m \in DOMAIN t /\ t[m].op = x.op /\ m <= n /\ \A k \in m..n-1 : ~Collects(t[k])

LEMMA RecordedOwned ==
  ASSUME NEW logs, NEW t, NEW known, InOrder(logs), InTurn(t)
  PROVE  Owned(Recorded(logs, t, known), t)
<1> DEFINE as == Recorded(logs, t, known)
           own(op) == {n \in DOMAIN t : t[n].op = op /\ Collects(t[n])}
<1>1. CASE Throws(logs, t)
  BY <1>1 DEF Recorded, Owned
<1>2. CASE ~Throws(logs, t)
  <2>1. DOMAIN as = {logs[e].op : e \in Ends(logs)}
    BY <1>2 DEF Recorded
  <2>2. ASSUME NEW op \in DOMAIN as
        PROVE  /\ \E e \in Ends(logs) : /\ logs[e].op = op /\ as[op].erc20 = Erc20Of(logs, e, known)
                                        /\ as[op].withdrawn = WithdrawnOf(logs, e)
               /\ as[op].native = UNION {NativeOf(t, n) : n \in own(op)}
    <3> DEFINE e == CHOOSE x \in Closing(logs, op) : \A y \in Closing(logs, op) : y <= x
    <3>1. Closing(logs, op) # {}
      BY <2>1 DEF Closing
    <3>2. e \in Closing(logs, op)
      BY <3>1, LastClosing
    <3>3. as[op] = [erc20 |-> Erc20Of(logs, e, known), withdrawn |-> WithdrawnOf(logs, e),
                    native |-> UNION {NativeOf(t, n) : n \in own(op)}]
      BY <1>2, <2>1 DEF Recorded
    <3> HIDE DEF e, own, as
    <3> QED BY <3>2, <3>3 DEF Closing
  <2> HIDE DEF as
  <2>3. ASSUME NEW op \in DOMAIN as, NEW x \in as[op].erc20 \cup as[op].withdrawn PROVE x.op = op
    <3>1. PICK e \in Ends(logs) : /\ logs[e].op = op /\ as[op].erc20 = Erc20Of(logs, e, known)
                                  /\ as[op].withdrawn = WithdrawnOf(logs, e)
      BY <2>2
    <3>2. PICK k \in Closed(logs, e) : x = logs[k] /\ logs[k].kind \in {"transfer", "withdrawn"}
      BY <2>3, <3>1 DEF Erc20Of, WithdrawnOf
    <3> QED BY <3>1, <3>2, ClosedInOrder
  <2>4. ASSUME NEW op \in DOMAIN as, NEW x \in as[op].native
        PROVE  \E n, m : Collected(t, op, x, n, m)
    <3>1. x \in UNION {NativeOf(t, n) : n \in own(op)}
      BY <2>2
    <3>2. PICK n \in own(op) : x \in NativeOf(t, n)
      BY <3>1
    <3>3. PICK m \in DOMAIN t : m <= n /\ t[m].op = x.op /\ \A k \in m..n-1 : ~Collects(t[k])
      BY <3>2, ValueFrom
    <3> QED BY <3>2, <3>3 DEF Collected
  <2>5. DOMAIN t \subseteq Nat /\ \A m, n \in DOMAIN t : t[m].op = t[n].op => m = n
    BY DEF InTurn
  <2>6. ASSUME NEW op \in DOMAIN as, NEW x \in as[op].native
        PROVE  x.op = op \/ \E n \in DOMAIN t : t[n].op = x.op /\ ~Collects(t[n])
    <3>1. PICK n, m : Collected(t, op, x, n, m)
      BY <2>4
    <3>2. m = n \/ m \in m..n-1
      BY <2>5, <3>1 DEF Collected
    <3> QED BY <3>1, <3>2 DEF Collected
  <2>7. ASSUME NEW op \in DOMAIN as, NEW q \in DOMAIN as \ {op}, NEW x \in as[op].native, x \in as[q].native
        PROVE  FALSE
    <3>1. PICK n, m : Collected(t, op, x, n, m)
      BY <2>4
    <3>2. PICK i, j : Collected(t, q, x, i, j)
      BY <2>4, <2>7
    <3>3. j = m /\ i # n
      BY <2>5, <3>1, <3>2 DEF Collected
    <3>4. n \in j..i-1 \/ i \in m..n-1
      BY <2>5, <3>1, <3>2, <3>3 DEF Collected
    <3> QED BY <3>1, <3>2, <3>4 DEF Collected
  <2> QED BY <2>3, <2>6, <2>7 DEF Owned, as
<1> QED BY <1>1, <1>2

-----------------------------------------------------------------------------
(* Requests *)

IsAsk(q) == \E listed : q \in QuoteRequest(listed)

LEMMA AskFields ==
  ASSUME NEW q, IsAsk(q)
  PROVE  /\ q.type \in {"none", "simple", "onchain"} \cup Triggering
         /\ q.permit \in BOOLEAN /\ q.simulate \in BOOLEAN /\ q.newSdk \in BOOLEAN
         /\ q.sponsor \in {"none", "third", "trusted"}
         /\ \A c \in DOMAIN q.versions : q.versions[c] \in Nat
         /\ q.pay \in [chain : Chains, token : STRING \cup {Native}, sender : STRING, deploys : BOOLEAN, refund : STRING]
         /\ q.trigger = NoTrigger
            \/ q.trigger \in [chain : Chains, token : STRING \cup {Native}, amount : Nat]
         /\ q.ops \in Seq(UserOp) /\ q.ops # <<>>
         /\ q.simulate => q.type # "none"
         /\ ~q.permit => q.trigger = NoTrigger
<1>1. PICK listed : q \in QuoteRequest(listed)
  BY DEF IsAsk
<1> QED BY <1>1 DEF QuoteRequest

LEMMA AskedOps ==
  ASSUME NEW q, IsAsk(q)
  PROVE  /\ Len(q.ops) \in Nat \ {0} /\ Indices(q) = 1..(Len(q.ops) + 1)
         /\ Requested(q)[1].session = "no" /\ Requested(q)[1].chain = q.pay.chain
         /\ Requested(q)[1].deploys = (q.pay.deploys /\ ~Trusted(q))
         /\ Requested(q)[1].actions = <<>>
         /\ \A i \in 2..(Len(q.ops) + 1) : Requested(q)[i] = q.ops[i - 1] /\ i - 1 \in DOMAIN q.ops
         /\ \A i \in DOMAIN q.ops : q.ops[i] \in UserOp
<1> DEFINE first == [sender |-> q.pay.sender, chain |-> q.pay.chain, deploys |-> q.pay.deploys /\ ~Trusted(q),
                     calls |-> 1, session |-> "no", spends |-> FALSE, own |-> "absent", actions |-> <<>>]
           n == Len(q.ops)
<1>1. q.ops \in Seq(UserOp) /\ q.ops # <<>>
  BY AskFields
<1>2. n \in Nat /\ n # 0 /\ DOMAIN q.ops = 1..n /\ \A i \in DOMAIN q.ops : q.ops[i] \in UserOp
  BY <1>1, EmptySeq, LenProperties, ElementOfSeq
<1>3. Requested(q) = <<first>> \o q.ops
  BY DEF Requested
<1>4. first.session = "no" /\ first.chain = q.pay.chain /\ first.deploys = (q.pay.deploys /\ ~Trusted(q))
      /\ first.actions = <<>>
  OBVIOUS
<1> HIDE DEF first
<1>5. Requested(q) = [i \in 1..(n + 1) |-> IF i <= 1 THEN first ELSE q.ops[i - 1]]
  <2>1. <<first>> \o q.ops = [i \in 1..(Len(<<first>>) + Len(q.ops)) |->
                                IF i <= Len(<<first>>) THEN <<first>>[i] ELSE q.ops[i - Len(<<first>>)]]
    BY <1>1
  <2> QED BY <1>2, <1>3
<1> HIDE DEF n
<1>6. Indices(q) = 1..(n + 1)
  BY <1>5 DEF Indices
<1>7. Requested(q)[1] = first
  BY <1>2, <1>5
<1>8. \A i \in 2..(n + 1) : Requested(q)[i] = q.ops[i - 1] /\ i - 1 \in DOMAIN q.ops
  BY <1>2, <1>5
<1> QED BY <1>2, <1>4, <1>6, <1>7, <1>8 DEF n

LEMMA GivenRequest ==
  ASSUME RequestInv
  PROVE  /\ IsAsk(r) /\ N \in Nat /\ N >= 2 /\ Indices(r) = 1..N
         /\ \E s \in Requests : r = s.ask /\ funds = s.funds
<1>1. PICK s \in Requests : r = s.ask /\ funds = s.funds
  BY DEF RequestInv, r
<1>2. IsAsk(r)
  BY <1>1, QuoteConstantsOK DEF IsAsk
<1> HIDE DEF r
<1> QED BY <1>1, <1>2, AskedOps DEF N

-----------------------------------------------------------------------------
(* Gas limits *)

\* innerHandleOp has run, so its gas is in the trace.
LEMMA RanInner == ASSUME NEW t, CallTrace(t), Ran(t) PROVE Spends(t, "inner")
BY DEF CallTrace, Ran, Spends

\* In a request that is prepared, the userOp that carries the trigger is simulated with it.
LEMMA TriggerIsPrepared ==
  ASSUME IsAsk(r), Regular(r), ~PreparationThrows(r), NEW i \in Indices(r), Triggers(r.type, Sponsored(r), i)
  PROVE  TriggerPrepared(r, i) /\ r.type \in Triggering
<1>1. r.type \in Triggering /\ i = (IF Sponsored(r) THEN 2 ELSE 1)
  BY DEF Triggers
<1>2. Fusion(r) /\ r.trigger # NoTrigger
  BY <1>1 DEF Triggering, Fusion, PreparationThrows
<1>3. ASSUME Sponsored(r) PROVE TokenPull(r, 2)
  <2>1. Requested(r)[2] = r.ops[1]
    BY AskedOps
  <2>2. r.ops[1].chain = r.trigger.chain
    BY <1>1, <1>2, <1>3 DEF Regular
  <2> QED BY <1>2, <2>1, <2>2 DEF TokenPull
<1> QED BY <1>1, <1>2, <1>3 DEF TriggerPrepared

\* Only userOps without a session carry a trigger, or deploy an account.
LEMMA SessionsRegular ==
  ASSUME IsAsk(r), Regular(r), NEW i \in Indices(r), Requested(r)[i].session # "no"
  PROVE  /\ ~Requested(r)[i].deploys /\ ~Triggers(r.type, Sponsored(r), i)
         /\ i \in 2..N
<1>1. i \in 2..N /\ Requested(r)[i] = r.ops[i - 1] /\ i - 1 \in DOMAIN r.ops
  BY AskedOps DEF N
<1>2. ~r.ops[i - 1].deploys /\ r.type \notin Triggering
  BY <1>1 DEF Regular
<1> QED BY <1>1, <1>2 DEF Triggers

LEMMA LimitsCover ==
  ASSUME IsAsk(r), Regular(r), ~PreparationThrows(r), NEW i \in Indices(r), ~TrustedPayment(r, i),
         NEW t, CallTrace(t), Ran(t), Deploys(r, i) => Spends(t, "create")
  PROVE  /\ Needs(i).verification \subseteq VerificationCovers(r, i, t)
         /\ Needs(i).call \subseteq CallCovers(r, i, t)
         /\ Requested(r)[i].session = "use" => PoliciesCover(r, i) = Reads(i)
<1> DEFINE o == Requested(r)[i]
<1>1. o.session \in {"no", "use", "enable"} /\ o.deploys \in BOOLEAN
  <2>1. CASE i = 1
    <3>1. r.pay.deploys \in BOOLEAN
      BY AskFields
    <3> QED BY <2>1, <3>1, AskedOps
  <2>2. CASE i # 1
    <3>1. i \in 2..(Len(r.ops) + 1)
      BY <2>2, AskedOps
    <3>2. o = r.ops[i - 1] /\ r.ops[i - 1] \in UserOp
      BY <3>1, AskedOps
    <3> QED BY <3>2 DEF UserOp
  <2> QED BY <2>1, <2>2
<1>2. o.deploys /\ FirstSeen(r, i) => Spends(t, "create") /\ FirstSeen(r, i) /\ Deploys(r, i)
  <2> SUFFICES ASSUME o.deploys PROVE Deploys(r, i)
    OBVIOUS
  <2>1. ~(Sponsored(r) /\ i = 1)
    BY AskedOps DEF Regular
  <2> QED BY <2>1 DEF Deploys
<1>3. Needs(i).call \subseteq CallCovers(r, i, t)
  BY RanInner DEF Needs, CallCovers
<1>4. Needs(i).verification \subseteq VerificationCovers(r, i, t)
  <2>1. CASE o.session = "no"
    <3>1. Triggers(r.type, Sponsored(r), i) => TriggerPrepared(r, i) /\ r.type \in Triggering
      BY TriggerIsPrepared
    <3> QED BY <1>2, <2>1, <3>1 DEF Needs, VerificationCovers
  <2>2. CASE o.session # "no"
    <3>1. ~o.deploys /\ ~Triggers(r.type, Sponsored(r), i)
      BY <2>2, SessionsRegular
    <3> QED BY <1>1, <2>2, <3>1 DEF Needs, VerificationCovers
  <2> QED BY <2>1, <2>2
<1>5. ASSUME o.session = "use" PROVE PoliciesCover(r, i) = Reads(i)
  <2> DEFINE as == o.actions
  <2>1. PoliciesCover(r, i) = {PolicyRead(as, k) : k \in {j \in DOMAIN as : as[j] # NoAction}}
    BY <1>5 DEF PoliciesCover
  <2>2. Reads(i) = {[call |-> k, cold |-> as[k] \notin {as[j] : j \in 1..k-1}] :
                      k \in {j \in DOMAIN as : as[j] # NoAction}}
    BY DEF Reads
  <2>3. \A k : PolicyRead(as, k) = [call |-> k, cold |-> as[k] \notin {as[j] : j \in 1..k-1}]
    <3> SUFFICES ASSUME NEW k PROVE PolicyRead(as, k) = [call |-> k, cold |-> as[k] \notin {as[j] : j \in 1..k-1}]
      OBVIOUS
    <3>1. (\A j \in 1..k-1 : as[j] # as[k]) <=> as[k] \notin {as[j] : j \in 1..k-1}
      OBVIOUS
    <3> HIDE DEF as
    <3> QED BY <3>1 DEF PolicyRead
  <2> QED BY <2>1, <2>2, <2>3
<1> QED BY <1>3, <1>4, <1>5

-----------------------------------------------------------------------------
(* Costs *)

\* g sums up the first costs, one by one.
SumsUp(g, costs, n) == g \in [0..n -> Nat] /\ g[0] = 0 /\ \A i \in 1..n : g[i] = g[i - 1] + costs[i]

LEMMA SumExists ==
  ASSUME NEW n \in Nat, NEW costs \in [1..n -> Nat]
  PROVE  \E g : SumsUp(g, costs, n)
<1> DEFINE Bad == {k \in Nat : k <= n /\ ~ \E g : SumsUp(g, costs, k)}
<1> SUFFICES ASSUME ~ \E g : SumsUp(g, costs, n) PROVE FALSE
  OBVIOUS
<1>1. PICK k \in Bad : \A l \in Bad : k <= l
  <2>1. n \in Bad
    OBVIOUS
  <2> HIDE DEF Bad
  <2>2. Bad \in SUBSET Nat
    BY DEF Bad
  <2> QED BY <2>1, <2>2, LeastExists
<1>2. CASE k = 0
  <2>1. SumsUp([i \in 0..0 |-> 0], costs, 0)
    BY DEF SumsUp
  <2> QED BY <1>2, <2>1
<1>3. CASE k # 0
  <2>1. k - 1 \in Nat /\ k - 1 <= n /\ k \in 1..n /\ k - 1 \notin Bad
    BY <1>1, <1>3
  <2>2. PICK g : SumsUp(g, costs, k - 1)
    BY <2>1
  <2> DEFINE h == [i \in 0..k |-> IF i = k THEN g[k - 1] + costs[k] ELSE g[i]]
  <2>3. h \in [0..k -> Nat] /\ h[0] = 0
    BY <1>3, <2>1, <2>2 DEF SumsUp
  <2>4. ASSUME NEW i \in 1..k PROVE h[i] = h[i - 1] + costs[i]
    <3>1. i \in 0..k /\ i - 1 \in 0..k /\ i - 1 # k
      BY <2>1
    <3>2. h[i - 1] = g[i - 1] /\ h[i] = (IF i = k THEN g[k - 1] + costs[k] ELSE g[i])
      BY <3>1
    <3>3. i # k => i \in 1..(k - 1)
      BY <2>1
    <3> HIDE DEF h
    <3> QED BY <2>2, <3>2, <3>3 DEF SumsUp
  <2>5. SumsUp(h, costs, k)
    <3> HIDE DEF h
    <3> QED BY <2>3, <2>4 DEF SumsUp
  <2> QED BY <2>5
<1> QED BY <1>2, <1>3

LEMMA SumIsNat ==
  ASSUME NEW n \in Nat, NEW costs \in [1..n -> Nat]
  PROVE  SumOf(costs) \in Nat
<1> DEFINE sum[i \in 0..Len(costs)] == IF i = 0 THEN 0 ELSE sum[i - 1] + costs[i]
           body(f) == [i \in 0..n |-> IF i = 0 THEN 0 ELSE f[i - 1] + costs[i]]
<1>1. Len(costs) = n
  <2>1. costs \in Seq(Nat)
    OBVIOUS
  <2> QED BY <2>1, LenProperties
<1>2. SumOf(costs) = sum[n]
  BY <1>1 DEF SumOf
<1>3. PICK g : SumsUp(g, costs, n)
  BY SumExists
<1>4. g = body(g)
  BY <1>3 DEF SumsUp
<1>5. sum = body(sum)
  BY <1>1, <1>4
<1> HIDE DEF sum
<1>6. sum = [i \in 0..n |-> sum[i]] /\ sum[0] = 0 /\ \A i \in 1..n : sum[i] = sum[i - 1] + costs[i]
  BY <1>5
<1> DEFINE Bad == {k \in 0..n : sum[k] \notin Nat}
<1> SUFFICES ASSUME n \in Bad PROVE FALSE
  BY <1>2
<1>7. PICK k \in Bad : \A l \in Bad : k <= l
  <2> HIDE DEF Bad
  <2>1. Bad \in SUBSET Nat
    BY DEF Bad
  <2> QED BY <2>1, LeastExists
<1>8. k # 0
  BY <1>6
<1>9. k \in 1..n /\ k - 1 \in 0..n /\ k - 1 \notin Bad
  BY <1>7, <1>8
<1> QED BY <1>6, <1>9

LEMMA DivisionIsNat == ASSUME NEW a \in Nat, NEW b \in Nat, b # 0 PROVE a \div b \in Nat
OBVIOUS

LEMMA RoundedIsNat == ASSUME NEW a \in Nat, NEW b \in Nat, b # 0 PROVE Rounded(a, b) \in Nat
<1>1. 2 * a + b \in Nat /\ 2 * b \in Nat /\ 2 * b # 0
  OBVIOUS
<1> QED BY <1>1, DivisionIsNat DEF Rounded

\* What the chain answers about the layer below is a cost, or fails.
LEMMA L1Answered ==
  ASSUME NEW c \in Chains, NEW a \in L1Answers[c], NEW base \in Nat, L1Cost(ChainType[c], a, base) # Failure
  PROVE  L1Cost(ChainType[c], a, base) \in Answers
<1> DEFINE l1 == L1Cost(ChainType[c], a, base)
<1>1. CASE ChainType[c] = "optimism" /\ a.fee \in Nat
  <2>1. base # 0 /\ l1 = [used |-> a.fee \div base, fee |-> a.fee]
    BY <1>1 DEF L1Cost, OptimismL1
  <2>2. a.fee \div base \in Nat
    BY <1>1, <2>1, DivisionIsNat
  <2> QED BY <1>1, <2>1, <2>2 DEF Answers
<1>2. CASE ChainType[c] = "arbitrum" /\ a.gas \in Nat /\ a.price \in Nat
  <2> DEFINE size == IF a.price = 0 THEN 0 ELSE (a.gas * base) \div a.price
  <2>1. base # 0 /\ l1 = [used |-> (a.price * size) \div base, fee |-> a.price * size]
    BY <1>2 DEF L1Cost, ArbitrumL1
  <2>2. size \in Nat
    <3>1. a.gas * base \in Nat
      BY <1>2
    <3> QED BY <1>2, <3>1, DivisionIsNat
  <2>3. a.price * size \in Nat
    <3> HIDE DEF size
    <3> QED BY <1>2, <2>2
  <2>4. (a.price * size) \div base \in Nat
    BY <2>1, <2>3, DivisionIsNat
  <2> HIDE DEF size
  <2> QED BY <2>1, <2>3, <2>4 DEF Answers
<1>3. CASE ChainType[c] = "other"
  BY <1>3 DEF L1Cost, Answers
<1> QED BY <1>1, <1>2, <1>3, QuoteConstantsOK

\* Every set of things a limit covers is finite.
LEMMA CoversFinite ==
  ASSUME IsAsk(r), NEW i \in Indices(r), NEW t
  PROVE  /\ IsFiniteSet(VerificationCovers(r, i, t)) /\ IsFiniteSet(CallCovers(r, i, t))
         /\ IsFiniteSet(PoliciesCover(r, i))
<1>1. IsFiniteSet({"nonce", "session", "enable", "validate"}) /\ IsFiniteSet({"create", "trigger"})
      /\ IsFiniteSet({"calls", "pull"})
  <2>1. \A a, b : IsFiniteSet({a, b})
    <3> SUFFICES ASSUME NEW a, NEW b PROVE IsFiniteSet({a, b})
      OBVIOUS
    <3>1. IsFiniteSet({a} \cup {b})
      BY FS_Singleton, FS_Union
    <3>2. {a} \cup {b} = {a, b}
      OBVIOUS
    <3> QED BY <3>1, <3>2
  <2>2. IsFiniteSet({"nonce", "session"} \cup {"enable", "validate"})
    BY <2>1, FS_Union
  <2>3. {"nonce", "session"} \cup {"enable", "validate"} = {"nonce", "session", "enable", "validate"}
    OBVIOUS
  <2> QED BY <2>1, <2>2, <2>3
<1>2. IsFiniteSet({"nonce", "session", "enable", "validate"} \cup {"create", "trigger"})
  BY <1>1, FS_Union
<1>3. VerificationCovers(r, i, t) \subseteq {"nonce", "session", "enable", "validate"} \cup {"create", "trigger"}
  BY DEF VerificationCovers
<1>4. CallCovers(r, i, t) \subseteq {"calls", "pull"}
  BY DEF CallCovers
<1>5. IsFiniteSet(PoliciesCover(r, i))
  <2> DEFINE as == Requested(r)[i].actions
             D  == {j \in DOMAIN as : as[j] # NoAction}
             F  == [k \in D |-> PolicyRead(as, k)]
  <2>1. CASE Requested(r)[i].session # "use"
    BY <2>1, FS_EmptySet DEF PoliciesCover
  <2>2. CASE Requested(r)[i].session = "use"
    <3>1. i \in 2..(Len(r.ops) + 1) /\ Requested(r)[i] \in UserOp
      BY <2>2, AskedOps
    <3>2. as \in Seq(STRING \cup {NoAction})
      BY <3>1 DEF UserOp
    <3>3. IsFiniteSet(DOMAIN as)
      <4>1. DOMAIN as = 1..Len(as) /\ Len(as) \in Nat
        BY <3>2
      <4>2. \A n \in Nat : IsFiniteSet(1..n)
        BY FS_Interval
      <4> HIDE DEF as
      <4> QED BY <4>1, <4>2
    <3>4. IsFiniteSet(D)
      <4>1. D \subseteq DOMAIN as
        OBVIOUS
      <4> HIDE DEF as, D
      <4> QED BY <3>3, <4>1, FS_Subset
    <3>5. PoliciesCover(r, i) = {F[k] : k \in D}
      BY <2>2 DEF PoliciesCover
    <3>6. IsFiniteSet({F[k] : k \in D})
      <4> DEFINE X == {F[k] : k \in D}
      <4>1. F \in Surjection(D, X)
        BY DEF Surjection
      <4> HIDE DEF F, D
      <4> QED BY <3>4, <4>1, FS_Surjection
    <3> QED BY <3>5, <3>6
  <2> QED BY <2>1, <2>2
<1> QED BY <1>1, <1>2, <1>3, <1>4, <1>5, FS_Subset

LEMMA LimitsFinite ==
  ASSUME IsAsk(r), NEW i \in Indices(r), sims = <<>> \/ Outcome(i, sims[i])
  PROVE  /\ IsFiniteSet(Limits(i).verification) /\ IsFiniteSet(Limits(i).call) /\ IsFiniteSet(Limits(i).policies)
<1>1. IsFiniteSet({}) /\ \A a : IsFiniteSet({a})
  BY FS_EmptySet, FS_Singleton
<1>2. \A b : IsFiniteSet(DefaultCovers(b))
  <2>1. \A b : DefaultCovers(b) \subseteq {"base"} \cup {"create"}
    BY DEF DefaultCovers
  <2>2. IsFiniteSet({"base"} \cup {"create"})
    BY <1>1, FS_Union
  <2> QED BY <2>1, <2>2, FS_Subset
<1>3. CASE TrustedPayment(r, i) \/ sims = <<>>
  BY <1>1, <1>2, <1>3 DEF Limits
<1>4. CASE ~TrustedPayment(r, i) /\ sims # <<>>
  <2>1. Limits(i) = [verification |-> sims[i].verification, call |-> sims[i].call, policies |-> sims[i].policies]
    BY <1>4 DEF Limits
  <2>2. CASE sims[i] = NoLimits(TRUE) \/ sims[i] = NoLimits(FALSE)
    <3>1. Limits(i).verification = {} /\ Limits(i).call = {} /\ Limits(i).policies = {}
      BY <2>1, <2>2 DEF NoLimits
    <3> QED BY <1>1, <3>1
  <2>3. CASE \E t : sims[i] = Result(i, t)
    BY <2>1, <2>3, CoversFinite DEF Result
  <2> QED BY <1>4, <2>2, <2>3 DEF Outcome
<1> QED BY <1>3, <1>4

LEMMA CostIsNat ==
  ASSUME IsAsk(r), NEW i \in Indices(r), sims = <<>> \/ Outcome(i, sims[i]), NEW o, Priced(i, o)
  PROVE  OpCost(o) \in Nat
<1>1. \E pays : o = Packed(i, pays, o.price, o.l1) /\ o.price \in Nat /\ o.l1 \in Answers
  BY DEF Priced, Packed, Answers
<1> DEFINE c == Cardinality(Limits(i).verification) + Cardinality(Limits(i).call)
                + Cardinality(Limits(i).policies)
<1>2. c \in Nat
  <2>1. /\ Cardinality(Limits(i).verification) \in Nat /\ Cardinality(Limits(i).call) \in Nat
        /\ Cardinality(Limits(i).policies) \in Nat
    BY LimitsFinite, FS_CardinalityType
  <2> QED BY <2>1
<1>3. o.limit = c + o.l1.used
  BY <1>1 DEF Packed
<1> HIDE DEF c
<1>4. o.l1.used \in Nat /\ o.l1.fee \in Nat /\ o.price \in Nat
  BY <1>1 DEF Answers
<1>5. o.limit - o.l1.used = c
  BY <1>2, <1>3, <1>4
<1>6. o.price * c \in Nat
  BY <1>2, <1>4
<1> QED BY <1>4, <1>5, <1>6 DEF OpCost

LEMMA TotalIsNat ==
  ASSUME RequestInv, NEW os, DOMAIN os = 1..N,
         \A i \in 1..N : Priced(i, os[i]) /\ (sims = <<>> \/ Outcome(i, sims[i]))
  PROVE  Total(os) \in Nat
<1> DEFINE costs == [i \in DOMAIN os |-> OpCost(os[i])]
<1>1. costs \in [1..N -> Nat] /\ N \in Nat
  BY GivenRequest, CostIsNat
<1>2. Total(os) = SumOf(costs)
  BY DEF Total
<1> HIDE DEF costs
<1> QED BY <1>1, <1>2, SumIsNat

\* The price feed keeps its type, whatever the cost.
LEMMA FeedTyped ==
  ASSUME RequestInv, NEW c, NEW x \in Charges(c)
  PROVE  x.feed \in [price : Nat, expired : BOOLEAN]
<1>1. caches.feed \in [price : Nat, expired : BOOLEAN] /\ TokenPrices \subseteq Nat
  BY QuoteConstantsOK DEF RequestInv, Caches
<1>2. CASE FeeType(r) = "ARBITRARY_TOKEN"
  BY <1>1, <1>2 DEF Charges
<1>3. CASE FeeType(r) # "ARBITRARY_TOKEN"
  <2>1. PICK p \in OraclePrices(caches.feed, TokenPrices) :
          x = [amount |-> TokenAmount(c, p),
               feed |-> IF CacheServes(caches.feed) THEN caches.feed ELSE [price |-> p, expired |-> FALSE]]
    BY <1>3 DEF Charges
  <2>2. p \in Nat
    BY <1>1, <2>1 DEF OraclePrices
  <2> QED BY <1>1, <2>1, <2>2
<1> QED BY <1>2, <1>3

LEMMA AmountTyped ==
  ASSUME RequestInv, NEW c \in Nat, NEW x \in Charges(c)
  PROVE  x.amount \in Nat
<1>1. caches.feed \in [price : Nat, expired : BOOLEAN] /\ TokenPrices \subseteq Nat /\ GluexRates \subseteq Nat
  BY QuoteConstantsOK DEF RequestInv, Caches
<1>2. CASE FeeType(r) = "ARBITRARY_TOKEN"
  <2>1. PICK ps \in SUBSET {"lifi", "gluex"} : x.amount \in Routed(c, ps, TokenPrices, TokenPrices, GluexRates)
    BY <1>2 DEF Charges
  <2>2. x.amount \in Lifi(c, TokenPrices) \cup Gluex(c, TokenPrices, GluexRates)
    BY <2>1 DEF Routed
  <2>3. Lifi(c, TokenPrices) \subseteq Nat
    BY <1>1, RoundedIsNat DEF Lifi
  <2>4. Gluex(c, TokenPrices, GluexRates) \subseteq Nat
    <3>1. \A p \in TokenPrices \ {0}, y \in GluexRates \ {0} : Rounded(Rounded(c, p), y) \in Nat
      BY <1>1, RoundedIsNat
    <3> QED BY <3>1 DEF Gluex
  <2> QED BY <2>2, <2>3, <2>4
<1>3. CASE FeeType(r) # "ARBITRARY_TOKEN"
  <2>1. PICK p \in OraclePrices(caches.feed, TokenPrices) : x.amount = TokenAmount(c, p)
    BY <1>3 DEF Charges
  <2>2. p \in Nat
    BY <1>1, <2>1 DEF OraclePrices
  <2> QED BY <2>1, <2>2, RoundedIsNat DEF TokenAmount
<1> QED BY <1>2, <1>3

-----------------------------------------------------------------------------
(* The request *)

LEMMA RequestInit == Init => RequestInv
<1> SUFFICES ASSUME Init PROVE RequestInv
  OBVIOUS
<1>1. PICK s \in Requests : request = s.ask /\ funds = s.funds /\ caches = s.caches
  BY DEF Init
<1>2. caches \in Caches /\ Null \notin Reasons
  BY <1>1, QuoteConstantsOK
<1> QED BY <1>1, <1>2 DEF Init, RequestInv, Phases, Early

\* No step changes what was asked.
LEMMA RequestStands == ASSUME Next PROVE UNCHANGED <<request, funds>>
BY DEF Next, RefuseRequest, RequestQuote, CheckFunding, SimulationThrows, CollectSimulations, BalanceAnswered,
       SimulateOp, EstimateOp, PriceFee, Commit, Send, ExecuteQuote, ValidateSignature, ValidateExecution,
       Accept, RecordTransfers, asking

LEMMA SupportsTyped == ASSUME RequestInv, NEW yes \in BOOLEAN, Supports(yes) PROVE caches' \in Caches
BY DEF RequestInv, Supports, Caches

\* A refusal has a reason, and nothing else has one.
LEMMA RefusedStep ==
  ASSUME RequestInv, UNCHANGED <<request, funds>>, caches' \in Caches,
         \/ \E why \in Reasons : Refused(why)
         \/ phase # "refused" /\ phase' \in Phases \ {"refused"} /\ UNCHANGED reason
  PROVE  RequestInv'
<1>1. Null \notin Reasons
  BY QuoteConstantsOK
<1> QED BY <1>1 DEF RequestInv, Refused, Phases

LEMMA RequestStep == ASSUME RequestInv, [Next]_vars PROVE RequestInv'
<1>1. CASE UNCHANGED vars
  BY <1>1 DEF RequestInv, vars
<1>2. CASE Next
  <2>1. UNCHANGED <<request, funds>>
    BY <1>2, RequestStands
  <2> DEFINE Kept == caches' = caches
             Moved == phase # "refused" /\ phase' \in Phases \ {"refused"} /\ UNCHANGED reason
             Ended == \E why \in Reasons : Refused(why)
  <2>2. Kept => caches' \in Caches
    BY DEF RequestInv
  <2> USE DEF Reasons, Phases, Early, Given
  <2>3. CASE RefuseRequest
    <3>1. Ended /\ (Kept \/ Supports(TRUE) \/ Supports(FALSE))
      BY <2>3 DEF RefuseRequest
    <3> HIDE DEF Ended, Kept
    <3>2. caches' \in Caches
      BY <2>2, <3>1, SupportsTyped
    <3> QED BY <2>1, <3>1, <3>2, RefusedStep DEF Ended
  <2>4. CASE RequestQuote
    <3>1. (Ended \/ Moved) /\ (Kept \/ Supports(TRUE))
      BY <2>4 DEF RequestQuote
    <3> HIDE DEF Ended, Kept, Moved
    <3>2. caches' \in Caches
      BY <2>2, <3>1, SupportsTyped
    <3> QED BY <2>1, <3>1, <3>2, RefusedStep DEF Ended, Moved
  <2>5. CASE PriceFee
    <3>1. Ended \/ Moved
      BY <2>5 DEF PriceFee
    <3>2. Kept \/ \E x \in Charges(Total(ops)) : caches' = [caches EXCEPT !.feed = x.feed]
      BY <2>5 DEF PriceFee
    <3> HIDE DEF Ended, Moved
    <3>3. caches' \in Caches
      BY <2>2, <3>2, FeedTyped DEF RequestInv, Caches
    <3> QED BY <2>1, <3>1, <3>3, RefusedStep DEF Ended, Moved
  <2>6. CASE CheckFunding \/ SimulationThrows \/ CollectSimulations \/ (\E k \in DOMAIN balances : BalanceAnswered(k))
    <3>1. Kept /\ (Ended \/ Moved)
      BY <2>6 DEF CheckFunding, SimulationThrows, CollectSimulations, BalanceAnswered, asking
    <3> HIDE DEF Ended, Moved, Kept
    <3> QED BY <2>1, <2>2, <3>1, RefusedStep DEF Ended, Moved
  <2>7. CASE \E i \in 1..N : SimulateOp(i) \/ EstimateOp(i)
    <3>1. Kept /\ (Ended \/ Moved)
      BY <2>7 DEF SimulateOp, EstimateOp, asking
    <3> HIDE DEF Ended, Moved, Kept
    <3> QED BY <2>1, <2>2, <3>1, RefusedStep DEF Ended, Moved
  <2>8. CASE Commit \/ Send \/ ExecuteQuote \/ RecordTransfers
    <3>1. Kept /\ (Ended \/ Moved)
      BY <2>8 DEF Commit, Send, ExecuteQuote, RecordTransfers, asking
    <3> HIDE DEF Ended, Moved, Kept
    <3> QED BY <2>1, <2>2, <3>1, RefusedStep DEF Ended, Moved
  <2>9. CASE ValidateSignature \/ ValidateExecution \/ Accept
    <3>1. Kept /\ (Ended \/ Moved)
      BY <2>9 DEF ValidateSignature, ValidateExecution, Accept, asking
    <3> HIDE DEF Ended, Moved, Kept
    <3> QED BY <2>1, <2>2, <3>1, RefusedStep DEF Ended, Moved
  <2> QED BY <1>2, <2>3, <2>4, <2>5, <2>6, <2>7, <2>8, <2>9 DEF Next
<1> QED BY <1>1, <1>2

-----------------------------------------------------------------------------
(* Balances *)

\* Which balances are asked for, and in which order.
LEMMA AskedShape ==
  ASSUME NEW q
  PROVE  /\ Asked(q) \in Seq({q.pay, q.trigger}) /\ Len(Asked(q)) <= 2
         /\ ~Trusted(q) => 1 \in DOMAIN Asked(q) /\ Asked(q)[1] = q.pay
         /\ q.permit /\ Trusted(q) => 1 \in DOMAIN Asked(q) /\ Asked(q)[1] = q.trigger
         /\ q.permit /\ ~Trusted(q) /\ ~SameToken(q) => 2 \in DOMAIN Asked(q) /\ Asked(q)[2] = q.trigger
         /\ \A k \in DOMAIN Asked(q) : Asked(q)[k] = q.pay \/ (q.permit /\ Asked(q)[k] = q.trigger)
<1> DEFINE a == q.pay
           b == q.trigger
<1>1. /\ <<a>> \in Seq({a, b}) /\ <<b>> \in Seq({a, b}) /\ <<>> \in Seq({a, b})
      /\ <<>> \o <<>> = <<>> /\ <<>> \o <<b>> = <<b>> /\ <<a>> \o <<>> = <<a>>
      /\ LET s == <<a>> \o <<b>> IN s \in Seq({a, b}) /\ Len(s) = 2 /\ s[1] = a /\ s[2] = b
  <2>1. <<a>> \in Seq({a, b}) /\ <<b>> \in Seq({a, b}) /\ <<>> \in Seq({a, b})
    OBVIOUS
  <2>2. <<>> \o <<>> = <<>> /\ <<>> \o <<b>> = <<b>> /\ <<a>> \o <<>> = <<a>>
    BY <2>1, ConcatEmptySeq
  <2> DEFINE s == <<a>> \o <<b>>
  <2>3. s \in Seq({a, b}) /\ Len(s) = 2 /\ s[1] = a /\ s[2] = b
    <3>1. Len(<<a>>) = 1 /\ Len(<<b>>) = 1 /\ <<a>>[1] = a /\ <<b>>[1] = b
      OBVIOUS
    <3>2. s \in Seq({a, b}) /\ Len(s) = Len(<<a>>) + Len(<<b>>)
          /\ \A i \in 1..Len(<<a>>) + Len(<<b>>) : s[i] = IF i <= Len(<<a>>) THEN <<a>>[i] ELSE <<b>>[i - Len(<<a>>)]
      BY <2>1, ConcatProperties
    <3> HIDE DEF s
    <3> QED BY <3>1, <3>2
  <2> QED BY <2>1, <2>2, <2>3
<1> HIDE DEF a, b
<1>2. Asked(q) = (IF Trusted(q) THEN <<>> ELSE <<a>>)
                 \o (IF q.permit /\ (Trusted(q) \/ ~SameToken(q)) THEN <<b>> ELSE <<>>)
  BY DEF Asked, a, b
<1>3. CASE Trusted(q) /\ q.permit
  <2>1. Asked(q) = <<b>>
    BY <1>1, <1>2, <1>3
  <2> QED BY <1>1, <1>3, <2>1 DEF b
<1>4. CASE Trusted(q) /\ ~q.permit
  <2>1. Asked(q) = <<>>
    BY <1>1, <1>2, <1>4
  <2> QED BY <1>1, <1>4, <2>1 DEF a, b
<1>5. CASE ~Trusted(q) /\ q.permit /\ ~SameToken(q)
  <2>1. Asked(q) = <<a>> \o <<b>>
    BY <1>2, <1>5
  <2>2. Asked(q) \in Seq({a, b}) /\ Len(Asked(q)) = 2 /\ Asked(q)[1] = a /\ Asked(q)[2] = b
    BY <1>1, <2>1
  <2>3. DOMAIN Asked(q) = 1..2
    BY <2>2
  <2> QED BY <1>5, <2>2, <2>3 DEF a, b
<1>6. CASE ~Trusted(q) /\ ~(q.permit /\ ~SameToken(q))
  <2>1. Asked(q) = <<a>>
    BY <1>1, <1>2, <1>6
  <2> QED BY <1>1, <1>6, <2>1 DEF a, b
<1> QED BY <1>3, <1>4, <1>5, <1>6

LEMMA BalanceIsNat ==
  ASSUME RequestInv, r.permit => r.trigger # NoTrigger, NEW k \in DOMAIN Asked(r)
  PROVE  Balance(k) \in Nat
<1>1. PICK s \in Requests : r = s.ask /\ funds = s.funds
  BY GivenRequest
<1>2. Holder(r) \in {"eoa", s.ask.ops[1].sender}
  BY <1>1 DEF Holder
<1>3. CASE Asked(r)[k] = r.pay
  BY <1>1, <1>2, <1>3, QuoteConstantsOK DEF Balance
<1>4. CASE r.permit /\ Asked(r)[k] = r.trigger
  BY <1>1, <1>2, <1>4, QuoteConstantsOK DEF Balance
<1> QED BY <1>3, <1>4, AskedShape

\* Nothing is read after the handler has gone on.
LEMMA BalancesStay ==
  ASSUME BalanceInv, UNCHANGED <<request, funds, balances>>,
         \/ phase' = "refused" \/ UNCHANGED phase
         \/ phase \notin {"asked", "balances", "refused"} /\ phase' \notin {"asked", "balances"}
  PROVE  BalanceInv'
<1>1. CASE phase' = "refused"
  BY <1>1 DEF BalanceInv, Balance, r
<1>2. CASE UNCHANGED phase
  BY <1>2 DEF BalanceInv, Balance, TriggerBalance, PaymentBalance, r
<1>3. CASE phase \notin {"asked", "balances", "refused"} /\ phase' \notin {"asked", "balances"}
  BY <1>3 DEF BalanceInv, Balance, TriggerBalance, PaymentBalance, r
<1> QED BY <1>1, <1>2, <1>3

LEMMA BalanceInit == Init => BalanceInv
BY DEF Init, BalanceInv

LEMMA BalanceStep == ASSUME RequestInv, BalanceInv, [Next]_vars PROVE BalanceInv'
<1>1. CASE UNCHANGED vars
  BY <1>1, BalancesStay DEF vars
<1>2. CASE RefuseRequest
  BY <1>2, BalancesStay DEF RefuseRequest, Refused
<1>3. CASE RequestQuote
  <2>1. CASE ~r.simulate
    BY <1>3, <2>1 DEF RequestQuote, BalanceInv, Balance, r
  <2>2. CASE r.simulate /\ r.permit /\ r.trigger = NoTrigger
    BY <1>3, <2>2, BalancesStay DEF RequestQuote, Refused
  <2>3. CASE r.simulate /\ ~(r.permit /\ r.trigger = NoTrigger)
    BY <1>3, <2>3 DEF RequestQuote, BalanceInv, Balance, r
  <2> QED BY <2>1, <2>2, <2>3
<1>4. ASSUME NEW k \in DOMAIN balances, BalanceAnswered(k) PROVE BalanceInv'
  <2>1. CASE Refused("rpc")
    <3>1. UNCHANGED <<request, funds, balances>>
      BY <1>4, <2>1, RequestStands DEF BalanceAnswered, Refused, asking, RequestInv
    <3> QED BY <2>1, <3>1, BalancesStay DEF Refused
  <2>2. CASE balances' = [balances EXCEPT ![k] = Balance(k)] /\ UNCHANGED <<phase, request, funds>>
    <3>1. phase = "balances" /\ DOMAIN balances = DOMAIN Asked(r) /\ (r.permit => r.trigger # NoTrigger)
      BY <1>4 DEF BalanceAnswered, BalanceInv
    <3>2. Balance(k) \in Nat
      BY <3>1, BalanceIsNat
    <3>3. balances \in [DOMAIN Asked(r) -> Nat \cup {Null}]
      BY <1>4, <3>1 DEF BalanceInv
    <3>4. balances' \in [DOMAIN Asked(r) -> Nat \cup {Null}]
      BY <2>2, <3>2, <3>3
    <3>5. \A j \in DOMAIN balances' : balances'[j] \in {Null, Balance(j)}
      BY <2>2 DEF BalanceInv
    <3> QED BY <2>2, <3>1, <3>4, <3>5 DEF BalanceInv, Balance, r
  <2> QED BY <1>4, <2>1, <2>2 DEF BalanceAnswered, asking, Balance
<1>5. CASE CheckFunding
  <2>1. UNCHANGED <<request, funds, balances>> /\ phase = "balances"
    BY <1>5 DEF CheckFunding, asking
  <2>2. CASE phase' = "refused"
    BY <2>1, <2>2, BalancesStay
  <2>3. CASE phase' # "refused"
    <3>1. /\ phase' \in {"estimate", "simulate"} /\ \A k \in DOMAIN balances : balances[k] # Null
          /\ ~(r.permit /\ TriggerBalance < r.trigger.amount)
      BY <1>5, <2>3 DEF CheckFunding, Refused
    <3>2. \A k \in DOMAIN balances : balances[k] = Balance(k)
      BY <3>1 DEF BalanceInv
    <3>3. DOMAIN balances = DOMAIN Asked(r) /\ (r.permit => r.trigger # NoTrigger)
      BY <2>1 DEF BalanceInv
    <3>4. r.permit => TriggerBalance \in Nat /\ r.trigger.amount \in Nat
      <4> SUFFICES ASSUME r.permit PROVE TriggerBalance \in Nat /\ r.trigger.amount \in Nat
        OBVIOUS
      <4>1. r.trigger.amount \in Nat
        BY <3>3, GivenRequest, AskFields
      <4>2. \A k \in DOMAIN balances : balances[k] \in Nat
        BY <3>2, <3>3, BalanceIsNat
      <4>3. TriggerBalance \in Nat
        BY <3>3, <4>2, AskedShape DEF TriggerBalance, PaymentBalance
      <4> QED BY <4>1, <4>3
    <3>5. r.permit => TriggerBalance >= r.trigger.amount
      BY <3>1, <3>4
    <3> QED BY <2>1, <3>1, <3>2, <3>3, <3>5 DEF BalanceInv, Balance, TriggerBalance, PaymentBalance, r
  <2> QED BY <2>2, <2>3
<1>6. CASE SimulationThrows \/ CollectSimulations \/ (\E i \in 1..N : SimulateOp(i) \/ EstimateOp(i)) \/ PriceFee
  <2>1. UNCHANGED <<request, funds, balances>> /\ phase \notin {"asked", "balances", "refused"}
        /\ phase' \notin {"asked", "balances"}
    BY <1>6 DEF SimulationThrows, CollectSimulations, SimulateOp, EstimateOp, PriceFee, Refused, asking
  <2> QED BY <2>1, BalancesStay
<1>7. CASE Commit \/ Send \/ ExecuteQuote \/ ValidateSignature \/ ValidateExecution \/ Accept \/ RecordTransfers
  <2>1. UNCHANGED <<request, funds, balances>> /\ phase \notin {"asked", "balances", "refused"}
        /\ phase' \notin {"asked", "balances"}
    BY <1>7 DEF Commit, Send, ExecuteQuote, ValidateSignature, ValidateExecution, Accept, RecordTransfers,
                Refused, asking
  <2> QED BY <2>1, BalancesStay
<1> QED BY <1>1, <1>2, <1>3, <1>4, <1>5, <1>6, <1>7 DEF Next

-----------------------------------------------------------------------------
(* Simulations *)

LEMMA SimsEmpty == ASSUME sims' = <<>>, phase' # "simulate" PROVE SimsInv'
BY DEF SimsInv

LEMMA SimsStay ==
  ASSUME SimsInv, UNCHANGED <<request, sims>>, Past' => Past,
         phase' \in {"asked", "balances"} => sims = <<>>, phase' = "simulate" => sims # <<>>
  PROVE  SimsInv'
<1>1. \A i, x : Outcome(i, x)' <=> Outcome(i, x)
  BY DEF Outcome, Result, r
<1>2. sims' = sims /\ N' = N /\ (PreparationThrows(r)' <=> PreparationThrows(r))
  BY DEF N, r
<1>3. CASE sims = <<>>
  BY <1>2, <1>3 DEF SimsInv
<1>4. CASE sims # <<>>
  <2>1. ~PreparationThrows(r) /\ sims = [i \in 1..N |-> sims[i]]
    BY <1>4 DEF SimsInv
  <2>2. \A i \in 1..N : sims[i] = Null \/ Outcome(i, sims[i])
    BY <1>4 DEF SimsInv
  <2>3. Past => \A i \in 1..N : Outcome(i, sims[i]) /\ ~sims[i].revert
    BY <1>4 DEF SimsInv
  <2>4. (\A i \in 1..N : sims[i] = Null \/ Outcome(i, sims[i]))'
    BY <1>2, <2>2 DEF Outcome, Result, r
  <2>5. (Past => \A i \in 1..N : Outcome(i, sims[i]) /\ ~sims[i].revert)'
    BY <1>2, <2>3 DEF Outcome, Result, r
  <2> HIDE DEF Past
  <2> QED BY <1>2, <1>4, <2>1, <2>4, <2>5 DEF SimsInv
<1> QED BY <1>3, <1>4

LEMMA SimsInit == Init => SimsInv
BY DEF Init, SimsInv

LEMMA SimsStep == ASSUME RequestInv, SimsInv, QuoteInv, [Next]_vars PROVE SimsInv'
<1>1. CASE UNCHANGED vars
  BY <1>1, SimsStay DEF vars, SimsInv, Past
<1>2. CASE RefuseRequest \/ RequestQuote \/ SimulationThrows
  <2>1. sims' = <<>> /\ phase' # "simulate"
    BY <1>2 DEF RefuseRequest, RequestQuote, SimulationThrows, Refused, SimsInv
  <2> QED BY <2>1, SimsEmpty
<1>3. ASSUME NEW k \in DOMAIN balances, BalanceAnswered(k) PROVE SimsInv'
  <2>1. phase = "balances" /\ phase' \in {"balances", "refused"} /\ UNCHANGED sims
    BY <1>3 DEF BalanceAnswered, Refused
  <2> QED BY <2>1, SimsEmpty DEF SimsInv
<1>4. CASE CheckFunding
  <2>1. phase = "balances" /\ sims = <<>> /\ quote = Null /\ UNCHANGED <<request, quote>>
    BY <1>4 DEF CheckFunding, SimsInv, QuoteInv, Early, asking, pricing
  <2>2. CASE phase' # "simulate"
    <3>1. sims' = <<>>
      BY <1>4, <2>1, <2>2 DEF CheckFunding, Refused
    <3> QED BY <2>2, <3>1, SimsEmpty
  <2>3. CASE phase' = "simulate"
    <3>1. ~PreparationThrows(r) /\ sims' = [i \in 1..N |-> Null]
      BY <1>4, <2>3 DEF CheckFunding, Refused
    <3>2. N \in Nat /\ N >= 2 /\ N' = N
      BY <2>1, GivenRequest DEF N, r
    <3>3. sims' # <<>> /\ sims' = [i \in 1..N |-> sims'[i]] /\ \A i \in 1..N : sims'[i] = Null
      <4> HIDE DEF N
      <4> QED BY <3>1, <3>2
    <3>4. ~Past'
      BY <2>1, <2>3 DEF Past
    <3>5. ~PreparationThrows(r)'
      BY <2>1, <3>1 DEF r
    <3> HIDE DEF N, Past
    <3> QED BY <2>3, <3>2, <3>3, <3>4, <3>5 DEF SimsInv
  <2> QED BY <2>2, <2>3
<1>5. ASSUME NEW i \in 1..N, SimulateOp(i) PROVE SimsInv'
  <2>1. phase = "simulate" /\ UNCHANGED <<phase, request, quote>> /\ quote = Null
    BY <1>5 DEF SimulateOp, QuoteInv, Early, asking, pricing
  <2>2. sims # <<>> /\ ~PreparationThrows(r) /\ sims = [j \in 1..N |-> sims[j]]
        /\ \A j \in 1..N : sims[j] = Null \/ Outcome(j, sims[j])
    BY <2>1 DEF SimsInv
  <2>3. PICK x : sims' = [sims EXCEPT ![i] = x] /\ Outcome(i, x)
    <3>1. CASE TrustedPayment(r, i)
      BY <1>5, <3>1 DEF SimulateOp, Outcome
    <3>2. CASE ~TrustedPayment(r, i)
      <4>1. CASE sims' = [sims EXCEPT ![i] = NoLimits(TRUE)]
        BY <4>1 DEF Outcome
      <4>2. CASE \E t \in Traces[<<r, i>>] : sims' = [sims EXCEPT ![i] = Result(i, t)]
        <5>1. PICK t \in Traces[<<r, i>>] : sims' = [sims EXCEPT ![i] = Result(i, t)]
          BY <4>2
        <5>2. Result(i, t).trace = t
          BY DEF Result
        <5> QED BY <3>2, <5>1, <5>2 DEF Outcome
      <4> QED BY <1>5, <3>2, <4>1, <4>2 DEF SimulateOp
    <3> QED BY <3>1, <3>2
  <2>4. N \in Nat /\ N >= 2 /\ N' = N /\ (PreparationThrows(r)' <=> PreparationThrows(r))
    BY <2>1, GivenRequest DEF N, r
  <2>5. sims' = [j \in 1..N |-> IF j = i THEN x ELSE sims[j]]
    <3> HIDE DEF N
    <3> QED BY <2>2, <2>3
  <2>6. sims' # <<>> /\ sims' = [j \in 1..N |-> sims'[j]] /\ \A j \in 1..N : sims'[j] = Null \/ Outcome(j, sims'[j])
    <3> HIDE DEF N
    <3> QED BY <2>2, <2>3, <2>4, <2>5
  <2>7. (\A j \in 1..N : sims[j] = Null \/ Outcome(j, sims[j]))'
    BY <2>1, <2>4, <2>6 DEF Outcome, Result, r
  <2>8. ~Past'
    BY <2>1 DEF Past
  <2> HIDE DEF N, Past
  <2> QED BY <2>1, <2>2, <2>4, <2>6, <2>7, <2>8 DEF SimsInv
<1>6. CASE CollectSimulations
  <2>1. phase = "simulate" /\ UNCHANGED <<request, sims, quote>> /\ quote = Null /\ sims # <<>>
    BY <1>6 DEF CollectSimulations, SimsInv, QuoteInv, Early, asking, pricing
  <2>2. CASE phase' = "refused"
    <3>1. ~Past'
      BY <2>1, <2>2 DEF Past
    <3> QED BY <2>1, <2>2, <3>1, SimsStay
  <2>3. CASE phase' # "refused"
    <3>1. phase' = "estimate" /\ \A i \in 1..N : sims[i] # Null /\ ~sims[i].revert
      BY <1>6, <2>3 DEF CollectSimulations, Refused
    <3>2. ~PreparationThrows(r) /\ sims = [i \in 1..N |-> sims[i]]
          /\ \A i \in 1..N : Outcome(i, sims[i]) /\ ~sims[i].revert
      BY <2>1, <3>1 DEF SimsInv
    <3>3. sims' = sims /\ N' = N /\ (PreparationThrows(r)' <=> PreparationThrows(r))
      BY <2>1 DEF N, r
    <3>4. (\A i \in 1..N : Outcome(i, sims[i]) /\ ~sims[i].revert)'
      BY <2>1, <3>2, <3>3 DEF Outcome, Result, r
    <3> QED BY <2>1, <3>1, <3>2, <3>3, <3>4 DEF SimsInv
  <2> QED BY <2>2, <2>3
<1>7. CASE (\E i \in 1..N : EstimateOp(i)) \/ PriceFee \/ Commit \/ Send
  <2>1. UNCHANGED <<request, sims>> /\ Past /\ phase' \notin {"asked", "balances", "simulate"}
    BY <1>7 DEF EstimateOp, PriceFee, Commit, Send, Refused, Past, asking
  <2> QED BY <2>1, SimsStay
<1>8. CASE ExecuteQuote \/ ValidateSignature \/ ValidateExecution \/ Accept \/ RecordTransfers
  <2>1. UNCHANGED <<request, sims>> /\ Past /\ phase' \notin {"asked", "balances", "simulate"}
    BY <1>8 DEF ExecuteQuote, ValidateSignature, ValidateExecution, Accept, RecordTransfers, Refused, Past, asking
  <2> QED BY <2>1, SimsStay
<1> QED BY <1>1, <1>2, <1>3, <1>4, <1>5, <1>6, <1>7, <1>8 DEF Next

-----------------------------------------------------------------------------
(* Prices *)

LEMMA PricedStays ==
  ASSUME UNCHANGED <<request, sims, ops>>
  PROVE  \A i : Priced(i, ops[i])' <=> Priced(i, ops[i])
<1>1. request' = request /\ sims' = sims /\ ops' = ops
  OBVIOUS
<1> QED BY <1>1 DEF Priced, Packed, Limits, Refund, InitCode, Unpaid, r

LEMMA OpsStay ==
  ASSUME OpsInv, UNCHANGED <<request, sims, ops>>,
         phase' \in {"asked", "balances", "simulate"} => ops = <<>>, phase' = "estimate" => ops # <<>>
  PROVE  OpsInv'
<1>1. ops' = ops /\ N' = N
  BY DEF N, r
<1>2. CASE ops = <<>>
  BY <1>1, <1>2 DEF OpsInv
<1>3. CASE ops # <<>>
  <2>1. ops = [i \in 1..N |-> ops[i]] /\ \A i \in 1..N : ops[i] = Null \/ Priced(i, ops[i])
    BY <1>3 DEF OpsInv
  <2>2. (\A i \in 1..N : ops[i] = Null \/ Priced(i, ops[i]))'
    BY <1>1, <2>1, PricedStays
  <2> QED BY <1>1, <1>3, <2>1, <2>2 DEF OpsInv
<1> QED BY <1>2, <1>3

LEMMA OpsEmpty == ASSUME ops' = <<>>, phase' # "estimate" PROVE OpsInv'
BY DEF OpsInv

\* No userOp has its gas yet.
LEMMA OpsFresh ==
  ASSUME RequestInv, UNCHANGED request, phase' = "estimate", ops' = [i \in 1..N |-> Null]
  PROVE  OpsInv'
<1>1. N \in Nat /\ N >= 2 /\ N' = N
  BY GivenRequest DEF N, r
<1> HIDE DEF N
<1>2. ops' # <<>> /\ ops' = [i \in 1..N |-> ops'[i]] /\ \A i \in 1..N : ops'[i] = Null
  BY <1>1
<1> QED BY <1>1, <1>2 DEF OpsInv

LEMMA OpsInit == Init => OpsInv
BY DEF Init, OpsInv

\* The price of gas is the chain's, and so is the layer below.
LEMMA NewlyPriced ==
  ASSUME RequestInv, NEW i \in 1..N, EstimateOp(i), ~Refused("l1"), ~Refused("rpc")
  PROVE  \E o : ops' = [ops EXCEPT ![i] = o] /\ Priced(i, o)
<1>1. PICK p \in GasPrices :
        IF TrustedPayment(r, i)
        THEN ops' = [ops EXCEPT ![i] = Packed(i, Null, 0, [used |-> 0, fee |-> 0])]
        ELSE \E a \in L1Answers[Requested(r)[i].chain] :
               LET l1 == L1Cost(ChainType[Requested(r)[i].chain], a, p.base) IN
               l1 # Failure /\ ops' = [ops EXCEPT ![i] = Packed(i, Unpaid(i), p.base + p.tip, l1)]
  BY DEF EstimateOp
<1>2. CASE TrustedPayment(r, i)
  BY <1>1, <1>2 DEF Priced
<1>3. CASE ~TrustedPayment(r, i)
  <2>1. p.base \in Nat /\ p.tip \in Nat
    BY QuoteConstantsOK
  <2>2. Requested(r)[i].chain \in Chains
    <3>1. CASE i = 1
      BY <3>1, GivenRequest, AskFields, AskedOps
    <3>2. CASE i # 1
      <4>1. i \in 2..(Len(r.ops) + 1)
        BY <3>2, GivenRequest, AskedOps DEF N
      <4>2. Requested(r)[i] \in UserOp
        BY <4>1, GivenRequest, AskedOps
      <4> QED BY <4>2 DEF UserOp
    <3> QED BY <3>1, <3>2
  <2>3. PICK a \in L1Answers[Requested(r)[i].chain] :
          LET l1 == L1Cost(ChainType[Requested(r)[i].chain], a, p.base) IN
          l1 # Failure /\ ops' = [ops EXCEPT ![i] = Packed(i, Unpaid(i), p.base + p.tip, l1)]
    BY <1>1, <1>3
  <2> DEFINE l1 == L1Cost(ChainType[Requested(r)[i].chain], a, p.base)
             o  == Packed(i, Unpaid(i), p.base + p.tip, l1)
  <2>4. l1 \in Answers
    BY <2>1, <2>2, <2>3, L1Answered
  <2>5. o.price = p.base + p.tip /\ o.l1 = l1
    BY DEF Packed
  <2>6. Priced(i, o)
    <3>1. o.price \in Nat
      BY <2>1, <2>5
    <3> HIDE DEF l1
    <3> QED BY <1>3, <2>4, <2>5, <3>1 DEF Priced
  <2> QED BY <2>3, <2>6
<1> QED BY <1>2, <1>3

\* Nothing userOps are priced from has changed.
LEMMA OpsKept ==
  ASSUME UNCHANGED <<request, sims>>, phase' = "estimate", ops' # <<>>, ops' = [j \in 1..N |-> ops'[j]],
         \A j \in 1..N : ops'[j] = Null \/ Priced(j, ops'[j])
  PROVE  OpsInv'
<1>1. N' = N /\ request' = request /\ sims' = sims
  BY DEF N, r
<1>2. \A j : Refund(j)' = Refund(j)
  BY <1>1 DEF Refund, r
<1>3. (\A j \in 1..N : ops[j] = Null \/ Priced(j, ops[j]))'
  BY <1>1, <1>2 DEF Priced, Packed, Limits, InitCode, Unpaid, r
<1> HIDE DEF N
<1> QED BY <1>1, <1>3 DEF OpsInv

LEMMA OpsStep == ASSUME RequestInv, OpsInv, [Next]_vars PROVE OpsInv'
<1>1. CASE UNCHANGED vars
  BY <1>1, OpsStay DEF vars, OpsInv
<1>2. CASE RefuseRequest \/ (\E k \in DOMAIN balances : BalanceAnswered(k)) \/ (\E i \in 1..N : SimulateOp(i))
  <2>1. ops' = <<>> /\ phase' # "estimate"
    BY <1>2 DEF RefuseRequest, BalanceAnswered, SimulateOp, Refused, OpsInv
  <2> QED BY <2>1, OpsEmpty
<1>3. CASE RequestQuote \/ CheckFunding \/ SimulationThrows \/ CollectSimulations
  <2>1. \/ ops' = <<>> /\ phase' # "estimate"
        \/ phase' = "estimate" /\ ops' = [i \in 1..N |-> Null]
    BY <1>3 DEF RequestQuote, CheckFunding, SimulationThrows, CollectSimulations, Refused, OpsInv
  <2>2. UNCHANGED request
    BY <1>3, RequestStands DEF Next
  <2> QED BY <2>1, <2>2, OpsEmpty, OpsFresh
<1>4. ASSUME NEW i \in 1..N, EstimateOp(i) PROVE OpsInv'
  <2>1. phase = "estimate" /\ UNCHANGED <<request, sims>>
    BY <1>4 DEF EstimateOp, asking
  <2>2. CASE Refused("l1") \/ Refused("rpc")
    <3>1. phase' = "refused"
      BY <2>2 DEF Refused
    <3>2. UNCHANGED ops
      BY <1>4, <2>1, <3>1 DEF EstimateOp, Refused
    <3> QED BY <2>1, <3>1, <3>2, OpsStay
  <2>3. CASE ~Refused("l1") /\ ~Refused("rpc")
    <3>1. PICK o : ops' = [ops EXCEPT ![i] = o] /\ Priced(i, o)
      BY <1>4, <2>3, NewlyPriced
    <3>2. phase' = "estimate"
      BY <1>4, <2>1, <2>3 DEF EstimateOp
    <3>3. ops = [j \in 1..N |-> ops[j]] /\ \A j \in 1..N : ops[j] = Null \/ Priced(j, ops[j])
      BY <2>1 DEF OpsInv
    <3>4. N \in Nat /\ N >= 2 /\ N' = N
      BY <2>1, GivenRequest DEF N, r
    <3> HIDE DEF N
    <3>5. ops' = [j \in 1..N |-> IF j = i THEN o ELSE ops[j]]
      BY <3>1, <3>3
    <3>6. ops' # <<>> /\ ops' = [j \in 1..N |-> ops'[j]]
      BY <3>4, <3>5
    <3>7. \A j \in 1..N : ops'[j] = Null \/ Priced(j, ops'[j])
      BY <3>1, <3>3, <3>5
    <3> QED BY <2>1, <3>2, <3>4, <3>6, <3>7, OpsKept
  <2> QED BY <2>2, <2>3
<1>5. CASE PriceFee \/ Commit \/ Send \/ ExecuteQuote
  <2>1. UNCHANGED <<request, sims, ops>> /\ phase' \notin {"asked", "balances", "simulate", "estimate"}
    BY <1>5 DEF PriceFee, Commit, Send, ExecuteQuote, Refused, asking
  <2> QED BY <2>1, OpsStay
<1>6. CASE ValidateSignature \/ ValidateExecution \/ Accept \/ RecordTransfers
  <2>1. UNCHANGED <<request, sims, ops>> /\ phase' \notin {"asked", "balances", "simulate", "estimate"}
    BY <1>6 DEF ValidateSignature, ValidateExecution, Accept, RecordTransfers, Refused, asking
  <2> QED BY <2>1, OpsStay
<1> QED BY <1>1, <1>2, <1>3, <1>4, <1>5, <1>6 DEF Next

-----------------------------------------------------------------------------
(* The quote *)

\* All userOps have their gas, and cost what they cost.
Offered == ops # <<>> /\ cost = Total(ops) /\ \A i \in 1..N : Priced(i, ops[i])

LEMMA OfferedStays ==
  ASSUME UNCHANGED <<request, sims, ops, cost>>
  PROVE  Offered' <=> Offered
<1>1. \A i : Priced(i, ops[i])' <=> Priced(i, ops[i])
  BY PricedStays
<1>2. request' = request /\ ops' = ops /\ cost' = cost /\ N' = N
  BY DEF N, r
<1> QED BY <1>1, <1>2 DEF Offered

LEMMA RebuiltStays ==
  ASSUME UNCHANGED <<request, sims, ops, fee>>
  PROVE  Committed(Rebuilt)' = Committed(Rebuilt)
<1>1. request' = request /\ sims' = sims /\ ops' = ops /\ fee' = fee
  OBVIOUS
<1> QED BY <1>1 DEF Committed, Rebuilt, Packed, Limits, Refund, InitCode, r

\* Before a price is found there is no quote.
LEMMA QuoteEarly ==
  ASSUME QuoteInv, quote = Null, UNCHANGED <<fee, cost, quote>>, phase' \in Early \cup {"refused"}
  PROVE  QuoteInv'
<1>1. phase' # "commit" /\ phase' \notin Given
  BY DEF Early, Given
<1> QED BY <1>1 DEF QuoteInv

LEMMA QuoteStay ==
  ASSUME QuoteInv, UNCHANGED <<request, sims, ops, fee, cost, quote>>,
         phase' = "refused" \/ phase' = phase \/ (phase \in Given /\ phase' \in Given)
  PROVE  QuoteInv'
<1>1. (Offered' <=> Offered) /\ Committed(Rebuilt)' = Committed(Rebuilt)
  BY OfferedStays, RebuiltStays
<1>2. "refused" \notin Given \cup Early \cup {"commit"} /\ Given \cap (Early \cup {"commit"}) = {}
  BY DEF Given, Early
<1>3. fee \in Nat /\ cost \in Nat /\ fee' = fee /\ cost' = cost /\ quote' = quote
  BY DEF QuoteInv
<1>4. /\ phase \in Early \cup {"commit"} => quote = Null
      /\ phase = "commit" \/ phase \in Given \/ quote # Null => Offered
      /\ phase \in Given \/ quote # Null => quote = Committed(Rebuilt)
  BY DEF QuoteInv, Offered
<1> HIDE DEF Offered, Early, Given
<1>5. /\ phase' \in Early \cup {"commit"} => quote' = Null
      /\ phase' = "commit" \/ phase' \in Given \/ quote' # Null => Offered'
      /\ phase' \in Given \/ quote' # Null => quote' = Committed(Rebuilt)'
  BY <1>1, <1>2, <1>3, <1>4
<1>6. /\ (fee \in Nat /\ cost \in Nat)'
      /\ (phase \in Early \cup {"commit"} => quote = Null)'
      /\ (phase = "commit" \/ phase \in Given \/ quote # Null => Offered)'
      /\ (phase \in Given \/ quote # Null => quote = Committed(Rebuilt))'
  BY <1>3, <1>5 DEF Early, Given
<1> QED BY <1>6 DEF QuoteInv, Offered

LEMMA QuoteInit == Init => QuoteInv
BY DEF Init, QuoteInv, Given, Early

\* What the userOps cost and what is charged for it are amounts.
LEMMA PriceFound ==
  ASSUME RequestInv, SimsInv, OpsInv, QuoteInv, PriceFee
  PROVE  /\ Offered' /\ fee' \in Nat /\ cost' \in Nat /\ quote' = Null /\ quote = Null
         /\ phase' \in {"commit", "refused"}
<1>1. /\ phase = "estimate" /\ \A i \in 1..N : ops[i] # Null
      /\ UNCHANGED <<request, sims, ops, quote>> /\ cost' = Total(ops) /\ phase' \in {"commit", "refused"}
      /\ fee' = fee \/ \E x \in Charges(Total(ops)) : fee' = x.amount
  BY DEF PriceFee, Refused
<1>2. quote = Null /\ quote' = Null /\ fee \in Nat
  BY <1>1 DEF QuoteInv, Early
<1>3. ops # <<>> /\ ops = [i \in 1..N |-> ops[i]] /\ \A i \in 1..N : Priced(i, ops[i])
  BY <1>1 DEF OpsInv
<1>4. \A i \in 1..N : sims = <<>> \/ Outcome(i, sims[i])
  BY <1>1 DEF SimsInv, Past
<1>5. Total(ops) \in Nat
  <2>1. DOMAIN ops = 1..N
    BY <1>3
  <2> HIDE DEF N
  <2> QED BY <1>3, <1>4, <2>1, TotalIsNat
<1>6. fee' \in Nat
  <2> DEFINE c == Total(ops)
  <2>1. c \in Nat
    BY <1>5
  <2> HIDE DEF c
  <2>2. \A x \in Charges(c) : x.amount \in Nat
    BY <2>1, AmountTyped
  <2> QED BY <1>1, <1>2, <2>2 DEF c
<1>7. Offered'
  <2>1. \A i : Priced(i, ops[i])' <=> Priced(i, ops[i])
    BY <1>1, PricedStays
  <2>2. N' = N /\ ops' = ops
    BY <1>1 DEF N, r
  <2> HIDE DEF N
  <2> QED BY <1>1, <1>3, <2>1, <2>2 DEF Offered
<1> QED BY <1>1, <1>2, <1>5, <1>6, <1>7

LEMMA QuoteStep == ASSUME RequestInv, SimsInv, OpsInv, QuoteInv, [Next]_vars PROVE QuoteInv'
<1>1. CASE UNCHANGED vars
  BY <1>1, QuoteStay DEF vars
<1>2. CASE RefuseRequest \/ RequestQuote \/ CheckFunding \/ SimulationThrows \/ CollectSimulations
  <2>1. phase \in Early /\ UNCHANGED <<fee, cost, quote>> /\ phase' \in Early \cup {"refused"}
    BY <1>2 DEF RefuseRequest, RequestQuote, CheckFunding, SimulationThrows, CollectSimulations,
                Refused, pricing, Early
  <2> QED BY <2>1, QuoteEarly DEF QuoteInv
<1>3. CASE (\E k \in DOMAIN balances : BalanceAnswered(k)) \/ (\E i \in 1..N : SimulateOp(i) \/ EstimateOp(i))
  <2>1. phase \in Early /\ UNCHANGED <<fee, cost, quote>> /\ phase' \in Early \cup {"refused"}
    BY <1>3 DEF BalanceAnswered, SimulateOp, EstimateOp, Refused, pricing, Early
  <2> QED BY <2>1, QuoteEarly DEF QuoteInv
<1>4. CASE PriceFee
  <2>1. /\ Offered' /\ fee' \in Nat /\ cost' \in Nat /\ quote' = Null /\ phase' \in {"commit", "refused"}
    BY <1>4, PriceFound
  <2>2. phase' \notin Given
    BY <2>1 DEF Given
  <2> QED BY <2>1, <2>2 DEF QuoteInv, Offered
<1>5. CASE Commit
  <2>1. phase = "commit" /\ phase' = "quoted" /\ UNCHANGED <<request, sims, ops, fee, cost>>
        /\ quote' = Committed(Rebuilt)
    BY <1>5 DEF Commit, Rebuilt, asking
  <2>2. (Offered' <=> Offered) /\ Committed(Rebuilt)' = Committed(Rebuilt)
    BY <2>1, OfferedStays, RebuiltStays
  <2>3. Offered /\ fee \in Nat /\ cost \in Nat
    BY <2>1 DEF QuoteInv, Offered
  <2>4. "quoted" \notin Early \cup {"commit"}
    BY DEF Early
  <2>5. /\ (fee \in Nat /\ cost \in Nat)'
        /\ (phase \in Early \cup {"commit"} => quote = Null)'
        /\ (phase = "commit" \/ phase \in Given \/ quote # Null => Offered)'
        /\ (phase \in Given \/ quote # Null => quote = Committed(Rebuilt))'
    <3> HIDE DEF Offered
    <3> QED BY <2>1, <2>2, <2>3, <2>4 DEF Early
  <2> QED BY <2>5 DEF QuoteInv, Offered
<1>6. CASE Send \/ ExecuteQuote \/ RecordTransfers
  <2>1. UNCHANGED <<request, sims, ops, fee, cost, quote>> /\ phase \in Given /\ phase' \in Given \cup {"refused"}
    BY <1>6 DEF Send, ExecuteQuote, RecordTransfers, Refused, asking, pricing, Given
  <2> QED BY <2>1, QuoteStay
<1>7. CASE ValidateSignature \/ ValidateExecution \/ Accept
  <2>1. UNCHANGED <<request, sims, ops, fee, cost, quote>> /\ phase \in Given /\ phase' \in Given \cup {"refused"}
    BY <1>7 DEF ValidateSignature, ValidateExecution, Accept, Refused, asking, pricing, Given
  <2> QED BY <2>1, QuoteStay
<1> QED BY <1>1, <1>2, <1>3, <1>4, <1>5, <1>6, <1>7 DEF Next

-----------------------------------------------------------------------------
(* The payment *)

LEMMA PaidStay ==
  ASSUME PaidInv, UNCHANGED <<request, balances, fee>>,
         phase' \notin {"commit"} \cup Given \/ phase' = phase \/ phase \in {"commit"} \cup Given
  PROVE  PaidInv'
BY DEF PaidInv, PaymentBalance, Given, r

LEMMA PaidNotYet == ASSUME phase' \notin {"commit"} \cup Given PROVE PaidInv'
BY DEF PaidInv

LEMMA PaidStep == ASSUME RequestInv, BalanceInv, SimsInv, OpsInv, QuoteInv, PaidInv, [Next]_vars PROVE PaidInv'
<1>1. CASE UNCHANGED vars
  BY <1>1, PaidStay DEF vars
<1>2. CASE RefuseRequest \/ RequestQuote \/ CheckFunding \/ SimulationThrows \/ CollectSimulations
  <2>1. phase' \notin {"commit"} \cup Given
    BY <1>2 DEF RefuseRequest, RequestQuote, CheckFunding, SimulationThrows, CollectSimulations, Refused, Given
  <2> QED BY <2>1, PaidNotYet
<1>3. CASE (\E k \in DOMAIN balances : BalanceAnswered(k)) \/ (\E i \in 1..N : SimulateOp(i) \/ EstimateOp(i))
  <2>1. phase' \notin {"commit"} \cup Given
    BY <1>3 DEF BalanceAnswered, SimulateOp, EstimateOp, Refused, Given
  <2> QED BY <2>1, PaidNotYet
<1>4. CASE PriceFee
  <2>1. CASE phase' = "refused"
    BY <2>1, PaidNotYet DEF Given
  <2>2. CASE phase' # "refused"
    <3>1. fee' \in Nat /\ phase' = "commit"
      BY <1>4, <2>2, PriceFound
    <3>2. ~(r.simulate /\ ~Sponsored(r) /\ PaymentBalance < fee')
          /\ phase = "estimate" /\ UNCHANGED <<request, balances>>
      BY <1>4, <2>2 DEF PriceFee, Refused
    <3>3. ASSUME r.simulate, ~Sponsored(r) PROVE PaymentBalance \in Nat
      <4>1. /\ DOMAIN balances = DOMAIN Asked(r) /\ \A k \in DOMAIN balances : balances[k] = Balance(k)
            /\ r.permit => r.trigger # NoTrigger
        BY <3>2, <3>3 DEF BalanceInv
      <4>2. ~Trusted(r)
        BY <3>3 DEF Sponsored, Trusted
      <4>3. 1 \in DOMAIN Asked(r)
        BY <4>2, AskedShape
      <4>4. balances[1] \in Nat
        BY <4>1, <4>3, BalanceIsNat
      <4> QED BY <4>2, <4>4 DEF PaymentBalance
    <3>4. r.simulate /\ ~Sponsored(r) => fee' <= PaymentBalance
      BY <3>1, <3>2, <3>3
    <3>5. (r.simulate /\ ~Sponsored(r) => fee <= PaymentBalance)'
      BY <3>2, <3>4 DEF PaymentBalance, r
    <3> QED BY <3>5 DEF PaidInv
  <2> QED BY <2>1, <2>2
<1>5. CASE Commit \/ Send \/ ExecuteQuote \/ RecordTransfers
  <2>1. UNCHANGED <<request, balances, fee>> /\ phase \in {"commit"} \cup Given
    BY <1>5 DEF Commit, Send, ExecuteQuote, RecordTransfers, Refused, asking, pricing, Given
  <2> QED BY <2>1, PaidStay
<1>6. CASE ValidateSignature \/ ValidateExecution \/ Accept
  <2>1. UNCHANGED <<request, balances, fee>> /\ phase \in {"commit"} \cup Given
    BY <1>6 DEF ValidateSignature, ValidateExecution, Accept, Refused, asking, pricing, Given
  <2> QED BY <2>1, PaidStay
<1> QED BY <1>1, <1>2, <1>3, <1>4, <1>5, <1>6 DEF Next

-----------------------------------------------------------------------------
(* Signatures *)

Leaf(os, i, simple, eip712, trusted) ==
  [op     |-> IF i = 1 /\ trusted THEN [os[i] EXCEPT !.price = 0] ELSE os[i],
   random |-> i = 1 /\ trusted,
   as     |-> IF eip712 /\ simple THEN "eip712" ELSE "legacy"]

\* The hash tells whether the payment is a trusted one and, from 2.2.0 on, the quote's type.
LEMMA RootTells ==
  ASSUME NEW os, 1 \in DOMAIN os, NEW s1 \in BOOLEAN, NEW s2 \in BOOLEAN, NEW e \in BOOLEAN,
         NEW t1 \in BOOLEAN, NEW t2 \in BOOLEAN, Root(os, s1, e, t1) = Root(os, s2, e, t2)
  PROVE  t1 = t2 /\ (e => s1 = s2)
<1>1. ASSUME NEW s, NEW t PROVE Root(os, s, e, t) = {Leaf(os, i, s, e, t) : i \in DOMAIN os}
  BY DEF Root, Leaf
<1>2. ASSUME NEW s, NEW t, NEW i
      PROVE  /\ Leaf(os, i, s, e, t).random = (i = 1 /\ t)
             /\ Leaf(os, i, s, e, t).as = (IF e /\ s THEN "eip712" ELSE "legacy")
  BY DEF Leaf
<1>3. ASSUME NEW s, NEW t, NEW ss, NEW tt, Root(os, s, e, t) = Root(os, ss, e, tt), t PROVE tt
  <2>1. {Leaf(os, i, s, e, t) : i \in DOMAIN os} = {Leaf(os, i, ss, e, tt) : i \in DOMAIN os}
    BY <1>1, <1>3
  <2>2. PICK i \in DOMAIN os : Leaf(os, 1, s, e, t) = Leaf(os, i, ss, e, tt)
    <3> HIDE DEF Leaf
    <3> QED BY <2>1
  <2>3. (1 = 1 /\ t) = (i = 1 /\ tt)
    BY <1>2, <2>2
  <2> QED BY <1>3, <2>3
<1>4. t1 = t2
  BY <1>3
<1>5. PICK i \in DOMAIN os : Leaf(os, 1, s1, e, t1) = Leaf(os, i, s2, e, t2)
  <2>1. {Leaf(os, i, s1, e, t1) : i \in DOMAIN os} = {Leaf(os, i, s2, e, t2) : i \in DOMAIN os}
    BY <1>1
  <2> QED BY <2>1
<1>6. (IF e /\ s1 THEN "eip712" ELSE "legacy") = (IF e /\ s2 THEN "eip712" ELSE "legacy")
  BY <1>2, <1>5
<1>7. e => s1 = s2
  BY <1>6
<1> QED BY <1>4, <1>7

LEMMA SignedStay ==
  ASSUME SignedInv, UNCHANGED <<request, sponsored, signed>>,
         reason' = reason \/ reason' \notin {"hash", "versions"},
         phase \in {"validate", "accepted", "mined"} \/ phase' \notin {"validate", "accepted", "mined"}
  PROVE  SignedInv'
<1>1. request' = request /\ sponsored' = sponsored /\ signed' = signed
  OBVIOUS
<1>2. sponsored' \in BOOLEAN
  BY <1>1 DEF SignedInv
<1>3. /\ (reason = "hash" => (Sponsored(r) /\ ~sponsored) \/ r.type = "none")'
      /\ (reason = "versions" => Mixed(r, 30))'
  BY <1>1 DEF SignedInv, r
<1>4. (phase \in {"validate", "accepted", "mined"} =>
       /\ signed = [i \in 1..N |-> Signed(r, Type, sponsored, TrustedNow, i)]
       /\ ~Mixed(r, 30) /\ TrustedNow = Trusted(r) /\ (Eip712(r) => (Type = "simple") = (r.type = "simple")))'
  BY <1>1 DEF SignedInv, TrustedNow, Type, N, r
<1> QED BY <1>2, <1>3, <1>4 DEF SignedInv

LEMMA SignedInit == Init => SignedInv
<1> SUFFICES ASSUME Init PROVE SignedInv
  OBVIOUS
<1>1. Null \notin Reasons
  BY QuoteConstantsOK
<1> QED BY <1>1 DEF Init, SignedInv, Reasons

\* What the two handlers know: the same userOps, and the same kind of quote.
LEMMA HashAgain ==
  ASSUME RequestInv, OpsInv, QuoteInv, phase \in Given
  PROVE  /\ quote.hash = Root(quote.ops, r.type = "simple", Eip712(r), Trusted(r))
         /\ 1 \in DOMAIN quote.ops
<1>1. quote = Committed(Rebuilt) /\ ops # <<>>
  BY DEF QuoteInv
<1>2. quote.ops = Rebuilt /\ quote.hash = Root(Rebuilt, r.type = "simple", Eip712(r), Trusted(r))
  BY <1>1 DEF Committed
<1>3. DOMAIN Rebuilt = DOMAIN ops
  BY DEF Rebuilt
<1>4. ops = [i \in 1..N |-> ops[i]] /\ N \in Nat /\ N >= 2
  BY <1>1, GivenRequest DEF OpsInv
<1> HIDE DEF N
<1> QED BY <1>2, <1>3, <1>4

LEMMA SignedStep == ASSUME RequestInv, OpsInv, QuoteInv, SignedInv, [Next]_vars PROVE SignedInv'
<1> DEFINE Late == {"validate", "accepted", "mined"}
<1>1. CASE UNCHANGED vars
  BY <1>1, SignedStay DEF vars
<1>2. CASE RefuseRequest \/ RequestQuote \/ CheckFunding \/ SimulationThrows \/ CollectSimulations
  <2>1. UNCHANGED <<request, sponsored, signed>> /\ (reason' = reason \/ reason' \notin {"hash", "versions"})
        /\ phase' \notin Late
    BY <1>2 DEF RefuseRequest, RequestQuote, CheckFunding, SimulationThrows, CollectSimulations,
                Refused, execution, asking
  <2> QED BY <2>1, SignedStay
<1>3. CASE (\E k \in DOMAIN balances : BalanceAnswered(k)) \/ (\E i \in 1..N : SimulateOp(i) \/ EstimateOp(i))
  <2>1. UNCHANGED <<request, sponsored, signed>> /\ (reason' = reason \/ reason' \notin {"hash", "versions"})
        /\ phase' \notin Late
    BY <1>3 DEF BalanceAnswered, SimulateOp, EstimateOp, Refused, execution, asking
  <2> QED BY <2>1, SignedStay
<1>4. CASE PriceFee \/ Commit
  <2>1. UNCHANGED <<request, sponsored, signed>> /\ (reason' = reason \/ reason' \notin {"hash", "versions"})
        /\ phase' \notin Late
    BY <1>4 DEF PriceFee, Commit, Refused, execution, asking
  <2> QED BY <2>1, SignedStay
<1>5. CASE Send
  <2>1. phase' = "sent" /\ sponsored' \in BOOLEAN /\ reason' = reason /\ phase = "quoted"
    BY <1>5 DEF Send
  <2>2. reason = Null /\ Null \notin Reasons
    BY <2>1, QuoteConstantsOK DEF RequestInv
  <2>3. reason' \notin {"hash", "versions"}
    BY <2>1, <2>2 DEF Reasons
  <2> QED BY <2>1, <2>3 DEF SignedInv
<1>6. CASE ExecuteQuote
  <2> DEFINE Hash == Root(quote.ops, Type = "simple", Eip712(r), TrustedNow)
  <2>1. phase = "sent" /\ UNCHANGED <<request, sponsored>>
    BY <1>6 DEF ExecuteQuote, asking
  <2>2. sponsored' \in BOOLEAN
    BY <2>1 DEF SignedInv
  <2>3. quote.hash = Root(quote.ops, r.type = "simple", Eip712(r), Trusted(r)) /\ 1 \in DOMAIN quote.ops
    BY <2>1, HashAgain DEF Given
  <2>4. CASE Mixed(r, 30) /\ Refused("versions")
    BY <2>1, <2>2, <2>4 DEF Refused, SignedInv, r
  <2>5. CASE Hash # quote.hash /\ Refused("hash")
    <3>1. (Sponsored(r) /\ ~sponsored) \/ r.type = "none"
      <4> SUFFICES ASSUME r.type # "none", ~(Sponsored(r) /\ ~sponsored) PROVE FALSE
        OBVIOUS
      <4>1. Type = r.type
        BY DEF Type
      <4>2. TrustedNow = Trusted(r)
        <5>1. Trusted(r) => sponsored
          BY DEF Sponsored, Trusted
        <5> QED BY <5>1 DEF TrustedNow, Trusted
      <4> QED BY <2>3, <2>5, <4>1, <4>2
    <3> QED BY <2>1, <2>2, <2>5, <3>1 DEF Refused, SignedInv, r
  <2>6. CASE (Type = "onchain" /\ Refused("transaction")) \/ (TrustedNow /\ (Refused("late") \/ Refused("sponsor")))
    BY <2>1, <2>2, <2>6 DEF Refused, SignedInv
  <2>7. CASE /\ Hash = quote.hash /\ ~Mixed(r, 30)
             /\ signed' = [i \in 1..N |-> Signed(r, Type, sponsored, TrustedNow, i)] /\ reason' = reason
    <3>1. TrustedNow = Trusted(r) /\ (Eip712(r) => (Type = "simple") = (r.type = "simple"))
      <4>1. Trusted(r) \in BOOLEAN /\ TrustedNow \in BOOLEAN /\ Eip712(r) \in BOOLEAN
        BY DEF Trusted, TrustedNow, Eip712, AtLeast, SignedInv
      <4>2. Hash = Root(quote.ops, r.type = "simple", Eip712(r), Trusted(r))
        BY <2>3, <2>7
      <4> QED BY <2>3, <4>1, <4>2, RootTells
    <3>2. reason = Null /\ Null \notin Reasons
      BY <2>1, QuoteConstantsOK DEF RequestInv
    <3>3. reason' \notin {"hash", "versions"}
      BY <2>7, <3>2 DEF Reasons
    <3>4. request' = request /\ sponsored' = sponsored
      BY <2>1
    <3>5. (signed = [i \in 1..N |-> Signed(r, Type, sponsored, TrustedNow, i)])'
      BY <2>7, <3>4 DEF N, r, Type, TrustedNow
    <3>6. (/\ ~Mixed(r, 30) /\ TrustedNow = Trusted(r) /\ (Eip712(r) => (Type = "simple") = (r.type = "simple")))'
      BY <2>7, <3>1, <3>4 DEF r, Type, TrustedNow
    <3> QED BY <2>2, <3>3, <3>5, <3>6 DEF SignedInv
  <2> QED BY <1>6, <2>4, <2>5, <2>6, <2>7 DEF ExecuteQuote
<1>7. CASE ValidateSignature \/ ValidateExecution \/ Accept \/ RecordTransfers
  <2>1. UNCHANGED <<request, sponsored, signed>> /\ (reason' = reason \/ reason' \notin {"hash", "versions"})
        /\ phase \in Late
    BY <1>7 DEF ValidateSignature, ValidateExecution, Accept, RecordTransfers, Refused, execution, asking
  <2> QED BY <2>1, SignedStay
<1> QED BY <1>1, <1>2, <1>3, <1>4, <1>5, <1>6, <1>7 DEF Next

-----------------------------------------------------------------------------
(* Validations *)

LEMMA VerifiesStays ==
  ASSUME UNCHANGED <<request, signed>>
  PROVE  Verifies(1)' <=> Verifies(1)
<1>1. request' = request /\ signed' = signed
  OBVIOUS
<1> QED BY <1>1 DEF Verifies, Type, r

LEMMA RunStays == ASSUME UNCHANGED <<request, checks>> PROVE RunFound' <=> RunFound
<1>1. request' = request /\ checks' = checks
  OBVIOUS
<1> QED BY <1>1 DEF RunFound, r

LEMMA ChecksStay ==
  ASSUME ChecksInv, UNCHANGED <<request, signed, checks>>,
         \/ phase' = phase \/ phase' \notin {"validate", "accepted", "mined"}
         \/ phase = "accepted" /\ phase' = "mined"
  PROVE  ChecksInv'
<1>1. (Verifies(1)' <=> Verifies(1)) /\ (RunFound' <=> RunFound)
  BY VerifiesStays, RunStays
<1>2. checks' = checks /\ request' = request
  OBVIOUS
<1>3. Validation' <=> Validation
  BY <1>2 DEF Validation
<1>4. checks' = Null \/ Validation'
  BY <1>2, <1>3 DEF ChecksInv
<1>5. phase' = "validate" => /\ Validation' /\ (checks'.sig = TRUE => Verifies(1)')
                             /\ (checks'.run = Null \/ RunFound')
  BY <1>1, <1>2, <1>3 DEF ChecksInv
<1>6. phase' \in {"accepted", "mined"} /\ ~Trusted(request') => Verifies(1)' /\ RunFound' /\ checks'.run.ok
  BY <1>1, <1>2 DEF ChecksInv, r
<1> QED BY <1>4, <1>5, <1>6 DEF ChecksInv, r

LEMMA ChecksInit == Init => ChecksInv
BY DEF Init, ChecksInv

\* A validation that goes on has not lost what the other one found.
LEMMA ChecksStep == ASSUME ChecksInv, [Next]_vars PROVE ChecksInv'
<1> DEFINE Late == {"validate", "accepted", "mined"}
<1>1. CASE UNCHANGED vars
  BY <1>1, ChecksStay DEF vars
<1>2. CASE RefuseRequest \/ RequestQuote \/ CheckFunding \/ SimulationThrows \/ CollectSimulations
  <2>1. UNCHANGED <<request, signed, checks>> /\ phase' \notin Late
    BY <1>2 DEF RefuseRequest, RequestQuote, CheckFunding, SimulationThrows, CollectSimulations,
                Refused, execution, asking
  <2> QED BY <2>1, ChecksStay
<1>3. CASE (\E k \in DOMAIN balances : BalanceAnswered(k)) \/ (\E i \in 1..N : SimulateOp(i) \/ EstimateOp(i))
  <2>1. UNCHANGED <<request, signed, checks>> /\ phase' \notin Late
    BY <1>3 DEF BalanceAnswered, SimulateOp, EstimateOp, Refused, execution, asking
  <2> QED BY <2>1, ChecksStay
<1>4. CASE PriceFee \/ Commit \/ Send
  <2>1. UNCHANGED <<request, signed, checks>> /\ phase' \notin Late
    BY <1>4 DEF PriceFee, Commit, Send, Refused, execution, asking
  <2> QED BY <2>1, ChecksStay
<1>5. CASE ExecuteQuote
  <2>1. CASE phase' = "refused"
    <3>1. UNCHANGED checks
      BY <1>5, <2>1 DEF ExecuteQuote, Refused
    <3> QED BY <2>1, <3>1 DEF ChecksInv, Validation
  <2>2. CASE phase' # "refused" /\ TrustedNow
    <3>1. phase' = "accepted" /\ checks' = Null /\ request' = request /\ Trusted(r)
      BY <1>5, <2>2 DEF ExecuteQuote, Refused, asking, TrustedNow
    <3> QED BY <3>1 DEF ChecksInv, r
  <2>3. CASE phase' # "refused" /\ ~TrustedNow
    <3>1. /\ phase' = "validate"
          /\ checks' = [sig |-> Null, sigLeft |-> Retries, run |-> Null,
                        runLeft |-> IF Type = "onchain" THEN Retries ELSE 0]
      BY <1>5, <2>3 DEF ExecuteQuote, Refused
    <3>2. Null \notin BOOLEAN /\ Retries \in Nat
      BY QuoteConstantsOK
    <3>3. checks'.sig = Null /\ checks'.run = Null /\ Validation'
      BY <3>1, <3>2 DEF Validation
    <3>4. checks'.sig # TRUE
      BY <3>2, <3>3
    <3> QED BY <3>1, <3>3, <3>4 DEF ChecksInv
  <2> QED BY <2>1, <2>2, <2>3
<1>6. CASE ValidateSignature
  <2>1. phase = "validate" /\ checks.sig = Null /\ UNCHANGED <<request, signed>> /\ phase' \in {"validate", "refused"}
    BY <1>6 DEF ValidateSignature, Refused, asking
  <2>2. Validation /\ (checks.run = Null \/ RunFound)
    BY <2>1 DEF ChecksInv
  <2>3. CASE UNCHANGED checks /\ phase' = "refused"
    BY <2>1, <2>3, ChecksStay
  <2>4. CASE checks' = [checks EXCEPT !.sig = TRUE] /\ Verifies(1)
    <3>1. Validation' /\ checks'.run = checks.run
      BY <2>2, <2>4 DEF Validation
    <3>2. Verifies(1)'
      BY <2>1, <2>4, VerifiesStays
    <3>3. checks'.run = Null \/ RunFound'
      BY <2>1, <2>2, <3>1 DEF RunFound, r
    <3> QED BY <2>1, <3>1, <3>2, <3>3 DEF ChecksInv
  <2>5. CASE checks' = [checks EXCEPT !.sig = FALSE]
    <3>1. Validation' /\ checks'.run = checks.run /\ checks'.sig = FALSE
      BY <2>2, <2>5 DEF Validation
    <3>2. checks'.run = Null \/ RunFound'
      BY <2>1, <2>2, <3>1 DEF RunFound, r
    <3> QED BY <2>1, <3>1, <3>2 DEF ChecksInv
  <2>6. CASE checks.sigLeft > 0 /\ checks' = [checks EXCEPT !.sigLeft = @ - 1]
    <3>1. checks.sigLeft - 1 \in 0..Retries
      BY <2>2, <2>6, QuoteConstantsOK DEF Validation
    <3>2. Validation' /\ checks'.run = checks.run /\ checks'.sig = Null
      BY <2>1, <2>2, <2>6, <3>1 DEF Validation
    <3>3. checks'.run = Null \/ RunFound'
      BY <2>1, <2>2, <3>2 DEF RunFound, r
    <3>4. checks'.sig # TRUE
      BY <3>2, QuoteConstantsOK
    <3> QED BY <2>1, <3>2, <3>3, <3>4 DEF ChecksInv
  <2> QED BY <1>6, <2>3, <2>4, <2>5, <2>6 DEF ValidateSignature, Refused
<1>7. CASE ValidateExecution
  <2>1. phase = "validate" /\ phase' = phase /\ checks.run = Null /\ UNCHANGED <<request, signed>>
    BY <1>7 DEF ValidateExecution, asking
  <2>2. Validation /\ (checks.sig = TRUE => Verifies(1)) /\ (Verifies(1)' <=> Verifies(1))
    BY <2>1, VerifiesStays DEF ChecksInv
  <2>3. CASE \E t \in PayTraces[r] : checks' = [checks EXCEPT !.run = [ok |-> Passes(t), trace |-> t]]
    <3>1. PICK t \in PayTraces[r] : checks' = [checks EXCEPT !.run = [ok |-> Passes(t), trace |-> t]]
      BY <2>3
    <3>2. Validation' /\ checks'.sig = checks.sig
      BY <2>2, <3>1 DEF Validation
    <3>3. checks'.run = [ok |-> Passes(t), trace |-> t]
      BY <2>2, <3>1 DEF Validation
    <3>4. checks'.run.ok = Passes(t) /\ checks'.run.trace = t /\ Passes(t) \in BOOLEAN
      BY <3>3 DEF Passes
    <3>5. RunFound'
      BY <2>1, <3>1, <3>4 DEF RunFound, r
    <3> QED BY <2>1, <2>2, <3>2, <3>5 DEF ChecksInv
  <2>4. CASE checks' = [checks EXCEPT !.run = [ok |-> FALSE, trace |-> <<>>]]
    <3>1. Validation' /\ checks'.sig = checks.sig
      BY <2>2, <2>4 DEF Validation
    <3>2. checks'.run.ok = FALSE
      BY <2>2, <2>4 DEF Validation
    <3>3. RunFound'
      BY <3>2 DEF RunFound
    <3> QED BY <2>1, <2>2, <3>1, <3>3 DEF ChecksInv
  <2>5. CASE checks.runLeft # 0 /\ checks' = [checks EXCEPT !.runLeft = @ - 1]
    <3>1. checks.runLeft - 1 \in 0..Retries
      BY <2>2, <2>5, QuoteConstantsOK DEF Validation
    <3>2. Validation' /\ checks'.sig = checks.sig /\ checks'.run = Null
      BY <2>1, <2>2, <2>5, <3>1 DEF Validation
    <3> QED BY <2>1, <2>2, <3>2 DEF ChecksInv
  <2> QED BY <1>7, <2>3, <2>4, <2>5 DEF ValidateExecution
<1>8. CASE Accept
  <2>1. phase = "validate" /\ UNCHANGED <<request, signed, checks>> /\ checks.sig # Null /\ checks.run # Null
    BY <1>8 DEF Accept, asking, execution
  <2>2. CASE phase' = "refused"
    BY <2>1, <2>2, ChecksStay
  <2>3. CASE phase' # "refused"
    <3>1. phase' = "accepted" /\ checks.sig /\ checks.run.ok
      BY <1>8, <2>3 DEF Accept, Refused
    <3>2. Validation /\ checks.sig = TRUE /\ RunFound
      BY <2>1, <3>1 DEF ChecksInv, Validation
    <3>3. Verifies(1)
      BY <2>1, <3>2 DEF ChecksInv
    <3>4. Verifies(1)' /\ RunFound' /\ checks' = checks
      BY <2>1, <3>2, <3>3, VerifiesStays, RunStays
    <3>5. Validation' /\ checks'.run.ok
      BY <3>1, <3>2, <3>4 DEF Validation
    <3> QED BY <3>1, <3>4, <3>5 DEF ChecksInv
  <2> QED BY <2>2, <2>3
<1>9. CASE RecordTransfers
  <2>1. UNCHANGED <<request, signed, checks>> /\ phase = "accepted" /\ phase' = "mined"
    BY <1>9 DEF RecordTransfers, asking, execution
  <2> QED BY <2>1, ChecksStay
<1> QED BY <1>1, <1>2, <1>3, <1>4, <1>5, <1>6, <1>7, <1>8, <1>9 DEF Next

LEMMA MinedStep == ASSUME MinedInv, [Next]_vars PROVE MinedInv'
<1>1. CASE UNCHANGED vars
  BY <1>1 DEF MinedInv, vars, r
<1>2. CASE RecordTransfers
  <2>1. PICK b \in Blocks[r], unknown \in SUBSET {1, 2} :
          /\ mined' = b
          /\ \/ assets' = Recorded(b.logs, b.trace, {b.logs[k].nr : k \in DOMAIN b.logs} \ unknown)
             \/ assets' = <<>>
    BY <1>2 DEF RecordTransfers
  <2>2. request' = request
    BY <1>2 DEF RecordTransfers, asking
  <2>3. assets' = <<>> \/ \E known : assets' = Recorded(b.logs, b.trace, known)
    BY <2>1
  <2> QED BY <2>1, <2>2, <2>3 DEF MinedInv, r
<1>3. CASE RefuseRequest \/ RequestQuote \/ CheckFunding \/ SimulationThrows \/ CollectSimulations \/ PriceFee
  <2>1. phase' # "mined"
    BY <1>3 DEF RefuseRequest, RequestQuote, CheckFunding, SimulationThrows, CollectSimulations, PriceFee, Refused
  <2> QED BY <2>1 DEF MinedInv
<1>4. CASE (\E k \in DOMAIN balances : BalanceAnswered(k)) \/ (\E i \in 1..N : SimulateOp(i) \/ EstimateOp(i))
  <2>1. phase' # "mined"
    BY <1>4 DEF BalanceAnswered, SimulateOp, EstimateOp, Refused
  <2> QED BY <2>1 DEF MinedInv
<1>5. CASE Commit \/ Send \/ ExecuteQuote \/ ValidateSignature \/ ValidateExecution \/ Accept
  <2>1. phase' # "mined"
    BY <1>5 DEF Commit, Send, ExecuteQuote, ValidateSignature, ValidateExecution, Accept, Refused
  <2> QED BY <2>1 DEF MinedInv
<1> QED BY <1>1, <1>2, <1>3, <1>4, <1>5 DEF Next

-----------------------------------------------------------------------------
(* All of it *)

IInv ==
  /\ RequestInv /\ BalanceInv /\ SimsInv /\ OpsInv /\ QuoteInv
  /\ PaidInv /\ SignedInv /\ ChecksInv /\ MinedInv

LEMMA IInvInit == Init => IInv
<1>1. Init => PaidInv /\ MinedInv
  BY DEF Init, PaidInv, MinedInv, Given
<1> QED BY <1>1, RequestInit, BalanceInit, SimsInit, OpsInit, QuoteInit, SignedInit, ChecksInit DEF IInv

LEMMA IInvStep == IInv /\ [Next]_vars => IInv'
BY RequestStep, BalanceStep, SimsStep, OpsStep, QuoteStep, PaidStep, SignedStep, ChecksStep, MinedStep DEF IInv

LEMMA ListIsLong == ASSUME NEW n \in Nat, NEW s, s = [i \in 1..n |-> s[i]] PROVE Len(s) = n
OBVIOUS

LEMMA TypesFollow == ASSUME IInv PROVE TypeOK
<1>1. /\ phase \in Phases /\ (phase = "refused" <=> reason # Null)
      /\ fee \in Nat /\ cost \in Nat /\ caches.support \in {"unknown", "yes", "no"}
  BY DEF IInv, RequestInv, QuoteInv, Caches
<1>2. balances \in Seq(Nat \cup {Null}) /\ Len(balances) <= 2
  <2>1. CASE balances = <<>>
    BY <2>1
  <2>2. CASE balances # <<>>
    <3> DEFINE n == Len(Asked(r))
    <3>1. n \in Nat /\ n <= 2 /\ DOMAIN Asked(r) = 1..n
      <4>1. Asked(r) \in Seq({r.pay, r.trigger}) /\ Len(Asked(r)) <= 2
        BY AskedShape
      <4> QED BY <4>1
    <3> HIDE DEF n
    <3>2. balances \in [1..n -> Nat \cup {Null}]
      BY <2>2, <3>1 DEF IInv, BalanceInv
    <3>3. balances = [i \in 1..n |-> balances[i]]
      BY <3>2
    <3>4. Len(balances) = n
      BY <3>1, <3>3, ListIsLong
    <3> QED BY <3>1, <3>2, <3>4
  <2> QED BY <2>1, <2>2
<1>3. N \in Nat
  BY GivenRequest DEF IInv
<1>4. sims = <<>> \/ sims = [i \in 1..N |-> sims[i]]
  BY DEF IInv, SimsInv
<1>5. ops = <<>> \/ ops = [i \in 1..N |-> ops[i]]
  BY DEF IInv, OpsInv
<1>6. phase \in {"validate", "accepted"} => signed = [i \in 1..N |-> signed[i]]
  BY DEF IInv, SignedInv
<1>7. checks # Null => checks.sigLeft \in 0..Retries /\ checks.runLeft \in 0..Retries
  BY DEF IInv, ChecksInv, Validation
<1> HIDE DEF N
<1>8. (sims = <<>> \/ Len(sims) = N) /\ (ops = <<>> \/ Len(ops) = N)
      /\ (phase \in {"validate", "accepted"} => Len(signed) = N)
  BY <1>3, <1>4, <1>5, <1>6, ListIsLong
<1> QED BY <1>1, <1>2, <1>7, <1>8 DEF TypeOK, Phases, Early, Given

\* The handlers of a quote keep the shapes of what they hand on: a balance per promise, a
\* simulation, a priced userOp and a signature per userOp, and attempts that are never
\* negative, whatever is asked and answered.
THEOREM QuoteTypeCorrect == Spec => []TypeOK
BY IInvInit, IInvStep, TypesFollow, PTL DEF Spec

\* What is kept of a simulation that did not revert is a trace that ran.
LEMMA SimulatedRan ==
  ASSUME IInv, sims # <<>>, Past, NEW i \in 1..N, ~TrustedPayment(r, i)
  PROVE  /\ sims[i] = Result(i, sims[i].trace) /\ CallTrace(sims[i].trace) /\ Ran(sims[i].trace)
         /\ Deploys(r, i) => Spends(sims[i].trace, "create")
<1>1. Outcome(i, sims[i]) /\ ~sims[i].revert
  BY DEF IInv, SimsInv
<1>2. sims[i] # NoLimits(TRUE)
  BY <1>1 DEF NoLimits
<1> DEFINE t == sims[i].trace
<1>3. t \in Traces[<<r, i>>] /\ sims[i] = Result(i, t)
  BY <1>1, <1>2 DEF Outcome
<1>4. Passes(t)
  <2>1. Result(i, t).revert = ~Passes(t)
    BY DEF Result
  <2> QED BY <1>1, <1>3, <2>1
<1>5. CallTrace(t) /\ (Ran(t) /\ Deploys(r, i) => Spends(t, "create"))
  <2>1. PICK s \in Requests : r = s.ask
    BY GivenRequest DEF IInv
  <2>2. i \in Indices(s.ask)
    BY <2>1, GivenRequest DEF IInv
  <2> QED BY <1>3, <2>1, <2>2, ChainsOK
<1> QED BY <1>3, <1>4, <1>5, PassedRan

LEMMA RanFollows == ASSUME IInv PROVE AcceptedRan
<1>1. ASSUME Simulated, NEW i \in 1..N PROVE TrustedPayment(r, i) \/ Ran(sims[i].trace)
  <2>1. sims # <<>> /\ Past
    BY <1>1 DEF Simulated, Past, IInv, SimsInv
  <2> QED BY <2>1, SimulatedRan
<1>2. ASSUME phase = "accepted", ~Trusted(r) PROVE Ran(checks.run.trace)
  <2>1. checks.run.trace \in PayTraces[r] /\ Passes(checks.run.trace)
    BY <1>2 DEF IInv, ChecksInv, RunFound
  <2>2. CallTrace(checks.run.trace)
    BY <2>1, GivenRequest, ChainsOK DEF IInv
  <2> QED BY <2>1, <2>2, PassedRan
<1> QED BY <1>1, <1>2 DEF AcceptedRan

\* The reading of call traces (flat-trace-call-result.ts) decides rightly, for every trace
\* an EntryPoint can leave: each userOp that is quoted, and the payment that is accepted,
\* has run.
THEOREM NothingUnrunAccepted == Spec => []AcceptedRan
BY IInvInit, IInvStep, RanFollows, PTL DEF Spec

LEMMA TransfersFollow == ASSUME IInv PROVE OwnTransfers
<1> SUFFICES ASSUME phase = "mined" PROVE Owned(assets, mined.trace)
  BY DEF OwnTransfers, Owned
<1>1. mined \in Blocks[r] /\ (assets = <<>> \/ \E known : assets = Recorded(mined.logs, mined.trace, known))
  BY DEF IInv, MinedInv
<1>2. InOrder(mined.logs) /\ InTurn(mined.trace)
  BY <1>1, GivenRequest, ChainsOK DEF IInv
<1>3. CASE assets = <<>>
  BY <1>3 DEF Owned
<1> QED BY <1>1, <1>2, <1>3, RecordedOwned

\* Out of any block of the EntryPoint's logs and calls, a transfer is recorded for its
\* userOp only, with whatever tokens unknown; a native one is recorded once.
THEOREM TransfersAreOwn == Spec => []OwnTransfers
BY IInvInit, IInvStep, TransfersFollow, PTL DEF Spec

LEMMA ChargedFollows == ASSUME IInv PROVE ChargedWhatItSigned
<1> SUFFICES ASSUME quote # Null
             PROVE  Total(quote.ops) = cost /\ (~Trusted(r) => quote.ops[1].pays.amount = fee)
  BY DEF ChargedWhatItSigned
<1>1. quote.ops = Rebuilt /\ cost = Total(ops) /\ ops # <<>> /\ \A i \in 1..N : Priced(i, ops[i])
  BY DEF IInv, QuoteInv, Committed
<1>2. ops = [i \in 1..N |-> ops[i]] /\ 1 \in 1..N
  <2>1. ops = [i \in 1..N |-> ops[i]]
    BY <1>1 DEF IInv, OpsInv
  <2>2. N \in Nat /\ N >= 2
    BY GivenRequest DEF IInv
  <2> HIDE DEF N
  <2> QED BY <2>1, <2>2
<1> HIDE DEF N
<1> DEFINE first == Packed(1, Payment(r, fee), ops[1].price, ops[1].l1)
<1>3. CASE Trusted(r)
  <2>1. Rebuilt = [ops EXCEPT ![1] = ops[1]]
    BY <1>3 DEF Rebuilt
  <2>2. Rebuilt = ops
    BY <1>2, <2>1
  <2> QED BY <1>1, <1>3, <2>2
<1>4. CASE ~Trusted(r)
  <2>1. Rebuilt = [ops EXCEPT ![1] = first]
    BY <1>4 DEF Rebuilt
  <2>2. ops[1] = Packed(1, Unpaid(1), ops[1].price, ops[1].l1)
    BY <1>1, <1>2, <1>4 DEF Priced, TrustedPayment
  <2>3. first.price = ops[1].price /\ first.l1 = ops[1].l1 /\ first.limit = ops[1].limit
    BY <2>2 DEF Packed
  <2>4. OpCost(first) = OpCost(ops[1])
    BY <2>3 DEF OpCost
  <2>5. first.pays.amount = fee
    BY DEF Packed, Payment
  <2> HIDE DEF first
  <2>6. DOMAIN Rebuilt = DOMAIN ops /\ Rebuilt[1] = first /\ \A i \in DOMAIN ops : i # 1 => Rebuilt[i] = ops[i]
    BY <1>2, <2>1
  <2>7. \A i \in DOMAIN ops : OpCost(Rebuilt[i]) = OpCost(ops[i])
    BY <2>4, <2>6
  <2>8. [i \in DOMAIN Rebuilt |-> OpCost(Rebuilt[i])] = [i \in DOMAIN ops |-> OpCost(ops[i])]
    BY <2>6, <2>7
  <2>9. Total(Rebuilt) = Total(ops)
    BY <2>8 DEF Total
  <2> QED BY <1>1, <2>5, <2>6, <2>9
<1> QED BY <1>3, <1>4

\* For every number of userOps, whatever they cost: building the payment again with the fee
\* leaves the cost as it was charged, and the payment moves that fee.
THEOREM ChargedIsSigned == Spec => []ChargedWhatItSigned
BY IInvInit, IInvStep, ChargedFollows, PTL DEF Spec

-----------------------------------------------------------------------------
(* With the requests the SDK makes *)

SdkRequests == \A s \in Requests : Regular(s.ask)

LEMMA FundingFollows == ASSUME SdkRequests, IInv PROVE FundingIsThere
<1> SUFFICES ASSUME r.simulate, phase \in Afterwards
             PROVE  /\ r.permit /\ (Trusted(r) \/ ~SameToken(r) \/ r.trigger.chain = r.pay.chain) =>
                         funds[<<"eoa", r.trigger.chain, r.trigger.token>>] >= r.trigger.amount
                    /\ ~Sponsored(r) =>
                         LET holder == IF FeeType(r) = "NATIVE" THEN Holder(r) ELSE Payment(r, fee).from
                         IN funds[<<holder, r.pay.chain, r.pay.token>>] >= fee
  BY DEF FundingIsThere
<1>1. phase = "commit" \/ phase \in Given
  BY DEF Afterwards, Given
<1>2. /\ DOMAIN balances = DOMAIN Asked(r) /\ \A k \in DOMAIN balances : balances[k] = Balance(k)
      /\ r.permit => r.trigger # NoTrigger /\ TriggerBalance >= r.trigger.amount
  BY DEF IInv, BalanceInv, Afterwards
<1>3. ASSUME r.permit, Trusted(r) \/ ~SameToken(r) \/ r.trigger.chain = r.pay.chain
      PROVE  funds[<<"eoa", r.trigger.chain, r.trigger.token>>] >= r.trigger.amount
  <2>1. Holder(r) = "eoa"
    BY <1>3 DEF Holder
  <2>2. CASE Trusted(r)
    <3>1. 1 \in DOMAIN Asked(r) /\ Asked(r)[1] = r.trigger
      BY <1>3, <2>2, AskedShape
    <3> QED BY <1>2, <1>3, <2>1, <2>2, <3>1 DEF TriggerBalance, Balance
  <2>3. CASE ~Trusted(r) /\ ~SameToken(r)
    <3>1. 2 \in DOMAIN Asked(r) /\ Asked(r)[2] = r.trigger
      BY <1>3, <2>3, AskedShape
    <3> QED BY <1>2, <1>3, <2>1, <2>3, <3>1 DEF TriggerBalance, Balance
  <2>4. CASE ~Trusted(r) /\ SameToken(r)
    <3>1. 1 \in DOMAIN Asked(r) /\ Asked(r)[1] = r.pay
      BY <2>4, AskedShape
    <3>2. r.trigger.chain = r.pay.chain /\ r.pay.token = r.trigger.token
      BY <1>3, <2>4 DEF SameToken
    <3> QED BY <1>2, <1>3, <2>1, <2>4, <3>1, <3>2 DEF TriggerBalance, PaymentBalance, Balance
  <2> QED BY <2>2, <2>3, <2>4
<1>4. ASSUME ~Sponsored(r)
      PROVE  LET holder == IF FeeType(r) = "NATIVE" THEN Holder(r) ELSE Payment(r, fee).from
             IN funds[<<holder, r.pay.chain, r.pay.token>>] >= fee
  <2>1. ~Trusted(r)
    BY <1>4 DEF Sponsored, Trusted
  <2>2. 1 \in DOMAIN Asked(r) /\ Asked(r)[1] = r.pay
    BY <2>1, AskedShape
  <2>3. balances[1] = funds[<<Holder(r), r.pay.chain, r.pay.token>>]
    BY <1>2, <2>2 DEF Balance
  <2>4. fee <= balances[1]
    BY <1>1, <1>4, <2>1 DEF IInv, PaidInv, PaymentBalance
  <2>5. fee \in Nat /\ balances[1] \in Nat
    <3>1. balances[1] = Balance(1) /\ (r.permit => r.trigger # NoTrigger)
      BY <1>2, <2>2
    <3> QED BY <2>2, <3>1, BalanceIsNat DEF IInv, QuoteInv
  <2>6. FeeType(r) # "NATIVE" => Payment(r, fee).from = Holder(r)
    <3>1. CASE r.permit
      BY <1>4, <3>1 DEF Payment, Holder
    <3>2. CASE ~r.permit
      <4>1. r.pay.sender = r.ops[1].sender
        BY <1>4, <3>2, GivenRequest DEF IInv, SdkRequests, Regular
      <4> QED BY <3>2, <4>1 DEF Payment, Holder
    <3> QED BY <3>1, <3>2
  <2> QED BY <2>3, <2>4, <2>5, <2>6
<1> QED BY <1>3, <1>4

\* A simulated quote is backed by balances, in whichever order and of whichever holder they
\* were asked for: for the SDK's requests each check reads the right one.
THEOREM FundsAreThere == ASSUME SdkRequests PROVE Spec => []FundingIsThere
<1>1. IInv => FundingIsThere
  BY FundingFollows
<1> QED BY <1>1, IInvInit, IInvStep, PTL DEF Spec

LEMMA GasFollows == ASSUME SdkRequests, IInv PROVE GasCovers
<1> SUFFICES ASSUME quote # Null, NEW i \in 1..N
             PROVE  LET o == quote.ops[i] IN
                    /\ o.initCode => "create" \in o.limits.verification
                    /\ sims = <<>> \/ TrustedPayment(r, i)
                       \/ /\ Needs(i).verification \subseteq o.limits.verification
                          /\ Needs(i).call \subseteq o.limits.call
                          /\ Requested(r)[i].session = "use" => o.limits.policies = Reads(i)
  BY DEF GasCovers
<1> DEFINE o == quote.ops[i]
<1>1. IsAsk(r) /\ Regular(r) /\ i \in Indices(r)
  BY GivenRequest DEF IInv, SdkRequests
<1>2. quote.ops = Rebuilt /\ ops # <<>> /\ Priced(i, ops[i])
  BY DEF IInv, QuoteInv, Committed
<1>3. ops = [j \in 1..N |-> ops[j]]
  BY <1>2 DEF IInv, OpsInv
<1>4. o.limits = Limits(i) /\ o.initCode = InitCode(i)
  <2>1. ops[i].limits = Limits(i) /\ ops[i].initCode = InitCode(i)
    <3>1. \E pays, price, l1 : ops[i] = Packed(i, pays, price, l1)
      BY <1>2 DEF Priced
    <3> QED BY <3>1 DEF Packed
  <2>2. CASE i = 1 /\ ~Trusted(r)
    <3>1. o = Packed(1, Payment(r, fee), ops[1].price, ops[1].l1)
      <4>1. i \in DOMAIN ops
        BY <1>3
      <4> HIDE DEF N
      <4> QED BY <1>2, <2>2, <4>1 DEF Rebuilt
    <3> QED BY <2>2, <3>1 DEF Packed
  <2>3. CASE ~(i = 1 /\ ~Trusted(r))
    <3>1. o = ops[i]
      <4>1. i \in DOMAIN ops
        BY <1>3
      <4> HIDE DEF N
      <4> QED BY <1>2, <2>3, <4>1 DEF Rebuilt
    <3> QED BY <2>1, <3>1
  <2> QED BY <2>2, <2>3
<1>5. CASE TrustedPayment(r, i)
  <2>1. ~Requested(r)[1].deploys
    BY <1>1, <1>5, AskedOps DEF TrustedPayment
  <2>2. ~InitCode(i)
    BY <1>5, <2>1 DEF InitCode, TrustedPayment
  <2> QED BY <1>4, <1>5, <2>2
<1>6. CASE ~TrustedPayment(r, i) /\ sims = <<>>
  <2>1. Limits(i).verification = DefaultCovers(InitCode(i))
    BY <1>6 DEF Limits
  <2> QED BY <1>4, <1>6, <2>1 DEF DefaultCovers
<1>7. CASE ~TrustedPayment(r, i) /\ sims # <<>>
  <2> DEFINE t == sims[i].trace
  <2>1. Past
    BY DEF Past
  <2>2. sims[i] = Result(i, t) /\ CallTrace(t) /\ Ran(t) /\ (Deploys(r, i) => Spends(t, "create"))
    BY <1>7, <2>1, SimulatedRan
  <2>3. ~PreparationThrows(r)
    BY <1>7 DEF IInv, SimsInv
  <2>4. /\ Needs(i).verification \subseteq VerificationCovers(r, i, t) /\ Needs(i).call \subseteq CallCovers(r, i, t)
        /\ Requested(r)[i].session = "use" => PoliciesCover(r, i) = Reads(i)
    BY <1>1, <1>7, <2>2, <2>3, LimitsCover
  <2>5. /\ Limits(i).verification = VerificationCovers(r, i, t) /\ Limits(i).call = CallCovers(r, i, t)
        /\ Limits(i).policies = PoliciesCover(r, i)
    BY <1>7, <2>2 DEF Limits, Result
  <2>6. InitCode(i) => "create" \in Needs(i).verification
    BY DEF InitCode, Needs
  <2> HIDE DEF t
  <2> QED BY <1>4, <2>4, <2>5, <2>6
<1> QED BY <1>5, <1>6, <1>7

\* The limits of every userOp of every SDK request cover what it will execute: the two rules
\* for the userOp that triggers agree, and every policy is paid as it is read.
THEOREM LimitsAreEnough == ASSUME SdkRequests PROVE Spec => []GasCovers
<1>1. IInv => GasCovers
  BY GasFollows
<1> QED BY <1>1, IInvInit, IInvStep, PTL DEF Spec

\* What a signature says, and what the account looks for.
LEMMA SignedVerifies ==
  ASSUME SdkRequests, IInv, phase \in {"accepted", "mined"}, NEW i \in 1..N, ~TrustedPayment(r, i)
  PROVE  Verifies(i)
<1>1. /\ IsAsk(r) /\ Regular(r) /\ N \in Nat /\ N >= 2 /\ N = Len(r.ops) + 1
      /\ signed[i] = Signed(r, Type, sponsored, TrustedNow, i) /\ TrustedNow = Trusted(r)
  BY GivenRequest DEF IInv, SignedInv, SdkRequests, N
<1>2. CASE i = 1
  BY <1>2 DEF IInv, ChecksInv, TrustedPayment
<1>3. CASE i # 1
  <2> HIDE DEF N
  <2>1. i \in 2..N /\ i \in Nat
    BY <1>1, <1>3
  <2>2. i - 1 \in DOMAIN r.ops /\ Requested(r)[i] = r.ops[i - 1]
    BY <1>1, <2>1, AskedOps
  <2>3. Timed(r) <=> Requested(r)[i].session = "no"
    BY <1>1, <2>2 DEF Timed, Regular
  <2>4. Type \in {"simple", "onchain", "permit", "mm-dtk", "safe-sa"}
    BY <1>1, AskFields DEF Type, Triggering
  <2>5. CASE Type = "simple" /\ Eip712(r)
    <3>1. signed[i] = SimpleSigned(r, i, Trusted(r))
      BY <1>1, <1>3, <2>5 DEF Signed
    <3>2. /\ signed[i].form = "hashes" /\ signed[i].timed = Timed(r)
          /\ signed[i].at = (IF r.newSdk /\ Trusted(r) THEN i - 1 ELSE i)
          /\ signed[i].from = (IF r.newSdk /\ Trusted(r) THEN 2 ELSE 1)
      BY <2>5, <3>1 DEF SimpleSigned, Position
    <3>3. signed[i].from + signed[i].at - 1 = i
      BY <2>1, <3>2
    <3>4. signed[i].timed = (Requested(r)[i].session = "no")
      <4>1. Timed(r) = (Requested(r)[i].session = "no")
        BY <2>3 DEF Timed
      <4> QED BY <3>2, <4>1
    <3> QED BY <3>2, <3>3, <3>4 DEF Verifies
  <2>6. CASE (Type = "simple" /\ ~Eip712(r)) \/ Type = "onchain"
    <3>1. signed[i].form = "proof" /\ signed[i].of = i
      BY <1>1, <1>3, <2>6 DEF Signed, SimpleSigned, OnchainSigned
    <3> QED BY <3>1 DEF Verifies
  <2>7. CASE Type = "permit"
    <3>1. signed[i].form = "trigger" /\ signed[i].of = i /\ signed[i].owner = AtLeast(r, 30)
      BY <1>1, <1>3, <2>7 DEF Signed, PermitSigned
    <3>2. AtLeast(r, 30) = (Type = "permit" /\ AtLeast(r, 30))
      BY <2>7 DEF AtLeast
    <3> QED BY <3>1, <3>2 DEF Verifies
  <2>8. CASE Type \in {"mm-dtk", "safe-sa"}
    <3>1. signed[i].form = "trigger" /\ signed[i].of = i /\ signed[i].owner = FALSE
      BY <1>1, <1>3, <2>8 DEF Signed, DelegationSigned, SafeSigned
    <3>2. FALSE = (Type = "permit" /\ AtLeast(r, 30))
      BY <2>8
    <3> QED BY <3>1, <3>2 DEF Verifies
  <2> QED BY <2>4, <2>5, <2>6, <2>7, <2>8
<1> QED BY <1>2, <1>3

LEMMA OneTriggers ==
  ASSUME SdkRequests, IInv, phase \in {"accepted", "mined"}, Type \in Triggering
  PROVE  Cardinality({i \in 1..N : signed[i].form = "trigger" /\ signed[i].executes}) = 1
<1> DEFINE k == IF sponsored THEN 2 ELSE 1
<1>1. k \in 1..N /\ sponsored \in BOOLEAN
  <2>1. sponsored \in BOOLEAN
    BY DEF IInv, SignedInv
  <2>2. N \in Nat /\ N >= 2
    BY GivenRequest DEF IInv
  <2> HIDE DEF N
  <2> QED BY <2>1, <2>2
<1>2. \A i \in 1..N : signed[i] = Signed(r, Type, sponsored, TrustedNow, i)
  BY DEF IInv, SignedInv
<1>3. ASSUME NEW i \in 1..N
      PROVE  (signed[i].form = "trigger" /\ signed[i].executes) <=> i = k
  <2>1. CASE i = 1 /\ sponsored
    <3>1. Signed(r, Type, sponsored, TrustedNow, i) = [form |-> "sponsor"]
      BY <2>1 DEF Signed
    <3>2. signed[i].form = "sponsor"
      BY <1>2, <3>1
    <3> QED BY <2>1, <3>2
  <2>2. CASE ~(i = 1 /\ sponsored)
    <3>1. \/ Type = "permit" /\ signed[i] = PermitSigned(r, sponsored, i)
          \/ Type = "mm-dtk" /\ signed[i] = DelegationSigned(sponsored, i)
          \/ Type = "safe-sa" /\ signed[i] = SafeSigned(sponsored, i)
      BY <1>2, <2>2 DEF Signed, Triggering
    <3>2. signed[i].form = "trigger" /\ signed[i].executes = Triggers(Type, sponsored, i)
      BY <3>1 DEF PermitSigned, DelegationSigned, SafeSigned
    <3>3. Triggers(Type, sponsored, i) <=> i = k
      BY DEF Triggers
    <3> QED BY <3>2, <3>3
  <2> QED BY <2>1, <2>2
<1> HIDE DEF k, N
<1>4. {i \in 1..N : signed[i].form = "trigger" /\ signed[i].executes} = {k}
  BY <1>1, <1>3
<1> QED BY <1>4, FS_Singleton

LEMMA AgreementFollows == ASSUME SdkRequests, IInv PROVE CommittedVerifies
<1>1. reason = "hash" => (Sponsored(r) /\ ~sponsored) \/ r.type = "none"
  BY DEF IInv, SignedInv
<1>2. ASSUME reason = "versions"
      PROVE  \E c, d \in DOMAIN r.versions : r.versions[c] < 30 /\ r.versions[d] >= 30
  <2>1. Mixed(r, 30)
    BY <1>2 DEF IInv, SignedInv
  <2>2. \A c \in DOMAIN r.versions : r.versions[c] \in Nat
    BY GivenRequest, AskFields DEF IInv
  <2> QED BY <2>1, <2>2 DEF Mixed, AtLeast
<1> QED BY <1>1, <1>2, SignedVerifies, OneTriggers DEF CommittedVerifies

\* The node executes what it quoted: for the SDK's requests, of every type, version and
\* number of userOps, executeQuote finds the hash it gave, every signature it makes is the
\* one the account looks for, and one userOp executes the trigger.
THEOREM HandlersAgree == ASSUME SdkRequests PROVE Spec => []CommittedVerifies
<1>1. IInv => CommittedVerifies
  BY AgreementFollows
<1> QED BY <1>1, IInvInit, IInvStep, PTL DEF Spec
=============================================================================
