------------------------------ MODULE MCQuote ------------------------------
EXTENDS Quote

F(d, k, e) == [depth |-> d, kind |-> k, error |-> e]

Op(s, c, dep, n, sess, sp, o) ==
  [sender |-> s, chain |-> c, deploys |-> dep, calls |-> n, session |-> sess, spends |-> sp, own |-> o, actions |-> <<>>]

Pay(c, t, s, dep) == [chain |-> c, token |-> t, sender |-> s, deploys |-> dep, refund |-> "none"]

Ask(type, permit, sponsor, eip, sim, sdk, pay, trig, os) ==
  [type |-> type, permit |-> permit, sponsor |-> sponsor, versions |-> [c \in {1, 2} |-> IF eip THEN 22 ELSE 21], simulate |-> sim,
   newSdk |-> sdk, pay |-> pay, trigger |-> trig, ops |-> os]

Trig(c, t, n) == [chain |-> c, token |-> t, amount |-> n]
Plain(c, dep) == Op("sca", c, dep, 2, "no", FALSE, "absent")
Pull(c, dep)  == Op("sca", c, dep, 2, "no", TRUE, "absent")

Simple   == Ask("simple", FALSE, "none", TRUE, TRUE, TRUE, Pay(1, "usd", "sca", TRUE), NoTrigger, <<Plain(1, TRUE), Plain(2, FALSE)>>)
Hosted   == Ask("simple", FALSE, "trusted", TRUE, TRUE, TRUE, Pay(1, "usd", "tank", FALSE), NoTrigger, <<Plain(1, TRUE), Plain(2, TRUE)>>)
HostedOld == [Hosted EXCEPT !.newSdk = FALSE, !.simulate = FALSE]
Untyped  == [Simple EXCEPT !.type = "none", !.simulate = FALSE]
Permit   == Ask("permit", TRUE, "none", FALSE, TRUE, TRUE, Pay(1, "usd", "sca", TRUE), Trig(1, "usd", 2), <<Pull(1, TRUE), Plain(2, TRUE)>>)
PermitHosted == [Permit EXCEPT !.sponsor = "trusted", !.pay = Pay(2, "usd", "tank", FALSE)]
Delegated == [Permit EXCEPT !.type = "mm-dtk", !.sponsor = "third", !.pay = Pay(1, Native, "tank", FALSE)]
Onchain  == [Permit EXCEPT !.type = "onchain", !.pay = Pay(2, Native, "sca", TRUE)]
Single   == [Permit EXCEPT !.ops = <<Op("sca", 1, TRUE, 1, "no", TRUE, "absent")>>]
Own      == [Permit EXCEPT !.ops = <<Op("sca", 1, TRUE, 2, "no", TRUE, "some"), Op("sca", 1, FALSE, 1, "no", TRUE, "empty")>>]
Sessions == Ask("simple", FALSE, "trusted", TRUE, TRUE, TRUE, Pay(1, "usd", "tank", FALSE), NoTrigger,
  <<Op("sca", 1, FALSE, 2, "enable", FALSE, "absent"), [Op("sca", 1, FALSE, 3, "use", FALSE, "absent") EXCEPT !.actions = <<"swap", NoAction, "swap">>]>>)
Other    == [Simple EXCEPT !.pay.token = "dog"]
Halfway  == [Simple EXCEPT !.versions = [c \in {1, 2} |-> 20 + c]]
Testnet  == [Simple EXCEPT !.ops = <<Plain(3, FALSE)>>]
Dogs     == [Hosted EXCEPT !.pay.token = "dog", !.ops = <<Plain(1, TRUE)>>]
Memes    == [Permit EXCEPT !.pay.token = "dog", !.versions = [c \in {1, 2} |-> 30], !.ops = <<Pull(1, TRUE)>>]
Safe     == [Permit EXCEPT !.type = "safe-sa", !.ops = <<Pull(1, TRUE)>>]
Straddling == [Safe EXCEPT !.versions = [c \in {1, 2} |-> 20 + 5 * c]]
NoFunding == [Permit EXCEPT !.trigger = NoTrigger]
Twins    == [Permit EXCEPT !.pay = Pay(2, "usd", "sca", TRUE)]
Asks == {Simple, Hosted, HostedOld, Untyped, Permit, PermitHosted, Delegated, Onchain, Single, Own, Sessions, Other, Halfway,
         Testnet, Dogs, Memes, Safe, Straddling, NoFunding, Twins}

ASSUME \A a \in Asks : Regular(a)

SomeTokens == {1, 2} \X {"usd", Native}

Held(eoa, sca) == [k \in {"eoa", "sca", "tank"} \X {1, 2} \X {"usd", "dog", Native} |->
  CASE k[1] = "eoa" -> eoa[k[2]] [] k[1] = "sca" -> sca[k[2]] [] OTHER -> 9]

Cold  == [feed |-> [price |-> 0, expired |-> FALSE], support |-> "unknown"]
SomeCaches == {Cold, [feed |-> [price |-> 5, expired |-> TRUE], support |-> "yes"],
           [feed |-> [price |-> 5, expired |-> FALSE], support |-> "no"]}

SomeRequests == {[ask |-> a, funds |-> f, caches |-> c] :
  a \in Asks, f \in {Held(<<7, 4>>, <<1, 1>>), Held(<<1, 9>>, <<7, 7>>)}, c \in SomeCaches}

\* The frames below the call of the account, and beside it (postOp), two at most.
Tails ==
  LET fs == {F(d, "call", e) : d \in 2..4, e \in Error} IN
  {<<>>} \cup {<<a>> : a \in {f \in fs : f.depth < 4}}
  \cup {<<a, b>> : a \in {f \in fs : f.depth < 4}, b \in fs}

ShapedTails == {t \in Tails : Len(t) < 2 \/ t[2].depth <= t[1].depth + 1}

All == {<<F(0, "root", a), F(1, "validate", "none"), F(1, "inner", b), F(2, "call", c)>> \o t :
          a \in {"none", "revert"}, b \in Error, c \in Error, t \in ShapedTails}
       \cup {<<F(0, "root", "revert"), F(1, "validate", "revert")>>}

Fine(create) ==
  <<F(0, "root", "none")>> \o (IF create THEN <<F(1, "create", "none")>> ELSE <<>>) \o
  <<F(1, "validate", "none"), F(1, "inner", "none"), F(2, "call", "none")>>
Bad == <<F(0, "root", "none"), F(1, "validate", "none"), F(1, "inner", "none"), F(2, "call", "revert")>>

SomeTraces == [x \in {<<a, i>> : a \in Asks, i \in 1..3} |->
  IF x = <<Simple, 3>> THEN All
  ELSE {Fine(x[2] \in Indices(x[1]) /\ Deploys(x[1], x[2])), Bad}]

\* handleOps pays the beneficiary after the userOp; its postOp does not revert.
Paid == {t \o <<F(1, "pay", "none")>> : t \in {u \in All : Len(u) > 2 /\ u[3].error = "none" /\ u[1].error = "none"}}
SomePayTraces == [a \in Asks |-> IF a = Permit THEN Paid ELSE {Fine(FALSE), Bad}]

SomeChains == [c \in 1..3 |-> CASE c = 1 -> "optimism" [] c = 2 -> "arbitrum" [] c = 3 -> "other"]
SomeGas    == {[base |-> 0, tip |-> 1], [base |-> 1, tip |-> 1]}
SomeL1     == [c \in 1..3 |-> CASE c = 1 -> {[fee |-> 0], [fee |-> 2]} [] c = 2 -> {[gas |-> 3, price |-> 2]} [] c = 3 -> {[fee |-> 0]}]

\* A block of two userOps: what each leaves in the logs, and in the trace.
Log(k, o, n) == [kind |-> k, op |-> o, nr |-> n]
Moves(o) == {<<>>, <<Log("transfer", o, o)>>, <<Log("withdrawn", o, o)>>, <<Log("withdrawn", o, o), Log("transfer", o, o)>>}
Calls(o) == {[op |-> o, readable |-> b, calls |-> c] : b \in BOOLEAN,
  c \in {<<>>, <<[kind |-> "value", nr |-> 1]>>,
         <<[kind |-> "value", nr |-> 1], [kind |-> "post", nr |-> 0], [kind |-> "value", nr |-> 2]>>,
         <<[kind |-> "value", nr |-> 2], [kind |-> "value", nr |-> 1], [kind |-> "post", nr |-> 0]>>}}

BlocksOfTwo == {[logs |-> v \o <<Log("before", 0, 0)>> \o a \o <<Log("op", 1, 0)>> \o b \o e, trace |-> t] :
  v \in {<<>>, <<Log("transfer", 1, 3)>>}, a \in Moves(1), b \in Moves(2), e \in {<<>>, <<Log("op", 2, 0)>>},
  t \in {<<x, y>> : x \in Calls(1), y \in Calls(2)}}

SomeBlocks == [a \in Asks |-> IF a = HostedOld THEN BlocksOfTwo ELSE {}]
=============================================================================
