-------------------------------- MODULE Fees --------------------------------
(***************************************************************************)
(* What a supertransaction costs: the fee of the layer below, what the gas *)
(* of a userOp costs, and the amount of the payment token that is charged. *)
(***************************************************************************)
EXTENDS Integers

Failure == [used |-> 0, fee |-> -1]

\* a over b, rounded to the nearest whole number, as toFixed does.
Rounded(a, b) == (2 * a + b) \div (2 * b)

-----------------------------------------------------------------------------
(* GasEstimatorServiceV2.getL1Gas: a is what the chain answers. *)

\* The fee of the data on the layer below, and that fee in gas of this layer.
OptimismL1(a, base) ==
  IF a.fee = 0 \/ base = 0 THEN Failure ELSE [used |-> a.fee \div base, fee |-> a.fee]

\* The cost is put together from its price and its size, which rounds it down.
ArbitrumL1(a, base) ==
  IF base = 0 THEN Failure
  ELSE LET size == IF a.price = 0 THEN 0 ELSE (a.gas * base) \div a.price
       IN [used |-> (a.price * size) \div base, fee |-> a.price * size]

L1Cost(type, a, base) ==
  CASE type = "optimism" -> OptimismL1(a, base)
    [] type = "arbitrum" -> ArbitrumL1(a, base)
    [] OTHER             -> [used |-> 0, fee |-> 0]

-----------------------------------------------------------------------------
(* UserOpService.getUserOpCost, PaymentService.dollarCostToTokenAmount *)

\* The gas of the layer below is in the limit, but it is charged with its own fee.
OpCost(o) == o.price * (o.limit - o.l1.used) + o.l1.fee

\* A token without a price costs nothing.
TokenAmount(cost, price) == IF price = 0 THEN 0 ELSE Rounded(cost, price)

-----------------------------------------------------------------------------
(* ArbitraryPaymentService: the amounts a provider may ask for, {} if it fails. *)

\* LiFiPaymentService.calculateTokenAmount: the addition of 0.03 % is below a unit here.
Lifi(cost, prices) == {Rounded(cost, p) : p \in prices \ {0}}

\* GluexPaymentService.calculateTokenAmount: rounded as native token and once more.
Gluex(cost, natives, rates) ==
  {Rounded(Rounded(cost, p), x) : p \in natives \ {0}, x \in rates \ {0}}

\* Both are asked and the first that succeeds is taken, the dearer as well.
Routed(cost, supporting, prices, natives, rates) ==
  (IF "lifi" \in supporting THEN Lifi(cost, prices) ELSE {})
  \cup (IF "gluex" \in supporting THEN Gluex(cost, natives, rates) ELSE {})

-----------------------------------------------------------------------------
(* PriceFeedsService.getPrice *)

\* A cached price is taken once its time is over; within it the oracle is asked again.
CacheServes(feed) == feed.price # 0 /\ feed.expired

OraclePrices(feed, answers) == IF CacheServes(feed) THEN {feed.price} ELSE answers
=============================================================================
