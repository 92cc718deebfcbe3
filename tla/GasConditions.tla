--------------------------- MODULE GasConditions ---------------------------
(***************************************************************************)
(* From what a chain answers about the price of gas to the fees of a       *)
(* transaction: the rules of GasManagerService.getGasPrice and             *)
(* GasEstimatorServiceV2.getCurrentGasConditions.                          *)
(*                                                                         *)
(* A fee history is [base, rewards, used]: the next block's base fee, the  *)
(* reward of each block by percentile, and how full each was in percent.   *)
(***************************************************************************)
EXTENDS Integers, FiniteSets, SequencesExt

CONSTANTS
  Null,   \* no answer
  Gwei    \* the tip where no reward is known

\* The element at place i once the elements of h at the places D are sorted.
Ranked(h, D, i) ==
  CHOOSE x \in {h[k] : k \in D} :
    /\ Cardinality({k \in D : h[k] < x}) < i
    /\ i <= Cardinality({k \in D : h[k] <= x})

MedianUnhalved(h, D) ==   \* variant: the middle two of an even number are added up
  LET n == Cardinality(D) IN
  IF n % 2 = 1 THEN Ranked(h, D, n \div 2 + 1)
  ELSE Ranked(h, D, n \div 2) + Ranked(h, D, n \div 2 + 1)

Median(h, D) ==
  LET n == Cardinality(D) IN
  IF n % 2 = 1 THEN Ranked(h, D, n \div 2 + 1)
  ELSE (Ranked(h, D, n \div 2) + Ranked(h, D, n \div 2 + 1)) \div 2

Larger(a, b) == IF a > b THEN a ELSE b

\* What is made of the median m and the current price q: a spike counts a third, an outlier
\* nothing. At exactly five times the median the current price is taken.
Blend(m, q) ==
  LET ratio == (q * 100) \div m IN
  CASE ratio > 200 /\ ratio < 500 -> (2 * m + q) \div 3
    [] ratio > 500 \/ ratio < 50  -> m
    [] OTHER                      -> Larger(q, m)

Raised(x, percent) == (x * (100 + percent)) \div 100

-----------------------------------------------------------------------------
(* getGasPrice, getFeeHistroy *)

Buffer(mode) == CASE mode = "standard" -> 10 [] mode = "fast" -> 50 [] mode = "rapid" -> 70

\* A median of zero divides by zero, which counts as a failed request.
Priced(h, q, mode) ==
  IF Len(h) < 3 THEN Raised(q, Buffer(mode))
  ELSE IF Median(h, 1..Len(h)) = 0 THEN Null
  ELSE Raised(Blend(Median(h, 1..Len(h)), q), Buffer(mode))

Percentile(mode) == CASE mode = "standard" -> 50 [] mode = "fast" -> 75 [] mode = "rapid" -> 95
BlockCount(mode) == CASE mode = "standard" -> 10 [] mode = "fast" -> 5 [] mode = "rapid" -> 2

Latest(s, n) == SubSeq(s, Larger(1, Len(s) - n + 1), Len(s))

\* The chain answers for the blocks and the percentile it is asked for.
HistoryFor(x, mode) ==
  [base    |-> x.base,
   rewards |-> [k \in 1..Len(Latest(x.rewards, BlockCount(mode))) |->
                  Latest(x.rewards, BlockCount(mode))[k][Percentile(mode)]],
   used    |-> Latest(x.used, BlockCount(mode))]

-----------------------------------------------------------------------------
(* getCurrentGasConditions *)

\* The price of a legacy chain, from its configured minimum on.
Legacy(price, least) == [base |-> Larger(price, least), tip |-> Larger(price, least), max |-> Larger(price, least)]

Usual(rewards, mode) ==
  LET paid == {k \in 1..Len(rewards) : rewards[k] > 0} IN
  IF paid # {} THEN Median(rewards, paid) ELSE IF mode = "standard" THEN 0 ELSE Gwei

\* The average of the last three blocks, or of fewer; none is not crowded.
Crowded(used, percent) ==
  used # <<>> /\ FoldSeq(LAMBDA a, b : a + b, 0, Latest(used, 3)) > percent * Len(Latest(used, 3))

Tip(x, rpcTip, mode) ==
  LET usual == Usual(x.rewards, mode)
      tip   == IF rpcTip > 0 /\ usual > 0 THEN Blend(usual, rpcTip) ELSE usual
  IN IF mode = "standard" THEN usual
     ELSE IF Crowded(x.used, 90) THEN Raised(tip, 50)
     ELSE IF Crowded(x.used, 70) THEN Raised(tip, 20)
     ELSE tip

Multiplier(mode) == CASE mode = "standard" -> 1 [] mode = "fast" -> 2 [] mode = "rapid" -> 3

Market(x, rpcTip, mode) ==
  [base |-> x.base, tip |-> Tip(x, rpcTip, mode),
   max |-> x.base * Multiplier(mode) + Tip(x, rpcTip, mode)]
=============================================================================
