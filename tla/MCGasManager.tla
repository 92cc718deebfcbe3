---------------------------- MODULE MCGasManager ----------------------------
EXTENDS GasManager
CONSTANTS up, down

\* A rollup with fee history, and the layer below it, with a price and a minimum.
Modes  == [c \in Chains |-> IF c = up THEN "standard" ELSE "rapid"]
Floors == [c \in Chains |-> IF c = up THEN 0 ELSE 12]
Below  == [c \in Chains |-> IF c = up THEN down ELSE Null]

\* A calm price, a spike below five times and one above.
Prices3 == [c \in Chains |-> IF c = up THEN {10} ELSE {10, 60}]

Reward(n) == [q \in {50, 75, 95} |-> n]

\* Calm blocks, and crowded ones that paid nothing or much.
Blocks == [c \in Chains |-> IF c = up
  THEN {[base |-> 5, rewards |-> <<Reward(2), Reward(4)>>, used |-> <<50, 50>>],
        [base |-> 9, rewards |-> <<Reward(0), Reward(0)>>, used |-> <<95, 96>>]}
  ELSE {[base |-> 0, rewards |-> <<>>, used |-> <<>>]}]

SomeTips == [c \in Chains |-> IF c = up THEN {9} ELSE {0}]

Budget(f, x, r, d) == [fetches |-> f, faults |-> x, retries |-> r, restarts |-> d]
Scenarios == {Budget(2, 0, 0, 0), Budget(1, 1, 0, 0), Budget(1, 0, 0, 1), Budget(0, 1, 2, 0), Budget(0, 0, 2, 1)}
=============================================================================
