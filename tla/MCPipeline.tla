----------------------------- MODULE MCPipeline -----------------------------
EXTENDS Pipeline
CONSTANTS o1, o2, o3, o4

\* With GasCap 3, o1 and o2 fit one block each and not together, o4 fits none.
GasOf == [o \in Ops |-> IF o = o4 THEN 5 ELSE IF o = o3 THEN 3 ELSE 2]

Plain(O) == [ops |-> O, cleanUps |-> {}, badSig |-> {}, early |-> {}, unready |-> {},
             undeployed |-> FALSE, faults |-> [rpc |-> 0, disruption |-> 0, change |-> 0]]

SomeQuotes == {
  \* a clean-up forces the other userOp, whose conditions come and go
  [Plain({o1, o2}) EXCEPT !.cleanUps = {o2}, !.unready = {o1}, !.faults.change = 1],
  \* an account that is deployed late, and a failing request
  [Plain({o1}) EXCEPT !.undeployed = TRUE, !.faults.change = 1, !.faults.rpc = 1],
  \* a signature the account rejects, beside a userOp too large for a block
  [Plain({o1, o4}) EXCEPT !.badSig = {o1}, !.faults.rpc = 1],
  \* a crash or a failing call of Redis: two userOps in one round, and one that waits
  [Plain({o1, o2}) EXCEPT !.faults.disruption = 1],
  [Plain({o1}) EXCEPT !.early = {o1}, !.faults.disruption = 1] }
=============================================================================
