----------------------------- MODULE MCExplorer -----------------------------
EXTENDS Explorer
CONSTANTS r1, r2, q1, q2

TwoChains == [o \in Ops |-> o]

\* A client while blocks are replaced and requests fail; two clients; two requests at
\* once; an API worker that crashes and a queue that fails.
Calm == [k \in {"block", "query", "reorg", "rpc", "queue", "crash"} |-> 0]
Answers == [requests |-> {r1}, trusted |-> TRUE, succeeds |-> TRUE, clients |-> {q1},
            budget |-> [Calm EXCEPT !["block"] = 4, !["query"] = 2, !["reorg"] = 1, !["rpc"] = 1]]
Overtake == [requests |-> {r1}, trusted |-> TRUE, succeeds |-> FALSE, clients |-> {q1, q2},
            budget |-> [Calm EXCEPT !["block"] = 3, !["query"] = 2, !["crash"] = 1]]
Twice   == [requests |-> {r1, r2}, trusted |-> TRUE, succeeds |-> TRUE, clients |-> {q1},
            budget |-> [Calm EXCEPT !["block"] = 2, !["query"] = 2]]
Broken  == [requests |-> {r1, r2}, trusted |-> FALSE, succeeds |-> FALSE, clients |-> {},
            budget |-> [Calm EXCEPT !["block"] = 2, !["queue"] = 1, !["crash"] = 1]]
Four == {Answers, Overtake, Twice, Broken}
=============================================================================
