--------------------------- MODULE MCRpcManager ---------------------------
EXTENDS RpcManager
CONSTANTS p1, p2
Two   == {p1, p2}
InOrder == [p \in Providers |-> IF p = p1 THEN 0 ELSE 1]

\* Two topics in one message, and classes, codes and status beside one topic.
Error(c, st, code, t) == [class |-> c, status |-> st, code |-> code, says |-> t]
SomeErrors ==
  {Error("other", 0, "none", {t, u}) : t \in Topics, u \in Topics}
  \cup {Error(c, st, code, {t}) : c \in {"execution", "timeout", "http"}, st \in {0, 401, 408, 429, 503},
         code \in {"none", "3", "-32000", "-32602"}, t \in {"server", "funds", "timeout", "invalid"}}
=============================================================================
