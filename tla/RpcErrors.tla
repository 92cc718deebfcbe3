------------------------------ MODULE RpcErrors ------------------------------
(***************************************************************************)
(* What the RPC manager makes of an error: is it of the chain, which every *)
(* provider would repeat, or of the provider, so that the next one is      *)
(* tried.                                                                  *)
(*                                                                         *)
(* An error is [class, status, code, says]: the class it is an instance of *)
(* ("execution", "timeout", "http", "other"), the HTTP status or 0, the    *)
(* code as text, and the topics its message has phrases of.                *)
(***************************************************************************)
EXTENDS Naturals

\* The phrases of the lists in executor/constants.ts and of the rules beside them.
Topics == {"nonce", "replacement", "gas price", "max fee", "priority fee", "block limit", "revert",
           "out of gas", "insufficient funds", "funds", "rate limit", "timeout", "not processed",
           "invalid", "unauthorized", "network", "server"}

Says(e, topics) == e.says \cap topics # {}

OfTheChain(e) ==
  \/ e.class = "execution" \/ e.code \in {"3", "-32015", "-32016"}
  \/ Says(e, {"nonce", "replacement", "gas price", "max fee", "priority fee", "block limit", "revert",
              "out of gas", "insufficient funds"})
  \/ e.code = "-32000" /\ Says(e, {"funds"})

RateLimited(e) == e.status = 429 \/ Says(e, {"rate limit"})

TimedOut(e) == e.class = "timeout" \/ e.code \in {"ETIMEDOUT", "ESOCKETTIMEDOUT"} \/ Says(e, {"timeout"})

\* A sync send that was taken but not mined yet.
NotProcessed(e) == Says(e, {"not processed"})

\* The request itself, or the key of the provider.
Rejected(e) ==
  \/ e.class = "http" /\ e.status \in 400..499 \ {408, 429}
  \/ e.code \in {"-32600", "-32601", "-32602", "-32700"}
  \/ Says(e, {"invalid", "unauthorized"})

\* Any 408 or 5xx is one of the provider, and so is what nobody thought of.
ServerFailed(e) == e.class = "http" /\ (e.status = 408 \/ e.status >= 500)

classifyErrorLimitsFirst(e) ==   \* variant: the limits of the provider are looked at first
  IF RateLimited(e) THEN "RATE_LIMIT"
  ELSE IF TimedOut(e) THEN "RETRIABLE"
  ELSE IF OfTheChain(e) \/ NotProcessed(e) THEN "CHAIN_ERROR"
  ELSE IF Rejected(e) THEN "NON_RETRIABLE"
  ELSE "RETRIABLE"

\* The order matters: the most specific cases first.
classifyError(e) ==
  IF OfTheChain(e) THEN "CHAIN_ERROR"
  ELSE IF RateLimited(e) THEN "RATE_LIMIT"
  ELSE IF TimedOut(e) THEN "RETRIABLE"
  ELSE IF NotProcessed(e) THEN "CHAIN_ERROR"
  ELSE IF ~ServerFailed(e) /\ Rejected(e) THEN "NON_RETRIABLE"
  ELSE "RETRIABLE"
=============================================================================
