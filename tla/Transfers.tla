------------------------------ MODULE Transfers ------------------------------
(***************************************************************************)
(* Which transfers of a mined block are recorded for which of its userOps, *)
(* from the logs and from the trace of the transaction.                    *)
(*                                                                         *)
(* A log is [kind, op, nr]: "before" (BeforeExecution), "op"               *)
(* (UserOperationEvent), "transfer", "withdrawn".  A trace is the sequence *)
(* of the innerHandleOp calls, each [op, readable, calls], and a call      *)
(* [kind, nr], "value" or "post" (postOp).  op is the userOp that runs, nr *)
(* tells transfers apart.                                                  *)
(***************************************************************************)
EXTENDS Naturals, Sequences, FiniteSets

-----------------------------------------------------------------------------
(* getUserOpTransfers *)

\* The logs that are looked at: those of the execution, not of the validation.
Tracked(logs, k) == \E j \in 1..k : logs[j].kind = "before"

Ends(logs) == {k \in DOMAIN logs : Tracked(logs, k) /\ logs[k].kind = "op"}

SinceStart(logs, e) == {k \in 1..e-1 : Tracked(logs, k)}   \* variant: the lists are not emptied

\* What the event at e closes: the logs after the event before it.
Closed(logs, e) == {k \in 1..e-1 : Tracked(logs, k) /\ \A d \in Ends(logs) : d < e => d < k}

\* A transfer of a token whose name, symbol or decimals cannot be read is left out.
Erc20Of(logs, e, known) == {logs[k] : k \in {j \in Closed(logs, e) : logs[j].kind = "transfer" /\ logs[j].nr \in known}}

WithdrawnOf(logs, e) == {logs[k] : k \in {j \in Closed(logs, e) : logs[j].kind = "withdrawn"}}

-----------------------------------------------------------------------------
(* getUserOpNativeTransfers *)

Posts(c) == {k \in DOMAIN c.calls : c.calls[k].kind = "post"}

\* The values moved up to the first postOp, those of reverted calls included; all if
\* there is none.
Values(c) ==
  {[op |-> c.op, nr |-> c.calls[k].nr] :
     k \in {j \in DOMAIN c.calls : c.calls[j].kind = "value" /\ \A p \in Posts(c) : j < p}}

Collects(c) == c.readable /\ Posts(c) # {}

\* What no postOp collected stays in the list, and the next postOp collects it.
Pending(t, n) ==
  {m \in 1..n : t[m].readable /\ \A k \in m..n-1 : ~Collects(t[k])}

NativeOf(t, n) == UNION {Values(t[m]) : m \in Pending(t, n)}

-----------------------------------------------------------------------------
(* getUserOpStateTransitions *)

Closing(logs, op) == {e \in Ends(logs) : logs[e].op = op}

\* A postOp of a userOp that has no event throws, and so does a failed trace: nothing is
\* recorded then.
Throws(logs, t) == \E n \in DOMAIN t : Collects(t[n]) /\ Closing(logs, t[n].op) = {}

Recorded(logs, t, known) ==
  IF Throws(logs, t) THEN <<>>
  ELSE [op \in {logs[e].op : e \in Ends(logs)} |->
    LET e == CHOOSE x \in Closing(logs, op) : \A y \in Closing(logs, op) : y <= x
        own == {n \in DOMAIN t : t[n].op = op /\ Collects(t[n])}
    IN [erc20 |-> Erc20Of(logs, e, known), withdrawn |-> WithdrawnOf(logs, e),
        native |-> UNION {NativeOf(t, n) : n \in own}]]

-----------------------------------------------------------------------------
(* The EntryPoint: what is in a block. *)

\* The userOps are executed one after another, each followed by its event: what is moved
\* in the execution is moved by the userOp of the next event.
InOrder(logs) ==
  /\ logs \in Seq([kind : {"before", "op", "transfer", "withdrawn"}, op : Nat, nr : Nat])
  /\ \A k, e \in DOMAIN logs :
       /\ logs[k].kind \in {"transfer", "withdrawn"} /\ \E j \in 1..k : logs[j].kind = "before"
       /\ k < e /\ logs[e].kind = "op" /\ \A d \in k..e-1 : logs[d].kind # "op"
       => logs[k].op = logs[e].op

InTurn(t) ==
  /\ t \in Seq([op : Nat, readable : BOOLEAN, calls : Seq([kind : {"value", "post"}, nr : Nat])])
  /\ \A m, n \in DOMAIN t : t[m].op = t[n].op => m = n
=============================================================================
