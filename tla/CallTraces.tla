----------------------------- MODULE CallTraces -----------------------------
(***************************************************************************)
(* What the node reads out of the call trace of an EntryPoint call.        *)
(*                                                                         *)
(* A trace is the sequence of its frames in the order of the calls, each   *)
(* with its depth, what it calls and how it ended:                         *)
(*   kind  "root", "validate", "create" (createSender), "inner"            *)
(*         (innerHandleOp), "call", "pay" (the beneficiary)                *)
(*   error "none", "revert", or "other" (out of gas, invalid opcode)       *)
(***************************************************************************)
EXTENDS Naturals, Sequences, FiniteSets

Kind  == {"root", "validate", "create", "inner", "call", "pay"}
Error == {"none", "revert", "other"}
Frame == [depth : Nat, kind : Kind, error : Error]

Failed(t, i) == t[i].error # "none"

\* Frame i runs inside frame a.
Inside(t, a, i) == a < i /\ \A k \in a+1..i : t[k].depth > t[a].depth

Children(t, a) == {i \in DOMAIN t : Inside(t, a, i) /\ t[i].depth = t[a].depth + 1}

\* The calls the caller of frame a makes after it.
Siblings(t, a) == {s \in DOMAIN t : s > a /\ t[s].depth = t[a].depth
                                   /\ \A k \in a..s : t[k].depth >= t[a].depth}

-----------------------------------------------------------------------------
(* flatTraceCallResult *)

\* Something succeeded after frame r, beside its ancestor a or called by a.
WentOn(t, a, r) ==
  \E s \in Siblings(t, a) \cup {c \in Children(t, a) : c > r} : ~Failed(t, s)

HandledAnywhere(t, r) ==   \* variant: the calls of innerHandleOp are reverts like others
  /\ t[r].error = "revert" /\ t[r].depth > 0
  /\ \E a \in DOMAIN t : Inside(t, a, r) /\ t[a].kind # "inner" /\ ~Failed(t, a) /\ WentOn(t, a, r)

\* A revert some ancestor caught. A call innerHandleOp makes itself is never one:
\* the EntryPoint reports its failure as an event and goes on.
Handled(t, r) ==
  /\ t[r].error = "revert" /\ t[r].depth > 0
  /\ \A a \in DOMAIN t : r \in Children(t, a) => t[a].kind # "inner"
  /\ \E a \in DOMAIN t : Inside(t, a, r) /\ t[a].kind # "inner" /\ ~Failed(t, a) /\ WentOn(t, a, r)

\* simulateHandleOps and the trace call of the simulation: the userOp fails on the last
\* error that no one handled.
Passes(t) == \A i \in DOMAIN t : Failed(t, i) => Handled(t, i)

\* The gas of a call of the EntryPoint is read from its frame at depth one.
Spends(t, kind) == \E i \in DOMAIN t : t[i].depth = 1 /\ t[i].kind = kind

-----------------------------------------------------------------------------
(* The EVM, and the EntryPoint: what happened. *)

\* A frame is undone if it or a frame around it failed.
Undone(t, i) == Failed(t, i) \/ \E a \in DOMAIN t : Inside(t, a, i) /\ Failed(t, a)

\* The call of the account is the first of innerHandleOp.
Ran(t) == \E a \in DOMAIN t : t[a].kind = "inner" /\ Children(t, a) # {} /\ ~Undone(t, a)
                             /\ ~Undone(t, CHOOSE i \in Children(t, a) : \A j \in Children(t, a) : i <= j)

\* A trace of a call of the EntryPoint for one userOp: the call, and what it calls. If it
\* succeeds it has run innerHandleOp, which calls the account and, as no postOp reverts, only
\* fails with nothing after it.
CallTrace(t) ==
  /\ t \in Seq(Frame) /\ t # <<>>
  /\ t[1].depth = 0 /\ \A i \in 2..Len(t) : t[i].depth \in 1..(t[i-1].depth + 1)
  /\ \A i \in DOMAIN t : t[i].kind = "inner" => t[i].depth = 1
  /\ ~Failed(t, 1) => \E a \in DOMAIN t : /\ t[a].kind = "inner" /\ Children(t, a) # {}
                                          /\ Failed(t, a) => Siblings(t, a) = {}
=============================================================================
