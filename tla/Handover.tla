------------------------------ MODULE Handover ------------------------------
(***************************************************************************)
(* What the way from an accepted supertransaction to the executor queue    *)
(* promises for each of its userOps: it is handed to the executor once or  *)
(* rejected with an error, never both; after trouble it may be handed over *)
(* again, or rejected as well; in no case neither for ever.                *)
(***************************************************************************)
EXTENDS Naturals

CONSTANT Ops

VARIABLES
  accepted,  \* userOps the node has taken on
  handed,    \* userOp -> how often it was given to the executor
  rejected,  \* userOps that ended with an error
  troubled   \* a process died or a call of Redis was lost

vars == <<accepted, handed, rejected, troubled>>

Init ==
  /\ accepted = {}
  /\ handed = [o \in Ops |-> 0]
  /\ rejected = {}
  /\ troubled = FALSE

Accept ==
  /\ accepted = {}
  /\ accepted' \in SUBSET Ops
  /\ UNCHANGED <<handed, rejected, troubled>>

Open(o) == handed[o] = 0 /\ o \notin rejected

\* A batch of userOps goes to the executor.
Hand ==
  /\ \A o \in Ops :
       \/ handed'[o] = handed[o]
       \/ o \in accepted /\ Open(o) /\ handed'[o] = 1
       \/ o \in accepted /\ troubled /\ handed'[o] > handed[o]
  /\ UNCHANGED <<accepted, rejected, troubled>>

Reject ==
  /\ \E B \in SUBSET accepted :
       /\ troubled \/ \A o \in B : handed[o] = 0
       /\ rejected' = rejected \cup B
  /\ UNCHANGED <<accepted, handed, troubled>>

Trouble ==
  /\ troubled' = TRUE
  /\ UNCHANGED <<accepted, handed, rejected>>

Next == Accept \/ Hand \/ Reject \/ Trouble

Safety == Init /\ [][Next]_vars

Spec == Safety /\ \A o \in Ops : (o \in accepted) ~> ~Open(o)
=============================================================================
