------------------------------- MODULE LabGate --------------------------------
(***************************************************************************)
(* What the recovery gate promises, whoever injects and however they die:  *)
(* the lab carries faults only while it is blocked, and it is unblocked    *)
(* only when none is left.  src/rca_investigation/faults_v3.py states it   *)
(* as "Persist cleanup intent before executing an intervention" and "The   *)
(* block survives failures".                                               *)
(***************************************************************************)
CONSTANT Component

VARIABLES
  blocked,  \* is the recovery journal on disk?
  dirty     \* components whose fault the gate still answers for

gate == <<blocked, dirty>>

Init == blocked = FALSE /\ dirty = {}

Block == blocked' = TRUE /\ dirty' = dirty

Fault(c) == blocked /\ dirty' = dirty \cup {c} /\ UNCHANGED blocked

Heal(c) == dirty' = dirty \ {c} /\ UNCHANGED blocked

Unblock == dirty = {} /\ blocked' = FALSE /\ UNCHANGED dirty

Next == Block \/ Unblock \/ \E c \in Component : Fault(c) \/ Heal(c)

Spec == Init /\ [][Next]_gate

\* No fault without a block: the promise a reader wants, implied by Spec.
FaultsAreBlocked == dirty # {} => blocked
=============================================================================
