------------------------- MODULE OperationLifecycle -------------------------
(***************************************************************************)
(* What Operations promise to whoever reads only their durable record: an  *)
(* Operation is accepted once, ends at most once and then keeps its        *)
(* outcome, and an external effect happens at most once and only after its *)
(* intent was recorded while the Operation was open.  It may happen after  *)
(* the Operation ended: the intent is what survives, not the effect.       *)
(* RuntimeSession implements this, across crashes, refused writes and      *)
(* several Session objects over the same journal.                          *)
(***************************************************************************)
EXTENDS Naturals

CONSTANTS
  Operation,   \* Operations of the Session
  Effect,      \* names of the external effects of one Operation
  Outcome      \* ways to end, neither "none" nor "open"

VARIABLES
  status,      \* status[o]: "none", "open" or the outcome
  intended,    \* intended[o]: effects whose intent is durable
  performed    \* performed[o][e]: times effect e happened

lifecycleVars == <<status, intended, performed>>

Init ==
  /\ status = [o \in Operation |-> "none"]
  /\ intended = [o \in Operation |-> {}]
  /\ performed = [o \in Operation |-> [e \in Effect |-> 0]]

Accept(o) ==
  /\ status[o] = "none"
  /\ status' = [status EXCEPT ![o] = "open"]
  /\ UNCHANGED <<intended, performed>>

Intend(o, e) ==
  /\ status[o] = "open"
  /\ e \notin intended[o]
  /\ intended' = [intended EXCEPT ![o] = @ \cup {e}]
  /\ UNCHANGED <<status, performed>>

Perform(o, e) ==
  /\ e \in intended[o]
  /\ performed[o][e] = 0
  /\ performed' = [performed EXCEPT ![o][e] = 1]
  /\ UNCHANGED <<status, intended>>

Finish(o, outcome) ==
  /\ status[o] = "open"
  /\ status' = [status EXCEPT ![o] = outcome]
  /\ UNCHANGED <<intended, performed>>

Next ==
  \E o \in Operation :
    \/ Accept(o)
    \/ \E e \in Effect : Intend(o, e) \/ Perform(o, e)
    \/ \E outcome \in Outcome : Finish(o, outcome)

Spec == Init /\ [][Next]_lifecycleVars
=============================================================================
