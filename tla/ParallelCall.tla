----------------------------- MODULE ParallelCall -----------------------------
(***************************************************************************)
(* What the parallel functions of a RunTime (service/common/runtime.h)     *)
(* promise their caller: a call applies func to every element of the       *)
(* vector once, in pieces of its choosing, and returns when nothing is     *)
(* left to do.                                                             *)
(***************************************************************************)
EXTENDS Naturals

CONSTANTS Sizes, MaxCalls

VARIABLES
  phase,     \* "starting", "idle", "running" or "ended"
  calls,     \* calls begun so far
  applied    \* element -> applications of func to it by the current call

vars == <<phase, calls, applied>>

Todo == {e \in DOMAIN applied : applied[e] = 0}

Init ==
  /\ phase = "starting"
  /\ calls = 0
  /\ applied = [e \in {} |-> 0]

Ready ==
  /\ phase = "starting"
  /\ phase' = "idle"
  /\ UNCHANGED <<calls, applied>>

Begin ==
  /\ phase = "idle"
  /\ calls < MaxCalls
  /\ phase' = "running"
  /\ calls' = calls + 1
  /\ \E size \in Sizes : applied' = [e \in 0 .. size - 1 |-> 0]

Apply ==
  /\ phase = "running"
  /\ \E W \in (SUBSET Todo) \ {{}} :
       applied' = [e \in DOMAIN applied |-> IF e \in W THEN 1 ELSE applied[e]]
  /\ UNCHANGED <<phase, calls>>

Return ==
  /\ phase = "running"
  /\ Todo = {}
  /\ phase' = "idle"
  /\ UNCHANGED <<calls, applied>>

End ==
  /\ phase = "idle"
  /\ phase' = "ended"
  /\ UNCHANGED <<calls, applied>>

Next == Ready \/ Begin \/ Apply \/ Return \/ End

Spec == Init /\ [][Next]_vars
FairSpec == Spec /\ WF_vars(Ready \/ Apply \/ Return)
==============================================================================
