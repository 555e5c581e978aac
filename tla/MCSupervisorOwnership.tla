----------------------- MODULE MCSupervisorOwnership -----------------------
(***************************************************************************)
(* A small instance of SupervisorOwnership: processes are interchangeable  *)
(* within their role.                                                      *)
(***************************************************************************)
EXTENDS SupervisorOwnership, TLC

Symmetry == Permutations(MainSups) \cup Permutations(CustomSups) \cup Permutations(Admins)
\* Bound: guards are taken over from live holders, or admissions elapse, not both.
StallOrLate == pauses = 0 \/ late = {}
=============================================================================
