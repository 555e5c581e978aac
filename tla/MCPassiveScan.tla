---------------------------- MODULE MCPassiveScan ----------------------------
(***************************************************************************)
(* The instance TLC checks: two wakes that overlap each other, launches,   *)
(* the recompute, and either lists and commands of a reader, or a change   *)
(* or a preparation.  One change may also meet a reader without wakes.     *)
(***************************************************************************)
EXTENDS PassiveScan

InUse(scans) ==
  Cardinality({p \in scans : scan[p].at # "no" \/ (p \in Wakes /\ wake[p].at # "no")})
\* Bound: a reader, a change or a preparation counts for two wakes.
FewAtWork == InUse(Wakes) + 2 * (InUse(Readers) + edits + prepares) <= 4
=============================================================================
