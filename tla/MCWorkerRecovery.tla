--------------------------- MODULE MCWorkerRecovery ---------------------------
(***************************************************************************)
(* The instance TLC checks: two incarnations of the process, one stop by a *)
(* command beside the supervisor's own, and two faults at a time: broken   *)
(* connections, supervisors that die and, for as long as it lasts, a       *)
(* process that hangs.  A client's retry counts for two.                   *)
(***************************************************************************)
EXTENDS WorkerRecovery

CONSTANT MaxFaults
FewFaults == breaks + 2 * retries + crashes + Cardinality({k \in Pids : proc[k] = "mute"}) <= MaxFaults
=============================================================================
