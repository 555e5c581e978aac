------------------------- MODULE MCMutationGate -------------------------
(* A small instance of MutationGate.  Each actor is re-used for any number *)
(* of commands or evictions, so one per role gives every overlap of roles, *)
(* and the two kinds of evictor contend for the fence.                     *)
EXTENDS MutationGate

CONSTANTS m1, a1, p1, s1, sweep, d1

MCMutation == {m1}
MCDrainCmd == {a1}
MCPrepare  == {p1}
MCShutdown == {s1}
MCSweeper  == {sweep}
MCDetacher == {d1}
==========================================================================
