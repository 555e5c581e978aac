-------------------------- MODULE MCCommandJournal --------------------------
(* A small instance of CommandJournal: two keys, so that one command's line *)
(* can follow another's and compaction keeps one entry and drops the other, *)
(* and a threshold low enough for every method to reach it.                *)
EXTENDS CommandJournal

CONSTANTS k1, k2, done

MCKey == {k1, k2}
MCResponse == {done}
=============================================================================
