------------------------- MODULE MCCommandDelivery -------------------------
(* A small instance of CommandDelivery: commands share no state but the     *)
(* connection, so one command with three connections over two generations  *)
(* covers resends to the same and to the next generation.                  *)
EXTENDS CommandDelivery

CONSTANTS prompt

MCCmd == {prompt}
============================================================================
