---------------------------- MODULE CommandEntry ----------------------------
(***************************************************************************)
(* What the supervisor relies on the command journal to be, for one        *)
(* idempotency key: a durable entry that is absent, received or answered,  *)
(* moved only by whole operations.  A crash is none of them: an answered   *)
(* command never becomes a received one again, and an answer never appears *)
(* for a command that was not received.                                    *)
(***************************************************************************)
CONSTANT Response

VARIABLE entry

Init == entry = "none"

Receive     == entry = "none" /\ entry' = "received"
StoreResult == entry # "none" /\ entry' \in Response
Forget      == entry # "none" /\ entry' = "none"

Next == Receive \/ StoreResult \/ Forget

Spec == Init /\ [][Next]_entry
=============================================================================
