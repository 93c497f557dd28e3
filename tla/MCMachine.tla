------------------------------ MODULE MCMachine ------------------------------
(***************************************************************************)
(* Machine with the limits scaled down: frames of 90 units hold every      *)
(* answer but an artifact of 40 bytes; a record carries lists of two items *)
(* and the engine's lists have up to three, as its limits are above        *)
(* MAX_MACHINE_ARRAY_ITEMS.                                                *)
(***************************************************************************)
EXTENDS Machine
=============================================================================
