---------------------------- MODULE MCStoreInit ----------------------------
(***************************************************************************)
(* StoreInit on small instances.  Two processes; one call of the first and *)
(* two of the second while a process is killed or power is lost, so that   *)
(* two initializers race and a third call finds what they left; one call   *)
(* of each while another program interferes.                               *)
(***************************************************************************)
EXTENDS StoreInit

CONSTANTS p1, p2

Calls(a, b) == [p \in Proc |-> IF p = p1 THEN a ELSE b]
MCBounds ==
  {[calls |-> Calls(1, 2), kills |-> 1, cuts |-> 0, moves |-> 0],
   [calls |-> Calls(1, 2), kills |-> 0, cuts |-> 1, moves |-> 0],
   [calls |-> Calls(1, 1), kills |-> 0, cuts |-> 0, moves |-> 1]}
=============================================================================
