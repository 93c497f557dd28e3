-------------------------- MODULE DurableRegister --------------------------
(***************************************************************************)
(* What the store's exchange-based file updates promise: a register that   *)
(* holds one value, changed by a single write that is visible at once and  *)
(* that becomes durable at the next sync.                                  *)
(*                                                                         *)
(* "value" is what a process that opens the store now would load.          *)
(* "durable" is the set of values a loss of power may leave behind: every  *)
(* value the register had since the last sync.                             *)
(***************************************************************************)
CONSTANTS Value,     \* every value of the register, "nothing there" included
          Succ(_, _) \* Succ(v, w): a writer may replace v by w

VARIABLES value, durable

regVars == <<value, durable>>

RegInit == \E v \in Value : value = v /\ durable = {v}

\* The new value is visible; it is not yet known to survive a loss of power.
RegWrite(v) ==
  /\ value' = v
  /\ Succ(value, v)
  /\ durable' = durable \cup {v}

RegSync ==
  /\ durable' = {value}
  /\ UNCHANGED value

\* A loss of power keeps one of the values written since the last sync.
RegPowerLoss ==
  \E v \in durable : value' = v /\ durable' = {v}

RegNext ==
  \/ \E v \in Value : RegWrite(v)
  \/ RegSync
  \/ RegPowerLoss

RegSpec == RegInit /\ [][RegNext]_regVars
=============================================================================
