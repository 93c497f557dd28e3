---------------------------- MODULE AtomicDeploy ----------------------------
(***************************************************************************)
(* What applying a plan promises.  While a transaction is open nobody may  *)
(* rely on the targets.  Its outcome is decided while it is open, may be   *)
(* taken back until it is done, and never after.  When it closes, every    *)
(* target shows the state before the plan or every target the state after. *)
(***************************************************************************)
VARIABLES before, after, \* the targets' states, before and after the plan
          open,          \* a transaction is pending
          outcome, done, \* "prev" or "next"; whether "next" is final
          shown          \* the targets, while nothing is pending

deployVars == <<before, after, open, outcome, done, shown>>

InFlux == <<>>

DeployInit == ~open /\ outcome = "prev" /\ ~done /\ shown = before

\* A transaction starts; or a loss of power undoes the end of one.
Open == ~open /\ open' = TRUE /\ shown' = InFlux /\ UNCHANGED <<outcome, done>>

Decide ==
  /\ open /\ ~done
  /\ open' = open /\ shown' = shown
  /\ outcome' \in {"prev", "next"}
  /\ done' \in {d \in BOOLEAN : d => outcome' = "next"}

Close ==
  /\ open
  /\ open' = FALSE
  /\ (outcome = "next" => done) /\ UNCHANGED <<outcome, done>>
  /\ shown' = IF outcome = "prev" THEN before ELSE after

\* A loss of power may decide and close at once.
Cut ==
  /\ open /\ ~done
  /\ open' = FALSE
  /\ outcome' = "prev" /\ UNCHANGED done
  /\ shown' = before

DeployNext == (Open \/ Decide \/ Close \/ Cut) /\ UNCHANGED <<before, after>>

DeploySpec == DeployInit /\ [][DeployNext]_deployVars
=============================================================================
