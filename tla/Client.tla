------------------------------- MODULE Client -------------------------------
(* The client of a tab: the copies of Browser, and the panel of runs,      *)
(* whose state is not in the cache and which tells the copies of a verdict *)
(* by the mutation "runDone" only.  A step of one leaves the other alone.  *)
EXTENDS Browser

CONSTANTS MaxRuns, MaxFaults   \* bounds of RunPanel

ASSUME RunsAssumption == MaxRuns \in Nat

VARIABLES status, active, pending, stream, rows, exec, lastId, left, verdict

Panels == INSTANCE RunPanel

panelVars == <<status, active, pending, stream, rows, exec, lastId, left, verdict>>
ClientVars == <<vars, panelVars>>

CopiesGoOn == Next /\ UNCHANGED panelVars
PanelGoesOn == Panels!Next /\ UNCHANGED vars

ClientSpec ==
  /\ Init /\ Panels!Init
  /\ [][CopiesGoOn \/ PanelGoesOn]_ClientVars
  /\ Fairness /\ Panels!Fairness

-----------------------------------------------------------------------------
(* features/cases/RunPanel.tsx: see RunPanel.                              *)
PanelTellsVerdict == Panels!PanelTellsVerdict
PanelIsReleased == Panels!PanelIsReleased
=============================================================================
