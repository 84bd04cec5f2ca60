------------------------------ MODULE MCClient ------------------------------
(* Small instances of Client for TLC: a behaviour is one of the copies or  *)
(* one of the panel, and the other stays as it starts.                     *)
EXTENDS Client, TLC

VARIABLE focus

(* Every mutation is offered by a page of a tour, and every copy it should *)
(* reach is read by a page of the same tour.                               *)
MCTours ==
  {{"cases", "case"}, {"case", "dashboard"}, {"suites", "suite"},
   {"suite", "dashboard"}, {"scheduler", "dashboard"}, {"trash", "cases"},
   {"trash", "scheduler"}, {"trash", "dashboard"}, {"admin", "audit"}, {"webhooks"},
   {"projects", "cases"}, {"digest"}}

(* With the panel, the client has no page open that asks for anything.     *)
MCInit ==
  /\ Panels!Init
  /\ \/ focus = "copies" /\ Init
     \/ /\ focus = "panel"
        /\ tour = {"digest"} /\ page = "digest" /\ view = "digest" /\ copy = Absent
        /\ drawer = FALSE /\ awaited = {}
        /\ write = [i \in Writes |-> NoWrite] /\ applied = {} /\ excused = {}

MCNext ==
  \/ focus = "copies" /\ CopiesGoOn /\ UNCHANGED focus
  \/ focus = "panel" /\ PanelGoesOn /\ UNCHANGED focus

MCSpec == MCInit /\ [][MCNext]_<<ClientVars, focus>> /\ Fairness /\ Panels!Fairness
=============================================================================
