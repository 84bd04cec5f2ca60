----------------------------- MODULE MCLibrary ------------------------------
(* Small instances of Library for TLC.                                     *)
EXTENDS Library

Quiet == [e \in Events |-> 0]

(* Saves of one case that interleave, fail or lose their case.             *)
SavesBudget == [Quiet EXCEPT !.create = 1, !.put = 2, !.delete = 1, !.purge = 1,
                             !.fault = 1, !.crash = 1, !.any = 5]

(* Two saves of one case, and nothing fails.                               *)
ClashBudgets == {[Quiet EXCEPT !.create = 1, !.put = 2, !.any = 3]}

(* A suite is given ids twice, of cases being created too.                 *)
LinksBudget == [Quiet EXCEPT !.create = 2, !.suite = 2, !.fault = 1, !.any = 5]

(* A case with a run and a suite are in the trash while it is swept ...    *)
SweepBudget == [Quiet EXCEPT !.create = 1, !.run = 1, !.suite = 1, !.delete = 2,
                             !.tick = 2, !.any = 7]

(* ... or are restored and deleted again.                                  *)
TrashBudget == [Quiet EXCEPT !.create = 1, !.suite = 1, !.delete = 2, !.restore = 1,
                             !.purge = 1, !.fault = 1, !.tick = 2, !.any = 6]

LibraryBudgets == {SavesBudget, LinksBudget, SweepBudget, TrashBudget}
=============================================================================
