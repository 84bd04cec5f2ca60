----------------------------- MODULE MCTestRuns -----------------------------
(* Small instances of TestRuns for TLC.                                    *)
EXTENDS TestRuns, TLC

CONSTANT c1

OneLink == <<c1>>

Interchangeable == Permutations(Replicas)

Quiet == [d \in Disturbances |-> 0]
RunsBudget == [Quiet EXCEPT !.put = 1, !.suite = 1, !.shortcut = 1, !.fault = 1, !.crash = 1,
                             !.stream = 1, !.any = 2]
WatchBudget == [RunsBudget EXCEPT !.stream = 2, !.any = 3]
=============================================================================
