---------------------------- MODULE RunContract -----------------------------
(***************************************************************************)
(* What docs/test-execution.md promises of an execution: it is started     *)
(* once, its verdict is written to its run, and then 'done' is emitted,    *)
(* which ends it for good.  Nothing is written after that, and an          *)
(* execution that dies with its process is not heard of again.  It says    *)
(* nothing of the events of the child, of the statements of finalize or of *)
(* who follows the run: TestRuns implements it.                            *)
(***************************************************************************)
EXTENDS Naturals

CONSTANTS Runs, Verdicts

VARIABLES
  standing,  \* of the execution of each run: "unstarted", "underway",
             \* "ended" or "lost"
  stored,    \* the verdict it has written, or "none"
  told       \* how often 'done' was emitted

vars == <<standing, stored, told>>

Init ==
  /\ standing = [r \in Runs |-> "unstarted"]
  /\ stored = [r \in Runs |-> "none"]
  /\ told = [r \in Runs |-> 0]

Start(r) ==
  /\ standing[r] = "unstarted"
  /\ standing' = [standing EXCEPT ![r] = "underway"]
  /\ UNCHANGED <<stored, told>>

Store(r, verdict) ==
  /\ standing[r] = "underway" /\ stored[r] = "none"
  /\ stored' = [stored EXCEPT ![r] = verdict]
  /\ UNCHANGED <<standing, told>>

(* A verdict that could not be written is told all the same.               *)
Tell(r) ==
  /\ standing[r] = "underway"
  /\ standing' = [standing EXCEPT ![r] = "ended"]
  /\ told' = [told EXCEPT ![r] = @ + 1]
  /\ UNCHANGED stored

(* Executions end with the process they are in.                            *)
Lose(gone) ==
  /\ \A r \in gone : standing[r] = "underway"
  /\ standing' = [r \in Runs |-> IF r \in gone THEN "lost" ELSE standing[r]]
  /\ UNCHANGED <<stored, told>>

Next ==
  \/ \E r \in Runs : Start(r) \/ Tell(r) \/ \E verdict \in Verdicts : Store(r, verdict)
  \/ \E gone \in SUBSET Runs : Lose(gone)

Spec == Init /\ [][Next]_vars
=============================================================================
