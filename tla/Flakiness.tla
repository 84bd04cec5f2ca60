----------------------------- MODULE Flakiness ------------------------------
(***************************************************************************)
(* utils/flakiness.js: the score and the verdict computed from the latest  *)
(* runs of a case.  The rows of the case come newest first; those that are *)
(* neither passed nor failed are noise.  Rates are in ten-thousandths, of  *)
(* which Whole make one, and scores in tenths, rounded where the code      *)
(* rounds them.                                                            *)
(***************************************************************************)
EXTENDS Integers, Sequences, FiniteSets

CONSTANTS
  Windows,    \* the windows asked for: runs in the recent one and in the baseline
  MinRuns,    \* MIN_RUNS_FOR_VERDICT
  MaxRows     \* bound: rows of the case

Statuses == {"passed", "failed", "noise"}

VARIABLES
  rows,     \* test_runs of the case, newest first
  report    \* what GET /test-cases/:caseId/flakiness answered last

vars == <<rows, report>>

-----------------------------------------------------------------------------
Whole == 10000

Abs(n) == IF n < 0 THEN -n ELSE n
Rounded(n, by) == (2 * n + by) \div (2 * by)
Slice(s, from, to) == SubSeq(s, from, IF to > Len(s) THEN Len(s) ELSE to)
Count(s, status) == Cardinality({i \in DOMAIN s : s[i] = status})

(* The filter: the k-th row that is left is the one with k rows that are   *)
(* left up to it.                                                          *)
Kept(runs) == {i \in DOMAIN runs : runs[i] # "noise"}
Nth(kept, k) == CHOOSE i \in kept : Cardinality({j \in kept : j \leq i}) = k
Finished(runs) ==
  LET kept == Kept(runs)
  IN  [k \in 1..Cardinality(kept) |-> runs[Nth(kept, k)]]

Recent(w, finished) == Slice(finished, 1, w.recent)
Baseline(w, finished) == Slice(finished, w.recent + 1, w.recent + w.baseline)

(* windowStats.                                                            *)
PassRate(s) == IF s = <<>> THEN 0 ELSE Rounded(Whole * Count(s, "passed"), Len(s))

(* countSwitches.                                                          *)
Switches(s) == Cardinality({i \in 2..Len(s) : s[i] # s[i - 1]})

(* lateFailureIndicator, in halves.                                        *)
LateFailure(s) ==
  IF s = <<>> \/ s[1] # "failed" THEN 0
  ELSE IF Len(s) \geq 4 /\ \A i \in 2..4 : s[i] = "passed" THEN 2 ELSE 1

Disagreement(recent, baseline) ==
  IF Len(baseline) \geq 3 THEN Abs(PassRate(recent) - PassRate(baseline))
                          ELSE Whole - PassRate(recent)

Score(recent, baseline) ==
  LET turns == IF Len(recent) > 1 THEN Len(recent) - 1 ELSE 1
  IN  Rounded(400 * Disagreement(recent, baseline) * turns
                + Whole * (300 * Switches(recent) + 150 * LateFailure(recent) * turns),
              Whole * turns)

(* Mutant of Broken: the baseline is not looked at.                        *)
BrokenAnyway(recent, baseline) == Count(recent, "failed") \geq MinRuns

Broken(recent, baseline) ==
  /\ Count(recent, "failed") \geq MinRuns /\ Count(recent, "passed") = 0
  /\ 10 * PassRate(baseline) \geq 7 * Whole

Verdict(recent, baseline) ==
  LET score == Score(recent, baseline)
  IN  IF Broken(recent, baseline) THEN "broken"
      ELSE CASE score \geq 750 -> "very_flaky"
             [] score \in 500..749 -> "flaky"
             [] score \in 250..499 -> "possibly_flaky"
             [] OTHER -> "stable"

(* analyzeFlakiness.                                                       *)
Analyze(w, runs) ==
  LET finished == Finished(runs)
  IN  IF Len(finished) < MinRuns THEN "insufficient_data"
      ELSE Verdict(Recent(w, finished), Baseline(w, finished))

(* Mutant of Take: no headroom for noise.                                  *)
TakeBare(w) == w.recent + w.baseline

Take(w) == 2 * (w.recent + w.baseline)

-----------------------------------------------------------------------------
Init == rows = <<>> /\ report = "insufficient_data"

(* A row is stored, or a run under way ends.                               *)
Run(status) ==
  /\ Len(rows) < MaxRows
  /\ rows' = <<status>> \o rows
  /\ UNCHANGED report

(* analyzeFlakinessForCase reads the latest rows.                          *)
Report(w) ==
  /\ report' = Analyze(w, Slice(rows, 1, Take(w)))
  /\ UNCHANGED rows

Next == (\E status \in Statuses : Run(status)) \/ (\E w \in Windows : Report(w))
Spec == Init /\ [][Next]_vars

-----------------------------------------------------------------------------
(* The latest rows are enough: as long as no more than half of what is     *)
(* read is noise ("to leave headroom for not_run noise"), the verdict is   *)
(* the one the whole history would get.                                    *)
HeadroomSuffices ==
  [][ \A w \in Windows :
        LET read == Slice(rows, 1, Take(w))
        IN  Report(w) /\ Count(read, "noise") \leq w.recent + w.baseline
              => report' = Analyze(w, rows) ]_vars

MostPassed(s) == 3 * Count(s, "passed") > 2 * Len(s)
AllOf(s, status) == s # <<>> /\ \A i \in DOMAIN s : s[i] = status

(* What the words promise: nothing is called very flaky unless its recent  *)
(* runs went both ways; a case is called broken only after MinRuns         *)
(* failures in a row, when more than two in three of the runs before them, *)
(* the baseline, passed ("flakes recover, regressions don't"); and one     *)
(* that never failed is stable.  However short the baseline is: one run    *)
(* that passed before recent runs that all failed is enough for "broken",  *)
(* though docs/flakiness.md and flakiness.test.js say the baseline must    *)
(* have three, which the code does not ask of it.                          *)
VerdictExplained ==
  [][ \A w \in Windows : Report(w) =>
      LET finished == Finished(Slice(rows, 1, Take(w)))
          recent == Recent(w, finished)
          baseline == Baseline(w, finished)
      IN  /\ report' = "very_flaky" => {"passed", "failed"} \subseteq {recent[i] : i \in DOMAIN recent}
          /\ report' = "broken" =>
               (\A i \in 1..MinRuns : finished[i] = "failed") /\ MostPassed(baseline)
          /\ Len(recent) \geq MinRuns /\ AllOf(recent, "failed") /\ AllOf(baseline, "passed")
               => report' = "broken"
          /\ Count(finished, "failed") = 0 => report' \in {"stable", "insufficient_data"} ]_vars
=============================================================================
