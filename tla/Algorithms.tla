----------------------------- MODULE Algorithms -----------------------------
(* The three algorithms that others lean on, side by side: the walk of     *)
(* Cron; the limiter, which is created with a window and a number of       *)
(* attempts that it must be able to count to; and the flakiness verdict,   *)
(* whose windows are never empty and hold the runs a verdict needs.        *)
EXTENDS Cron

CONSTANTS Keys, MaxAttempts, Window, MaxTime   \* of RateLimit
CONSTANTS Windows, MinRuns, MaxRows            \* of Flakiness

ASSUME LimitAssumption == MaxAttempts \in Nat \ {0} /\ Window \in Nat

ASSUME WindowAssumption ==
  /\ MinRuns \in Nat \ {0}
  /\ Windows \subseteq [recent : Nat \ {0}, baseline : Nat]
  /\ \A w \in Windows : MinRuns \leq w.recent + w.baseline

VARIABLES now, buckets, passed, rows, report

RateLimits == INSTANCE RateLimit
limitVars == <<now, buckets, passed>>

Flaky == INSTANCE Flakiness

-----------------------------------------------------------------------------
(* utils/rateLimit.js: see RateLimit.                                      *)
BurstBounded == RateLimits!BurstBounded

(* utils/flakiness.js: see Flakiness.                                      *)
HeadroomSuffices == Flaky!HeadroomSuffices
VerdictExplained == Flaky!VerdictExplained
=============================================================================
