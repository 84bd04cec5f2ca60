---------------------------- MODULE MCScheduler ----------------------------
(* Small instances of Scheduler for TLC: which bodies the routes receive,  *)
(* which instants the expressions match, and how much goes wrong.          *)
EXTENDS Scheduler, TLC

CONSTANTS s1, s2, c1, even, odd, local, typo

(* "even" matches every second unit, "odd" the instants in between; in the *)
(* zone "local" the two are swapped and nothing matches in zone "typo".    *)
Evens == {n \in 0..8 : n % 2 = 0}
Odds  == {n \in 0..8 : n % 2 = 1}
MCFires ==
  (even :> (UTC :> Evens @@ local :> Odds @@ typo :> {})) @@
  (odd  :> (UTC :> Odds @@ local :> Evens @@ typo :> {}))

MCMembers == [s \in Suites |-> Cases]

(* min(cap, 2^n) with the cap at 4 units.                                  *)
MCBackoff == [n \in 1..MaxRetries |-> IF n = 1 THEN 2 ELSE 4]

Plain == [enabled |-> TRUE, cron |-> even, zone |-> UTC, suite |-> s1, max |-> 1]
OneJob == {Plain}
JobsOnOrOff == {Plain, [Plain EXCEPT !.enabled = FALSE]}

Nothing == [enabled |-> Keep, cron |-> Keep, zone |-> Keep, suite |-> Keep, max |-> Keep]
Disable == [Nothing EXCEPT !.enabled = FALSE]
Enable == [Nothing EXCEPT !.enabled = TRUE]
Recron == [Nothing EXCEPT !.cron = odd]
AnyEdit == {Disable, Enable, Recron, [Nothing EXCEPT !.max = 0, !.suite = s2]}

LiveEdits == {Disable, Enable, [Nothing EXCEPT !.zone = typo]}

Quiet == [d \in Disturbances |-> 0]
Started(legacy, budget) == [legacy |-> legacy, budget |-> budget]

(* What replicas and admins do to one job, and what goes on around its     *)
(* fires.                                                                  *)
Race == [Quiet EXCEPT !.create = 1, !.tick = 4, !.edit = 2, !.fault = 1, !.crash = 1]
Around == [Quiet EXCEPT !.create = 1, !.tick = 4, !.fault = 1, !.manual = 1, !.trash = 2,
                        !.purge = 1]
FleetStarts == {Started(0, Race), Started(0, Around)}

(* One legacy row that comes to fire, and two of which one may be gone     *)
(* when the backfill comes to it.                                          *)
Fire == [Quiet EXCEPT !.tick = 3, !.fault = 1, !.crash = 1, !.edit = 1]
Fills == [Fire EXCEPT !.tick = 1, !.delete = 1]
LiveStarts == {Started(1, Fire), Started(2, Fills)}

FaultStarts == {Started(0, [Quiet EXCEPT !.create = 1, !.tick = 8, !.fault = 4])}
=============================================================================
