---------------------------- MODULE MCAlgorithms ----------------------------
(* Small instances of Cron, RateLimit and Flakiness for TLC: a behaviour   *)
(* is one of one of them, and the others stay as they start.               *)
EXTENDS Algorithms, TLC

VARIABLE focus

-----------------------------------------------------------------------------
(* A calendar with days of three hours of two minutes, years of two months *)
(* and five days, six in the leap year, and weeks of three days.           *)
MCLo == [f \in Fields |-> IF f \in {"dom", "month"} THEN 1 ELSE 0]
MCHi == [minute |-> 1, hour |-> 2, dom |-> 3, month |-> 2, dow |-> 2]

ShortYear == << <<1, 1>>, <<1, 2>>, <<1, 3>>, <<2, 1>>, <<2, 2>> >>
Days == ShortYear \o ShortYear \o << <<2, 3>> >> \o ShortYear \o ShortYear
Civil(t) ==
  LET day == Days[t \div 6 + 1]
  IN  [minute |-> t % 2, hour |-> (t \div 2) % 3, dom |-> day[2], month |-> day[1],
       dow |-> (t \div 6) % 3]

(* The clock of the second zone is two minutes ahead, and four in summer:  *)
(* some wall times are skipped and some come twice.                        *)
MCWall ==
  [utc |-> [t \in 0..Last |-> Civil(t)],
   east |-> [t \in 0..Last |-> Civil(IF t \in 9..40 THEN t + 4 ELSE t + 2)]]

Star == [star |-> TRUE, lo |-> 0, hi |-> 0, step |-> 1, bare |-> TRUE]
Every(n) == [Star EXCEPT !.step = n, !.bare = FALSE]
Span(a, b) == [star |-> FALSE, lo |-> a, hi |-> b, step |-> 1, bare |-> FALSE]

(* The texts of the fields, three of them refused.                         *)
Exprs ==
  [minute : {<<Star>>, <<Span(1, 1)>>},
   hour : {<<Star>>, <<Span(0, 0), Span(2, 2)>>, <<Span(1, 3)>>},
   dom : {<<Star>>, <<Span(3, 3)>>, <<Every(2)>>},
   month : {<<Star>>, <<Span(2, 2)>>, <<Span(2, 1)>>},
   dow : {<<Star>>, <<Span(0, 0)>>, <<Every(0)>>}]
MCQueries == [expr : Exprs, zone : {"utc", "east", "typo"}, after : {7, 33}]

-----------------------------------------------------------------------------
(* Windows that more rows fit than are read, and windows long enough for   *)
(* every verdict: the worst of them takes eight runs that go to and fro    *)
(* after three failures.                                                   *)
MCWindows == {[recent |-> 2, baseline |-> 1], [recent |-> 4, baseline |-> 3],
              [recent |-> 8, baseline |-> 3]}

(* A behaviour begins after three runs that went alike.                    *)
OldRows == {[i \in 1..3 |-> status] : status \in Flaky!Statuses}

runVars == <<rows, report>>
AllVars == <<vars, limitVars, runVars, focus>>

MCInit ==
  /\ RateLimits!Init
  /\ \/ focus = "cron" /\ Init
     \/ /\ focus \in {"limit", "flaky"}
        /\ query = [expr |-> [f \in Fields |-> <<Star>>], zone |-> "utc", after |-> 7]
        /\ d = 7 /\ outcome = "parse"
  /\ report = "insufficient_data"
  /\ rows \in OldRows /\ (focus # "flaky" => rows[1] = "noise")

MCNext ==
  \/ focus = "cron" /\ Next /\ UNCHANGED <<limitVars, runVars, focus>>
  \/ focus = "limit" /\ RateLimits!Next /\ UNCHANGED <<vars, runVars, focus>>
  \/ focus = "flaky" /\ Flaky!Next /\ UNCHANGED <<vars, limitVars, focus>>

MCSpec == MCInit /\ [][MCNext]_AllVars
=============================================================================
