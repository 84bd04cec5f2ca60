----------------------------- MODULE RateLimit ------------------------------
(***************************************************************************)
(* utils/rateLimit.js: the counters that bound the attempts to log in and  *)
(* to register, per address.  A counter starts with the first attempt of   *)
(* its window; it is replaced when an attempt finds the window over, and a *)
(* timer drops what is over.                                               *)
(***************************************************************************)
EXTENDS Integers, Sequences

CONSTANTS
  Keys,      \* prefix and address of the caller
  MaxAttempts,       \* attempts allowed in a window
  Window,    \* its length
  MaxTime    \* bound: the clock stops

VARIABLES
  now,
  buckets,   \* [count, start] of a key, or count 0: the Map has none
  passed     \* history: when attempts of a key passed, in their order

vars == <<now, buckets, passed>>

-----------------------------------------------------------------------------
Init ==
  /\ now = 0
  /\ buckets = [k \in Keys |-> [count |-> 0, start |-> 0]]
  /\ passed = [k \in Keys |-> <<>>]

(* Mutant of Over: the window slides with every attempt it lets through.   *)
OverAlways(b) == b.count = 0 \/ now > b.start

Over(b) == b.count = 0 \/ now - b.start > Window

(* rateLimit: an attempt passes as long as its window has counted no       *)
(* more than MaxAttempts, itself included, else it is answered 429.        *)
Request(k) ==
  LET b == buckets[k]
      after == IF Over(b) THEN [count |-> 1, start |-> now]
                          ELSE [b EXCEPT !.count = IF @ > MaxAttempts THEN @ ELSE @ + 1]
  IN  /\ buckets' = [buckets EXCEPT ![k] = after]
      /\ passed' = IF after.count \leq MaxAttempts THEN [passed EXCEPT ![k] = Append(@, now)]
                                                   ELSE passed
      /\ UNCHANGED now

(* The cleanup timer.                                                      *)
Cleanup ==
  /\ buckets' = [k \in Keys |-> IF Over(buckets[k]) THEN [count |-> 0, start |-> 0]
                                                     ELSE buckets[k]]
  /\ UNCHANGED <<now, passed>>

Tick ==
  /\ now < MaxTime
  /\ now' = now + 1
  /\ UNCHANGED <<buckets, passed>>

Next == (\E k \in Keys : Request(k)) \/ Cleanup \/ Tick
Spec == Init /\ [][Next]_vars

-----------------------------------------------------------------------------
(* No stretch of Window + 1 instants sees more than two windows' worth of  *)
(* attempts pass: a caller who waits for the end of a window may follow    *)
(* its last attempts with those of the next one, and no more.              *)
BurstBounded ==
  \A k \in Keys : \A i \in 1..(Len(passed[k]) - 2 * MaxAttempts) :
    passed[k][i + 2 * MaxAttempts] - passed[k][i] > Window
=============================================================================
