-------------------------- MODULE AlgorithmProofs ---------------------------
(***************************************************************************)
(* The walk of Cron answers with the least instant that is due, for every  *)
(* calendar, every clock, however it is put forward and back, and every    *)
(* expression.  First the sets the parser builds are shown to say what the *)
(* fields name; then the days' four cases are Vixie's rule; the walk needs *)
(* an invariant that remembers what it has passed.                         *)
(*                                                                         *)
(* The limiter lets two windows' worth of attempts through in a burst and  *)
(* no more, for every window and every number of attempts: its invariant   *)
(* says which of the attempts that passed belong to the open window.       *)
(*                                                                         *)
(* The flakiness verdict means what its words say, for every history and   *)
(* every pair of windows.  The filter is shown to keep the order of rows;  *)
(* then the score is bounded by what each of its signals can add.          *)
(***************************************************************************)
EXTENDS Algorithms, FiniteSetTheorems, SequenceTheorems, TLAPS

(* A multiple of a positive step is not smaller than the factor.           *)
LEMMA FactorBound == ASSUME NEW k \in Nat, NEW s \in Int, s > 0 PROVE k \leq k * s
  OBVIOUS

(* The loop of parseField reaches exactly the values a part names.         *)
LEMMA PartNames ==
  ASSUME NEW f \in Fields, NEW part \in Part, Accepted(part, f), NEW v \in Int
  PROVE  v \in ValuesOf(part, f)
           <=> /\ v \in From(part, f)..To(part, f)
               /\ \E k \in 0..(Hi[f] - Lo[f]) : v - From(part, f) = k * part.step
<1> DEFINE from == From(part, f)
           to == To(part, f)
<1>1. /\ from \in Int /\ to \in Int /\ Lo[f] \in Int /\ Hi[f] \in Int /\ part.step \in Int
      /\ part.step > 0 /\ Lo[f] \leq from /\ to \leq Hi[f] /\ from \leq to
  BY RangeAssumption DEF Part, Accepted, From, To
<1> HIDE DEF from, to
<1>2. ASSUME v \in from..to, NEW k \in 0..(to - from), v = from + k * part.step
      PROVE  \E j \in 0..(Hi[f] - Lo[f]) : v - from = j * part.step
  <2>1. k \in 0..(Hi[f] - Lo[f])
    BY <1>1
  <2>2. k * part.step \in Int
    BY <1>1
  <2>3. v - from = k * part.step
    BY <1>1, <1>2, <2>2
  <2> QED
    BY <2>1, <2>3
<1>3. ASSUME v \in from..to, NEW k \in 0..(Hi[f] - Lo[f]), v - from = k * part.step
      PROVE  \E j \in 0..(to - from) : v = from + j * part.step
  <2>1. k \in Nat /\ k * part.step \in Int
    BY <1>1
  <2>2. k \leq k * part.step
    BY <1>1, <2>1, FactorBound
  <2>3. k \in 0..(to - from) /\ v = from + k * part.step
    BY <1>1, <1>3, <2>1, <2>2
  <2> QED
    BY <2>3
<1> QED
  BY <1>2, <1>3 DEF ValuesOf, from, to

(* A field that the parser accepts holds the values it names.              *)
LEMMA InIsNamed ==
  ASSUME NEW q \in Queries, ~Throws(q), NEW f \in Fields, NEW t \in 0..Last
  PROVE  In(q, f, t) <=> Named(q, f, t)
<1> DEFINE v == Wall[q.zone][t][f]
           field == q.expr[f]
<1>1. q.zone \in Zones
  BY QueryAssumption DEF Throws
<1>2. v \in Int
  BY <1>1, WallAssumption, RangeAssumption
<1>3. field \in Seq(Part)
  BY QueryAssumption
<1>4. \A i \in 1..Len(field) : field[i] \in Part /\ Accepted(field[i], f)
  BY <1>3 DEF Throws
<1>5. ASSUME NEW i \in 1..Len(field)
      PROVE  v \in ValuesOf(field[i], f)
               <=> /\ v \in IF field[i].star THEN Lo[f]..Hi[f] ELSE field[i].lo..field[i].hi
                   /\ \E k \in 0..(Hi[f] - Lo[f]) :
                        v - (IF field[i].star THEN Lo[f] ELSE field[i].lo) = k * field[i].step
  <2>1. field[i] \in Part /\ Accepted(field[i], f)
    BY <1>4
  <2>2. v \in ValuesOf(field[i], f)
          <=> /\ v \in From(field[i], f)..To(field[i], f)
              /\ \E k \in 0..(Hi[f] - Lo[f]) : v - From(field[i], f) = k * field[i].step
    BY <1>2, <2>1, PartNames
  <2>3. CASE field[i].star
    BY <2>2, <2>3 DEF From, To
  <2>4. CASE ~field[i].star
    BY <2>2, <2>4 DEF From, To
  <2> QED
    BY <2>3, <2>4
<1>6. v \in Parsed(field, f) <=> \E i \in 1..Len(field) : v \in ValuesOf(field[i], f)
  BY DEF Parsed
<1> QED
  BY <1>5, <1>6 DEF In, Named, Names

(* A field that is the text "*" holds whatever the clock shows.            *)
LEMMA StarIsIn ==
  ASSUME NEW q \in Queries, ~Throws(q), NEW f \in Fields, NEW t \in 0..Last, IsStar(q.expr[f])
  PROVE  In(q, f, t)
<1> DEFINE v == Wall[q.zone][t][f]
           part == q.expr[f][1]
<1>1. v \in Lo[f]..Hi[f] /\ Lo[f] \in Int /\ Hi[f] \in Int
  BY QueryAssumption, WallAssumption, RangeAssumption DEF Throws
<1>2. part.star /\ part.step = 1
  BY QueryAssumption DEF IsStar
<1>3. From(part, f) = Lo[f] /\ To(part, f) = Hi[f]
  BY <1>2 DEF From, To
<1>4. v - Lo[f] \in 0..(Hi[f] - Lo[f]) /\ v = Lo[f] + (v - Lo[f]) * 1
  BY <1>1
<1>5. v \in ValuesOf(part, f)
  <2>1. \E k \in 0..(Hi[f] - Lo[f]) : v = Lo[f] + k * 1
    BY <1>4
  <2> QED
    BY <1>1, <1>2, <1>3, <2>1 DEF ValuesOf
<1> QED
  BY <1>5 DEF In, Parsed, IsStar

(* What the code matches is what is due.                                   *)
LEMMA MatchesIsDue ==
  ASSUME NEW q \in Queries, ~Throws(q), NEW t \in 0..Last
  PROVE  Matches(q, t) <=> Due(q, t)
<1>1. \A f \in Fields : In(q, f, t) <=> Named(q, f, t)
  BY InIsNamed
<1>2. \A f \in Fields : IsStar(q.expr[f]) => In(q, f, t)
  BY StarIsIn
<1>3. {"minute", "hour", "dom", "month", "dow"} \subseteq Fields
  BY DEF Fields
<1>4. DayOk(q, t) <=> IF Restricted(q.expr["dom"]) /\ Restricted(q.expr["dow"])
                        THEN Named(q, "dom", t) \/ Named(q, "dow", t)
                        ELSE Named(q, "dom", t) /\ Named(q, "dow", t)
  <2>1. /\ In(q, "dom", t) <=> Named(q, "dom", t)
        /\ In(q, "dow", t) <=> Named(q, "dow", t)
        /\ IsStar(q.expr["dom"]) => In(q, "dom", t)
        /\ IsStar(q.expr["dow"]) => In(q, "dow", t)
    BY <1>1, <1>2, <1>3
  <2> QED
    BY <2>1 DEF DayOk, Restricted
<1> QED
  BY <1>1, <1>3, <1>4 DEF Matches, Due

-----------------------------------------------------------------------------
(* What the walk remembers.                                                *)
Passed(upto) == \A t \in (query.after + 1)..upto : ~Matches(query, t)
WalkInv ==
  /\ TypeOK
  /\ outcome \in {"walk", "found", "none"} => ~Throws(query)
  /\ outcome = "walk" => d > query.after /\ Passed(d - 1)
  /\ outcome = "found" =>
       d > query.after /\ d < query.after + Search /\ Matches(query, d) /\ Passed(d - 1)
  /\ outcome = "none" => Passed(query.after + Search - 1)

LEMMA QueryTypes ==
  ASSUME NEW q \in Queries
  PROVE  q.after \in Nat /\ Search \in Nat /\ q.after + Search \leq Last /\ Last \in Nat
  BY QueryAssumption, RangeAssumption

LEMMA WalkInvInit == Init => WalkInv
  BY QueryTypes DEF Init, WalkInv, TypeOK

LEMMA WalkInvNext == WalkInv /\ [Next]_vars => WalkInv'
<1> SUFFICES ASSUME WalkInv, [Next]_vars PROVE WalkInv'
  OBVIOUS
<1>0. query.after \in Nat /\ Search \in Nat /\ d \in Nat
  BY QueryTypes DEF WalkInv, TypeOK
<1>1. CASE Parse
  <2>1. CASE Throws(query)
    BY <1>1, <2>1, <1>0 DEF Parse, WalkInv, TypeOK
  <2>2. CASE ~Throws(query)
    <3>1. query' = query /\ outcome' = "walk" /\ d' = query.after + 1
      BY <1>1, <2>2 DEF Parse
    <3>2. Passed(d - 1)'
      BY <3>1, <1>0 DEF Passed
    <3> QED
      BY <3>1, <3>2, <2>2, <1>0 DEF WalkInv, TypeOK, Throws
  <2> QED
    BY <2>1, <2>2
<1>2. CASE GiveUp
  <2>1. query' = query /\ outcome' = "none" /\ d' = d /\ Passed(d - 1) /\ ~Throws(query)
    BY <1>2 DEF GiveUp, WalkInv
  <2>2. Passed(query.after + Search - 1)'
    BY <1>2, <2>1, <1>0 DEF GiveUp, Passed, Matches, DayOk, In
  <2> QED
    BY <2>1, <2>2 DEF WalkInv, TypeOK, Throws
<1>3. CASE Find
  <2>1. /\ query' = query /\ outcome' = "found" /\ d' = d
        /\ d > query.after /\ Passed(d - 1) /\ ~Throws(query)
    BY <1>3 DEF Find, WalkInv
  <2>2. Passed(d - 1)' /\ Matches(query, d)'
    BY <1>3, <2>1 DEF Find, Passed, Matches, DayOk, In
  <2> QED
    BY <1>3, <2>1, <2>2 DEF Find, WalkInv, TypeOK, Throws
<1>4. CASE Walk
  <2>1. /\ query' = query /\ outcome = "walk" /\ outcome' = "walk" /\ d' = d + 1
        /\ d > query.after /\ Passed(d - 1) /\ ~Throws(query)
    BY <1>4 DEF Walk, WalkInv
  <2>2. \A t \in (query.after + 1)..d : ~Matches(query, t)
    BY <1>4, <2>1, <1>0 DEF Walk, Passed
  <2>3. Passed(d - 1)'
    BY <2>1, <2>2, <1>0 DEF Passed, Matches, DayOk, In
  <2> QED
    BY <2>1, <2>3, <1>0 DEF WalkInv, TypeOK, Throws
<1>5. CASE UNCHANGED vars
  BY <1>5 DEF vars, WalkInv, TypeOK, Passed, Throws, Matches, DayOk, In
<1> QED
  BY <1>1, <1>2, <1>3, <1>4, <1>5 DEF Next

LEMMA WalkInvMeans == WalkInv => NextIsLeast
<1> SUFFICES ASSUME WalkInv PROVE NextIsLeast
  OBVIOUS
<1>1. /\ query \in Queries /\ query.after \in Nat /\ Search \in Nat /\ d \in Nat
      /\ query.after + Search \leq Last /\ Last \in Nat
  BY QueryTypes DEF WalkInv, TypeOK
<1>2. outcome \in {"found", "none"} => \A t \in 0..Last : Matches(query, t) <=> Due(query, t)
  BY <1>1, MatchesIsDue DEF WalkInv
<1> QED
  BY <1>1, <1>2 DEF WalkInv, Passed, NextIsLeast

(* nextFire and nextFireInZone answer with the least instant after the one *)
(* asked about that is due, and with null only if none is within the       *)
(* search: whatever the calendar, the clocks and the expression are.       *)
THEOREM NextIsLeastHolds == Spec => []NextIsLeast
<1>1. Spec => []WalkInv
  BY WalkInvInit, WalkInvNext, PTL DEF Spec
<1> QED
  BY <1>1, WalkInvMeans, PTL

-----------------------------------------------------------------------------
(* The attempts that passed in the open window of a bucket.                *)
InWindow(b) == IF b.count \leq MaxAttempts THEN b.count ELSE MaxAttempts

Bucket == [count : 0..(MaxAttempts + 1), start : Int]

(* What passed is recorded, and none of it lies ahead of instant t.        *)
Recorded(p, t) == p \in Seq(Int) /\ \A j \in 1..Len(p) : p[j] \leq t

(* All but the last MaxAttempts that passed are more than Window old at t: *)
(* what a window that is over leaves.                                      *)
Settled(p, t) == \A j \in 1..(Len(p) - MaxAttempts) : p[j] + Window < t

(* A window that is open at t began no earlier than what passed before it, *)
(* and all but the last MaxAttempts of that are more than Window older.    *)
Opened(b, p, t) ==
  LET before == Len(p) - InWindow(b)
  IN  /\ before \geq 0
      /\ b.start \leq t
      /\ \A j \in 1..before : p[j] \leq b.start
      /\ \A j \in 1..(before - MaxAttempts) : p[j] + Window < b.start

Spread(p) ==
  \A i \in 1..(Len(p) - 2 * MaxAttempts) : p[i + 2 * MaxAttempts] - p[i] > Window

KeyInv(b, p, t) ==
  /\ b \in Bucket
  /\ Recorded(p, t)
  /\ IF b.count = 0 THEN Settled(p, t) ELSE Opened(b, p, t)
  /\ Spread(p)

LimitInv ==
  /\ now \in Int
  /\ buckets \in [Keys -> Bucket]
  /\ passed \in [Keys -> Seq(Int)]
  /\ \A k \in Keys : KeyInv(buckets[k], passed[k], now)

(* Whether the bucket was dropped or its window is found over, the next    *)
(* attempt starts from the same place.                                     *)
LEMMA OverSettles ==
  ASSUME NEW t \in Int, NEW b, NEW p, KeyInv(b, p, t),
         b.count = 0 \/ t - b.start > Window
  PROVE  Settled(p, t)
<1>1. CASE b.count = 0
  BY <1>1 DEF KeyInv
<1>2. CASE b.count # 0
  <2>1. Opened(b, p, t) /\ b \in Bucket /\ p \in Seq(Int) /\ t - b.start > Window
    BY <1>2 DEF KeyInv, Recorded
  <2>2. Len(p) - MaxAttempts \leq Len(p) - InWindow(b)
    BY <2>1, LimitAssumption DEF InWindow, Bucket
  <2>3. ASSUME NEW j \in 1..(Len(p) - MaxAttempts)
        PROVE  p[j] + Window < t
    <3>1. j \in 1..(Len(p) - InWindow(b)) /\ j \in 1..Len(p)
      BY <2>1, <2>2, LimitAssumption DEF InWindow, Bucket
    <3>2. p[j] \leq b.start /\ p[j] \in Int /\ b.start \in Int
      BY <2>1, <3>1 DEF Opened, Bucket
    <3> QED
      BY <2>1, <3>2, LimitAssumption
  <2> QED
    BY <2>3 DEF Settled
<1> QED
  BY <1>1, <1>2

(* An attempt passes: it is recorded, and nothing near it is Spread apart  *)
(* too little, as long as all but the last 2 * MaxAttempts - 1 are old.    *)
LEMMA OneMorePasses ==
  ASSUME NEW t \in Int, NEW p, Recorded(p, t), Spread(p),
         \A j \in 1..(Len(p) + 1 - 2 * MaxAttempts) : p[j] + Window < t
  PROVE  Recorded(Append(p, t), t) /\ Spread(Append(p, t))
<1> DEFINE q == Append(p, t)
<1>1. /\ p \in Seq(Int) /\ q \in Seq(Int) /\ Len(p) \in Nat /\ Len(q) = Len(p) + 1
      /\ q[Len(p) + 1] = t
      /\ \A j \in 1..Len(p) : q[j] = p[j] /\ p[j] \in Int /\ p[j] \leq t
  BY DEF Recorded
<1> HIDE DEF q
<1>2. Recorded(q, t)
  BY <1>1 DEF Recorded
<1>3. ASSUME NEW i \in 1..(Len(q) - 2 * MaxAttempts)
      PROVE  q[i + 2 * MaxAttempts] - q[i] > Window
  <2>1. /\ i \in Nat \ {0} /\ i + 2 * MaxAttempts \leq Len(p) + 1
        /\ i \in 1..Len(p) /\ i \in 1..(Len(p) + 1 - 2 * MaxAttempts)
    BY <1>1, LimitAssumption
  <2>2. CASE i + 2 * MaxAttempts = Len(p) + 1
    <3>1. q[i + 2 * MaxAttempts] = t
      BY <1>1, <2>2
    <3>2. q[i] = p[i] /\ p[i] \in Int /\ p[i] + Window < t
      BY <1>1, <2>1
    <3> QED
      BY <3>1, <3>2, LimitAssumption
  <2>3. CASE i + 2 * MaxAttempts \leq Len(p)
    <3>1. i \in 1..(Len(p) - 2 * MaxAttempts) /\ i + 2 * MaxAttempts \in 1..Len(p)
      BY <1>1, <2>1, <2>3, LimitAssumption
    <3>2. q[i] = p[i] /\ q[i + 2 * MaxAttempts] = p[i + 2 * MaxAttempts]
      BY <1>1, <2>1, <3>1
    <3> QED
      BY <3>1, <3>2 DEF Spread
  <2>4. i + 2 * MaxAttempts \in Int
    BY <2>1, LimitAssumption
  <2>5. i + 2 * MaxAttempts = Len(p) + 1 \/ i + 2 * MaxAttempts \leq Len(p)
    BY <1>1, <2>1, <2>4
  <2> QED
    BY <2>2, <2>3, <2>5
<1> QED
  BY <1>2, <1>3 DEF Spread, q

(* The first attempt of a window passes.                                   *)
LEMMA WindowOpens ==
  ASSUME NEW t \in Int, NEW p, Recorded(p, t), Spread(p), Settled(p, t)
  PROVE  KeyInv([count |-> 1, start |-> t], Append(p, t), t)
<1> DEFINE q == Append(p, t)
           b == [count |-> 1, start |-> t]
<1>1. /\ p \in Seq(Int) /\ Len(p) \in Nat /\ Len(q) = Len(p) + 1
      /\ \A j \in 1..Len(p) : q[j] = p[j] /\ p[j] \in Int /\ p[j] \leq t
  BY DEF Recorded
<1>2. b \in Bucket /\ b.count # 0 /\ InWindow(b) = 1 /\ b.start = t
  BY LimitAssumption DEF Bucket, InWindow
<1> HIDE DEF q, b
<1>3. Recorded(q, t) /\ Spread(q)
  <2>1. \A j \in 1..(Len(p) + 1 - 2 * MaxAttempts) : j \in 1..(Len(p) - MaxAttempts)
    BY <1>1, LimitAssumption
  <2>2. \A j \in 1..(Len(p) + 1 - 2 * MaxAttempts) : p[j] + Window < t
    BY <2>1 DEF Settled
  <2> QED
    BY <2>2, OneMorePasses DEF q
<1>4. Opened(b, q, t)
  <2>1. Len(q) - InWindow(b) = Len(p)
    BY <1>1, <1>2
  <2>2. \A j \in 1..(Len(p) - MaxAttempts) : q[j] + Window < t
    <3>1. \A j \in 1..(Len(p) - MaxAttempts) : j \in 1..Len(p)
      BY <1>1, LimitAssumption
    <3> QED
      BY <1>1, <3>1 DEF Settled
  <2> QED
    BY <1>1, <1>2, <2>1, <2>2 DEF Opened
<1> QED
  BY <1>2, <1>3, <1>4 DEF KeyInv, b, q

(* An attempt that its open window still counts passes.                    *)
LEMMA WindowCounts ==
  ASSUME NEW t \in Int, NEW b, NEW p, KeyInv(b, p, t),
         b.count # 0, b.count < MaxAttempts
  PROVE  KeyInv([b EXCEPT !.count = @ + 1], Append(p, t), t)
<1> DEFINE q == Append(p, t)
           c == [b EXCEPT !.count = @ + 1]
           before == Len(p) - b.count
<1>1. /\ p \in Seq(Int) /\ Len(p) \in Nat /\ Len(q) = Len(p) + 1
      /\ \A j \in 1..Len(p) : q[j] = p[j] /\ p[j] \in Int /\ p[j] \leq t
      /\ b \in Bucket /\ b.count \in Nat /\ b.start \in Int
  BY DEF KeyInv, Recorded, Bucket
<1>2. /\ c \in Bucket /\ c.count # 0 /\ c.start = b.start
      /\ InWindow(c) = b.count + 1 /\ InWindow(b) = b.count
  BY <1>1, LimitAssumption DEF Bucket, InWindow
<1> HIDE DEF q, c
<1>3. /\ before \in Int /\ before \geq 0 /\ before \leq Len(p) /\ b.start \leq t
      /\ \A j \in 1..before : p[j] \leq b.start
      /\ \A j \in 1..(before - MaxAttempts) : p[j] + Window < b.start
      /\ Recorded(p, t) /\ Spread(p)
  BY <1>1, <1>2 DEF KeyInv, Opened
<1>4. Recorded(q, t) /\ Spread(q)
  <2>1. ASSUME NEW j \in 1..(Len(p) + 1 - 2 * MaxAttempts)
        PROVE  p[j] + Window < t
    <3>1. j \in 1..(before - MaxAttempts) /\ j \in 1..Len(p)
      BY <1>1, LimitAssumption
    <3>2. p[j] + Window < b.start /\ p[j] \in Int
      BY <1>1, <1>3, <3>1
    <3> QED
      BY <1>1, <1>3, <3>2, LimitAssumption
  <2> QED
    BY <1>3, <2>1, OneMorePasses DEF q
<1>5. Opened(c, q, t)
  <2>1. Len(q) - InWindow(c) = before
    <3> DEFINE m == Len(q)
               n == InWindow(c)
    <3>1. m = Len(p) + 1 /\ n = b.count + 1 /\ Len(p) \in Int /\ b.count \in Int
      BY <1>1, <1>2
    <3> HIDE DEF m, n
    <3>2. m - n = Len(p) - b.count
      BY <3>1
    <3> QED
      BY <3>2 DEF m, n
  <2>2. /\ \A j \in 1..before : j \in 1..Len(p)
        /\ \A j \in 1..(before - MaxAttempts) : j \in 1..Len(p)
    BY <1>1, <1>3, LimitAssumption
  <2> HIDE DEF before
  <2>3. /\ \A j \in 1..before : q[j] \leq c.start
        /\ \A j \in 1..(before - MaxAttempts) : q[j] + Window < c.start
    BY <1>1, <1>2, <1>3, <2>2
  <2> QED
    BY <1>2, <1>3, <2>1, <2>3 DEF Opened
<1> QED
  BY <1>2, <1>4, <1>5 DEF KeyInv, c, q

(* An attempt that is answered 429 changes nothing but the count.          *)
LEMMA WindowIsFull ==
  ASSUME NEW t \in Int, NEW b, NEW p, KeyInv(b, p, t), b.count \geq MaxAttempts,
         NEW n \in MaxAttempts..(MaxAttempts + 1)
  PROVE  KeyInv([b EXCEPT !.count = n], p, t)
<1> DEFINE c == [b EXCEPT !.count = n]
<1>1. b \in Bucket /\ b.count \in Nat /\ b.count # 0
  BY LimitAssumption DEF KeyInv, Bucket
<1>2. /\ c \in Bucket /\ c.count # 0 /\ c.start = b.start
      /\ InWindow(c) = InWindow(b)
  BY <1>1, LimitAssumption DEF Bucket, InWindow
<1> HIDE DEF c
<1> QED
  BY <1>1, <1>2 DEF KeyInv, Opened, c

(* The clock goes on.                                                      *)
LEMMA TimePasses ==
  ASSUME NEW t \in Int, NEW b, NEW p, KeyInv(b, p, t)
  PROVE  KeyInv(b, p, t + 1)
<1>1. p \in Seq(Int) /\ Len(p) \in Nat /\ b \in Bucket /\ b.start \in Int
  BY DEF KeyInv, Recorded, Bucket
<1>2. Recorded(p, t + 1)
  BY <1>1 DEF KeyInv, Recorded
<1>3. ASSUME Settled(p, t) PROVE Settled(p, t + 1)
  <2>1. \A j \in 1..(Len(p) - MaxAttempts) : p[j] \in Int
    BY <1>1, LimitAssumption
  <2> QED
    BY <1>3, <2>1, LimitAssumption DEF Settled
<1>4. ASSUME Opened(b, p, t) PROVE Opened(b, p, t + 1)
  BY <1>1, <1>4 DEF Opened
<1> QED
  BY <1>2, <1>3, <1>4 DEF KeyInv

(* A step keeps the bucket and the history of every key in step.           *)
LEMMA LimitStep == LimitInv /\ [RateLimits!Next]_(RateLimits!vars) => LimitInv'
<1> SUFFICES ASSUME LimitInv, [RateLimits!Next]_(RateLimits!vars)
             PROVE  LimitInv'
  OBVIOUS
<1>1. /\ now \in Int
      /\ buckets \in [Keys -> Bucket]
      /\ passed \in [Keys -> Seq(Int)]
      /\ \A k \in Keys : KeyInv(buckets[k], passed[k], now)
  BY DEF LimitInv
<1>2. ASSUME NEW k \in Keys, RateLimits!Request(k)
      PROVE  LimitInv'
  <2> DEFINE b == buckets[k]
             p == passed[k]
             c == buckets'[k]
             q == passed'[k]
  <2>1. /\ b \in Bucket /\ b.count \in Nat /\ b.count \leq MaxAttempts + 1
        /\ p \in Seq(Int) /\ KeyInv(b, p, now)
    BY <1>1, LimitAssumption DEF Bucket
  <2>2. CASE RateLimits!Over(b)
    <3>1. Settled(p, now)
      BY <1>1, <2>1, <2>2, OverSettles DEF RateLimits!Over
    <3>2. KeyInv([count |-> 1, start |-> now], Append(p, now), now)
      BY <1>1, <2>1, <3>1, WindowOpens DEF KeyInv
    <3>3. /\ buckets' = [buckets EXCEPT ![k] = [count |-> 1, start |-> now]]
          /\ passed' = [passed EXCEPT ![k] = Append(@, now)]
          /\ now' = now
      BY <1>2, <2>2, LimitAssumption DEF RateLimits!Request
    <3> QED
      BY <1>1, <3>2, <3>3, SMTT(30) DEF LimitInv, KeyInv, Recorded
  <2>3. CASE ~RateLimits!Over(b) /\ b.count < MaxAttempts
    <3>1. b.count # 0
      BY <2>3 DEF RateLimits!Over
    <3>2. KeyInv([b EXCEPT !.count = @ + 1], Append(p, now), now)
      BY <1>1, <2>1, <2>3, <3>1, WindowCounts
    <3>3. /\ buckets' = [buckets EXCEPT ![k] = [b EXCEPT !.count = @ + 1]]
          /\ passed' = [passed EXCEPT ![k] = Append(@, now)]
          /\ now' = now
      <4>1. ~(b.count > MaxAttempts) /\ b.count + 1 \leq MaxAttempts
        BY <2>1, <2>3, LimitAssumption
      <4>2. /\ [b EXCEPT !.count = IF @ > MaxAttempts THEN @ ELSE @ + 1]
                  = [b EXCEPT !.count = @ + 1]
            /\ [b EXCEPT !.count = @ + 1].count = b.count + 1
        BY <2>1, <4>1 DEF Bucket
      <4> QED
        BY <1>2, <2>3, <4>1, <4>2 DEF RateLimits!Request
    <3> HIDE DEF b, p
    <3>4. c = [b EXCEPT !.count = @ + 1] /\ q = Append(p, now)
      BY <1>1, <3>3 DEF p
    <3>5. c \in Bucket /\ q \in Seq(Int)
      BY <3>2, <3>4 DEF KeyInv, Recorded
    <3> QED
      BY <1>1, <3>2, <3>3, <3>4, <3>5 DEF LimitInv
  <2>4. CASE ~RateLimits!Over(b) /\ b.count \geq MaxAttempts
    <3> DEFINE n == IF b.count > MaxAttempts THEN b.count ELSE b.count + 1
    <3>1. n \in MaxAttempts..(MaxAttempts + 1) /\ n > MaxAttempts
      BY <2>1, <2>4, LimitAssumption
    <3>2. /\ buckets' = [buckets EXCEPT ![k] = [b EXCEPT !.count = n]]
          /\ passed' = passed /\ now' = now
      <4>1. /\ [b EXCEPT !.count = IF @ > MaxAttempts THEN @ ELSE @ + 1]
                  = [b EXCEPT !.count = n]
            /\ [b EXCEPT !.count = n].count = n
        BY <2>1 DEF Bucket
      <4>2. ~(n \leq MaxAttempts)
        BY <3>1, LimitAssumption
      <4> QED
        BY <1>2, <2>4, <4>1, <4>2 DEF RateLimits!Request
    <3> HIDE DEF n
    <3>3. KeyInv([b EXCEPT !.count = n], p, now)
      BY <1>1, <2>1, <2>4, <3>1, WindowIsFull
    <3> HIDE DEF b, p
    <3>4. c = [b EXCEPT !.count = n] /\ q = p
      BY <1>1, <3>2 DEF p
    <3>5. c \in Bucket
      BY <3>3, <3>4 DEF KeyInv
    <3> QED
      BY <1>1, <3>2, <3>3, <3>4, <3>5 DEF LimitInv
  <2> QED
    BY <2>1, <2>2, <2>3, <2>4, LimitAssumption
<1>3. CASE RateLimits!Cleanup
  <2>1. /\ now' = now /\ passed' = passed
        /\ buckets' = [k \in Keys |-> IF RateLimits!Over(buckets[k])
                                      THEN [count |-> 0, start |-> 0] ELSE buckets[k]]
    BY <1>3 DEF RateLimits!Cleanup
  <2>2. [count |-> 0, start |-> 0] \in Bucket
    BY LimitAssumption DEF Bucket
  <2>3. ASSUME NEW k \in Keys
        PROVE  KeyInv(buckets'[k], passed[k], now)
    <3>1. CASE RateLimits!Over(buckets[k])
      <4>1. Settled(passed[k], now)
        BY <1>1, <3>1, OverSettles DEF RateLimits!Over
      <4>2. buckets'[k] = [count |-> 0, start |-> 0]
        BY <2>1, <3>1
      <4> QED
        BY <1>1, <2>2, <4>1, <4>2 DEF KeyInv
    <3>2. CASE ~RateLimits!Over(buckets[k])
      BY <1>1, <2>1, <3>2
    <3> QED
      BY <3>1, <3>2
  <2> QED
    BY <1>1, <2>1, <2>2, <2>3 DEF LimitInv
<1>4. CASE RateLimits!Tick
  <2>1. \A k \in Keys : KeyInv(buckets[k], passed[k], now + 1)
    BY <1>1, TimePasses
  <2> QED
    BY <1>1, <1>4, <2>1 DEF LimitInv, RateLimits!Tick
<1>5. CASE UNCHANGED RateLimits!vars
  BY <1>1, <1>5 DEF LimitInv, RateLimits!vars
<1> QED
  BY <1>2, <1>3, <1>4, <1>5 DEF RateLimits!Next

(* The limiter: of the attempts of a caller that pass, any two that are    *)
(* 2 * MaxAttempts apart are more than a window apart, for every number of *)
(* callers, every window and every number of attempts but none.            *)
THEOREM LimitsHold == RateLimits!Spec => []BurstBounded
<1>1. RateLimits!Init => LimitInv
  <2> SUFFICES ASSUME RateLimits!Init PROVE LimitInv
    OBVIOUS
  <2>1. /\ now = 0 /\ buckets = [k \in Keys |-> [count |-> 0, start |-> 0]]
        /\ passed = [k \in Keys |-> <<>>]
    BY DEF RateLimits!Init
  <2>2. [count |-> 0, start |-> 0] \in Bucket
    BY LimitAssumption DEF Bucket
  <2>3. <<>> \in Seq(Int) /\ Len(<<>>) = 0
    OBVIOUS
  <2>4. Recorded(<<>>, 0) /\ Settled(<<>>, 0) /\ Spread(<<>>)
    BY <2>3, LimitAssumption DEF Recorded, Settled, Spread
  <2>5. KeyInv([count |-> 0, start |-> 0], <<>>, 0)
    BY <2>2, <2>4 DEF KeyInv
  <2> QED
    BY <2>1, <2>2, <2>3, <2>5 DEF LimitInv
<1>2. LimitInv /\ [RateLimits!Next]_(RateLimits!vars) => LimitInv'
  BY LimitStep
<1>3. LimitInv => BurstBounded
  BY DEF LimitInv, KeyInv, Spread, BurstBounded, RateLimits!BurstBounded
<1> QED
  BY <1>1, <1>2, <1>3, PTL DEF RateLimits!Spec

-----------------------------------------------------------------------------
(* The number of elements is the same in Flakiness and here.               *)
LEMMA FlakyCardinality == \A S : Flaky!Cardinality(S) = Cardinality(S)
  BY DEF Flaky!Cardinality, Cardinality

(* The place of an element among those of a finite set: of rows kept, how  *)
(* many are not newer.                                                     *)
LEMMA RankType ==
  ASSUME NEW S \in SUBSET Int, IsFiniteSet(S), NEW i \in S
  PROVE  Cardinality({j \in S : j \leq i}) \in 1..Cardinality(S)
<1> DEFINE R == {j \in S : j \leq i}
<1>1. R \in SUBSET S /\ i \in R
  OBVIOUS
<1>2. IsFiniteSet(R) /\ Cardinality(R) \leq Cardinality(S)
  BY <1>1, FS_Subset
<1>3. Cardinality(R) \in Nat /\ Cardinality(S) \in Nat
  BY <1>2, FS_CardinalityType
<1>4. Cardinality(R) # 0
  BY <1>1, <1>2, FS_EmptySet
<1> QED
  BY <1>2, <1>3, <1>4

(* Of two elements the greater has the later place.                        *)
LEMMA RankGrows ==
  ASSUME NEW S \in SUBSET Int, IsFiniteSet(S), NEW i \in S, NEW k \in S, i < k
  PROVE  Cardinality({j \in S : j \leq i}) < Cardinality({j \in S : j \leq k})
<1> DEFINE R == {j \in S : j \leq i}
           T == {j \in S : j \leq k}
<1>0. i \in Int /\ k \in Int /\ \A j \in S : j \in Int
  OBVIOUS
<1>a. \A j \in S : j \leq i => j \leq k
  BY <1>0
<1>1. R \in SUBSET T /\ T \in SUBSET S /\ k \in T /\ k \notin R
  <2> HIDE DEF R, T
  <2>1. R \in SUBSET T
    BY <1>a DEF R, T
  <2>2. T \in SUBSET S /\ k \in T
    BY <1>0 DEF T
  <2>3. k \notin R
    BY <1>0 DEF R
  <2> QED
    BY <2>1, <2>2, <2>3
<1>2. IsFiniteSet(T)
  BY <1>1, FS_Subset
<1>3. IsFiniteSet(R) /\ Cardinality(R) \leq Cardinality(T) /\ Cardinality(R) # Cardinality(T)
  BY <1>1, <1>2, FS_Subset
<1>4. Cardinality(R) \in Nat /\ Cardinality(T) \in Nat
  BY <1>2, <1>3, FS_CardinalityType
<1> QED
  BY <1>3, <1>4

(* Every place is taken: a set of n integers has an element at each place  *)
(* from 1 to n.                                                            *)
LEMMA NthIsThere ==
  ASSUME NEW S \in SUBSET Int, IsFiniteSet(S), NEW k \in 1..Cardinality(S)
  PROVE  Flaky!Nth(S, k) \in S /\ Cardinality({j \in S : j \leq Flaky!Nth(S, k)}) = k
<1> DEFINE n == Cardinality(S)
           rank == [i \in S |-> Cardinality({j \in S : j \leq i})]
<1>1. n \in Nat
  BY FS_CardinalityType
<1>2. rank \in [S -> 1..n]
  BY RankType
<1>3. \A i, j \in S : rank[i] = rank[j] => i = j
  <2> SUFFICES ASSUME NEW i \in S, NEW j \in S, i # j PROVE rank[i] # rank[j]
    OBVIOUS
  <2>1. rank[i] \in Int /\ rank[j] \in Int
    BY <1>2
  <2>2. CASE i < j
    BY <2>1, <2>2, RankGrows
  <2>3. CASE j < i
    BY <2>1, <2>3, RankGrows
  <2> QED
    BY <2>2, <2>3
<1>4. rank \in Injection(S, 1..n)
  BY <1>2, <1>3 DEF Injection, IsInjective
<1>5. IsFiniteSet(1..n) /\ Cardinality(1..n) = n
  BY <1>1, FS_Interval
<1>6. rank \in Surjection(S, 1..n)
  BY <1>4, <1>5, FS_Injection
<1>7. \E i \in S : rank[i] = k
  <2> HIDE DEF rank, n
  <2> QED
    BY <1>6 DEF Surjection, n
<1>8. \E i \in S : Flaky!Cardinality({j \in S : j \leq i}) = k
  BY <1>7, FlakyCardinality
<1> HIDE DEF n, rank
<1> QED
  BY <1>8, FlakyCardinality DEF Flaky!Nth

(* The element at the place of i is i.                                     *)
LEMMA NthIsRank ==
  ASSUME NEW S \in SUBSET Int, IsFiniteSet(S), NEW i \in S
  PROVE  Flaky!Nth(S, Cardinality({j \in S : j \leq i})) = i
<1> DEFINE r == Cardinality({j \in S : j \leq i})
           m == Flaky!Nth(S, r)
<1>1. r \in 1..Cardinality(S)
  BY RankType
<1>2. m \in S /\ Cardinality({j \in S : j \leq m}) = r
  BY <1>1, NthIsThere
<1>3. Cardinality(S) \in Nat
  BY FS_CardinalityType
<1>4. r \in Int
  BY <1>1, <1>3
<1> HIDE DEF m
<1>5. m \in Int /\ i \in Int
  BY <1>2
<1>6. ~(m < i)
  <2> SUFFICES ASSUME m < i PROVE FALSE
    OBVIOUS
  <2>1. Cardinality({j \in S : j \leq m}) < r
    BY <1>2, RankGrows
  <2> QED
    BY <1>2, <1>4, <2>1
<1>7. ~(i < m)
  <2> SUFFICES ASSUME i < m PROVE FALSE
    OBVIOUS
  <2>1. r < Cardinality({j \in S : j \leq m})
    BY <1>2, RankGrows
  <2> QED
    BY <1>2, <1>4, <2>1
<1> QED
  BY <1>5, <1>6, <1>7 DEF m

(* The filter of analyzeFlakiness leaves a row for each that passed or     *)
(* failed, in their order.                                                 *)
LEMMA Filtered ==
  ASSUME NEW runs \in Seq(Flaky!Statuses)
  PROVE  /\ Flaky!Kept(runs) \in SUBSET (1..Len(runs)) /\ IsFiniteSet(Flaky!Kept(runs))
         /\ Flaky!Finished(runs) \in Seq({"passed", "failed"})
         /\ Len(Flaky!Finished(runs)) = Cardinality(Flaky!Kept(runs))
         /\ \A k \in 1..Len(Flaky!Finished(runs)) :
              Flaky!Finished(runs)[k] = runs[Flaky!Nth(Flaky!Kept(runs), k)]
<1> DEFINE kept == Flaky!Kept(runs)
           n == Cardinality(kept)
           out == Flaky!Finished(runs)
<1>1. kept \in SUBSET (1..Len(runs)) /\ \A i \in kept : runs[i] \in {"passed", "failed"}
  BY DEF Flaky!Kept, Flaky!Statuses
<1>2. IsFiniteSet(kept) /\ kept \in SUBSET Int
  BY <1>1, FS_Interval, FS_Subset
<1>3. n \in Nat
  BY <1>2, FS_CardinalityType
<1>4. out = [k \in 1..n |-> runs[Flaky!Nth(kept, k)]]
  BY FlakyCardinality DEF Flaky!Finished
<1> HIDE DEF kept, n, out
<1>5. \A k \in 1..n : Flaky!Nth(kept, k) \in kept
  BY <1>2, NthIsThere DEF n
<1>6. \A k \in 1..n : runs[Flaky!Nth(kept, k)] \in {"passed", "failed"}
  BY <1>1, <1>5
<1>7. out \in [1..n -> {"passed", "failed"}]
  BY <1>4, <1>6
<1>8. out \in Seq({"passed", "failed"}) /\ Len(out) = n
  BY <1>3, <1>7
<1>9. \A k \in 1..n : out[k] = runs[Flaky!Nth(kept, k)]
  BY <1>4
<1> QED
  BY <1>1, <1>2, <1>8, <1>9 DEF kept, n, out

(* How many of the rows have a status: none when no row has it, all when   *)
(* every row has it.                                                       *)
LEMMA Counts ==
  ASSUME NEW S, NEW s \in Seq(S), NEW status
  PROVE  /\ Flaky!Count(s, status) \in 0..Len(s)
         /\ Flaky!Count(s, status) = 0 <=> \A i \in 1..Len(s) : s[i] # status
         /\ Flaky!Count(s, status) = Len(s) <=> \A i \in 1..Len(s) : s[i] = status
<1> DEFINE C == {i \in 1..Len(s) : s[i] = status}
<1>1. Len(s) \in Nat /\ DOMAIN s = 1..Len(s)
  OBVIOUS
<1>2. Flaky!Count(s, status) = Cardinality(C)
  BY <1>1, FlakyCardinality DEF Flaky!Count
<1>3. C \in SUBSET (1..Len(s))
  OBVIOUS
<1>4. IsFiniteSet(1..Len(s)) /\ Cardinality(1..Len(s)) = Len(s)
  BY <1>1, FS_Interval
<1>5. /\ IsFiniteSet(C) /\ Cardinality(C) \leq Len(s)
      /\ Cardinality(C) = Len(s) => C = 1..Len(s)
  BY <1>3, <1>4, FS_Subset
<1>6. Cardinality(C) \in Nat
  BY <1>5, FS_CardinalityType
<1>7. Cardinality(C) = 0 <=> C = {}
  BY <1>5, FS_EmptySet
<1>8. C = {} <=> \A i \in 1..Len(s) : s[i] # status
  OBVIOUS
<1>9. C = 1..Len(s) <=> \A i \in 1..Len(s) : s[i] = status
  OBVIOUS
<1> HIDE DEF C
<1>10. C = 1..Len(s) => Cardinality(C) = Len(s)
  BY <1>4
<1> QED
  BY <1>1, <1>2, <1>5, <1>6, <1>7, <1>8, <1>9, <1>10

(* Array.slice, for a sequence of any length.                              *)
LEMMA Sliced ==
  ASSUME NEW S, NEW s \in Seq(S), NEW from \in Nat \ {0}, NEW to \in Nat
  PROVE  /\ Flaky!Slice(s, from, to) \in Seq(S)
         /\ to \leq Len(s) => Len(Flaky!Slice(s, from, to)) = IF from \leq to THEN to - from + 1 ELSE 0
         /\ to > Len(s) => Len(Flaky!Slice(s, from, to))
                             = IF from \leq Len(s) THEN Len(s) - from + 1 ELSE 0
         /\ \A i \in 1..Len(Flaky!Slice(s, from, to)) :
              /\ from + i - 1 \in 1..Len(s)
              /\ Flaky!Slice(s, from, to)[i] = s[from + i - 1]
<1> DEFINE end == IF to > Len(s) THEN Len(s) ELSE to
           cut == SubSeq(s, from, end)
<1>1. Len(s) \in Nat /\ \A i \in 1..Len(s) : s[i] \in S
  OBVIOUS
<1>2. end \in Nat /\ end \leq Len(s) /\ end \leq to
  BY <1>1
<1> HIDE DEF end
<1>3. \A i \in from..end : s[i] \in S
  BY <1>1, <1>2
<1>4. /\ cut \in Seq(S)
      /\ Len(cut) = IF from \leq end THEN end - from + 1 ELSE 0
      /\ \A i \in 1..(end - from + 1) : cut[i] = s[from + i - 1]
  BY <1>2, <1>3, SubSeqProperties
<1>5. Flaky!Slice(s, from, to) = cut
  BY DEF Flaky!Slice, end
<1>6. \A i \in 1..Len(cut) : i \in 1..(end - from + 1) /\ from + i - 1 \in 1..Len(s)
  BY <1>1, <1>2, <1>4
<1>7. (to \leq Len(s) => end = to) /\ (to > Len(s) => end = Len(s))
  BY <1>1 DEF end
<1> HIDE DEF cut
<1> QED
  BY <1>4, <1>5, <1>6, <1>7

(* A slice from the first row on.                                          *)
LEMMA Firsts ==
  ASSUME NEW S, NEW s \in Seq(S), NEW to \in Nat
  PROVE  /\ Flaky!Slice(s, 1, to) \in Seq(S)
         /\ to \leq Len(s) => Len(Flaky!Slice(s, 1, to)) = to
         /\ ~(to \leq Len(s)) => Len(Flaky!Slice(s, 1, to)) = Len(s)
         /\ Len(Flaky!Slice(s, 1, to)) \in Nat /\ Len(Flaky!Slice(s, 1, to)) \leq to
         /\ \A i \in 1..Len(Flaky!Slice(s, 1, to)) :
              i \in 1..Len(s) /\ Flaky!Slice(s, 1, to)[i] = s[i]
<1> DEFINE cut == Flaky!Slice(s, 1, to)
           n == Len(s)
           m == Len(cut)
<1>1. 1 \in Nat \ {0}
  OBVIOUS
<1>2. /\ cut \in Seq(S)
      /\ to \leq n => m = IF 1 \leq to THEN to - 1 + 1 ELSE 0
      /\ to > n => m = IF 1 \leq n THEN n - 1 + 1 ELSE 0
      /\ \A i \in 1..m : 1 + i - 1 \in 1..n /\ cut[i] = s[1 + i - 1]
  BY <1>1, Sliced
<1>3. n \in Nat /\ m \in Nat
  BY <1>2
<1> HIDE DEF cut, n, m
<1>4. \A i \in 1..m : 1 + i - 1 = i
  BY <1>3
<1>5. \A i \in 1..m : i \in 1..n /\ cut[i] = s[i]
  BY <1>2, <1>4, Zenon
<1>6. (to \leq n => m = to) /\ (~(to \leq n) => m = n) /\ m \leq to
  BY <1>2, <1>3
<1> QED
  BY <1>2, <1>3, <1>5, <1>6 DEF cut, n, m

(* A slice that begins after r rows.                                       *)
LEMMA Rests ==
  ASSUME NEW S, NEW s \in Seq(S), NEW r \in Nat, NEW to \in Nat
  PROVE  /\ Flaky!Slice(s, r + 1, to) \in Seq(S)
         /\ \A i \in 1..Len(Flaky!Slice(s, r + 1, to)) :
              r + i \in 1..Len(s) /\ Flaky!Slice(s, r + 1, to)[i] = s[r + i]
<1> DEFINE from == r + 1
           cut == Flaky!Slice(s, from, to)
<1>1. from \in Nat \ {0}
  OBVIOUS
<1> HIDE DEF from
<1>2. /\ cut \in Seq(S)
      /\ \A i \in 1..Len(cut) : from + i - 1 \in 1..Len(s) /\ cut[i] = s[from + i - 1]
  BY <1>1, Sliced
<1>3. Len(cut) \in Nat
  BY <1>2
<1> HIDE DEF cut
<1>4. \A i \in 1..Len(cut) : from + i - 1 = r + i
  BY <1>3 DEF from
<1>5. \A i \in 1..Len(cut) : r + i \in 1..Len(s) /\ cut[i] = s[r + i]
  BY <1>2, <1>4, Zenon
<1> QED
  BY <1>2, <1>5 DEF cut, from

(* The filter of the latest rows is a beginning of the filter of all rows, *)
(* as long as the rows read without the noise.                             *)
LEMMA PrefixFiltered ==
  ASSUME NEW runs \in Seq(Flaky!Statuses), NEW t \in 0..Len(runs)
  PROVE  LET read == SubSeq(runs, 1, t)
         IN  /\ Len(Flaky!Finished(read)) \leq Len(Flaky!Finished(runs))
             /\ Len(Flaky!Finished(read)) = t - Flaky!Count(read, "noise")
             /\ \A k \in 1..Len(Flaky!Finished(read)) :
                  Flaky!Finished(read)[k] = Flaky!Finished(runs)[k]
<1> DEFINE read == SubSeq(runs, 1, t)
           all == Flaky!Kept(runs)
           kept == Flaky!Kept(read)
<1>1. Len(runs) \in Nat /\ t \in Nat /\ t \leq Len(runs) /\ \A i \in 1..t : runs[i] \in Flaky!Statuses
  OBVIOUS
<1>2. read \in Seq(Flaky!Statuses) /\ Len(read) = t /\ \A i \in 1..t : read[i] = runs[i]
  <2>1. \A i \in 1..t : runs[i] \in Flaky!Statuses
    BY <1>1
  <2>2. /\ SubSeq(runs, 1, t) \in Seq(Flaky!Statuses)
        /\ Len(SubSeq(runs, 1, t)) = IF 1 <= t THEN t - 1 + 1 ELSE 0
        /\ \A i \in 1..(t - 1 + 1) : SubSeq(runs, 1, t)[i] = runs[1 + i - 1]
    BY <1>1, <2>1, SubSeqProperties
  <2> QED
    BY <1>1, <2>2
<1> HIDE DEF read
<1>3. all = {i \in 1..Len(runs) : runs[i] # "noise"} /\ kept = {i \in 1..t : read[i] # "noise"}
  BY <1>2 DEF Flaky!Kept
<1>4. kept = {i \in all : i \leq t}
  BY <1>1, <1>2, <1>3
<1>5. /\ all \in SUBSET Int /\ IsFiniteSet(all) /\ kept \in SUBSET Int /\ IsFiniteSet(kept)
      /\ Len(Flaky!Finished(runs)) = Cardinality(all)
      /\ Len(Flaky!Finished(read)) = Cardinality(kept)
  BY <1>2, Filtered
<1>6. Cardinality(kept) \in Nat /\ Cardinality(all) \in Nat /\ Cardinality(kept) \leq Cardinality(all)
  <2>1. kept \in SUBSET all
    BY <1>4
  <2> QED
    BY <1>5, <2>1, FS_Subset, FS_CardinalityType
<1>7. Cardinality(kept) = t - Flaky!Count(read, "noise")
  <2> DEFINE noise == {i \in 1..t : read[i] = "noise"}
  <2>a. DOMAIN read = 1..t
    BY <1>2
  <2>1. Flaky!Count(read, "noise") = Cardinality(noise)
    BY <2>a, FlakyCardinality DEF Flaky!Count
  <2>b. noise \in SUBSET (1..t)
    OBVIOUS
  <2>c. IsFiniteSet(1..t) /\ Cardinality(1..t) = t
    BY <1>1, FS_Interval
  <2>2. noise \in SUBSET (1..t) /\ IsFiniteSet(1..t) /\ Cardinality(1..t) = t
    BY <2>b, <2>c
  <2>3. IsFiniteSet(noise) /\ Cardinality(noise) \in Nat
    BY <2>2, FS_Subset, FS_CardinalityType
  <2>4. /\ kept = (1..t) \ noise
        /\ (1..t) \cap noise = noise
    BY <1>3
  <2> HIDE DEF noise
  <2>5. Cardinality((1..t) \ noise) = Cardinality(1..t) - Cardinality((1..t) \cap noise)
    BY <2>2, FS_Difference
  <2> QED
    BY <2>1, <2>2, <2>4, <2>5
<1>8. ASSUME NEW k \in 1..Cardinality(kept)
      PROVE  Flaky!Finished(read)[k] = Flaky!Finished(runs)[k]
  <2> DEFINE i == Flaky!Nth(kept, k)
  <2>1. i \in kept /\ Cardinality({j \in kept : j \leq i}) = k
    BY <1>5, NthIsThere
  <2> HIDE DEF i
  <2>2. i \in all /\ i \leq t /\ i \in 1..t
    BY <1>3, <1>4, <2>1
  <2>3. {j \in kept : j \leq i} = {j \in all : j \leq i}
    BY <1>1, <1>4, <1>5, <2>2
  <2>4. Flaky!Nth(all, k) = i
    BY <1>5, <2>1, <2>2, <2>3, NthIsRank
  <2>5. k \in 1..Cardinality(all)
    BY <1>6
  <2>6. Flaky!Finished(runs)[k] = runs[i]
    BY <1>5, <2>4, <2>5, Filtered
  <2>7. Flaky!Finished(read)[k] = read[i]
    BY <1>2, <1>5, Filtered DEF i
  <2> QED
    BY <1>2, <2>2, <2>6, <2>7
<1> HIDE DEF all, kept
<1> QED
  BY <1>5, <1>6, <1>7, <1>8 DEF read

(* A quotient from the products around it.                                 *)
LEMMA Quotient ==
  ASSUME NEW a \in Nat, NEW b \in Nat \ {0}, NEW q \in Nat
  PROVE  /\ a \div b \in Nat
         /\ a < (q + 1) * b => a \div b \leq q
         /\ q * b \leq a => q \leq a \div b
  OBVIOUS

(* The numerator and the denominator of a rate, between those of none and  *)
(* of all.                                                                 *)
LEMMA Share ==
  ASSUME NEW wh \in Nat, NEW n \in Nat \ {0}, NEW c \in Nat, c \leq n
  PROVE  /\ 2 * (wh * c) + n \in Nat /\ 2 * n \in Nat \ {0}
         /\ 2 * (wh * c) + n < (wh + 1) * (2 * n)
         /\ c = n => wh * (2 * n) \leq 2 * (wh * c) + n
         /\ c = 0 => 2 * (wh * c) + n < (0 + 1) * (2 * n)
<1>1. wh * c \in Nat /\ wh * c \leq wh * n
  OBVIOUS
<1>2. (wh + 1) * (2 * n) = 2 * (wh * n) + 2 * n
  OBVIOUS
<1>3. c = n => wh * (2 * n) = 2 * (wh * c)
  OBVIOUS
<1>4. c = 0 => wh * c = 0
  OBVIOUS
<1> QED
  BY <1>1, <1>2, <1>3, <1>4

(* A rate of one is a positive number.                                     *)
LEMMA WholeType == Flaky!Whole \in Nat \ {0}
  BY DEF Flaky!Whole

(* windowStats: a rate is between none and one, one when every row passed, *)
(* and none when no row did.                                               *)
LEMMA PassRates ==
  ASSUME NEW s \in Seq({"passed", "failed"})
  PROVE  /\ Flaky!PassRate(s) \in Nat /\ Flaky!PassRate(s) \leq Flaky!Whole
         /\ (s # <<>> /\ \A i \in 1..Len(s) : s[i] = "passed") => Flaky!PassRate(s) = Flaky!Whole
         /\ Flaky!PassRate(s) # 0 => \E i \in 1..Len(s) : s[i] = "passed"
<1>1. CASE s = <<>>
  BY <1>1, WholeType DEF Flaky!PassRate
<1>2. CASE s # <<>>
  <2> DEFINE n == Len(s)
             c == Flaky!Count(s, "passed")
             rate == Flaky!PassRate(s)
             wh == Flaky!Whole
  <2>1. n \in Nat \ {0} /\ c \in 0..n
    BY <1>2, Counts
  <2>2. rate = (2 * (wh * c) + n) \div (2 * n)
    BY <1>2 DEF Flaky!PassRate, Flaky!Rounded
  <2>3. /\ c = n <=> \A i \in 1..n : s[i] = "passed"
        /\ c = 0 <=> \A i \in 1..n : s[i] # "passed"
    BY Counts
  <2>4. wh \in Nat
    BY WholeType
  <2> HIDE DEF n, c, rate, wh
  <2>5. c \in Nat /\ c \leq n
    BY <2>1
  <2> DEFINE a == 2 * (wh * c) + n
             b == 2 * n
  <2>6. /\ a \in Nat /\ b \in Nat \ {0} /\ a < (wh + 1) * b
        /\ c = n => wh * b \leq a
        /\ c = 0 => a < (0 + 1) * b
    BY <2>1, <2>4, <2>5, Share
  <2>7. rate = a \div b
    BY <2>2
  <2> HIDE DEF a, b
  <2>8. rate \in Nat /\ rate \leq wh
    BY <2>4, <2>6, <2>7, Quotient
  <2>9. c = n => wh \leq rate
    BY <2>4, <2>6, <2>7, Quotient
  <2>10. c = 0 => rate \leq 0
    BY <2>6, <2>7, Quotient
  <2>11. c = n => rate = wh
    BY <2>4, <2>8, <2>9
  <2>12. rate # 0 => c # 0
    BY <2>8, <2>10
  <2>13. c # 0 => \E i \in 1..n : s[i] = "passed"
    BY <2>3
  <2> QED
    BY <2>3, <2>8, <2>11, <2>12, <2>13 DEF n, rate, wh
<1> QED
  BY <1>1, <1>2

(* Of rows whose rate is seven tenths or more, more than two in three      *)
(* passed: the rate is rounded to the nearest ten-thousandth.              *)
LEMMA HighRates ==
  ASSUME NEW s \in Seq({"passed", "failed"}),
         10 * Flaky!PassRate(s) \geq 7 * Flaky!Whole
  PROVE  Flaky!MostPassed(s)
<1> DEFINE n == Len(s)
           c == Flaky!Count(s, "passed")
           rate == Flaky!PassRate(s)
<1>1. s # <<>>
  BY DEF Flaky!PassRate, Flaky!Whole
<1>2. n \in Nat \ {0} /\ c \in 0..n
  BY <1>1, Counts
<1>3. rate = (20000 * c + n) \div (2 * n)
  <2>1. 2 * (Flaky!Whole * c) = 20000 * c
    BY <1>2 DEF Flaky!Whole
  <2> QED
    BY <1>1, <2>1 DEF Flaky!PassRate, Flaky!Rounded
<1>4. rate \in Nat /\ 7000 \leq rate
  BY PassRates DEF Flaky!Whole
<1> HIDE DEF n, c, rate
<1>5. rate * (2 * n) \leq 20000 * c + n
  BY <1>2, <1>3
<1>6. 7000 * (2 * n) \leq rate * (2 * n)
  BY <1>2, <1>4
<1>7. 3 * c > 2 * n
  BY <1>2, <1>4, <1>5, <1>6
<1> QED
  BY <1>7 DEF Flaky!MostPassed, n, c

(* countSwitches: rows that are all alike do not switch.                   *)
LEMMA SwitchCounts ==
  ASSUME NEW S, NEW s \in Seq(S)
  PROVE  /\ Flaky!Switches(s) \in Nat
         /\ \A status : (\A i \in 1..Len(s) : s[i] = status) => Flaky!Switches(s) = 0
<1> DEFINE turns == {i \in 2..Len(s) : s[i] # s[i - 1]}
<1>1. Flaky!Switches(s) = Cardinality(turns)
  BY FlakyCardinality DEF Flaky!Switches
<1>2. turns \in SUBSET (2..Len(s)) /\ Len(s) \in Nat
  OBVIOUS
<1>3. IsFiniteSet(2..Len(s))
  BY <1>2, FS_Interval
<1>4. IsFiniteSet(turns)
  BY <1>2, <1>3, FS_Subset
<1>5. Cardinality(turns) \in Nat
  BY <1>4, FS_CardinalityType
<1>6. ASSUME NEW status, \A i \in 1..Len(s) : s[i] = status
      PROVE  turns = {}
  <2>1. \A i \in 2..Len(s) : i \in 1..Len(s) /\ i - 1 \in 1..Len(s)
    BY <1>2
  <2> QED
    BY <1>6, <2>1
<1>7. Cardinality({}) = 0
  BY FS_EmptySet
<1> HIDE DEF turns
<1> QED
  BY <1>1, <1>5, <1>6, <1>7

(* The distance between two rates is a rate.                               *)
LEMMA Gap ==
  ASSUME NEW p \in Nat, NEW q \in Nat, NEW wh \in Nat, p \leq wh, q \leq wh
  PROVE  /\ Flaky!Abs(p - q) \in Nat /\ Flaky!Abs(p - q) \leq wh
         /\ p = q => Flaky!Abs(p - q) = 0
<1>1. CASE p - q < 0
  <2>1. Flaky!Abs(p - q) = q - p
    BY <1>1 DEF Flaky!Abs
  <2> QED
    BY <1>1, <2>1
<1>2. CASE ~(p - q < 0)
  <2>1. Flaky!Abs(p - q) = p - q
    BY <1>2 DEF Flaky!Abs
  <2> QED
    BY <1>2, <2>1
<1> QED
  BY <1>1, <1>2

(* The disagreement is a rate, and none where nothing failed.              *)
LEMMA Disagreements ==
  ASSUME NEW recent \in Seq({"passed", "failed"}), NEW baseline \in Seq({"passed", "failed"})
  PROVE  /\ Flaky!Disagreement(recent, baseline) \in Nat
         /\ Flaky!Disagreement(recent, baseline) \leq Flaky!Whole
         /\ /\ Flaky!PassRate(recent) = Flaky!Whole
            /\ Len(baseline) \geq 3 => Flaky!PassRate(baseline) = Flaky!Whole
            => Flaky!Disagreement(recent, baseline) = 0
<1> DEFINE p == Flaky!PassRate(recent)
           q == Flaky!PassRate(baseline)
           wh == Flaky!Whole
<1>1. p \in Nat /\ q \in Nat /\ wh \in Nat /\ p \leq wh /\ q \leq wh
  BY PassRates, WholeType
<1>2. CASE Len(baseline) \geq 3
  <2>1. Flaky!Disagreement(recent, baseline) = Flaky!Abs(p - q)
    BY <1>2 DEF Flaky!Disagreement
  <2> HIDE DEF p, q, wh
  <2>2. /\ Flaky!Abs(p - q) \in Nat /\ Flaky!Abs(p - q) \leq wh
        /\ p = q => Flaky!Abs(p - q) = 0
    BY <1>1, Gap
  <2> QED
    BY <1>2, <2>1, <2>2 DEF p, q, wh
<1>3. CASE ~(Len(baseline) \geq 3)
  <2>1. Flaky!Disagreement(recent, baseline) = wh - p
    BY <1>3 DEF Flaky!Disagreement
  <2> HIDE DEF p, q, wh
  <2>2. wh - p \in Nat /\ wh - p \leq wh /\ (p = wh => wh - p = 0)
    BY <1>1
  <2> QED
    BY <2>1, <2>2 DEF p, wh
<1> QED
  BY <1>2, <1>3

(* The score as a function of its three signals and the number of turns.   *)
Weighted(wh, t, D, W, F) ==
  Flaky!Rounded(400 * D * t + wh * (300 * W + 150 * F * t), wh * t)

(* The sum of the three signals, rounded: without a switch and with half a *)
(* late failure at most it stays at 55.                                    *)
LEMMA Weights ==
  ASSUME NEW wh \in Nat \ {0}, NEW t \in Nat \ {0}, NEW D \in Nat, D \leq wh,
         NEW W \in Nat, NEW F \in 0..2
  PROVE  /\ Weighted(wh, t, D, W, F) \in Nat
         /\ W = 0 /\ F \leq 1 => Weighted(wh, t, D, W, F) \leq 550
         /\ W = 0 /\ F = 0 /\ D = 0 => Weighted(wh, t, D, W, F) = 0
<1> DEFINE u == wh * t
           x == D * t
           y == F * u
           z == wh * W
           a == 2 * (400 * D * t + wh * (300 * W + 150 * F * t)) + wh * t
           b == 2 * (wh * t)
<1>1. u \in Nat \ {0}
  OBVIOUS
<1>2. x \in Nat /\ x \leq u /\ (D = 0 => x = 0)
  OBVIOUS
<1>3. y \in Nat /\ (F \leq 1 => y \leq u) /\ (F = 0 => y = 0)
  <2> HIDE DEF u
  <2> QED
    BY <1>1
<1>4. z \in Nat /\ (W = 0 => z = 0)
  OBVIOUS
<1>5. a = 800 * x + 600 * z + 300 * y + u
  OBVIOUS
<1>6. b = 2 * u
  OBVIOUS
<1>7. Weighted(wh, t, D, W, F) = a \div b
  BY DEF Weighted, Flaky!Rounded
<1> HIDE DEF u, x, y, z, a, b
<1>8. a \in Nat /\ b \in Nat \ {0}
  BY <1>1, <1>2, <1>3, <1>4, <1>5, <1>6
<1>9. W = 0 /\ F \leq 1 => a < (550 + 1) * b
  BY <1>1, <1>2, <1>3, <1>4, <1>5, <1>6
<1>10. W = 0 /\ F = 0 /\ D = 0 => a < (0 + 1) * b
  BY <1>1, <1>2, <1>3, <1>4, <1>5, <1>6
<1>11. a \div b \in Nat
  BY <1>8, Quotient
<1>12. W = 0 /\ F \leq 1 => a \div b \leq 550
  BY <1>8, <1>9, Quotient
<1>13. W = 0 /\ F = 0 /\ D = 0 => a \div b \leq 0
  BY <1>8, <1>10, Quotient
<1> QED
  BY <1>7, <1>11, <1>12, <1>13

(* Recent runs that all went one way score 55 at most, and nothing when    *)
(* nothing failed.                                                         *)
LEMMA Scores ==
  ASSUME NEW recent \in Seq({"passed", "failed"}), NEW baseline \in Seq({"passed", "failed"}),
         recent # <<>>
  PROVE  /\ Flaky!Score(recent, baseline) \in Nat
         /\ (\A i \in 1..Len(recent) : recent[i] = "passed") => Flaky!Score(recent, baseline) \leq 550
         /\ (\A i \in 1..Len(recent) : recent[i] = "failed") => Flaky!Score(recent, baseline) \leq 550
         /\ (\A i \in 1..Len(recent) : recent[i] = "passed")
              /\ (\A i \in 1..Len(baseline) : baseline[i] = "passed")
              => Flaky!Score(recent, baseline) = 0
<1> DEFINE t == IF Len(recent) > 1 THEN Len(recent) - 1 ELSE 1
           D == Flaky!Disagreement(recent, baseline)
           W == Flaky!Switches(recent)
           F == Flaky!LateFailure(recent)
           passes == \A i \in 1..Len(recent) : recent[i] = "passed"
           fails == \A i \in 1..Len(recent) : recent[i] = "failed"
           passed0 == \A i \in 1..Len(baseline) : baseline[i] = "passed"
<1>1. Len(recent) \in Nat \ {0} /\ 1 \in 1..Len(recent)
  OBVIOUS
<1>2. t \in Nat \ {0}
  <2> DEFINE n == Len(recent)
  <2>1. n \in Nat \ {0}
    BY <1>1
  <2> HIDE DEF n
  <2>2. CASE n > 1
    <3>1. t = n - 1
      BY <2>2 DEF n
    <3> HIDE DEF t
    <3> QED
      BY <2>1, <2>2, <3>1
  <2>3. CASE ~(n > 1)
    BY <2>3 DEF n
  <2> QED
    BY <2>2, <2>3
<1>3. D \in Nat /\ D \leq Flaky!Whole /\ (passes /\ passed0 => D = 0)
  <2>1. passes => Flaky!PassRate(recent) = Flaky!Whole
    BY PassRates
  <2>2. passed0 /\ Len(baseline) \geq 3 => Flaky!PassRate(baseline) = Flaky!Whole
    BY PassRates
  <2>3. /\ D \in Nat /\ D \leq Flaky!Whole
        /\ Flaky!PassRate(recent) = Flaky!Whole
             /\ (Len(baseline) \geq 3 => Flaky!PassRate(baseline) = Flaky!Whole) => D = 0
    BY Disagreements
  <2> HIDE DEF D, passes, passed0
  <2> QED
    BY <2>1, <2>2, <2>3
<1>4. W \in Nat /\ (passes \/ fails => W = 0)
  BY SwitchCounts
<1>5. F \in 0..2 /\ (passes => F = 0) /\ (fails => F \leq 1)
  <2>1. F = IF recent[1] # "failed" THEN 0
            ELSE IF Len(recent) \geq 4 /\ \A i \in 2..4 : recent[i] = "passed" THEN 2 ELSE 1
    BY DEF Flaky!LateFailure
  <2>2. passes => F = 0
    BY <1>1, <2>1
  <2>3. fails /\ Len(recent) \geq 4 => recent[2] = "failed"
    BY <1>1
  <2>4. fails => F = 1
    BY <1>1, <2>1, <2>3
  <2> QED
    BY <2>1, <2>2, <2>4
<1>6. Flaky!Score(recent, baseline) = Weighted(Flaky!Whole, t, D, W, F)
  BY DEF Flaky!Score, Weighted
<1> HIDE DEF t, D, W, F, passes, fails, passed0
<1>7. /\ Flaky!Score(recent, baseline) \in Nat
      /\ W = 0 /\ F \leq 1 => Flaky!Score(recent, baseline) \leq 550
      /\ W = 0 /\ F = 0 /\ D = 0 => Flaky!Score(recent, baseline) = 0
  <2>1. D \in Nat /\ D \leq Flaky!Whole /\ W \in Nat /\ F \in 0..2
    BY <1>3, <1>4, <1>5
  <2> DEFINE wh == Flaky!Whole
             score == Weighted(wh, t, D, W, F)
  <2>2. wh \in Nat \ {0}
    BY WholeType
  <2>3. Flaky!Score(recent, baseline) = score
    BY <1>6
  <2>4. D \leq wh
    BY <2>1
  <2> HIDE DEF wh
  <2>5. score \in Nat
    BY <1>2, <2>1, <2>2, <2>4, Weights
  <2>6. W = 0 /\ F \leq 1 => score \leq 550
    BY <1>2, <2>1, <2>2, <2>4, Weights
  <2>7. W = 0 /\ F = 0 /\ D = 0 => score = 0
    BY <1>2, <2>1, <2>2, <2>4, Weights
  <2> HIDE DEF score
  <2> QED
    BY <2>3, <2>5, <2>6, <2>7
<1>8. F = 0 => F \leq 1
  OBVIOUS
<1>9. /\ passes => Flaky!Score(recent, baseline) \leq 550
      /\ fails => Flaky!Score(recent, baseline) \leq 550
      /\ passes /\ passed0 => Flaky!Score(recent, baseline) = 0
  BY <1>3, <1>4, <1>5, <1>7, <1>8
<1> QED
  BY <1>7, <1>9 DEF passes, fails, passed0

(* What each word says of the two windows.                                 *)
LEMMA Verdicts ==
  ASSUME NEW recent \in Seq({"passed", "failed"}), NEW baseline \in Seq({"passed", "failed"}),
         recent # <<>>
  PROVE  /\ Flaky!Verdict(recent, baseline) = "very_flaky"
              => /\ \E i \in 1..Len(recent) : recent[i] = "passed"
                 /\ \E i \in 1..Len(recent) : recent[i] = "failed"
         /\ Flaky!Verdict(recent, baseline) = "broken" => Flaky!Broken(recent, baseline)
         /\ (\A i \in 1..Len(recent) : recent[i] = "passed")
              /\ (\A i \in 1..Len(baseline) : baseline[i] = "passed")
              => Flaky!Verdict(recent, baseline) = "stable"
<1> DEFINE score == Flaky!Score(recent, baseline)
           verdict == Flaky!Verdict(recent, baseline)
           passes == \A i \in 1..Len(recent) : recent[i] = "passed"
           fails == \A i \in 1..Len(recent) : recent[i] = "failed"
           passed0 == \A i \in 1..Len(baseline) : baseline[i] = "passed"
<1>1. /\ score \in Nat
      /\ passes \/ fails => score \leq 550
      /\ passes /\ passed0 => score = 0
  BY Scores
<1>2. Flaky!Broken(recent, baseline) => verdict = "broken"
  BY DEF Flaky!Verdict
<1>3. ~Flaky!Broken(recent, baseline)
        => verdict = CASE score \geq 750 -> "very_flaky"
                       [] score \in 500..749 -> "flaky"
                       [] score \in 250..499 -> "possibly_flaky"
                       [] OTHER -> "stable"
  BY DEF Flaky!Verdict
<1>4. Len(recent) \in Nat \ {0} /\ \A i \in 1..Len(recent) : recent[i] \in {"passed", "failed"}
  OBVIOUS
<1>5. Flaky!Broken(recent, baseline) => Flaky!Count(recent, "passed") = 0
  BY DEF Flaky!Broken
<1>6. passes => Flaky!Count(recent, "passed") = Len(recent)
  BY Counts
<1>7. passes => ~Flaky!Broken(recent, baseline)
  BY <1>4, <1>5, <1>6
<1> HIDE DEF score, verdict, passes, fails, passed0
<1>8. ~Flaky!Broken(recent, baseline) => verdict \in {"very_flaky", "flaky", "possibly_flaky", "stable"}
  BY <1>1, <1>3
<1>9. ~Flaky!Broken(recent, baseline) /\ verdict = "very_flaky" => score \geq 750
  BY <1>1, <1>3
<1>10. ~Flaky!Broken(recent, baseline) /\ score = 0 => verdict = "stable"
  BY <1>3
<1>11. verdict = "broken" => Flaky!Broken(recent, baseline)
  BY <1>8
<1>12. verdict = "very_flaky" => ~Flaky!Broken(recent, baseline)
  BY <1>2
<1>13. verdict = "very_flaky" => ~passes /\ ~fails
  BY <1>1, <1>9, <1>12
<1>14. passes /\ passed0 => verdict = "stable"
  BY <1>1, <1>7, <1>10
<1>15. /\ ~passes => \E i \in 1..Len(recent) : recent[i] = "failed"
       /\ ~fails => \E i \in 1..Len(recent) : recent[i] = "passed"
  BY <1>4 DEF passes, fails
<1> QED
  BY <1>11, <1>13, <1>14, <1>15 DEF verdict, passes, passed0

(* The rows are a history of statuses, newest first.                       *)
FlakyInv == rows \in Seq(Flaky!Statuses)

(* No row is stored at first.                                              *)
LEMMA FlakyInvInit == Flaky!Init => FlakyInv
  BY DEF Flaky!Init, FlakyInv

(* A step keeps the rows a history of statuses.                            *)
LEMMA FlakyInvNext == FlakyInv /\ [Flaky!Next]_(Flaky!vars) => FlakyInv'
<1> SUFFICES ASSUME FlakyInv, [Flaky!Next]_(Flaky!vars) PROVE FlakyInv'
  OBVIOUS
<1>1. ASSUME NEW status \in Flaky!Statuses, Flaky!Run(status) PROVE FlakyInv'
  <2>1. rows' = <<status>> \o rows
    BY <1>1 DEF Flaky!Run
  <2>2. <<status>> \in Seq(Flaky!Statuses)
    BY <1>1
  <2> QED
    BY <2>1, <2>2 DEF FlakyInv
<1>2. ASSUME NEW w \in Windows, Flaky!Report(w) PROVE FlakyInv'
  BY <1>2 DEF FlakyInv, Flaky!Report
<1>3. CASE UNCHANGED Flaky!vars
  BY <1>3 DEF FlakyInv, Flaky!vars
<1> QED
  BY <1>1, <1>2, <1>3 DEF Flaky!Next

(* The rows that are read, and what is left of them without the noise.     *)
LEMMA WindowsRead ==
  ASSUME FlakyInv, NEW w \in Windows
  PROVE  LET read == Flaky!Slice(rows, 1, Flaky!Take(w))
         IN  /\ Flaky!Take(w) \in Nat /\ Flaky!Take(w) = 2 * (w.recent + w.baseline)
             /\ w.recent \in Nat \ {0} /\ w.baseline \in Nat
             /\ MinRuns \in Nat \ {0} /\ MinRuns \leq w.recent + w.baseline
             /\ read \in Seq(Flaky!Statuses)
             /\ Flaky!Finished(read) \in Seq({"passed", "failed"})
<1>1. w \in [recent : Nat \ {0}, baseline : Nat] /\ MinRuns \leq w.recent + w.baseline
  BY WindowAssumption
<1>2. w.recent \in Nat \ {0} /\ w.baseline \in Nat
  BY <1>1
<1>3. Flaky!Take(w) = 2 * (w.recent + w.baseline)
  BY DEF Flaky!Take
<1>4. Flaky!Take(w) \in Nat
  BY <1>2, <1>3
<1>5. Flaky!Slice(rows, 1, Flaky!Take(w)) \in Seq(Flaky!Statuses)
  BY <1>4, Firsts, Zenon DEF FlakyInv
<1>6. Flaky!Finished(Flaky!Slice(rows, 1, Flaky!Take(w))) \in Seq({"passed", "failed"})
  BY <1>5, Filtered
<1>7. MinRuns \in Nat \ {0}
  BY WindowAssumption
<1> QED
  BY <1>1, <1>2, <1>3, <1>4, <1>5, <1>6, <1>7

(* A report says what its word promises.                                   *)
LEMMA ReportExplained ==
  ASSUME FlakyInv, NEW w \in Windows, Flaky!Report(w)
  PROVE  LET finished == Flaky!Finished(Flaky!Slice(rows, 1, Flaky!Take(w)))
             recent == Flaky!Recent(w, finished)
             baseline == Flaky!Baseline(w, finished)
         IN  /\ report' = "very_flaky" => {"passed", "failed"} \subseteq {recent[i] : i \in DOMAIN recent}
             /\ report' = "broken" =>
                  (\A i \in 1..MinRuns : finished[i] = "failed") /\ Flaky!MostPassed(baseline)
             /\ Len(recent) \geq MinRuns /\ Flaky!AllOf(recent, "failed") /\ Flaky!AllOf(baseline, "passed")
                  => report' = "broken"
             /\ Flaky!Count(finished, "failed") = 0 => report' \in {"stable", "insufficient_data"}
<1> DEFINE read == Flaky!Slice(rows, 1, Flaky!Take(w))
           finished == Flaky!Finished(read)
           recent == Flaky!Recent(w, finished)
           baseline == Flaky!Baseline(w, finished)
           r == w.recent
           b == w.baseline
<1> SUFFICES
      /\ report' = "very_flaky" => {"passed", "failed"} \subseteq {recent[i] : i \in DOMAIN recent}
      /\ report' = "broken" =>
           (\A i \in 1..MinRuns : finished[i] = "failed") /\ Flaky!MostPassed(baseline)
      /\ Len(recent) \geq MinRuns /\ Flaky!AllOf(recent, "failed") /\ Flaky!AllOf(baseline, "passed")
           => report' = "broken"
      /\ Flaky!Count(finished, "failed") = 0 => report' \in {"stable", "insufficient_data"}
  OBVIOUS
<1>1. /\ r \in Nat \ {0} /\ b \in Nat /\ MinRuns \in Nat \ {0}
      /\ finished \in Seq({"passed", "failed"})
  BY WindowsRead
<1>2. report' = Flaky!Analyze(w, read)
  BY DEF Flaky!Report
<1>3. report' = IF Len(finished) < MinRuns THEN "insufficient_data" ELSE Flaky!Verdict(recent, baseline)
  BY <1>2 DEF Flaky!Analyze
<1>4. recent = Flaky!Slice(finished, 1, r) /\ baseline = Flaky!Slice(finished, r + 1, r + b)
  BY DEF Flaky!Recent, Flaky!Baseline
<1> HIDE DEF read, finished, recent, baseline, r, b
<1>5. /\ recent \in Seq({"passed", "failed"})
      /\ r \leq Len(finished) => Len(recent) = r
      /\ ~(r \leq Len(finished)) => Len(recent) = Len(finished)
      /\ Len(recent) \in Nat /\ Len(recent) \leq r
      /\ \A i \in 1..Len(recent) : i \in 1..Len(finished) /\ recent[i] = finished[i]
  <2>1. r \in Nat
    BY <1>1
  <2>2. recent = Flaky!Slice(finished, 1, r)
    BY <1>4
  <2>3. finished \in Seq({"passed", "failed"})
    BY <1>1
  <2>4. /\ Flaky!Slice(finished, 1, r) \in Seq({"passed", "failed"})
        /\ r \leq Len(finished) => Len(Flaky!Slice(finished, 1, r)) = r
        /\ ~(r \leq Len(finished)) => Len(Flaky!Slice(finished, 1, r)) = Len(finished)
        /\ Len(Flaky!Slice(finished, 1, r)) \in Nat /\ Len(Flaky!Slice(finished, 1, r)) \leq r
        /\ \A i \in 1..Len(Flaky!Slice(finished, 1, r)) :
             i \in 1..Len(finished) /\ Flaky!Slice(finished, 1, r)[i] = finished[i]
    <3>1. Flaky!Slice(finished, 1, r) \in Seq({"passed", "failed"})
      BY <2>1, <2>3, Firsts, Zenon
    <3>2. /\ r \leq Len(finished) => Len(Flaky!Slice(finished, 1, r)) = r
          /\ ~(r \leq Len(finished)) => Len(Flaky!Slice(finished, 1, r)) = Len(finished)
      BY <2>1, <2>3, Firsts, Zenon
    <3>3. Len(Flaky!Slice(finished, 1, r)) \in Nat /\ Len(Flaky!Slice(finished, 1, r)) \leq r
      BY <2>1, <2>3, Firsts, Zenon
    <3>4. ASSUME NEW i \in 1..Len(Flaky!Slice(finished, 1, r))
          PROVE  i \in 1..Len(finished) /\ Flaky!Slice(finished, 1, r)[i] = finished[i]
      BY <2>1, <2>3, Firsts
    <3> QED
      BY <3>1, <3>2, <3>3, <3>4
  <2> QED
    BY <2>2, <2>4, Zenon
<1>6. /\ baseline \in Seq({"passed", "failed"})
      /\ \A i \in 1..Len(baseline) : r + i \in 1..Len(finished) /\ baseline[i] = finished[r + i]
  <2>1. r \in Nat /\ r + b \in Nat
    BY <1>1
  <2>2. baseline = Flaky!Slice(finished, r + 1, r + b)
    BY <1>4
  <2>3. finished \in Seq({"passed", "failed"})
    BY <1>1
  <2>4. /\ Flaky!Slice(finished, r + 1, r + b) \in Seq({"passed", "failed"})
        /\ \A i \in 1..Len(Flaky!Slice(finished, r + 1, r + b)) :
             /\ r + i \in 1..Len(finished)
             /\ Flaky!Slice(finished, r + 1, r + b)[i] = finished[r + i]
    BY <2>1, <2>3, Rests, Zenon
  <2> QED
    BY <2>2, <2>4, Zenon
<1>7. Len(finished) \in Nat /\ DOMAIN finished = 1..Len(finished) /\ DOMAIN recent = 1..Len(recent)
  BY <1>1, <1>5
<1>8. CASE Len(finished) < MinRuns
  <2>1. report' = "insufficient_data"
    BY <1>3, <1>8
  <2>2. ~(Len(recent) \geq MinRuns)
    <3> DEFINE n == Len(finished)
               m == Len(recent)
    <3>1. /\ n \in Nat /\ m \in Nat /\ n < MinRuns
          /\ r \leq n => m = r
          /\ ~(r \leq n) => m = n
      BY <1>5, <1>7, <1>8
    <3> HIDE DEF n, m
    <3>2. ~(m \geq MinRuns)
      BY <1>1, <3>1
    <3> QED
      BY <3>2 DEF m
  <2> QED
    BY <2>1, <2>2
<1>9. CASE ~(Len(finished) < MinRuns)
  <2>1. report' = Flaky!Verdict(recent, baseline)
    BY <1>3, <1>9
  <2>2. recent # <<>> /\ Len(recent) \in Nat /\ Len(recent) \leq r
    <3> DEFINE n == Len(finished)
               m == Len(recent)
    <3>1. n \in Nat /\ (r \leq n => m = r) /\ (~(r \leq n) => m = n) /\ ~(n < MinRuns)
      BY <1>5, <1>7, <1>9
    <3> HIDE DEF n, m
    <3>2. m # 0
      BY <1>1, <3>1
    <3> QED
      BY <1>5, <3>2 DEF m
  <2>3. ASSUME report' = "very_flaky"
        PROVE  {"passed", "failed"} \subseteq {recent[i] : i \in DOMAIN recent}
    <3>1. /\ \E i \in 1..Len(recent) : recent[i] = "passed"
          /\ \E i \in 1..Len(recent) : recent[i] = "failed"
      BY <1>5, <1>6, <2>1, <2>2, <2>3, Verdicts, Zenon
    <3> QED
      BY <1>7, <3>1
  <2>4. ASSUME report' = "broken"
        PROVE  (\A i \in 1..MinRuns : finished[i] = "failed") /\ Flaky!MostPassed(baseline)
    <3>1. Flaky!Broken(recent, baseline)
      BY <1>5, <1>6, <2>1, <2>2, <2>4, Verdicts
    <3>2. /\ Flaky!Count(recent, "failed") \geq MinRuns /\ Flaky!Count(recent, "passed") = 0
          /\ 10 * Flaky!PassRate(baseline) \geq 7 * Flaky!Whole
      BY <3>1 DEF Flaky!Broken
    <3>3. Flaky!Count(recent, "failed") \in 0..Len(recent)
      BY <1>5, Counts
    <3>4. MinRuns \leq Len(recent)
      BY <1>1, <2>2, <3>2, <3>3
    <3>5. \A i \in 1..Len(recent) : recent[i] # "passed"
      BY <1>5, <3>2, Counts
    <3>6. \A i \in 1..Len(recent) : recent[i] = "failed"
      BY <1>5, <3>5
    <3>7. \A i \in 1..MinRuns : i \in 1..Len(recent)
      BY <1>1, <2>2, <3>4
    <3>8. Flaky!MostPassed(baseline)
      BY <1>6, <3>2, HighRates
    <3>9. \A j \in 1..MinRuns : finished[j] = "failed"
      BY <1>5, <3>6, <3>7
    <3> QED
      BY <3>8, <3>9
  <2>5. ASSUME Len(recent) \geq MinRuns, Flaky!AllOf(recent, "failed"),
               Flaky!AllOf(baseline, "passed")
        PROVE  report' = "broken"
    <3>1. /\ Flaky!Count(recent, "failed") = Len(recent)
          /\ Flaky!Count(recent, "passed") = 0
      <4>1. \A i \in 1..Len(recent) : recent[i] = "failed" /\ recent[i] # "passed"
        BY <1>7, <2>5 DEF Flaky!AllOf
      <4> QED
        BY <1>5, <4>1, Counts
    <3>2. DOMAIN baseline = 1..Len(baseline)
      BY <1>6
    <3>3. Flaky!PassRate(baseline) = Flaky!Whole
      BY <1>6, <2>5, <3>2, PassRates DEF Flaky!AllOf
    <3>4. Flaky!Broken(recent, baseline)
      BY <2>5, <3>1, <3>3, WholeType DEF Flaky!Broken
    <3> QED
      BY <2>1, <3>4 DEF Flaky!Verdict
  <2>6. ASSUME Flaky!Count(finished, "failed") = 0 PROVE report' = "stable"
    <3>1. \A i \in 1..Len(finished) : finished[i] # "failed"
      BY <1>1, <2>6, Counts
    <3>2. \A i \in 1..Len(finished) : finished[i] = "passed"
      BY <1>1, <3>1
    <3>3. /\ \A i \in 1..Len(recent) : recent[i] = "passed"
          /\ \A i \in 1..Len(baseline) : baseline[i] = "passed"
      BY <1>5, <1>6, <3>2
    <3> QED
      BY <1>5, <1>6, <2>1, <2>2, <3>3, Verdicts
  <2> QED
    BY <2>3, <2>4, <2>5, <2>6
<1> QED
  BY <1>8, <1>9

(* Sequences that begin alike have the same slices in that beginning.      *)
LEMMA SameFirsts ==
  ASSUME NEW S, NEW s \in Seq(S), NEW t \in Seq(S), NEW from \in Nat \ {0}, NEW to \in Nat,
         to \leq Len(s), to \leq Len(t), \A i \in 1..to : s[i] = t[i]
  PROVE  Flaky!Slice(s, from, to) = Flaky!Slice(t, from, to)
<1> DEFINE a == Flaky!Slice(s, from, to)
           b == Flaky!Slice(t, from, to)
           n == IF from \leq to THEN to - from + 1 ELSE 0
<1>1. a \in Seq(S) /\ Len(a) = n /\ \A i \in 1..Len(a) : a[i] = s[from + i - 1]
  BY Sliced
<1>2. b \in Seq(S) /\ Len(b) = n /\ \A i \in 1..Len(b) : b[i] = t[from + i - 1]
  BY Sliced
<1>3. \A i \in 1..n : from + i - 1 \in 1..to
  OBVIOUS
<1> HIDE DEF a, b, n
<1>4. \A i \in 1..Len(a) : a[i] = b[i]
  BY <1>1, <1>2, <1>3
<1>5. a = b
  BY <1>1, <1>2, <1>4, SeqEqual
<1> QED
  BY <1>5 DEF a, b

(* A report of rows with headroom is the report of the whole history.      *)
LEMMA ReportFull ==
  ASSUME FlakyInv, NEW w \in Windows, Flaky!Report(w),
         Flaky!Count(Flaky!Slice(rows, 1, Flaky!Take(w)), "noise") \leq w.recent + w.baseline
  PROVE  report' = Flaky!Analyze(w, rows)
<1> DEFINE read == Flaky!Slice(rows, 1, Flaky!Take(w))
           some == Flaky!Finished(read)
           all == Flaky!Finished(rows)
           take == Flaky!Take(w)
           r == w.recent
           b == w.baseline
<1>1. /\ take \in Nat /\ take = 2 * (r + b) /\ r \in Nat \ {0} /\ b \in Nat
      /\ MinRuns \in Nat \ {0} /\ MinRuns \leq r + b
      /\ some \in Seq({"passed", "failed"})
  BY WindowsRead
<1>2. report' = Flaky!Analyze(w, read)
  BY DEF Flaky!Report
<1>3. rows \in Seq(Flaky!Statuses) /\ Len(rows) \in Nat
  BY DEF FlakyInv
<1>4. all \in Seq({"passed", "failed"})
  BY <1>3, Filtered
<1>5. Flaky!Count(read, "noise") \leq r + b
  OBVIOUS
<1> HIDE DEF take, some, all, r, b
<1>6. CASE take \geq Len(rows)
  <2>1. read = SubSeq(rows, 1, Len(rows))
    <3>1. (IF take > Len(rows) THEN Len(rows) ELSE take) = Len(rows)
      BY <1>1, <1>3, <1>6
    <3> QED
      BY <3>1 DEF Flaky!Slice, take
  <2>2. read = rows
    BY <1>3, <2>1, SubSeqFull
  <2> QED
    BY <1>2, <2>2
<1>7. CASE ~(take \geq Len(rows))
  <2>1. take \leq Len(rows) /\ take \in 0..Len(rows)
    BY <1>1, <1>3, <1>7
  <2>2. read = SubSeq(rows, 1, take)
    <3>1. ~(take > Len(rows))
      BY <1>1, <1>3, <2>1
    <3> QED
      BY <3>1 DEF Flaky!Slice, take
  <2> HIDE DEF read
  <2>3. /\ Len(some) \leq Len(all) /\ Len(some) = take - Flaky!Count(read, "noise")
        /\ \A k \in 1..Len(some) : some[k] = all[k]
    BY <1>3, <2>1, <2>2, PrefixFiltered DEF some, all
  <2>4. Flaky!Count(read, "noise") \in Nat
    <3>1. read \in Seq(Flaky!Statuses)
      BY <1>1, WindowsRead DEF read
    <3>2. Flaky!Count(read, "noise") \in 0..Len(read) /\ Len(read) \in Nat
      BY <3>1, Counts
    <3> QED
      BY <3>2
  <2>5. Len(some) \in Nat /\ Len(all) \in Nat /\ r + b \leq Len(some) /\ r + b \leq Len(all)
    <3>1. Len(some) \in Nat /\ Len(all) \in Nat
      BY <1>1, <1>4
    <3>2. r + b \leq take - Flaky!Count(read, "noise")
      BY <1>1, <1>5, <2>4
    <3> QED
      BY <1>1, <2>3, <3>1, <3>2
  <2>6. \A to \in Nat : to \leq r + b
          => to \leq Len(some) /\ to \leq Len(all) /\ \A i \in 1..to : some[i] = all[i]
    BY <1>1, <2>3, <2>5
  <2>7. Flaky!Recent(w, some) = Flaky!Recent(w, all)
    <3>1. r \in Nat /\ 1 \in Nat \ {0} /\ r \leq r + b
      BY <1>1
    <3>2. Flaky!Slice(some, 1, r) = Flaky!Slice(all, 1, r)
      BY <1>1, <1>4, <2>6, <3>1, SameFirsts
    <3> QED
      BY <3>2 DEF Flaky!Recent, r
  <2>8. Flaky!Baseline(w, some) = Flaky!Baseline(w, all)
    <3>1. r + 1 \in Nat \ {0} /\ r + b \in Nat /\ r + b \leq r + b
      BY <1>1
    <3>2. Flaky!Slice(some, r + 1, r + b) = Flaky!Slice(all, r + 1, r + b)
      BY <1>1, <1>4, <2>6, <3>1, SameFirsts
    <3> QED
      BY <3>2 DEF Flaky!Baseline, r, b
  <2>9. ~(Len(some) < MinRuns) /\ ~(Len(all) < MinRuns)
    BY <1>1, <2>5
  <2>10. Flaky!Analyze(w, read) = Flaky!Verdict(Flaky!Recent(w, some), Flaky!Baseline(w, some))
    BY <2>9 DEF Flaky!Analyze, some
  <2>11. Flaky!Analyze(w, rows) = Flaky!Verdict(Flaky!Recent(w, all), Flaky!Baseline(w, all))
    BY <2>9 DEF Flaky!Analyze, all
  <2> QED
    BY <1>2, <2>7, <2>8, <2>10, <2>11
<1> QED
  BY <1>6, <1>7

(* Flakiness: very flaky was seen to pass and to fail, broken failed       *)
(* MinRuns times in a row after it had passed, and what never failed is    *)
(* stable, for every history and every pair of windows.                    *)
THEOREM VerdictsExplained == Flaky!Spec => VerdictExplained
<1> DEFINE Explained ==
      \A w \in Windows : Flaky!Report(w) =>
        LET finished == Flaky!Finished(Flaky!Slice(rows, 1, Flaky!Take(w)))
            recent == Flaky!Recent(w, finished)
            baseline == Flaky!Baseline(w, finished)
        IN  /\ report' = "very_flaky" => {"passed", "failed"} \subseteq {recent[i] : i \in DOMAIN recent}
            /\ report' = "broken" =>
                 (\A i \in 1..MinRuns : finished[i] = "failed") /\ Flaky!MostPassed(baseline)
            /\ Len(recent) \geq MinRuns /\ Flaky!AllOf(recent, "failed") /\ Flaky!AllOf(baseline, "passed")
                 => report' = "broken"
            /\ Flaky!Count(finished, "failed") = 0 => report' \in {"stable", "insufficient_data"}
<1>1. FlakyInv => Explained
  BY ReportExplained
<1>2. FlakyInv => [Explained]_(Flaky!vars)
  BY <1>1
<1>3. VerdictExplained <=> [][Explained]_(Flaky!vars)
  BY DEF VerdictExplained, Flaky!VerdictExplained
<1> HIDE DEF Explained
<1> QED
  BY <1>2, <1>3, FlakyInvInit, FlakyInvNext, PTL DEF Flaky!Spec

(* Flakiness: reading twice the windows is enough, for every history and   *)
(* every pair of windows, as long as half of what is read is not noise.    *)
THEOREM HeadroomIsEnough == Flaky!Spec => HeadroomSuffices
<1> DEFINE Enough ==
      \A w \in Windows :
        LET read == Flaky!Slice(rows, 1, Flaky!Take(w))
        IN  Flaky!Report(w) /\ Flaky!Count(read, "noise") \leq w.recent + w.baseline
              => report' = Flaky!Analyze(w, rows)
<1>1. FlakyInv => Enough
  BY ReportFull
<1>2. FlakyInv => [Enough]_(Flaky!vars)
  BY <1>1
<1>3. HeadroomSuffices <=> [][Enough]_(Flaky!vars)
  BY DEF HeadroomSuffices, Flaky!HeadroomSuffices
<1> HIDE DEF Enough
<1> QED
  BY <1>2, <1>3, FlakyInvInit, FlakyInvNext, PTL DEF Flaky!Spec
=============================================================================
