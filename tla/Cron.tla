-------------------------------- MODULE Cron --------------------------------
(***************************************************************************)
(* utils/cron.js: an expression of five fields is parsed into five sets,   *)
(* and the next instant it fires at is looked for minute by minute, on the *)
(* wall clock of a time zone, for as long as Search minutes.  Instants are *)
(* whole minutes.                                                          *)
(*                                                                         *)
(* The calendar is a constant: Wall[z][t] is what the clock of zone z      *)
(* shows at minute t, so that months of any length and clocks that are put *)
(* forward and back are all instances.                                     *)
(***************************************************************************)
EXTENDS Integers, Sequences

CONSTANTS
  Lo, Hi,      \* the range of each field (FIELDS)
  Zones,       \* time zones the host knows, UTC among them
  UnknownZone, \* one it does not
  Last,        \* the last minute of the calendar
  Wall,
  Search,      \* how far nextFire looks: 366 days
  Queries      \* [expr, zone, after]: what the callers ask for

Fields == {"minute", "hour", "dom", "month", "dow"}

(* A part of a field, "*" or a range, and its step: 1 when none is given.  *)
(* bare: the part is the text "*" and nothing more.                        *)
Part == [star : BOOLEAN, lo : Int, hi : Int, step : Int, bare : BOOLEAN]

ASSUME RangeAssumption ==
  /\ Lo \in [Fields -> Int] /\ Hi \in [Fields -> Int]
  /\ Last \in Nat /\ Search \in Nat
ASSUME WallAssumption ==
  \A z \in Zones, t \in 0..Last, f \in Fields : Wall[z][t][f] \in Lo[f]..Hi[f]
ASSUME QueryAssumption ==
  /\ UnknownZone \notin Zones
  /\ \A q \in Queries :
       /\ q.zone \in Zones \cup {UnknownZone}
       /\ q.after \in Nat /\ q.after + Search \leq Last
       /\ \A f \in Fields : q.expr[f] \in Seq(Part) /\ q.expr[f] # <<>>
       /\ \A f \in Fields : \A i \in 1..Len(q.expr[f]) :
            q.expr[f][i].bare => q.expr[f][i].star /\ q.expr[f][i].step = 1

VARIABLES
  query,    \* what is asked for
  d,        \* the candidate
  outcome   \* "parse", "walk", "found", "none" or "refused"

vars == <<query, d, outcome>>

-----------------------------------------------------------------------------
From(part, f) == IF part.star THEN Lo[f] ELSE part.lo
To(part, f) == IF part.star THEN Hi[f] ELSE part.hi

(* parseField accepts a part with a positive step that lies in the range.  *)
Accepted(part, f) ==
  /\ part.step > 0
  /\ From(part, f) \geq Lo[f] /\ To(part, f) \leq Hi[f] /\ From(part, f) \leq To(part, f)

(* What the loop of parseField adds for it.                                *)
ValuesOf(part, f) ==
  {v \in From(part, f)..To(part, f) :
    \E k \in 0..(To(part, f) - From(part, f)) : v = From(part, f) + k * part.step}

(* The set of a field.                                                     *)
Parsed(field, f) == UNION {ValuesOf(field[i], f) : i \in 1..Len(field)}

(* parts[2] === '*' and parts[4] === '*'.                                  *)
IsStar(field) == Len(field) = 1 /\ field[1].bare

(* parseCron throws, and so does the formatter of a zone it does not know. *)
Throws(q) ==
  \/ \E f \in Fields : \E i \in 1..Len(q.expr[f]) : ~Accepted(q.expr[f][i], f)
  \/ q.zone = UnknownZone

In(q, f, t) == Wall[q.zone][t][f] \in Parsed(q.expr[f], f)

(* Mutant of DayOk: both restrictions must hold.                           *)
DayBoth(q, t) == In(q, "dom", t) /\ In(q, "dow", t)

DayOk(q, t) ==
  LET domIsStar == IsStar(q.expr["dom"])
      dowIsStar == IsStar(q.expr["dow"])
  IN  \/ domIsStar /\ dowIsStar
      \/ domIsStar /\ ~dowIsStar /\ In(q, "dow", t)
      \/ ~domIsStar /\ dowIsStar /\ In(q, "dom", t)
      \/ ~domIsStar /\ ~dowIsStar /\ (In(q, "dom", t) \/ In(q, "dow", t))

(* matches and matchesInZone.                                              *)
Matches(q, t) ==
  /\ In(q, "minute", t) /\ In(q, "hour", t) /\ In(q, "month", t)
  /\ DayOk(q, t)

-----------------------------------------------------------------------------
Init == query \in Queries /\ d = query.after /\ outcome = "parse"

Parse ==
  /\ outcome = "parse"
  /\ IF Throws(query) THEN outcome' = "refused" /\ UNCHANGED d
                      ELSE outcome' = "walk" /\ d' = query.after + 1
  /\ UNCHANGED query

(* The loop of nextFire and nextFireInZone: it ends at the deadline or at  *)
(* a minute that matches, and goes on from one that does not.              *)
GiveUp ==
  /\ outcome = "walk" /\ d \geq query.after + Search
  /\ outcome' = "none"
  /\ UNCHANGED <<query, d>>

Find ==
  /\ outcome = "walk" /\ d < query.after + Search /\ Matches(query, d)
  /\ outcome' = "found"
  /\ UNCHANGED <<query, d>>

Walk ==
  /\ outcome = "walk" /\ d < query.after + Search /\ ~Matches(query, d)
  /\ d' = d + 1
  /\ UNCHANGED <<query, outcome>>

Next == Parse \/ GiveUp \/ Find \/ Walk

Spec == Init /\ [][Next]_vars

-----------------------------------------------------------------------------
TypeOK ==
  /\ query \in Queries /\ d \in Nat
  /\ outcome \in {"parse", "walk", "found", "none", "refused"}

(* What an expression means, said without the loop and the four cases of   *)
(* its days: a minute is named by a part if it lies on the part's range at *)
(* a whole number of steps from where the range begins; and a day is named *)
(* by either field if both are restricted (the header of cron.js and       *)
(* Vixie's rule), else by both.                                            *)
Names(field, f, v) ==
  \E i \in 1..Len(field) :
    LET part == field[i]
    IN  /\ v \in IF part.star THEN Lo[f]..Hi[f] ELSE part.lo..part.hi
        /\ \E k \in 0..(Hi[f] - Lo[f]) : v - (IF part.star THEN Lo[f] ELSE part.lo) = k * part.step
Named(q, f, t) == Names(q.expr[f], f, Wall[q.zone][t][f])
Restricted(field) == ~IsStar(field)
Due(q, t) ==
  /\ Named(q, "minute", t) /\ Named(q, "hour", t) /\ Named(q, "month", t)
  /\ IF Restricted(q.expr["dom"]) /\ Restricted(q.expr["dow"])
       THEN Named(q, "dom", t) \/ Named(q, "dow", t)
       ELSE Named(q, "dom", t) /\ Named(q, "dow", t)

(* The instant found is due, later than the one asked about, and nothing   *)
(* between them is; and none is found only when none is due before the end *)
(* of the search.                                                          *)
NextIsLeast ==
  /\ outcome = "found" =>
       /\ d > query.after /\ d < query.after + Search /\ Due(query, d)
       /\ \A t \in (query.after + 1)..(d - 1) : ~Due(query, t)
  /\ outcome = "none" => \A t \in (query.after + 1)..(query.after + Search - 1) : ~Due(query, t)
=============================================================================
