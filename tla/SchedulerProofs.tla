-------------------------- MODULE SchedulerProofs --------------------------
(* Theorems about Scheduler for every value of its constants.              *)
EXTENDS Scheduler, WellFoundedInduction, TLAPS

(* A nonempty set of instants has a first one: nextFire's walk stops.      *)
LEMMA FirstInstant ==
  ASSUME NEW S \in SUBSET Nat, S # {}
  PROVE  \E f \in S : \A g \in S : f <= g
<1> DEFINE R == OpToRel(<, Nat)
<1>1. IsWellFoundedOn(R, Nat)
  BY NatLessThanWellFounded
<1>2. \E f \in S : \A g \in S : ~(<<g, f>> \in R)
  <2> HIDE DEF R
  <2> QED BY <1>1, WFMin
<1>3. \A f, g \in Nat : <<g, f>> \in R <=> g < f
  BY DEF OpToRel
<1> HIDE DEF R
<1>4. PICK f \in S : \A g \in S : ~(<<g, f>> \in R)
  BY <1>2
<1>5. \A g \in S : ~(g < f)
  BY <1>3, <1>4
<1> QED BY <1>5

(* What every caller of nextFire relies on: an answer is a later instant.  *)
LEMMA NextFireIsLater ==
  ASSUME NEW c \in Crons, NEW z \in Zones, NEW t \in Nat
  PROVE  /\ NextFire(c, z, t) \in Instant
         /\ NextFire(c, z, t) # Null => NextFire(c, z, t) > t
<1> DEFINE later == {f \in Fires[c][z] : t < f /\ f < t + Horizon}
<1>1. later \in SUBSET Nat
  BY CronAssumption
<1>2. CASE later = {}
  BY <1>2 DEF NextFire, Instant, Null
<1>3. CASE later # {}
  <2>1. (CHOOSE f \in later : \A g \in later : f <= g) \in later
    <3> HIDE DEF later
    <3> QED BY <1>1, <1>3, FirstInstant
  <2> QED BY <1>1, <1>3, <2>1 DEF NextFire, Instant, Null
<1> QED BY <1>2, <1>3
-----------------------------------------------------------------------------
(* Type correctness.                                                       *)

LEMMA SpendType ==
  ASSUME TypeOK, NEW what \in Disturbances, Spend(what)
  PROVE  left' \in [Disturbances -> Nat]
BY DEF TypeOK, Spend

LEMMA TaskPhase ==
  ASSUME NEW t \in Task, NEW phase \in Phases
  PROVE  [t EXCEPT !.phase = phase] \in Task
BY DEF Task

LEMMA NewRowType ==
  ASSUME NEW b \in Body, NEW next \in Instant
  PROVE  NewRow(b, next) \in Row
BY DEF NewRow, Body, Row, Instant

LEMMA PatchedType ==
  ASSUME NEW row \in Row, NEW e \in Edit
  PROVE  Patched(row, e) \in Row
<1> DEFINE base == IF e.clear THEN Cleared(row) ELSE row
<1>1. base \in Row
  BY DEF Cleared, Row, Instant
<1> HIDE DEF base
<1>2. e.body \in PatchBody /\ e.next \in Nat \cup {Keep}
  BY DEF Edit
<1>3. Set(e.body.enabled, base.enabled) \in BOOLEAN
  BY <1>1, <1>2 DEF Set, PatchBody, Row
<1>4. Set(e.body.cron, base.cron) \in Crons
  BY <1>1, <1>2 DEF Set, PatchBody, Row
<1>5. Set(e.body.zone, base.zone) \in Zones
  BY <1>1, <1>2 DEF Set, PatchBody, Row
<1>6. Set(e.body.suite, base.suite) \in Suites
  BY <1>1, <1>2 DEF Set, PatchBody, Row
<1>7. Set(e.body.max, base.max) \in 0..MaxRetries
  BY <1>1, <1>2 DEF Set, PatchBody, Row
<1>8. Set(e.next, base.next) \in Instant
  BY <1>1, <1>2 DEF Set, Row, Instant
<1>9. Patched(row, e) =
        [base EXCEPT !.enabled = Set(e.body.enabled, @), !.cron = Set(e.body.cron, @),
                     !.zone = Set(e.body.zone, @), !.suite = Set(e.body.suite, @),
                     !.max = Set(e.body.max, @), !.next = Set(e.next, @)]
  BY DEF Patched, base
<1> HIDE DEF Set
<1> QED BY <1>1, <1>3, <1>4, <1>5, <1>6, <1>7, <1>8, <1>9 DEF Row

LEMMA InitType == Init => TypeOK
<1> SUFFICES ASSUME Init PROVE TypeOK
  OBVIOUS
<1>1. NewRow(LegacyRow, Null) \in Row
  BY LegacyAssumption, NewRowType DEF Instant
<1>2. /\ lastId \in 0..MaxJobs /\ rows \in [Jobs -> Row \cup {NoRow}]
      /\ left \in [Disturbances -> Nat]
  BY <1>1, StartAssumption, TimeAssumption DEF Init, Jobs, Start
<1> QED BY <1>2 DEF Init, TypeOK, Instant, Null

LEMMA ProcessType == ASSUME TypeOK, NEW r \in Replicas, Process(r) PROVE TypeOK'
<1>1. CASE Boot(r)
  <2> DEFINE legacy == {[by |-> r, job |-> j, cron |-> rows[j].cron, next |-> Null] :
                           j \in {i \in Jobs : Stored(i) /\ NeedsBackfill(rows[i])}}
  <2>1. legacy \subseteq Fill
    BY DEF TypeOK, Fill, Row, Stored, Instant
  <2>2. fills' = fills \cup legacy
    BY <1>1 DEF Boot
  <2> HIDE DEF legacy
  <2> QED BY <1>1, <2>1, <2>2 DEF TypeOK, Boot, suiteVars, history
<1>2. CASE Tick(r)
  <2> DEFINE read == {[by |-> r, trigger |-> "scheduler", job |-> j, phase |-> "read",
                       snap |-> rows[j], kind |-> "cron", next |-> Null, cases |-> {},
                       wrote |-> FALSE] :
                         j \in {i \in Jobs : Stored(i) /\ Due(rows[i])}}
  <2>1. read \subseteq Task
    <3>1. ASSUME NEW j \in Jobs, Stored(j)
          PROVE  [by |-> r, trigger |-> "scheduler", job |-> j, phase |-> "read",
                  snap |-> rows[j], kind |-> "cron", next |-> Null, cases |-> {},
                  wrote |-> FALSE] \in Task
      <4>1. rows[j] \in Row /\ Null \in Instant
        BY <3>1 DEF TypeOK, Stored, Instant
      <4> QED BY <4>1 DEF Task, Phases
    <3> QED BY <3>1
  <2>2. tasks' = tasks \cup read
    BY <1>2 DEF Tick
  <2> HIDE DEF read
  <2> QED BY <1>2, <2>1, <2>2 DEF TypeOK, Tick, suiteVars, history
<1>3. CASE Plan(r)
  <2>1. \A t \in tasks : Planned(t) \in Task
    <3> SUFFICES ASSUME NEW t \in tasks PROVE Planned(t) \in Task
      OBVIOUS
    <3>1. t \in Task /\ t.snap.cron \in Crons /\ t.snap.zone \in Zones /\ clock \in Nat
      BY DEF TypeOK, Task, Row
    <3>2. NextFire(t.snap.cron, t.snap.zone, clock) \in Instant
      BY <3>1, NextFireIsLater
    <3> QED BY <3>1, <3>2 DEF Planned, Task, Phases
  <2>2. tasks' \subseteq Task
    BY <1>3, <2>1 DEF Plan, TypeOK, SchedulerTasks, TasksOf
  <2> QED BY <1>3, <2>2 DEF TypeOK, Plan, suiteVars, history
<1>4. CASE TickEnd(r)
  BY <1>4 DEF TypeOK, TickEnd, suiteVars, history
<1> QED BY <1>1, <1>2, <1>3, <1>4 DEF Process

LEMMA OutageType == ASSUME TypeOK, NEW r \in Replicas, Outage(r) PROVE TypeOK'
<1>1. left' \in [Disturbances -> Nat]
  BY SpendType DEF Outage, Crash, BackfillFails, Disturbances
<1>2. CASE Crash(r)
  BY <1>1, <1>2 DEF TypeOK, Crash, TasksOf, suiteVars, history
<1>3. CASE BackfillFails(r)
  BY <1>1, <1>3 DEF TypeOK, BackfillFails, CutShort, suiteVars
<1> QED BY <1>2, <1>3 DEF Outage

LEMMA BackfillType == ASSUME TypeOK, NEW f \in fills, Backfill(f) PROVE TypeOK'
<1>0. f \in Fill
  BY DEF TypeOK
<1>1. CASE BackfillCompute(f)
  <2>1. NextFire(f.cron, UTC, clock) \in Instant
    BY <1>0, ZoneAssumption, NextFireIsLater DEF TypeOK, Fill
  <2>2. fills' \subseteq Fill
    BY <1>0, <1>1, <2>1 DEF TypeOK, BackfillCompute, Fill
  <2> QED BY <1>1, <2>2 DEF TypeOK, BackfillCompute, suiteVars, history
<1>2. CASE BackfillWrite(f)
  <2>1. CASE Stored(f.job)
    <3>1. rows' \in [Jobs -> Row \cup {NoRow}]
      BY <1>0, <1>2, <2>1 DEF TypeOK, BackfillWrite, Fill, Stored, Row
    <3> QED BY <1>0, <1>2, <2>1, <3>1 DEF TypeOK, BackfillWrite, Fill, suiteVars
  <2>2. CASE ~Stored(f.job)
    BY <1>0, <1>2, <2>2 DEF TypeOK, BackfillWrite, CutShort, Fill, suiteVars
  <2> QED BY <2>1, <2>2
<1> QED BY <1>1, <1>2 DEF Backfill

LEMMA ClaimType == ASSUME TypeOK, NEW t \in tasks, Claim(t) PROVE TypeOK'
<1>0. t \in Task /\ t.job \in Jobs /\ t.snap \in Row /\ t.next \in Instant
  BY DEF TypeOK, Task
<1>1. CASE Matches(t)
  <2>1. rows[t.job] \in Row
    BY <1>0, <1>1 DEF Matches, Stored, TypeOK
  <2>2. rows' \in [Jobs -> Row \cup {NoRow}]
    <3>1. Claimed(rows[t.job], t) \in Row
      BY <1>0, <2>1 DEF Claimed, Row, Instant
    <3>2. rows' = [rows EXCEPT ![t.job] = Claimed(rows[t.job], t)]
      BY <1>1 DEF Claim
    <3> QED BY <1>0, <3>1, <3>2 DEF TypeOK
  <2>3. tasks' \subseteq Task
    <3>1. [t EXCEPT !.phase = "suite"] \in Task
      BY <1>0, TaskPhase DEF Phases
    <3>2. tasks' = (tasks \ {t}) \cup {[t EXCEPT !.phase = "suite"]}
      BY <1>1 DEF Claim, Step
    <3> QED BY <3>1, <3>2 DEF TypeOK
  <2>4. firedCron' \in [Jobs -> Instant] /\ firedRetry' \in [Jobs -> Instant]
    BY <1>0, <1>1 DEF Claim, TypeOK, Row
  <2> QED BY <1>0, <1>1, <2>2, <2>3, <2>4 DEF TypeOK, Claim, suiteVars
<1>2. CASE ~Matches(t)
  BY <1>2 DEF TypeOK, Claim, Lost, Finish, suiteVars, history
<1> QED BY <1>1, <1>2

LEMMA ExecuteType == ASSUME TypeOK, NEW t \in tasks, Execute(t) PROVE TypeOK'
<1>0. t \in Task
  BY DEF TypeOK
<1>1. tasks' \subseteq Task
  <2>1. CASE ResolveSuite(t)
    BY <1>0, <2>1, TaskPhase DEF ResolveSuite, Step, TypeOK, Phases
  <2>2. CASE ReadLinks(t)
    <3> DEFINE ids == IF t.snap.suite \in storedSuites
                        THEN Members[t.snap.suite] \cap liveCases ELSE {}
    <3>1. ids \subseteq Cases
      BY DEF TypeOK
    <3>2. tasks' = (tasks \ {t}) \cup
            {[t EXCEPT !.phase = IF ids = {} THEN "success" ELSE "create", !.cases = ids]}
      BY <2>2 DEF ReadLinks
    <3> HIDE DEF ids
    <3>3. \A phase \in Phases : [t EXCEPT !.phase = phase, !.cases = ids] \in Task
      BY <1>0, <3>1 DEF Task
    <3>4. (IF ids = {} THEN "success" ELSE "create") \in Phases
      BY DEF Phases
    <3> QED BY <3>2, <3>3, <3>4 DEF TypeOK
  <2>3. CASE CreateRuns(t)
    BY <1>0, <2>3 DEF CreateRuns, TypeOK, Task, Phases
  <2>4. CASE StampCases(t)
    BY <1>0, <2>4, TaskPhase DEF StampCases, Step, TypeOK, Phases
  <2> QED BY <2>1, <2>2, <2>3, <2>4 DEF Execute
<1>2. UNCHANGED <<clock, rows, lastId, suiteVars, up, ticking, edits, fills, left, history>>
  BY DEF Execute, ResolveSuite, ReadLinks, CreateRuns, StampCases, Executing
<1> QED BY <1>1, <1>2 DEF TypeOK, suiteVars, history
LEMMA RecordType == ASSUME TypeOK, NEW t \in tasks, Record(t) PROVE TypeOK'
<1>0. t \in Task /\ t.job \in Jobs /\ t.snap \in Row
  BY DEF TypeOK, Task
<1>1. Stored(t.job) => rows[t.job] \in Row
  BY <1>0 DEF Stored, TypeOK
<1>2. CASE RecordSuccess(t)
  <2>1. rows' \in [Jobs -> Row \cup {NoRow}]
    BY <1>0, <1>1, <1>2 DEF RecordSuccess, TypeOK, Row, Instant
  <2>2. tasks' \subseteq Task
    BY <1>0, <1>2, TaskPhase DEF RecordSuccess, Finish, Step, TypeOK, Phases
  <2> QED BY <1>2, <2>1, <2>2 DEF TypeOK, RecordSuccess, suiteVars, history
<1>3. CASE RecordFailure(t)
  <2> DEFINE count == t.snap.count + 1
  <2>1. count \in Nat \ {0} /\ t.snap.max \in 0..MaxRetries
    BY <1>0 DEF Row
  <2>2. ~OutOfRetries(t) => \A jitter \in 0..Jitter : clock + Backoff[count] + jitter \in Nat
    <3> SUFFICES ASSUME ~OutOfRetries(t)
                 PROVE  \A jitter \in 0..Jitter : clock + Backoff[count] + jitter \in Nat
      OBVIOUS
    <3>1. count \in 1..MaxRetries
      BY <2>1, TimeAssumption DEF OutOfRetries
    <3> QED BY <3>1, TimeAssumption DEF TypeOK
  <2>3. rows' \in [Jobs -> Row \cup {NoRow}]
    <3>1. CASE UNCHANGED rows
      BY <3>1 DEF TypeOK
    <3>2. CASE /\ Stored(t.job)
               /\ rows' = [rows EXCEPT ![t.job].error = TRUE, ![t.job].count = count]
      BY <1>0, <1>1, <2>1, <3>2 DEF TypeOK, Row
    <3>3. ASSUME Stored(t.job), ~OutOfRetries(t), NEW jitter \in 0..Jitter,
                 rows' = [rows EXCEPT ![t.job].error = TRUE, ![t.job].count = count,
                                      ![t.job].retryAt = clock + Backoff[count] + jitter]
          PROVE  rows' \in [Jobs -> Row \cup {NoRow}]
      <4> DEFINE at == clock + Backoff[count] + jitter
      <4>1. at \in Instant
        BY <2>2, <3>3 DEF Instant
      <4> HIDE DEF at, count
      <4> QED BY <1>0, <1>1, <2>1, <3>3, <4>1 DEF TypeOK, Row, at
    <3> QED BY <1>3, <3>1, <3>2, <3>3 DEF RecordFailure
  <2>4. tasks' \subseteq Task
    BY <1>3 DEF RecordFailure, Finish, TypeOK
  <2>5. retriedBy' \in [Jobs -> Replicas \cup {Null}]
    BY <1>0, <1>3 DEF RecordFailure, TypeOK, Task
  <2> QED BY <1>3, <2>3, <2>4, <2>5 DEF TypeOK, RecordFailure, suiteVars
<1>4. CASE RunNowEnds(t)
  BY <1>4 DEF TypeOK, RunNowEnds, Finish, suiteVars, history
<1> QED BY <1>2, <1>3, <1>4 DEF Record

LEMMA FaultType == ASSUME TypeOK, NEW t \in tasks, Fault(t) PROVE TypeOK'
<1>1. left' \in [Disturbances -> Nat]
  BY SpendType DEF Fault, Disturbances
<1>2. [t EXCEPT !.phase = "failure"] \in Task
  BY TaskPhase DEF TypeOK, Phases
<1>3. tasks' \subseteq Task
  BY <1>2 DEF TypeOK, Fault, Finish, Step
<1> QED BY <1>1, <1>3 DEF TypeOK, Fault, suiteVars, history

LEMMA AdminType == ASSUME TypeOK, Admin PROVE TypeOK'
<1>1. ASSUME NEW b \in NewJobs, Create(b) PROVE TypeOK'
  <2> DEFINE next == NextFire(b.cron, UTC, clock)
  <2>1. b \in Body /\ next \in Instant
    BY BodyAssumption, ZoneAssumption, NextFireIsLater DEF Body, TypeOK
  <2>2. NewRow(b, next) \in Row /\ left' \in [Disturbances -> Nat]
    BY <1>1, <2>1, NewRowType, SpendType DEF Create, Disturbances
  <2>3. lastId + 1 \in Jobs /\ lastId + 1 \in 0..MaxJobs
    BY <1>1, TimeAssumption DEF TypeOK, Create, Jobs
  <2> HIDE DEF next
  <2>4. rows' = [rows EXCEPT ![lastId + 1] = NewRow(b, next)]
    BY <1>1 DEF Create, next
  <2> QED BY <1>1, <2>2, <2>3, <2>4 DEF TypeOK, Create, suiteVars, history
<1>2. ASSUME NEW j \in Jobs, NEW b \in Patches, PatchRead(j, b) PROVE TypeOK'
  <2>0. rows[j] \in Row /\ b \in PatchBody
    BY <1>2, BodyAssumption DEF PatchRead, Stored, TypeOK
  <2>1. left' \in [Disturbances -> Nat]
    BY <1>2, SpendType DEF PatchRead, Disturbances
  <2> DEFINE enabling == b.enabled = TRUE /\ ~rows[j].enabled
             changed == b.cron # Keep /\ b.cron # rows[j].cron
             next == NextFire(IF b.cron = Keep THEN rows[j].cron ELSE b.cron, UTC, clock)
             e == [job |-> j, body |-> b, clear |-> enabling,
                   next |-> IF changed \/ enabling THEN next ELSE Keep]
  <2>2. next \in Instant
    <3>1. (IF b.cron = Keep THEN rows[j].cron ELSE b.cron) \in Crons
      BY <2>0 DEF Row, PatchBody
    <3> QED BY <3>1, ZoneAssumption, NextFireIsLater DEF TypeOK
  <2>3. edits' = edits \cup {e} /\ (changed \/ enabling => next # Null)
    BY <1>2 DEF PatchRead
  <2>4. e \in Edit
    <3> HIDE DEF next, enabling, changed
    <3>1. enabling \in BOOLEAN
      BY DEF enabling
    <3>2. (IF changed \/ enabling THEN next ELSE Keep) \in Nat \cup {Keep}
      BY <2>2, <2>3 DEF Instant
    <3> QED BY <2>0, <3>1, <3>2 DEF Edit
  <2> HIDE DEF e
  <2> QED BY <1>2, <2>1, <2>3, <2>4 DEF TypeOK, PatchRead, suiteVars, history
<1>3. ASSUME NEW e \in edits, PatchWrite(e) PROVE TypeOK'
  <2>1. e \in Edit /\ e.job \in Jobs
    BY DEF TypeOK, Edit
  <2>2. CASE /\ Stored(e.job)
             /\ e.body.suite # Keep => e.body.suite \in storedSuites
    <3>1. Patched(rows[e.job], e) \in Row
      BY <2>1, <2>2, PatchedType DEF Stored, TypeOK
    <3>2. rows' = [rows EXCEPT ![e.job] = Patched(rows[e.job], e)]
      BY <1>3, <2>2 DEF PatchWrite
    <3> QED BY <1>3, <2>1, <2>2, <3>1, <3>2 DEF TypeOK, PatchWrite, suiteVars
  <2>3. CASE ~(/\ Stored(e.job)
               /\ e.body.suite # Keep => e.body.suite \in storedSuites)
    BY <1>3, <2>3 DEF TypeOK, PatchWrite, suiteVars
  <2> QED BY <2>2, <2>3
<1>4. ASSUME NEW j \in Jobs, Delete(j) PROVE TypeOK'
  <2>1. left' \in [Disturbances -> Nat]
    BY <1>4, SpendType DEF Delete, Disturbances
  <2> QED BY <1>4, <2>1 DEF TypeOK, Delete, suiteVars, history
<1>5. ASSUME NEW r \in Replicas, NEW j \in Jobs, RunNow(r, j) PROVE TypeOK'
  <2>1. left' \in [Disturbances -> Nat]
    BY <1>5, SpendType DEF RunNow, Disturbances
  <2> DEFINE t == [by |-> r, trigger |-> "manual", job |-> j, phase |-> "suite",
                   snap |-> rows[j], kind |-> "cron", next |-> Null, cases |-> {},
                   wrote |-> FALSE]
  <2>2. t \in Task
    <3>1. rows[j] \in Row /\ Null \in Instant
      BY <1>5 DEF RunNow, TypeOK, Stored, Instant
    <3> QED BY <3>1 DEF Task, Phases
  <2>3. tasks' = tasks \cup {t}
    BY <1>5 DEF RunNow
  <2> HIDE DEF t
  <2> QED BY <1>5, <2>1, <2>2, <2>3 DEF TypeOK, RunNow, suiteVars, history
<1> QED BY <1>1, <1>2, <1>3, <1>4, <1>5 DEF Admin

LEMMA TrashType == ASSUME TypeOK, Trash PROVE TypeOK'
<1> USE SpendType DEF Disturbances, suiteVars, history
<1>1. ASSUME NEW s \in Suites, TrashSuite(s) PROVE TypeOK'
  BY <1>1 DEF TypeOK, TrashSuite
<1>2. ASSUME NEW s \in Suites, RestoreSuite(s) PROVE TypeOK'
  BY <1>2 DEF TypeOK, RestoreSuite
<1>3. ASSUME NEW s \in Suites, PurgeSuite(s) PROVE TypeOK'
  BY <1>3 DEF TypeOK, PurgeSuite
<1>4. ASSUME NEW c \in Cases, TrashCase(c) PROVE TypeOK'
  BY <1>4 DEF TypeOK, TrashCase
<1> QED BY <1>1, <1>2, <1>3, <1>4 DEF Trash

LEMMA StepType == TypeOK /\ [Next]_vars => TypeOK'
<1> SUFFICES ASSUME TypeOK, [Next]_vars PROVE TypeOK'
  OBVIOUS
<1>1. CASE TimePasses
  BY <1>1, SpendType DEF TypeOK, TimePasses, Disturbances, suiteVars, history
<1>2. CASE UNCHANGED vars
  BY <1>2 DEF TypeOK, vars, suiteVars, history
<1> QED BY <1>1, <1>2, ProcessType, OutageType, BackfillType, ClaimType, ExecuteType,
           RecordType, FaultType, AdminType, TrashType DEF Next

(* The table, the fires under way and the requests in flight stay well     *)
(* formed for any number of replicas, jobs, schedules and disturbances.    *)
THEOREM TypeCorrect == Spec => []TypeOK
<1>1. Init => TypeOK
  BY InitType
<1>2. TypeOK /\ [Next]_vars => TypeOK'
  BY StepType
<1> QED BY <1>1, <1>2, PTL DEF Spec
-----------------------------------------------------------------------------
(* A job fires a slot once.  Claim compares one column of the row with the *)
(* value tick read; that is enough because values never come back: what a  *)
(* claim or a failure writes is later than the clock, and what was fired   *)
(* is not.  The delicate case is a retry claim, which overwrites a         *)
(* next_run_at it never looked at with a value computed some time ago: the *)
(* value may be stale, but then a scheduled claim has come in between and  *)
(* has cleared the retry_at the late UPDATE asks for.                      *)

FiredInPast == \A j \in Jobs : firedCron[j] <= clock /\ firedRetry[j] <= clock

NextAhead ==
  \A j \in Jobs : Stored(j) /\ rows[j].next # Null /\ ~rearmed[j]
                  => rows[j].next > firedCron[j]

RetryAhead ==
  \A j \in Jobs : Stored(j) /\ rows[j].retryAt # Null
                  => rows[j].retryAt > firedRetry[j]

ReadWasDue(t) == Reached(t.snap.next) \/ Reached(t.snap.retryAt)

ClaimIsSound(t) ==
  /\ t.next # Null
  /\ t.kind = "cron" => Reached(t.snap.next) /\ t.snap.next < t.next
  /\ t.kind = "retry" =>
       /\ Reached(t.snap.retryAt)
       /\ Stored(t.job) /\ rows[t.job].retryAt = t.snap.retryAt
            => firedCron[t.job] < t.next

SlotInv ==
  /\ FiredInPast /\ NextAhead /\ RetryAhead
  /\ \A t \in tasks : t.phase = "read" => ReadWasDue(t)
  /\ \A t \in tasks : t.phase = "claim" => ClaimIsSound(t)
(* Steps that touch no row and start no claim.                             *)
LEMMA SlotQuiet ==
  ASSUME TypeOK, SlotInv, UNCHANGED <<clock, rows, firedCron, firedRetry, rearmed>>,
         \A t \in tasks' : t \in tasks \/ t.phase \notin {"read", "claim"}
  PROVE  SlotInv'
BY DEF SlotInv, FiredInPast, NextAhead, RetryAhead, ReadWasDue, ClaimIsSound, Stored, Reached

(* Steps that rewrite rows without firing a slot: a retry_at they leave    *)
(* behind is either the old one or still ahead of the clock.               *)
LEMMA SlotRewrite ==
  ASSUME TypeOK, SlotInv, UNCHANGED <<clock, firedCron, firedRetry>>,
         rows' \in [Jobs -> Row \cup {NoRow}],
         \A t \in tasks' : t \in tasks \/ t.phase \notin {"read", "claim"},
         \A j \in Jobs : Stored(j)' =>
           /\ rows'[j].next # Null /\ ~rearmed'[j] => rows'[j].next > firedCron[j]
           /\ rows'[j].retryAt # Null =>
                \/ rows'[j].retryAt > clock
                \/ Stored(j) /\ rows'[j].retryAt = rows[j].retryAt
  PROVE  SlotInv'
<1>1. FiredInPast' /\ NextAhead'
  BY DEF SlotInv, FiredInPast, NextAhead
<1>2. RetryAhead'
  <2> SUFFICES ASSUME NEW j \in Jobs, Stored(j)', rows'[j].retryAt # Null
               PROVE  rows'[j].retryAt > firedRetry[j]
    BY DEF RetryAhead
  <2>1. CASE rows'[j].retryAt > clock
    <3>1. /\ firedRetry[j] \in Int /\ firedRetry[j] <= clock /\ clock \in Int
          /\ rows'[j] \in Row
      BY DEF SlotInv, FiredInPast, TypeOK, Instant, Null, Stored
    <3>2. rows'[j].retryAt \in Int
      BY <3>1 DEF Row, Instant, Null
    <3> QED BY <2>1, <3>1, <3>2
  <2>2. CASE Stored(j) /\ rows'[j].retryAt = rows[j].retryAt
    BY <2>2 DEF SlotInv, RetryAhead
  <2> QED BY <2>1, <2>2
<1>3. \A t \in tasks' : t.phase = "read" => ReadWasDue(t)'
  BY DEF SlotInv, ReadWasDue, Reached
<1>4. \A t \in tasks' : t.phase = "claim" => ClaimIsSound(t)'
  <2> SUFFICES ASSUME NEW t \in tasks', t.phase = "claim" PROVE ClaimIsSound(t)'
    OBVIOUS
  <2>1. t \in tasks /\ t \in Task /\ t.job \in Jobs /\ t.snap \in Row /\ ClaimIsSound(t)
    BY DEF SlotInv, TypeOK, Task
  <2>2. ASSUME t.kind = "retry", Stored(t.job)', rows'[t.job].retryAt = t.snap.retryAt
        PROVE  Stored(t.job) /\ rows[t.job].retryAt = t.snap.retryAt
    <3>1. t.snap.retryAt # Null /\ t.snap.retryAt <= clock
      BY <2>1, <2>2 DEF ClaimIsSound, Reached
    <3>2. t.snap.retryAt \in Int /\ clock \in Int
      BY <2>1 DEF Row, Instant, Null, TypeOK
    <3>3. ~(rows'[t.job].retryAt > clock)
      BY <2>2, <3>1, <3>2
    <3> QED BY <2>1, <2>2, <3>1, <3>3
  <2> QED BY <2>1, <2>2 DEF ClaimIsSound, Reached
<1> QED BY <1>1, <1>2, <1>3, <1>4 DEF SlotInv

LEMMA SlotPlan == ASSUME TypeOK, SlotInv, NEW r \in Replicas, Plan(r) PROVE SlotInv'
<1> DEFINE read == {t \in SchedulerTasks(r) : t.phase = "read"}
<1>1. \A t \in read : Planned(t).next # Null => ClaimIsSound(Planned(t))
  <2> SUFFICES ASSUME NEW t \in read, Planned(t).next # Null PROVE ClaimIsSound(Planned(t))
    OBVIOUS
  <2>1. t \in tasks /\ t \in Task /\ t.phase = "read" /\ ReadWasDue(t)
    BY DEF SchedulerTasks, TasksOf, SlotInv, TypeOK
  <2>2. /\ t.job \in Jobs /\ t.snap \in Row /\ clock \in Nat
        /\ t.snap.cron \in Crons /\ t.snap.zone \in Zones
    BY <2>1 DEF Task, TypeOK, Row
  <2> DEFINE next == NextFire(t.snap.cron, t.snap.zone, clock)
  <2>3. /\ Planned(t).job = t.job /\ Planned(t).snap = t.snap
        /\ Planned(t).next = next
        /\ Planned(t).kind = IF Reached(t.snap.retryAt) THEN "retry" ELSE "cron"
    <3> HIDE DEF next
    <3>1. Planned(t) = [t EXCEPT !.phase = "claim",
                          !.kind = IF Reached(t.snap.retryAt) THEN "retry" ELSE "cron",
                          !.next = next]
      BY DEF Planned, next
    <3> QED BY <2>1, <3>1 DEF Task
  <2>4. next \in Int /\ next > clock
    BY <2>2, <2>3, NextFireIsLater DEF Instant, Null
  <2> HIDE DEF next
  <2>5. firedCron[t.job] <= clock /\ firedCron[t.job] \in Int
    BY <2>2 DEF SlotInv, FiredInPast, TypeOK, Instant, Null
  <2>6. t.snap.next \in Int /\ clock \in Int
    BY <2>2 DEF Row, Instant, Null
  <2>7. CASE Reached(t.snap.retryAt)
    BY <2>3, <2>4, <2>5, <2>6, <2>7 DEF ClaimIsSound
  <2>8. CASE ~Reached(t.snap.retryAt)
    <3>1. Reached(t.snap.next) /\ t.snap.next <= clock
      BY <2>1, <2>8 DEF ReadWasDue, Reached
    <3> QED BY <2>3, <2>4, <2>6, <2>8, <3>1 DEF ClaimIsSound
  <2> QED BY <2>7, <2>8
<1>2. tasks' = (tasks \ read) \cup {p \in {Planned(t) : t \in read} : p.next # Null}
  BY DEF Plan
<1>3. \A t \in read : Planned(t).phase = "claim"
  <2>1. read \subseteq Task
    BY DEF SchedulerTasks, TasksOf, TypeOK
  <2> HIDE DEF read
  <2> QED BY <2>1 DEF Planned, Task
<1>4. UNCHANGED <<clock, rows, firedCron, firedRetry, rearmed>>
  BY DEF Plan, history
<1>5. \A t \in tasks' : t \in tasks \/ \E u \in read : t = Planned(u) /\ Planned(u).next # Null
  <2> HIDE DEF read
  <2> QED BY <1>2
<1>6. \A t \in tasks' : t.phase = "read" => ReadWasDue(t)
  <2> HIDE DEF read
  <2> QED BY <1>3, <1>5 DEF SlotInv
<1>7. \A t \in tasks' : t.phase = "claim" => ClaimIsSound(t)
  <2> HIDE DEF read
  <2> QED BY <1>1, <1>5 DEF SlotInv
<1> QED BY <1>4, <1>6, <1>7 DEF SlotInv, FiredInPast, NextAhead, RetryAhead, ReadWasDue,
                                ClaimIsSound, Stored, Reached

LEMMA SlotTick == ASSUME TypeOK, SlotInv, NEW r \in Replicas, Tick(r) PROVE SlotInv'
<1> DEFINE read == {[by |-> r, trigger |-> "scheduler", job |-> j, phase |-> "read",
                     snap |-> rows[j], kind |-> "cron", next |-> Null, cases |-> {},
                     wrote |-> FALSE] :
                       j \in {i \in Jobs : Stored(i) /\ Due(rows[i])}}
<1>1. \A t \in read : t.phase = "read" /\ ReadWasDue(t)
  BY DEF Due, ReadWasDue
<1>2. tasks' = tasks \cup read
  BY DEF Tick
<1>3. UNCHANGED <<clock, rows, firedCron, firedRetry, rearmed>>
  BY DEF Tick, history
<1> HIDE DEF read
<1>4. \A t \in tasks' : t.phase = "read" => ReadWasDue(t)
  BY <1>1, <1>2 DEF SlotInv
<1>5. \A t \in tasks' : t.phase = "claim" => ClaimIsSound(t)
  BY <1>1, <1>2 DEF SlotInv
<1> QED BY <1>3, <1>4, <1>5 DEF SlotInv, FiredInPast, NextAhead, RetryAhead, ReadWasDue,
                                ClaimIsSound, Stored, Reached

(* The heart of the argument: a claim that wins moves the row past the     *)
(* slot it fired, and no other claim in flight is left able to undo that.  *)
LEMMA SlotClaim == ASSUME TypeOK, SlotInv, NEW t \in tasks, Claim(t) PROVE SlotInv'
<1>1. CASE ~Matches(t)
  <2>1. UNCHANGED <<clock, rows, firedCron, firedRetry, rearmed>> /\ tasks' \subseteq tasks
    BY <1>1 DEF Claim, Lost, Finish, history
  <2> QED BY <2>1, SlotQuiet
<1>2. CASE Matches(t)
  <2>1. /\ t \in Task /\ t.phase = "claim" /\ ClaimIsSound(t)
        /\ t.job \in Jobs /\ t.snap \in Row /\ t.kind \in {"cron", "retry"}
    BY DEF Claim, SlotInv, TypeOK, Task
  <2>2. /\ t.next \in Int /\ t.snap.next \in Int /\ t.snap.retryAt \in Int
        /\ clock \in Int /\ firedCron[t.job] \in Int /\ firedRetry[t.job] \in Int
    BY <2>1 DEF Task, Row, Instant, Null, TypeOK
  <2>3. Stored(t.job) /\ rows[t.job] \in Row
    BY <1>2, <2>1 DEF Matches, Stored, TypeOK
  <2>4. /\ rows' \in [Jobs -> Row \cup {NoRow}]
        /\ clock' = clock
        /\ \A j \in Jobs : j # t.job => /\ rows'[j] = rows[j]
                                        /\ firedCron'[j] = firedCron[j]
                                        /\ firedRetry'[j] = firedRetry[j]
                                        /\ rearmed'[j] = rearmed[j]
        /\ rows'[t.job].next = t.next /\ rows'[t.job].retryAt = Null
    <3>1. TypeOK'
      BY ClaimType
    <3>2. rows' = [rows EXCEPT ![t.job] = Claimed(rows[t.job], t)]
      BY <1>2 DEF Claim
    <3>3. rows'[t.job].next = t.next /\ rows'[t.job].retryAt = Null
      BY <2>1, <2>3, <3>2 DEF Claimed, TypeOK, Row
    <3>4. \A j \in Jobs : j # t.job => rows'[j] = rows[j]
      BY <3>2 DEF TypeOK
    <3>5. \A j \in Jobs : j # t.job => /\ firedCron'[j] = firedCron[j]
                                       /\ firedRetry'[j] = firedRetry[j]
                                       /\ rearmed'[j] = rearmed[j]
      BY <1>2 DEF Claim, TypeOK
    <3> QED BY <1>2, <3>1, <3>3, <3>4, <3>5 DEF Claim, TypeOK
  <2>5. /\ t.kind = "cron" => firedCron'[t.job] = t.snap.next
                              /\ firedRetry'[t.job] = firedRetry[t.job]
        /\ t.kind = "retry" => firedCron'[t.job] = firedCron[t.job]
                               /\ firedRetry'[t.job] = t.snap.retryAt
    BY <1>2, <2>1 DEF Claim, TypeOK
  <2>6. FiredInPast'
    <3>1. firedCron'[t.job] <= clock /\ firedRetry'[t.job] <= clock
      BY <2>1, <2>2, <2>5 DEF ClaimIsSound, Reached, SlotInv, FiredInPast
    <3> QED BY <2>4, <3>1 DEF SlotInv, FiredInPast
  <2>7. NextAhead'
    <3>1. firedCron'[t.job] < t.next
      BY <1>2, <2>1, <2>2, <2>5 DEF ClaimIsSound, Matches
    <3>2. t.next > firedCron'[t.job]
      BY <2>1, <2>2, <2>5, <3>1
    <3> QED BY <2>4, <3>2 DEF SlotInv, NextAhead, Stored
  <2>8. RetryAhead'
    BY <2>4 DEF SlotInv, RetryAhead, Stored
  <2>9. \A u \in tasks' : \/ u \in tasks
                          \/ u = [t EXCEPT !.phase = "suite"]
    BY <1>2 DEF Claim, Step
  <2>10. \A u \in tasks' : u.phase \in {"read", "claim"} => u \in tasks
    BY <2>1, <2>9 DEF Task
  <2>11. \A u \in tasks' : u.phase = "read" => ReadWasDue(u)'
    BY <2>4, <2>10 DEF SlotInv, ReadWasDue, Reached
  <2>12. \A u \in tasks' : u.phase = "claim" => ClaimIsSound(u)'
    <3> SUFFICES ASSUME NEW u \in tasks', u.phase = "claim" PROVE ClaimIsSound(u)'
      OBVIOUS
    <3>1. u \in tasks /\ ClaimIsSound(u) /\ u.job \in Jobs
      BY <2>10 DEF SlotInv, TypeOK, Task
    <3>2. CASE u.job = t.job
      BY <2>4, <3>1, <3>2 DEF ClaimIsSound, Reached
    <3>3. CASE u.job # t.job
      BY <2>4, <3>1, <3>3 DEF ClaimIsSound, Reached, Stored
    <3> QED BY <3>2, <3>3
  <2> QED BY <2>6, <2>7, <2>8, <2>11, <2>12 DEF SlotInv
<1> QED BY <1>1, <1>2

LEMMA SlotBackfill == ASSUME TypeOK, SlotInv, NEW f \in fills, Backfill(f) PROVE SlotInv'
<1>1. CASE BackfillCompute(f)
  BY <1>1, SlotQuiet DEF BackfillCompute, history
<1>2. CASE BackfillWrite(f) /\ Stored(f.job)
  <2>1. rows' = [rows EXCEPT ![f.job].next = f.next] /\ rearmed' = [rearmed EXCEPT ![f.job] = TRUE]
    BY <1>2 DEF BackfillWrite
  <2>2. f.job \in Jobs /\ rows[f.job] \in Row
    BY <1>2 DEF TypeOK, Fill, Stored
  <2>3. /\ \A j \in Jobs : j # f.job => rows'[j] = rows[j] /\ rearmed'[j] = rearmed[j]
        /\ rows'[f.job].retryAt = rows[f.job].retryAt /\ rearmed'[f.job]
    BY <2>1, <2>2 DEF TypeOK, Row
  <2>4. TypeOK'
    BY <1>2, BackfillType DEF Backfill
  <2>5. UNCHANGED <<clock, firedCron, firedRetry, tasks>>
    BY <1>2 DEF BackfillWrite
  <2>6. ASSUME NEW j \in Jobs, Stored(j)'
        PROVE  /\ rows'[j].next # Null /\ ~rearmed'[j] => rows'[j].next > firedCron[j]
               /\ rows'[j].retryAt # Null => Stored(j) /\ rows'[j].retryAt = rows[j].retryAt
    BY <1>2, <2>3, <2>6 DEF SlotInv, NextAhead, Stored
  <2>7. rows' \in [Jobs -> Row \cup {NoRow}]
    BY <2>4 DEF TypeOK
  <2> QED BY <2>5, <2>6, <2>7, SlotRewrite
<1>3. CASE BackfillWrite(f) /\ ~Stored(f.job)
  BY <1>3, SlotQuiet DEF BackfillWrite
<1> QED BY <1>1, <1>2, <1>3 DEF Backfill

LEMMA SlotRecord == ASSUME TypeOK, SlotInv, NEW t \in tasks, Record(t) PROVE SlotInv'
<1>1. t \in Task /\ t.job \in Jobs /\ t.snap \in Row /\ (Stored(t.job) => rows[t.job] \in Row)
  BY DEF TypeOK, Task, Stored
<1>2. UNCHANGED <<clock, firedCron, firedRetry, rearmed>>
  BY DEF Record, RecordSuccess, RecordFailure, RunNowEnds, history
<1>3. \A u \in tasks' : u \in tasks \/ u.phase \notin {"read", "claim"}
  BY <1>1 DEF Record, RecordSuccess, RecordFailure, RunNowEnds, Finish, Step, Task
<1>4. rows' \in [Jobs -> Row \cup {NoRow}]
  BY RecordType DEF TypeOK
<1>5. CASE UNCHANGED rows
  BY <1>2, <1>3, <1>5, SlotQuiet
<1>6. ASSUME rows # rows', Stored(t.job)
      PROVE  /\ \A j \in Jobs : j # t.job => rows'[j] = rows[j]
             /\ rows'[t.job].next = rows[t.job].next
             /\ rows'[t.job].retryAt # Null =>
                  rows'[t.job].retryAt > clock \/ rows'[t.job].retryAt = rows[t.job].retryAt
  <2>1. CASE RecordSuccess(t)
    BY <1>1, <1>6, <2>1 DEF RecordSuccess, TypeOK, Row
  <2>2. CASE RecordFailure(t)
    <3> DEFINE count == t.snap.count + 1
    <3>1. CASE rows' = [rows EXCEPT ![t.job].error = TRUE, ![t.job].count = count]
      BY <1>1, <1>6, <3>1 DEF TypeOK, Row
    <3>2. ASSUME ~OutOfRetries(t), NEW jitter \in 0..Jitter,
                 rows' = [rows EXCEPT ![t.job].error = TRUE, ![t.job].count = count,
                                      ![t.job].retryAt = clock + Backoff[count] + jitter]
          PROVE  /\ \A j \in Jobs : j # t.job => rows'[j] = rows[j]
                 /\ rows'[t.job].next = rows[t.job].next
                 /\ rows'[t.job].retryAt > clock
      <4> DEFINE at == clock + Backoff[count] + jitter
      <4>1. count \in 1..MaxRetries
        BY <1>1, <3>2, TimeAssumption DEF OutOfRetries, Row
      <4>2. at > clock
        BY <4>1, TimeAssumption DEF TypeOK
      <4> HIDE DEF at, count
      <4>3. rows' = [rows EXCEPT ![t.job].error = TRUE, ![t.job].count = count,
                                 ![t.job].retryAt = at]
        BY <3>2 DEF at
      <4>4. rows'[t.job].next = rows[t.job].next /\ rows'[t.job].retryAt = at
        BY <1>1, <1>6, <4>3 DEF TypeOK, Row
      <4> QED BY <4>2, <4>3, <4>4 DEF TypeOK
    <3> QED BY <1>6, <2>2, <3>1, <3>2 DEF RecordFailure
  <2>3. CASE RunNowEnds(t)
    BY <1>6, <2>3 DEF RunNowEnds
  <2> QED BY <2>1, <2>2, <2>3 DEF Record
<1>7. CASE rows # rows'
  <2>1. Stored(t.job)
    BY <1>7 DEF Record, RecordSuccess, RecordFailure, RunNowEnds
  <2>2. ASSUME NEW j \in Jobs, Stored(j)'
        PROVE  /\ rows'[j].next # Null /\ ~rearmed'[j] => rows'[j].next > firedCron[j]
               /\ rows'[j].retryAt # Null =>
                    \/ rows'[j].retryAt > clock
                    \/ Stored(j) /\ rows'[j].retryAt = rows[j].retryAt
    BY <1>2, <1>6, <1>7, <2>1, <2>2 DEF SlotInv, NextAhead, Stored
  <2> QED BY <1>2, <1>3, <1>4, <2>2, SlotRewrite
<1> QED BY <1>5, <1>7

LEMMA SlotAdmin == ASSUME TypeOK, SlotInv, Admin PROVE SlotInv'
<1>0. rows' \in [Jobs -> Row \cup {NoRow}]
  BY AdminType DEF TypeOK
<1>1. ASSUME NEW b \in NewJobs, Create(b) PROVE SlotInv'
  <2> DEFINE next == NextFire(b.cron, UTC, clock)
  <2>1. next # Null /\ rows' = [rows EXCEPT ![lastId + 1] = NewRow(b, next)]
    BY <1>1 DEF Create
  <2>2. next \in Int /\ next > clock
    BY <2>1, BodyAssumption, ZoneAssumption, NextFireIsLater DEF Body, TypeOK, Instant, Null
  <2> HIDE DEF next
  <2>3. lastId + 1 \in Jobs
    BY <1>1, TimeAssumption DEF TypeOK, Create, Jobs
  <2>4. /\ \A j \in Jobs : j # lastId + 1 => rows'[j] = rows[j]
        /\ rows'[lastId + 1].next = next /\ rows'[lastId + 1].retryAt = Null
    BY <2>1, <2>3 DEF TypeOK, NewRow
  <2>5. firedCron[lastId + 1] \in Int /\ firedCron[lastId + 1] <= clock /\ clock \in Int
    BY <2>3 DEF SlotInv, FiredInPast, TypeOK, Instant, Null
  <2>6. UNCHANGED <<clock, firedCron, firedRetry, rearmed, tasks>>
    BY <1>1 DEF Create, history
  <2>7. next > firedCron[lastId + 1]
    BY <2>2, <2>5
  <2>8. ASSUME NEW j \in Jobs, Stored(j)'
        PROVE  /\ rows'[j].next # Null /\ ~rearmed'[j] => rows'[j].next > firedCron[j]
               /\ rows'[j].retryAt # Null => Stored(j) /\ rows'[j].retryAt = rows[j].retryAt
    BY <2>4, <2>6, <2>7, <2>8 DEF SlotInv, NextAhead, Stored
  <2> QED BY <1>0, <2>6, <2>8, SlotRewrite
<1>2. ASSUME NEW j \in Jobs, NEW b \in Patches, PatchRead(j, b) PROVE SlotInv'
  BY <1>2, SlotQuiet DEF PatchRead, history
<1>3. ASSUME NEW e \in edits, PatchWrite(e) PROVE SlotInv'
  <2>1. CASE UNCHANGED <<rows, rearmed>>
    BY <1>3, <2>1, SlotQuiet DEF PatchWrite
  <2>2. CASE /\ Stored(e.job)
             /\ rows' = [rows EXCEPT ![e.job] = Patched(rows[e.job], e)]
             /\ rearmed' = IF e.next = Keep THEN rearmed
                           ELSE [rearmed EXCEPT ![e.job] = TRUE]
    <3>1. e \in Edit /\ e.job \in Jobs /\ rows[e.job] \in Row
      BY <2>2 DEF TypeOK, Edit, Stored
    <3> DEFINE p == Patched(rows[e.job], e)
    <3>2. /\ e.next = Keep => p.next = rows[e.job].next
          /\ p.retryAt # Null => p.retryAt = rows[e.job].retryAt
      BY <3>1 DEF Patched, Cleared, Row, Set
    <3> HIDE DEF p
    <3>3. /\ rows'[e.job] = p /\ \A j \in Jobs : j # e.job => rows'[j] = rows[j]
          /\ \A j \in Jobs : j # e.job => rearmed'[j] = rearmed[j]
          /\ e.next = Keep => rearmed' = rearmed
          /\ e.next # Keep => rearmed'[e.job]
      BY <2>2, <3>1 DEF TypeOK, p
    <3>4. UNCHANGED <<clock, firedCron, firedRetry, tasks>>
      BY <1>3 DEF PatchWrite
    <3>5. ASSUME NEW j \in Jobs, Stored(j)'
          PROVE  /\ rows'[j].next # Null /\ ~rearmed'[j] => rows'[j].next > firedCron[j]
                 /\ rows'[j].retryAt # Null => Stored(j) /\ rows'[j].retryAt = rows[j].retryAt
      BY <2>2, <3>2, <3>3, <3>5 DEF SlotInv, NextAhead, Stored
    <3> QED BY <1>0, <3>4, <3>5, SlotRewrite
  <2> QED BY <1>3, <2>1, <2>2 DEF PatchWrite
<1>4. ASSUME NEW j \in Jobs, Delete(j) PROVE SlotInv'
  <2>1. \A i \in Jobs : Stored(i)' => Stored(i) /\ rows'[i] = rows[i]
    BY <1>4 DEF Delete, TypeOK, Stored
  <2>2. UNCHANGED <<clock, firedCron, firedRetry, rearmed, tasks>>
    BY <1>4 DEF Delete, history
  <2> QED BY <1>0, <2>1, <2>2, SlotRewrite DEF SlotInv, NextAhead
<1>5. ASSUME NEW r \in Replicas, NEW j \in Jobs, RunNow(r, j) PROVE SlotInv'
  BY <1>5, SlotQuiet DEF RunNow, history
<1> QED BY <1>1, <1>2, <1>3, <1>4, <1>5 DEF Admin

LEMMA SlotTrash == ASSUME TypeOK, SlotInv, Trash PROVE SlotInv'
<1>1. UNCHANGED <<clock, firedCron, firedRetry, rearmed, tasks>>
  BY DEF Trash, TrashSuite, RestoreSuite, PurgeSuite, TrashCase, history
<1>2. \A j \in Jobs : Stored(j)' => Stored(j) /\ rows'[j] = rows[j]
  BY DEF Trash, TrashSuite, RestoreSuite, PurgeSuite, TrashCase, Stored
<1>3. rows' \in [Jobs -> Row \cup {NoRow}]
  BY TrashType DEF TypeOK
<1> QED BY <1>1, <1>2, <1>3, SlotRewrite DEF SlotInv, NextAhead

LEMMA SlotTime == ASSUME TypeOK, SlotInv, TimePasses PROVE SlotInv'
<1>1. clock \in Nat /\ clock' = clock + 1
  BY DEF TypeOK, TimePasses
<1>2. UNCHANGED <<rows, tasks, firedCron, firedRetry, rearmed>>
  BY DEF TimePasses, history
<1>3. \A n \in Instant : n <= clock => n <= clock'
  BY <1>1 DEF Instant, Null
<1>4. FiredInPast'
  BY <1>2, <1>3 DEF SlotInv, FiredInPast, TypeOK
<1>5. \A n \in Instant : Reached(n) => Reached(n)'
  BY <1>3 DEF Reached
<1>6. \A t \in tasks : t.snap.next \in Instant /\ t.snap.retryAt \in Instant
  BY DEF TypeOK, Task, Row
<1>7. \A t \in tasks : t.phase = "read" => ReadWasDue(t)'
  BY <1>2, <1>5, <1>6 DEF SlotInv, ReadWasDue
<1>8. \A t \in tasks : t.phase = "claim" => ClaimIsSound(t)'
  BY <1>2, <1>5, <1>6 DEF SlotInv, ClaimIsSound, Stored
<1> QED BY <1>2, <1>4, <1>7, <1>8 DEF SlotInv, NextAhead, RetryAhead, Stored

LEMMA SlotInit == Init => SlotInv
BY DEF Init, SlotInv, FiredInPast, NextAhead, RetryAhead, Null, NewRow, Stored

LEMMA SlotStep == TypeOK /\ SlotInv /\ [Next]_vars => SlotInv'
<1> SUFFICES ASSUME TypeOK, SlotInv, [Next]_vars PROVE SlotInv'
  OBVIOUS
<1>1. ASSUME NEW r \in Replicas, Process(r) \/ Outage(r) PROVE SlotInv'
  <2>1. CASE Boot(r)
    BY <2>1, SlotQuiet DEF Boot, history
  <2>2. CASE TickEnd(r)
    BY <2>2, SlotQuiet DEF TickEnd, history
  <2>3. CASE Outage(r)
    BY <2>3, SlotQuiet DEF Outage, Crash, BackfillFails, history
  <2> QED BY <1>1, <2>1, <2>2, <2>3, SlotTick, SlotPlan DEF Process
<1>2. ASSUME NEW t \in tasks, Execute(t) \/ Fault(t) PROVE SlotInv'
  <2>1. UNCHANGED <<clock, rows, firedCron, firedRetry, rearmed>>
    BY <1>2 DEF Execute, ResolveSuite, ReadLinks, CreateRuns, StampCases, Executing,
                Fault, history
  <2>2. t \in Task
    BY DEF TypeOK
  <2>3. \A u \in tasks' : u \in tasks \/ u.phase \notin {"read", "claim"}
    <3>1. CASE Fault(t)
      BY <2>2, <3>1 DEF Fault, Finish, Step, Task
    <3>2. CASE ResolveSuite(t)
      BY <2>2, <3>2 DEF ResolveSuite, Step, Task
    <3>3. CASE ReadLinks(t)
      BY <2>2, <3>3 DEF ReadLinks, Task
    <3>4. CASE CreateRuns(t) \/ StampCases(t)
      BY <2>2, <3>4 DEF CreateRuns, StampCases, Step, Task
    <3> QED BY <1>2, <3>1, <3>2, <3>3, <3>4 DEF Execute
  <2> QED BY <2>1, <2>3, SlotQuiet
<1>3. CASE UNCHANGED vars
  BY <1>3, SlotQuiet DEF vars, history
<1> QED BY <1>1, <1>2, <1>3, SlotBackfill, SlotClaim, SlotRecord, SlotAdmin, SlotTrash,
           SlotTime DEF Next

LEMMA WinnerIsFresh == TypeOK /\ SlotInv => \A t \in tasks : Won(t) => SlotFresh(t)
<1> SUFFICES ASSUME TypeOK, SlotInv, NEW t \in tasks, Won(t) PROVE SlotFresh(t)
  OBVIOUS
<1>1. t.job \in Jobs /\ t.kind \in {"cron", "retry"} /\ ClaimIsSound(t) /\ Matches(t)
  BY DEF Won, Claim, SlotInv, TypeOK, Task
<1> QED BY <1>1 DEF SlotInv, SlotFresh, ClaimIsSound, Matches, Reached, NextAhead, RetryAhead

(* No slot is fired twice, whatever replicas, crashes, faults, PATCHes,    *)
(* run-now requests and purges do, unless next_run_at was re-armed.        *)
THEOREM ClaimsFireOnce == Spec => SlotsFireOnce
<1>1. Init => TypeOK /\ SlotInv
  BY InitType, SlotInit
<1>2. TypeOK /\ SlotInv /\ [Next]_vars => (TypeOK /\ SlotInv)'
  BY StepType, SlotStep
<1>3. TypeOK /\ SlotInv => [\A t \in tasks : Won(t) => SlotFresh(t)]_vars
  BY WinnerIsFresh
<1> QED BY <1>1, <1>2, <1>3, PTL DEF Spec, SlotsFireOnce
-----------------------------------------------------------------------------
(* A pending retry is explained by a recorded failure.  The invariant is   *)
(* inductive by itself: each writer sets or clears the columns together.   *)

Explained(row) == row.retryAt # Null => row.error /\ row.count > 0

LEMMA ExplainedStep ==
  ASSUME TypeOK, RetryExplained,
         \A j \in Jobs : Stored(j)' => \/ Stored(j) /\ rows'[j] = rows[j]
                                       \/ Explained(rows'[j])
  PROVE  RetryExplained'
BY DEF RetryExplained, Explained

LEMMA ExplainedTask ==
  ASSUME TypeOK, RetryExplained, NEW t \in tasks,
         Claim(t) \/ Execute(t) \/ Record(t) \/ Fault(t)
  PROVE  RetryExplained'
<1>1. t \in Task /\ t.job \in Jobs /\ t.snap \in Row /\ (Stored(t.job) => rows[t.job] \in Row)
  BY DEF TypeOK, Task, Stored
<1>2. CASE UNCHANGED rows
  BY <1>2, ExplainedStep DEF Stored
<1>3. CASE Claim(t) /\ Matches(t)
  <2>1. rows' = [rows EXCEPT ![t.job] = Claimed(rows[t.job], t)]
    BY <1>3 DEF Claim
  <2>2. Explained(rows'[t.job])
    BY <1>1, <1>3, <2>1 DEF Claimed, Matches, Explained, TypeOK, Row
  <2>3. \A j \in Jobs : j # t.job => rows'[j] = rows[j]
    BY <2>1 DEF TypeOK
  <2> QED BY <2>2, <2>3, ExplainedStep DEF Stored
<1>4. CASE RecordSuccess(t) /\ Stored(t.job)
  <2>1. rows' = [rows EXCEPT ![t.job].count = 0, ![t.job].retryAt = Null,
                             ![t.job].error = FALSE]
    BY <1>4 DEF RecordSuccess
  <2>2. Explained(rows'[t.job])
    BY <1>1, <1>4, <2>1 DEF Explained, TypeOK, Row
  <2>3. \A j \in Jobs : j # t.job => rows'[j] = rows[j]
    BY <2>1 DEF TypeOK
  <2> QED BY <2>2, <2>3, ExplainedStep DEF Stored
<1>5. CASE RecordFailure(t) /\ Stored(t.job)
  <2> DEFINE count == t.snap.count + 1
             at(jitter) == clock + Backoff[count] + jitter
  <2>1. count > 0
    BY <1>1 DEF Row
  <2>2. \/ rows' = [rows EXCEPT ![t.job].error = TRUE, ![t.job].count = count]
        \/ \E jitter \in 0..Jitter :
             rows' = [rows EXCEPT ![t.job].error = TRUE, ![t.job].count = count,
                                  ![t.job].retryAt = at(jitter)]
    BY <1>5 DEF RecordFailure
  <2> HIDE DEF count, at
  <2>3. rows'[t.job].error /\ rows'[t.job].count = count
    <3>1. CASE rows' = [rows EXCEPT ![t.job].error = TRUE, ![t.job].count = count]
      BY <1>1, <1>5, <3>1 DEF TypeOK, Row
    <3>2. ASSUME NEW jitter \in 0..Jitter,
                 rows' = [rows EXCEPT ![t.job].error = TRUE, ![t.job].count = count,
                                      ![t.job].retryAt = at(jitter)]
          PROVE  rows'[t.job].error /\ rows'[t.job].count = count
      BY <1>1, <1>5, <3>2 DEF TypeOK, Row
    <3> QED BY <2>2, <3>1, <3>2
  <2>4. \A j \in Jobs : j # t.job => rows'[j] = rows[j]
    BY <2>2 DEF TypeOK
  <2>5. Explained(rows'[t.job])
    BY <2>1, <2>3 DEF Explained
  <2> QED BY <2>4, <2>5, ExplainedStep DEF Stored
<1> QED BY <1>2, <1>3, <1>4, <1>5 DEF Claim, Execute, ResolveSuite, ReadLinks, CreateRuns,
          StampCases, Executing, Record, RecordSuccess, RecordFailure, RunNowEnds, Fault

LEMMA ExplainedRequest ==
  ASSUME TypeOK, RetryExplained, Admin \/ Trash \/ \E f \in fills : Backfill(f)
  PROVE  RetryExplained'
<1>1. CASE UNCHANGED rows
  BY <1>1, ExplainedStep DEF Stored
<1>2. CASE Trash
  BY <1>2, ExplainedStep DEF Trash, TrashSuite, RestoreSuite, PurgeSuite, TrashCase, Stored
<1>3. ASSUME NEW f \in fills, BackfillWrite(f), Stored(f.job) PROVE RetryExplained'
  <2>1. f.job \in Jobs /\ rows[f.job] \in Row /\ Explained(rows[f.job])
    BY <1>3 DEF TypeOK, Fill, Stored, RetryExplained, Explained
  <2>2. rows' = [rows EXCEPT ![f.job].next = f.next]
    BY <1>3 DEF BackfillWrite
  <2>3. Explained(rows'[f.job])
    BY <2>1, <2>2 DEF Explained, TypeOK, Row
  <2>4. \A j \in Jobs : j # f.job => rows'[j] = rows[j]
    BY <2>2 DEF TypeOK
  <2> QED BY <2>3, <2>4, ExplainedStep DEF Stored
<1>4. ASSUME NEW b \in NewJobs, Create(b) PROVE RetryExplained'
  <2>1. lastId + 1 \in Jobs
    BY <1>4, TimeAssumption DEF TypeOK, Create, Jobs
  <2>2. \A j \in Jobs : j # lastId + 1 => rows'[j] = rows[j]
    BY <1>4, <2>1 DEF Create, TypeOK
  <2>3. rows'[lastId + 1].retryAt = Null
    BY <1>4, <2>1 DEF Create, TypeOK, NewRow
  <2> QED BY <2>2, <2>3, ExplainedStep DEF Explained, Stored
<1>5. ASSUME NEW e \in edits, PatchWrite(e), Stored(e.job),
             rows' = [rows EXCEPT ![e.job] = Patched(rows[e.job], e)]
      PROVE  RetryExplained'
  <2>1. e.job \in Jobs /\ rows[e.job] \in Row /\ Explained(rows[e.job])
    BY <1>5 DEF TypeOK, Edit, Stored, RetryExplained, Explained
  <2>2. Explained(Patched(rows[e.job], e))
    <3>1. CASE e.clear
      BY <2>1, <3>1 DEF Patched, Cleared, Explained, Row
    <3>2. CASE ~e.clear
      BY <2>1, <3>2 DEF Patched, Explained, Row
    <3> QED BY <3>1, <3>2
  <2>3. Explained(rows'[e.job]) /\ \A j \in Jobs : j # e.job => rows'[j] = rows[j]
    BY <1>5, <2>1, <2>2 DEF TypeOK
  <2> QED BY <2>3, ExplainedStep DEF Stored
<1>6. ASSUME NEW j \in Jobs, Delete(j) PROVE RetryExplained'
  BY <1>6, ExplainedStep DEF Delete, TypeOK, Stored
<1>7. \A e \in edits : PatchWrite(e) =>
        \/ UNCHANGED rows
        \/ Stored(e.job) /\ rows' = [rows EXCEPT ![e.job] = Patched(rows[e.job], e)]
  BY DEF PatchWrite
<1>8. \A f \in fills : Backfill(f) => UNCHANGED rows \/ (BackfillWrite(f) /\ Stored(f.job))
  BY DEF Backfill, BackfillCompute, BackfillWrite
<1>9. CASE Admin
  <2>1. ASSUME NEW e \in edits, PatchWrite(e) PROVE RetryExplained'
    BY <1>1, <1>5, <1>7, <2>1
  <2>2. ASSUME NEW j \in Jobs, NEW b \in Patches, PatchRead(j, b) PROVE RetryExplained'
    BY <1>1, <2>2 DEF PatchRead
  <2>3. ASSUME NEW r \in Replicas, NEW j \in Jobs, RunNow(r, j) PROVE RetryExplained'
    BY <1>1, <2>3 DEF RunNow
  <2> QED BY <1>4, <1>6, <1>9, <2>1, <2>2, <2>3 DEF Admin
<1> QED BY <1>1, <1>2, <1>3, <1>8, <1>9

(* For any number of replicas and whatever admins do meanwhile, no retry   *)
(* is ever pending without the failure that caused it.                     *)
THEOREM RetriesExplained == Spec => []RetryExplained
<1>1. Init => TypeOK /\ RetryExplained
  BY InitType DEF Init, RetryExplained, NewRow, Stored
<1>2. TypeOK /\ RetryExplained /\ [Next]_vars => (TypeOK /\ RetryExplained)'
  <2> SUFFICES ASSUME TypeOK, RetryExplained, [Next]_vars PROVE RetryExplained'
    BY StepType
  <2>1. CASE UNCHANGED rows
    BY <2>1, ExplainedStep DEF Stored
  <2>2. \A r \in Replicas : Process(r) \/ Outage(r) => UNCHANGED rows
    BY DEF Process, Boot, Tick, Plan, TickEnd, Outage, Crash, BackfillFails
  <2> QED BY <2>1, <2>2, ExplainedTask, ExplainedRequest DEF Next, TimePasses, vars
<1> QED BY <1>1, <1>2, PTL DEF Spec
-----------------------------------------------------------------------------
(* One process runs a job once at a time.  The flag carries it: while a    *)
(* scheduled fire of a process is under way its ticking flag is up, so the *)
(* next interval reads nothing; every later step of a fire replaces its    *)
(* own task.                                                               *)

FlagUp == \A t \in tasks : t.trigger = "scheduler" => ticking[t.by]
FireInv == OneFirePerProcess /\ FlagUp

(* Steps that start no scheduled fire and lower no flag.                   *)
LEMMA FireQuiet ==
  ASSUME TypeOK, FireInv, UNCHANGED ticking,
         \A t \in tasks' : t \in tasks \/ t.trigger = "manual"
  PROVE  FireInv'
BY DEF FireInv, OneFirePerProcess, FlagUp

(* Steps that move one fire on, under its own process and job.             *)
LEMMA FireMoves ==
  ASSUME TypeOK, FireInv, UNCHANGED ticking, NEW t \in tasks, NEW next,
         tasks' \subseteq (tasks \ {t}) \cup {next},
         next.by = t.by, next.job = t.job, next.trigger = t.trigger
  PROVE  FireInv'
BY DEF FireInv, OneFirePerProcess, FlagUp

LEMMA FireProcess == ASSUME TypeOK, FireInv, NEW r \in Replicas, Process(r) PROVE FireInv'
<1>1. CASE Boot(r)
  BY <1>1, FireQuiet DEF Boot
<1>2. CASE Tick(r)
  <2> DEFINE Read(j) == [by |-> r, trigger |-> "scheduler", job |-> j, phase |-> "read",
                         snap |-> rows[j], kind |-> "cron", next |-> Null, cases |-> {},
                         wrote |-> FALSE]
             candidates == {j \in Jobs : Stored(j) /\ Due(rows[j])}
  <2>1. tasks' = tasks \cup {Read(j) : j \in candidates}
    BY <1>2 DEF Tick
  <2>2. \A j : Read(j).by = r /\ Read(j).job = j
    OBVIOUS
  <2> HIDE DEF Read, candidates
  <2>3. ~ticking[r] /\ ticking' = [ticking EXCEPT ![r] = TRUE]
    BY <1>2 DEF Tick, MayTick
  <2>4. \A t \in tasks : t.trigger = "scheduler" => t.by # r
    BY <2>3 DEF FireInv, FlagUp
  <2>5. FlagUp'
    BY <2>1, <2>2, <2>3 DEF FireInv, FlagUp, TypeOK, Task
  <2>6. OneFirePerProcess'
    BY <2>1, <2>2, <2>4 DEF FireInv, OneFirePerProcess
  <2> QED BY <2>5, <2>6 DEF FireInv
<1>3. CASE Plan(r)
  <2> DEFINE read == {t \in SchedulerTasks(r) : t.phase = "read"}
  <2>1. \A t \in read : /\ t \in tasks /\ Planned(t).by = t.by /\ Planned(t).job = t.job
                        /\ Planned(t).trigger = t.trigger
    <3> SUFFICES ASSUME NEW t \in read
                 PROVE  /\ t \in tasks /\ Planned(t).by = t.by /\ Planned(t).job = t.job
                        /\ Planned(t).trigger = t.trigger
      OBVIOUS
    <3>1. t \in tasks /\ t \in Task
      BY DEF SchedulerTasks, TasksOf, TypeOK
    <3>2. \A kind, next : LET p == [t EXCEPT !.phase = "claim", !.kind = kind, !.next = next]
                          IN  p.by = t.by /\ p.job = t.job /\ p.trigger = t.trigger
      BY <3>1 DEF Task
    <3> QED BY <3>1, <3>2 DEF Planned
  <2>2. tasks' \subseteq (tasks \ read) \cup {Planned(t) : t \in read} /\ UNCHANGED ticking
    BY <1>3 DEF Plan
  <2> HIDE DEF read
  <2>3. \A p \in tasks' : \E t \in tasks :
           /\ p.by = t.by /\ p.job = t.job /\ p.trigger = t.trigger
           /\ p = IF t \in read THEN Planned(t) ELSE t
    BY <2>1, <2>2
  <2> QED BY <2>2, <2>3 DEF FireInv, OneFirePerProcess, FlagUp
<1>4. CASE TickEnd(r)
  BY <1>4 DEF TickEnd, SchedulerTasks, TasksOf, FireInv, OneFirePerProcess, FlagUp, TypeOK, Task
<1> QED BY <1>1, <1>2, <1>3, <1>4 DEF Process

LEMMA FireTask ==
  ASSUME TypeOK, FireInv, NEW t \in tasks, Claim(t) \/ Execute(t) \/ Record(t) \/ Fault(t)
  PROVE  FireInv'
<1>1. t \in Task
  BY DEF TypeOK
<1>2. UNCHANGED ticking
  BY DEF Claim, Execute, ResolveSuite, ReadLinks, CreateRuns, StampCases, Executing,
         Record, RecordSuccess, RecordFailure, RunNowEnds, Fault
<1>3. CASE Finish(t)
  BY <1>2, <1>3, FireQuiet DEF Finish
<1>4. ASSUME NEW phase, Step(t, phase) PROVE FireInv'
  <2>1. LET next == [t EXCEPT !.phase = phase]
        IN  next.by = t.by /\ next.job = t.job /\ next.trigger = t.trigger
    BY <1>1 DEF Task
  <2> QED BY <1>2, <1>4, <2>1, FireMoves DEF Step
<1>5. CASE ReadLinks(t)
  <2>1. PICK phase, ids : tasks' = (tasks \ {t}) \cup {[t EXCEPT !.phase = phase, !.cases = ids]}
    BY <1>5 DEF ReadLinks
  <2> DEFINE next == [t EXCEPT !.phase = phase, !.cases = ids]
  <2>2. next.by = t.by /\ next.job = t.job /\ next.trigger = t.trigger
    BY <1>1 DEF Task
  <2> HIDE DEF next
  <2>3. tasks' \subseteq (tasks \ {t}) \cup {next}
    BY <2>1 DEF next
  <2> QED BY <1>2, <2>2, <2>3, FireMoves
<1>6. CASE CreateRuns(t)
  <2>1. LET next == [t EXCEPT !.phase = "stamp", !.wrote = TRUE]
        IN  next.by = t.by /\ next.job = t.job /\ next.trigger = t.trigger
    BY <1>1 DEF Task
  <2> QED BY <1>2, <1>6, <2>1, FireMoves DEF CreateRuns
<1>7. \/ Finish(t) \/ ReadLinks(t) \/ CreateRuns(t)
      \/ Step(t, "suite") \/ Step(t, "links") \/ Step(t, "failure") \/ Step(t, "success")
  BY DEF Claim, Lost, Execute, ResolveSuite, StampCases, Record, RecordSuccess,
         RecordFailure, RunNowEnds, Fault
<1> QED BY <1>3, <1>4, <1>5, <1>6, <1>7

LEMMA FireStep == TypeOK /\ FireInv /\ [Next]_vars => FireInv'
<1> SUFFICES ASSUME TypeOK, FireInv, [Next]_vars PROVE FireInv'
  OBVIOUS
<1>1. ASSUME NEW r \in Replicas, Outage(r) PROVE FireInv'
  <2>0. CASE BackfillFails(r)
    BY <2>0, FireQuiet DEF BackfillFails
  <2>1. CASE Crash(r)
    <3>1. tasks' = tasks \ TasksOf(r) /\ ticking' = [ticking EXCEPT ![r] = FALSE]
      BY <2>1 DEF Crash
    <3> QED BY <3>1 DEF TasksOf, FireInv, OneFirePerProcess, FlagUp, TypeOK, Task
  <2> QED BY <1>1, <2>0, <2>1 DEF Outage
<1>2. ASSUME NEW r \in Replicas, NEW j \in Jobs, RunNow(r, j) PROVE FireInv'
  BY <1>2, FireQuiet DEF RunNow
<1>3. CASE UNCHANGED <<tasks, ticking>>
  BY <1>3, FireQuiet
<1>4. \A f \in fills : Backfill(f) => UNCHANGED <<tasks, ticking>>
  BY DEF Backfill, BackfillCompute, BackfillWrite
<1>5. Trash \/ TimePasses => UNCHANGED <<tasks, ticking>>
  BY DEF Trash, TrashSuite, RestoreSuite, PurgeSuite, TrashCase, TimePasses
<1>6. Admin => \/ UNCHANGED <<tasks, ticking>>
               \/ \E r \in Replicas, j \in Jobs : RunNow(r, j)
  BY DEF Admin, Create, PatchRead, PatchWrite, Delete
<1> QED BY <1>1, <1>2, <1>3, <1>4, <1>5, <1>6, FireProcess, FireTask DEF Next, vars

LEMMA FireInvariant == Spec => [](TypeOK /\ FireInv)
<1>1. Init => TypeOK /\ FireInv
  BY InitType DEF Init, FireInv, OneFirePerProcess, FlagUp
<1>2. TypeOK /\ FireInv /\ [Next]_vars => (TypeOK /\ FireInv)'
  BY StepType, FireStep
<1> QED BY <1>1, <1>2, PTL DEF Spec

(* However long a fire takes and whenever the interval timer strikes, a    *)
(* process never has two scheduled fires of one job under way (tick).      *)
THEOREM NoOverlap == Spec => []OneFirePerProcess
BY FireInvariant, PTL DEF FireInv
-----------------------------------------------------------------------------
(* A success erases no retry of its own process.  The claim of a fire      *)
(* clears retry_at, and no other fire of the job runs in its process until *)
(* it has ended: what is pending when it succeeds was scheduled by another *)
(* process, as the history variable retriedBy remembers.                   *)

Past(t) == t.trigger = "scheduler" /\ t.phase \notin {"read", "claim"}

ForeignPending ==
  \A t \in tasks : Past(t) /\ Stored(t.job) /\ rows[t.job].retryAt # Null
                     => retriedBy[t.job] # t.by

(* Steps that leave every retry_at alone or clear it.                      *)
LEMMA PendingQuiet ==
  ASSUME TypeOK, ForeignPending, UNCHANGED retriedBy,
         \A j \in Jobs : Stored(j)' => \/ Stored(j) /\ rows'[j].retryAt = rows[j].retryAt
                                       \/ rows'[j].retryAt = Null,
         \A t \in tasks' :
           Past(t) => \E u \in tasks : Past(u) /\ u.job = t.job /\ u.by = t.by
  PROVE  ForeignPending'
<1> SUFFICES ASSUME NEW t \in tasks', Past(t), Stored(t.job)', rows'[t.job].retryAt # Null
             PROVE  retriedBy[t.job] # t.by
  BY DEF ForeignPending, Past
<1>1. PICK u \in tasks : Past(u) /\ u.job = t.job /\ u.by = t.by
  OBVIOUS
<1>2. t.job \in Jobs
  BY <1>1 DEF TypeOK, Task
<1> QED BY <1>1, <1>2 DEF ForeignPending

LEMMA PendingRequest ==
  ASSUME TypeOK, ForeignPending, Admin \/ Trash \/ \E f \in fills : Backfill(f)
  PROVE  ForeignPending'
<1>1. \A t \in tasks' : Past(t) => \E u \in tasks : Past(u) /\ u.job = t.job /\ u.by = t.by
  <2>1. tasks' = tasks \/ \E r \in Replicas, j \in Jobs : RunNow(r, j)
    BY DEF Admin, Create, PatchRead, PatchWrite, Delete, Trash, TrashSuite, RestoreSuite,
           PurgeSuite, TrashCase, Backfill, BackfillCompute, BackfillWrite
  <2>2. ASSUME NEW r \in Replicas, NEW j \in Jobs, RunNow(r, j)
        PROVE  \A t \in tasks' : Past(t) => \E u \in tasks : Past(u) /\ u.job = t.job /\ u.by = t.by
    BY <2>2 DEF RunNow, Past
  <2> QED BY <2>1, <2>2
<1>0. UNCHANGED retriedBy
  BY DEF Admin, Create, PatchRead, PatchWrite, Delete, RunNow, Trash, TrashSuite,
         RestoreSuite, PurgeSuite, TrashCase, Backfill, BackfillCompute, BackfillWrite, history
<1> USE <1>0
<1>2. CASE UNCHANGED rows
  BY <1>1, <1>2, PendingQuiet DEF Stored
<1>3. CASE Trash
  BY <1>1, <1>3, PendingQuiet DEF Trash, TrashSuite, RestoreSuite, PurgeSuite, TrashCase, Stored
<1>4. ASSUME NEW f \in fills, BackfillWrite(f), Stored(f.job) PROVE ForeignPending'
  <2>1. rows' = [rows EXCEPT ![f.job].next = f.next]
    BY <1>4 DEF BackfillWrite
  <2>2. \A j \in Jobs : Stored(j)' => Stored(j) /\ rows'[j].retryAt = rows[j].retryAt
    BY <1>4, <2>1 DEF TypeOK, Fill, Stored, Row
  <2> QED BY <1>1, <2>2, PendingQuiet
<1>5. ASSUME NEW b \in NewJobs, Create(b) PROVE ForeignPending'
  <2>1. lastId + 1 \in Jobs
    BY <1>5, TimeAssumption DEF TypeOK, Create, Jobs
  <2>2. \A j \in Jobs : j # lastId + 1 => rows'[j] = rows[j]
    BY <1>5, <2>1 DEF Create, TypeOK
  <2>3. rows'[lastId + 1].retryAt = Null
    BY <1>5, <2>1 DEF Create, TypeOK, NewRow
  <2> QED BY <1>1, <2>2, <2>3, PendingQuiet DEF Stored
<1>6. ASSUME NEW e \in edits, PatchWrite(e), Stored(e.job),
             rows' = [rows EXCEPT ![e.job] = Patched(rows[e.job], e)]
      PROVE  ForeignPending'
  <2>1. e.job \in Jobs /\ rows[e.job] \in Row
    BY <1>6 DEF TypeOK, Edit, Stored
  <2>2. Patched(rows[e.job], e).retryAt \in {Null, rows[e.job].retryAt}
    <3>1. CASE e.clear
      BY <2>1, <3>1 DEF Patched, Cleared, Row
    <3>2. CASE ~e.clear
      BY <2>1, <3>2 DEF Patched, Row
    <3> QED BY <3>1, <3>2
  <2>3. /\ rows'[e.job].retryAt \in {Null, rows[e.job].retryAt}
        /\ \A j \in Jobs : j # e.job => rows'[j] = rows[j]
    BY <1>6, <2>1, <2>2 DEF TypeOK
  <2> QED BY <1>1, <1>6, <2>3, PendingQuiet DEF Stored
<1>7. ASSUME NEW j \in Jobs, Delete(j) PROVE ForeignPending'
  BY <1>1, <1>7, PendingQuiet DEF Delete, TypeOK, Stored
<1>8. \A e \in edits : PatchWrite(e) =>
        \/ UNCHANGED rows
        \/ Stored(e.job) /\ rows' = [rows EXCEPT ![e.job] = Patched(rows[e.job], e)]
  BY DEF PatchWrite
<1>9. \A f \in fills : Backfill(f) => UNCHANGED rows \/ (BackfillWrite(f) /\ Stored(f.job))
  BY DEF Backfill, BackfillCompute, BackfillWrite
<1>10. CASE Admin
  <2>1. ASSUME NEW e \in edits, PatchWrite(e) PROVE ForeignPending'
    BY <1>2, <1>6, <1>8, <2>1
  <2>2. ASSUME NEW j \in Jobs, NEW b \in Patches, PatchRead(j, b) PROVE ForeignPending'
    BY <1>2, <2>2 DEF PatchRead
  <2>3. ASSUME NEW r \in Replicas, NEW j \in Jobs, RunNow(r, j) PROVE ForeignPending'
    BY <1>2, <2>3 DEF RunNow
  <2> QED BY <1>5, <1>7, <1>10, <2>1, <2>2, <2>3 DEF Admin
<1> QED BY <1>2, <1>3, <1>4, <1>9, <1>10

LEMMA PendingProcess ==
  ASSUME TypeOK, ForeignPending, NEW r \in Replicas, Process(r) \/ Outage(r)
  PROVE  ForeignPending'
<1>1. \A t \in tasks' : Past(t) => t \in tasks
  <2>1. CASE Plan(r)
    <3> DEFINE read == {t \in SchedulerTasks(r) : t.phase = "read"}
    <3>1. \A t \in read : Planned(t).phase = "claim"
      <4> SUFFICES ASSUME NEW t \in read PROVE Planned(t).phase = "claim"
        OBVIOUS
      <4>1. t \in Task
        BY DEF SchedulerTasks, TasksOf, TypeOK
      <4>2. \A kind, next : [t EXCEPT !.phase = "claim", !.kind = kind, !.next = next].phase
                              = "claim"
        BY <4>1 DEF Task
      <4> QED BY <4>2 DEF Planned
    <3>2. tasks' \subseteq tasks \cup {Planned(t) : t \in read}
      BY <2>1 DEF Plan
    <3> QED BY <3>1, <3>2 DEF Past
  <2>2. CASE Tick(r)
    BY <2>2 DEF Tick, Past
  <2> QED BY <2>1, <2>2 DEF Process, Boot, TickEnd, Outage, Crash, BackfillFails
<1>2. UNCHANGED <<rows, retriedBy>>
  BY DEF Process, Boot, Tick, Plan, TickEnd, Outage, Crash, BackfillFails, history
<1> QED BY <1>1, <1>2, PendingQuiet DEF Stored

(* The steps of a fire, given that no other fire of its job is under way   *)
(* in its process.                                                         *)
LEMMA PendingTask ==
  ASSUME TypeOK, ForeignPending, NEW t \in tasks,
         \A u \in tasks : u.by = t.by /\ u.job = t.job /\ u.trigger = "scheduler"
                            /\ t.trigger = "scheduler" => u = t,
         Claim(t) \/ Execute(t) \/ Record(t) \/ Fault(t)
  PROVE  ForeignPending'
<1>1. t \in Task /\ t.job \in Jobs /\ t.snap \in Row /\ (Stored(t.job) => rows[t.job] \in Row)
  BY DEF TypeOK, Task, Stored
<1>2. ASSUME UNCHANGED <<rows, retriedBy>>, t.phase \notin {"read", "claim"}, NEW u,
             u.job = t.job, u.by = t.by, u.trigger = t.trigger,
             tasks' \subseteq (tasks \ {t}) \cup {u}
      PROVE  ForeignPending'
  BY <1>2, PendingQuiet DEF Past, Stored
<1>3. CASE UNCHANGED <<rows, retriedBy>> /\ Finish(t)
  BY <1>3, PendingQuiet DEF Finish, Stored
<1>4. ASSUME NEW phase, UNCHANGED <<rows, retriedBy>>, Step(t, phase), t.phase \notin {"read", "claim"}
      PROVE  ForeignPending'
  <2>1. LET u == [t EXCEPT !.phase = phase]
        IN  u.job = t.job /\ u.by = t.by /\ u.trigger = t.trigger
    BY <1>1 DEF Task
  <2> QED BY <1>2, <1>4, <2>1 DEF Step
<1>5. CASE Claim(t) /\ Matches(t)
  <2>1. /\ rows' = [rows EXCEPT ![t.job] = Claimed(rows[t.job], t)]
        /\ tasks' = (tasks \ {t}) \cup {[t EXCEPT !.phase = "suite"]}
        /\ UNCHANGED retriedBy
    BY <1>5 DEF Claim, Step
  <2>2. rows'[t.job].retryAt = Null
    BY <1>1, <1>5, <2>1 DEF Claimed, Matches, TypeOK, Row
  <2>3. \A j \in Jobs : j # t.job => rows'[j] = rows[j]
    BY <2>1 DEF TypeOK
  <2>4. [t EXCEPT !.phase = "suite"].job = t.job
    BY <1>1 DEF Task
  <2>5. \A u \in tasks' : u.job \in Jobs
    BY <1>1, <2>1, <2>4 DEF TypeOK, Task
  <2> QED BY <1>1, <2>1, <2>2, <2>3, <2>4, <2>5 DEF ForeignPending, Past, Stored
<1>6. CASE RecordSuccess(t) /\ Stored(t.job)
  <2>1. /\ rows' = [rows EXCEPT ![t.job].count = 0, ![t.job].retryAt = Null,
                                ![t.job].error = FALSE]
        /\ tasks' = tasks \ {t}
        /\ UNCHANGED retriedBy
    BY <1>6 DEF RecordSuccess, Finish, history
  <2>2. rows'[t.job].retryAt = Null
    BY <1>1, <1>6, <2>1 DEF TypeOK, Row
  <2>3. \A j \in Jobs : j # t.job => rows'[j] = rows[j]
    BY <2>1 DEF TypeOK
  <2> QED BY <2>1, <2>2, <2>3, PendingQuiet DEF Stored
<1>7. CASE RecordFailure(t) /\ Stored(t.job)
  <2>1. t.trigger = "scheduler" /\ tasks' = tasks \ {t}
    BY <1>7 DEF RecordFailure, Finish
  <2>2. \A j \in Jobs : j # t.job => rows'[j] = rows[j] /\ retriedBy'[j] = retriedBy[j]
    BY <1>7 DEF RecordFailure, TypeOK
  <2>3. \A u \in tasks' : Past(u) => u.job \in Jobs /\ ~(u.job = t.job /\ u.by = t.by)
    BY <2>1 DEF Past, TypeOK, Task
  <2>4. \/ /\ rows'[t.job].retryAt = rows[t.job].retryAt
           /\ retriedBy'[t.job] = retriedBy[t.job]
        \/ retriedBy'[t.job] = t.by
    BY <1>1, <1>7 DEF RecordFailure, TypeOK, Row
  <2>5. Stored(t.job)
    BY <1>7
  <2> QED BY <2>1, <2>2, <2>3, <2>4, <2>5 DEF ForeignPending, Past, Stored
<1>8. CASE ReadLinks(t)
  <2>1. \E phase, ids : tasks' = (tasks \ {t}) \cup {[t EXCEPT !.phase = phase, !.cases = ids]}
    BY <1>8 DEF ReadLinks
  <2>2. \A phase, ids : LET u == [t EXCEPT !.phase = phase, !.cases = ids]
                        IN  u.job = t.job /\ u.by = t.by /\ u.trigger = t.trigger
    BY <1>1 DEF Task
  <2>3. UNCHANGED <<rows, retriedBy>> /\ t.phase \notin {"read", "claim"}
    BY <1>8 DEF ReadLinks, Executing, history
  <2> QED BY <1>2, <2>1, <2>2, <2>3
<1>9. CASE CreateRuns(t)
  <2>1. LET u == [t EXCEPT !.phase = "stamp", !.wrote = TRUE]
        IN  u.job = t.job /\ u.by = t.by /\ u.trigger = t.trigger
    BY <1>1 DEF Task
  <2>2. UNCHANGED <<rows, retriedBy>> /\ t.phase \notin {"read", "claim"}
    BY <1>9 DEF CreateRuns, Executing, history
  <2> QED BY <1>2, <1>9, <2>1, <2>2 DEF CreateRuns
<1>10. CASE ResolveSuite(t) \/ StampCases(t)
  BY <1>4, <1>10 DEF ResolveSuite, StampCases, Executing, history
<1>11. CASE Fault(t)
  BY <1>3, <1>4, <1>11 DEF Fault, history
<1>12. CASE Record(t) /\ ~(RecordSuccess(t) /\ Stored(t.job)) /\ ~(RecordFailure(t) /\ Stored(t.job))
  BY <1>3, <1>4, <1>12 DEF Record, RecordSuccess, RecordFailure, RunNowEnds, history
<1>13. CASE Claim(t) /\ ~Matches(t)
  BY <1>3, <1>13 DEF Claim, Lost, history
<1> QED BY <1>5, <1>6, <1>7, <1>8, <1>9, <1>10, <1>11, <1>12, <1>13 DEF Execute

(* For any number of processes, a success never erases a retry that its    *)
(* own process has scheduled, whatever faults, crashes and admin requests  *)
(* come in between (recordSuccess, which writes by id).  That it may erase *)
(* one of another process is what the code does, and why the theorem says  *)
(* whose retry it is.                                                      *)
THEOREM ErasesNoOwnRetry == Spec => OwnRetriesKept
<1>1. Init => ForeignPending
  BY DEF Init, ForeignPending
<1>2. TypeOK /\ FireInv /\ ForeignPending /\ [Next]_vars => ForeignPending'
  <2> SUFFICES ASSUME TypeOK, FireInv, ForeignPending, [Next]_vars PROVE ForeignPending'
    OBVIOUS
  <2>1. CASE UNCHANGED <<rows, tasks, retriedBy>>
    BY <2>1, PendingQuiet DEF Stored
  <2>2. \A t, u \in tasks : u.by = t.by /\ u.job = t.job /\ u.trigger = "scheduler"
                              /\ t.trigger = "scheduler" => u = t
    BY DEF FireInv, OneFirePerProcess
  <2> QED BY <2>1, <2>2, PendingProcess, PendingTask, PendingRequest
          DEF Next, TimePasses, vars, history
<1>3. ForeignPending => \A t \in tasks :
        RecordSuccess(t) /\ Stored(t.job) /\ rows[t.job].retryAt # Null
          => retriedBy[t.job] # t.by
  BY DEF ForeignPending, Past, RecordSuccess
<1> QED BY <1>1, <1>2, <1>3, FireInvariant, PTL DEF Spec, OwnRetriesKept
=============================================================================
