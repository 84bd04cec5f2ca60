----------------------------- MODULE Scheduler -----------------------------
(***************************************************************************)
(* The cron scheduler: the in-process loop of middleware/schedulerLoop.js, *)
(* the /scheduled-jobs routes of routes/scheduledJobs.js, and the          *)
(* scheduled_jobs table they share.  Several API replicas may run the loop *)
(* against one Postgres.  Every `await` on the database is a point where   *)
(* another process, an admin request or a crash can come in between, so a  *)
(* handler is one action per stretch of code between two awaits, and what  *)
(* it read earlier travels with it in its task record.                     *)
(*                                                                         *)
(* Time is a clock in scheduler units shared by all processes.  The text   *)
(* of a cron expression is abstracted to the set of instants it matches.   *)
(***************************************************************************)
EXTENDS Integers, FiniteSets

CONSTANTS
  MaxJobs,      \* ids the scheduled_jobs sequence can hand out
  Replicas,     \* API processes that run the loop
  Suites, Cases,
  Members,      \* suite -> its member cases (test_suite_cases)
  Crons,        \* cron expressions the zod schema accepts
  Zones, UTC,   \* timezone strings; any string of 1..60 characters is accepted
  Fires,        \* cron -> zone -> the instants the expression matches there
  Horizon,      \* nextFire gives up this long after its start (366 days)
  MaxRetries,   \* the schema's upper bound on max_retries
  Backoff,      \* retry number -> min(cap, 2^n) minutes
  Jitter,       \* largest random addition to the backoff
  NewJobs,      \* bodies of POST /scheduled-jobs
  Patches,      \* bodies of PATCH /scheduled-jobs/:id
  LegacyRow,    \* the fields of a row stored before next_run_at existed
  Starts,       \* how many such rows there are (it is NULL there), and how
                \* often each kind of disturbance may happen: one is taken
  NoRow,        \* no row has this id
  Keep          \* a PATCH body leaves this field out

Null == -1      \* SQL NULL, for the nullable DateTime columns
Jobs == 1..MaxJobs
Instant == Nat \cup {Null}

(* The columns of scheduled_jobs that decide anything.  last_error is kept *)
(* as "is set"; name, project, author and last_run_at are left out.        *)
Row == [enabled : BOOLEAN, cron : Crons, zone : Zones, suite : Suites,
        max : 0..MaxRetries, next : Instant, retryAt : Instant,
        count : Nat, error : BOOLEAN]

Body == [enabled : BOOLEAN, cron : Crons, zone : Zones, suite : Suites,
         max : 0..MaxRetries]

PatchBody == [enabled : BOOLEAN \cup {Keep}, cron : Crons \cup {Keep},
              zone : Zones \cup {Keep}, suite : Suites \cup {Keep},
              max : (0..MaxRetries) \cup {Keep}]

(* A fire under way in one process: the row as tick (or the run-now route) *)
(* read it, and what the code has computed from it since.                  *)
Phases == {"read", "claim", "suite", "links", "create", "stamp",
           "success", "failure"}
Task == [by : Replicas, trigger : {"scheduler", "manual"}, job : Jobs,
         phase : Phases, snap : Row, kind : {"cron", "retry"},
         next : Instant, cases : SUBSET Cases, wrote : BOOLEAN]

(* A PATCH between its reads and its UPDATE; recomputeAllDue likewise.     *)
Edit == [job : Jobs, body : PatchBody, next : Nat \cup {Keep}, clear : BOOLEAN]
Fill == [by : Replicas, job : Jobs, cron : Crons, next : Instant]

(* What happens a bounded number of times; the clock stops after "tick".   *)
Disturbances ==
  {"create", "edit", "delete", "manual", "fault", "crash", "trash", "purge", "tick"}
Start == [legacy : 0..MaxJobs, budget : [Disturbances -> Nat]]

ASSUME ReplicasAssumption == Replicas # {}
ASSUME TimeAssumption ==
  /\ Horizon \in Nat /\ Jitter \in Nat
  /\ MaxJobs \in Nat /\ MaxRetries \in Nat
  /\ Backoff \in [1..MaxRetries -> Nat \ {0}]
ASSUME CronAssumption == Fires \in [Crons -> [Zones -> SUBSET Nat]]
ASSUME ZoneAssumption == UTC \in Zones
ASSUME BodyAssumption == NewJobs \subseteq Body /\ Patches \subseteq PatchBody
ASSUME SuiteAssumption == Members \in [Suites -> SUBSET Cases]
ASSUME LegacyAssumption == LegacyRow \in Body
ASSUME StartAssumption == Starts \subseteq Start
ASSUME MarkAssumption ==
  /\ NoRow \notin Row
  /\ Keep \notin Crons \cup Zones \cup Suites \cup BOOLEAN \cup Int

VARIABLES
  clock,       \* what new Date() returns, in every process
  rows,        \* the scheduled_jobs table
  lastId,      \* its id sequence: ids are never reused
  liveSuites,  \* suites whose deleted_at is NULL
  storedSuites,\* suites that still have a row at all
  liveCases,   \* cases whose deleted_at is NULL
  up,          \* processes that are running
  ticking,     \* the re-entrancy flag of each process
  tasks,       \* fires under way
  edits,       \* PATCH requests between read and write
  fills,       \* boot-time backfills between read and write
  left,        \* what is left of the budget taken
  firedCron,   \* history: the cron slot of the job claimed last
  firedRetry,  \* history: the retry slot of the job claimed last
  rearmed,     \* history: next_run_at was last written by a PATCH or a
               \* backfill that was decided before the last claim or could be
  retriedBy,   \* history: the process whose fire wrote retry_at last
  cut          \* history: processes whose backfill ended before its last row

vars == <<clock, rows, lastId, liveSuites, storedSuites, liveCases, up,
          ticking, tasks, edits, fills, left, firedCron, firedRetry, rearmed,
          retriedBy, cut>>

suiteVars == <<liveSuites, storedSuites, liveCases>>
history == <<firedCron, firedRetry, rearmed, retriedBy, cut>>

-----------------------------------------------------------------------------
(* nextFire walks forward minute by minute: the first instant strictly     *)
(* after t that matches, or null at the horizon.  An unknown zone matches  *)
(* nothing: the code throws there, and every caller treats a throw and a   *)
(* null alike.                                                             *)
NextFire(c, z, t) ==
  LET later == {f \in Fires[c][z] : t < f /\ f < t + Horizon}
  IN  IF later = {} THEN Null
      ELSE CHOOSE f \in later : \A g \in later : f <= g

Reached(instant) == instant # Null /\ instant <= clock

(* The WHERE of tick's findMany.                                           *)
Due(row) == row.enabled /\ (Reached(row.next) \/ Reached(row.retryAt))

Stored(j) == rows[j] # NoRow

Spend(what) ==
  /\ left[what] > 0
  /\ left' = [left EXCEPT ![what] = @ - 1]

TasksOf(r) == {t \in tasks : t.by = r}
SchedulerTasks(r) == {t \in TasksOf(r) : t.trigger = "scheduler"}

Step(t, phase) == tasks' = (tasks \ {t}) \cup {[t EXCEPT !.phase = phase]}
Finish(t) == tasks' = tasks \ {t}

NewRow(b, next) ==
  [enabled |-> b.enabled, cron |-> b.cron, zone |-> b.zone, suite |-> b.suite,
   max |-> b.max, next |-> next, retryAt |-> Null, count |-> 0, error |-> FALSE]

Init ==
  /\ clock = 0
  /\ \E start \in Starts :
       /\ rows = [j \in Jobs |-> IF j <= start.legacy THEN NewRow(LegacyRow, Null) ELSE NoRow]
       /\ lastId = start.legacy
       /\ left = start.budget
  /\ liveSuites = Suites
  /\ storedSuites = Suites
  /\ liveCases = Cases
  /\ up = [r \in Replicas |-> FALSE]
  /\ ticking = [r \in Replicas |-> FALSE]
  /\ tasks = {} /\ edits = {} /\ fills = {}
  /\ firedCron = [j \in Jobs |-> Null]
  /\ firedRetry = [j \in Jobs |-> Null]
  /\ rearmed = [j \in Jobs |-> FALSE]
  /\ retriedBy = [j \in Jobs |-> Null] /\ cut = {}

-----------------------------------------------------------------------------
(* Process lifetime.                                                       *)

(* Mutant: the query asks for overdue rows; NULL is never overdue.         *)
NeedsBackfillOverdue(row) == row.enabled /\ Reached(row.next)

NeedsBackfill(row) == row.enabled /\ row.next = Null

(* startScheduler: recomputeAllDue reads the enabled rows without a        *)
(* next_run_at.  Ticks may begin at once (setInterval does not wait).      *)
Boot(r) ==
  /\ ~up[r]
  /\ up' = [up EXCEPT ![r] = TRUE]
  /\ fills' = fills \cup
       {[by |-> r, job |-> j, cron |-> rows[j].cron, next |-> Null] :
          j \in {i \in Jobs : Stored(i) /\ NeedsBackfill(rows[i])}}
  /\ cut' = cut \ {r}
  /\ UNCHANGED <<clock, rows, lastId, suiteVars, ticking, tasks, edits, left,
                 firedCron, firedRetry, rearmed, retriedBy>>

(* One turn of the backfill loop, up to its UPDATE.  The query selects id  *)
(* and cron only, so j.timezone is undefined and the UTC branch is taken.  *)
BackfillCompute(f) ==
  /\ f \in fills
  /\ \A g \in fills : g.by = f.by => g.next = Null
  /\ LET next == NextFire(f.cron, UTC, clock)
     IN  fills' = (fills \ {f}) \cup
                  (IF next = Null THEN {} ELSE {[f EXCEPT !.next = next]})
  /\ UNCHANGED <<clock, rows, lastId, suiteVars, up, ticking, tasks, edits, left, history>>

(* An error anywhere in recomputeAllDue is only logged: the rows it had    *)
(* not come to keep their NULL until some process boots again.             *)
CutShort(r) ==
  /\ fills' = {g \in fills : g.by # r}
  /\ cut' = cut \cup {r}

(* The UPDATE is by id alone; a deleted row makes it throw.                *)
BackfillWrite(f) ==
  /\ f \in fills /\ f.next # Null
  /\ IF Stored(f.job)
       THEN /\ rows' = [rows EXCEPT ![f.job].next = f.next]
            /\ rearmed' = [rearmed EXCEPT ![f.job] = TRUE]
            /\ fills' = fills \ {f}
            /\ UNCHANGED cut
       ELSE CutShort(f.by) /\ UNCHANGED <<rows, rearmed>>
  /\ UNCHANGED <<clock, lastId, suiteVars, up, ticking, tasks, edits, left,
                 firedCron, firedRetry, retriedBy>>

(* A statement of the backfill is refused.                                 *)
BackfillFails(r) ==
  /\ \E f \in fills : f.by = r
  /\ Spend("fault")
  /\ CutShort(r)
  /\ UNCHANGED <<clock, rows, lastId, suiteVars, up, ticking, tasks, edits,
                 firedCron, firedRetry, rearmed, retriedBy>>

(* process.exit from a signal or an uncaught error: nothing is awaited, and *)
(* whatever the process was doing is gone.                                  *)
Crash(r) ==
  /\ up[r] /\ Spend("crash")
  /\ up' = [up EXCEPT ![r] = FALSE]
  /\ ticking' = [ticking EXCEPT ![r] = FALSE]
  /\ tasks' = tasks \ TasksOf(r)
  /\ fills' = {f \in fills : f.by # r}
  /\ UNCHANGED <<clock, rows, lastId, suiteVars, edits, history>>

-----------------------------------------------------------------------------
(* The loop.                                                               *)

(* Mutant: ticks of one process may overlap.                               *)
MayTickAlways(r) == up[r]

MayTick(r) == up[r] /\ ~ticking[r]

(* tick up to the result of findMany.  A tick that finds nothing resets    *)
(* the flag at once and changes nothing.                                   *)
Tick(r) ==
  LET candidates == {j \in Jobs : Stored(j) /\ Due(rows[j])}
  IN  /\ MayTick(r)
      /\ candidates # {}
      /\ ticking' = [ticking EXCEPT ![r] = TRUE]
      /\ tasks' = tasks \cup
           {[by |-> r, trigger |-> "scheduler", job |-> j, phase |-> "read",
             snap |-> rows[j], kind |-> "cron", next |-> Null, cases |-> {},
             wrote |-> FALSE] : j \in candidates}
      /\ UNCHANGED <<clock, rows, lastId, suiteVars, up, edits, fills, left, history>>

(* claimJob up to its UPDATE, for one row tick read: retry or scheduled    *)
(* fire, and the next fire counted from now.                               *)
Planned(t) ==
  [t EXCEPT !.phase = "claim",
            !.kind = IF Reached(t.snap.retryAt) THEN "retry" ELSE "cron",
            !.next = NextFire(t.snap.cron, t.snap.zone, clock)]

(* candidates.map(tickOne) starts every claim in one synchronous stretch.  *)
(* A schedule without a next fire throws; tickOne logs that and returns.   *)
Plan(r) ==
  LET read == {t \in SchedulerTasks(r) : t.phase = "read"}
  IN  /\ read # {}
      /\ tasks' = (tasks \ read) \cup {p \in {Planned(t) : t \in read} : p.next # Null}
      /\ UNCHANGED <<clock, rows, lastId, suiteVars, up, ticking, edits, fills, left, history>>

(* Mutant: the UPDATE finds its row by id alone.                           *)
MatchesById(t) == Stored(t.job)

(* Mutant: the WHERE names the instant that is about to be written.        *)
MatchesPlanned(t) ==
  /\ Stored(t.job)
  /\ rows[t.job].next = t.next

(* The WHERE of the claim: the column the decision was based on still      *)
(* holds the value that was read.                                          *)
Matches(t) ==
  /\ Stored(t.job)
  /\ IF t.kind = "retry" THEN rows[t.job].retryAt = t.snap.retryAt
                         ELSE rows[t.job].next = t.snap.next

(* Mutant: the loser tries its claim again instead of returning.           *)
LostKeepsTrying(t) == t \in tasks /\ UNCHANGED tasks

Lost(t) == Finish(t)

(* Mutant: the claim leaves retry_at where it is.                          *)
ClaimedButPending(row, t) ==
  [row EXCEPT !.next = t.next, !.count = IF t.kind = "retry" THEN t.snap.count ELSE 0]

Claimed(row, t) ==
  [row EXCEPT !.next = t.next, !.retryAt = Null,
              !.count = IF t.kind = "retry" THEN t.snap.count ELSE 0]

(* The claim's UPDATE; count = 0 means another process won.                *)
Claim(t) ==
  /\ t \in tasks /\ t.phase = "claim"
  /\ IF Matches(t)
       THEN /\ rows' = [rows EXCEPT ![t.job] = Claimed(@, t)]
            /\ firedCron' = IF t.kind = "cron"
                              THEN [firedCron EXCEPT ![t.job] = t.snap.next]
                              ELSE firedCron
            /\ firedRetry' = IF t.kind = "retry"
                               THEN [firedRetry EXCEPT ![t.job] = t.snap.retryAt]
                               ELSE firedRetry
            /\ rearmed' = [rearmed EXCEPT ![t.job] = FALSE]
            /\ UNCHANGED <<retriedBy, cut>>
            /\ Step(t, "suite")
       ELSE Lost(t) /\ UNCHANGED <<rows, history>>
  /\ UNCHANGED <<clock, lastId, suiteVars, up, ticking, edits, fills, left>>

(* Promise.all has settled: the finally clause clears the flag.            *)
TickEnd(r) ==
  /\ ticking[r] /\ SchedulerTasks(r) = {}
  /\ ticking' = [ticking EXCEPT ![r] = FALSE]
  /\ UNCHANGED <<clock, rows, lastId, suiteVars, up, tasks, edits, fills, left, history>>

-----------------------------------------------------------------------------
(* executeJob, shared by the loop and by the run-now route.                *)

Executing(t, phase) ==
  /\ t \in tasks /\ t.phase = phase
  /\ UNCHANGED <<clock, rows, lastId, suiteVars, up, ticking, edits, fills, left, history>>

(* The suite must still be live: SUITE_GONE otherwise.                     *)
ResolveSuite(t) ==
  /\ Executing(t, "suite")
  /\ Step(t, IF t.snap.suite \in liveSuites THEN "links" ELSE "failure")

(* Members that are not in the trash; none is a successful no-op.  The     *)
(* webhook is emitted here, before any row exists, and not awaited.        *)
ReadLinks(t) ==
  /\ Executing(t, "links")
  /\ LET ids == IF t.snap.suite \in storedSuites
                  THEN Members[t.snap.suite] \cap liveCases ELSE {}
     IN  tasks' = (tasks \ {t}) \cup
           {[t EXCEPT !.phase = IF ids = {} THEN "success" ELSE "create",
                      !.cases = ids]}

(* testRun.createMany: one not_run row for each case.                      *)
CreateRuns(t) ==
  /\ Executing(t, "create")
  /\ tasks' = (tasks \ {t}) \cup {[t EXCEPT !.phase = "stamp", !.wrote = TRUE]}

(* testCase.updateMany of last_run_at: a second statement of its own.      *)
StampCases(t) ==
  /\ Executing(t, "stamp")
  /\ Step(t, "success")

-----------------------------------------------------------------------------
(* Bookkeeping.  Both records are an UPDATE by id with values taken from   *)
(* the row as tick read it, and both throw when the row is gone.           *)

OutOfRetries(t) == t.snap.count + 1 > t.snap.max

RecordSuccess(t) ==
  /\ t \in tasks /\ t.phase = "success" /\ t.trigger = "scheduler"
  /\ IF Stored(t.job)
       THEN /\ rows' = [rows EXCEPT ![t.job].count = 0,
                                    ![t.job].retryAt = Null,
                                    ![t.job].error = FALSE]
            /\ Finish(t)
       ELSE Step(t, "failure") /\ UNCHANGED rows
  /\ UNCHANGED <<clock, lastId, suiteVars, up, ticking, edits, fills, left, history>>

RecordFailure(t) ==
  /\ t \in tasks /\ t.phase = "failure" /\ t.trigger = "scheduler"
  /\ Finish(t)
  /\ LET count == t.snap.count + 1
     IN  \/ /\ ~Stored(t.job)
            /\ UNCHANGED <<rows, retriedBy>>
         \/ /\ Stored(t.job) /\ OutOfRetries(t)
            /\ rows' = [rows EXCEPT ![t.job].error = TRUE, ![t.job].count = count]
            /\ UNCHANGED retriedBy
         \/ /\ Stored(t.job) /\ ~OutOfRetries(t)
            /\ \E jitter \in 0..Jitter :
                 rows' = [rows EXCEPT ![t.job].error = TRUE,
                                      ![t.job].count = count,
                                      ![t.job].retryAt = clock + Backoff[count] + jitter]
            /\ retriedBy' = [retriedBy EXCEPT ![t.job] = t.by]
  /\ UNCHANGED <<clock, lastId, suiteVars, up, ticking, edits, fills, left,
                 firedCron, firedRetry, rearmed, cut>>

(* A statement of the fire is refused by the database or the connection.   *)
(* In the claim and in recordFailure tickOne only logs it; anywhere else   *)
(* it is an execution error, also after the run rows were written.         *)
Fault(t) ==
  /\ t \in tasks /\ t.phase # "read"
  /\ t.phase = "success" => t.trigger = "scheduler"
  /\ Spend("fault")
  /\ IF t.phase \in {"claim", "failure"} THEN Finish(t) ELSE Step(t, "failure")
  /\ UNCHANGED <<clock, rows, lastId, suiteVars, up, ticking, edits, fills, history>>

-----------------------------------------------------------------------------
(* The routes.                                                             *)

(* POST /scheduled-jobs: the first fire is computed in UTC, whatever the   *)
(* zone; a suite in the trash or a schedule without a fire is a 400.       *)
Create(b) ==
  /\ lastId < MaxJobs /\ Spend("create")
  /\ b.suite \in liveSuites
  /\ LET next == NextFire(b.cron, UTC, clock)
     IN  /\ next # Null
         /\ rows' = [rows EXCEPT ![lastId + 1] = NewRow(b, next)]
  /\ lastId' = lastId + 1
  /\ UNCHANGED <<clock, suiteVars, up, ticking, tasks, edits, fills, history>>

(* PATCH /scheduled-jobs/:id up to its UPDATE: what it will write follows  *)
(* from the row as it is now.                                              *)
PatchRead(j, b) ==
  LET wasDisabled == ~rows[j].enabled
      enabling == b.enabled = TRUE /\ wasDisabled
      changed == b.cron # Keep /\ b.cron # rows[j].cron
      next == NextFire(IF b.cron = Keep THEN rows[j].cron ELSE b.cron, UTC, clock)
  IN  /\ Stored(j) /\ Spend("edit")
      /\ b.suite # Keep => b.suite \in liveSuites
      /\ changed \/ enabling => next # Null
      /\ edits' = edits \cup
           {[job |-> j, body |-> b, clear |-> enabling,
             next |-> IF changed \/ enabling THEN next ELSE Keep]}
      /\ UNCHANGED <<clock, rows, lastId, suiteVars, up, ticking, tasks, fills, history>>

(* Mutant: a field the body leaves out is written as undefined.            *)
SetAlways(new, old) == new

Set(new, old) == IF new = Keep THEN old ELSE new

(* Mutant: re-enabling forgets the instant of the pending retry.           *)
ClearedButPending(row) == [row EXCEPT !.count = 0, !.error = FALSE]

Cleared(row) == [row EXCEPT !.retryAt = Null, !.count = 0, !.error = FALSE]

Patched(row, e) ==
  [(IF e.clear THEN Cleared(row) ELSE row) EXCEPT
     !.enabled = Set(e.body.enabled, @), !.cron = Set(e.body.cron, @),
     !.zone = Set(e.body.zone, @), !.suite = Set(e.body.suite, @),
     !.max = Set(e.body.max, @), !.next = Set(e.next, @)]

(* The UPDATE, by id alone.  A deleted row or a purged suite refuses it.   *)
PatchWrite(e) ==
  /\ e \in edits
  /\ edits' = edits \ {e}
  /\ IF Stored(e.job) /\ (e.body.suite # Keep => e.body.suite \in storedSuites)
       THEN /\ rows' = [rows EXCEPT ![e.job] = Patched(@, e)]
            /\ rearmed' = IF e.next = Keep THEN rearmed
                          ELSE [rearmed EXCEPT ![e.job] = TRUE]
       ELSE UNCHANGED <<rows, rearmed>>
  /\ UNCHANGED <<clock, lastId, suiteVars, up, ticking, tasks, fills, left,
                 firedCron, firedRetry, retriedBy, cut>>

(* DELETE /scheduled-jobs/:id.                                             *)
Delete(j) ==
  /\ Stored(j) /\ Spend("delete")
  /\ rows' = [rows EXCEPT ![j] = NoRow]
  /\ UNCHANGED <<clock, lastId, suiteVars, up, ticking, tasks, edits, fills, history>>

(* POST /scheduled-jobs/:id/run: executeJob without a claim, on whatever   *)
(* process got the request, enabled or not.  At most one such request for  *)
(* a job is in flight in a process (a bound of the model).                 *)
RunNow(r, j) ==
  /\ up[r] /\ Stored(j) /\ Spend("manual")
  /\ \A t \in TasksOf(r) : ~(t.job = j /\ t.trigger = "manual")
  /\ tasks' = tasks \cup
       {[by |-> r, trigger |-> "manual", job |-> j, phase |-> "suite",
         snap |-> rows[j], kind |-> "cron", next |-> Null, cases |-> {},
         wrote |-> FALSE]}
  /\ UNCHANGED <<clock, rows, lastId, suiteVars, up, ticking, edits, fills, history>>

(* Its response, or the error handler's: no bookkeeping on the job.        *)
RunNowEnds(t) ==
  /\ t \in tasks /\ t.trigger = "manual" /\ t.phase \in {"success", "failure"}
  /\ Finish(t)
  /\ UNCHANGED <<clock, rows, lastId, suiteVars, up, ticking, edits, fills, left, history>>

-----------------------------------------------------------------------------
(* The rest of the system, as far as the scheduler can see it.             *)

TrashSuite(s) ==
  /\ s \in liveSuites /\ Spend("trash")
  /\ liveSuites' = liveSuites \ {s}
  /\ UNCHANGED <<clock, rows, lastId, storedSuites, liveCases, up, ticking,
                 tasks, edits, fills, history>>

RestoreSuite(s) ==
  /\ s \in storedSuites \ liveSuites /\ Spend("trash")
  /\ liveSuites' = liveSuites \cup {s}
  /\ UNCHANGED <<clock, rows, lastId, storedSuites, liveCases, up, ticking,
                 tasks, edits, fills, history>>

(* A purge of the trash deletes the suite's row and, by the foreign key's  *)
(* ON DELETE CASCADE, the jobs that point at it.                           *)
PurgeSuite(s) ==
  /\ s \in storedSuites \ liveSuites /\ Spend("purge")
  /\ storedSuites' = storedSuites \ {s}
  /\ rows' = [j \in Jobs |-> IF Stored(j) /\ rows[j].suite = s THEN NoRow ELSE rows[j]]
  /\ UNCHANGED <<clock, lastId, liveSuites, liveCases, up, ticking, tasks,
                 edits, fills, history>>

TrashCase(c) ==
  /\ c \in liveCases /\ Spend("trash")
  /\ liveCases' = liveCases \ {c}
  /\ UNCHANGED <<clock, rows, lastId, liveSuites, storedSuites, up, ticking,
                 tasks, edits, fills, history>>

TimePasses ==
  /\ Spend("tick")
  /\ clock' = clock + 1
  /\ UNCHANGED <<rows, lastId, suiteVars, up, ticking, tasks, edits, fills, history>>

-----------------------------------------------------------------------------
Execute(t) == ResolveSuite(t) \/ ReadLinks(t) \/ CreateRuns(t) \/ StampCases(t)
Record(t) == RecordSuccess(t) \/ RecordFailure(t) \/ RunNowEnds(t)

Process(r) == Boot(r) \/ Tick(r) \/ Plan(r) \/ TickEnd(r)
Outage(r) == Crash(r) \/ BackfillFails(r)
Backfill(f) == BackfillCompute(f) \/ BackfillWrite(f)

Admin ==
  \/ \E b \in NewJobs : Create(b)
  \/ \E j \in Jobs, b \in Patches : PatchRead(j, b)
  \/ \E e \in edits : PatchWrite(e)
  \/ \E j \in Jobs : Delete(j)
  \/ \E r \in Replicas, j \in Jobs : RunNow(r, j)

Trash ==
  \/ \E s \in Suites : TrashSuite(s) \/ RestoreSuite(s) \/ PurgeSuite(s)
  \/ \E c \in Cases : TrashCase(c)

Next ==
  \/ \E r \in Replicas : Process(r) \/ Outage(r)
  \/ \E f \in fills : Backfill(f)
  \/ \E t \in tasks : Claim(t) \/ Execute(t) \/ Record(t) \/ Fault(t)
  \/ Admin
  \/ Trash
  \/ TimePasses

Spec == Init /\ [][Next]_vars

(* What the runtime guarantees: the interval timer keeps firing, a crashed *)
(* process is restarted, and a statement that was sent is answered.        *)
Fairness ==
  /\ \A r \in Replicas : WF_vars(Boot(r)) /\ WF_vars(Tick(r))
                         /\ WF_vars(Plan(r)) /\ WF_vars(TickEnd(r))
  /\ \A r \in Replicas, j \in Jobs :
       WF_vars(\E t \in tasks : /\ t.by = r /\ t.job = j /\ t.trigger = "scheduler"
                                /\ (Claim(t) \/ Execute(t) \/ Record(t)))
  /\ WF_vars(\E f \in fills : Backfill(f))
  /\ WF_vars(\E e \in edits : PatchWrite(e))

FairSpec == Spec /\ Fairness
-----------------------------------------------------------------------------
(* Properties.                                                             *)

(* Every variable keeps its type; the table never holds a malformed row,   *)
(* whichever process or request wrote it last.                             *)
TypeOK ==
  /\ clock \in Nat
  /\ rows \in [Jobs -> Row \cup {NoRow}]
  /\ lastId \in 0..MaxJobs
  /\ liveSuites \subseteq storedSuites /\ storedSuites \subseteq Suites
  /\ liveCases \subseteq Cases
  /\ up \in [Replicas -> BOOLEAN] /\ ticking \in [Replicas -> BOOLEAN]
  /\ tasks \subseteq Task /\ edits \subseteq Edit /\ fills \subseteq Fill
  /\ left \in [Disturbances -> Nat]
  /\ firedCron \in [Jobs -> Instant] /\ firedRetry \in [Jobs -> Instant]
  /\ rearmed \in [Jobs -> BOOLEAN]
  /\ retriedBy \in [Jobs -> Replicas \cup {Null}] /\ cut \subseteq Replicas

(* The step in which t's claim wins the row.                               *)
Won(t) == Matches(t) /\ Claim(t)

(* The optimistic claim works as a lock: however many processes read the   *)
(* same due row, and however late their UPDATEs arrive, the slots a job    *)
(* fires at only move forward, so no next_run_at and no retry_at is ever   *)
(* fired twice.  The one exception is named: a PATCH or a boot backfill    *)
(* that wrote next_run_at since the last claim (claimJob).                 *)
SlotFresh(t) ==
  IF t.kind = "retry" THEN t.snap.retryAt > firedRetry[t.job]
  ELSE t.snap.next > firedCron[t.job] \/ rearmed[t.job]
SlotsFireOnce == [][\A t \in tasks : Won(t) => SlotFresh(t)]_vars

(* The ticking flag does what its comment says: a slow fire and the next   *)
(* interval never run the same job twice at once in one process.           *)
OneFirePerProcess ==
  \A t, u \in tasks :
    /\ t.trigger = "scheduler" /\ u.trigger = "scheduler"
    /\ t.by = u.by /\ t.job = u.job
    => t = u

(* Five writers touch retry_at, retry_count and last_error with values     *)
(* read at different times; still a pending retry always comes with the    *)
(* failure that explains it (recordFailure, claimJob, PATCH re-enable).    *)
RetryExplained ==
  \A j \in Jobs : Stored(j) /\ rows[j].retryAt # Null
                    => rows[j].error /\ rows[j].count > 0

(* recordSuccess clears retry_at by id alone, whoever wrote it.  Within a  *)
(* process that harms no one: the retry a success erases was never         *)
(* scheduled by an earlier fire of its own process, since its claim has    *)
(* cleared that and the ticks of a process do not overlap.  Between two    *)
(* processes there is no such rule: a slow fire that succeeds does erase   *)
(* the retry that a fire in another process scheduled in the meantime, and *)
(* that failed fire is not run again.                                      *)
OwnRetriesKept ==
  [][\A t \in tasks :
       RecordSuccess(t) /\ Stored(t.job) /\ rows[t.job].retryAt # Null
         => retriedBy[t.job] # t.by]_vars

(* An enabled job that is due does not stay due: some process claims it,   *)
(* or an admin takes it away, whatever crashes and faults come in between. *)
(* One kind of row is exempt, and is left due for ever: one whose cron has *)
(* no fire in its zone.  POST and PATCH compute the first fire in UTC and  *)
(* accept any string as a zone, so an unknown zone is only noticed by      *)
(* claimJob, which throws at every tick; tickOne logs that, and nothing is *)
(* recorded on the job though the comment says "so the retry policy        *)
(* surfaces it".                                                           *)
IsDue(j) == Stored(j) /\ Due(rows[j])
Unclaimable(j) == Stored(j) /\ NextFire(rows[j].cron, rows[j].zone, clock) = Null
DueIsServed == \A j \in Jobs : IsDue(j) ~> (~IsDue(j) \/ Unclaimable(j))

(* No process ticks for ever: the flag is cleared on every path.           *)
TickReturns == \A r \in Replicas : ticking[r] ~> ~ticking[r]

(* A process that has yet to boot gives every enabled legacy row its first *)
(* next_run_at, whatever other processes, PATCHes and crashes do meanwhile *)
(* (recomputeAllDue).  The exception: the loop of that process was cut     *)
(* short by an error at a row before it, as one that a DELETE took away    *)
(* since the list was read; then the row stays without, and is never due,  *)
(* until another boot.                                                     *)
Unplanned(j) == Stored(j) /\ rows[j].enabled /\ rows[j].next = Null
BackfillCompletes ==
  \A j \in Jobs, r \in Replicas :
    (Unplanned(j) /\ ~up[r]) ~> (~Unplanned(j) \/ r \in cut)

-----------------------------------------------------------------------------
(* What the documents and comments of the repository say of the scheduler, *)
(* and the code does not do.                                               *)

(* docs/scheduler.md: on failure retry_count increments and retry_at is    *)
(* set, until retry_count exceeds max_retries; a scheduled claim is "a     *)
(* fresh start-of-fire", so its first failure is within the budget.        *)
FreshFailureRetries ==
  [][\A t \in tasks :
       RecordFailure(t) /\ Stored(t.job) /\ t.kind = "cron" /\ t.snap.max > 0
         => rows'[t.job].retryAt # Null]_vars
=============================================================================
