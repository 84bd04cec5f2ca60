------------------------------ MODULE Library -------------------------------
(***************************************************************************)
(* The library of test cases and suites: routes/testCases.js with the      *)
(* version history of utils/snapshot.js, routes/testSuites.js with the     *)
(* links of test_suite_cases, the trash of routes/trash.js and the         *)
(* retention sweep of utils/trashPurge.js.                                 *)
(*                                                                         *)
(* An action is one statement of a request.  The statements of an          *)
(* interactive transaction are actions of their own too: Postgres runs     *)
(* them at READ COMMITTED, so each sees what others have committed by      *)
(* then, and what the transaction writes is seen when it commits.          *)
(* POST .../versions/:versionId/restore is not here: requireOwnership      *)
(* looks for a parameter "id" the route does not have, so it always        *)
(* answers 404.                                                            *)
(***************************************************************************)
EXTENDS Integers, FiniteSets

CONSTANTS
  MaxCases, MaxSuites,  \* ids the sequences can hand out
  Replicas,             \* API processes; each sweeps
  Retention,            \* TRASH_RETENTION_DAYS; 0 switches the sweep off
  Budgets,              \* how often each kind of event may happen: one is taken
  NoRow                 \* no row has this id

Cases == 1..MaxCases
Suites == 1..MaxSuites
Null == 0    \* SQL NULL in deleted_at; instants start at 1

(* What the versioned fields of a case hold is named by the edit that      *)
(* wrote them: contents are ordered as the edits were committed.           *)
CaseRow == [content : Nat, deleted : Nat]
SuiteRow == [deleted : Nat]
Version == [case : Cases, version : Nat \ {0}, content : Nat]

(* Why the last UPDATE of a case is in no version.                         *)
Causes == {"none", "fault", "clash"}

(* A create or PUT of a case that has not answered yet: content is what    *)
(* its UPDATE returned until the snapshot reads the row itself.            *)
SavePhases == {"update", "max", "content", "insert"}
Save == [op : Nat, case : Cases, at : SavePhases, edits : BOOLEAN, runs : BOOLEAN,
         max : Nat, content : Nat]

(* A row of test_suite_cases; op, the request that wrote it, tells a row    *)
(* from the one that replaced it.                                          *)
Link == [suite : Suites, case : Cases, op : Nat]

(* A create or PUT of a suite with its test_case_ids; dropped is what the  *)
(* deleteMany of its transaction has found.                                *)
LinkPhases == {"count", "undo", "insert", "delete", "commit"}
Linking == [op : Nat, suite : Suites, ids : SUBSET Cases, at : LinkPhases,
            creates : BOOLEAN, dropped : SUBSET Link]

Sweep == [at : {"idle", "cases", "suites"}, cutoff : Int]
Idle == [at |-> "idle", cutoff |-> 0]

(* Each kind is bounded by itself, and "any" bounds their sum.             *)
Events == {"create", "put", "run", "suite", "delete", "restore", "purge", "fault",
           "crash", "tick", "any"}

ASSUME SizeAssumption ==
  MaxCases \in Nat /\ MaxSuites \in Nat /\ Retention \in Nat
ASSUME BudgetAssumption == \A budget \in Budgets : budget \in [Events -> Nat]
ASSUME MarkAssumption == NoRow \notin CaseRow /\ NoRow \notin SuiteRow

VARIABLES
  clock,
  cases, suites,      \* test_cases, test_suites
  lastCase, lastSuite,\* their id sequences
  versions,           \* test_case_versions
  links,              \* test_suite_cases
  hasRuns,            \* cases with a row in test_runs
  saves, linkings,    \* requests that have not answered yet
  sweeps,             \* what the sweep of each process is doing
  lastOp, lastEdit,   \* to tell requests and contents apart
  left,               \* what is left of the budget taken
  missed,             \* history: why the last UPDATE is in no version, if so
  members,            \* history: the ids a suite was given last
  mixed               \* history: suites two requests gave ids at once

vars == <<clock, cases, suites, lastCase, lastSuite, versions, links, hasRuns,
          saves, linkings, sweeps, lastOp, lastEdit, left, missed, members, mixed>>

caseVars == <<cases, lastCase, versions, hasRuns, saves, lastEdit, missed>>
suiteVars == <<suites, lastSuite, linkings, members, mixed>>

-----------------------------------------------------------------------------
StoredCase(c) == cases[c] # NoRow
StoredSuite(s) == suites[s] # NoRow
LiveCase(c) == StoredCase(c) /\ cases[c].deleted = Null
LiveSuite(s) == StoredSuite(s) /\ suites[s].deleted = Null
TrashedCase(c) == StoredCase(c) /\ cases[c].deleted # Null
TrashedSuite(s) == StoredSuite(s) /\ suites[s].deleted # Null

LinksOf(s) == {l \in links : l.suite = s}

Spend(what) ==
  /\ left[what] > 0 /\ left["any"] > 0
  /\ left' = [e \in Events |-> IF e \in {what, "any"} THEN left[e] - 1 ELSE left[e]]

Init ==
  /\ clock = 1
  /\ cases = [c \in Cases |-> NoRow] /\ suites = [s \in Suites |-> NoRow]
  /\ lastCase = 0 /\ lastSuite = 0
  /\ versions = {} /\ links = {} /\ hasRuns = {}
  /\ saves = {} /\ linkings = {}
  /\ sweeps = [r \in Replicas |-> Idle]
  /\ lastOp = 0 /\ lastEdit = 0
  /\ left \in Budgets
  /\ missed = [c \in Cases |-> "none"]
  /\ members = [s \in Suites |-> {}] /\ mixed = {}

-----------------------------------------------------------------------------
(* Cases and their versions.                                               *)

(* POST /test-cases: the row, then its first snapshot.                     *)
CreateCase ==
  /\ lastCase < MaxCases /\ Spend("create")
  /\ lastCase' = lastCase + 1
  /\ lastOp' = lastOp + 1 /\ lastEdit' = lastEdit + 1
  /\ cases' = [cases EXCEPT ![lastCase + 1] = [content |-> lastEdit + 1, deleted |-> Null]]
  /\ saves' = saves \cup
       {[op |-> lastOp + 1, case |-> lastCase + 1, at |-> "max", edits |-> TRUE,
         runs |-> FALSE, max |-> 0, content |-> lastEdit + 1]}
  /\ UNCHANGED <<clock, suiteVars, versions, links, hasRuns, sweeps, missed>>

(* PUT /test-cases/:id: requireOwnership finds a live case.  edits: a      *)
(* versioned field is in the body; runs: a result is.                      *)
PutCase(c, edits, runs) ==
  /\ LiveCase(c) /\ Spend("put")
  /\ lastOp' = lastOp + 1
  /\ saves' = saves \cup
       {[op |-> lastOp + 1, case |-> c, at |-> "update", edits |-> edits,
         runs |-> runs, max |-> 0, content |-> 0]}
  /\ UNCHANGED <<clock, cases, lastCase, versions, hasRuns, lastEdit, missed,
                 suiteVars, links, sweeps>>

(* POST /test-cases/:id/runs, for all that give a live case a run (module  *)
(* TestRuns has them one by one).                                          *)
RunCase(c) ==
  /\ LiveCase(c) /\ Spend("run")
  /\ hasRuns' = hasRuns \cup {c}
  /\ UNCHANGED <<clock, cases, lastCase, versions, saves, lastEdit, missed,
                 suiteVars, links, sweeps, lastOp>>

EndSave(q) == saves' = saves \ {q}

(* The transaction of PUT, by id alone: it writes a case that went to the  *)
(* trash meanwhile, and fails if the row is gone.                          *)
UpdateCase(q) ==
  /\ q.at = "update"
  /\ IF StoredCase(q.case)
       THEN LET content == IF q.edits THEN lastEdit + 1 ELSE cases[q.case].content
            IN  /\ cases' = [cases EXCEPT ![q.case].content = content]
                /\ lastEdit' = IF q.edits THEN lastEdit + 1 ELSE lastEdit
                /\ hasRuns' = IF q.runs THEN hasRuns \cup {q.case} ELSE hasRuns
                /\ missed' = [missed EXCEPT ![q.case] = "none"]
                /\ saves' = (saves \ {q}) \cup {[q EXCEPT !.at = "max", !.content = content]}
       ELSE EndSave(q) /\ UNCHANGED <<cases, lastEdit, hasRuns, missed>>
  /\ UNCHANGED <<clock, lastCase, versions, suiteVars, links, sweeps, lastOp, left>>

VersionsOf(c) == {v \in versions : v.case = c}
Latest(c) ==
  IF VersionsOf(c) = {} THEN 0
  ELSE CHOOSE n \in {v.version : v \in VersionsOf(c)} :
         \A v \in VersionsOf(c) : v.version <= n

(* snapshotCase: the greatest number first ...                             *)
SnapshotMax(q) ==
  /\ q.at = "max"
  /\ saves' = (saves \ {q}) \cup {[q EXCEPT !.at = "content", !.max = Latest(q.case)]}
  /\ UNCHANGED <<clock, cases, lastCase, versions, hasRuns, lastEdit, missed,
                 suiteVars, links, sweeps, lastOp, left>>

(* Mutant of Captured: the row as the UPDATE returned it.                  *)
CapturedAtUpdate(q) == q.content

(* ... then the row as it is now; it must still be there ...               *)
Captured(q) == cases[q.case].content

SnapshotContent(q) ==
  /\ q.at = "content"
  /\ IF StoredCase(q.case)
       THEN saves' = (saves \ {q}) \cup {[q EXCEPT !.at = "insert", !.content = Captured(q)]}
       ELSE EndSave(q)
  /\ UNCHANGED <<clock, cases, lastCase, versions, hasRuns, lastEdit, missed,
                 suiteVars, links, sweeps, lastOp, left>>

NextVersion(q) == q.max + 1

(* Mutant of Collides: no unique index.                                    *)
CollidesNever(q) == FALSE

(* @@unique([case_id, version])                                            *)
Collides(q) == \E v \in VersionsOf(q.case) : v.version = NextVersion(q)

(* The save ends and its snapshot is rolled back, not its UPDATE, because  *)
(* a statement failed ("fault") or two saves took one number ("clash").    *)
Lost(q, why) == missed' = [missed EXCEPT ![q.case] = why] /\ EndSave(q)

(* ... then the INSERT.  Its failure is swallowed by PUT, which does not   *)
(* try again, and answered 500 by a create whose row stays.                *)
SnapshotInsert(q) ==
  /\ q.at = "insert"
  /\ IF StoredCase(q.case) /\ ~Collides(q)
       THEN /\ versions' = versions \cup
                 {[case |-> q.case, version |-> NextVersion(q), content |-> q.content]}
            /\ EndSave(q) /\ UNCHANGED missed
       ELSE /\ Lost(q, IF Collides(q) THEN "clash" ELSE "fault")
            /\ UNCHANGED versions
  /\ UNCHANGED <<clock, cases, lastCase, hasRuns, lastEdit, suiteVars, links,
                 sweeps, lastOp, left>>

(* A statement of the request fails.                                       *)
SaveFails(q) ==
  /\ Spend("fault")
  /\ IF q.at = "update" THEN EndSave(q) /\ UNCHANGED missed ELSE Lost(q, "fault")
  /\ UNCHANGED <<clock, cases, lastCase, versions, hasRuns, lastEdit, suiteVars,
                 links, sweeps, lastOp>>

-----------------------------------------------------------------------------
(* Suites and their links.                                                 *)

(* POST /test-suites: the row is there before its ids are checked.         *)
CreateSuite(ids) ==
  /\ lastSuite < MaxSuites /\ Spend("suite")
  /\ lastSuite' = lastSuite + 1 /\ lastOp' = lastOp + 1
  /\ suites' = [suites EXCEPT ![lastSuite + 1] = [deleted |-> Null]]
  /\ linkings' = IF ids = {} THEN linkings ELSE linkings \cup
       {[op |-> lastOp + 1, suite |-> lastSuite + 1, ids |-> ids, at |-> "count",
         creates |-> TRUE, dropped |-> {}]}
  /\ UNCHANGED <<clock, caseVars, links, sweeps, members, mixed>>

(* PUT /test-suites/:id with test_case_ids: findFirst finds a live suite;  *)
(* its UPDATE of the name, by id alone, comes before the ids are checked.  *)
PutSuite(s, ids) ==
  /\ LiveSuite(s) /\ Spend("suite")
  /\ lastOp' = lastOp + 1
  /\ linkings' = linkings \cup
       {[op |-> lastOp + 1, suite |-> s, ids |-> ids, at |-> "count",
         creates |-> FALSE, dropped |-> {}]}
  /\ UNCHANGED <<clock, caseVars, links, sweeps, suites, lastSuite, members, mixed>>

Continue(q, at) == linkings' = (linkings \ {q}) \cup {[q EXCEPT !.at = at]}
EndLinking(q) == linkings' = linkings \ {q}

(* Every id must be a live case, or the request is refused.                *)
CountCases(q) ==
  /\ q.at = "count"
  /\ IF \A c \in q.ids : LiveCase(c)
       THEN Continue(q, IF q.creates THEN "insert" ELSE "delete")
       ELSE IF q.creates THEN Continue(q, "undo") ELSE EndLinking(q)
  /\ UNCHANGED <<clock, caseVars, suites, lastSuite, members, mixed, links, sweeps,
                 lastOp, left>>

(* ON DELETE CASCADE of test_suite_cases (and of scheduled_jobs).          *)
RemoveSuites(gone) ==
  /\ suites' = [s \in Suites |-> IF s \in gone THEN NoRow ELSE suites[s]]
  /\ links' = {l \in links : l.suite \notin gone}

(* A refused create takes its suite away again.                            *)
UndoSuite(q) ==
  /\ q.at = "undo"
  /\ RemoveSuites({q.suite})
  /\ EndLinking(q)
  /\ UNCHANGED <<clock, caseVars, lastSuite, members, mixed, sweeps, lastOp, left>>

(* Mutant of Pending: deleteMany and createMany without a transaction.     *)
PendingAtOnce(q) == links \ LinksOf(q.suite)

(* What others see of a deleteMany whose transaction has not committed.    *)
Pending(q) == links

DeleteLinks(q) ==
  /\ q.at = "delete"
  /\ linkings' = (linkings \ {q}) \cup
       {[q EXCEPT !.at = "commit", !.dropped = LinksOf(q.suite)]}
  /\ links' = Pending(q)
  /\ UNCHANGED <<clock, caseVars, suites, lastSuite, members, mixed, sweeps, lastOp, left>>

(* createMany, at the end of the transaction of PUT or alone in a create:  *)
(* the foreign keys and the primary key must hold, or nothing is written.  *)
(* Rows another request wrote since the deleteMany stay.                   *)
InsertLinks(q) ==
  LET kept == LinksOf(q.suite) \ q.dropped
  IN  /\ q.at \in {"insert", "commit"}
      /\ IF /\ StoredSuite(q.suite)
            /\ \A c \in q.ids : StoredCase(c)
            /\ \A l \in kept : l.case \notin q.ids
           THEN /\ links' = (links \ q.dropped)
                              \cup {[suite |-> q.suite, case |-> c, op |-> q.op] : c \in q.ids}
                /\ members' = [members EXCEPT ![q.suite] = q.ids]
                /\ mixed' = IF kept = {} THEN mixed \ {q.suite} ELSE mixed \cup {q.suite}
           ELSE UNCHANGED <<links, members, mixed>>
      /\ EndLinking(q)
      /\ UNCHANGED <<clock, caseVars, suites, lastSuite, sweeps, lastOp, left>>

(* A statement of the request fails; a transaction rolls back.             *)
LinkingFails(q) ==
  /\ Spend("fault")
  /\ EndLinking(q)
  /\ UNCHANGED <<clock, caseVars, suites, lastSuite, members, mixed, links, sweeps, lastOp>>

-----------------------------------------------------------------------------
(* The trash.                                                              *)

DeleteCase(c) ==
  /\ LiveCase(c) /\ Spend("delete")
  /\ cases' = [cases EXCEPT ![c].deleted = clock]
  /\ UNCHANGED <<clock, lastCase, versions, hasRuns, saves, lastEdit, missed, suiteVars,
                 links, sweeps, lastOp>>

DeleteSuite(s) ==
  /\ LiveSuite(s) /\ Spend("delete")
  /\ suites' = [suites EXCEPT ![s].deleted = clock]
  /\ UNCHANGED <<clock, caseVars, lastSuite, linkings, members, mixed, links, sweeps, lastOp>>

RestoreCase(c) ==
  /\ TrashedCase(c) /\ Spend("restore")
  /\ cases' = [cases EXCEPT ![c].deleted = Null]
  /\ UNCHANGED <<clock, lastCase, versions, hasRuns, saves, lastEdit, missed, suiteVars,
                 links, sweeps, lastOp>>

RestoreSuite(s) ==
  /\ TrashedSuite(s) /\ Spend("restore")
  /\ suites' = [suites EXCEPT ![s].deleted = Null]
  /\ UNCHANGED <<clock, caseVars, lastSuite, linkings, members, mixed, links, sweeps, lastOp>>

(* One DELETE statement: versions and links go with their case, but a row  *)
(* of test_runs refuses the whole statement.                               *)
Refused(gone) == gone \cap hasRuns # {}

RemoveCases(gone) ==
  IF Refused(gone) THEN UNCHANGED <<cases, versions, links>>
  ELSE /\ cases' = [c \in Cases |-> IF c \in gone THEN NoRow ELSE cases[c]]
       /\ versions' = {v \in versions : v.case \notin gone}
       /\ links' = {l \in links : l.case \notin gone}

PurgeCase(c) ==
  /\ TrashedCase(c) /\ Spend("purge")
  /\ RemoveCases({c})
  /\ UNCHANGED <<clock, lastCase, hasRuns, saves, lastEdit, missed, suiteVars, sweeps, lastOp>>

PurgeSuite(s) ==
  /\ TrashedSuite(s) /\ Spend("purge")
  /\ RemoveSuites({s})
  /\ UNCHANGED <<clock, caseVars, lastSuite, linkings, members, mixed, sweeps, lastOp>>

(* sweepOnce in process r: the cutoff is taken once ...                    *)
StartSweep(r) ==
  /\ sweeps[r].at = "idle" /\ Retention # 0
  /\ sweeps' = [sweeps EXCEPT ![r] = [at |-> "cases", cutoff |-> clock - Retention]]
  /\ UNCHANGED <<clock, caseVars, suiteVars, links, lastOp, left>>

(* Mutant of Expired: whatever is in the trash.                            *)
ExpiredAnyTime(row, cutoff) == row.deleted # Null

Expired(row, cutoff) == row.deleted # Null /\ row.deleted < cutoff

(* Mutant of AfterCases: both statements in one try.                       *)
AfterCasesStop(failed) == IF failed THEN "idle" ELSE "suites"

AfterCases(failed) == "suites"

(* ... the cases, all or none ...                                          *)
SweepCases(r) ==
  LET gone == {c \in Cases : StoredCase(c) /\ Expired(cases[c], sweeps[r].cutoff)}
  IN  /\ sweeps[r].at = "cases"
      /\ \/ /\ RemoveCases(gone)
            /\ sweeps' = [sweeps EXCEPT ![r].at = AfterCases(Refused(gone))]
            /\ UNCHANGED left
         \/ /\ Spend("fault")
            /\ sweeps' = [sweeps EXCEPT ![r].at = AfterCases(TRUE)]
            /\ UNCHANGED <<cases, versions, links>>
      /\ UNCHANGED <<clock, lastCase, hasRuns, saves, lastEdit, missed, suiteVars, lastOp>>

(* ... and the suites in a try of their own.                               *)
SweepSuites(r) ==
  /\ sweeps[r].at = "suites"
  /\ sweeps' = [sweeps EXCEPT ![r] = Idle]
  /\ \/ /\ RemoveSuites({s \in Suites : StoredSuite(s)
                                          /\ Expired(suites[s], sweeps[r].cutoff)})
        /\ UNCHANGED left
     \/ Spend("fault") /\ UNCHANGED <<suites, links>>
  /\ UNCHANGED <<clock, caseVars, lastSuite, linkings, members, mixed, lastOp>>

-----------------------------------------------------------------------------
(* A process dies: its sweep and requests are gone (any of those in flight *)
(* may have been its own).                                                 *)
Crash(r) ==
  /\ Spend("crash")
  /\ sweeps' = [sweeps EXCEPT ![r] = Idle]
  /\ saves' \in SUBSET saves
  /\ missed' = [c \in Cases |->
       IF \E q \in saves \ saves' : q.case = c /\ q.at # "update"
         THEN "fault" ELSE missed[c]]
  /\ linkings' \in SUBSET linkings
  /\ UNCHANGED <<clock, cases, lastCase, versions, hasRuns, lastEdit, suites, lastSuite,
                 members, mixed, links, lastOp>>

TimePasses ==
  /\ Spend("tick")
  /\ clock' = clock + 1
  /\ UNCHANGED <<caseVars, suiteVars, links, sweeps, lastOp>>

CaseRequests ==
  \/ CreateCase
  \/ \E c \in Cases, edits, runs \in BOOLEAN : PutCase(c, edits, runs)
  \/ \E c \in Cases : RunCase(c)
  \/ \E q \in saves :
       UpdateCase(q) \/ SnapshotMax(q) \/ SnapshotContent(q) \/ SnapshotInsert(q)
         \/ SaveFails(q)

SuiteRequests ==
  \/ \E ids \in SUBSET Cases : CreateSuite(ids)
  \/ \E s \in Suites, ids \in SUBSET Cases : PutSuite(s, ids)
  \/ \E q \in linkings :
       CountCases(q) \/ UndoSuite(q) \/ DeleteLinks(q) \/ InsertLinks(q) \/ LinkingFails(q)

Trash ==
  \/ \E c \in Cases : DeleteCase(c) \/ RestoreCase(c) \/ PurgeCase(c)
  \/ \E s \in Suites : DeleteSuite(s) \/ RestoreSuite(s) \/ PurgeSuite(s)

SweepStep(r) == StartSweep(r) \/ SweepCases(r) \/ SweepSuites(r)

Next ==
  \/ CaseRequests
  \/ SuiteRequests
  \/ Trash
  \/ \E r \in Replicas : SweepStep(r) \/ Crash(r)
  \/ TimePasses

Spec == Init /\ [][Next]_vars

(* The interval timer of the sweep keeps firing, its statements are        *)
(* answered, and time passes.                                              *)
FairSpec == Spec /\ WF_vars(TimePasses) /\ \A r \in Replicas : WF_vars(SweepStep(r))

-----------------------------------------------------------------------------
(* Every variable stays in its domain.                                     *)
TypeOK ==
  /\ clock \in Nat \ {0}
  /\ cases \in [Cases -> CaseRow \cup {NoRow}]
  /\ suites \in [Suites -> SuiteRow \cup {NoRow}]
  /\ lastCase \in 0..MaxCases /\ lastSuite \in 0..MaxSuites
  /\ versions \subseteq Version /\ links \subseteq Link /\ hasRuns \subseteq Cases
  /\ saves \subseteq Save /\ linkings \subseteq Linking
  /\ sweeps \in [Replicas -> Sweep]
  /\ lastOp \in Nat /\ lastEdit \in Nat
  /\ left \in [Events -> Nat]
  /\ missed \in [Cases -> Causes]
  /\ members \in [Suites -> SUBSET Cases] /\ mixed \subseteq Suites

(* The versions of a case are numbered 1, 2, 3 ... with no gap and no      *)
(* number twice, however its saves interleave and whichever of them fail   *)
(* (snapshotCase takes the greatest number and adds one in a transaction   *)
(* that does not lock).                                                    *)
VersionsDense ==
  \A c \in Cases :
    {v.version : v \in VersionsOf(c)} = 1..Cardinality(VersionsOf(c))

(* Of two versions of a case the later never holds an older edit, though   *)
(* the snapshots of concurrent saves interleave (snapshotCase reads the    *)
(* row after it has read the greatest number).                             *)
HistoryInOrder ==
  \A v, w \in versions :
    v.case = w.case /\ v.version < w.version => v.content <= w.content

NewestIsCurrent(c) ==
  \E v \in VersionsOf(c) : v.version = Latest(c) /\ v.content = cases[c].content

(* No save of c is between its UPDATE and its snapshot.                    *)
Settled(c) == \A q \in saves : q.case = c => q.at = "update"

(* Once every save of a case has answered, its newest version is what the  *)
(* case holds, with two exemptions, each until the next UPDATE: a statement*)
(* of the snapshot failed or its process died; or two saves, nothing       *)
(* failing, took the same number and the one that lost had the newer edit  *)
(* (PUT of testCases.js logs either: "the next successful edit on this     *)
(* case will produce a snapshot").                                         *)
HistoryIsCurrent ==
  \A c \in Cases :
    StoredCase(c) /\ missed[c] = "none" /\ Settled(c) => NewestIsCurrent(c)

(* What docs/case-versions.md says: "the snapshot insert is part of the    *)
(* same transaction as the live update, so they roll back together", so    *)
(* that no edit stands without its version once its save has answered.     *)
SnapshotGoesWithUpdate ==
  \A c \in Cases : StoredCase(c) /\ Settled(c) => NewestIsCurrent(c)

(* A suite links exactly the cases the last request gave it that are still *)
(* stored: no reader sees half a rewrite, a request that fails or dies     *)
(* changes nothing, a purge takes its own links only.  Suites that two     *)
(* requests rewrote at once are exempt: they may hold the ids of both.     *)
SuiteIsWhole ==
  \A s \in Suites \ mixed :
    StoredSuite(s) =>
      {l.case : l \in LinksOf(s)} = {c \in members[s] : StoredCase(c)}

(* A row leaves its table only from the trash, and unless an admin purges  *)
(* it, only after it has been there longer than the retention, though it   *)
(* may be restored and deleted again while a sweep runs.  A suite whose    *)
(* create is refused is taken back.                                        *)
Outlived(row) == row.deleted # Null
                   /\ (row.deleted + Retention < clock \/ left'["purge"] # left["purge"])

RetentionHolds ==
  [][/\ \A c \in Cases : StoredCase(c) /\ ~StoredCase(c)' => Outlived(cases[c])
     /\ \A s \in Suites : StoredSuite(s) /\ ~StoredSuite(s)' =>
          \/ Outlived(suites[s])
          \/ \E q \in linkings \ linkings' : q.suite = s /\ q.at = "undo"]_vars

(* A suite that has outstayed the retention is purged or restored in the   *)
(* end, though the statement for the cases fails every time (sweepOnce     *)
(* wraps each in its own try).                                             *)
ExpiredSuitesGo ==
  \A s \in Suites :
    (Retention # 0 /\ TrashedSuite(s) /\ suites[s].deleted < clock - Retention)
      ~> ~TrashedSuite(s)
=============================================================================
