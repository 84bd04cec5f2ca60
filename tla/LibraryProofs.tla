---------------------------- MODULE LibraryProofs ----------------------------
(* Theorems about Library for every value of its constants: the versions   *)
(* of a case, and the links of a suite.                                    *)
EXTENDS Library, FiniteSetTheorems, TLAPS

(* The greatest number of a dense history is how many versions it has.     *)
LEMMA LatestIsTheCount ==
  ASSUME VersionsDense, IsFiniteSet(versions), NEW c \in Cases
  PROVE  /\ Latest(c) = Cardinality(VersionsOf(c)) /\ Latest(c) \in Nat
         /\ \A v \in VersionsOf(c) : v.version \in 1..Latest(c)
         /\ \A n \in 1..Latest(c) : \E v \in VersionsOf(c) : v.version = n
<1> DEFINE mine == VersionsOf(c)
           numbers == {v.version : v \in mine}
<1>1. IsFiniteSet(mine)
  BY FS_Subset DEF VersionsOf
<1>2. PICK n \in Nat : n = Cardinality(mine)
  BY <1>1, FS_CardinalityType
<1>3. numbers = 1..n
  BY <1>2 DEF VersionsDense
<1>4. Latest(c) = n
  <2>1. CASE mine = {}
    BY <1>1, <1>2, <2>1, FS_EmptySet DEF Latest
  <2>2. CASE mine # {}
    <3>1. n \in numbers /\ \A v \in mine : v.version \in 1..n
      <4>1. numbers # {}
        BY <2>2
      <4>2. \A v \in mine : v.version \in numbers
        OBVIOUS
      <4> HIDE DEF numbers, mine
      <4> QED BY <1>3, <4>1, <4>2
    <3>2. \A v \in mine : v.version <= n
      BY <3>1
    <3>3. ASSUME NEW m \in numbers, \A v \in mine : v.version <= m PROVE m = n
      BY <1>3, <3>1, <3>3
    <3>4. Latest(c) = CHOOSE m \in numbers : \A v \in mine : v.version <= m
      BY <2>2 DEF Latest
    <3> HIDE DEF numbers, mine
    <3> QED BY <3>1, <3>2, <3>3, <3>4
  <2> QED BY <2>1, <2>2
<1> QED BY <1>2, <1>3, <1>4
-----------------------------------------------------------------------------
(* Type correctness.                                                       *)

WellFormed == TypeOK /\ IsFiniteSet(versions) /\ VersionsDense

LEMMA SpendType ==
  ASSUME TypeOK, NEW what \in Events, Spend(what)
  PROVE  left' \in [Events -> Nat]
BY DEF TypeOK, Spend, Events

LEMMA SaveMoves ==
  ASSUME NEW q \in Save, NEW at \in SavePhases, NEW n \in Nat
  PROVE  /\ [q EXCEPT !.at = at, !.content = n] \in Save
         /\ [q EXCEPT !.at = at, !.max = n] \in Save
BY DEF Save

LEMMA LinkingMoves ==
  ASSUME NEW q \in Linking, NEW at \in LinkPhases
  PROVE  [q EXCEPT !.at = at] \in Linking
BY DEF Linking

LEMMA RemoveCasesType ==
  ASSUME TypeOK, NEW gone, RemoveCases(gone)
  PROVE  /\ cases' \in [Cases -> CaseRow \cup {NoRow}]
         /\ versions' \subseteq versions /\ links' \subseteq links
BY DEF TypeOK, RemoveCases

LEMMA RemoveSuitesType ==
  ASSUME TypeOK, NEW gone, RemoveSuites(gone)
  PROVE  suites' \in [Suites -> SuiteRow \cup {NoRow}] /\ links' \subseteq links
BY DEF TypeOK, RemoveSuites

LEMMA CaseRequestsType == WellFormed /\ CaseRequests => TypeOK'
<1> SUFFICES ASSUME WellFormed, CaseRequests PROVE TypeOK'
  OBVIOUS
<1> USE DEF suiteVars
<1>1. TypeOK
  BY DEF WellFormed
<1>2. MaxCases \in Nat /\ Cases = 1..MaxCases
  BY SizeAssumption DEF Cases
<1>3. CASE CreateCase
  <2>1. left' \in [Events -> Nat]
    BY <1>1, <1>3, SpendType DEF CreateCase, Events
  <2>2. lastCase + 1 \in Cases /\ lastEdit + 1 \in Nat /\ lastOp + 1 \in Nat
    BY <1>1, <1>2, <1>3 DEF CreateCase, TypeOK
  <2>3. cases' \in [Cases -> CaseRow \cup {NoRow}]
    <3>1. PICK row \in CaseRow : row = [content |-> lastEdit + 1, deleted |-> Null]
      BY <2>2 DEF CaseRow, Null
    <3>2. cases' = [cases EXCEPT ![lastCase + 1] = row]
      BY <1>3, <3>1 DEF CreateCase
    <3> QED BY <1>1, <2>2, <3>2 DEF TypeOK
  <2>4. saves' \subseteq Save
    <3>1. PICK u : u = [op |-> lastOp + 1, case |-> lastCase + 1, at |-> "max", edits |-> TRUE,
                        runs |-> FALSE, max |-> 0, content |-> lastEdit + 1]
      OBVIOUS
    <3>2. u \in Save
      BY <2>2, <3>1 DEF Save, SavePhases
    <3> QED BY <1>1, <1>3, <3>1, <3>2 DEF CreateCase, TypeOK
  <2> QED BY <1>1, <1>2, <1>3, <2>1, <2>2, <2>3, <2>4 DEF CreateCase, TypeOK
<1>4. ASSUME NEW c \in Cases, NEW edits \in BOOLEAN, NEW runs \in BOOLEAN,
             PutCase(c, edits, runs)
      PROVE  TypeOK'
  <2>1. left' \in [Events -> Nat]
    BY <1>1, <1>4, SpendType DEF PutCase, Events
  <2>2. saves' \subseteq Save /\ lastOp' \in Nat
    BY <1>1, <1>4 DEF PutCase, TypeOK, Save, SavePhases
  <2> QED BY <1>1, <1>4, <2>1, <2>2 DEF PutCase, TypeOK
<1>5. ASSUME NEW c \in Cases, RunCase(c) PROVE TypeOK'
  <2>1. left' \in [Events -> Nat]
    BY <1>1, <1>5, SpendType DEF RunCase, Events
  <2> QED BY <1>1, <1>5, <2>1 DEF RunCase, TypeOK
<1>6. ASSUME NEW q \in saves, UpdateCase(q) PROVE TypeOK'
  <2>1. q \in Save /\ q.case \in Cases
    BY <1>1 DEF TypeOK, Save
  <2>2. CASE ~StoredCase(q.case)
    BY <1>1, <1>6, <2>2 DEF UpdateCase, EndSave, TypeOK
  <2>3. CASE StoredCase(q.case)
    <3>1. cases[q.case] \in CaseRow
      BY <1>1, <2>1, <2>3 DEF TypeOK, StoredCase
    <3>2. PICK content \in Nat : content = IF q.edits THEN lastEdit + 1 ELSE cases[q.case].content
      <4>1. lastEdit + 1 \in Nat
        BY <1>1 DEF TypeOK
      <4>2. cases[q.case].content \in Nat
        BY <3>1 DEF CaseRow
      <4> QED BY <4>1, <4>2
    <3>3. cases' = [cases EXCEPT ![q.case].content = content]
          /\ saves' = (saves \ {q}) \cup {[q EXCEPT !.at = "max", !.content = content]}
      BY <1>6, <2>3, <3>2 DEF UpdateCase
    <3>4. cases' \in [Cases -> CaseRow \cup {NoRow}]
      <4>1. PICK row \in CaseRow : row = [cases[q.case] EXCEPT !.content = content]
        BY <3>1 DEF CaseRow
      <4>2. cases' = [cases EXCEPT ![q.case] = row]
        BY <3>3, <4>1
      <4> QED BY <1>1, <2>1, <4>2 DEF TypeOK
    <3>5. saves' \subseteq Save
      <4>1. "max" \in SavePhases
        BY DEF SavePhases
      <4>2. PICK u \in Save : u = [q EXCEPT !.at = "max", !.content = content]
        BY <2>1, <4>1, SaveMoves
      <4> QED BY <1>1, <3>3, <4>2 DEF TypeOK
    <3>6. lastEdit' \in Nat /\ hasRuns' \subseteq Cases
      BY <1>1, <1>6, <2>1, <2>3 DEF UpdateCase, TypeOK
    <3>7. missed' \in [Cases -> Causes]
      BY <1>1, <1>6, <2>3 DEF UpdateCase, TypeOK, Causes
    <3> QED BY <1>1, <1>6, <3>4, <3>5, <3>6, <3>7 DEF UpdateCase, TypeOK
  <2> QED BY <2>2, <2>3
<1>7. ASSUME NEW q \in saves, SnapshotMax(q) PROVE TypeOK'
  <2>1. q \in Save /\ q.case \in Cases
    BY <1>1 DEF TypeOK, Save
  <2>2. PICK n \in Nat : n = Latest(q.case)
    BY <2>1, LatestIsTheCount DEF WellFormed
  <2>3. saves' \subseteq Save
    <3>1. "content" \in SavePhases
      BY DEF SavePhases
    <3>2. PICK u \in Save : u = [q EXCEPT !.at = "content", !.max = n]
      BY <2>1, <3>1, SaveMoves
    <3> QED BY <1>1, <1>7, <2>2, <3>2 DEF SnapshotMax, TypeOK
  <2> QED BY <1>1, <1>7, <2>3 DEF SnapshotMax, TypeOK
<1>8. ASSUME NEW q \in saves, SnapshotContent(q) PROVE TypeOK'
  <2>1. q \in Save /\ q.case \in Cases
    BY <1>1 DEF TypeOK, Save
  <2>2. StoredCase(q.case) => Captured(q) \in Nat
    BY <1>1, <2>1 DEF TypeOK, StoredCase, Captured, CaseRow
  <2>3. saves' \subseteq Save
    <3>1. CASE StoredCase(q.case)
      <4>1. PICK n \in Nat : n = Captured(q)
        BY <2>2, <3>1
      <4>2. "insert" \in SavePhases
        BY DEF SavePhases
      <4>3. PICK u \in Save : u = [q EXCEPT !.at = "insert", !.content = n]
        BY <2>1, <4>2, SaveMoves
      <4> QED BY <1>1, <1>8, <3>1, <4>1, <4>3 DEF SnapshotContent, TypeOK
    <3>2. CASE ~StoredCase(q.case)
      BY <1>1, <1>8, <3>2 DEF SnapshotContent, EndSave, TypeOK
    <3> QED BY <3>1, <3>2
  <2> QED BY <1>1, <1>8, <2>3 DEF SnapshotContent, TypeOK
<1>9. ASSUME NEW q \in saves, SnapshotInsert(q) PROVE TypeOK'
  <2>1. q \in Save /\ q.case \in Cases
    BY <1>1 DEF TypeOK, Save
  <2>2. [case |-> q.case, version |-> NextVersion(q), content |-> q.content] \in Version
    BY <2>1 DEF Save, Version, NextVersion
  <2>3. versions' \subseteq Version /\ saves' \subseteq Save /\ missed' \in [Cases -> Causes]
    BY <1>1, <1>9, <2>2 DEF SnapshotInsert, EndSave, Lost, Causes, TypeOK
  <2> QED BY <1>1, <1>9, <2>3 DEF SnapshotInsert, TypeOK
<1>10. ASSUME NEW q \in saves, SaveFails(q) PROVE TypeOK'
  <2>1. left' \in [Events -> Nat]
    BY <1>1, <1>10, SpendType DEF SaveFails, Events
  <2>2. saves' \subseteq Save /\ missed' \in [Cases -> Causes]
    BY <1>1, <1>10 DEF SaveFails, EndSave, Lost, Causes, TypeOK
  <2> QED BY <1>1, <1>10, <2>1, <2>2 DEF SaveFails, TypeOK
<1> QED BY <1>3, <1>4, <1>5, <1>6, <1>7, <1>8, <1>9, <1>10 DEF CaseRequests

LEMMA SuiteRequestsType == WellFormed /\ SuiteRequests => TypeOK'
<1> SUFFICES ASSUME WellFormed, SuiteRequests PROVE TypeOK'
  OBVIOUS
<1> USE DEF caseVars
<1>1. TypeOK
  BY DEF WellFormed
<1>2. MaxSuites \in Nat /\ Suites = 1..MaxSuites
  BY SizeAssumption DEF Suites
<1>3. ASSUME NEW q \in linkings, NEW at \in LinkPhases, Continue(q, at) \/ EndLinking(q)
      PROVE  linkings' \subseteq Linking
  <2>1. [q EXCEPT !.at = at] \in Linking
    BY <1>1, LinkingMoves DEF TypeOK
  <2> QED BY <1>1, <1>3, <2>1 DEF Continue, EndLinking, TypeOK
<1>4. ASSUME NEW ids \in SUBSET Cases, CreateSuite(ids) PROVE TypeOK'
  <2>1. left' \in [Events -> Nat]
    BY <1>1, <1>4, SpendType DEF CreateSuite, Events
  <2>2. lastSuite + 1 \in Suites /\ lastOp + 1 \in Nat
    BY <1>1, <1>2, <1>4 DEF CreateSuite, TypeOK
  <2>3. suites' \in [Suites -> SuiteRow \cup {NoRow}]
    <3>1. PICK row \in SuiteRow : row = [deleted |-> Null]
      BY DEF SuiteRow, Null
    <3>2. suites' = [suites EXCEPT ![lastSuite + 1] = row]
      BY <1>4, <3>1 DEF CreateSuite
    <3> QED BY <1>1, <2>2, <3>2 DEF TypeOK
  <2>4. linkings' \subseteq Linking
    <3>1. PICK q : q = [op |-> lastOp + 1, suite |-> lastSuite + 1, ids |-> ids, at |-> "count",
                        creates |-> TRUE, dropped |-> {}]
      OBVIOUS
    <3>2. q \in Linking
      BY <2>2, <3>1 DEF Linking, LinkPhases
    <3> QED BY <1>1, <1>4, <3>1, <3>2 DEF CreateSuite, TypeOK
  <2> QED BY <1>1, <1>2, <1>4, <2>1, <2>2, <2>3, <2>4 DEF CreateSuite, TypeOK
<1>5. ASSUME NEW s \in Suites, NEW ids \in SUBSET Cases, PutSuite(s, ids) PROVE TypeOK'
  <2>1. left' \in [Events -> Nat]
    BY <1>1, <1>5, SpendType DEF PutSuite, Events
  <2>2. linkings' \subseteq Linking /\ lastOp' \in Nat
    <3>1. PICK q : q = [op |-> lastOp + 1, suite |-> s, ids |-> ids, at |-> "count",
                        creates |-> FALSE, dropped |-> {}]
      OBVIOUS
    <3>2. q \in Linking
      BY <1>1, <3>1 DEF Linking, LinkPhases, TypeOK
    <3>3. linkings' = linkings \cup {q} /\ lastOp' = lastOp + 1
      BY <1>5, <3>1 DEF PutSuite
    <3> QED BY <1>1, <3>2, <3>3 DEF TypeOK
  <2> QED BY <1>1, <1>5, <2>1, <2>2 DEF PutSuite, TypeOK
<1>6. ASSUME NEW q \in linkings, CountCases(q) PROVE TypeOK'
  <2>1. linkings' \subseteq Linking
    BY <1>3, <1>6 DEF CountCases, LinkPhases
  <2> QED BY <1>1, <1>6, <2>1 DEF CountCases, TypeOK
<1>7. ASSUME NEW q \in linkings, UndoSuite(q) PROVE TypeOK'
  <2>1. linkings' \subseteq Linking
    BY <1>3, <1>7 DEF UndoSuite, LinkPhases
  <2>2. suites' \in [Suites -> SuiteRow \cup {NoRow}] /\ links' \subseteq links
    BY <1>1, <1>7, RemoveSuitesType DEF UndoSuite
  <2> QED BY <1>1, <1>7, <2>1, <2>2 DEF UndoSuite, TypeOK
<1>8. ASSUME NEW q \in linkings, DeleteLinks(q) PROVE TypeOK'
  <2>1. q \in Linking /\ LinksOf(q.suite) \in SUBSET Link
    BY <1>1 DEF TypeOK, LinksOf
  <2>2. PICK u : u = [q EXCEPT !.at = "commit", !.dropped = LinksOf(q.suite)]
    OBVIOUS
  <2>3. u \in Linking
    BY <2>1, <2>2 DEF Linking, LinkPhases
  <2>4. linkings' \subseteq Linking
    BY <1>1, <1>8, <2>2, <2>3 DEF DeleteLinks, TypeOK
  <2> QED BY <1>1, <1>8, <2>4 DEF DeleteLinks, Pending, TypeOK
<1>9. ASSUME NEW q \in linkings, InsertLinks(q) PROVE TypeOK'
  <2>1. q \in Linking /\ q.ids \subseteq Cases /\ q.suite \in Suites /\ q.op \in Nat
    BY <1>1 DEF TypeOK, Linking
  <2>2. linkings' \subseteq Linking
    BY <1>3, <1>9 DEF InsertLinks, LinkPhases
  <2>3. {[suite |-> q.suite, case |-> c, op |-> q.op] : c \in q.ids} \subseteq Link
    BY <2>1 DEF Link
  <2>4. links' \subseteq Link
    BY <1>1, <1>9, <2>3 DEF InsertLinks, TypeOK
  <2>5. members' \in [Suites -> SUBSET Cases] /\ mixed' \subseteq Suites
    BY <1>1, <1>9, <2>1 DEF InsertLinks, TypeOK
  <2> QED BY <1>1, <1>9, <2>2, <2>4, <2>5 DEF InsertLinks, TypeOK
<1>10. ASSUME NEW q \in linkings, LinkingFails(q) PROVE TypeOK'
  <2>1. left' \in [Events -> Nat]
    BY <1>1, <1>10, SpendType DEF LinkingFails, Events
  <2>2. linkings' \subseteq Linking
    BY <1>3, <1>10 DEF LinkingFails, LinkPhases
  <2> QED BY <1>1, <1>10, <2>1, <2>2 DEF LinkingFails, TypeOK
<1> QED BY <1>4, <1>5, <1>6, <1>7, <1>8, <1>9, <1>10 DEF SuiteRequests

(* A row that goes to the trash or comes back keeps everything else.       *)
LEMMA TrashType == WellFormed /\ Trash => TypeOK'
<1> SUFFICES ASSUME WellFormed, Trash PROVE TypeOK'
  OBVIOUS
<1> USE DEF caseVars, suiteVars
<1>1. TypeOK
  BY DEF WellFormed
<1>2. ASSUME NEW c \in Cases, StoredCase(c), NEW when \in Nat,
             cases' = [cases EXCEPT ![c].deleted = when]
      PROVE  cases' \in [Cases -> CaseRow \cup {NoRow}]
  <2>1. cases[c] \in CaseRow
    BY <1>1, <1>2 DEF TypeOK, StoredCase
  <2>2. PICK row \in CaseRow : row = [cases[c] EXCEPT !.deleted = when]
    BY <2>1 DEF CaseRow
  <2>3. cases' = [cases EXCEPT ![c] = row]
    BY <1>2, <2>2
  <2> QED BY <1>1, <2>3 DEF TypeOK
<1>3. ASSUME NEW s \in Suites, StoredSuite(s), NEW when \in Nat,
             suites' = [suites EXCEPT ![s].deleted = when]
      PROVE  suites' \in [Suites -> SuiteRow \cup {NoRow}]
  <2>1. suites[s] \in SuiteRow
    BY <1>1, <1>3 DEF TypeOK, StoredSuite
  <2>2. PICK row \in SuiteRow : row = [suites[s] EXCEPT !.deleted = when]
    BY <2>1 DEF SuiteRow
  <2>3. suites' = [suites EXCEPT ![s] = row]
    BY <1>3, <2>2
  <2> QED BY <1>1, <2>3 DEF TypeOK
<1>4. ASSUME NEW c \in Cases, DeleteCase(c) \/ RestoreCase(c) PROVE TypeOK'
  <2>1. left' \in [Events -> Nat]
    BY <1>1, <1>4, SpendType DEF DeleteCase, RestoreCase, Events
  <2>2. cases' \in [Cases -> CaseRow \cup {NoRow}]
    BY <1>1, <1>2, <1>4 DEF DeleteCase, RestoreCase, LiveCase, TrashedCase, TypeOK, Null
  <2> QED BY <1>1, <1>4, <2>1, <2>2 DEF DeleteCase, RestoreCase, TypeOK
<1>5. ASSUME NEW s \in Suites, DeleteSuite(s) \/ RestoreSuite(s) PROVE TypeOK'
  <2>1. left' \in [Events -> Nat]
    BY <1>1, <1>5, SpendType DEF DeleteSuite, RestoreSuite, Events
  <2>2. suites' \in [Suites -> SuiteRow \cup {NoRow}]
    BY <1>1, <1>3, <1>5 DEF DeleteSuite, RestoreSuite, LiveSuite, TrashedSuite, TypeOK, Null
  <2> QED BY <1>1, <1>5, <2>1, <2>2 DEF DeleteSuite, RestoreSuite, TypeOK
<1>6. ASSUME NEW c \in Cases, PurgeCase(c) PROVE TypeOK'
  <2>1. left' \in [Events -> Nat]
    BY <1>1, <1>6, SpendType DEF PurgeCase, Events
  <2>2. /\ cases' \in [Cases -> CaseRow \cup {NoRow}]
        /\ versions' \subseteq versions /\ links' \subseteq links
    BY <1>1, <1>6, RemoveCasesType DEF PurgeCase
  <2> QED BY <1>1, <1>6, <2>1, <2>2 DEF PurgeCase, TypeOK
<1>7. ASSUME NEW s \in Suites, PurgeSuite(s) PROVE TypeOK'
  <2>1. left' \in [Events -> Nat]
    BY <1>1, <1>7, SpendType DEF PurgeSuite, Events
  <2>2. suites' \in [Suites -> SuiteRow \cup {NoRow}] /\ links' \subseteq links
    BY <1>1, <1>7, RemoveSuitesType DEF PurgeSuite
  <2> QED BY <1>1, <1>7, <2>1, <2>2 DEF PurgeSuite, TypeOK
<1> QED BY <1>4, <1>5, <1>6, <1>7 DEF Trash

LEMMA SweepType == ASSUME WellFormed, NEW r \in Replicas, SweepStep(r) \/ Crash(r) PROVE TypeOK'
<1> USE DEF caseVars, suiteVars
<1>1. TypeOK
  BY DEF WellFormed
<1>2. CASE StartSweep(r)
  <2>1. [at |-> "cases", cutoff |-> clock - Retention] \in Sweep
    BY <1>1, SizeAssumption DEF TypeOK, Sweep
  <2> QED BY <1>1, <1>2, <2>1 DEF StartSweep, TypeOK
<1>3. CASE SweepCases(r)
  <2>1. sweeps' \in [Replicas -> Sweep]
    <3>1. [sweeps[r] EXCEPT !.at = "suites"] \in Sweep
      BY <1>1 DEF TypeOK, Sweep
    <3>2. sweeps' = [sweeps EXCEPT ![r].at = "suites"]
      BY <1>3 DEF SweepCases, AfterCases
    <3> QED BY <1>1, <3>1, <3>2 DEF TypeOK
  <2>2. /\ cases' \in [Cases -> CaseRow \cup {NoRow}]
        /\ versions' \subseteq Version /\ links' \subseteq Link
        /\ left' \in [Events -> Nat]
    <3>1. CASE Spend("fault") /\ UNCHANGED <<cases, versions, links>>
      BY <1>1, <3>1, SpendType DEF TypeOK, Events
    <3>2. CASE left' = left /\ \E gone : RemoveCases(gone)
      BY <1>1, <3>2, RemoveCasesType DEF TypeOK
    <3> QED BY <1>3, <3>1, <3>2 DEF SweepCases
  <2> QED BY <1>1, <1>3, <2>1, <2>2 DEF SweepCases, TypeOK
<1>4. CASE SweepSuites(r)
  <2>1. Idle \in Sweep
    BY DEF Idle, Sweep
  <2>2. suites' \in [Suites -> SuiteRow \cup {NoRow}] /\ links' \subseteq Link
        /\ left' \in [Events -> Nat]
    <3>1. CASE Spend("fault") /\ UNCHANGED <<suites, links>>
      BY <1>1, <3>1, SpendType DEF TypeOK, Events
    <3>2. CASE left' = left /\ \E gone : RemoveSuites(gone)
      BY <1>1, <3>2, RemoveSuitesType DEF TypeOK
    <3> QED BY <1>4, <3>1, <3>2 DEF SweepSuites
  <2> QED BY <1>1, <1>4, <2>1, <2>2 DEF SweepSuites, TypeOK
<1>5. CASE Crash(r)
  <2>1. left' \in [Events -> Nat]
    BY <1>1, <1>5, SpendType DEF Crash, Events
  <2>2. Idle \in Sweep
    BY DEF Idle, Sweep
  <2>3. missed' \in [Cases -> Causes]
    <3>1. \A c \in Cases : missed[c] \in Causes
      BY <1>1 DEF TypeOK
    <3>2. \A c \in Cases : missed'[c] \in Causes
      BY <1>5, <3>1 DEF Crash, Causes
    <3> QED BY <1>5, <3>2 DEF Crash
  <2> QED BY <1>1, <1>5, <2>1, <2>2, <2>3 DEF Crash, TypeOK
<1> QED BY <1>2, <1>3, <1>4, <1>5 DEF SweepStep

LEMMA InitType == Init => TypeOK
<1> SUFFICES ASSUME Init PROVE TypeOK
  OBVIOUS
<1>1. left \in [Events -> Nat]
  BY BudgetAssumption DEF Init
<1>2. Idle \in Sweep
  BY DEF Idle, Sweep
<1>3. MaxCases \in Nat /\ MaxSuites \in Nat
  BY SizeAssumption
<1> QED BY <1>1, <1>2, <1>3 DEF Init, Causes, TypeOK

LEMMA StepType == WellFormed /\ [Next]_vars => TypeOK'
<1> SUFFICES ASSUME WellFormed, [Next]_vars PROVE TypeOK'
  OBVIOUS
<1>1. CASE TimePasses
  <2>1. left' \in [Events -> Nat]
    BY <1>1, SpendType DEF WellFormed, TimePasses, Events
  <2> QED BY <1>1, <2>1 DEF WellFormed, TypeOK, TimePasses, caseVars, suiteVars
<1>2. CASE UNCHANGED vars
  BY <1>2 DEF WellFormed, TypeOK, vars
<1> QED BY <1>1, <1>2, CaseRequestsType, SuiteRequestsType, TrashType, SweepType DEF Next

-----------------------------------------------------------------------------
(* What a step does to the cases: it writes one, it removes some with      *)
(* their versions, or it leaves rows and versions alone, whatever it does  *)
(* to the requests.                                                        *)

KeepsContents ==
  /\ lastCase' = lastCase /\ lastEdit' = lastEdit
  /\ \A c \in Cases : /\ StoredCase(c)' <=> StoredCase(c)
                      /\ StoredCase(c) => cases'[c].content = cases[c].content

Calm ==
  /\ KeepsContents /\ versions' = versions
  /\ \A q \in saves' : q \in saves \/ (q.at = "update" /\ q.case \in Cases /\ StoredCase(q.case))
  /\ \A c \in Cases : missed'[c] = "none" => missed[c] = "none"
  /\ \A q \in saves \ saves' : q.at # "update" => missed'[q.case] # "none"

Removes ==
  /\ \E gone : RemoveCases(gone)
  /\ UNCHANGED <<lastCase, lastEdit, saves, missed>>

Saves(q) == UpdateCase(q) \/ SnapshotMax(q) \/ SnapshotContent(q) \/ SnapshotInsert(q)

LEMMA SameRowsKeep == UNCHANGED <<cases, lastCase, lastEdit>> => KeepsContents
BY DEF KeepsContents, StoredCase

LEMMA QuietIsCalm ==
  ASSUME KeepsContents, UNCHANGED <<versions, saves, missed>>
  PROVE  Calm
BY DEF Calm

LEMMA KindsOfStep ==
  ASSUME WellFormed, [Next]_vars
  PROVE  CreateCase \/ (\E q \in saves : Saves(q)) \/ Removes \/ Calm
<1>1. TypeOK
  BY DEF WellFormed
<1>2. ASSUME NEW c \in Cases, NEW edits \in BOOLEAN, NEW runs \in BOOLEAN, PutCase(c, edits, runs)
      PROVE  Calm
  <2>1. PICK u : /\ u = [op |-> lastOp + 1, case |-> c, at |-> "update", edits |-> edits,
                         runs |-> runs, max |-> 0, content |-> 0]
    OBVIOUS
  <2>2. saves' = saves \cup {u} /\ u.at = "update" /\ u.case = c /\ StoredCase(c)
    BY <1>2, <2>1 DEF PutCase, LiveCase
  <2>3. KeepsContents
    BY <1>2, SameRowsKeep DEF PutCase
  <2> QED BY <1>2, <2>2, <2>3 DEF PutCase, Calm
<1>3. ASSUME NEW q \in saves, SaveFails(q) PROVE Calm
  <2>1. KeepsContents
    BY <1>3, SameRowsKeep DEF SaveFails
  <2>2. q.case \in Cases
    BY <1>1 DEF TypeOK, Save
  <2> QED BY <1>1, <1>3, <2>1, <2>2 DEF SaveFails, EndSave, Lost, Calm, TypeOK
<1>4. ASSUME NEW r \in Replicas, Crash(r) PROVE Calm
  <2>1. KeepsContents
    BY <1>4, SameRowsKeep DEF Crash
  <2>2. \A q \in saves : q.case \in Cases
    BY <1>1 DEF TypeOK, Save
  <2>3. \A c \in Cases : missed'[c] = IF \E q \in saves \ saves' : q.case = c /\ q.at # "update"
                                           THEN "fault" ELSE missed[c]
    BY <1>4 DEF Crash
  <2> QED BY <1>4, <2>1, <2>2, <2>3 DEF Crash, Calm
<1>5. ASSUME NEW c \in Cases, DeleteCase(c) \/ RestoreCase(c) PROVE Calm
  <2>1. StoredCase(c) /\ cases[c] \in CaseRow
    BY <1>1, <1>5 DEF TypeOK, DeleteCase, RestoreCase, LiveCase, TrashedCase, StoredCase
  <2>2. PICK when \in Nat : cases' = [cases EXCEPT ![c].deleted = when]
    BY <1>1, <1>5 DEF TypeOK, DeleteCase, RestoreCase, Null
  <2>3. PICK row \in CaseRow : row = [cases[c] EXCEPT !.deleted = when]
    BY <2>1 DEF CaseRow
  <2>4. row.content = cases[c].content /\ cases' = [cases EXCEPT ![c] = row]
    BY <2>1, <2>2, <2>3 DEF CaseRow
  <2>5. KeepsContents
    BY <1>1, <1>5, <2>1, <2>4, MarkAssumption
       DEF TypeOK, KeepsContents, StoredCase, DeleteCase, RestoreCase
  <2> QED BY <1>5, <2>5, QuietIsCalm DEF DeleteCase, RestoreCase
<1>6. ASSUME NEW c \in Cases, PurgeCase(c) PROVE Removes
  BY <1>6 DEF PurgeCase, Removes
<1>7. ASSUME NEW r \in Replicas, SweepCases(r) PROVE Removes \/ Calm
  BY <1>7, SameRowsKeep, QuietIsCalm DEF SweepCases, Removes
<1>8. ASSUME UNCHANGED caseVars PROVE Calm
  BY <1>8, SameRowsKeep, QuietIsCalm DEF caseVars
<1>9. ASSUME NEW c \in Cases, RunCase(c) PROVE Calm
  BY <1>9, SameRowsKeep, QuietIsCalm DEF RunCase
<1>10. ASSUME SuiteRequests PROVE UNCHANGED caseVars
  BY <1>10 DEF SuiteRequests, CreateSuite, PutSuite, CountCases, UndoSuite, DeleteLinks,
               InsertLinks, LinkingFails
<1>11. CaseRequests => CreateCase \/ (\E q \in saves : Saves(q)) \/ Calm
  BY <1>2, <1>3, <1>9 DEF CaseRequests, Saves
<1>12. Trash => Removes \/ Calm
  BY <1>5, <1>6, <1>8 DEF Trash, DeleteSuite, RestoreSuite, PurgeSuite
<1>13. ASSUME NEW r \in Replicas, SweepStep(r) \/ Crash(r) PROVE Removes \/ Calm
  BY <1>4, <1>7, <1>8, <1>13 DEF SweepStep, StartSweep, SweepSuites
<1>14. TimePasses \/ UNCHANGED vars => Calm
  BY <1>8 DEF TimePasses, vars, caseVars
<1> QED BY <1>8, <1>10, <1>11, <1>12, <1>13, <1>14 DEF Next

-----------------------------------------------------------------------------
(* The numbers of the versions.                                            *)

Count(c) == Cardinality(VersionsOf(c))

(* Ids are never used again, and versions go with their case.              *)
Born ==
  /\ \A c \in Cases : StoredCase(c) => c <= lastCase
  /\ \A q \in saves : q.case <= lastCase
  /\ \A v \in versions : StoredCase(v.case)

(* What a save has read as the greatest number is one still.               *)
Counted ==
  \A q \in saves :
    q.at \in {"content", "insert"} /\ StoredCase(q.case) => q.max <= Count(q.case)

Numbered == WellFormed /\ Born /\ Counted

LEMMA VersionsAreFinite ==
  ASSUME IsFiniteSet(versions), NEW c
  PROVE  IsFiniteSet(VersionsOf(c)) /\ Count(c) \in Nat
BY FS_Subset, FS_CardinalityType DEF VersionsOf, Count

LEMMA SaveHasCase ==
  ASSUME TypeOK, NEW q \in saves
  PROVE  q \in Save /\ q.case \in Cases /\ q.max \in Nat /\ q.content \in Nat /\ q.at \in SavePhases
BY DEF TypeOK, Save

LEMMA CreateEffect ==
  ASSUME TypeOK, CreateCase
  PROVE  \E c \in Cases : \E q :
           /\ c = lastCase + 1 /\ lastCase' = c /\ lastEdit' = lastEdit + 1
           /\ cases'[c].content = lastEdit' /\ StoredCase(c)'
           /\ \A d \in Cases \ {c} : cases'[d] = cases[d]
           /\ saves' = saves \cup {q} /\ q.case = c /\ q.at = "max"
           /\ UNCHANGED <<versions, missed>>
<1>1. lastCase + 1 \in Cases /\ lastEdit + 1 \in Nat
  BY SizeAssumption DEF CreateCase, TypeOK, Cases
<1>2. PICK row : row = [content |-> lastEdit + 1, deleted |-> Null]
  OBVIOUS
<1>3. row \in CaseRow /\ row.content = lastEdit + 1
  BY <1>1, <1>2 DEF CaseRow, Null
<1>4. cases' = [cases EXCEPT ![lastCase + 1] = row]
  BY <1>2 DEF CreateCase
<1>5. cases'[lastCase + 1] = row /\ \A d \in Cases \ {lastCase + 1} : cases'[d] = cases[d]
  BY <1>1, <1>4 DEF TypeOK
<1>6. PICK c \in Cases : c = lastCase + 1
  BY <1>1
<1>7. StoredCase(c)'
  BY <1>3, <1>5, <1>6, MarkAssumption DEF StoredCase
<1>8. PICK q : q = [op |-> lastOp + 1, case |-> lastCase + 1, at |-> "max", edits |-> TRUE,
                    runs |-> FALSE, max |-> 0, content |-> lastEdit + 1]
  OBVIOUS
<1>9. q.case = c /\ q.at = "max"
  BY <1>6, <1>8
<1>10. saves' = saves \cup {q}
  BY <1>8 DEF CreateCase
<1> QED BY <1>1, <1>3, <1>5, <1>6, <1>7, <1>9, <1>10 DEF CreateCase

(* The INSERT is lost, or adds the number after all there are.             *)
LEMMA InsertEffect ==
  ASSUME Numbered, NEW q \in saves, SnapshotInsert(q)
  PROVE  /\ saves' = saves \ {q} /\ q.at = "insert" /\ KeepsContents
         /\ \/ versions' = versions /\ \E why \in {"fault", "clash"} : missed' = [missed EXCEPT ![q.case] = why]
            \/ /\ missed' = missed /\ StoredCase(q.case) /\ q.max = Count(q.case)
               /\ \E new : /\ versions' = versions \cup {new} /\ new \notin versions
                           /\ new.case = q.case /\ new.version = q.max + 1
                           /\ new.content = q.content
<1>1. TypeOK /\ VersionsDense /\ IsFiniteSet(versions)
  BY DEF Numbered, WellFormed
<1>2. q.case \in Cases /\ q.max \in Nat /\ Count(q.case) \in Nat
  BY <1>1, SaveHasCase, VersionsAreFinite
<1>3. KeepsContents
  BY SameRowsKeep DEF SnapshotInsert
<1>4. CASE StoredCase(q.case) /\ ~Collides(q)
  <2>1. PICK new : new = [case |-> q.case, version |-> NextVersion(q), content |-> q.content]
    OBVIOUS
  <2>2. new.case = q.case /\ new.version = q.max + 1 /\ new.content = q.content
    BY <2>1 DEF NextVersion
  <2>3. versions' = versions \cup {new}
    BY <1>4, <2>1 DEF SnapshotInsert
  <2>4. \A v \in VersionsOf(q.case) : v.version # q.max + 1
    BY <1>4 DEF Collides, NextVersion
  <2>5. new \notin versions
    BY <2>2, <2>4 DEF VersionsOf
  <2>6. q.max = Count(q.case)
    <3>1. q.max <= Count(q.case)
      BY <1>4 DEF SnapshotInsert, Numbered, Counted
    <3>2. q.max + 1 \notin 1..Count(q.case)
      BY <1>1, <1>2, <2>4, LatestIsTheCount DEF Count
    <3> QED BY <1>2, <3>1, <3>2
  <2> QED BY <1>3, <1>4, <2>2, <2>3, <2>5, <2>6 DEF SnapshotInsert, EndSave
<1>5. CASE ~(StoredCase(q.case) /\ ~Collides(q))
  BY <1>3, <1>5 DEF SnapshotInsert, Lost, EndSave
<1> QED BY <1>4, <1>5

(* What the other steps of a save do.                                      *)
LEMMA SaveEffect ==
  ASSUME TypeOK, VersionsDense, IsFiniteSet(versions), NEW q \in saves,
         UpdateCase(q) \/ SnapshotMax(q) \/ SnapshotContent(q)
  PROVE  /\ lastCase' = lastCase /\ versions' = versions
         /\ \A c \in Cases : StoredCase(c)' <=> StoredCase(c)
         /\ \A c \in Cases \ {q.case} : missed'[c] = missed[c] /\ cases'[c] = cases[c]
         /\ \/ /\ ~StoredCase(q.case) /\ saves' = saves \ {q} /\ KeepsContents /\ missed' = missed
            \/ \E u :
                 /\ saves' = (saves \ {q}) \cup {u} /\ u.case = q.case
                 /\ \/ /\ u.at = "max" /\ q.at = "update" /\ StoredCase(q.case)
                       /\ cases[q.case].content <= lastEdit =>
                            cases'[q.case].content \in cases[q.case].content..lastEdit'
                       /\ lastEdit' >= lastEdit
                    \/ /\ u.at = "content" /\ q.at = "max" /\ u.max = Count(q.case)
                       /\ KeepsContents /\ missed' = missed
                    \/ /\ u.at = "insert" /\ q.at = "content" /\ u.max = q.max
                       /\ u.content = cases[q.case].content /\ StoredCase(q.case)
                       /\ KeepsContents /\ missed' = missed
<1>1. q \in Save /\ q.case \in Cases /\ q.max \in Nat
  BY SaveHasCase
<1>2. CASE SnapshotMax(q)
  <2>1. PICK n \in Nat : n = Latest(q.case) /\ n = Count(q.case)
    BY <1>1, LatestIsTheCount DEF Count
  <2>2. PICK u : u = [q EXCEPT !.at = "content", !.max = n]
    OBVIOUS
  <2>3. u.at = "content" /\ u.max = n /\ u.case = q.case
    BY <1>1, <2>2 DEF Save
  <2>4. saves' = (saves \ {q}) \cup {u}
    BY <1>2, <2>1, <2>2 DEF SnapshotMax
  <2>5. KeepsContents
    BY <1>2, SameRowsKeep DEF SnapshotMax
  <2> QED BY <1>2, <2>1, <2>3, <2>4, <2>5 DEF SnapshotMax, StoredCase
<1>3. CASE SnapshotContent(q)
  <2>1. KeepsContents
    BY <1>3, SameRowsKeep DEF SnapshotContent
  <2>2. CASE StoredCase(q.case)
    <3>1. PICK u : u = [q EXCEPT !.at = "insert", !.content = Captured(q)]
      OBVIOUS
    <3>2. u.at = "insert" /\ u.max = q.max /\ u.case = q.case /\ u.content = cases[q.case].content
      BY <1>1, <3>1 DEF Save, Captured
    <3>3. saves' = (saves \ {q}) \cup {u}
      BY <1>3, <2>2, <3>1 DEF SnapshotContent
    <3> QED BY <1>3, <2>1, <2>2, <3>2, <3>3 DEF SnapshotContent, StoredCase
  <2>3. CASE ~StoredCase(q.case)
    BY <1>3, <2>1, <2>3 DEF SnapshotContent, EndSave, StoredCase
  <2> QED BY <2>2, <2>3
<1>4. CASE UpdateCase(q)
  <2>1. CASE ~StoredCase(q.case)
    <3>1. KeepsContents
      BY <1>4, <2>1, SameRowsKeep DEF UpdateCase
    <3> QED BY <1>4, <2>1, <3>1 DEF UpdateCase, EndSave, StoredCase
  <2>2. CASE StoredCase(q.case)
    <3>1. cases[q.case] \in CaseRow /\ lastEdit \in Nat
      BY <1>1, <2>2 DEF TypeOK, StoredCase
    <3>2. PICK content \in Nat : content = IF q.edits THEN lastEdit + 1 ELSE cases[q.case].content
      BY <3>1 DEF CaseRow
    <3>3. PICK row \in CaseRow : row = [cases[q.case] EXCEPT !.content = content]
      BY <3>1 DEF CaseRow
    <3>4. row.content = content
      BY <3>1, <3>3 DEF CaseRow
    <3>5. cases' = [cases EXCEPT ![q.case] = row]
      BY <1>4, <2>2, <3>2, <3>3 DEF UpdateCase
    <3>6. cases'[q.case] = row /\ \A c \in Cases \ {q.case} : cases'[c] = cases[c]
      BY <1>1, <3>5 DEF TypeOK
    <3>7. \A c \in Cases : StoredCase(c)' <=> StoredCase(c)
      BY <2>2, <3>6, MarkAssumption DEF StoredCase
    <3>8. PICK u : u = [q EXCEPT !.at = "max", !.content = content]
      OBVIOUS
    <3>9. u.at = "max" /\ u.case = q.case /\ saves' = (saves \ {q}) \cup {u}
      BY <1>1, <1>4, <2>2, <3>2, <3>8 DEF Save, UpdateCase
    <3>10. lastEdit' = (IF q.edits THEN lastEdit + 1 ELSE lastEdit)
      BY <1>4, <2>2 DEF UpdateCase
    <3>11. cases[q.case].content \in Nat
      BY <3>1 DEF CaseRow
    <3>12. lastEdit' >= lastEdit /\ (cases[q.case].content <= lastEdit =>
                                      content \in cases[q.case].content..lastEdit')
      BY <3>1, <3>2, <3>10, <3>11
    <3>13. \A c \in Cases \ {q.case} : missed'[c] = missed[c]
      BY <1>4, <2>2 DEF UpdateCase, TypeOK
    <3> QED BY <1>4, <2>2, <3>4, <3>6, <3>7, <3>9, <3>12, <3>13 DEF UpdateCase
  <2> QED BY <2>1, <2>2
<1> QED BY <1>2, <1>3, <1>4

LEMMA RemovesEffect ==
  ASSUME TypeOK, Born, Removes
  PROVE  /\ UNCHANGED <<lastCase, lastEdit, saves, missed>> /\ versions' \subseteq versions
         /\ \A v \in versions' : StoredCase(v.case)'
         /\ \A c \in Cases :
              /\ StoredCase(c)' => StoredCase(c) /\ cases'[c] = cases[c]
                                     /\ VersionsOf(c)' = VersionsOf(c)
              /\ VersionsOf(c)' = VersionsOf(c) \/ VersionsOf(c)' = {}
<1>1. PICK gone : RemoveCases(gone)
  BY DEF Removes
<1>2. \A v \in versions : v.case \in Cases
  BY DEF TypeOK, Version
<1>3. CASE UNCHANGED <<cases, versions, links>>
  BY <1>3 DEF Removes, Born, StoredCase, VersionsOf
<1>4. CASE /\ cases' = [c \in Cases |-> IF c \in gone THEN NoRow ELSE cases[c]]
           /\ versions' = {v \in versions : v.case \notin gone}
  <2>1. \A v \in versions' : StoredCase(v.case)'
    BY <1>2, <1>4 DEF Born, StoredCase
  <2>2. ASSUME NEW c \in Cases
        PROVE  /\ StoredCase(c)' => StoredCase(c) /\ cases'[c] = cases[c] /\ c \notin gone
               /\ c \notin gone => VersionsOf(c)' = VersionsOf(c)
               /\ c \in gone => VersionsOf(c)' = {}
    BY <1>4 DEF StoredCase, VersionsOf
  <2> QED BY <1>4, <2>1, <2>2 DEF Removes
<1> QED BY <1>1, <1>3, <1>4 DEF RemoveCases

LEMMA SameVersionsDense == VersionsDense /\ versions' = versions => VersionsDense'
BY DEF VersionsDense, VersionsOf

LEMMA InitNumbered == Init => Numbered
<1> SUFFICES ASSUME Init PROVE Numbered
  OBVIOUS
<1>1. IsFiniteSet(versions)
  BY FS_EmptySet DEF Init
<1>2. VersionsDense
  <2>1. \A c \in Cases : VersionsOf(c) = {}
    BY DEF Init, VersionsOf
  <2>2. Cardinality({}) = 0
    BY FS_EmptySet
  <2> QED BY <2>1, <2>2 DEF VersionsDense
<1>3. Born /\ Counted
  BY DEF Init, Born, Counted, StoredCase
<1> QED BY <1>1, <1>2, <1>3, InitType DEF Numbered, WellFormed

LEMMA StepNumbered == Numbered /\ [Next]_vars => Numbered'
<1> SUFFICES ASSUME Numbered, [Next]_vars PROVE Numbered'
  OBVIOUS
<1>1. WellFormed /\ TypeOK /\ VersionsDense /\ IsFiniteSet(versions) /\ Born /\ Counted
  BY DEF Numbered, WellFormed
<1>2. TypeOK'
  BY <1>1, StepType
<1>3. /\ \A c \in Cases : c \in Nat /\ Count(c) \in Nat
      /\ \A q \in saves : q.case \in Cases /\ q.case \in Nat /\ q.max \in Nat
      /\ lastCase \in Nat
  BY <1>1, SaveHasCase, VersionsAreFinite DEF Cases, TypeOK
<1>4. SUFFICES IsFiniteSet(versions') /\ VersionsDense' /\ Born' /\ Counted'
  BY <1>2 DEF Numbered, WellFormed
<1>5. CASE versions' = versions
  <2>1. IsFiniteSet(versions') /\ VersionsDense'
    BY <1>1, <1>5, SameVersionsDense
  <2>2. \A c : Count(c)' = Count(c)
    BY <1>5 DEF Count, VersionsOf
  <2>3. \A v \in versions : v.case \in Cases
    BY <1>1 DEF TypeOK, Version
  <2>4. CASE CreateCase
    <3>created. PICK c \in Cases : \E q :
            /\ c = lastCase + 1 /\ lastCase' = c /\ StoredCase(c)'
            /\ \A d \in Cases \ {c} : cases'[d] = cases[d]
            /\ saves' = saves \cup {q} /\ q.case = c /\ q.at = "max"
      BY <1>1, <2>4, CreateEffect
    <3>1. PICK q :
            /\ c = lastCase + 1 /\ lastCase' = c /\ StoredCase(c)'
            /\ \A d \in Cases \ {c} : cases'[d] = cases[d]
            /\ saves' = saves \cup {q} /\ q.case = c /\ q.at = "max"
      BY <3>created
    <3>2. \A d \in Cases : StoredCase(d)' => d = c \/ StoredCase(d)
      BY <3>1 DEF StoredCase
    <3>3. \A d \in Cases : StoredCase(d) => StoredCase(d)'
      BY <3>1 DEF StoredCase
    <3>4. lastCase < c /\ \A p \in saves : p.case # c
      BY <1>1, <1>3, <3>1 DEF Born
    <3>5. \A d \in Cases : StoredCase(d)' => d <= lastCase'
      BY <1>1, <1>3, <3>1, <3>2, <3>4 DEF Born
    <3>6. \A p \in saves' : p.case <= lastCase'
      BY <1>1, <1>3, <3>1, <3>4 DEF Born
    <3>7. \A v \in versions' : StoredCase(v.case)'
      BY <1>1, <1>5, <2>3, <3>3 DEF Born
    <3>8. ASSUME NEW p \in saves', p.at \in {"content", "insert"}, StoredCase(p.case)'
          PROVE  p.max <= Count(p.case)'
      <4>1. p \in saves
        BY <3>1, <3>8
      <4>2. PICK d \in Cases : d = p.case
        BY <1>3, <4>1
      <4>3. StoredCase(d)
        BY <3>2, <3>4, <3>8, <4>1, <4>2
      <4> QED BY <1>1, <2>2, <3>8, <4>1, <4>2, <4>3 DEF Counted
    <3> QED BY <2>1, <3>5, <3>6, <3>7, <3>8 DEF Born, Counted
  <2>5. CASE Calm
    <3>1. Born' /\ Counted'
      BY <1>1, <1>3, <1>5, <2>2, <2>3, <2>5 DEF Born, Counted, Calm, KeepsContents
    <3> QED BY <2>1, <3>1
  <2>6. ASSUME NEW q \in saves, UpdateCase(q) \/ SnapshotMax(q) \/ SnapshotContent(q)
        PROVE  Born' /\ Counted'
    <3>1. lastCase' = lastCase /\ \A c \in Cases : StoredCase(c)' <=> StoredCase(c)
      BY <1>1, <2>6, SaveEffect
    <3>2. \/ saves' = saves \ {q}
          \/ \E u : /\ saves' = (saves \ {q}) \cup {u} /\ u.case = q.case
                    /\ \/ u.at = "max"
                       \/ u.at = "content" /\ u.max = Count(q.case)
                       \/ u.at = "insert" /\ q.at = "content" /\ u.max = q.max
      BY <1>1, <2>6, SaveEffect
    <3>3. Born'
      BY <1>1, <1>3, <1>5, <2>3, <3>1, <3>2 DEF Born
    <3>4. Counted'
      BY <1>1, <1>3, <2>2, <3>1, <3>2 DEF Counted
    <3> QED BY <3>3, <3>4
  <2>7. ASSUME NEW q \in saves, SnapshotInsert(q) PROVE Born' /\ Counted'
    <3>1. saves' = saves \ {q} /\ KeepsContents
      BY <2>7, InsertEffect
    <3> QED BY <1>1, <1>3, <1>5, <2>2, <2>3, <3>1 DEF Born, Counted, KeepsContents
  <2>8. CASE Removes
    <3>1. /\ UNCHANGED <<lastCase, saves>> /\ \A v \in versions' : StoredCase(v.case)'
          /\ \A c \in Cases : StoredCase(c)' => StoredCase(c)
      BY <1>1, <2>8, RemovesEffect
    <3>2. Born' /\ Counted'
      BY <1>1, <1>3, <2>2, <3>1 DEF Born, Counted
    <3> QED BY <2>1, <3>2
  <2> QED BY <1>1, <2>1, <2>4, <2>5, <2>6, <2>7, <2>8, KindsOfStep DEF Saves
<1>6. CASE Removes
  <2>1. /\ UNCHANGED <<lastCase, saves>> /\ versions' \subseteq versions
        /\ \A v \in versions' : StoredCase(v.case)'
        /\ \A c \in Cases :
             /\ StoredCase(c)' => StoredCase(c) /\ VersionsOf(c)' = VersionsOf(c)
             /\ VersionsOf(c)' = VersionsOf(c) \/ VersionsOf(c)' = {}
    BY <1>1, <1>6, RemovesEffect
  <2>2. IsFiniteSet(versions')
    BY <1>1, <2>1, FS_Subset
  <2>3. VersionsDense'
    <3>1. SUFFICES ASSUME NEW c \in Cases
                   PROVE  {v.version : v \in VersionsOf(c)'} = 1..Cardinality(VersionsOf(c)')
      BY DEF VersionsDense
    <3>2. CASE VersionsOf(c)' = VersionsOf(c)
      BY <1>1, <3>2 DEF VersionsDense
    <3>3. CASE VersionsOf(c)' = {}
      BY <3>3, FS_EmptySet
    <3> QED BY <2>1, <3>2, <3>3
  <2>4. Born' /\ Counted'
    BY <1>1, <1>3, <2>1 DEF Born, Counted, Count
  <2> QED BY <2>2, <2>3, <2>4
<1>7. ASSUME NEW q \in saves, SnapshotInsert(q), versions' # versions
      PROVE  IsFiniteSet(versions') /\ VersionsDense' /\ Born' /\ Counted'
  <2>1. saves' = saves \ {q} /\ KeepsContents /\ StoredCase(q.case) /\ q.max = Count(q.case)
    BY <1>7, InsertEffect
  <2>2. PICK new : /\ versions' = versions \cup {new} /\ new \notin versions
                   /\ new.case = q.case /\ new.version = q.max + 1
    BY <1>7, InsertEffect
  <2>3. IsFiniteSet(versions')
    BY <1>1, <2>2, FS_AddElement
  <2>4. /\ VersionsOf(q.case)' = VersionsOf(q.case) \cup {new} /\ new \notin VersionsOf(q.case)
        /\ \A c \in Cases \ {q.case} : VersionsOf(c)' = VersionsOf(c)
    <3>1. PICK d \in Cases : d = q.case
      BY <1>3
    <3>2. VersionsOf(d)' = VersionsOf(d) \cup {new} /\ new \notin VersionsOf(d)
      BY <2>2, <3>1 DEF VersionsOf
    <3>3. \A c \in Cases \ {d} : VersionsOf(c)' = VersionsOf(c)
      BY <2>2, <3>1 DEF VersionsOf
    <3> QED BY <3>1, <3>2, <3>3
  <2>5. Count(q.case)' = Count(q.case) + 1 /\ \A c \in Cases \ {q.case} : Count(c)' = Count(c)
    BY <1>1, <2>4, VersionsAreFinite, FS_AddElement DEF Count
  <2>6. VersionsDense'
    <3>1. SUFFICES ASSUME NEW c \in Cases
                   PROVE  {v.version : v \in VersionsOf(c)'} = 1..Cardinality(VersionsOf(c)')
      BY DEF VersionsDense
    <3>2. CASE c = q.case
      <4>1. {v.version : v \in VersionsOf(c)'} = (1..Count(c)) \cup {Count(c) + 1}
        BY <1>1, <2>1, <2>2, <2>4, <3>2 DEF VersionsDense, Count
      <4>2. (1..Count(c)) \cup {Count(c) + 1} = 1..(Count(c) + 1)
        BY <1>3
      <4> QED BY <2>5, <3>2, <4>1, <4>2 DEF Count
    <3>3. CASE c # q.case
      BY <1>1, <2>4, <3>3 DEF VersionsDense
    <3> QED BY <3>2, <3>3
  <2>7. Born'
    BY <1>1, <1>3, <2>1, <2>2 DEF Born, KeepsContents, TypeOK, Version
  <2>8. Counted'
    BY <1>1, <1>3, <2>1, <2>5 DEF Counted, KeepsContents
  <2> QED BY <2>3, <2>6, <2>7, <2>8
<1>8. versions' = versions \/ Removes \/ \E q \in saves : SnapshotInsert(q)
  BY <1>1, KindsOfStep DEF CreateCase, Calm, Saves, UpdateCase, SnapshotMax, SnapshotContent
<1> QED BY <1>5, <1>6, <1>7, <1>8

LEMMA AlwaysNumbered == Spec => []Numbered
BY InitNumbered, StepNumbered, PTL DEF Spec

(* Every variable stays in its domain.                                     *)
THEOREM LibraryTypeCorrect == Spec => []TypeOK
<1>1. Numbered => TypeOK
  BY DEF Numbered, WellFormed
<1> QED BY <1>1, AlwaysNumbered, PTL

(* The versions of a case are numbered 1, 2, 3 ...: the number that a save *)
(* adds one to can only be behind, and then the unique index refuses it.   *)
THEOREM VersionsHaveNoGaps == Spec => []VersionsDense
<1>1. Numbered => VersionsDense
  BY DEF Numbered, WellFormed
<1> QED BY <1>1, AlwaysNumbered, PTL

-----------------------------------------------------------------------------
(* What the versions hold.  A row is never older than its versions, and    *)
(* what a save has read is never older than the versions it has counted.   *)

Contents ==
  \A c \in Cases :
    StoredCase(c) => /\ cases[c].content <= lastEdit
                     /\ \A v \in VersionsOf(c) : v.content <= cases[c].content

Captures ==
  \A q \in saves :
    q.at = "insert" /\ StoredCase(q.case) =>
      /\ q.content <= cases[q.case].content
      /\ \A v \in VersionsOf(q.case) : v.version <= q.max => v.content <= q.content

Ordered == Contents /\ Captures /\ HistoryInOrder

LEMMA NumbersAreNat ==
  ASSUME TypeOK
  PROVE  /\ \A c \in Cases : StoredCase(c) => cases[c].content \in Nat
         /\ \A v \in versions : /\ v.case \in Cases /\ v.version \in Nat /\ v.content \in Nat
                                /\ v \in VersionsOf(v.case)
         /\ \A q \in saves : q.case \in Cases /\ q.max \in Nat /\ q.content \in Nat
         /\ lastEdit \in Nat
<1>1. \A c \in Cases : StoredCase(c) => cases[c] \in CaseRow
  BY DEF TypeOK, StoredCase
<1> QED BY <1>1 DEF TypeOK, CaseRow, Version, Save, VersionsOf

LEMMA VersionsAreCounted ==
  ASSUME Numbered, NEW c \in Cases
  PROVE  \A v \in VersionsOf(c) : v.version <= Count(c) /\ v.version \in Nat /\ Count(c) \in Nat
BY LatestIsTheCount DEF Numbered, WellFormed, Count

LEMMA CreateOrdered == Numbered /\ Ordered /\ CreateCase => Ordered'
<1> SUFFICES ASSUME Numbered, Ordered, CreateCase PROVE Ordered'
  OBVIOUS
<1>1. TypeOK /\ Born /\ Contents /\ Captures /\ HistoryInOrder
  BY DEF Numbered, WellFormed, Ordered
<1>created. PICK c \in Cases : \E q :
        /\ c = lastCase + 1 /\ lastEdit' = lastEdit + 1 /\ cases'[c].content = lastEdit'
        /\ \A d \in Cases \ {c} : cases'[d] = cases[d]
        /\ saves' = saves \cup {q} /\ q.case = c /\ q.at = "max" /\ versions' = versions
  BY <1>1, CreateEffect
<1>2. PICK q :
        /\ c = lastCase + 1 /\ lastEdit' = lastEdit + 1 /\ cases'[c].content = lastEdit'
        /\ \A d \in Cases \ {c} : cases'[d] = cases[d]
        /\ saves' = saves \cup {q} /\ q.case = c /\ q.at = "max" /\ versions' = versions
  BY <1>created
<1>3. lastCase \in Nat /\ lastEdit \in Nat /\ \A d \in Cases : d \in Nat
  BY <1>1 DEF TypeOK, Cases
<1>4. ~StoredCase(c) /\ \A p \in saves : p.case # c
  BY <1>1, <1>2, <1>3 DEF Born
<1>5. \A v \in versions : v.case # c
  BY <1>1, <1>4 DEF Born
<1>6. Contents'
  <2>1. SUFFICES ASSUME NEW d \in Cases, StoredCase(d)'
                 PROVE  /\ cases'[d].content <= lastEdit'
                        /\ \A v \in VersionsOf(d)' : v.content <= cases'[d].content
    BY DEF Contents
  <2>2. CASE d = c
    BY <1>2, <1>3, <1>5, <2>2 DEF VersionsOf
  <2>3. CASE d # c
    <3>1. StoredCase(d) /\ cases'[d] = cases[d] /\ VersionsOf(d)' = VersionsOf(d)
      BY <1>2, <2>1, <2>3 DEF StoredCase, VersionsOf
    <3>2. cases[d].content \in Nat
      BY <1>1, <3>1, NumbersAreNat
    <3> QED BY <1>1, <1>2, <1>3, <3>1, <3>2 DEF Contents
  <2> QED BY <2>2, <2>3
<1>7. Captures'
  <2>1. SUFFICES ASSUME NEW p \in saves', p.at = "insert", StoredCase(p.case)'
                 PROVE  /\ p.content <= cases'[p.case].content
                        /\ \A v \in VersionsOf(p.case)' : v.version <= p.max => v.content <= p.content
    BY DEF Captures
  <2>2. p \in saves /\ p.case # c /\ p.case \in Cases
    BY <1>1, <1>2, <1>4, <2>1, NumbersAreNat
  <2>3. StoredCase(p.case) /\ cases'[p.case] = cases[p.case]
        /\ VersionsOf(p.case)' = VersionsOf(p.case)
    BY <1>2, <2>1, <2>2 DEF StoredCase, VersionsOf
  <2> QED BY <1>1, <2>1, <2>2, <2>3 DEF Captures
<1>8. HistoryInOrder'
  BY <1>1, <1>2 DEF HistoryInOrder
<1> QED BY <1>6, <1>7, <1>8 DEF Ordered

LEMMA CalmOrdered == Numbered /\ Ordered /\ Calm => Ordered'
<1> SUFFICES ASSUME Numbered, Ordered, Calm PROVE Ordered'
  OBVIOUS
<1>1. TypeOK /\ Contents /\ Captures /\ HistoryInOrder
  BY DEF Numbered, WellFormed, Ordered
<1>2. versions' = versions /\ \A c \in Cases : VersionsOf(c)' = VersionsOf(c)
  BY DEF Calm, VersionsOf
<1>3. /\ lastEdit' = lastEdit
      /\ \A c \in Cases : StoredCase(c)' <=> StoredCase(c)
      /\ \A c \in Cases : StoredCase(c) => cases'[c].content = cases[c].content
  BY DEF Calm, KeepsContents
<1>4. Contents'
  <2>1. SUFFICES ASSUME NEW c \in Cases, StoredCase(c)'
                 PROVE  /\ cases'[c].content <= lastEdit'
                        /\ \A v \in VersionsOf(c)' : v.content <= cases'[c].content
    BY DEF Contents
  <2>2. StoredCase(c) /\ cases'[c].content = cases[c].content
    BY <1>3, <2>1
  <2> QED BY <1>1, <1>2, <1>3, <2>2 DEF Contents
<1>5. \A p \in saves' : p.at = "insert" => p \in saves /\ p.case \in Cases
  BY <1>1, NumbersAreNat DEF Calm
<1>6. Captures'
  <2>1. SUFFICES ASSUME NEW p \in saves', p.at = "insert", StoredCase(p.case)'
                 PROVE  /\ p.content <= cases'[p.case].content
                        /\ \A v \in VersionsOf(p.case)' : v.version <= p.max => v.content <= p.content
    BY DEF Captures
  <2>2. PICK c \in Cases : c = p.case
    BY <1>5, <2>1
  <2>3. p \in saves /\ StoredCase(c) /\ cases'[c].content = cases[c].content
    BY <1>3, <1>5, <2>1, <2>2
  <2>4. /\ p.content <= cases[c].content
        /\ \A v \in VersionsOf(c) : v.version <= p.max => v.content <= p.content
    BY <1>1, <2>1, <2>2, <2>3 DEF Captures
  <2> QED BY <1>2, <2>2, <2>3, <2>4
<1> QED BY <1>1, <1>2, <1>4, <1>6 DEF Ordered, HistoryInOrder

LEMMA RemovesOrdered == Numbered /\ Ordered /\ Removes => Ordered'
<1> SUFFICES ASSUME Numbered, Ordered, Removes PROVE Ordered'
  OBVIOUS
<1>1. TypeOK /\ Born /\ Contents /\ Captures /\ HistoryInOrder
  BY DEF Numbered, WellFormed, Ordered
<1>2. /\ lastEdit' = lastEdit /\ saves' = saves /\ versions' \subseteq versions
      /\ \A c \in Cases : StoredCase(c)' => StoredCase(c) /\ cases'[c] = cases[c]
                                              /\ VersionsOf(c)' = VersionsOf(c)
  BY <1>1, RemovesEffect
<1>3. \A q \in saves : q.case \in Cases
  BY <1>1, NumbersAreNat
<1>4. Contents'
  BY <1>1, <1>2 DEF Contents
<1>5. Captures'
  BY <1>1, <1>2, <1>3 DEF Captures
<1>6. HistoryInOrder'
  BY <1>1, <1>2 DEF HistoryInOrder
<1> QED BY <1>4, <1>5, <1>6 DEF Ordered

LEMMA SaveOrdered ==
  ASSUME Numbered, Ordered, NEW q \in saves, UpdateCase(q) \/ SnapshotMax(q) \/ SnapshotContent(q)
  PROVE  Ordered'
<1>1. TypeOK /\ VersionsDense /\ IsFiniteSet(versions) /\ Contents /\ Captures /\ HistoryInOrder
  BY DEF Numbered, WellFormed, Ordered
<1>2. /\ \A c \in Cases : StoredCase(c) => cases[c].content \in Nat
      /\ \A p \in saves : p.case \in Cases /\ p.content \in Nat
      /\ \A v \in versions : v.content \in Nat
      /\ lastEdit \in Nat
  BY <1>1, NumbersAreNat
<1>3. versions' = versions /\ \A c : VersionsOf(c)' = VersionsOf(c)
  BY <1>1, SaveEffect DEF VersionsOf
<1>4. \A c \in Cases : StoredCase(c)' <=> StoredCase(c)
  BY <1>1, SaveEffect
<1>5. lastEdit' >= lastEdit /\ lastEdit' \in Int
  <2>1. lastEdit' = lastEdit \/ lastEdit' = lastEdit + 1
    BY DEF UpdateCase, SnapshotMax, SnapshotContent
  <2> QED BY <1>2, <2>1
<1>6. \A c \in Cases : StoredCase(c) =>
        cases'[c].content >= cases[c].content /\ cases'[c].content <= lastEdit'
          /\ cases'[c].content \in Int
  <2>1. SUFFICES ASSUME NEW c \in Cases, StoredCase(c)
                 PROVE  cases'[c].content >= cases[c].content /\ cases'[c].content <= lastEdit'
                          /\ cases'[c].content \in Int
    OBVIOUS
  <2>2. cases[c].content \in Nat /\ cases[c].content <= lastEdit
    BY <1>1, <1>2, <2>1 DEF Contents
  <2>3. \/ cases'[c].content = cases[c].content
        \/ cases'[c].content \in cases[c].content..lastEdit'
    BY <1>1, <2>1, <2>2, SaveEffect DEF KeepsContents
  <2> QED BY <1>2, <1>5, <2>2, <2>3
<1>7. Contents'
  <2>1. SUFFICES ASSUME NEW c \in Cases, StoredCase(c), NEW v \in VersionsOf(c)
                 PROVE  v.content <= cases'[c].content
    BY <1>3, <1>4, <1>6 DEF Contents
  <2>2. v.content <= cases[c].content /\ v.content \in Nat /\ cases[c].content \in Nat
    BY <1>1, <1>2, <2>1 DEF Contents, VersionsOf
  <2> QED BY <1>6, <2>1, <2>2
<1>8. Captures'
  <2>1. SUFFICES ASSUME NEW p \in saves', p.at = "insert", StoredCase(p.case)'
                 PROVE  /\ p.content <= cases'[p.case].content
                        /\ \A v \in VersionsOf(p.case) : v.version <= p.max => v.content <= p.content
    BY <1>3 DEF Captures
  <2>2. CASE p \in saves
    <3>1. p.case \in Cases /\ StoredCase(p.case) /\ p.content \in Nat
      BY <1>2, <1>4, <2>1, <2>2
    <3>2. /\ p.content <= cases[p.case].content /\ cases[p.case].content \in Nat
          /\ \A v \in VersionsOf(p.case) : v.version <= p.max => v.content <= p.content
      BY <1>1, <1>2, <2>1, <2>2, <3>1 DEF Captures
    <3>3. cases'[p.case].content >= cases[p.case].content /\ cases'[p.case].content \in Int
      BY <1>6, <3>1
    <3> QED BY <3>1, <3>2, <3>3
  <2>3. CASE p \notin saves
    <3>1. /\ p.case = q.case /\ p.content = cases[q.case].content /\ StoredCase(q.case)
          /\ KeepsContents
      BY <1>1, <2>1, <2>3, SaveEffect
    <3>2. q.case \in Cases /\ cases'[q.case].content = p.content /\ p.content \in Nat
      BY <1>2, <3>1 DEF KeepsContents
    <3>3. \A v \in VersionsOf(p.case) : v.content <= p.content
      BY <1>1, <3>1, <3>2 DEF Contents
    <3> QED BY <3>1, <3>2, <3>3
  <2> QED BY <2>2, <2>3
<1> QED BY <1>1, <1>3, <1>7, <1>8 DEF Ordered, HistoryInOrder

LEMMA InsertOrdered ==
  ASSUME Numbered, Ordered, NEW q \in saves, SnapshotInsert(q)
  PROVE  Ordered'
<1>1. TypeOK /\ Contents /\ Captures /\ HistoryInOrder /\ Counted
  BY DEF Numbered, WellFormed, Ordered
<1>2. /\ \A c \in Cases : StoredCase(c) => cases[c].content \in Nat
      /\ \A p \in saves : p.case \in Cases /\ p.content \in Nat /\ p.max \in Nat
      /\ \A v \in versions : v.version \in Nat /\ v.content \in Nat
  BY <1>1, NumbersAreNat
<1>3. saves' = saves \ {q} /\ q.at = "insert" /\ KeepsContents
  BY InsertEffect
<1>4. /\ lastEdit' = lastEdit
      /\ \A c \in Cases : StoredCase(c)' <=> StoredCase(c)
      /\ \A c \in Cases : StoredCase(c) => cases'[c].content = cases[c].content
  BY <1>3 DEF KeepsContents
<1>5. CASE versions' = versions
  <2>1. \A c \in Cases : VersionsOf(c)' = VersionsOf(c)
    BY <1>5 DEF VersionsOf
  <2>2. Contents'
    BY <1>1, <1>4, <2>1 DEF Contents
  <2>3. Captures'
    BY <1>1, <1>2, <1>3, <1>4, <2>1 DEF Captures
  <2> QED BY <1>1, <1>5, <2>2, <2>3 DEF Ordered, HistoryInOrder
<1>6. CASE versions' # versions
  <2>1. StoredCase(q.case) /\ q.max = Count(q.case)
    BY <1>6, InsertEffect
  <2>2. PICK new : /\ versions' = versions \cup {new} /\ new.case = q.case
                   /\ new.version = q.max + 1 /\ new.content = q.content
    BY <1>6, InsertEffect
  <2>3. PICK d \in Cases : d = q.case
    BY <1>2
  <2>4. /\ q.content <= cases[d].content /\ q.content \in Nat /\ q.max \in Nat
        /\ \A v \in VersionsOf(d) : v.version <= q.max => v.content <= q.content
    BY <1>1, <1>2, <1>3, <2>1, <2>3 DEF Captures
  <2>5. \A v \in VersionsOf(d) : v.version <= q.max /\ v.content <= q.content
    BY <2>1, <2>3, <2>4, VersionsAreCounted
  <2>6. /\ VersionsOf(d)' = VersionsOf(d) \cup {new}
        /\ \A c \in Cases \ {d} : VersionsOf(c)' = VersionsOf(c)
    BY <2>2, <2>3 DEF VersionsOf
  <2>7. Contents'
    <3>1. SUFFICES ASSUME NEW c \in Cases, StoredCase(c)', NEW v \in VersionsOf(c)'
                   PROVE  cases'[c].content <= lastEdit' /\ v.content <= cases'[c].content
      BY <1>1, <1>4 DEF Contents
    <3>2. StoredCase(c) /\ cases'[c].content = cases[c].content
      BY <1>4, <3>1
    <3>3. v \in VersionsOf(c) \/ (c = d /\ v = new)
      BY <2>6, <3>1
    <3> QED BY <1>1, <1>4, <2>2, <2>4, <3>2, <3>3 DEF Contents
  <2>8. Captures'
    <3>1. SUFFICES ASSUME NEW p \in saves', p.at = "insert", StoredCase(p.case)'
                   PROVE  /\ p.content <= cases'[p.case].content
                          /\ \A v \in VersionsOf(p.case)' : v.version <= p.max => v.content <= p.content
      BY DEF Captures
    <3>2. p \in saves
      BY <1>3, <3>1
    <3>3. PICK c \in Cases : c = p.case
      BY <1>2, <3>2
    <3>4. StoredCase(c) /\ cases'[c].content = cases[c].content
      BY <1>4, <3>1, <3>3
    <3>5. /\ p.content <= cases[c].content /\ p.max \in Nat
          /\ \A v \in VersionsOf(c) : v.version <= p.max => v.content <= p.content
      BY <1>1, <1>2, <3>1, <3>2, <3>3, <3>4 DEF Captures
    <3>6. c = d => p.max <= q.max
      BY <1>1, <2>1, <2>3, <3>1, <3>2, <3>3, <3>4 DEF Counted
    <3>7. \A v \in VersionsOf(c)' : v.version <= p.max => v.content <= p.content
      <4>1. \A v \in VersionsOf(c)' : v \in VersionsOf(c) \/ (c = d /\ v = new)
        BY <2>6
      <4>2. c = d => ~(new.version <= p.max)
        BY <2>2, <2>4, <3>5, <3>6
      <4> QED BY <3>5, <4>1, <4>2
    <3> QED BY <3>3, <3>4, <3>5, <3>7
  <2>9. HistoryInOrder'
    <3>1. SUFFICES ASSUME NEW v \in versions', NEW w \in versions',
                          v.case = w.case, v.version < w.version
                   PROVE  v.content <= w.content
      BY DEF HistoryInOrder
    <3>2. CASE v \in versions /\ w \in versions
      BY <1>1, <3>1, <3>2 DEF HistoryInOrder
    <3>3. CASE w = new
      <4>1. v \in VersionsOf(d) \/ v = new
        BY <2>2, <2>3, <3>1, <3>3 DEF VersionsOf
      <4> QED BY <2>2, <2>4, <2>5, <3>3, <4>1
    <3>4. CASE v = new /\ w \in versions
      <4>1. w \in VersionsOf(d) /\ w.version \in Nat
        BY <1>2, <2>2, <2>3, <3>1, <3>4 DEF VersionsOf
      <4> QED BY <2>2, <2>4, <2>5, <3>1, <3>4, <4>1
    <3> QED BY <2>2, <3>1, <3>2, <3>3, <3>4
  <2> QED BY <2>7, <2>8, <2>9 DEF Ordered
<1> QED BY <1>5, <1>6

LEMMA StepOrdered == Numbered /\ Ordered /\ [Next]_vars => Ordered'
BY CreateOrdered, CalmOrdered, RemovesOrdered, SaveOrdered, InsertOrdered, KindsOfStep
   DEF Saves, Numbered

LEMMA InitOrdered == Init => Ordered
BY DEF Init, Ordered, Contents, Captures, HistoryInOrder, StoredCase

LEMMA AlwaysOrdered == Spec => []Ordered
BY InitOrdered, StepOrdered, AlwaysNumbered, PTL DEF Spec

(* Of two versions of a case the later never holds an older edit: a save   *)
(* reads the row after it has read the number it adds one to.              *)
THEOREM HistoryKeepsOrder == Spec => []HistoryInOrder
<1>1. Ordered => HistoryInOrder
  BY DEF Ordered
<1> QED BY <1>1, AlwaysOrdered, PTL

-----------------------------------------------------------------------------
(* The newest version.  Unless one was lost, either the newest version     *)
(* holds what the row does, or a save is under way that will add one that  *)
(* does.                                                                   *)

Newest(c) == \E v \in VersionsOf(c) : v.version = Count(c) /\ v.content = cases[c].content

WillTell(q, c) ==
  /\ q.case = c
  /\ q.at \in {"max", "content"} \/ (q.at = "insert" /\ q.content = cases[c].content)

NothingLost ==
  \A c \in Cases :
    StoredCase(c) /\ missed[c] = "none" => Newest(c) \/ \E q \in saves : WillTell(q, c)

LEMMA CreateLosesNothing == Numbered /\ NothingLost /\ CreateCase => NothingLost'
<1> SUFFICES ASSUME Numbered, NothingLost, CreateCase,
                    NEW d \in Cases, StoredCase(d)', missed'[d] = "none"
             PROVE  Newest(d)' \/ \E q \in saves' : WillTell(q, d)'
  BY DEF NothingLost
<1>1. TypeOK /\ Born
  BY DEF Numbered, WellFormed
<1>created. PICK c \in Cases : \E q :
        /\ \A e \in Cases \ {c} : cases'[e] = cases[e]
        /\ saves' = saves \cup {q} /\ q.case = c /\ q.at = "max"
        /\ UNCHANGED <<versions, missed>>
  BY <1>1, CreateEffect
<1>2. PICK q :
        /\ \A e \in Cases \ {c} : cases'[e] = cases[e]
        /\ saves' = saves \cup {q} /\ q.case = c /\ q.at = "max"
        /\ UNCHANGED <<versions, missed>>
  BY <1>created
<1>3. CASE d = c
  BY <1>2, <1>3 DEF WillTell
<1>4. CASE d # c
  <2>1. StoredCase(d) /\ missed[d] = "none" /\ cases'[d] = cases[d]
    BY <1>2, <1>4 DEF StoredCase
  <2>2. VersionsOf(d)' = VersionsOf(d)
    BY <1>2 DEF VersionsOf
  <2>3. CASE Newest(d)
    BY <2>1, <2>2, <2>3 DEF Newest, Count
  <2>4. CASE \E p \in saves : WillTell(p, d)
    BY <1>2, <2>1, <2>4 DEF WillTell
  <2> QED BY <2>1, <2>3, <2>4 DEF NothingLost
<1> QED BY <1>3, <1>4

LEMMA CalmLosesNothing == Numbered /\ NothingLost /\ Calm => NothingLost'
<1> SUFFICES ASSUME Numbered, NothingLost, Calm,
                    NEW c \in Cases, StoredCase(c)', missed'[c] = "none"
             PROVE  Newest(c)' \/ \E q \in saves' : WillTell(q, c)'
  BY DEF NothingLost
<1>1. StoredCase(c) /\ cases'[c].content = cases[c].content
  BY DEF Calm, KeepsContents
<1>2. missed[c] = "none" /\ versions' = versions
  BY DEF Calm
<1>3. CASE Newest(c)
  BY <1>1, <1>2, <1>3 DEF Newest, Count, VersionsOf
<1>4. CASE \E q \in saves : WillTell(q, c)
  <2>1. PICK q \in saves : WillTell(q, c)
    BY <1>4
  <2>2. q \in saves'
    BY <2>1 DEF Calm, WillTell
  <2>3. WillTell(q, c)'
    BY <1>1, <2>1 DEF WillTell
  <2> QED BY <2>2, <2>3
<1> QED BY <1>1, <1>2, <1>3, <1>4 DEF NothingLost

LEMMA RemovesLoseNothing == Numbered /\ NothingLost /\ Removes => NothingLost'
<1> SUFFICES ASSUME Numbered, NothingLost, Removes,
                    NEW c \in Cases, StoredCase(c)', missed'[c] = "none"
             PROVE  Newest(c)' \/ \E q \in saves' : WillTell(q, c)'
  BY DEF NothingLost
<1>1. /\ StoredCase(c) /\ cases'[c] = cases[c] /\ VersionsOf(c)' = VersionsOf(c)
      /\ UNCHANGED <<saves, missed>>
  BY RemovesEffect DEF Numbered, WellFormed
<1>2. CASE Newest(c)
  BY <1>1, <1>2 DEF Newest, Count
<1>3. CASE \E q \in saves : WillTell(q, c)
  BY <1>1, <1>3 DEF WillTell
<1> QED BY <1>1, <1>2, <1>3 DEF NothingLost

LEMMA SaveLosesNothing ==
  ASSUME Numbered, NothingLost, NEW q \in saves,
         UpdateCase(q) \/ SnapshotMax(q) \/ SnapshotContent(q)
  PROVE  NothingLost'
<1> SUFFICES ASSUME NEW c \in Cases, StoredCase(c)', missed'[c] = "none"
             PROVE  Newest(c)' \/ \E p \in saves' : WillTell(p, c)'
  BY DEF NothingLost
<1>1. TypeOK /\ VersionsDense /\ IsFiniteSet(versions)
  BY DEF Numbered, WellFormed
<1>2. StoredCase(c) /\ versions' = versions /\ VersionsOf(c)' = VersionsOf(c)
  BY <1>1, SaveEffect DEF VersionsOf
(* A witness that is another save, or a newest version, stays one while    *)
(* the row does.                                                           *)
<1>3. ASSUME missed'[c] = missed[c], cases'[c].content = cases[c].content,
             \A p \in saves : p = q \/ p \in saves',
             WillTell(q, c) => \E p \in saves' : WillTell(p, c)'
      PROVE  Newest(c)' \/ \E p \in saves' : WillTell(p, c)'
  <2>1. CASE Newest(c)
    BY <1>2, <1>3, <2>1 DEF Newest, Count
  <2>2. ASSUME NEW p \in saves, WillTell(p, c), p # q
        PROVE  \E r \in saves' : WillTell(r, c)'
    <3>1. p \in saves' /\ WillTell(p, c)'
      BY <1>3, <2>2 DEF WillTell
    <3> QED BY <3>1
  <2> QED BY <1>2, <1>3, <2>1, <2>2 DEF NothingLost
<1>4. CASE c # q.case
  <2>1. missed'[c] = missed[c] /\ cases'[c].content = cases[c].content
    BY <1>1, <1>4, SaveEffect
  <2>2. \A p \in saves : p = q \/ p \in saves'
    BY <1>1, SaveEffect
  <2>3. ~WillTell(q, c)
    BY <1>4 DEF WillTell
  <2> QED BY <1>3, <2>1, <2>2, <2>3
<1>5. CASE c = q.case
  <2>1. PICK u :
          /\ saves' = (saves \ {q}) \cup {u} /\ u.case = q.case
          /\ \/ u.at = "max" /\ q.at = "update"
             \/ u.at = "content" /\ q.at = "max" /\ KeepsContents /\ missed' = missed
             \/ /\ u.at = "insert" /\ q.at = "content" /\ u.content = cases[q.case].content
                /\ KeepsContents /\ missed' = missed
    BY <1>1, <1>2, <1>5, SaveEffect
  <2>2. CASE u.at \in {"max", "content"}
    BY <1>5, <2>1, <2>2 DEF WillTell
  <2>3. CASE u.at = "insert"
    <3>1. u.content = cases'[c].content
      BY <1>2, <1>5, <2>1, <2>3 DEF KeepsContents
    <3> QED BY <1>5, <2>1, <2>3, <3>1 DEF WillTell
  <2> QED BY <2>1, <2>2, <2>3
<1> QED BY <1>4, <1>5

LEMMA InsertLosesNothing ==
  ASSUME Numbered, Ordered, NothingLost, NEW q \in saves, SnapshotInsert(q)
  PROVE  NothingLost'
<1> SUFFICES ASSUME NEW c \in Cases, StoredCase(c)', missed'[c] = "none"
             PROVE  Newest(c)' \/ \E p \in saves' : WillTell(p, c)'
  BY DEF NothingLost
<1>1. TypeOK /\ Captures /\ IsFiniteSet(versions)
  BY DEF Numbered, WellFormed, Ordered
<1>2. /\ q.case \in Cases /\ q.content \in Nat /\ q.max \in Nat
      /\ StoredCase(q.case) => cases[q.case].content \in Nat
  BY <1>1, NumbersAreNat
<1>3. saves' = saves \ {q} /\ q.at = "insert" /\ KeepsContents
  BY InsertEffect
<1>4. StoredCase(c) /\ cases'[c].content = cases[c].content
  BY <1>3 DEF KeepsContents
<1>5. \A p \in saves : WillTell(p, c) /\ p # q => p \in saves' /\ WillTell(p, c)'
  BY <1>3, <1>4 DEF WillTell
<1>6. CASE c # q.case
  <2>1. missed'[c] = missed[c]
    BY <1>1, <1>6, InsertEffect DEF TypeOK
  <2>2. VersionsOf(c)' = VersionsOf(c)
    BY <1>6, InsertEffect DEF VersionsOf
  <2>3. CASE Newest(c)
    BY <1>4, <2>2, <2>3 DEF Newest, Count
  <2>4. CASE \E p \in saves : WillTell(p, c)
    BY <1>5, <1>6, <2>4 DEF WillTell
  <2> QED BY <1>4, <2>1, <2>3, <2>4 DEF NothingLost
<1>7. CASE c = q.case
  <2>1. missed' = missed /\ q.max = Count(c)
        /\ \E new : /\ versions' = versions \cup {new} /\ new \notin versions
                    /\ new.case = c /\ new.version = q.max + 1
                    /\ new.content = q.content
    BY <1>1, <1>7, InsertEffect DEF TypeOK
  <2>2. PICK new : /\ versions' = versions \cup {new} /\ new \notin versions
                   /\ new.case = c /\ new.version = q.max + 1
                   /\ new.content = q.content
    BY <2>1
  <2>3. CASE q.content = cases[c].content
    <3>1. VersionsOf(c)' = VersionsOf(c) \cup {new} /\ new \notin VersionsOf(c)
      BY <2>2 DEF VersionsOf
    <3>2. Count(c)' = Count(c) + 1
      BY <1>1, <3>1, VersionsAreFinite, FS_AddElement DEF Count
    <3> QED BY <1>4, <2>1, <2>2, <2>3, <3>1, <3>2 DEF Newest
  <2>4. CASE q.content # cases[c].content
    <3>1. /\ q.content < cases[c].content
          /\ \A v \in VersionsOf(c) : v.version <= q.max => v.content <= q.content
      BY <1>1, <1>2, <1>3, <1>4, <1>7, <2>4 DEF Captures
    <3>2. ~Newest(c)
      BY <1>2, <1>4, <1>7, <2>1, <3>1 DEF Newest
    <3>3. ~WillTell(q, c)
      BY <1>3, <2>4 DEF WillTell
    <3> QED BY <1>4, <1>5, <2>1, <3>2, <3>3 DEF NothingLost
  <2> QED BY <2>3, <2>4
<1> QED BY <1>6, <1>7

(* Once every save of a case has answered, its newest version is what the  *)
(* case holds, unless a statement of its snapshot failed or it took the    *)
(* number of another save's: a save under way has not counted the version  *)
(* that would make it stale.                                               *)
THEOREM HistoryComesUpToDate == Spec => []HistoryIsCurrent
<1>1. Init => NothingLost
  BY DEF Init, NothingLost, StoredCase
<1>2. Numbered /\ Ordered /\ NothingLost /\ [Next]_vars => NothingLost'
  BY CreateLosesNothing, CalmLosesNothing, RemovesLoseNothing, SaveLosesNothing,
     InsertLosesNothing, KindsOfStep DEF Saves, Numbered
<1>3. Numbered /\ NothingLost => HistoryIsCurrent
  <2> SUFFICES ASSUME Numbered, NothingLost, NEW c \in Cases, StoredCase(c), missed[c] = "none",
                      Settled(c)
               PROVE  NewestIsCurrent(c)
    BY DEF HistoryIsCurrent
  <2>1. \A q \in saves : ~WillTell(q, c)
    BY DEF WillTell, Settled
  <2>2. Newest(c)
    BY <2>1 DEF NothingLost
  <2>3. Latest(c) = Count(c)
    BY LatestIsTheCount DEF Numbered, WellFormed, Count
  <2> QED BY <2>2, <2>3 DEF Newest, NewestIsCurrent
<1> QED BY <1>1, <1>2, <1>3, AlwaysNumbered, AlwaysOrdered, PTL DEF Spec

-----------------------------------------------------------------------------
(* The links of a suite.                                                   *)

(* Links go with their suite, a suite that is not there yet has no         *)
(* members, members are cases that have been there, and a deleteMany finds *)
(* links of its own suite.                                                 *)
Linked ==
  /\ \A l \in links : StoredSuite(l.suite)
  /\ \A s \in Suites : StoredSuite(s) => s <= lastSuite
  /\ \A s \in Suites : s > lastSuite => members[s] = {}
  /\ \A s \in Suites : \A c \in members[s] : c <= lastCase
  /\ \A q \in linkings : \A l \in q.dropped : l.suite = q.suite

StillCases == lastCase' = lastCase /\ \A c \in Cases : StoredCase(c)' <=> StoredCase(c)
StillSuites ==
  /\ UNCHANGED <<lastSuite, members, mixed>>
  /\ \A s \in Suites : StoredSuite(s)' <=> StoredSuite(s)
StillLinkings ==
  \A q \in linkings' : q \in linkings \/ \A l \in q.dropped : l.suite = q.suite

Still == StillCases /\ StillSuites /\ StillLinkings /\ links' = links
RemovesSuites ==
  /\ \E gone : RemoveSuites(gone)
  /\ StillCases /\ StillLinkings /\ UNCHANGED <<lastSuite, members, mixed>>

LEMMA SameSuitesStill == UNCHANGED suiteVars => StillSuites /\ StillLinkings
BY DEF suiteVars, StillSuites, StillLinkings, StoredSuite

LEMMA SameCasesStill == UNCHANGED caseVars => StillCases
BY DEF caseVars, StillCases, StoredCase

LEMMA KindsOfCaseStep ==
  ASSUME Numbered, [Next]_vars
  PROVE  CreateCase \/ Removes \/ StillCases
<1>1. TypeOK /\ VersionsDense /\ IsFiniteSet(versions) /\ WellFormed
  BY DEF Numbered, WellFormed
<1>2. KeepsContents => StillCases
  BY DEF KeepsContents, StillCases
<1>3. ASSUME NEW q \in saves, UpdateCase(q) \/ SnapshotMax(q) \/ SnapshotContent(q)
      PROVE  StillCases
  BY <1>1, <1>3, SaveEffect DEF StillCases
<1>4. ASSUME NEW q \in saves, SnapshotInsert(q) PROVE StillCases
  BY <1>2, <1>4, InsertEffect
<1> QED BY <1>1, <1>2, <1>3, <1>4, KindsOfStep DEF Saves, Calm

LEMMA KindsOfSuiteStep ==
  ASSUME Numbered, Linked, [Next]_vars
  PROVE  \/ /\ CreateCase \/ Removes
            /\ StillSuites /\ StillLinkings /\ (links' = links \/ Removes)
         \/ Still \/ RemovesSuites
         \/ \E ids \in SUBSET Cases : CreateSuite(ids)
         \/ \E q \in linkings : InsertLinks(q)
<1>1. TypeOK
  BY DEF Numbered, WellFormed
<1>2. ASSUME UNCHANGED suiteVars, links' = links
      PROVE  \/ /\ CreateCase \/ Removes
                /\ StillSuites /\ StillLinkings /\ links' = links
             \/ Still
  BY <1>2, KindsOfCaseStep, SameSuitesStill DEF Still
<1>3. CaseRequests => UNCHANGED suiteVars /\ links' = links
  BY DEF CaseRequests, CreateCase, PutCase, RunCase, UpdateCase, SnapshotMax, SnapshotContent,
         SnapshotInsert, SaveFails
<1>4. ASSUME NEW c \in Cases, DeleteCase(c) \/ RestoreCase(c)
      PROVE  UNCHANGED suiteVars /\ links' = links
  BY <1>4 DEF DeleteCase, RestoreCase
<1>5. ASSUME NEW c \in Cases, PurgeCase(c) PROVE Removes /\ StillSuites /\ StillLinkings
  BY <1>5, SameSuitesStill DEF PurgeCase, Removes
<1>6. ASSUME NEW r \in Replicas, SweepCases(r)
      PROVE  Still \/ (Removes /\ StillSuites /\ StillLinkings)
  <2>1. StillSuites /\ StillLinkings
    BY <1>6, SameSuitesStill DEF SweepCases
  <2>2. UNCHANGED <<cases, lastCase>> => StillCases
    BY DEF StillCases, StoredCase
  <2> QED BY <1>6, <2>1, <2>2 DEF SweepCases, Removes, Still
<1>7. ASSUME NEW r \in Replicas, Crash(r) PROVE Still
  BY <1>7 DEF Crash, Still, StillCases, StillSuites, StillLinkings, StoredCase, StoredSuite
<1>8. (\E r \in Replicas : StartSweep(r)) \/ TimePasses \/ UNCHANGED vars => Still
  BY SameSuitesStill, SameCasesStill
     DEF StartSweep, TimePasses, vars, caseVars, suiteVars, Still
<1>9. ASSUME NEW r \in Replicas, SweepSuites(r) PROVE Still \/ RemovesSuites
  <2>1. StillCases /\ UNCHANGED <<lastSuite, members, mixed>> /\ StillLinkings
    BY <1>9, SameCasesStill DEF SweepSuites, StillLinkings
  <2>2. suites' = suites => StillSuites
    BY <2>1 DEF StillSuites, StoredSuite
  <2> QED BY <1>9, <2>1, <2>2 DEF SweepSuites, RemovesSuites, Still
<1>10. ASSUME NEW s \in Suites, DeleteSuite(s) \/ RestoreSuite(s) PROVE Still
  <2>1. StoredSuite(s) /\ suites[s] \in SuiteRow
    BY <1>1, <1>10 DEF TypeOK, DeleteSuite, RestoreSuite, LiveSuite, TrashedSuite, StoredSuite
  <2>2. PICK when \in Nat : suites' = [suites EXCEPT ![s].deleted = when]
    BY <1>1, <1>10 DEF TypeOK, DeleteSuite, RestoreSuite, Null
  <2>3. PICK row \in SuiteRow : row = [suites[s] EXCEPT !.deleted = when]
    BY <2>1 DEF SuiteRow
  <2>4. suites' = [suites EXCEPT ![s] = row]
    BY <2>2, <2>3
  <2>5. \A t \in Suites : StoredSuite(t)' <=> StoredSuite(t)
    BY <1>1, <2>1, <2>4, MarkAssumption DEF TypeOK, StoredSuite
  <2> QED BY <1>10, <2>5, SameCasesStill
          DEF DeleteSuite, RestoreSuite, Still, StillSuites, StillLinkings
<1>11. ASSUME NEW s \in Suites, PurgeSuite(s) PROVE RemovesSuites
  BY <1>11, SameCasesStill DEF PurgeSuite, RemovesSuites, StillLinkings
<1>12. ASSUME NEW s \in Suites, NEW ids \in SUBSET Cases, PutSuite(s, ids) PROVE Still
  <2>1. PICK q : q = [op |-> lastOp + 1, suite |-> s, ids |-> ids, at |-> "count",
                      creates |-> FALSE, dropped |-> {}]
    OBVIOUS
  <2>2. linkings' = linkings \cup {q} /\ q.dropped = {}
    BY <1>12, <2>1 DEF PutSuite
  <2>3. StillLinkings
    BY <2>2 DEF StillLinkings
  <2> QED BY <1>12, <2>3, SameCasesStill DEF PutSuite, Still, StillSuites, StoredSuite
<1>13. ASSUME NEW q \in linkings, NEW at \in LinkPhases, EndLinking(q) \/ Continue(q, at)
       PROVE  StillLinkings
  <2>1. q \in Linking
    BY <1>1 DEF TypeOK
  <2>2. PICK u : u = [q EXCEPT !.at = at]
    OBVIOUS
  <2>3. u.suite = q.suite /\ u.dropped = q.dropped
    BY <2>1, <2>2 DEF Linking
  <2>4. linkings' \subseteq linkings \cup {u}
    BY <1>13, <2>2 DEF EndLinking, Continue
  <2> QED BY <1>13, <2>3, <2>4 DEF StillLinkings, Linked
<1>14. ASSUME NEW q \in linkings, CountCases(q) \/ LinkingFails(q) PROVE Still
  <2>1. StillLinkings
    BY <1>13, <1>14 DEF CountCases, LinkingFails, LinkPhases
  <2> QED BY <1>14, <2>1, SameCasesStill
          DEF CountCases, LinkingFails, Still, StillSuites, StoredSuite
<1>15. ASSUME NEW q \in linkings, UndoSuite(q) PROVE RemovesSuites
  <2>1. StillLinkings
    BY <1>13, <1>15 DEF UndoSuite, LinkPhases
  <2> QED BY <1>15, <2>1, SameCasesStill DEF UndoSuite, RemovesSuites
<1>16. ASSUME NEW q \in linkings, DeleteLinks(q) PROVE Still
  <2>1. q \in Linking
    BY <1>1 DEF TypeOK
  <2>2. PICK u : u = [q EXCEPT !.at = "commit", !.dropped = LinksOf(q.suite)]
    OBVIOUS
  <2>3. u.suite = q.suite /\ u.dropped = LinksOf(q.suite)
    BY <2>1, <2>2 DEF Linking
  <2>4. linkings' = (linkings \ {q}) \cup {u}
    BY <1>16, <2>2 DEF DeleteLinks
  <2>5. StillLinkings
    BY <2>3, <2>4 DEF StillLinkings, LinksOf
  <2> QED BY <1>16, <2>5, SameCasesStill
          DEF DeleteLinks, Pending, Still, StillSuites, StoredSuite
<1>17. SuiteRequests =>
         \/ Still \/ RemovesSuites
         \/ \E ids \in SUBSET Cases : CreateSuite(ids)
         \/ \E q \in linkings : InsertLinks(q)
  BY <1>12, <1>14, <1>15, <1>16 DEF SuiteRequests
<1>18. CASE CaseRequests
  BY <1>2, <1>3, <1>18
<1>19. CASE Trash
  BY <1>2, <1>4, <1>5, <1>10, <1>11, <1>19 DEF Trash
<1>20. CASE \E r \in Replicas : SweepStep(r) \/ Crash(r)
  BY <1>6, <1>7, <1>8, <1>9, <1>20 DEF SweepStep
<1> QED BY <1>8, <1>17, <1>18, <1>19, <1>20 DEF Next

Whole == Linked /\ SuiteIsWhole

LEMMA SuitesAreNat ==
  ASSUME TypeOK
  PROVE  /\ lastSuite \in Nat /\ lastCase \in Nat
         /\ \A s \in Suites : s \in Nat /\ members[s] \subseteq Cases
         /\ \A c \in Cases : c \in Nat
         /\ \A l \in links : l.suite \in Suites /\ l.case \in Cases
BY DEF TypeOK, Suites, Cases, Link

LEMMA StillWhole == Numbered /\ Whole /\ Still => Whole'
<1> SUFFICES ASSUME Numbered, Whole, Still PROVE Whole'
  OBVIOUS
<1>1. TypeOK /\ Linked /\ SuiteIsWhole
  BY DEF Numbered, WellFormed, Whole
<1>2. /\ UNCHANGED <<lastSuite, lastCase, members, mixed, links>>
      /\ \A s \in Suites : StoredSuite(s)' <=> StoredSuite(s)
      /\ \A c \in Cases : StoredCase(c)' <=> StoredCase(c)
  BY DEF Still, StillCases, StillSuites
<1>3. Linked'
  BY <1>1, <1>2, SuitesAreNat DEF Still, StillLinkings, Linked
<1>4. SuiteIsWhole'
  BY <1>1, <1>2, SuitesAreNat DEF SuiteIsWhole, LinksOf
<1> QED BY <1>3, <1>4 DEF Whole

LEMMA CaseStepWhole ==
  ASSUME Numbered, Whole, CreateCase \/ Removes, StillSuites, StillLinkings,
         links' = links \/ Removes
  PROVE  Whole'
<1>1. TypeOK /\ Born /\ Linked /\ SuiteIsWhole
  BY DEF Numbered, WellFormed, Whole
<1>2. /\ UNCHANGED <<lastSuite, members, mixed>>
      /\ \A s \in Suites : StoredSuite(s)' <=> StoredSuite(s)
      /\ \A q \in linkings' : \A l \in q.dropped : l.suite = q.suite
  BY <1>1 DEF StillSuites, StillLinkings, Linked
<1>3. CASE CreateCase /\ links' = links
  <2>1. PICK c \in Cases : /\ c = lastCase + 1 /\ lastCase' = c
                           /\ \A d \in Cases \ {c} : cases'[d] = cases[d]
    BY <1>1, <1>3, CreateEffect
  <2>2. \A s \in Suites : \A d \in members[s] : d <= lastCase /\ d \in Nat /\ d \in Cases
    BY <1>1, SuitesAreNat DEF Linked
  <2>3. \A s \in Suites : \A d \in members[s] : d <= lastCase' /\ (StoredCase(d)' <=> StoredCase(d))
    <3>1. SUFFICES ASSUME NEW s \in Suites, NEW d \in members[s]
                   PROVE  d <= lastCase' /\ (StoredCase(d)' <=> StoredCase(d))
      OBVIOUS
    <3>2. d <= lastCase /\ d \in Nat /\ d \in Cases /\ lastCase \in Nat
      BY <1>1, <2>2, SuitesAreNat
    <3> QED BY <2>1, <3>2 DEF StoredCase
  <2>4. Linked'
    BY <1>1, <1>2, <1>3, <2>3, SuitesAreNat DEF Linked
  <2>5. SuiteIsWhole'
    BY <1>1, <1>2, <1>3, <2>3 DEF SuiteIsWhole, LinksOf
  <2> QED BY <2>4, <2>5 DEF Whole
<1>4. CASE Removes
  <2>1. PICK gone : RemoveCases(gone)
    BY <1>4 DEF Removes
  <2>2. lastCase' = lastCase /\ links' \subseteq links
    BY <1>1, <1>4, <2>1, RemoveCasesType DEF Removes
  <2>3. Linked'
    BY <1>1, <1>2, <2>2, SuitesAreNat DEF Linked
  <2>4. CASE UNCHANGED <<cases, links>>
    BY <1>1, <1>2, <2>3, <2>4 DEF Whole, SuiteIsWhole, LinksOf, StoredCase
  <2>5. CASE /\ cases' = [c \in Cases |-> IF c \in gone THEN NoRow ELSE cases[c]]
             /\ links' = {l \in links : l.case \notin gone}
    <3>1. SUFFICES ASSUME NEW s \in Suites \ mixed', StoredSuite(s)'
                   PROVE  {l.case : l \in LinksOf(s)'} = {c \in members'[s] : StoredCase(c)'}
      BY <2>3 DEF Whole, SuiteIsWhole
    <3>2. {l.case : l \in LinksOf(s)} = {c \in members[s] : StoredCase(c)}
      BY <1>1, <1>2, <3>1 DEF SuiteIsWhole
    <3>3. \A c \in members[s] : StoredCase(c)' <=> StoredCase(c) /\ c \notin gone
      BY <1>1, <2>5, SuitesAreNat DEF StoredCase
    <3>4. LinksOf(s)' = {l \in LinksOf(s) : l.case \notin gone}
      BY <2>5 DEF LinksOf
    <3>5. {l.case : l \in LinksOf(s)'} = {c \in {l.case : l \in LinksOf(s)} : c \notin gone}
      BY <3>4
    <3> QED BY <1>2, <3>2, <3>3, <3>5
  <2> QED BY <2>1, <2>4, <2>5 DEF RemoveCases
<1> QED BY <1>3, <1>4

LEMMA RemovesSuitesWhole == Numbered /\ Whole /\ RemovesSuites => Whole'
<1> SUFFICES ASSUME Numbered, Whole, RemovesSuites PROVE Whole'
  OBVIOUS
<1>1. TypeOK /\ Linked /\ SuiteIsWhole
  BY DEF Numbered, WellFormed, Whole
<1>2. PICK gone : /\ suites' = [s \in Suites |-> IF s \in gone THEN NoRow ELSE suites[s]]
                  /\ links' = {l \in links : l.suite \notin gone}
  BY DEF RemovesSuites, RemoveSuites
<1>3. /\ UNCHANGED <<lastSuite, lastCase, members, mixed>>
      /\ \A c \in Cases : StoredCase(c)' <=> StoredCase(c)
      /\ \A q \in linkings' : \A l \in q.dropped : l.suite = q.suite
  BY <1>1 DEF RemovesSuites, StillCases, StillLinkings, Linked
<1>4. \A s \in Suites : StoredSuite(s)' <=> StoredSuite(s) /\ s \notin gone
  BY <1>2 DEF StoredSuite
<1>5. Linked'
  BY <1>1, <1>2, <1>3, <1>4, SuitesAreNat DEF Linked
<1>6. SuiteIsWhole'
  <2>1. SUFFICES ASSUME NEW s \in Suites \ mixed', StoredSuite(s)'
                 PROVE  {l.case : l \in LinksOf(s)'} = {c \in members'[s] : StoredCase(c)'}
    BY DEF SuiteIsWhole
  <2>2. LinksOf(s)' = LinksOf(s)
    BY <1>2, <1>4, <2>1 DEF LinksOf
  <2>3. {l.case : l \in LinksOf(s)} = {c \in members[s] : StoredCase(c)}
    BY <1>1, <1>3, <1>4, <2>1 DEF SuiteIsWhole
  <2>4. \A c \in members[s] : StoredCase(c)' <=> StoredCase(c)
    BY <1>1, <1>3, SuitesAreNat
  <2> QED BY <1>3, <2>2, <2>3, <2>4
<1> QED BY <1>5, <1>6 DEF Whole

LEMMA CreateSuiteWhole ==
  ASSUME Numbered, Whole, NEW ids \in SUBSET Cases, CreateSuite(ids)
  PROVE  Whole'
<1>1. TypeOK /\ Linked /\ SuiteIsWhole
  BY DEF Numbered, WellFormed, Whole
<1>2. PICK s \in Suites : s = lastSuite + 1
  BY <1>1, SizeAssumption DEF CreateSuite, TypeOK, Suites
<1>3. PICK row : row = [deleted |-> Null]
  OBVIOUS
<1>4. row \in SuiteRow
  BY <1>3 DEF SuiteRow, Null
<1>5. suites' = [suites EXCEPT ![s] = row]
  BY <1>2, <1>3 DEF CreateSuite
<1>6. StoredSuite(s)' /\ \A t \in Suites \ {s} : StoredSuite(t)' <=> StoredSuite(t)
  BY <1>1, <1>4, <1>5, MarkAssumption DEF TypeOK, StoredSuite
<1>7. lastSuite' = s /\ UNCHANGED <<links, members, mixed, lastCase, cases>>
  BY <1>2 DEF CreateSuite, caseVars
<1>8. \A q \in linkings' : \A l \in q.dropped : l.suite = q.suite
  <2>1. PICK q : q = [op |-> lastOp + 1, suite |-> lastSuite + 1, ids |-> ids, at |-> "count",
                      creates |-> TRUE, dropped |-> {}]
    OBVIOUS
  <2>2. q.dropped = {} /\ linkings' \subseteq linkings \cup {q}
    BY <2>1 DEF CreateSuite
  <2> QED BY <1>1, <2>2 DEF Linked
<1>9. ~StoredSuite(s) /\ members[s] = {} /\ \A l \in links : l.suite # s
  BY <1>1, <1>2, SuitesAreNat DEF Linked
<1>10. Linked'
  <2>1. \A l \in links' : StoredSuite(l.suite)'
    BY <1>1, <1>6, <1>7, SuitesAreNat DEF Linked
  <2>2. \A t \in Suites : StoredSuite(t)' => t <= lastSuite'
    BY <1>1, <1>2, <1>6, <1>7, SuitesAreNat DEF Linked
  <2>3. \A t \in Suites : t > lastSuite' => members'[t] = {}
    BY <1>1, <1>2, <1>7, SuitesAreNat DEF Linked
  <2> QED BY <1>1, <1>7, <1>8, <2>1, <2>2, <2>3 DEF Linked
<1>11. SuiteIsWhole'
  <2>1. SUFFICES ASSUME NEW t \in Suites \ mixed, StoredSuite(t)'
                 PROVE  {l.case : l \in LinksOf(t)} = {c \in members[t] : StoredCase(c)}
    BY <1>7 DEF SuiteIsWhole, LinksOf, StoredCase
  <2>2. CASE t = s
    BY <1>9, <2>2 DEF LinksOf
  <2>3. CASE t # s
    BY <1>1, <1>6, <2>1, <2>3 DEF SuiteIsWhole
  <2> QED BY <2>2, <2>3
<1> QED BY <1>10, <1>11 DEF Whole

LEMMA InsertLinksWhole ==
  ASSUME Numbered, Whole, NEW q \in linkings, InsertLinks(q)
  PROVE  Whole'
<1>1. TypeOK /\ Born /\ Linked /\ SuiteIsWhole
  BY DEF Numbered, WellFormed, Whole
<1>2. q.suite \in Suites /\ q.ids \subseteq Cases
  BY <1>1 DEF TypeOK, Linking
<1>3. UNCHANGED <<suites, lastSuite, cases, lastCase>> /\ linkings' = linkings \ {q}
  BY DEF InsertLinks, caseVars, EndLinking
<1>4. CASE UNCHANGED <<links, members, mixed>>
  <2>1. Still
    BY <1>3, <1>4 DEF Still, StillCases, StillSuites, StillLinkings, StoredCase, StoredSuite
  <2> QED BY <2>1, StillWhole
<1>5. CASE /\ StoredSuite(q.suite) /\ \A c \in q.ids : StoredCase(c)
           /\ links' = (links \ q.dropped)
                         \cup {[suite |-> q.suite, case |-> c, op |-> q.op] : c \in q.ids}
           /\ members' = [members EXCEPT ![q.suite] = q.ids]
           /\ mixed' = IF LinksOf(q.suite) \ q.dropped = {}
                       THEN mixed \ {q.suite} ELSE mixed \cup {q.suite}
  <2> DEFINE new == {[suite |-> q.suite, case |-> c, op |-> q.op] : c \in q.ids}
  <2>1. /\ \A l \in new : l.suite = q.suite /\ l.case \in q.ids
        /\ \A c \in q.ids : \E l \in new : l.case = c
    <3>1. \A c \in q.ids : [suite |-> q.suite, case |-> c, op |-> q.op] \in new
      OBVIOUS
    <3>2. \A c : LET l == [suite |-> q.suite, case |-> c, op |-> q.op]
                 IN  l.case = c /\ l.suite = q.suite
      OBVIOUS
    <3> QED BY <3>1, <3>2
  <2>2. links' = (links \ q.dropped) \cup new
    BY <1>5
  <2> HIDE DEF new
  <2>3. \A l \in q.dropped : l.suite = q.suite
    BY <1>1 DEF Linked
  <2>4. members'[q.suite] = q.ids /\ \A s \in Suites \ {q.suite} : members'[s] = members[s]
    BY <1>1, <1>2, <1>5 DEF TypeOK
  <2>5. Linked'
    <3>1. \A l \in links' : StoredSuite(l.suite)'
      BY <1>1, <1>3, <1>5, <2>1, <2>2 DEF Linked, StoredSuite
    <3>2. \A s \in Suites : StoredSuite(s)' => s <= lastSuite'
      BY <1>1, <1>3 DEF Linked, StoredSuite
    <3>3. \A s \in Suites : s > lastSuite' => members'[s] = {}
      <4>1. ~(q.suite > lastSuite)
        BY <1>1, <1>2, <1>5, SuitesAreNat DEF Linked
      <4> QED BY <1>1, <1>3, <2>4, <4>1 DEF Linked
    <3>4. \A s \in Suites : \A c \in members'[s] : c <= lastCase'
      BY <1>1, <1>2, <1>3, <1>5, <2>4 DEF Linked, Born
    <3> QED BY <1>1, <1>3, <3>1, <3>2, <3>3, <3>4 DEF Linked
  <2>6. SuiteIsWhole'
    <3>1. SUFFICES ASSUME NEW s \in Suites \ mixed', StoredSuite(s)
                   PROVE  {l.case : l \in LinksOf(s)'} = {c \in members'[s] : StoredCase(c)}
      BY <1>3 DEF SuiteIsWhole, StoredSuite, StoredCase
    <3>2. CASE s = q.suite
      <4>1. LinksOf(q.suite) \subseteq q.dropped
        BY <1>5, <3>1, <3>2
      <4>2. LinksOf(s)' = new
        BY <2>1, <2>2, <3>2, <4>1 DEF LinksOf
      <4>3. {l.case : l \in new} = q.ids
        BY <2>1
      <4> QED BY <1>5, <2>4, <3>2, <4>2, <4>3
    <3>3. CASE s # q.suite
      <4>1. LinksOf(s)' = LinksOf(s)
        BY <2>1, <2>2, <2>3, <3>3 DEF LinksOf
      <4>2. s \notin mixed /\ members'[s] = members[s]
        BY <1>5, <2>4, <3>1, <3>3
      <4> QED BY <1>1, <3>1, <4>1, <4>2 DEF SuiteIsWhole
    <3> QED BY <3>2, <3>3
  <2> QED BY <2>5, <2>6 DEF Whole
<1> QED BY <1>4, <1>5 DEF InsertLinks

(* A suite links exactly the cases the last request gave it that are still *)
(* stored, unless two requests rewrote it at once: the rewrite commits in  *)
(* one step, and a purge takes its own links only.                         *)
THEOREM SuitesStayWhole == Spec => []SuiteIsWhole
<1>1. Init => Whole
  <2> SUFFICES ASSUME Init PROVE Whole
    OBVIOUS
  <2>1. Linked
    BY DEF Init, Linked, StoredSuite
  <2>2. SuiteIsWhole
    BY DEF Init, SuiteIsWhole, StoredSuite
  <2> QED BY <2>1, <2>2 DEF Whole
<1>2. Numbered /\ Whole /\ [Next]_vars => Whole'
  BY StillWhole, CaseStepWhole, RemovesSuitesWhole, CreateSuiteWhole, InsertLinksWhole,
     KindsOfSuiteStep DEF Whole
<1>3. Whole => SuiteIsWhole
  BY DEF Whole
<1> QED BY <1>1, <1>2, <1>3, AlwaysNumbered, PTL DEF Spec

-----------------------------------------------------------------------------
(* Retention.  A sweep deletes by a cutoff that was taken before.          *)

Cutoffs == \A r \in Replicas : sweeps[r].at # "idle" => sweeps[r].cutoff <= clock - Retention

LEMMA StepCutoffs == TypeOK /\ Cutoffs /\ [Next]_vars => Cutoffs'
<1> SUFFICES ASSUME TypeOK, Cutoffs, [Next]_vars PROVE Cutoffs'
  OBVIOUS
<1>1. clock \in Nat /\ Retention \in Nat /\ \A r \in Replicas : sweeps[r] \in Sweep
  BY SizeAssumption DEF TypeOK
<1>2. \A r \in Replicas : sweeps[r].cutoff \in Int
  BY <1>1 DEF Sweep
<1>3. ASSUME NEW r \in Replicas, StartSweep(r) PROVE Cutoffs'
  <2>1. PICK sweep : sweep = [at |-> "cases", cutoff |-> clock - Retention]
    OBVIOUS
  <2>2. sweeps' = [sweeps EXCEPT ![r] = sweep] /\ clock' = clock
    BY <1>3, <2>1 DEF StartSweep
  <2>3. sweep.cutoff = clock - Retention
    BY <2>1
  <2> QED BY <1>1, <2>2, <2>3 DEF Cutoffs, TypeOK
<1>4. ASSUME NEW r \in Replicas, SweepCases(r) PROVE Cutoffs'
  <2>1. PICK at : sweeps' = [sweeps EXCEPT ![r] = [sweeps[r] EXCEPT !.at = at]]
    BY <1>4 DEF SweepCases
  <2>2. [sweeps[r] EXCEPT !.at = at].cutoff = sweeps[r].cutoff
    BY <1>1 DEF Sweep
  <2>3. sweeps[r].at # "idle" /\ clock' = clock
    BY <1>4 DEF SweepCases
  <2> QED BY <2>1, <2>2, <2>3 DEF Cutoffs, TypeOK
<1>5. ASSUME NEW r \in Replicas, SweepSuites(r) \/ Crash(r) PROVE Cutoffs'
  <2>1. sweeps' = [sweeps EXCEPT ![r] = Idle] /\ clock' = clock /\ Idle.at = "idle"
    BY <1>5 DEF SweepSuites, Crash, Idle
  <2> QED BY <2>1 DEF Cutoffs, TypeOK
<1>6. CASE sweeps' = sweeps /\ (clock' = clock \/ clock' = clock + 1)
  BY <1>1, <1>2, <1>6 DEF Cutoffs
<1>7. CaseRequests \/ SuiteRequests \/ Trash \/ TimePasses \/ UNCHANGED vars =>
        sweeps' = sweeps /\ (clock' = clock \/ clock' = clock + 1)
  BY DEF CaseRequests, CreateCase, PutCase, RunCase, UpdateCase, SnapshotMax, SnapshotContent,
         SnapshotInsert, SaveFails, SuiteRequests, CreateSuite, PutSuite, CountCases, UndoSuite,
         DeleteLinks, InsertLinks, LinkingFails, Trash, DeleteCase, RestoreCase, PurgeCase,
         DeleteSuite, RestoreSuite, PurgeSuite, TimePasses, vars
<1> QED BY <1>3, <1>4, <1>5, <1>6, <1>7 DEF Next, SweepStep

(* What leaves the tables: by a purge, by a sweep, by a create undone.     *)
LEMMA ExpiredHasOutlived ==
  ASSUME TypeOK, Cutoffs, NEW r \in Replicas, sweeps[r].at # "idle",
         NEW row, row.deleted \in Nat, Expired(row, sweeps[r].cutoff)
  PROVE  Outlived(row)
<1>1. clock \in Nat /\ Retention \in Nat /\ sweeps[r] \in Sweep
  BY SizeAssumption DEF TypeOK
<1>2. sweeps[r].cutoff \in Int /\ sweeps[r].cutoff <= clock - Retention
  BY <1>1 DEF Sweep, Cutoffs
<1> QED BY <1>1, <1>2 DEF Expired, Outlived

LEMMA SpendingShows ==
  ASSUME TypeOK, Spend("purge"), NEW row, row.deleted # Null
  PROVE  Outlived(row)
BY DEF TypeOK, Spend, Events, Outlived

LEMMA CasesLeaveInTime ==
  ASSUME Numbered, Cutoffs, [Next]_vars, NEW c \in Cases, StoredCase(c), ~StoredCase(c)'
  PROVE  Outlived(cases[c])
<1>1. TypeOK
  BY DEF Numbered, WellFormed
<1>2. cases[c].deleted \in Nat
  <2>1. cases[c] \in CaseRow
    BY <1>1 DEF TypeOK, StoredCase
  <2> QED BY <2>1 DEF CaseRow
<1>3. ASSUME NEW gone, RemoveCases(gone) PROVE c \in gone
  BY <1>3 DEF RemoveCases, StoredCase
<1>4. ASSUME NEW d \in Cases, PurgeCase(d) PROVE Outlived(cases[c])
  <2>1. c = d /\ cases[d].deleted # Null /\ Spend("purge")
    BY <1>3, <1>4 DEF PurgeCase, TrashedCase
  <2> QED BY <1>1, <2>1, SpendingShows
<1>5. ASSUME NEW r \in Replicas, SweepCases(r) PROVE Outlived(cases[c])
  <2>1. RemoveCases({d \in Cases : StoredCase(d) /\ Expired(cases[d], sweeps[r].cutoff)})
    BY <1>5 DEF SweepCases, StoredCase
  <2>2. Expired(cases[c], sweeps[r].cutoff) /\ sweeps[r].at # "idle"
    BY <1>3, <1>5, <2>1 DEF SweepCases
  <2> QED BY <1>1, <1>2, <2>2, ExpiredHasOutlived
<1>6. CreateCase => FALSE
  <2>1. SUFFICES ASSUME CreateCase PROVE FALSE
    OBVIOUS
  <2>2. PICK d \in Cases : StoredCase(d)' /\ \A e \in Cases \ {d} : cases'[e] = cases[e]
    BY <1>1, <2>1, CreateEffect
  <2> QED BY <2>2 DEF StoredCase
<1>7. ~StillCases
  BY DEF StillCases
<1>8. ASSUME cases' = cases PROVE FALSE
  BY <1>8 DEF StoredCase
<1>9. ASSUME NEW q \in saves, Saves(q) \/ SaveFails(q) PROVE FALSE
  <2>1. KeepsContents => FALSE
    BY DEF KeepsContents
  <2>2. VersionsDense /\ IsFiniteSet(versions)
    BY DEF Numbered, WellFormed
  <2>3. ~(UpdateCase(q) \/ SnapshotMax(q) \/ SnapshotContent(q))
    BY <1>1, <2>2, SaveEffect
  <2>4. ~SnapshotInsert(q)
    BY <2>1, InsertEffect
  <2> QED BY <1>8, <1>9, <2>3, <2>4 DEF Saves, SaveFails
<1>10. ~CaseRequests
  BY <1>6, <1>8, <1>9 DEF CaseRequests, Saves, PutCase, RunCase
<1>11. ASSUME NEW d \in Cases, DeleteCase(d) \/ RestoreCase(d) PROVE FALSE
  <2>1. cases[d] \in CaseRow
    BY <1>1, <1>11 DEF TypeOK, DeleteCase, RestoreCase, LiveCase, TrashedCase, StoredCase
  <2>2. PICK when \in Nat : cases' = [cases EXCEPT ![d].deleted = when]
    BY <1>1, <1>11 DEF TypeOK, DeleteCase, RestoreCase, Null
  <2>3. PICK row \in CaseRow : row = [cases[d] EXCEPT !.deleted = when]
    BY <2>1 DEF CaseRow
  <2>4. cases' = [cases EXCEPT ![d] = row]
    BY <2>2, <2>3
  <2> QED BY <1>1, <2>4, MarkAssumption DEF TypeOK, StoredCase
<1>12. SuiteRequests \/ TimePasses \/ UNCHANGED vars => cases' = cases
  BY DEF SuiteRequests, CreateSuite, PutSuite, CountCases, UndoSuite, DeleteLinks, InsertLinks,
         LinkingFails, TimePasses, vars, caseVars
<1>13. Trash => Outlived(cases[c])
  BY <1>4, <1>8, <1>11 DEF Trash, DeleteSuite, RestoreSuite, PurgeSuite, caseVars
<1>14. ASSUME NEW r \in Replicas, SweepStep(r) \/ Crash(r) PROVE Outlived(cases[c])
  BY <1>5, <1>8, <1>14 DEF SweepStep, StartSweep, SweepSuites, Crash, caseVars
<1> QED BY <1>8, <1>10, <1>12, <1>13, <1>14 DEF Next

LEMMA SuitesLeaveInTime ==
  ASSUME Numbered, Cutoffs, [Next]_vars, NEW s \in Suites, StoredSuite(s), ~StoredSuite(s)'
  PROVE  \/ Outlived(suites[s])
         \/ \E q \in linkings \ linkings' : q.suite = s /\ q.at = "undo"
<1>1. TypeOK
  BY DEF Numbered, WellFormed
<1>2. suites[s].deleted \in Nat
  <2>1. suites[s] \in SuiteRow
    BY <1>1 DEF TypeOK, StoredSuite
  <2> QED BY <2>1 DEF SuiteRow
<1>3. ASSUME NEW gone, RemoveSuites(gone) PROVE s \in gone
  BY <1>3 DEF RemoveSuites, StoredSuite
<1>4. suites' # suites
  BY DEF StoredSuite
<1>5. ASSUME NEW t \in Suites, PurgeSuite(t) PROVE Outlived(suites[s])
  <2>1. s = t /\ suites[t].deleted # Null /\ Spend("purge")
    BY <1>3, <1>5 DEF PurgeSuite, TrashedSuite
  <2> QED BY <1>1, <2>1, SpendingShows
<1>6. ASSUME NEW r \in Replicas, SweepSuites(r) PROVE Outlived(suites[s])
  <2>1. RemoveSuites({t \in Suites : StoredSuite(t) /\ Expired(suites[t], sweeps[r].cutoff)})
    BY <1>4, <1>6 DEF SweepSuites
  <2>2. Expired(suites[s], sweeps[r].cutoff) /\ sweeps[r].at # "idle"
    BY <1>3, <1>6, <2>1 DEF SweepSuites
  <2> QED BY <1>1, <1>2, <2>2, ExpiredHasOutlived
<1>7. ASSUME NEW q \in linkings, UndoSuite(q)
      PROVE  q \in linkings \ linkings' /\ q.suite = s /\ q.at = "undo"
  BY <1>3, <1>7 DEF UndoSuite, EndLinking
<1>8. ASSUME NEW t \in Suites, DeleteSuite(t) \/ RestoreSuite(t) PROVE FALSE
  <2>1. suites[t] \in SuiteRow
    BY <1>1, <1>8 DEF TypeOK, DeleteSuite, RestoreSuite, LiveSuite, TrashedSuite, StoredSuite
  <2>2. PICK when \in Nat : suites' = [suites EXCEPT ![t].deleted = when]
    BY <1>1, <1>8 DEF TypeOK, DeleteSuite, RestoreSuite, Null
  <2>3. PICK row \in SuiteRow : row = [suites[t] EXCEPT !.deleted = when]
    BY <2>1 DEF SuiteRow
  <2>4. suites' = [suites EXCEPT ![t] = row]
    BY <2>2, <2>3
  <2> QED BY <1>1, <2>4, MarkAssumption DEF TypeOK, StoredSuite
<1>9. ASSUME NEW ids \in SUBSET Cases, CreateSuite(ids) PROVE FALSE
  <2>1. PICK row : row = [deleted |-> Null]
    OBVIOUS
  <2>2. row \in SuiteRow
    BY <2>1 DEF SuiteRow, Null
  <2>3. suites' = [suites EXCEPT ![lastSuite + 1] = row]
    BY <1>9, <2>1 DEF CreateSuite
  <2> QED BY <1>1, <2>2, <2>3, MarkAssumption DEF TypeOK, StoredSuite
<1>10. CaseRequests \/ TimePasses \/ UNCHANGED vars => suites' = suites
  BY DEF CaseRequests, CreateCase, PutCase, RunCase, UpdateCase, SnapshotMax, SnapshotContent,
         SnapshotInsert, SaveFails, TimePasses, vars, suiteVars
<1>11. SuiteRequests => \E q \in linkings \ linkings' : q.suite = s /\ q.at = "undo"
  BY <1>4, <1>7, <1>9 DEF SuiteRequests, PutSuite, CountCases, DeleteLinks, InsertLinks, LinkingFails
<1>12. Trash => Outlived(suites[s])
  BY <1>4, <1>5, <1>8 DEF Trash, DeleteCase, RestoreCase, PurgeCase, suiteVars
<1>13. ASSUME NEW r \in Replicas, SweepStep(r) \/ Crash(r) PROVE Outlived(suites[s])
  BY <1>4, <1>6, <1>13 DEF SweepStep, StartSweep, SweepCases, Crash, suiteVars
<1> QED BY <1>4, <1>10, <1>11, <1>12, <1>13 DEF Next

(* A row leaves its table only from the trash, and unless an admin purges  *)
(* it, only after it has been there longer than the retention: the cutoff  *)
(* of a sweep under way can only be behind the clock.                      *)
THEOREM RetentionIsKept == Spec => RetentionHolds
<1>1. Init => Cutoffs
  BY DEF Init, Cutoffs, Idle
<1>2. Numbered /\ Cutoffs /\ [Next]_vars => Cutoffs'
  BY StepCutoffs DEF Numbered, WellFormed
<1>3. Numbered /\ Cutoffs /\ [Next]_vars =>
        [/\ \A c \in Cases : StoredCase(c) /\ ~StoredCase(c)' => Outlived(cases[c])
         /\ \A s \in Suites : StoredSuite(s) /\ ~StoredSuite(s)' =>
              \/ Outlived(suites[s])
              \/ \E q \in linkings \ linkings' : q.suite = s /\ q.at = "undo"]_vars
  BY CasesLeaveInTime, SuitesLeaveInTime
<1> QED BY <1>1, <1>2, <1>3, AlwaysNumbered, PTL DEF Spec, RetentionHolds
=============================================================================
