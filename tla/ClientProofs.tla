---------------------------- MODULE ClientProofs ----------------------------
(* Theorems about Client for every number of writes, runs and faults and   *)
(* all tours: a copy that counts as fresh shows the user's own work, and   *)
(* what the panel says of a run is what became of it.                      *)
EXTENDS Client, Sequences, TLAPS

Hooks == DOMAIN Hook

-----------------------------------------------------------------------------
(* What the tables say.                                                    *)

(* A control calls one of the hooks.                                       *)
Known(controls) == \A c \in controls : c.hook \in Hooks

LEMMA HooksNamed ==
  Hooks = {"createCase", "updateCase", "deleteCase", "restoreVersion", "saveSnippet",
           "executeCase", "runDone", "runErrored", "createSuite", "updateSuite", "deleteSuite", "runSuite",
           "createJob", "updateJob", "deleteJob", "runJob", "restoreCase", "restoreSuite",
           "purgeCase", "purgeSuite", "updateRole", "deleteUser", "createInvite",
           "revokeInvite", "createWebhook", "updateWebhook", "deleteWebhook", "testWebhook",
           "createProject", "renameProject", "switchProject", "sendDigest"}
BY DEF Hooks, Hook

LEMMA CallKnown ==
  ASSUME NEW h \in Hooks, NEW shown, NEW waits
  PROVE  Known({Control(h, shown, waits)}) /\ Known({Always(h, shown)})
BY DEF Known, Control, Always

LEMMA KnownTogether ==
  ASSUME NEW A, NEW B, Known(A), Known(B)
  PROVE  Known(A \cup B)
BY DEF Known

LEMMA CasePagesKnown == Known(CaseListPage.controls) /\ Known(CaseDetailPage.controls)
<1>1. Known(CaseForm)
  BY HooksNamed, CallKnown DEF CaseForm, Known
<1>2. Known(BulkDelete) /\ Known(CaseHeader) /\ Known(CaseEditor)
  BY HooksNamed, CallKnown DEF BulkDelete, CaseHeader, CaseEditor
<1>3. Known(CaseRow.controls)
  BY HooksNamed, CallKnown DEF CaseRow, Known
<1>4. Known(VersionList.controls)
  BY HooksNamed, CallKnown DEF VersionList, Known
<1>5. Known(RunControls)
  BY HooksNamed, CallKnown DEF RunControls, Known
<1> QED BY <1>1, <1>2, <1>3, <1>4, <1>5, KnownTogether DEF CaseListPage, CaseDetailPage

LEMMA SuitePagesKnown == Known(SuiteListPage.controls) /\ Known(SuiteDetailPage.controls)
<1>1. Known(SuiteForm) /\ Known(SuiteRow)
  BY HooksNamed DEF SuiteForm, SuiteRow, Known, Control, Always
<1>2. Known(RunAll) /\ Known(AddMember) /\ Known(MemberRow)
  BY HooksNamed, CallKnown DEF RunAll, AddMember, MemberRow, Known
<1> QED BY <1>1, <1>2, KnownTogether DEF SuiteListPage, SuiteDetailPage

LEMMA OtherPagesKnown ==
  /\ Known(SchedulerPage.controls) /\ Known(TrashPage.controls)
  /\ Known(DashboardPage.controls) /\ Known(AdminPage.controls)
  /\ Known(AuditLogPage.controls) /\ Known(WebhooksPage.controls)
  /\ Known(ProjectsPage.controls) /\ Known(DigestPage.controls)
<1>1. Known(JobForm) /\ Known(JobRow)
  BY HooksNamed, CallKnown DEF JobForm, JobRow, Known
<1>2. Known(SchedulerPage.controls)
  BY <1>1, KnownTogether DEF SchedulerPage
<1>3. Known(TrashPage.controls)
  <2>1. TrashPage.controls = UNION {TrashRow(k) : k \in {"case", "suite"}}
    BY DEF TrashPage
  <2>2. ASSUME NEW k \in {"case", "suite"} PROVE Known(TrashRow(k))
    <3>1. TrashRow("case") =
            {Always("restoreCase", "trashed cases"), Always("purgeCase", "trashed cases")}
      BY DEF TrashRow
    <3>2. TrashRow("suite") =
            {Always("restoreSuite", "trashed suites"), Always("purgeSuite", "trashed suites")}
      BY DEF TrashRow
    <3>3. /\ Known({Always("restoreCase", "trashed cases")})
          /\ Known({Always("purgeCase", "trashed cases")})
          /\ Known({Always("restoreSuite", "trashed suites")})
          /\ Known({Always("purgeSuite", "trashed suites")})
      BY HooksNamed, CallKnown
    <3>4. Known(TrashRow("case")) /\ Known(TrashRow("suite"))
      BY <3>1, <3>2, <3>3 DEF Known
    <3> QED BY <3>4
  <2> QED BY <2>1, <2>2 DEF Known
<1>4. Known(DashboardPage.controls) /\ Known(AuditLogPage.controls)
  BY DEF DashboardPage, AuditLogPage, Known
<1>5. Known(UserRow) /\ Known(InviteRow) /\ Known(InviteModal)
  BY HooksNamed DEF UserRow, InviteRow, InviteModal, Known, Control, Always
<1>6. Known(AdminPage.controls)
  BY <1>5, KnownTogether DEF AdminPage
<1>7. Known(WebhookRow) /\ Known(WebhookModal)
  BY HooksNamed DEF WebhookRow, WebhookModal, Known, Control, Always
<1>8. Known(WebhooksPage.controls)
  BY <1>7, KnownTogether DEF WebhooksPage
<1>9. Known(ProjectForm) /\ Known(ProjectRow)
  BY HooksNamed DEF ProjectForm, ProjectRow, Known, Control, Always
<1>10. Known(ProjectsPage.controls)
  BY <1>9, KnownTogether DEF ProjectsPage
<1>11. Known(DigestPage.controls)
  <2>1. DigestPage.controls = {Control("sendDigest", "", {"sendDigest"})}
    BY DEF DigestPage
  <2>2. Known({Control("sendDigest", "", {"sendDigest"})})
    BY HooksNamed, CallKnown
  <2> QED BY <2>1, <2>2
<1> QED BY <1>2, <1>3, <1>4, <1>6, <1>8, <1>10, <1>11

LEMMA ControlsKnown == \A p \in DOMAIN Page : Known(Controls(p))
<1>1. Known(ProjectPicker.controls)
  BY HooksNamed, CallKnown DEF ProjectPicker
<1>2. ASSUME NEW p \in DOMAIN Page PROVE Known(Page[p].controls)
  BY CasePagesKnown, SuitePagesKnown, OtherPagesKnown DEF Page
<1> QED BY <1>1, <1>2, KnownTogether DEF Controls


(* A copy whose rows a hook changes is one it sees to or one it forgets,   *)
(* but for the restore of a version, which nobody is granted.              *)
Sees(h) == Hook[h].sets \cup Hook[h].edits \cup Hook[h].marks \cup Hook[h].drops
SeesTo(h) == Changes(h) \ Forgets(h) \subseteq Sees(h)

(* The same of the record of the hook, where the audit log, which every    *)
(* hook forgets, does not count.                                           *)
Covers(h, use) ==
  use.changes \ Forgets(h) \subseteq use.sets \cup use.edits \cup use.marks \cup use.drops

LEMMA SeenTo ==
  ASSUME NEW h, Covers(h, Hook[h])
  PROVE  SeesTo(h)
<1>1. "audit" \in Forgets(h)
  BY DEF Forgets
<1> QED BY <1>1 DEF Covers, SeesTo, Sees, Changes

LEMMA CasesSeenTo ==
  \A h \in {"createCase", "updateCase", "deleteCase", "saveSnippet", "executeCase",
            "runDone", "runErrored"} : SeesTo(h)
<1>1. SeesTo("createCase")
  <2>1. Hook["createCase"] = UseCreateCase
    BY DEF Hook
  <2>2. Covers("createCase", UseCreateCase)
    BY DEF Covers, Forgets, UseCreateCase, Nothing
  <2> QED BY <2>1, <2>2, SeenTo
<1>2. SeesTo("updateCase")
  <2>1. Hook["updateCase"] = UseUpdateCase
    BY DEF Hook
  <2>2. Covers("updateCase", UseUpdateCase)
    BY DEF Covers, Forgets, UseUpdateCase, Nothing, RunViews
  <2> QED BY <2>1, <2>2, SeenTo
<1>3. SeesTo("deleteCase")
  <2>1. Hook["deleteCase"] = UseDeleteCase
    BY DEF Hook
  <2>2. Covers("deleteCase", UseDeleteCase)
    BY DEF Covers, Forgets, UseDeleteCase, Nothing, CasesKey
  <2> QED BY <2>1, <2>2, SeenTo
<1>4. SeesTo("saveSnippet")
  <2>1. Hook["saveSnippet"] = SaveSnippet
    BY DEF Hook
  <2>2. Covers("saveSnippet", SaveSnippet)
    BY DEF Covers, Forgets, SaveSnippet, Nothing
  <2> QED BY <2>1, <2>2, SeenTo
<1>5. SeesTo("executeCase")
  <2>1. Hook["executeCase"] = UseExecuteCase
    BY DEF Hook
  <2>2. Covers("executeCase", UseExecuteCase)
    BY DEF Covers, Forgets, UseExecuteCase, Nothing
  <2> QED BY <2>1, <2>2, SeenTo
<1>6. SeesTo("runDone")
  <2>1. Hook["runDone"] = RunDone
    BY DEF Hook
  <2>2. Covers("runDone", RunDone)
    BY DEF Covers, Forgets, RunDone, Nothing, RunViews, CasesKey
  <2> QED BY <2>1, <2>2, SeenTo
<1>7. SeesTo("runErrored")
  <2>1. Hook["runErrored"] = RunErrored
    BY DEF Hook
  <2>2. Covers("runErrored", RunErrored)
    BY DEF Covers, Forgets, RunErrored, Nothing
  <2> QED BY <2>1, <2>2, SeenTo
<1> QED BY <1>1, <1>2, <1>3, <1>4, <1>5, <1>6, <1>7

LEMMA SuitesSeenTo ==
  \A h \in {"createSuite", "updateSuite", "deleteSuite", "runSuite"} : SeesTo(h)
<1>1. SeesTo("createSuite")
  <2>1. Hook["createSuite"] = UseCreateSuite
    BY DEF Hook
  <2>2. Covers("createSuite", UseCreateSuite)
    BY DEF Covers, Forgets, UseCreateSuite, Nothing
  <2> QED BY <2>1, <2>2, SeenTo
<1>2. SeesTo("updateSuite")
  <2>1. Hook["updateSuite"] = UseUpdateSuite
    BY DEF Hook
  <2>2. Covers("updateSuite", UseUpdateSuite)
    BY DEF Covers, Forgets, UseUpdateSuite, Nothing, SuitesKey
  <2> QED BY <2>1, <2>2, SeenTo
<1>3. SeesTo("deleteSuite")
  <2>1. Hook["deleteSuite"] = UseDeleteSuite
    BY DEF Hook
  <2>2. Covers("deleteSuite", UseDeleteSuite)
    BY DEF Covers, Forgets, UseDeleteSuite, Nothing, SuitesKey
  <2> QED BY <2>1, <2>2, SeenTo
<1>4. SeesTo("runSuite")
  <2>1. Hook["runSuite"] = UseRunSuite
    BY DEF Hook
  <2>2. Covers("runSuite", UseRunSuite)
    BY DEF Covers, Forgets, UseRunSuite, Nothing, RunViews, CasesKey
  <2> QED BY <2>1, <2>2, SeenTo
<1> QED BY <1>1, <1>2, <1>3, <1>4

LEMMA JobsSeenTo ==
  \A h \in {"createJob", "updateJob", "deleteJob", "runJob"} : SeesTo(h)
<1>1. SeesTo("createJob")
  <2>1. Hook["createJob"] = UseCreateJob
    BY DEF Hook
  <2>2. Covers("createJob", UseCreateJob)
    BY DEF Covers, Forgets, UseCreateJob, Nothing
  <2> QED BY <2>1, <2>2, SeenTo
<1>2. SeesTo("updateJob")
  <2>1. Hook["updateJob"] = UseUpdateJob
    BY DEF Hook
  <2>2. Covers("updateJob", UseUpdateJob)
    BY DEF Covers, Forgets, UseUpdateJob, Nothing
  <2> QED BY <2>1, <2>2, SeenTo
<1>3. SeesTo("deleteJob")
  <2>1. Hook["deleteJob"] = UseDeleteJob
    BY DEF Hook
  <2>2. Covers("deleteJob", UseDeleteJob)
    BY DEF Covers, Forgets, UseDeleteJob, Nothing, JobsKey
  <2> QED BY <2>1, <2>2, SeenTo
<1>4. SeesTo("runJob")
  <2>1. Hook["runJob"] = UseRunJob
    BY DEF Hook
  <2>2. Covers("runJob", UseRunJob)
    BY DEF Covers, Forgets, UseRunJob, Nothing, CasesKey, JobsKey
  <2> QED BY <2>1, <2>2, SeenTo
<1> QED BY <1>1, <1>2, <1>3, <1>4

LEMMA TrashSeenTo ==
  \A h \in {"restoreCase", "restoreSuite", "purgeCase", "purgeSuite"} : SeesTo(h)
<1>1. SeesTo("restoreCase")
  <2>1. Hook["restoreCase"] = UseRestoreCase
    BY DEF Hook
  <2>2. Covers("restoreCase", UseRestoreCase)
    BY DEF Covers, Forgets, UseRestoreCase, Nothing, TrashKey, CasesKey
  <2> QED BY <2>1, <2>2, SeenTo
<1>2. SeesTo("restoreSuite")
  <2>1. Hook["restoreSuite"] = UseRestoreSuite
    BY DEF Hook
  <2>2. Covers("restoreSuite", UseRestoreSuite)
    BY DEF Covers, Forgets, UseRestoreSuite, Nothing, TrashKey, SuitesKey
  <2> QED BY <2>1, <2>2, SeenTo
<1>3. SeesTo("purgeCase")
  <2>1. Hook["purgeCase"] = UsePurgeCase
    BY DEF Hook
  <2>2. Covers("purgeCase", UsePurgeCase)
    BY DEF Covers, Forgets, UsePurgeCase, Nothing, TrashKey, SuitesKey
  <2> QED BY <2>1, <2>2, SeenTo
<1>4. SeesTo("purgeSuite")
  <2>1. Hook["purgeSuite"] = UsePurgeSuite
    BY DEF Hook
  <2>2. Covers("purgeSuite", UsePurgeSuite)
    BY DEF Covers, Forgets, UsePurgeSuite, Nothing, TrashKey, JobsKey
  <2> QED BY <2>1, <2>2, SeenTo
<1> QED BY <1>1, <1>2, <1>3, <1>4

LEMMA UsersSeenTo ==
  \A h \in {"updateRole", "deleteUser", "createInvite", "revokeInvite"} : SeesTo(h)
<1>1. SeesTo("updateRole")
  <2>1. Hook["updateRole"] = UseUpdateRole
    BY DEF Hook
  <2>2. Covers("updateRole", UseUpdateRole)
    BY DEF Covers, Forgets, UseUpdateRole, Nothing
  <2> QED BY <2>1, <2>2, SeenTo
<1>2. SeesTo("deleteUser")
  <2>1. Hook["deleteUser"] = UseDeleteUser
    BY DEF Hook
  <2>2. Covers("deleteUser", UseDeleteUser)
    BY DEF Covers, Forgets, UseDeleteUser, Nothing
  <2> QED BY <2>1, <2>2, SeenTo
<1>3. SeesTo("createInvite")
  <2>1. Hook["createInvite"] = UseCreateInvite
    BY DEF Hook
  <2>2. Covers("createInvite", UseCreateInvite)
    BY DEF Covers, Forgets, UseCreateInvite, Nothing
  <2> QED BY <2>1, <2>2, SeenTo
<1>4. SeesTo("revokeInvite")
  <2>1. Hook["revokeInvite"] = UseRevokeInvite
    BY DEF Hook
  <2>2. Covers("revokeInvite", UseRevokeInvite)
    BY DEF Covers, Forgets, UseRevokeInvite, Nothing
  <2> QED BY <2>1, <2>2, SeenTo
<1> QED BY <1>1, <1>2, <1>3, <1>4

LEMMA OthersSeenTo ==
  \A h \in {"createWebhook", "updateWebhook", "deleteWebhook", "testWebhook",
            "createProject", "renameProject", "switchProject", "sendDigest"} : SeesTo(h)
<1>1. SeesTo("createWebhook")
  <2>1. Hook["createWebhook"] = UseCreateWebhook
    BY DEF Hook
  <2>2. Covers("createWebhook", UseCreateWebhook)
    BY DEF Covers, Forgets, UseCreateWebhook, Nothing, WebhooksKey
  <2> QED BY <2>1, <2>2, SeenTo
<1>2. SeesTo("updateWebhook")
  <2>1. Hook["updateWebhook"] = UseUpdateWebhook
    BY DEF Hook
  <2>2. Covers("updateWebhook", UseUpdateWebhook)
    BY DEF Covers, Forgets, UseUpdateWebhook, Nothing, WebhooksKey
  <2> QED BY <2>1, <2>2, SeenTo
<1>3. SeesTo("deleteWebhook")
  <2>1. Hook["deleteWebhook"] = UseDeleteWebhook
    BY DEF Hook
  <2>2. Covers("deleteWebhook", UseDeleteWebhook)
    BY DEF Covers, Forgets, UseDeleteWebhook, Nothing, WebhooksKey
  <2> QED BY <2>1, <2>2, SeenTo
<1>4. SeesTo("testWebhook")
  <2>1. Hook["testWebhook"] = UseTestWebhook
    BY DEF Hook
  <2>2. Covers("testWebhook", UseTestWebhook)
    BY DEF Covers, Forgets, UseTestWebhook, Nothing, WebhooksKey
  <2> QED BY <2>1, <2>2, SeenTo
<1>5. SeesTo("createProject")
  <2>1. Hook["createProject"] = UseCreateProject
    BY DEF Hook
  <2>2. Covers("createProject", UseCreateProject)
    BY DEF Covers, Forgets, UseCreateProject, Nothing
  <2> QED BY <2>1, <2>2, SeenTo
<1>6. SeesTo("renameProject")
  <2>1. Hook["renameProject"] = UseRenameProject
    BY DEF Hook
  <2>2. Covers("renameProject", UseRenameProject)
    BY DEF Covers, Forgets, UseRenameProject, Nothing
  <2> QED BY <2>1, <2>2, SeenTo
<1>7. SeesTo("switchProject")
  <2>1. Hook["switchProject"] = UseSwitchProject
    BY DEF Hook
  <2>2. Covers("switchProject", UseSwitchProject)
    BY DEF Covers, Forgets, UseSwitchProject, Nothing, Queries
  <2> QED BY <2>1, <2>2, SeenTo
<1>8. SeesTo("sendDigest")
  <2>1. Hook["sendDigest"] = UseSendDigest
    BY DEF Hook
  <2>2. Covers("sendDigest", UseSendDigest)
    BY DEF Covers, Forgets, UseSendDigest, Nothing
  <2> QED BY <2>1, <2>2, SeenTo
<1> QED BY <1>1, <1>2, <1>3, <1>4, <1>5, <1>6, <1>7, <1>8

LEMMA AllSeenTo == \A h \in Hooks \ {"restoreVersion"} : SeesTo(h)
BY HooksNamed, CasesSeenTo, SuitesSeenTo, JobsSeenTo, TrashSeenTo, UsersSeenTo, OthersSeenTo

-----------------------------------------------------------------------------
(* The copies.  A write that is on its way was offered by a control; one   *)
(* that was carried out is reflected by its own answer.                    *)
Copy == [has : BOOLEAN, data : SUBSET Writes, old : BOOLEAN,
         get : {"none", "sent", "served"}, snap : SUBSET Writes]
Write == [hook : Hooks \cup {"none"}, at : {"none", "sent", "applied", "acked", "lost"},
          seen : SUBSET Writes]

CopiesTyped ==
  /\ tour \subseteq DOMAIN Page /\ page \in tour
  /\ copy \in Copy /\ write \in [Writes -> Write] /\ applied \subseteq Writes

Carried(w) == w.at \in {"applied", "acked"}
WritesSound ==
  /\ \A i \in Writes : write[i].at = "sent" => write[i].hook \in Hooks
  /\ \A i \in Writes : Carried(write[i]) => write[i].hook \in Hooks \ {"restoreVersion"}
  /\ \A i \in Writes : write[i].at = "applied" => i \in write[i].seen

CopiesInv == CopiesTyped /\ WritesSound /\ OwnWritesShow

LEMMA AbsentIsCopy == Absent \in Copy /\ ~Absent.has
BY DEF Absent, Copy

LEMMA AskedCopy ==
  ASSUME NEW e \in Copy
  PROVE  Asked(e) \in Copy /\ (Asked(e).get = "none" => Asked(e) = e)
<1>1. CASE e.old /\ e.get = "none"
  <2>1. Refetched(e) \in Copy /\ Refetched(e).get = "sent"
    BY DEF Refetched, Copy
  <2> QED BY <1>1, <2>1 DEF Asked
<1>2. CASE ~(e.old /\ e.get = "none")
  BY <1>2 DEF Asked
<1> QED BY <1>1, <1>2

LEMMA OpenedCopy ==
  ASSUME NEW e \in Copy, NEW p
  PROVE  Opened(e, p) \in Copy /\ (Opened(e, p).get = "none" => Opened(e, p) = e)
BY AskedCopy DEF Opened

LEMMA MarkedCopy ==
  ASSUME NEW e \in Copy
  PROVE  Marked(e) \in Copy /\ Marked(e).old
<1>1. [e EXCEPT !.old = TRUE] \in Copy /\ [e EXCEPT !.old = TRUE].old
  BY DEF Copy
<1>2. [Refetched(e) EXCEPT !.old = TRUE] \in Copy /\ [Refetched(e) EXCEPT !.old = TRUE].old
  <2>1. Refetched(e) \in Copy
    BY DEF Refetched, Copy
  <2> QED BY <2>1 DEF Copy
<1> QED BY <1>1, <1>2 DEF Marked

(* What is owed was owed before.                                           *)
NoNewDebt ==
  /\ view' = view /\ excused \subseteq excused'
  /\ \A i \in Writes : write'[i].at = "acked" =>
       write[i].at = "acked" /\ write'[i].hook = write[i].hook

LEMMA OwedBefore ==
  ASSUME NoNewDebt, NEW i \in Writes, Owed(i)'
  PROVE  Owed(i)
BY DEF NoNewDebt, Owed, Acked

(* Nothing is missed in a copy that stays, or does not count as fresh.     *)
LEMMA StillShows ==
  ASSUME OwnWritesShow, NoNewDebt,
         copy' = copy \/ copy'.get # "none" \/ copy'.old \/ ~copy'.has
  PROVE  OwnWritesShow'
BY OwedBefore DEF OwnWritesShow

(* Nor in one that answers, or fails to: what it lacks is excused.         *)
LEMMA ExcusedShows ==
  ASSUME NoNewDebt, excused' = excused \cup Overtaken(copy'.data)
  PROVE  OwnWritesShow'
<1> SUFFICES ASSUME NEW i \in Writes, Owed(i)' PROVE i \in copy'.data
  BY DEF OwnWritesShow
<1> QED BY OwedBefore DEF Owed, Overtaken

LEMMA InitCopies == Init => CopiesInv
<1> SUFFICES ASSUME Init PROVE CopiesInv
  OBVIOUS
<1>1. copy \in Copy /\ (copy.get = "none" => ~copy.has)
  BY AbsentIsCopy, OpenedCopy DEF Init
<1>2. NoWrite \in Write /\ NoWrite.at = "none"
  BY DEF NoWrite, Write
<1>3. write \in [Writes -> Write] /\ \A i \in Writes : write[i].at = "none"
  BY <1>2 DEF Init
<1>4. CopiesTyped
  BY <1>1, <1>3, ToursAssumption DEF Init, CopiesTyped
<1>5. WritesSound
  BY <1>3 DEF WritesSound, Carried
<1>6. OwnWritesShow
  BY <1>1 DEF OwnWritesShow
<1> QED BY <1>4, <1>5, <1>6 DEF CopiesInv

(* The user goes about, the drawer is opened and closed, time passes and   *)
(* the server answers: no write is touched.                                *)
LEMMA ReadingStep ==
  ASSUME CopiesInv,
         (\E p \in tour : Visit(p)) \/ Serve \/ Land \/ GetFails \/ FailsSoft \/ Age
           \/ OpenDrawer \/ CloseDrawer
  PROVE  CopiesInv'
<1>1. write' = write /\ applied' = applied /\ tour' = tour /\ NoNewDebt
  BY DEF Visit, Serve, Land, GetFails, FailsSoft, Age, OpenDrawer, CloseDrawer, NoNewDebt
<1>2. page' \in tour
  BY DEF CopiesInv, CopiesTyped, Visit, Serve, Land, GetFails, FailsSoft, Age, OpenDrawer, CloseDrawer
<1>3. WritesSound'
  BY <1>1 DEF CopiesInv, WritesSound, Carried
<1>4. copy \in Copy /\ applied \subseteq Writes
  BY DEF CopiesInv, CopiesTyped
<1>5. ASSUME copy' \in Copy, OwnWritesShow' PROVE CopiesInv'
  BY <1>1, <1>2, <1>3, <1>5 DEF CopiesInv, CopiesTyped
<1>6. ASSUME NEW p \in tour, Visit(p) PROVE CopiesInv'
  <2>1. copy' = Opened(copy, p)
    BY <1>6 DEF Visit
  <2>2. copy' \in Copy /\ (copy'.get = "none" => copy' = copy)
    BY <1>4, <2>1, OpenedCopy
  <2> QED BY <1>1, <1>5, <2>2, StillShows DEF CopiesInv
<1>7. CASE OpenDrawer
  <2>1. copy' \in Copy /\ (copy'.get = "none" => copy' = copy)
    BY <1>4, <1>7, AskedCopy DEF OpenDrawer
  <2> QED BY <1>1, <1>5, <2>1, StillShows DEF CopiesInv
<1>8. CASE CloseDrawer
  BY <1>1, <1>4, <1>5, <1>8, StillShows DEF CloseDrawer, CopiesInv
<1>9. CASE Serve
  <2>1. copy' \in Copy /\ copy'.get = "served"
    BY <1>4, <1>9 DEF Serve, Copy
  <2> QED BY <1>1, <1>5, <2>1, StillShows DEF CopiesInv
<1>10. CASE Land
  <2>1. copy' \in Copy /\ copy'.data = copy.snap
    BY <1>4, <1>10 DEF Land, Copy
  <2>2. excused' = excused \cup Overtaken(copy'.data)
    BY <1>10, <2>1 DEF Land
  <2> QED BY <1>1, <1>5, <2>1, <2>2, ExcusedShows
<1>11. CASE GetFails
  <2>1. copy' \in Copy /\ copy'.data = copy.data
    BY <1>4, <1>11 DEF GetFails, Copy
  <2>2. excused' = excused \cup Overtaken(copy'.data)
    BY <1>11, <2>1 DEF GetFails
  <2> QED BY <1>1, <1>5, <2>1, <2>2, ExcusedShows
<1>12. CASE FailsSoft
  <2>1. copy.snap \ Blanked \subseteq Writes
    BY <1>4 DEF Copy
  <2>2. PICK data \in SUBSET Writes : data = copy.snap \ Blanked
    BY <2>1
  <2>3. copy' \in Copy /\ copy'.data = data
    BY <1>12, <2>2 DEF FailsSoft, Copy
  <2>4. excused' = excused \cup Overtaken(copy'.data)
    BY <1>12, <2>2, <2>3 DEF FailsSoft
  <2> QED BY <1>1, <1>5, <2>3, <2>4, ExcusedShows
<1>13. CASE Age
  <2>1. copy' \in Copy /\ copy'.old
    BY <1>4, <1>13 DEF Age, Copy
  <2> QED BY <1>1, <1>5, <2>1, StillShows DEF CopiesInv
<1> QED BY <1>6, <1>7, <1>8, <1>9, <1>10, <1>11, <1>12, <1>13

LEMMA GivenUpWrite ==
  ASSUME NEW w \in Write
  PROVE  /\ GivenUp(w) \in Write /\ GivenUp(w).at \notin {"sent", "applied"}
         /\ GivenUp(w).at = "acked" => GivenUp(w) = w
<1>1. CASE w.at = "sent"
  BY <1>1 DEF GivenUp, NoWrite, Write
<1>2. CASE w.at = "applied"
  <2>1. [w EXCEPT !.at = "lost", !.seen = {}] \in Write
        /\ [w EXCEPT !.at = "lost", !.seen = {}].at = "lost"
    BY DEF Write
  <2> QED BY <1>2, <2>1 DEF GivenUp
<1>3. CASE w.at \notin {"sent", "applied"}
  BY <1>3 DEF GivenUp
<1> QED BY <1>1, <1>2, <1>3

LEMMA ReloadStep == ASSUME CopiesInv, Reload PROVE CopiesInv'
<1>1. copy' \in Copy /\ (copy'.get = "none" => ~copy'.has)
  BY AbsentIsCopy, OpenedCopy DEF Reload
<1>2. \A i \in Writes : write'[i] = GivenUp(write[i]) /\ write[i] \in Write
  BY DEF Reload, CopiesInv, CopiesTyped
<1>3. write' \in [Writes -> Write]
  <2>1. \A i \in Writes : GivenUp(write[i]) \in Write
    BY <1>2, GivenUpWrite
  <2> QED BY <2>1 DEF Reload
<1>4. \A i \in Writes : /\ write'[i].at \notin {"sent", "applied"}
                        /\ write'[i].at = "acked" => write'[i] = write[i]
  BY <1>2, GivenUpWrite
<1>5. CopiesTyped'
  BY <1>1, <1>3 DEF Reload, CopiesInv, CopiesTyped
<1>6. WritesSound'
  BY <1>4 DEF CopiesInv, WritesSound, Carried
<1>7. NoNewDebt
  BY <1>4 DEF NoNewDebt, Reload
<1>8. OwnWritesShow'
  BY <1>1, <1>7, StillShows DEF CopiesInv
<1> QED BY <1>5, <1>6, <1>8 DEF CopiesInv

(* A write changes, the copy does not.                                     *)
LEMMA WriteStep ==
  ASSUME CopiesInv, NEW i \in Writes, NEW w \in Write, w.at # "acked",
         w.at = "sent" => w.hook \in Hooks,
         w.at = "applied" => w.hook \in Hooks \ {"restoreVersion"} /\ i \in w.seen,
         write' = [write EXCEPT ![i] = w], applied' \subseteq Writes,
         UNCHANGED <<tour, page, drawer, view, copy, excused>>
  PROVE  CopiesInv'
<1>1. write \in [Writes -> Write]
  BY DEF CopiesInv, CopiesTyped
<1>2. \A j \in Writes : write'[j] = IF j = i THEN w ELSE write[j]
  BY <1>1
<1>3. CopiesTyped'
  BY <1>1 DEF CopiesInv, CopiesTyped
<1>4. WritesSound'
  BY <1>2 DEF CopiesInv, WritesSound, Carried
<1>5. NoNewDebt
  BY <1>2 DEF NoNewDebt
<1> QED BY <1>3, <1>4, <1>5, StillShows DEF CopiesInv

LEMMA ActStep ==
  ASSUME CopiesInv, NEW c \in Controls(page), Act(c)
  PROVE  CopiesInv'
<1>1. c.hook \in Hooks
  BY ControlsKnown DEF Known, CopiesInv, CopiesTyped
<1>2. PICK i \in Writes : write' = [write EXCEPT ![i] = [hook |-> c.hook, at |-> "sent", seen |-> {}]]
  BY DEF Act
<1>3. PICK w \in Write : w = [hook |-> c.hook, at |-> "sent", seen |-> {}]
  BY <1>1 DEF Write
<1>4. w.hook = c.hook /\ w.at = "sent"
  BY <1>3
<1>5. applied' \subseteq Writes
  BY DEF Act, CopiesInv, CopiesTyped
<1> QED BY <1>1, <1>2, <1>3, <1>4, <1>5, WriteStep DEF Act

LEMMA ApplyStep ==
  ASSUME CopiesInv, NEW i \in Writes, Apply(i)
  PROVE  CopiesInv'
<1>1. write \in [Writes -> Write] /\ write[i] \in Write /\ applied' \subseteq Writes /\ i \in applied'
  BY DEF Apply, CopiesInv, CopiesTyped
<1>2. write[i].hook \in Hooks \ {"restoreVersion"}
  BY DEF Apply, CopiesInv, WritesSound
<1>3. PICK w \in Write : w = [write[i] EXCEPT !.at = "applied", !.seen = applied']
  BY <1>1 DEF Write
<1>4. w.at = "applied" /\ w.seen = applied' /\ w.hook = write[i].hook
  BY <1>1, <1>3 DEF Write
<1>5. write' = [write EXCEPT ![i] = w]
  BY <1>1, <1>3 DEF Apply
<1> QED BY <1>1, <1>2, <1>4, <1>5, WriteStep DEF Apply

LEMMA ActFailsStep ==
  ASSUME CopiesInv, NEW i \in Writes, ActFails(i)
  PROVE  CopiesInv'
<1>1. write \in [Writes -> Write] /\ write[i] \in Write /\ applied' \subseteq Writes
  BY DEF ActFails, CopiesInv, CopiesTyped
<1>2. PICK w \in Write : w = GivenUp(write[i]) /\ w.at \notin {"sent", "applied"}
  BY <1>1, GivenUpWrite
<1>3. w.at # "acked"
  BY <1>1, <1>2, GivenUpWrite DEF ActFails
<1>4. write' = [write EXCEPT ![i] = w]
  BY <1>2 DEF ActFails
<1> QED BY <1>1, <1>2, <1>3, <1>4, WriteStep DEF ActFails

LEMMA PatchedHolds ==
  ASSUME CopiesInv, NEW i \in Writes, write[i].at = "applied"
  PROVE  Patched(i) \in SUBSET Writes /\ i \in Patched(i)
<1>1. write[i].seen \subseteq Writes /\ copy.data \subseteq Writes /\ i \in write[i].seen
  BY DEF CopiesInv, CopiesTyped, WritesSound, Write, Copy
<1> QED BY <1>1 DEF Patched

LEMMA AfterPatchCopy ==
  ASSUME CopiesInv, NEW i \in Writes, write[i].at = "applied"
  PROVE  /\ AfterPatch(i) \in Copy
         /\ \/ ~AfterPatch(i).has
            \/ Patches(write[i].hook) /\ AfterPatch(i).data = Patched(i)
            \/ /\ AfterPatch(i) = copy
               /\ view \notin Sees(write[i].hook) \ Hook[write[i].hook].marks \/ ~copy.has
<1>1. copy \in Copy
  BY DEF CopiesInv, CopiesTyped
<1>2. CASE view \in Hook[write[i].hook].drops
  BY <1>2, AbsentIsCopy DEF AfterPatch
<1>3. CASE view \notin Hook[write[i].hook].drops /\ Patches(write[i].hook)
  <2>1. PICK data \in SUBSET Writes : data = Patched(i)
    BY PatchedHolds
  <2>2. PICK new : new = [copy EXCEPT !.has = TRUE, !.old = FALSE, !.data = data]
    OBVIOUS
  <2>3. new \in Copy /\ new.data = data
    BY <1>1, <2>2 DEF Copy
  <2>4. AfterPatch(i) = new
    BY <1>3, <2>1, <2>2 DEF AfterPatch
  <2> QED BY <1>3, <2>1, <2>3, <2>4
<1>4. CASE view \notin Hook[write[i].hook].drops /\ ~Patches(write[i].hook)
  <2>1. AfterPatch(i) = copy
    BY <1>4 DEF AfterPatch
  <2>2. view \notin Sees(write[i].hook) \ Hook[write[i].hook].marks \/ ~copy.has
    BY <1>4 DEF Patches, Sees
  <2> QED BY <1>1, <2>1, <2>2
<1> QED BY <1>2, <1>3, <1>4

LEMMA AnswerStep ==
  ASSUME CopiesInv, NEW i \in Writes, Answer(i)
  PROVE  CopiesInv'
<1> DEFINE h == write[i].hook
<1>1. write \in [Writes -> Write] /\ write[i] \in Write /\ write[i].at = "applied"
      /\ h \in Hooks \ {"restoreVersion"}
  BY DEF Answer, CopiesInv, CopiesTyped, WritesSound, Carried
<1>2. PICK w \in Write : w = [write[i] EXCEPT !.at = "acked", !.seen = {}]
  BY <1>1 DEF Write
<1>3. w.at = "acked" /\ w.hook = h
  BY <1>1, <1>2 DEF Write
<1>4. write' = [write EXCEPT ![i] = w]
  BY <1>1, <1>2 DEF Answer
<1>5. \A j \in Writes : write'[j] = IF j = i THEN w ELSE write[j]
  BY <1>1, <1>4
<1>6. copy' = IF view \in Hook[h].marks THEN Marked(AfterPatch(i)) ELSE AfterPatch(i)
  BY DEF Answer
<1>7. copy' \in Copy
  BY <1>1, <1>6, AfterPatchCopy, MarkedCopy
<1>8. CopiesTyped'
  BY <1>1, <1>4, <1>7 DEF Answer, CopiesInv, CopiesTyped
<1>9. WritesSound'
  BY <1>1, <1>3, <1>5 DEF CopiesInv, WritesSound, Carried
<1>10. \A j \in Writes \ {i} : Owed(j)' => Owed(j)
  BY <1>5 DEF Owed, Acked, Answer
<1>11. OwnWritesShow'
  <2>1. SUFFICES ASSUME copy'.has, ~copy'.old, copy'.get = "none", NEW j \in Writes, Owed(j)'
                 PROVE  j \in copy'.data
    BY DEF OwnWritesShow
  <2>2. view \notin Hook[h].marks /\ copy' = AfterPatch(i)
    BY <1>1, <1>6, <2>1, AfterPatchCopy, MarkedCopy
  <2>3. CASE Patches(h) /\ AfterPatch(i).data = Patched(i)
    <3>1. excused' = excused \cup Overtaken(Patched(i))
      BY <2>3 DEF Answer
    <3>2. CASE j = i
      BY <1>1, <2>2, <2>3, <3>2, PatchedHolds
    <3>3. CASE j # i
      <4>1. Owed(j) /\ j \notin excused'
        BY <1>10, <2>1, <3>3 DEF Owed
      <4> QED BY <2>2, <2>3, <3>1, <4>1 DEF Owed, Overtaken
    <3> QED BY <3>2, <3>3
  <2>4. CASE AfterPatch(i) = copy /\ (view \notin Sees(h) \ Hook[h].marks \/ ~copy.has)
    <3>1. view \notin Sees(h)
      BY <2>1, <2>2, <2>4
    <3>2. j # i
      <4>1. view \notin Changes(h) \ Forgets(h)
        BY <1>1, <3>1, AllSeenTo DEF SeesTo
      <4>2. SUFFICES ASSUME j = i PROVE FALSE
        OBVIOUS
      <4>3. view' = view /\ write'[i].hook = h
        BY <1>3, <1>5 DEF Answer
      <4> QED BY <2>1, <4>1, <4>2, <4>3 DEF Owed
    <3> QED BY <1>10, <2>1, <2>2, <2>4, <3>2 DEF CopiesInv, OwnWritesShow
  <2> QED BY <1>1, <2>1, <2>2, <2>3, <2>4, AfterPatchCopy
<1> QED BY <1>8, <1>9, <1>11 DEF CopiesInv

LEMMA StepCopies == CopiesInv /\ [Next]_vars => CopiesInv'
<1> SUFFICES ASSUME CopiesInv, [Next]_vars PROVE CopiesInv'
  OBVIOUS
<1>1. CASE UNCHANGED vars
  BY <1>1 DEF vars, CopiesInv, CopiesTyped, WritesSound, Carried, OwnWritesShow, Owed, Acked
<1> QED BY <1>1, ReadingStep, ReloadStep, ActStep, ApplyStep, ActFailsStep, AnswerStep DEF Next

(* A copy that counts as fresh and is not being asked for holds what the   *)
(* user did, whatever the order of answers, failures and reloads, on every *)
(* tour: the answer of a mutation goes into each copy it changes, or marks *)
(* it, but for those the hook forgets.                                     *)
THEOREM FreshCopiesShow == ClientSpec => []OwnWritesShow
<1>1. CopiesInv /\ [CopiesGoOn \/ PanelGoesOn]_ClientVars => CopiesInv'
  <2>1. [CopiesGoOn \/ PanelGoesOn]_ClientVars => [Next]_vars
    BY DEF CopiesGoOn, PanelGoesOn, ClientVars
  <2> QED BY <2>1, StepCopies
<1>2. CopiesInv => OwnWritesShow
  BY DEF CopiesInv
<1> QED BY <1>1, <1>2, InitCopies, PTL DEF ClientSpec

-----------------------------------------------------------------------------
(* The panel of runs.                                                      *)

Frame == [event : {"snapshot", "done", "error"},
          status : Panels!Verdicts \cup {"none", "running"}]
Stream == [at : {"off", "asked", "subscribing", "watching", "ended", "silent"},
           frames : Seq(Frame)]

PanelTyped ==
  /\ lastId \in 0..MaxRuns
  /\ verdict \in [Panels!Runs -> Panels!Verdicts \cup {"none"}]
  /\ rows \in [Panels!Runs -> Panels!Verdicts \cup {"none", "running"}]
  /\ exec \in [Panels!Runs -> {"none", "running", "storing", "telling", "over"}]
  /\ stream \in [Panels!Runs -> Stream]

(* The run that is followed is the last one, and the panel says that it    *)
(* runs; nothing is followed while a POST is under way.                    *)
Followed ==
  /\ active # Panels!NoRun => active = lastId /\ lastId \in Panels!Runs /\ status = "running"
  /\ pending # "none" => active = Panels!NoRun /\ status = "running"
  /\ pending = "sent" => lastId < MaxRuns
  /\ pending = "created" => lastId \in Panels!Runs

(* A verdict is given once, to a run that was created and runs.            *)
GivenOnce ==
  \A r \in Panels!Runs :
    /\ exec[r] = "running" => verdict[r] = "none"
    /\ r > lastId => exec[r] = "none" /\ verdict[r] = "none"

(* Rows and frames tell verdicts that were given.                          *)
TellsTruth(said, r) == said \in Panels!Verdicts \ {"errored"} => said = verdict[r]
RowsTell == \A r \in Panels!Runs : rows[r] \in Panels!Verdicts => rows[r] = verdict[r]
FramesTell ==
  \A r \in Panels!Runs :
    \A i \in 1..Len(stream[r].frames) : TellsTruth(stream[r].frames[i].status, r)

PanelInv ==
  /\ PanelTyped /\ Followed /\ GivenOnce /\ RowsTell /\ FramesTell
  /\ Panels!PanelTellsVerdict

LEMMA StreamType ==
  ASSUME PanelTyped, NEW r \in Panels!Runs
  PROVE  stream[r] \in Stream /\ stream[r].frames \in Seq(Frame)
BY DEF PanelTyped, Stream

(* One frame more, of a run that it tells the truth of.                    *)
LEMMA SendTells ==
  ASSUME PanelTyped, FramesTell, NEW r \in Panels!Runs, NEW at, NEW event, NEW shown,
         at \in {"subscribing", "ended"}, [event |-> event, status |-> shown] \in Frame,
         TellsTruth(shown, r), Panels!Send(r, at, event, shown), verdict' = verdict
  PROVE  stream' \in [Panels!Runs -> Stream] /\ FramesTell'
<1>1. PICK frame \in Frame : frame = [event |-> event, status |-> shown]
  OBVIOUS
<1>2. frame.status = shown
  BY <1>1
<1>3. PICK frames : frames = Append(stream[r].frames, frame)
  OBVIOUS
<1>4. /\ frames \in Seq(Frame)
      /\ \A i \in 1..Len(frames) : frames[i] = frame \/
           (i \in 1..Len(stream[r].frames) /\ frames[i] = stream[r].frames[i])
  BY <1>3, StreamType
<1>5. PICK new \in Stream : new = [at |-> at, frames |-> frames]
  BY <1>4 DEF Stream
<1>6. new.frames = frames
  BY <1>5
<1>7. stream' = [stream EXCEPT ![r] = new]
  BY <1>1, <1>3, <1>5 DEF Panels!Send
<1>8. stream' \in [Panels!Runs -> Stream]
  BY <1>7 DEF PanelTyped
<1>9. FramesTell'
  <2>1. SUFFICES ASSUME NEW s \in Panels!Runs, NEW i \in 1..Len(stream'[s].frames)
                 PROVE  TellsTruth(stream[s].frames[i].status, s)'
    BY DEF FramesTell
  <2>2. CASE s = r
    <3>1. stream'[s].frames = frames
      BY <1>6, <1>7, <2>2 DEF PanelTyped
    <3> QED BY <1>2, <1>4, <2>1, <2>2, <3>1 DEF FramesTell, TellsTruth
  <2>3. CASE s # r
    <3>1. stream'[s] = stream[s]
      BY <1>7, <2>3 DEF PanelTyped
    <3> QED BY <2>1, <3>1 DEF FramesTell, TellsTruth
  <2> QED BY <2>2, <2>3
<1> QED BY <1>8, <1>9

(* A stream that keeps its frames, or loses them.                          *)
LEMMA FewerFramesTell ==
  ASSUME PanelTyped, FramesTell, verdict' = verdict, stream' \in [Panels!Runs -> Stream],
         \A r \in Panels!Runs :
           \/ stream'[r].frames = stream[r].frames
           \/ stream'[r].frames = <<>>
           \/ stream[r].frames # <<>> /\ stream'[r].frames = Tail(stream[r].frames)
  PROVE  FramesTell'
<1>1. SUFFICES ASSUME NEW r \in Panels!Runs, NEW i \in 1..Len(stream'[r].frames)
               PROVE  TellsTruth(stream[r].frames[i].status, r)'
  BY DEF FramesTell
<1>2. stream[r].frames \in Seq(Frame)
  BY StreamType
<1>3. \E j \in 1..Len(stream[r].frames) : stream'[r].frames[i] = stream[r].frames[j]
  <2>1. CASE stream'[r].frames = stream[r].frames
    BY <1>1, <2>1
  <2>2. CASE stream'[r].frames = <<>>
    BY <1>1, <2>2
  <2>3. CASE stream[r].frames # <<>> /\ stream'[r].frames = Tail(stream[r].frames)
    <3>1. /\ Len(stream[r].frames) \in Nat
          /\ Len(Tail(stream[r].frames)) = Len(stream[r].frames) - 1
          /\ \A k \in 1..(Len(stream[r].frames) - 1) :
               Tail(stream[r].frames)[k] = stream[r].frames[k + 1]
      BY <1>2, <2>3
    <3>2. i \in 1..(Len(stream[r].frames) - 1)
      BY <1>1, <2>3, <3>1
    <3>3. stream'[r].frames[i] = stream[r].frames[i + 1] /\ i + 1 \in 1..Len(stream[r].frames)
      BY <2>3, <3>1, <3>2
    <3> QED BY <3>3
  <2> QED BY <2>1, <2>2, <2>3
<1> QED BY <1>3 DEF FramesTell, TellsTruth

LEMMA FollowTells ==
  ASSUME PanelTyped, FramesTell, verdict' = verdict, NEW r, Panels!Follow(r)
  PROVE  stream' \in [Panels!Runs -> Stream] /\ FramesTell'
<1>1. /\ Panels!NoStream \in Stream /\ Panels!NoStream.frames = <<>>
      /\ [Panels!NoStream EXCEPT !.at = "asked"] \in Stream
      /\ [Panels!NoStream EXCEPT !.at = "asked"].frames = <<>>
  <2>1. <<>> \in Seq(Frame)
    OBVIOUS
  <2>2. \A at \in {"off", "asked"} : LET u == [at |-> at, frames |-> <<>>]
                                    IN  u \in Stream /\ u.frames = <<>>
    BY <2>1 DEF Stream
  <2>3. [Panels!NoStream EXCEPT !.at = "asked"] = [at |-> "asked", frames |-> <<>>]
    BY DEF Panels!NoStream
  <2> QED BY <2>2, <2>3 DEF Panels!NoStream
<1>2. PICK asked \in Stream : asked = [Panels!NoStream EXCEPT !.at = "asked"] /\ asked.frames = <<>>
  BY <1>1
<1>3. stream' = [s \in Panels!Runs |-> IF s = r THEN asked
                                       ELSE IF s = active THEN Panels!NoStream ELSE stream[s]]
  BY <1>2 DEF Panels!Follow
<1>4. stream' \in [Panels!Runs -> Stream]
  BY <1>1, <1>3 DEF PanelTyped
<1>5. \A s \in Panels!Runs : stream'[s].frames = stream[s].frames \/ stream'[s].frames = <<>>
  BY <1>1, <1>2, <1>3
<1> QED BY <1>4, <1>5, FewerFramesTell

LEMMA AtTells ==
  ASSUME PanelTyped, FramesTell, verdict' = verdict, NEW r \in Panels!Runs,
         NEW at \in {"watching", "silent"}, stream' = [stream EXCEPT ![r].at = at]
  PROVE  stream' \in [Panels!Runs -> Stream] /\ FramesTell'
<1>1. PICK new : new = [stream[r] EXCEPT !.at = at]
  OBVIOUS
<1>2. new \in Stream /\ new.frames = stream[r].frames
  <2>1. stream[r] \in Stream
    BY StreamType
  <2>2. \A str \in Stream : LET u == [str EXCEPT !.at = at]
                           IN  u \in Stream /\ u.frames = str.frames
    BY DEF Stream
  <2> QED BY <1>1, <2>1, <2>2
<1>3. stream' = [stream EXCEPT ![r] = new]
  BY <1>1
<1>4. /\ stream' \in [Panels!Runs -> Stream]
      /\ \A s \in Panels!Runs : stream'[s].frames = stream[s].frames
  BY <1>2, <1>3 DEF PanelTyped
<1> QED BY <1>4, FewerFramesTell
-----------------------------------------------------------------------------
LEMMA InitPanel == ASSUME Panels!Init PROVE PanelInv
<1>1. /\ <<>> \in Seq(Frame) /\ Len(<<>>) = 0
  OBVIOUS
<1>2. Panels!NoStream \in Stream /\ Panels!NoStream.frames = <<>>
  <2>1. \A s : LET u == [at |-> "off", frames |-> s] IN u.frames = s
    OBVIOUS
  <2>2. \A s \in Seq(Frame) : [at |-> "off", frames |-> s] \in Stream
    BY DEF Stream
  <2> QED BY <1>1, <2>1, <2>2 DEF Panels!NoStream
<1>3. PanelTyped
  BY <1>2, RunsAssumption DEF Panels!Init, PanelTyped
<1>4. FramesTell
  BY <1>1, <1>2 DEF Panels!Init, FramesTell
<1> QED BY <1>3, <1>4 DEF Panels!Init, PanelInv, Followed, GivenOnce, RowsTell,
                            Panels!PanelTellsVerdict, Panels!Verdicts

(* The panel's steps read what the frames tell.                            *)
LEMMA PanelSteps ==
  ASSUME PanelInv,
         \/ Panels!StartRun \/ Panels!Started \/ Panels!StartFails
         \/ Panels!Leave \/ Panels!Read
  PROVE  PanelInv'
<1>1. /\ PanelTyped /\ Followed /\ GivenOnce /\ RowsTell /\ FramesTell /\ Panels!PanelTellsVerdict
      /\ UNCHANGED <<rows, exec, lastId, verdict>>
  BY DEF PanelInv, Panels!StartRun, Panels!Started, Panels!StartFails, Panels!Leave,
         Panels!Read, Panels!server
<1>2. GivenOnce' /\ RowsTell'
  BY <1>1 DEF GivenOnce, RowsTell
<1>3. ASSUME stream' \in [Panels!Runs -> Stream], FramesTell', Followed', Panels!PanelTellsVerdict'
      PROVE  PanelInv'
  BY <1>1, <1>2, <1>3 DEF PanelInv, PanelTyped
<1>4. UNCHANGED stream => stream' \in [Panels!Runs -> Stream] /\ FramesTell'
  BY <1>1 DEF PanelTyped, FramesTell, TellsTruth
<1>5. MaxRuns \in Nat /\ lastId \in 0..MaxRuns /\ Panels!Runs = 1..MaxRuns /\ Panels!NoRun = 0
  BY RunsAssumption, <1>1 DEF PanelTyped, Panels!Runs, Panels!NoRun
<1>6. CASE Panels!StartRun
  <2>1. Followed'
    BY <1>1, <1>5, <1>6 DEF Panels!StartRun, Followed, Panels!server
  <2>2. Panels!PanelTellsVerdict'
    BY <1>6 DEF Panels!StartRun, Panels!PanelTellsVerdict
  <2> QED BY <1>3, <1>4, <1>6, <2>1, <2>2 DEF Panels!StartRun
<1>7. CASE Panels!StartFails
  <2>1. Followed'
    BY <1>1, <1>7 DEF Panels!StartFails, Followed, Panels!server
  <2>2. Panels!PanelTellsVerdict'
    BY <1>7 DEF Panels!StartFails, Panels!PanelTellsVerdict
  <2> QED BY <1>3, <1>4, <1>7, <2>1, <2>2 DEF Panels!StartFails
<1>8. CASE Panels!Started
  <2>1. stream' \in [Panels!Runs -> Stream] /\ FramesTell'
    BY <1>1, <1>8, FollowTells DEF Panels!Started
  <2>2. Followed'
    BY <1>1, <1>8 DEF Panels!Started, Panels!Follow, Followed, Panels!server
  <2>3. Panels!PanelTellsVerdict'
    BY <1>1, <1>8 DEF Panels!Started, Followed, Panels!PanelTellsVerdict
  <2> QED BY <1>3, <2>1, <2>2, <2>3
<1>9. CASE Panels!Leave
  <2>1. stream' \in [Panels!Runs -> Stream] /\ FramesTell'
    BY <1>1, <1>9, FollowTells DEF Panels!Leave
  <2>2. Followed'
    BY <1>9 DEF Panels!Leave, Panels!Follow, Followed
  <2>3. Panels!PanelTellsVerdict'
    BY <1>9 DEF Panels!Leave, Panels!PanelTellsVerdict
  <2> QED BY <1>3, <2>1, <2>2, <2>3
<1>10. CASE Panels!Read
  <2> DEFINE frames == stream[active].frames
  <2>1. /\ active = lastId /\ active \in Panels!Runs /\ status = "running"
        /\ pending = "none" /\ pending' = "none"
    BY <1>1, <1>10 DEF Panels!Read, Followed
  <2>2. frames \in Seq(Frame) /\ frames # <<>>
    BY <1>1, <1>10, <2>1, StreamType DEF Panels!Read
  <2>3. PICK frame : frame = Head(frames) /\ frame = frames[1] /\ 1 \in 1..Len(frames)
    <3>1. \A s \in Seq(Frame) : s # <<>> => Head(s) = s[1] /\ 1 \in 1..Len(s)
      OBVIOUS
    <3> HIDE DEF frames
    <3> QED BY <2>2, <3>1
  <2>4. TellsTruth(frame.status, active)
    BY <1>1, <2>1, <2>3 DEF FramesTell
  <2>5. status' = frame.status
    BY <1>10, <2>3 DEF Panels!Read, Panels!Shows
  <2>6. Panels!PanelTellsVerdict'
    BY <1>1, <2>1, <2>4, <2>5 DEF Panels!PanelTellsVerdict, TellsTruth, Panels!Verdicts
  <2>7. CASE frame.status = "running"
    <3>1. stream' = [stream EXCEPT ![active].frames = Tail(frames)] /\ active' = active
      BY <1>10, <2>3, <2>7 DEF Panels!Read, Panels!Shows
    <3>2. PICK new : new = [stream[active] EXCEPT !.frames = Tail(frames)]
      OBVIOUS
    <3>3. Tail(frames) \in Seq(Frame)
      BY <2>2
    <3>4. new \in Stream /\ new.frames = Tail(frames)
      <4>1. stream[active] \in Stream
        BY <1>1, <2>1, StreamType
      <4>2. \A str \in Stream : \A s \in Seq(Frame) :
              LET u == [str EXCEPT !.frames = s] IN u \in Stream /\ u.frames = s
        BY DEF Stream
      <4> HIDE DEF frames
      <4> QED BY <3>2, <3>3, <4>1, <4>2
    <3>5. stream' = [stream EXCEPT ![active] = new]
      BY <3>1, <3>2
    <3>6. stream' \in [Panels!Runs -> Stream]
      BY <1>1, <3>4, <3>5 DEF PanelTyped
    <3>7. \A r \in Panels!Runs :
            \/ stream'[r].frames = stream[r].frames
            \/ stream[r].frames # <<>> /\ stream'[r].frames = Tail(stream[r].frames)
      BY <1>1, <2>1, <2>2, <3>4, <3>5 DEF PanelTyped
    <3>8. FramesTell'
      BY <1>1, <3>6, <3>7, FewerFramesTell
    <3>9. Followed'
      BY <1>1, <2>1, <2>5, <2>7, <3>1 DEF Followed
    <3> QED BY <1>3, <2>6, <3>6, <3>8, <3>9
  <2>8. CASE frame.status # "running"
    <3>1. Panels!Follow(Panels!NoRun)
      BY <1>10, <2>3, <2>8 DEF Panels!Read, Panels!Shows
    <3>2. stream' \in [Panels!Runs -> Stream] /\ FramesTell'
      BY <1>1, <3>1, FollowTells
    <3>3. Followed'
      BY <2>1, <3>1 DEF Panels!Follow, Followed
    <3> QED BY <1>3, <2>6, <3>2, <3>3
  <2> QED BY <2>7, <2>8
<1> QED BY <1>6, <1>7, <1>8, <1>9, <1>10

(* The streams' steps tell what the row says, or nothing.                  *)
LEMMA StreamSteps ==
  ASSUME PanelInv, NEW r \in Panels!Runs,
         \/ Panels!Snapshot(r) \/ Panels!Subscribe(r)
         \/ Panels!Break(r) \/ Panels!EndSilently(r)
  PROVE  PanelInv'
<1>1. /\ PanelTyped /\ Followed /\ GivenOnce /\ RowsTell /\ FramesTell /\ Panels!PanelTellsVerdict
      /\ UNCHANGED <<rows, exec, lastId, verdict, status, active, pending>>
  BY DEF PanelInv, Panels!Snapshot, Panels!Subscribe, Panels!Break, Panels!EndSilently,
         Panels!server, Panels!panel
<1>2. stream' \in [Panels!Runs -> Stream] /\ FramesTell' => PanelInv'
  BY <1>1 DEF PanelInv, PanelTyped, Followed, GivenOnce, RowsTell, Panels!PanelTellsVerdict
<1>3. CASE Panels!Snapshot(r)
  <2>1. rows[r] \in Panels!Verdicts \cup {"none", "running"} /\ TellsTruth(rows[r], r)
    BY <1>1 DEF PanelTyped, RowsTell, TellsTruth
  <2>2. PICK at \in {"subscribing", "ended"} : Panels!Send(r, at, "snapshot", rows[r])
    BY <1>3 DEF Panels!Snapshot
  <2>3. [event |-> "snapshot", status |-> rows[r]] \in Frame
    BY <2>1 DEF Frame
  <2> QED BY <1>1, <1>2, <2>1, <2>2, <2>3, SendTells
<1>4. CASE Panels!Break(r)
  <2>1. [event |-> "error", status |-> "errored"] \in Frame /\ TellsTruth("errored", r)
    BY DEF Frame, Panels!Verdicts, TellsTruth
  <2> QED BY <1>1, <1>2, <1>4, <2>1, SendTells DEF Panels!Break
<1>5. CASE Panels!Subscribe(r) \/ Panels!EndSilently(r)
  BY <1>1, <1>2, <1>5, AtTells DEF Panels!Subscribe, Panels!EndSilently
<1> QED BY <1>3, <1>4, <1>5

(* The executor's steps give the verdict once and tell it as it is.        *)
LEMMA ExecutorSteps ==
  ASSUME PanelInv,
         \/ Panels!Create
         \/ \E r \in Panels!Runs : \/ \E v \in Panels!Verdicts : Panels!Conclude(r, v)
                                 \/ Panels!Store(r) \/ Panels!Tell(r)
  PROVE  PanelInv'
<1>1. PanelTyped /\ Followed /\ GivenOnce /\ RowsTell /\ FramesTell /\ Panels!PanelTellsVerdict
  BY DEF PanelInv
<1>2. MaxRuns \in Nat /\ lastId \in 0..MaxRuns /\ Panels!Runs = 1..MaxRuns /\ Panels!NoRun = 0
  BY RunsAssumption, <1>1 DEF PanelTyped, Panels!Runs, Panels!NoRun
<1>3. "none" \notin Panels!Verdicts /\ "running" \notin Panels!Verdicts
  BY DEF Panels!Verdicts
<1>4. CASE Panels!Create
  <2>1. /\ lastId + 1 \in Panels!Runs /\ lastId' = lastId + 1
        /\ active = Panels!NoRun /\ status = "running"
    BY <1>1, <1>2, <1>4 DEF Panels!Create, Followed
  <2>2. UNCHANGED <<status, active, stream, verdict>> /\ pending' = "created"
    BY <1>4 DEF Panels!Create
  <2>3. PanelTyped' /\ FramesTell'
    BY <1>1, <1>2, <1>4, <2>1, <2>2 DEF Panels!Create, PanelTyped, FramesTell, TellsTruth
  <2>4. Followed' /\ Panels!PanelTellsVerdict'
    BY <2>1, <2>2 DEF Followed, Panels!PanelTellsVerdict
  <2>5. \A r \in Panels!Runs : r = lastId + 1 \/ exec'[r] = exec[r]
    BY <1>1, <1>2, <1>4 DEF Panels!Create, PanelTyped
  <2>6. GivenOnce'
    BY <1>1, <1>2, <2>1, <2>2, <2>5 DEF GivenOnce
  <2>7. RowsTell'
    BY <1>1, <1>3, <1>4, <2>2 DEF Panels!Create, RowsTell, PanelTyped
  <2> QED BY <2>3, <2>4, <2>6, <2>7 DEF PanelInv
<1>5. ASSUME NEW r \in Panels!Runs, NEW v \in Panels!Verdicts, Panels!Conclude(r, v) PROVE PanelInv'
  <2>1. verdict[r] = "none" /\ UNCHANGED <<status, active, pending, stream, rows, lastId>>
    BY <1>1, <1>5 DEF Panels!Conclude, GivenOnce, Panels!panel
  <2>2. PanelTyped'
    BY <1>1, <1>5, <2>1 DEF Panels!Conclude, PanelTyped
  <2>3. Followed'
    BY <1>1, <2>1 DEF Followed
  <2>4. \A s \in Panels!Runs \ {r} : verdict'[s] = verdict[s] /\ exec'[s] = exec[s]
    BY <1>1, <1>5 DEF Panels!Conclude, PanelTyped
  <2>5. /\ verdict'[r] = v /\ exec'[r] = "storing" /\ ~(r > lastId)
    BY <1>1, <1>5 DEF Panels!Conclude, PanelTyped, GivenOnce
  <2>6. GivenOnce'
    BY <1>1, <2>1, <2>4, <2>5 DEF GivenOnce
  <2>7. RowsTell'
    BY <1>1, <1>3, <2>1, <2>4 DEF RowsTell
  <2>8. FramesTell'
    <3>1. \A s \in Panels!Runs : \A said :
            TellsTruth(said, s) => said \notin Panels!Verdicts \ {"errored"} \/ said = verdict'[s]
      BY <1>3, <2>1, <2>4 DEF TellsTruth
    <3> QED BY <1>1, <2>1, <3>1 DEF FramesTell, TellsTruth
  <2>9. Panels!PanelTellsVerdict'
    <3>1. CASE r = lastId
      BY <1>1, <2>1, <3>1 DEF Panels!PanelTellsVerdict
    <3>2. CASE r # lastId
      <4>1. SUFFICES ASSUME status \in {"passed", "failed"} PROVE verdict'[lastId] = status
        BY <2>1 DEF Panels!PanelTellsVerdict
      <4>2. lastId \in Panels!Runs
        BY <1>2, <2>5
      <4>3. verdict'[lastId] = verdict[lastId]
        BY <2>4, <3>2, <4>2
      <4> QED BY <1>1, <4>1, <4>3 DEF Panels!PanelTellsVerdict
    <3> QED BY <3>1, <3>2
  <2> QED BY <2>2, <2>3, <2>6, <2>7, <2>8, <2>9 DEF PanelInv
<1>6. ASSUME NEW r \in Panels!Runs, Panels!Store(r) PROVE PanelInv'
  <2>1. UNCHANGED <<status, active, pending, stream, lastId, verdict>>
    BY <1>6 DEF Panels!Store, Panels!panel
  <2>2. /\ exec' = [exec EXCEPT ![r] = "telling"]
        /\ rows' = rows \/ rows' = [rows EXCEPT ![r] = verdict[r]]
    BY <1>6 DEF Panels!Store
  <2>3. PanelTyped' /\ RowsTell'
    BY <1>1, <2>1, <2>2 DEF PanelTyped, RowsTell
  <2>4. Followed' /\ Panels!PanelTellsVerdict' /\ FramesTell'
    BY <1>1, <2>1 DEF Followed, Panels!PanelTellsVerdict, FramesTell, TellsTruth
  <2>5. exec[r] = "storing"
    BY <1>6 DEF Panels!Store
  <2>6. GivenOnce'
    BY <1>1, <2>1, <2>2, <2>5 DEF GivenOnce, PanelTyped
  <2> QED BY <2>3, <2>4, <2>6 DEF PanelInv
<1>7. ASSUME NEW r \in Panels!Runs, Panels!Tell(r) PROVE PanelInv'
  <2>1. UNCHANGED <<status, active, pending, rows, lastId, verdict>>
    BY <1>7 DEF Panels!Tell, Panels!panel
  <2>2. exec[r] = "telling" /\ exec' = [exec EXCEPT ![r] = "over"]
    BY <1>7 DEF Panels!Tell
  <2>3. GivenOnce'
    BY <1>1, <2>1, <2>2 DEF GivenOnce, PanelTyped
  <2>4. Followed' /\ Panels!PanelTellsVerdict' /\ RowsTell'
    BY <1>1, <2>1 DEF Followed, Panels!PanelTellsVerdict, RowsTell
  <2>5. stream' \in [Panels!Runs -> Stream] /\ FramesTell'
    <3>1. CASE UNCHANGED stream
      BY <1>1, <2>1, <3>1 DEF PanelTyped, FramesTell, TellsTruth
    <3>2. CASE Panels!Send(r, "ended", "done", verdict[r])
      <4>1. [event |-> "done", status |-> verdict[r]] \in Frame
        BY <1>1 DEF PanelTyped, Frame
      <4>2. TellsTruth(verdict[r], r)
        BY DEF TellsTruth
      <4> QED BY <1>1, <2>1, <3>2, <4>1, <4>2, SendTells
    <3> QED BY <1>7, <3>1, <3>2 DEF Panels!Tell
  <2>6. PanelTyped'
    BY <1>1, <2>1, <2>2, <2>5 DEF PanelTyped
  <2> QED BY <2>3, <2>4, <2>5, <2>6 DEF PanelInv
<1> QED BY <1>4, <1>5, <1>6, <1>7

LEMMA StepPanel == ASSUME PanelInv, [Panels!Next]_(Panels!vars) PROVE PanelInv'
<1>1. CASE UNCHANGED Panels!vars
  BY <1>1 DEF Panels!vars, PanelInv, PanelTyped, Followed, GivenOnce, RowsTell, FramesTell,
              TellsTruth, Panels!PanelTellsVerdict
<1>2. CASE Panels!Next
  BY <1>2, PanelSteps, StreamSteps, ExecutorSteps DEF Panels!Next
<1> QED BY <1>1, <1>2

(* A panel that says "passed" or "failed" says what the run started last   *)
(* came to, whatever frames were lost, late or broken off and whether or   *)
(* not the row was stored.                                                 *)
THEOREM PanelIsTrue == ClientSpec => []PanelTellsVerdict
<1>1. PanelInv /\ [CopiesGoOn \/ PanelGoesOn]_ClientVars => PanelInv'
  <2>1. [CopiesGoOn \/ PanelGoesOn]_ClientVars => [Panels!Next]_(Panels!vars)
    BY DEF CopiesGoOn, PanelGoesOn, ClientVars, panelVars, Panels!vars
  <2> QED BY <2>1, StepPanel
<1>2. PanelInv => PanelTellsVerdict
  BY DEF PanelInv, PanelTellsVerdict
<1> QED BY <1>1, <1>2, InitPanel, PTL DEF ClientSpec
=============================================================================
