------------------------------ MODULE Browser ------------------------------
(***************************************************************************)
(* The browser client's copies of what the server holds: the cache of      *)
(* TanStack Query, the pages that read it and the mutations that patch or  *)
(* invalidate it when their answers arrive.  Requests are answered in any  *)
(* order.                                                                  *)
(*                                                                         *)
(* There is one case, one suite, one job and one subscription whose own    *)
(* pages are visited, in lists that hold others.  An answer is abstracted  *)
(* to the set of the user's own writes it reflects: what others do to the  *)
(* same rows is left out.  No copy depends on another, so a behaviour      *)
(* follows that of one query.  Left out: the queries no write changes (a   *)
(* version and a diff of two, the visual runs, the actions of the audit    *)
(* log), the preview of the digest, which is fetched by hand, and what the *)
(* server goes on to do by itself after it has answered, such as telling   *)
(* the subscriptions of a run; a verdict is told by a write of its own.    *)
(***************************************************************************)
EXTENDS Integers, FiniteSets

CONSTANTS
  Tours,     \* pages between which a user goes back and forth: one is taken
  MaxWrites  \* bound: mutations of a tour

(* The query keys; invalidating a key reaches those it is a prefix of.     *)
CasesKey == {"cases", "case", "versions", "flakiness"}
SuitesKey == {"suites", "suite"}
JobsKey == {"jobs", "fires"}
TrashKey == {"trashed cases", "trashed suites"}
WebhooksKey == {"webhooks", "deliveries"}
Queries ==
  CasesKey \cup SuitesKey \cup JobsKey \cup TrashKey \cup WebhooksKey
    \cup {"flaky", "recent", "admin", "projects", "digest", "audit", "me"}

Writes == 1..MaxWrites

VARIABLES
  tour,
  page,
  drawer,    \* whether the drawer of the page is open
  view,      \* the query a behaviour follows
  copy,      \* its entry in the cache
  write,     \* the mutations of the tour
  awaited,   \* those the mounted page waits for, the last of each hook
  applied,   \* the server: the writes it has carried out
  excused    \* history: the writes that were acknowledged when the copy
             \* was overtaken (see Overtaken)

vars == <<tour, page, drawer, view, copy, write, awaited, applied, excused>>

(* An entry: what it reflects; old: stale, by age or because it was        *)
(* invalidated; get: the request under way ("none", "sent" or "served"),   *)
(* with what its answer holds once it is served.                           *)
Absent == [has |-> FALSE, data |-> {}, old |-> TRUE, get |-> "none", snap |-> {}]

-----------------------------------------------------------------------------
(* The mutations.  changes: the queries whose answers the handler may      *)
(* change; sets: setQueryData, which makes an entry where there is none; edits:    *)
(* the same, but of an entry that is there; marks: invalidateQueries;      *)
(* drops: removeQueries.                                                   *)

Nothing == [changes |-> {}, sets |-> {}, edits |-> {}, marks |-> {}, drops |-> {}]

(* What shows the outcome of a run.                                        *)
RunViews == {"cases", "case", "flakiness", "flaky", "recent"}

(* The list of projects counts the rows of each, those in the trash too.   *)
UseCreateCase == [Nothing EXCEPT !.changes = {"cases", "projects"}, !.sets = {"cases"}]

(* A result leaves a run of its own, and lists of runs show the title.     *)
UseUpdateCase ==
  [Nothing EXCEPT !.changes = RunViews \cup {"versions"}, !.sets = {"cases", "case"}]

(* Neither the case nor what belongs to it is found any more.              *)
UseDeleteCase ==
  [Nothing EXCEPT !.changes = CasesKey \cup {"flaky", "recent", "trashed cases"},
                  !.sets = {"cases"}]

UseRestoreVersion ==
  [Nothing EXCEPT !.changes = {"cases", "case", "versions", "flaky", "recent"},
                  !.sets = {"cases"}, !.marks = {"versions"}]

UseExecuteCase ==
  [Nothing EXCEPT !.changes = {"recent"}, !.marks = {"recent", "flakiness"}]

(* RunPanel saves the snippet past the hooks.                              *)
SaveSnippet == [Nothing EXCEPT !.changes = {"cases", "case", "versions"}]

(* The executor is through with the run, and the stream tells the panel:   *)
(* it passed or failed, or it is no more than over.                        *)
RunDone ==
  [Nothing EXCEPT !.changes = RunViews, !.edits = {"case"},
                  !.marks = CasesKey \cup {"flaky", "recent"}]

RunErrored == [Nothing EXCEPT !.changes = {"recent"}]

UseCreateSuite ==
  [Nothing EXCEPT !.changes = {"suites", "projects"},
                  !.sets = {"suites"}, !.marks = {"recent"}]

(* A job is listed with the name of its suite.                             *)
UseUpdateSuite ==
  [Nothing EXCEPT !.changes = SuitesKey \cup {"jobs"}, !.sets = SuitesKey]

UseDeleteSuite ==
  [Nothing EXCEPT !.changes = SuitesKey \cup {"trashed suites"},
                  !.sets = {"suites"}, !.drops = {"suite"}]

(* Mutant of UseRunSuite: the cases are forgotten.                         *)
UseRunSuiteAlone ==
  [Nothing EXCEPT !.changes = RunViews, !.marks = {"recent", "suite"}]

UseRunSuite ==
  [Nothing EXCEPT !.changes = RunViews, !.marks = CasesKey \cup {"recent", "suite"}]

UseCreateJob == [Nothing EXCEPT !.changes = {"jobs", "projects"}, !.sets = {"jobs"}]
UseUpdateJob == [Nothing EXCEPT !.changes = {"jobs"}, !.sets = {"jobs"}]
UseDeleteJob ==
  [Nothing EXCEPT !.changes = JobsKey \cup {"projects"}, !.sets = {"jobs"}]

UseRunJob ==
  [Nothing EXCEPT !.changes = {"cases", "case", "recent", "fires"},
                  !.marks = CasesKey \cup {"recent"} \cup JobsKey]

UseRestoreCase ==
  [Nothing EXCEPT !.changes = CasesKey \cup {"flaky", "recent", "trashed cases"},
                  !.marks = TrashKey \cup CasesKey]

UseRestoreSuite ==
  [Nothing EXCEPT !.changes = SuitesKey \cup {"trashed suites"},
                  !.marks = TrashKey \cup SuitesKey]

(* The links of the case go with it; one that has runs is refused.         *)
UsePurgeCase ==
  [Nothing EXCEPT !.changes = SuitesKey \cup {"trashed cases", "projects"},
                  !.marks = TrashKey]

(* The jobs of the suite go with it, and their history.                    *)
UsePurgeSuite ==
  [Nothing EXCEPT !.changes = JobsKey \cup {"trashed suites", "projects"},
                  !.marks = TrashKey]

(* A run is listed with the user who started it, and that user's role.     *)
UseUpdateRole == [Nothing EXCEPT !.changes = {"admin", "recent"}, !.edits = {"admin"}]

(* What the user made or ran stays, without a name.                        *)
UseDeleteUser ==
  [Nothing EXCEPT !.changes = {"admin", "recent", "projects", "cases", "case",
                               "trashed cases", "webhooks"},
                  !.edits = {"admin"}]
UseCreateInvite == [Nothing EXCEPT !.changes = {"admin"}, !.edits = {"admin"}]
UseRevokeInvite == [Nothing EXCEPT !.changes = {"admin"}, !.edits = {"admin"}]

UseCreateWebhook ==
  [Nothing EXCEPT !.changes = {"webhooks", "projects"}, !.marks = WebhooksKey]
UseUpdateWebhook == [Nothing EXCEPT !.changes = {"webhooks"}, !.marks = WebhooksKey]
UseDeleteWebhook ==
  [Nothing EXCEPT !.changes = WebhooksKey \cup {"projects"}, !.marks = WebhooksKey]

(* A subscription is listed with the number of its deliveries.             *)
UseTestWebhook == [Nothing EXCEPT !.changes = WebhooksKey, !.marks = {"deliveries"}]

UseCreateProject == [Nothing EXCEPT !.changes = {"projects"}, !.marks = {"projects"}]
UseRenameProject == [Nothing EXCEPT !.changes = {"projects", "me"}, !.marks = {"projects"}]
UseSwitchProject == [Nothing EXCEPT !.changes = Queries, !.marks = Queries]

UseSendDigest == [Nothing EXCEPT !.changes = {"digest"}, !.marks = {"digest"}]

Hook ==
  [createCase |-> UseCreateCase, updateCase |-> UseUpdateCase, deleteCase |-> UseDeleteCase,
   restoreVersion |-> UseRestoreVersion, saveSnippet |-> SaveSnippet,
   executeCase |-> UseExecuteCase, runDone |-> RunDone, runErrored |-> RunErrored,
   createSuite |-> UseCreateSuite, updateSuite |-> UseUpdateSuite,
   deleteSuite |-> UseDeleteSuite, runSuite |-> UseRunSuite,
   createJob |-> UseCreateJob, updateJob |-> UseUpdateJob, deleteJob |-> UseDeleteJob,
   runJob |-> UseRunJob, restoreCase |-> UseRestoreCase, restoreSuite |-> UseRestoreSuite,
   purgeCase |-> UsePurgeCase, purgeSuite |-> UsePurgeSuite,
   updateRole |-> UseUpdateRole, deleteUser |-> UseDeleteUser,
   createInvite |-> UseCreateInvite, revokeInvite |-> UseRevokeInvite,
   createWebhook |-> UseCreateWebhook, updateWebhook |-> UseUpdateWebhook,
   deleteWebhook |-> UseDeleteWebhook, testWebhook |-> UseTestWebhook,
   createProject |-> UseCreateProject, renameProject |-> UseRenameProject,
   switchProject |-> UseSwitchProject, sendDigest |-> UseSendDigest]

(* Each leaves its row in the audit log, but for the test of a             *)
(* subscription and the end of a run, which the executor writes.           *)
Unaudited == {"testWebhook", "runDone", "runErrored"}
Changes(h) == Hook[h].changes \cup (IF h \in Unaudited THEN {} ELSE {"audit"})

(* The hooks whose answer is a row that is written over the row shown, and *)
(* those that write the same row on the server; the others add a row to a  *)
(* list, or take one out.                                                  *)
SameRow(h) ==
  IF h = "updateCase" THEN {"updateCase", "saveSnippet", "runDone", "runSuite", "runJob"}
  ELSE {h} \cap {"updateSuite", "updateJob", "updateRole"}

-----------------------------------------------------------------------------
(* The pages: what they and their components read, and the controls they   *)
(* offer.  A control calls a hook once the copy it names is shown ("":     *)
(* needs nothing), and is disabled while a call of one of waits that its   *)
(* page has made is pending.  Who may use it is the server's to say.       *)
Control(h, shown, waits) == [hook |-> h, shown |-> shown, waits |-> waits]
Always(h, shown) == Control(h, shown, {})

(* The picker of projects in the frame of every page.                      *)
ProjectPicker ==
  [reads |-> {"projects", "me"}, controls |-> {Always("switchProject", "projects")}]

CaseSaves == {"createCase", "updateCase"}
CaseForm == {Control("createCase", "", CaseSaves), Control("updateCase", "cases", CaseSaves)}

(* One row, or all that are ticked, one after the other.                   *)
BulkDelete == {Always("deleteCase", "cases")}

(* The result is cycled by an update that waits for nothing.               *)
CaseRow ==
  [reads |-> {"flakiness"},
   controls |-> {Always("updateCase", "cases"), Always("deleteCase", "cases")}]

CaseListPage ==
  [reads |-> {"cases", "flaky"} \cup CaseRow.reads,
   controls |-> CaseForm \cup BulkDelete \cup CaseRow.controls]

CaseHeader == {Always("updateCase", "case")}
CaseEditor == {Control("updateCase", "case", {"updateCase"})}
VersionList == [reads |-> {"versions"}, controls |-> {Always("restoreVersion", "versions")}]
FlakinessPanel == {"flakiness"}

(* The panel of runs, whose own state is in RunPanel.                      *)
RunControls ==
  {Control("executeCase", "case", {"executeCase"}), Always("runDone", "case"),
   Always("runErrored", "case"),
   Control("saveSnippet", "case", {"saveSnippet", "executeCase"})}

CaseDetailPage ==
  [reads |-> {"case"} \cup VersionList.reads \cup FlakinessPanel,
   controls |-> CaseHeader \cup CaseEditor \cup VersionList.controls \cup RunControls]

SuiteSaves == {"createSuite", "updateSuite"}
SuiteForm ==
  {Control("createSuite", "", SuiteSaves), Control("updateSuite", "suites", SuiteSaves)}
SuiteRow == {Always("deleteSuite", "suites")}
SuiteListPage == [reads |-> {"suites", "cases"}, controls |-> SuiteForm \cup SuiteRow]

RunAll == {Control("runSuite", "suite", {"runSuite"})}
AddMember == {Control("updateSuite", "suite", {"updateSuite"})}
MemberRow == {Control("updateCase", "cases", {"updateCase"}), Always("updateSuite", "suite")}
SuiteDetailPage ==
  [reads |-> {"suite", "cases"}, controls |-> RunAll \cup AddMember \cup MemberRow]

JobSaves == {"createJob", "updateJob"}
JobForm == {Control("createJob", "suites", JobSaves), Control("updateJob", "jobs", JobSaves)}
JobRow == {Always("runJob", "jobs"), Always("updateJob", "jobs"), Always("deleteJob", "jobs")}
HistoryDrawer == {"fires"}
SchedulerPage ==
  [reads |-> {"jobs", "suites"} \cup HistoryDrawer, controls |-> JobForm \cup JobRow]

TrashRow(kind) ==
  IF kind = "case" THEN {Always("restoreCase", "trashed cases"), Always("purgeCase", "trashed cases")}
  ELSE {Always("restoreSuite", "trashed suites"), Always("purgeSuite", "trashed suites")}
TrashPage == [reads |-> TrashKey, controls |-> UNION {TrashRow(k) : k \in {"case", "suite"}}]

FlakyCasesCard == {"flaky"}
DashboardPage ==
  [reads |-> {"cases", "suites", "recent"} \cup FlakyCasesCard, controls |-> {}]

UserRow == {Always("updateRole", "admin"), Always("deleteUser", "admin")}
InviteRow == {Always("revokeInvite", "admin")}
InviteModal == {Control("createInvite", "", {"createInvite"})}
AdminPage == [reads |-> {"admin"}, controls |-> UserRow \cup InviteRow \cup InviteModal]

AuditLogPage == [reads |-> {"audit"}, controls |-> {}]

HookSaves == {"createWebhook", "updateWebhook"}
WebhookRow ==
  {Always("updateWebhook", "webhooks"), Control("testWebhook", "webhooks", {"testWebhook"}),
   Always("deleteWebhook", "webhooks")}
WebhookModal ==
  {Control("createWebhook", "", HookSaves), Control("updateWebhook", "webhooks", HookSaves)}
DeliveryDrawer == {"deliveries"}
WebhooksPage ==
  [reads |-> {"webhooks"} \cup DeliveryDrawer, controls |-> WebhookRow \cup WebhookModal]

ProjectSaves == {"createProject", "renameProject"}
ProjectForm ==
  {Control("createProject", "", ProjectSaves), Control("renameProject", "projects", ProjectSaves)}
ProjectRow == {Always("switchProject", "projects")}
ProjectsPage == [reads |-> {"projects", "me"}, controls |-> ProjectForm \cup ProjectRow]

DigestPage == [reads |-> {"digest"}, controls |-> {Control("sendDigest", "", {"sendDigest"})}]

(* What is read only while a drawer is open.                               *)
Drawn == HistoryDrawer \cup DeliveryDrawer

Page ==
  [cases |-> CaseListPage, case |-> CaseDetailPage, suites |-> SuiteListPage,
   suite |-> SuiteDetailPage, scheduler |-> SchedulerPage, trash |-> TrashPage,
   dashboard |-> DashboardPage,
   admin |-> AdminPage, audit |-> AuditLogPage,
   webhooks |-> WebhooksPage, projects |-> ProjectsPage, digest |-> DigestPage]

(* A route of the app: its page, in the frame.                             *)
Reads(p) == Page[p].reads \cup ProjectPicker.reads
Controls(p) == Page[p].controls \cup ProjectPicker.controls

ASSUME ToursAssumption == Tours \subseteq SUBSET DOMAIN Page /\ MaxWrites \in Nat

-----------------------------------------------------------------------------
Mounted == view \in Reads(page) /\ (view \in Drawn => drawer)

Refetched(e) == [e EXCEPT !.get = "sent", !.snap = {}]

(* A component that mounts asks for what is not there or is stale, unless  *)
(* it is being asked for already.                                          *)
Asked(e) == IF e.old /\ e.get = "none" THEN Refetched(e) ELSE e
Opened(e, p) == IF view \in Reads(p) \ Drawn THEN Asked(e) ELSE e

NoWrite == [hook |-> "none", at |-> "none", seen |-> {}]

(* A mutation whose answer does not come, carried out or not.              *)
GivenUp(w) ==
  IF w.at = "sent" THEN NoWrite
  ELSE IF w.at = "applied" THEN [w EXCEPT !.at = "lost", !.seen = {}]
  ELSE w

(* The queries of the frame are followed on the tours of their own page.   *)
Init ==
  /\ tour \in Tours
  /\ page \in tour /\ drawer = FALSE
  /\ view \in UNION {Page[p].reads : p \in tour}
  /\ copy = Opened(Absent, page)
  /\ write = [i \in Writes |-> NoWrite] /\ awaited = {}
  /\ applied = {} /\ excused = {}

Visit(p) ==
  /\ p \in tour \ {page}
  /\ page' = p /\ drawer' = FALSE /\ awaited' = {}
  /\ copy' = Opened(copy, p)
  /\ UNCHANGED <<tour, view, write, applied, excused>>

(* The drawer with the history of the job or of the subscription.          *)
OpenDrawer ==
  /\ view \in Drawn \cap Reads(page) /\ ~drawer
  /\ drawer' = TRUE
  /\ copy' = Asked(copy)
  /\ UNCHANGED <<tour, page, view, write, awaited, applied, excused>>

CloseDrawer ==
  /\ drawer
  /\ drawer' = FALSE
  /\ UNCHANGED <<tour, page, view, copy, write, awaited, applied, excused>>

Acked == {i \in Writes : write[i].at = "acked"}

(* The acknowledged writes a copy is left without: by an older answer that *)
(* arrives late, a refetch that fails, or one whose error is taken for an  *)
(* empty answer.                                                           *)
Overtaken(data) == Acked \ data

(* The GET on the server (the two of the admin page are taken together);   *)
(* its answer; or an error, after the one retry.                           *)
Serve ==
  /\ copy.get = "sent"
  /\ copy' = [copy EXCEPT !.get = "served", !.snap = applied]
  /\ UNCHANGED <<tour, page, drawer, view, write, awaited, applied, excused>>

Land ==
  /\ copy.get = "served"
  /\ copy' = [has |-> TRUE, data |-> copy.snap, old |-> FALSE, get |-> "none", snap |-> {}]
  /\ excused' = excused \cup Overtaken(copy.snap)
  /\ UNCHANGED <<tour, page, drawer, view, write, awaited, applied>>

GetFails ==
  /\ copy.get # "none" /\ view # "recent"
  /\ copy' = [copy EXCEPT !.get = "none", !.snap = {}]
  /\ excused' = excused \cup Overtaken(copy.data)
  /\ UNCHANGED <<tour, page, drawer, view, write, awaited, applied>>

(* The writes that are not in the answer made up for an error: no run is   *)
(* recent, and there are no invites next to the users.                     *)
Blanked ==
  CASE view = "recent" -> Writes
    [] view = "admin" -> {i \in Writes : write[i].hook \in {"createInvite", "revokeInvite"}}
    [] OTHER -> {}

(* The error of a fetch that fails soft lands as a fresh answer.           *)
FailsSoft ==
  /\ copy.get = "served" /\ view \in {"recent", "admin"}
  /\ LET data == copy.snap \ Blanked
     IN  /\ copy' = [has |-> TRUE, data |-> data, old |-> FALSE, get |-> "none", snap |-> {}]
         /\ excused' = excused \cup Overtaken(data)
  /\ UNCHANGED <<tour, page, drawer, view, write, awaited, applied>>

(* staleTime has passed.                                                   *)
Age ==
  /\ copy.has /\ ~copy.old
  /\ copy' = [copy EXCEPT !.old = TRUE]
  /\ UNCHANGED <<tour, page, drawer, view, write, awaited, applied, excused>>

(* The page is loaded anew: by the user, or by the interceptor of lib/http *)
(* after a 401.                                                            *)
Reload ==
  /\ copy' = Opened(Absent, page) /\ drawer' = FALSE
  /\ write' = [i \in Writes |-> GivenUp(write[i])] /\ awaited' = {}
  /\ UNCHANGED <<tour, page, view, applied, excused>>

-----------------------------------------------------------------------------
(* The steps of a mutation.  Those that leave the copy alone are left out. *)

Concerns(h) ==
  view \in Changes(h) \cup Hook[h].sets \cup Hook[h].edits \cup Hook[h].marks \cup Hook[h].drops

(* What disables a control of the page while it is pending.                *)
Waited == UNION {c.waits : c \in Controls(page)}

Act(c) ==
  /\ Concerns(c.hook) /\ (c.shown = view => copy.has)
  /\ \A i \in awaited : write[i].hook \notin c.waits
  /\ \E i \in Writes :
       /\ write[i] = NoWrite
       /\ write' = [write EXCEPT ![i] = [hook |-> c.hook, at |-> "sent", seen |-> {}]]
       /\ awaited' =
            {j \in awaited : write[j].hook # c.hook} \cup (IF c.hook \in Waited THEN {i} ELSE {})
  /\ UNCHANGED <<tour, page, drawer, view, copy, applied, excused>>

(* The server carries it out and answers with the row as it is now.  To    *)
(* restore a version is refused to everyone: the guard of the route reads  *)
(* a parameter that its path does not have.                                *)
Apply(i) ==
  /\ write[i].at = "sent" /\ write[i].hook # "restoreVersion"
  /\ applied' = applied \cup {i}
  /\ write' = [write EXCEPT ![i].at = "applied", ![i].seen = applied']
  /\ UNCHANGED <<tour, page, drawer, view, copy, awaited, excused>>

(* It is refused, or its answer is lost: the user sees an error.           *)
ActFails(i) ==
  /\ write[i].at \in {"sent", "applied"}
  /\ write' = [write EXCEPT ![i] = GivenUp(@)]
  /\ awaited' = awaited \ {i}
  /\ UNCHANGED <<tour, page, drawer, view, copy, applied, excused>>

(* What the copy reflects once the row that answers write i is in it.      *)
Patched(i) ==
  LET h == write[i].hook
      same == {j \in Writes : write[j].hook \in SameRow(h)}
      single == {j \in same : write[j].hook \notin {"runSuite", "runJob"}}
  IN  IF view \in {"case", "suite"} /\ view \in Hook[h].sets
      THEN write[i].seen
      ELSE (copy.data \ (same \ write[i].seen)) \cup (single \cap write[i].seen) \cup {i}

Patches(h) == view \in Hook[h].sets \/ (view \in Hook[h].edits /\ copy.has)

AfterPatch(i) ==
  LET h == write[i].hook
  IN  IF view \in Hook[h].drops THEN Absent
      ELSE IF Patches(h) THEN [copy EXCEPT !.has = TRUE, !.old = FALSE, !.data = Patched(i)]
      ELSE copy

(* Mutant of Marked: what is mounted is not refetched.                     *)
MarkedOnly(e) == [e EXCEPT !.old = TRUE]

(* invalidateQueries: what is mounted is asked for again; a request under  *)
(* way is given up for that only if there is something to show meanwhile.  *)
Marked(e) ==
  IF Mounted /\ (e.has \/ e.get = "none") THEN [Refetched(e) EXCEPT !.old = TRUE]
  ELSE [e EXCEPT !.old = TRUE]

(* onSuccess, whether or not the page is still mounted.                    *)
Answer(i) ==
  /\ write[i].at = "applied"
  /\ LET h == write[i].hook
     IN  /\ copy' = IF view \in Hook[h].marks THEN Marked(AfterPatch(i)) ELSE AfterPatch(i)
         /\ excused' = IF Patches(h) THEN excused \cup Overtaken(Patched(i)) ELSE excused
  /\ write' = [write EXCEPT ![i].at = "acked", ![i].seen = {}]
  /\ awaited' = awaited \ {i}
  /\ UNCHANGED <<tour, page, drawer, view, applied>>

Next ==
  \/ \E p \in tour : Visit(p)
  \/ Serve \/ Land \/ GetFails \/ FailsSoft \/ Age \/ Reload
  \/ OpenDrawer \/ CloseDrawer
  \/ \E c \in Controls(page) : Act(c)
  \/ \E i \in Writes : Apply(i) \/ ActFails(i) \/ Answer(i)

Spec == Init /\ [][Next]_vars

(* The server answers.                                                     *)
Fairness == WF_vars(Serve) /\ WF_vars(Land)
FairSpec == Spec /\ Fairness

-----------------------------------------------------------------------------
(* The copies a hook does not touch though their rows have changed: they   *)
(* keep what they showed until their staleTime has passed.                 *)
Forgets(h) ==
  {"audit"} \cup
    CASE h \in {"createCase", "createSuite", "createJob", "createWebhook", "deleteWebhook"}
           -> {"projects"}
      [] h = "updateCase" -> {"versions", "flakiness", "flaky", "recent"}
      [] h = "saveSnippet" -> {"cases", "case", "versions"}
      [] h = "deleteCase"
           -> (CasesKey \ {"cases"}) \cup {"flaky", "recent", "trashed cases"}
      [] h = "updateSuite" -> {"jobs"}
      [] h = "deleteSuite" -> {"trashed suites"}
      [] h = "runSuite" -> {"flaky"}
      [] h = "deleteJob" -> {"fires", "projects"}
      [] h = "restoreCase" -> {"flaky", "recent"}
      [] h = "purgeCase" -> SuitesKey \cup {"projects"}
      [] h = "purgeSuite" -> JobsKey \cup {"projects"}
      [] h \in {"runErrored", "updateRole"} -> {"recent"}
      [] h = "deleteUser"
           -> {"recent", "projects", "cases", "case", "trashed cases", "webhooks"}
      [] h = "testWebhook" -> {"webhooks"}
      [] h = "renameProject" -> {"me"}
      [] OTHER -> {}

(* Write i is acknowledged, has changed the rows behind the copy, which is *)
(* one its hook sees to, and was not overtaken: a copy that was shows what *)
(* overtook it, as fresh, until its staleTime has passed.                  *)
Owed(i) ==
  /\ i \in Acked \ excused
  /\ view \in Changes(write[i].hook) \ Forgets(write[i].hook)

(* A copy that counts as fresh, with no request under way to replace it,   *)
(* holds what the user did, but for the copies the hook forgets and the    *)
(* writes it was overtaken without: a page that is opened with it shows    *)
(* the user's own work.  hooks.ts of each feature: onSuccess.               *)
OwnWritesShow ==
  copy.has /\ ~copy.old /\ copy.get = "none" => \A i \in Writes : Owed(i) => i \in copy.data

Behind(i) == Owed(i) /\ Mounted /\ copy.has /\ i \notin copy.data

(* A page that stays open comes to show it too, with the same exemptions.  *)
OpenPageCatchesUp == \A i \in Writes : Behind(i) ~> ~Behind(i)
=============================================================================
