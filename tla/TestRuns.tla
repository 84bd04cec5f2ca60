------------------------------ MODULE TestRuns ------------------------------
(***************************************************************************)
(* The life of a test run: utils/executor.js, which runs a case in a child *)
(* process, the routes that write test_runs (routes/execution.js,          *)
(* routes/runs.js, the result shortcut of routes/testCases.js and "run     *)
(* all" of routes/testSuites.js), and the event streams of                 *)
(* utils/runStream.js, over the tables test_runs and test_cases.           *)
(*                                                                         *)
(* A handler is one action per stretch of code between two awaits.  The    *)
(* emitter is process-local: only the streams open in the process that     *)
(* runs the child hear of it.  A case has a snippet and is not in the      *)
(* trash; no route deletes a row of test_runs and its foreign key keeps    *)
(* its case, so executeCase always finds both.                             *)
(***************************************************************************)
EXTENDS Integers, Sequences

CONSTANTS
  Cases,
  Links,       \* the member cases of the suite that is run, in row order
  Replicas,    \* API processes
  Clients,     \* browsers that watch a run
  MaxRuns,     \* ids the test_runs sequence can hand out
  Budget,      \* how many times each kind of disturbance may happen
  NoRow,       \* no row has this id
  NoExecution, \* nobody executes this run
  NoStream     \* the client has no stream open

Runs == 1..MaxRuns
Verdicts == {"passed", "failed", "errored"}
Results == {"not_run", "passed", "failed"}      \* of a case: its "pill"
Statuses == Results \cup Verdicts \cup {"running"}
Null == 0    \* SQL NULL in finished_at; instants are the ordinals 1, 2, ...

Row == [case : Cases, status : Statuses, finished : Nat]

(* One call of finalize: the verdict, finished_at as it took it, and the   *)
(* statement it is at; it writes a pill only if the verdict is about the   *)
(* case.                                                                   *)
Finalize ==
  [verdict : Verdicts, finished : Nat, at : {"row", "done"}]
    \cup [verdict : Verdicts \ {"errored"}, finished : Nat, at : {"pill"}]

(* One call of executeCase.  alive: the child may still send events;       *)
(* erred: it has sent 'error'; finished: the guard variable of the code;   *)
(* trouble (history): a statement of finalize has failed.                  *)
Execution == [by : Replicas, at : {"queued", "child", "settled", "rejected", "lost"},
              alive : BOOLEAN, erred : BOOLEAN, finished : BOOLEAN,
              trouble : BOOLEAN, calls : SUBSET Finalize]

(* GET /runs/:id/stream: status is what the client was told last.          *)
Stream == [run : Runs, by : Replicas, at : {"opening", "watching", "closed"},
           status : Statuses]

(* PUT .../runs/:runId between its read and its write, and "run all"       *)
(* between its two writes.  Which process serves them matters only when it *)
(* dies.                                                                   *)
Put == [run : Runs, seen : Statuses, force : BOOLEAN, status : Statuses,
        finished : Nat]
SuiteRun == [result : {"passed", "failed"}, finished : Nat]

(* What happens a bounded number of times: each kind is bounded by itself, *)
(* and "any" bounds their sum.                                             *)
Disturbances == {"put", "suite", "shortcut", "stream", "fault", "crash", "any"}

ASSUME SetsAssumption == Cases # {} /\ Replicas # {} /\ Links \in Seq(Cases)
ASSUME BoundAssumption == MaxRuns \in Nat /\ Budget \in [Disturbances -> Nat]
ASSUME MarkAssumption ==
  /\ NoRow \notin Row
  /\ NoExecution \notin Execution
  /\ NoStream \notin Stream

VARIABLES
  rows,      \* test_runs
  lastId,    \* its id sequence
  pill,      \* test_cases.result
  clock,     \* how many finished_at instants have been taken
  exec,      \* executeCase, per run
  streams,   \* what each client has open
  puts,      \* finish requests in flight
  suites,    \* "run all" requests in flight
  left,      \* what is left of Budget
  dones,     \* history: 'done' events published about a run
  recorded,  \* history: the verdict the executor stored in the row
  pillBy     \* history: the run whose executor wrote the pill last, or Null

vars == <<rows, lastId, pill, clock, exec, streams, puts, suites, left,
          dones, recorded, pillBy>>

history == <<dones, recorded, pillBy>>
requests == <<puts, suites>>

-----------------------------------------------------------------------------
Stored(r) == rows[r] # NoRow
Executed(r) == exec[r] # NoExecution

Spend(what) ==
  /\ left[what] > 0 /\ left["any"] > 0
  /\ left' = [d \in Disturbances |->
                IF d \in {what, "any"} THEN left[d] - 1 ELSE left[d]]

Written(row, status, finished) ==
  [row EXCEPT !.status = status, !.finished = finished]

(* Postgres hands out the next ids, one per case of the sequence cs.       *)
Insert(cs, status, finished) ==
  /\ lastId + Len(cs) <= MaxRuns
  /\ lastId' = lastId + Len(cs)
  /\ rows' = [r \in Runs |->
       IF r \in (lastId + 1)..(lastId + Len(cs))
       THEN [case |-> cs[r - lastId], status |-> status, finished |-> finished]
       ELSE rows[r]]

(* Mutant of Finalized: the terminal list of Phase 7.                      *)
FinalizedButErrored(status) == status \in {"passed", "failed"}

(* TERMINAL_STATUSES: what PUT does not overwrite without force.           *)
Finalized(status) == status \in Verdicts

(* The statuses for which PUT sets finished_at if it was null.             *)
Stamps(status) == status \notin {"not_run", "running"}

(* Mutant of CaseResult: the verdict is copied as it is.                   *)
CaseResultAsIs(verdict) == verdict

(* caseResultFromRunStatus: an errored run says nothing about the case.    *)
CaseResult(verdict) == IF verdict = "errored" THEN "none" ELSE verdict

(* How an exit of the child reads.  failures is 0 too when result.json is  *)
(* missing or does not parse.                                              *)
Verdict(code, failures) ==
  IF code # 0 THEN "errored" ELSE IF failures > 0 THEN "failed" ELSE "passed"

-----------------------------------------------------------------------------
Init ==
  /\ rows = [r \in Runs |-> NoRow]
  /\ lastId = 0
  /\ pill = [c \in Cases |-> "not_run"]
  /\ clock = 0
  /\ exec = [r \in Runs |-> NoExecution]
  /\ streams = [k \in Clients |-> NoStream]
  /\ puts = {} /\ suites = {}
  /\ left = Budget
  /\ dones = [r \in Runs |-> 0]
  /\ recorded = [r \in Runs |-> "none"]
  /\ pillBy = [c \in Cases |-> Null]

-----------------------------------------------------------------------------
(* Rows appear.                                                            *)

(* POST /test-cases/:id/runs                                               *)
Start(c) ==
  /\ Insert(<<c>>, "not_run", Null)
  /\ UNCHANGED <<pill, clock, exec, streams, requests, left, history>>

(* POST /test-cases/:id/execute: the row, then executeCase by setImmediate *)
Execute(p, c) ==
  /\ Insert(<<c>>, "running", Null)
  /\ exec' = [exec EXCEPT ![lastId + 1] =
       [by |-> p, at |-> "queued", alive |-> FALSE, erred |-> FALSE,
        finished |-> FALSE, trouble |-> FALSE, calls |-> {}]]
  /\ UNCHANGED <<pill, clock, streams, requests, left, history>>

(* PUT /test-cases/:id with a result: the case and a new run together.     *)
Shortcut(c, result) ==
  /\ Spend("shortcut")
  /\ Insert(<<c>>, result, IF result = "not_run" THEN Null ELSE clock + 1)
  /\ clock' = IF result = "not_run" THEN clock ELSE clock + 1
  /\ pill' = [pill EXCEPT ![c] = result]
  /\ pillBy' = [pillBy EXCEPT ![c] = Null]
  /\ UNCHANGED <<exec, streams, requests, dones, recorded>>

(* POST /test-suites/:id/run: first the pills of all members ...           *)
RunSuite(result) ==
  /\ Spend("suite")
  /\ clock' = clock + 1
  /\ LET members == {Links[i] : i \in DOMAIN Links}
     IN  /\ pill' = [c \in Cases |-> IF c \in members THEN result ELSE pill[c]]
         /\ pillBy' = [c \in Cases |-> IF c \in members THEN Null ELSE pillBy[c]]
  /\ suites' = suites \cup {[result |-> result, finished |-> clock + 1]}
  /\ UNCHANGED <<rows, lastId, exec, streams, puts, dones, recorded>>

(* ... then their runs, best effort: a failure is swallowed.               *)
RunSuiteRows(s) ==
  /\ suites' = suites \ {s}
  /\ \/ Insert(Links, s.result, s.finished) /\ UNCHANGED left
     \/ Spend("fault") /\ UNCHANGED <<rows, lastId>>
  /\ UNCHANGED <<pill, clock, exec, streams, puts, history>>

-----------------------------------------------------------------------------
(* PUT /test-cases/:id/runs/:runId                                         *)

(* The handler reads the row, refuses a finalized one unless forced, and   *)
(* decides what it will write; force is kept only if it was needed.        *)
PutRead(r, status, force) ==
  /\ Stored(r)
  /\ force \/ ~Finalized(rows[r].status)
  /\ Spend("put")
  /\ LET stamp == Stamps(status) /\ rows[r].finished = Null
     IN  /\ clock' = IF stamp THEN clock + 1 ELSE clock
         /\ puts' = puts \cup {[run |-> r, seen |-> rows[r].status, status |-> status,
                                force |-> force /\ Finalized(rows[r].status),
                                finished |-> IF stamp THEN clock + 1 ELSE Null]}
  /\ UNCHANGED <<rows, lastId, pill, exec, streams, suites, history>>

(* The transaction writes by id; finished_at only if it was decided above. *)
PutWrite(q) ==
  /\ puts' = puts \ {q}
  /\ \/ /\ rows' = [rows EXCEPT ![q.run] = Written(@, q.status,
                      IF q.finished = Null THEN @.finished ELSE q.finished)]
        /\ UNCHANGED left
     \/ Spend("fault") /\ UNCHANGED rows
  /\ UNCHANGED <<lastId, pill, clock, exec, streams, suites, history>>

-----------------------------------------------------------------------------
(* executeCase in process exec[r].by                                       *)

(* Mutant of Watches: one side keys the channel by number, the other by    *)
(* string.                                                                 *)
WatchesOtherKey(s, p, r) == FALSE

Watches(s, p, r) == s.at = "watching" /\ s.by = p /\ s.run = r

Ended(s, verdict) == [s EXCEPT !.at = "closed", !.status = verdict]

(* runStream.emit(r, 'done', verdict) in process p: every stream that is   *)
(* subscribed there is told and ended.                                     *)
Publish(p, r, verdict) ==
  /\ dones' = [dones EXCEPT ![r] = @ + 1]
  /\ streams' = [k \in Clients |->
       IF streams[k] # NoStream /\ Watches(streams[k], p, r)
       THEN Ended(streams[k], verdict)
       ELSE streams[k]]

(* The row is there, the spec file is written, the child is spawned.       *)
Spawn(r) ==
  /\ Executed(r) /\ exec[r].at = "queued"
  /\ exec' = [exec EXCEPT ![r] = [@ EXCEPT !.at = "child", !.alive = TRUE]]
  /\ UNCHANGED <<rows, lastId, pill, clock, streams, requests, left, history>>

(* The query, mkdir, writeFile or spawn throws: the promise rejects and    *)
(* the catch of the route publishes, without touching the row.             *)
Reject(r) ==
  /\ Executed(r) /\ exec[r].at = "queued"
  /\ Spend("fault")
  /\ exec' = [exec EXCEPT ![r].at = "rejected"]
  /\ Publish(exec[r].by, r, "errored")
  /\ UNCHANGED <<rows, lastId, pill, clock, requests, recorded, pillBy>>

(* Mutant of MayFinish: no guard variable.                                 *)
MayFinishAlways(e) == TRUE

(* "if (finished) return" of both handlers                                 *)
MayFinish(e) == ~e.finished

(* Mutant of FirstStatement: a run that could not run is not stored.       *)
FirstStatementOfVerdict(verdict) == IF verdict = "errored" THEN "done" ELSE "row"

FirstStatement(verdict) == "row"

(* finalize is called: it takes finished_at at once.                       *)
Closing(e, verdict) ==
  [e EXCEPT !.finished = TRUE,
            !.calls = @ \cup {[verdict |-> verdict, finished |-> clock + 1,
                               at |-> FirstStatement(verdict)]}]

(* A handler of the child: event is the execution without finalize.        *)
Finish(r, event, verdict) ==
  /\ exec' = [exec EXCEPT ![r] =
       IF MayFinish(@) THEN Closing(event, verdict) ELSE event]
  /\ clock' = IF MayFinish(exec[r]) THEN clock + 1 ELSE clock
  /\ UNCHANGED <<rows, lastId, pill, streams, requests, left, history>>

(* 'error': the spawn failed, or a signal could not be sent.  An 'exit'    *)
(* may follow or not.                                                      *)
ErrorEvent(r) ==
  /\ Executed(r) /\ exec[r].alive /\ ~exec[r].erred
  /\ \E exitFollows \in BOOLEAN :
       Finish(r, [exec[r] EXCEPT !.erred = TRUE, !.alive = exitFollows], "errored")

ExitEvent(r) ==
  /\ Executed(r) /\ exec[r].alive
  /\ \E code \in {0, 1}, failures \in {0, 1} :
       Finish(r, [exec[r] EXCEPT !.alive = FALSE], Verdict(code, failures))

Moved(e, call, at) ==
  [e EXCEPT !.calls = (@ \ {call}) \cup {[call EXCEPT !.at = at]}]

MoveCall(r, call, at) == exec' = [exec EXCEPT ![r] = Moved(@, call, at)]

(* finalize: the row, whatever its status is by now (what it reads first   *)
(* only gives the duration) ...                                            *)
StoreRow(r, call) ==
  /\ call.at = "row"
  /\ rows' = [rows EXCEPT ![r] = Written(@, call.verdict, call.finished)]
  /\ recorded' = [recorded EXCEPT ![r] = call.verdict]
  /\ MoveCall(r, call, IF CaseResult(call.verdict) = "none" THEN "done" ELSE "pill")
  /\ UNCHANGED <<lastId, pill, clock, streams, requests, left, dones, pillBy>>

(* ... then the pill of its case ...                                       *)
StorePill(r, call) ==
  /\ call.at = "pill"
  /\ pill' = [pill EXCEPT ![rows[r].case] = CaseResult(call.verdict)]
  /\ pillBy' = [pillBy EXCEPT ![rows[r].case] = r]
  /\ MoveCall(r, call, "done")
  /\ UNCHANGED <<rows, lastId, clock, streams, requests, left, dones, recorded>>

(* Mutant of AfterFault: each statement is in a try of its own.            *)
AfterFaultNext(call) == IF call.at = "row" THEN "pill" ELSE "done"

(* Mutant of AfterFault: the publication is inside the try.                *)
AfterFaultReturn(call) == "none"

AfterFault(call) == "done"

Troubled(e, call) ==
  [e EXCEPT !.trouble = TRUE,
            !.calls = (@ \ {call}) \cup {[call EXCEPT !.at = at] :
                                           at \in {AfterFault(call)} \ {"none"}}]

(* ... the first failure ends both and is logged ...                       *)
StoreFails(r, call) ==
  /\ call.at \in {"row", "pill"}
  /\ Spend("fault")
  /\ exec' = [exec EXCEPT ![r] = Troubled(@, call)]
  /\ UNCHANGED <<rows, lastId, pill, clock, streams, requests, history>>

Resolved(e, call) == [e EXCEPT !.at = "settled", !.calls = @ \ {call}]

(* ... and 'done' is published in every case.                              *)
Settle(r, call) ==
  /\ call.at = "done"
  /\ exec' = [exec EXCEPT ![r] = Resolved(@, call)]
  /\ Publish(exec[r].by, r, call.verdict)
  /\ UNCHANGED <<rows, lastId, pill, clock, requests, left, recorded, pillBy>>

Finalizing(r) ==
  /\ Executed(r)
  /\ \E call \in exec[r].calls :
       StoreRow(r, call) \/ StorePill(r, call) \/ StoreFails(r, call) \/ Settle(r, call)

-----------------------------------------------------------------------------
(* GET /runs/:id/stream                                                    *)

(* The SELECT of the handler                                               *)
Open(k, p, r) ==
  /\ streams[k] = NoStream
  /\ Stored(r)
  /\ Spend("stream")
  /\ streams' = [streams EXCEPT ![k] =
       [run |-> r, by |-> p, at |-> "opening", status |-> rows[r].status]]
  /\ UNCHANGED <<rows, lastId, pill, clock, exec, requests, history>>

(* Its continuation: the snapshot, then the end or the subscription.       *)
Subscribe(k) ==
  /\ streams[k] # NoStream /\ streams[k].at = "opening"
  /\ streams' = [streams EXCEPT ![k].at =
       IF streams[k].status \in Verdicts THEN "closed" ELSE "watching"]
  /\ UNCHANGED <<rows, lastId, pill, clock, exec, requests, left, history>>

(* The client goes away.                                                   *)
Leave(k) ==
  /\ streams[k] # NoStream
  /\ streams' = [streams EXCEPT ![k] = NoStream]
  /\ UNCHANGED <<rows, lastId, pill, clock, exec, requests, left, history>>

-----------------------------------------------------------------------------
Dead(e) ==
  [e EXCEPT !.alive = FALSE, !.calls = {},
            !.at = IF @ \in {"queued", "child"} THEN "lost" ELSE @]

(* A process stops and is started again: its executions, streams and       *)
(* requests are gone (any of those in flight may have been its own).  A    *)
(* throw of writeArtifact in the 'exit' handler ends here too: it is an    *)
(* unhandled rejection.                                                    *)
Crash(p) ==
  /\ Spend("crash")
  /\ exec' = [r \in Runs |->
       IF Executed(r) /\ exec[r].by = p
       THEN Dead(exec[r])
       ELSE exec[r]]
  /\ streams' = [k \in Clients |->
       IF streams[k] # NoStream /\ streams[k].by = p THEN NoStream ELSE streams[k]]
  /\ puts' \in SUBSET puts
  /\ suites' \in SUBSET suites
  /\ UNCHANGED <<rows, lastId, pill, clock, history>>

Requests ==
  \/ \E c \in Cases : Start(c)
  \/ \E p \in Replicas, c \in Cases : Execute(p, c)
  \/ \E c \in Cases, result \in Results : Shortcut(c, result)
  \/ \E result \in {"passed", "failed"} : RunSuite(result)
  \/ \E s \in suites : RunSuiteRows(s)
  \/ \E r \in Runs, status \in Statuses, force \in BOOLEAN :
       PutRead(r, status, force)
  \/ \E q \in puts : PutWrite(q)

Executor(r) == Spawn(r) \/ Reject(r) \/ ErrorEvent(r) \/ ExitEvent(r) \/ Finalizing(r)

Watching ==
  \/ \E k \in Clients, p \in Replicas, r \in Runs : Open(k, p, r)
  \/ \E k \in Clients : Subscribe(k) \/ Leave(k)

Next ==
  \/ Requests
  \/ \E r \in Runs : Executor(r)
  \/ Watching
  \/ \E p \in Replicas : Crash(p)

Spec == Init /\ [][Next]_vars

(* setImmediate and the database answer; a child ends some time (the code  *)
(* has no timeout for it); the statements of finalize follow each other.   *)
FairSpec == Spec /\ \A r \in Runs :
  /\ WF_vars(Spawn(r))
  /\ WF_vars(ErrorEvent(r) \/ ExitEvent(r))
  /\ WF_vars(Finalizing(r))

-----------------------------------------------------------------------------
Unsettled(r) == Executed(r) /\ exec[r].at \in {"queued", "child"}

(* The tables, executions, streams and requests keep their shape.          *)
TypeOK ==
  /\ rows \in [Runs -> Row \cup {NoRow}]
  /\ lastId \in 0..MaxRuns
  /\ pill \in [Cases -> Results]
  /\ clock \in Nat
  /\ exec \in [Runs -> Execution \cup {NoExecution}]
  /\ streams \in [Clients -> Stream \cup {NoStream}]
  /\ puts \subseteq Put
  /\ suites \subseteq SuiteRun
  /\ left \in [Disturbances -> Nat]
  /\ dones \in [Runs -> Nat]
  /\ recorded \in [Runs -> Verdicts \cup {"none"}]
  /\ pillBy \in [Cases -> Runs \cup {Null}]

(* However the 'error' and 'exit' events of a child fall, its run is       *)
(* finalized once: at most one 'done' goes out about a run.                *)
DoneOnce == \A r \in Runs : dones[r] <= 1

(* docs/test-execution.md: the verdict is written to the run, and 'done'   *)
(* emitted after it.  However the events of the child, the statements of   *)
(* finalize, their failures and the death of a process fall, what happens  *)
(* to an execution are steps of RunContract: nothing is stored once the    *)
(* end was told, nor told or stored of an execution that was lost.         *)
Standing(e) ==
  IF e = NoExecution THEN "unstarted"
  ELSE CASE e.at \in {"queued", "child"} -> "underway"
         [] e.at \in {"rejected", "settled"} -> "ended"
         [] OTHER -> "lost"

Contract == INSTANCE RunContract WITH
  standing <- [r \in Runs |-> Standing(exec[r])], stored <- recorded, told <- dones
KeepsRunContract == Contract!Spec

(* What a client was told when its stream was closed is what the table     *)
(* says: unless a statement of the executor failed or a PUT came in, the   *)
(* row had been stored before the end was published.                       *)
ToldIsTrue ==
  \A k \in Clients :
    LET s == streams[k]
        told == s # NoStream /\ s.at = "closed"
    IN  told /\ Executed(s.run) /\ exec[s.run].at = "settled"
          /\ ~exec[s.run].trouble /\ left.put = Budget.put
        => rows[s.run].status = s.status

(* The pill an executor left on a case is the verdict the same executor    *)
(* stored in the row of its run before: never a crash of the runner, never *)
(* a verdict whose row could not be written.                               *)
PillHasRecord ==
  \A c \in Cases : pillBy[c] # Null => recorded[pillBy[c]] = pill[c]

(* Every run with a verdict has a finish time, whichever of the six        *)
(* writers (executor, PUT, forced or stale PUT, shortcut, suite) set it.   *)
TerminalIsStamped ==
  \A r \in Runs : Stored(r) /\ rows[r].status \in Verdicts => rows[r].finished # Null

(* Once a run has a verdict, nobody executes it and every request in       *)
(* flight has seen the verdict, only a forced PUT can change it: a late or *)
(* repeated finish of a flaky client cannot.                               *)
Settled(r) ==
  /\ Stored(r) /\ rows[r].status \in Verdicts
  /\ ~Unsettled(r)
  /\ \A q \in puts : q.run = r => q.seen \in Verdicts

SettledIsFinal ==
  [][\A r \in Runs : Settled(r) /\ rows'[r].status # rows[r].status =>
       \E q \in puts : q.run = r /\ q.force]_vars

(* Every execution ends in a published 'done', or its process died.        *)
ExecutionEnds == \A r \in Runs : Unsettled(r) ~> ~Unsettled(r)

(* A client that watches a run in the process that executes it does not    *)
(* wait for ever, whatever fails in the executor.                          *)
Waits(k, r) ==
  /\ streams[k] # NoStream /\ streams[k].at = "watching" /\ streams[k].run = r
  /\ Unsettled(r) /\ exec[r].by = streams[k].by

WatcherIsReleased ==
  \A k \in Clients, r \in Runs : Waits(k, r) ~>
    (streams[k] = NoStream \/ streams[k].at # "watching" \/ streams[k].run # r)
=============================================================================
