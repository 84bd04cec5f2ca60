----------------------------- MODULE RunProofs ------------------------------
(* Theorems about TestRuns for every value of its constants.               *)
EXTENDS TestRuns, TLAPS

(* What runs refer to is in the table, and the sequence is ahead of it.    *)
Rooted ==
  /\ \A r \in Runs : Stored(r) => r <= lastId
  /\ \A r \in Runs : Executed(r) => Stored(r)
  /\ \A q \in puts : Stored(q.run)

WellFormed == TypeOK /\ Rooted

LEMMA SpendType ==
  ASSUME TypeOK, NEW what \in Disturbances, Spend(what)
  PROVE  left' \in [Disturbances -> Nat]
BY DEF TypeOK, Spend, Disturbances

(* What an INSERT does: ids above the sequence appear, nothing else moves. *)
LEMMA InsertRows ==
  ASSUME TypeOK, Rooted, NEW cs \in Seq(Cases), NEW status \in Statuses,
         NEW finished \in Nat, Insert(cs, status, finished)
  PROVE  /\ rows' \in [Runs -> Row \cup {NoRow}]
         /\ lastId' \in 0..MaxRuns /\ lastId <= lastId'
         /\ \A r \in Runs : Stored(r) => rows'[r] = rows[r]
         /\ \A r \in Runs : Stored(r)' => r <= lastId'
<1> DEFINE new == (lastId + 1)..(lastId + Len(cs))
<1>1. Len(cs) \in Nat /\ lastId \in Nat /\ MaxRuns \in Nat
  BY BoundAssumption DEF TypeOK
<1>2. ASSUME NEW r \in Runs, r \in new
      PROVE  [case |-> cs[r - lastId], status |-> status, finished |-> finished] \in Row
  <2>1. r - lastId \in 1..Len(cs)
    BY <1>1, <1>2 DEF Runs
  <2>2. cs[r - lastId] \in Cases
    BY <2>1
  <2> QED BY <2>2 DEF Row
<1>3. lastId' = lastId + Len(cs) /\ lastId + Len(cs) <= MaxRuns
  BY DEF Insert
<1>4. rows' = [r \in Runs |->
        IF r \in new
        THEN [case |-> cs[r - lastId], status |-> status, finished |-> finished]
        ELSE rows[r]]
  BY DEF Insert
<1>5. rows' \in [Runs -> Row \cup {NoRow}]
  BY <1>2, <1>4 DEF TypeOK
<1>6. \A r \in Runs : Stored(r) => rows'[r] = rows[r]
  BY <1>1, <1>4 DEF Rooted, Runs
<1>7. \A r \in Runs : Stored(r)' => r <= lastId'
  BY <1>1, <1>3, <1>4 DEF Rooted, Runs, Stored
<1> QED BY <1>1, <1>3, <1>5, <1>6, <1>7

LEMMA WrittenType ==
  ASSUME NEW row \in Row, NEW status \in Statuses, NEW finished \in Nat
  PROVE  Written(row, status, finished) \in Row
BY DEF Written, Row

LEMMA WrittenFields ==
  ASSUME NEW row \in Row, NEW status, NEW finished
  PROVE  /\ Written(row, status, finished).status = status
         /\ Written(row, status, finished).finished = finished
BY DEF Written, Row

(* One row is written in place.                                            *)
LEMMA UpdateRow ==
  ASSUME WellFormed, NEW r \in Runs, Stored(r), NEW row \in Row,
         rows' = [rows EXCEPT ![r] = row], lastId' = lastId
  PROVE  /\ rows' \in [Runs -> Row \cup {NoRow}]
         /\ \A o \in Runs : Stored(o)' <=> Stored(o)
BY MarkAssumption DEF WellFormed, TypeOK, Stored

(* Rows that stay where they are keep what refers to them.                 *)
LEMMA RootedStays ==
  ASSUME Rooted, TypeOK,
         \A r \in Runs : Stored(r)' => r <= lastId',
         \A r \in Runs : Stored(r) => Stored(r)',
         \A r \in Runs : Executed(r)' => Executed(r) \/ Stored(r)',
         \A q \in puts' : q \in puts \/ (q.run \in Runs /\ Stored(q.run))
  PROVE  Rooted'
<1>1. \A r \in Runs : Executed(r)' => Stored(r)'
  BY DEF Rooted
<1>2. ASSUME NEW q \in puts' PROVE Stored(q.run)'
  <2>1. q.run \in Runs /\ Stored(q.run)
    BY <1>2 DEF Rooted, TypeOK, Put
  <2> QED BY <2>1
<1> QED BY <1>1, <1>2 DEF Rooted
-----------------------------------------------------------------------------
(* Type correctness, action by action.                                     *)

LEMMA StartType ==
  ASSUME WellFormed, NEW c \in Cases, Start(c)
  PROVE  WellFormed'
<1>1. <<c>> \in Seq(Cases) /\ "not_run" \in Statuses /\ Null \in Nat
  BY DEF Statuses, Results, Null
<1>2. Insert(<<c>>, "not_run", Null)
  BY DEF Start
<1>3. TypeOK'
  BY <1>1, <1>2, InsertRows DEF WellFormed, TypeOK, Start, requests, history
<1>4. Rooted'
  BY <1>1, <1>2, InsertRows, RootedStays
     DEF WellFormed, Start, requests, history, Stored, Executed
<1> QED BY <1>3, <1>4 DEF WellFormed

LEMMA ExecuteType ==
  ASSUME WellFormed, NEW p \in Replicas, NEW c \in Cases, Execute(p, c)
  PROVE  WellFormed'
<1>1. <<c>> \in Seq(Cases) /\ "running" \in Statuses /\ Null \in Nat /\ Len(<<c>>) = 1
  BY DEF Statuses, Results, Null
<1>2. Insert(<<c>>, "running", Null)
  BY DEF Execute
<1> DEFINE r == lastId + 1
<1>3. r \in Runs /\ lastId' = r
  BY <1>1, <1>2, BoundAssumption DEF Insert, TypeOK, WellFormed, Runs
<1>4. rows'[r] # NoRow
  <2>1. rows'[r] = [case |-> <<c>>[r - lastId], status |-> "running", finished |-> Null]
    BY <1>1, <1>2, <1>3 DEF Insert, TypeOK, WellFormed
  <2>2. r - lastId = 1
    BY DEF TypeOK, WellFormed
  <2>3. rows'[r] \in Row
    BY <1>1, <2>1, <2>2 DEF Row
  <2> QED BY <2>3, MarkAssumption
<1>5. exec' \in [Runs -> Execution \cup {NoExecution}]
      /\ \A o \in Runs : o # r => exec'[o] = exec[o]
  BY <1>3 DEF WellFormed, TypeOK, Execute, Execution
<1>6. TypeOK'
  BY <1>1, <1>2, <1>5, InsertRows DEF WellFormed, TypeOK, Execute, requests, history
<1>7. Rooted'
  <2>1. \A o \in Runs : Executed(o)' => Executed(o) \/ Stored(o)'
    BY <1>4, <1>5 DEF Executed, Stored
  <2>2. \A o \in Runs : Stored(o) => Stored(o)'
    BY <1>1, <1>2, InsertRows DEF WellFormed, Stored
  <2>3. \A o \in Runs : Stored(o)' => o <= lastId'
    BY <1>1, <1>2, InsertRows DEF WellFormed
  <2>4. puts' = puts
    BY DEF Execute, requests
  <2> QED BY <2>1, <2>2, <2>3, <2>4, RootedStays DEF WellFormed
<1> QED BY <1>6, <1>7 DEF WellFormed

LEMMA ShortcutType ==
  ASSUME WellFormed, NEW c \in Cases, NEW result \in Results, Shortcut(c, result)
  PROVE  WellFormed'
<1> DEFINE finished == IF result = "not_run" THEN Null ELSE clock + 1
<1>1. <<c>> \in Seq(Cases) /\ result \in Statuses /\ finished \in Nat
  BY DEF Statuses, Null, WellFormed, TypeOK
<1>2. Insert(<<c>>, result, finished)
  BY DEF Shortcut
<1>3. left' \in [Disturbances -> Nat]
  BY SpendType DEF WellFormed, Shortcut, Disturbances
<1>4. /\ pill' \in [Cases -> Results] /\ clock' \in Nat
      /\ pillBy' \in [Cases -> Runs \cup {Null}]
  BY DEF WellFormed, TypeOK, Shortcut
<1> HIDE DEF finished
<1>5. TypeOK'
  BY <1>1, <1>2, <1>3, <1>4, InsertRows DEF WellFormed, TypeOK, Shortcut, requests
<1>6. Rooted'
  BY <1>1, <1>2, InsertRows, RootedStays
     DEF WellFormed, Shortcut, requests, Stored, Executed
<1> QED BY <1>5, <1>6 DEF WellFormed

LEMMA SuiteType ==
  ASSUME WellFormed, NEW result \in {"passed", "failed"}, RunSuite(result)
  PROVE  WellFormed'
<1>1. left' \in [Disturbances -> Nat]
  BY SpendType DEF WellFormed, RunSuite, Disturbances
<1>2. /\ pill' \in [Cases -> Results] /\ clock' \in Nat
      /\ pillBy' \in [Cases -> Runs \cup {Null}]
  BY DEF WellFormed, TypeOK, RunSuite, Results
<1>3. suites' \subseteq SuiteRun
  BY DEF WellFormed, TypeOK, RunSuite, SuiteRun
<1>4. TypeOK'
  BY <1>1, <1>2, <1>3 DEF WellFormed, TypeOK, RunSuite
<1>5. Rooted'
  BY DEF WellFormed, Rooted, RunSuite, Stored, Executed
<1> QED BY <1>4, <1>5 DEF WellFormed

LEMMA SuiteRowsType ==
  ASSUME WellFormed, NEW s \in suites, RunSuiteRows(s)
  PROVE  WellFormed'
<1>1. s.result \in Statuses /\ s.finished \in Nat
  BY DEF WellFormed, TypeOK, SuiteRun, Statuses, Results
<1>2. CASE Insert(Links, s.result, s.finished) /\ UNCHANGED left
  <2>1. TypeOK'
    BY <1>1, <1>2, InsertRows, SetsAssumption
       DEF WellFormed, TypeOK, RunSuiteRows, history
  <2>2. Rooted'
    BY <1>1, <1>2, InsertRows, RootedStays, SetsAssumption
       DEF WellFormed, RunSuiteRows, history, Stored, Executed
  <2> QED BY <2>1, <2>2 DEF WellFormed
<1>3. CASE Spend("fault") /\ UNCHANGED <<rows, lastId>>
  <2>1. left' \in [Disturbances -> Nat]
    BY <1>3, SpendType DEF WellFormed, Disturbances
  <2>2. TypeOK'
    BY <1>3, <2>1 DEF WellFormed, TypeOK, RunSuiteRows, history
  <2>3. Rooted'
    BY <1>3 DEF WellFormed, Rooted, RunSuiteRows, Stored, Executed
  <2> QED BY <2>2, <2>3 DEF WellFormed
<1> QED BY <1>2, <1>3 DEF RunSuiteRows

LEMMA PutReadType ==
  ASSUME WellFormed, NEW r \in Runs, NEW status \in Statuses,
         NEW force \in BOOLEAN, PutRead(r, status, force)
  PROVE  WellFormed'
<1>1. left' \in [Disturbances -> Nat]
  BY SpendType DEF WellFormed, PutRead, Disturbances
<1>2. Stored(r) /\ rows[r] \in Row
  BY DEF WellFormed, TypeOK, PutRead, Stored
<1> DEFINE stamp == Stamps(status) /\ rows[r].finished = Null
           keep == force /\ Finalized(rows[r].status)
           q == [run |-> r, seen |-> rows[r].status, status |-> status,
                 force |-> keep, finished |-> IF stamp THEN clock + 1 ELSE Null]
<1>3. puts' = puts \cup {q} /\ clock' = IF stamp THEN clock + 1 ELSE clock
  BY DEF PutRead
<1>4. keep \in BOOLEAN /\ stamp \in BOOLEAN
  BY DEF Stamps, Finalized
<1> HIDE DEF keep, stamp
<1>5. q \in Put /\ clock' \in Nat /\ q.run = r
  BY <1>2, <1>3, <1>4 DEF WellFormed, TypeOK, Put, Row, Null
<1> HIDE DEF q
<1>6. TypeOK'
  BY <1>1, <1>3, <1>5 DEF WellFormed, TypeOK, PutRead, history
<1>7. Rooted'
  BY <1>2, <1>3, <1>5 DEF WellFormed, Rooted, PutRead, Stored, Executed
<1> QED BY <1>6, <1>7 DEF WellFormed

LEMMA PutWriteType ==
  ASSUME WellFormed, NEW q \in puts, PutWrite(q)
  PROVE  WellFormed'
<1>1. q \in Put /\ q.run \in Runs /\ Stored(q.run) /\ rows[q.run] \in Row
  BY DEF WellFormed, TypeOK, Rooted, Put, Stored
<1>2. CASE UNCHANGED left /\ ~UNCHANGED rows
  <2> DEFINE finished == IF q.finished = Null THEN rows[q.run].finished
                         ELSE q.finished
             row == Written(rows[q.run], q.status, finished)
  <2>1. q.status \in Statuses /\ finished \in Nat
    BY <1>1 DEF Row, Put
  <2>2. rows' = [rows EXCEPT ![q.run] = row] /\ lastId' = lastId
    BY <1>2 DEF PutWrite
  <2> HIDE DEF finished
  <2>8. row \in Row
    BY <1>1, <2>1, WrittenType
  <2> HIDE DEF row
  <2>3. rows' \in [Runs -> Row \cup {NoRow}] /\ \A o \in Runs : Stored(o)' <=> Stored(o)
    BY <1>1, <2>8, <2>2, UpdateRow
  <2>4. TypeOK'
    BY <1>2, <2>3 DEF WellFormed, TypeOK, PutWrite, history
  <2>5. \A o \in Runs : Executed(o)' <=> Executed(o)
    BY DEF PutWrite, Executed
  <2>6. puts' \subseteq puts
    BY DEF PutWrite
  <2>7. Rooted'
    BY <2>2, <2>3, <2>5, <2>6, RootedStays DEF WellFormed, Rooted
  <2> QED BY <2>4, <2>7 DEF WellFormed
<1>3. CASE Spend("fault") /\ UNCHANGED rows
  <2>1. left' \in [Disturbances -> Nat]
    BY <1>3, SpendType DEF WellFormed, Disturbances
  <2>2. TypeOK'
    BY <1>3, <2>1 DEF WellFormed, TypeOK, PutWrite, history
  <2>3. Rooted'
    BY <1>3 DEF WellFormed, Rooted, PutWrite, Stored, Executed
  <2> QED BY <2>2, <2>3 DEF WellFormed
<1>4. CASE UNCHANGED left /\ UNCHANGED rows
  <2>1. TypeOK'
    BY <1>4 DEF WellFormed, TypeOK, PutWrite, history
  <2>2. Rooted'
    BY <1>4 DEF WellFormed, Rooted, PutWrite, Stored, Executed
  <2> QED BY <2>1, <2>2 DEF WellFormed
<1> QED BY <1>2, <1>3, <1>4 DEF PutWrite

(* An executor changes the state of its own run only.                      *)
LEMMA ExecStep ==
  ASSUME WellFormed, NEW r \in Runs, Executed(r), NEW e \in Execution,
         exec' = [exec EXCEPT ![r] = e]
  PROVE  /\ exec' \in [Runs -> Execution \cup {NoExecution}]
         /\ \A o \in Runs : Executed(o)' => Executed(o)
BY MarkAssumption DEF WellFormed, TypeOK, Executed

LEMMA EndedType ==
  ASSUME NEW s \in Stream, NEW status \in Statuses
  PROVE  Ended(s, status) \in Stream
BY DEF Ended, Stream

LEMMA PublishType ==
  ASSUME WellFormed, NEW p \in Replicas, NEW r \in Runs, NEW verdict \in Verdicts,
         Publish(p, r, verdict)
  PROVE  dones' \in [Runs -> Nat] /\ streams' \in [Clients -> Stream \cup {NoStream}]
<1>1. dones' \in [Runs -> Nat]
  BY DEF Publish, WellFormed, TypeOK
<1>2. \A k \in Clients : streams[k] # NoStream => Ended(streams[k], verdict) \in Stream
  BY EndedType DEF WellFormed, TypeOK, Statuses
<1>3. streams' \in [Clients -> Stream \cup {NoStream}]
  BY <1>2 DEF Publish, WellFormed, TypeOK
<1> QED BY <1>1, <1>3

LEMMA SpawnType ==
  ASSUME WellFormed, NEW r \in Runs, Spawn(r)
  PROVE  WellFormed'
<1> DEFINE e == [exec[r] EXCEPT !.at = "child", !.alive = TRUE]
<1>1. Executed(r) /\ exec[r] \in Execution
  BY DEF Spawn, Executed, WellFormed, TypeOK
<1>2. e \in Execution
  BY <1>1 DEF Execution
<1>3. exec' = [exec EXCEPT ![r] = e]
  BY DEF Spawn
<1> HIDE DEF e
<1>4. /\ exec' \in [Runs -> Execution \cup {NoExecution}]
      /\ \A o \in Runs : Executed(o)' => Executed(o)
  BY <1>1, <1>2, <1>3, ExecStep
<1>5. TypeOK'
  BY <1>4 DEF Spawn, WellFormed, TypeOK, requests, history
<1>6. Rooted'
  BY <1>4 DEF Spawn, WellFormed, Rooted, Stored, requests
<1> QED BY <1>5, <1>6 DEF WellFormed

LEMMA RejectType ==
  ASSUME WellFormed, NEW r \in Runs, Reject(r)
  PROVE  WellFormed'
<1> DEFINE e == [exec[r] EXCEPT !.at = "rejected"]
<1>1. Executed(r) /\ exec[r] \in Execution
  BY DEF Reject, Executed, WellFormed, TypeOK
<1>2. e \in Execution /\ exec[r].by \in Replicas
  BY <1>1 DEF Execution
<1>3. exec' = [exec EXCEPT ![r] = e]
  BY DEF Reject
<1> HIDE DEF e
<1>4. /\ exec' \in [Runs -> Execution \cup {NoExecution}]
      /\ \A o \in Runs : Executed(o)' => Executed(o)
  BY <1>1, <1>2, <1>3, ExecStep
<1>5. left' \in [Disturbances -> Nat]
  BY SpendType DEF WellFormed, Reject, Disturbances
<1>6. dones' \in [Runs -> Nat] /\ streams' \in [Clients -> Stream \cup {NoStream}]
  BY <1>2, PublishType DEF Reject, Verdicts
<1>7. TypeOK'
  BY <1>4, <1>5, <1>6 DEF Reject, WellFormed, TypeOK, requests
<1>8. Rooted'
  BY <1>4 DEF Reject, WellFormed, Rooted, Stored, requests
<1> QED BY <1>7, <1>8 DEF WellFormed

LEMMA VerdictType ==
  ASSUME NEW code \in {0, 1}, NEW failures \in {0, 1}
  PROVE  Verdict(code, failures) \in Verdicts
BY DEF Verdict, Verdicts

LEMMA ClosingType ==
  ASSUME WellFormed, NEW e \in Execution, NEW verdict \in Verdicts
  PROVE  Closing(e, verdict) \in Execution
<1> DEFINE call == [verdict |-> verdict, finished |-> clock + 1,
                    at |-> FirstStatement(verdict)]
<1>1. call \in Finalize
  BY DEF WellFormed, TypeOK, Finalize, FirstStatement
<1>2. Closing(e, verdict) =
        [e EXCEPT !.finished = TRUE, !.calls = e.calls \cup {call}]
  BY DEF Closing
<1> HIDE DEF call
<1>3. e.calls \cup {call} \in SUBSET Finalize
  BY <1>1 DEF Execution
<1>4. ASSUME NEW calls \in SUBSET Finalize
      PROVE  [e EXCEPT !.finished = TRUE, !.calls = calls] \in Execution
  BY DEF Execution
<1> QED BY <1>2, <1>3, <1>4

LEMMA FinishType ==
  ASSUME WellFormed, NEW r \in Runs, Executed(r), NEW event \in Execution,
         NEW verdict \in Verdicts, Finish(r, event, verdict)
  PROVE  WellFormed'
<1> DEFINE e == IF MayFinish(exec[r]) THEN Closing(event, verdict) ELSE event
<1>1. e \in Execution
  BY ClosingType
<1>2. exec' = [exec EXCEPT ![r] = e]
  BY DEF Finish
<1> HIDE DEF e
<1>3. /\ exec' \in [Runs -> Execution \cup {NoExecution}]
      /\ \A o \in Runs : Executed(o)' => Executed(o)
  BY <1>1, <1>2, ExecStep
<1>4. clock' \in Nat
  BY DEF Finish, WellFormed, TypeOK
<1>5. TypeOK'
  BY <1>3, <1>4 DEF Finish, WellFormed, TypeOK, requests, history
<1>6. Rooted'
  BY <1>3 DEF Finish, WellFormed, Rooted, Stored, requests
<1> QED BY <1>5, <1>6 DEF WellFormed

LEMMA EventType ==
  ASSUME WellFormed, NEW r \in Runs, ErrorEvent(r) \/ ExitEvent(r)
  PROVE  WellFormed'
<1>1. Executed(r) /\ exec[r] \in Execution
  BY DEF ErrorEvent, ExitEvent, Executed, WellFormed, TypeOK
<1>2. ASSUME NEW exitFollows \in BOOLEAN
      PROVE  [exec[r] EXCEPT !.erred = TRUE, !.alive = exitFollows] \in Execution
  BY <1>1 DEF Execution
<1>3. [exec[r] EXCEPT !.alive = FALSE] \in Execution
  BY <1>1 DEF Execution
<1>4. CASE ErrorEvent(r)
  BY <1>1, <1>2, <1>4, FinishType DEF ErrorEvent, Verdicts
<1>5. CASE ExitEvent(r)
  BY <1>1, <1>3, <1>5, FinishType, VerdictType DEF ExitEvent
<1> QED BY <1>4, <1>5

(* What every step of finalize has in common.                              *)
LEMMA CallContext ==
  ASSUME WellFormed, NEW r \in Runs, Executed(r), NEW call \in exec[r].calls
  PROVE  /\ exec[r] \in Execution /\ call \in Finalize
         /\ Stored(r) /\ rows[r] \in Row
BY DEF WellFormed, TypeOK, Rooted, Executed, Stored, Execution

LEMMA MoveType ==
  ASSUME WellFormed, NEW r \in Runs, Executed(r), NEW call \in exec[r].calls,
         NEW at \in {"pill", "done"}, at = "pill" => call.verdict # "errored",
         MoveCall(r, call, at)
  PROVE  /\ exec' \in [Runs -> Execution \cup {NoExecution}]
         /\ \A o \in Runs : Executed(o)' => Executed(o)
<1> DEFINE moved == [call EXCEPT !.at = at]
<1>1. exec[r] \in Execution /\ moved \in Finalize
  <2>1. exec[r] \in Execution /\ call \in Finalize
    BY CallContext
  <2>2. CASE at = "pill"
    BY <2>1, <2>2 DEF Finalize
  <2>3. CASE at = "done"
    BY <2>1, <2>3 DEF Finalize
  <2> QED BY <2>1, <2>2, <2>3
<1>2. Moved(exec[r], call, at) = [exec[r] EXCEPT !.calls = (@ \ {call}) \cup {moved}]
  BY DEF Moved
<1> HIDE DEF moved
<1>3. Moved(exec[r], call, at) \in Execution
  BY <1>1, <1>2 DEF Execution
<1> QED BY <1>3, ExecStep DEF MoveCall

LEMMA StoreRowType ==
  ASSUME WellFormed, NEW r \in Runs, Executed(r), NEW call \in exec[r].calls,
         StoreRow(r, call)
  PROVE  WellFormed'
<1> DEFINE row == Written(rows[r], call.verdict, call.finished)
           at == IF CaseResult(call.verdict) = "none" THEN "done" ELSE "pill"
<1>1. /\ call.verdict \in Verdicts /\ call.verdict \in Statuses
      /\ call.finished \in Nat /\ rows[r] \in Row /\ Stored(r)
  BY CallContext DEF Finalize, Statuses
<1>2. rows' = [rows EXCEPT ![r] = row] /\ lastId' = lastId
  BY DEF StoreRow
<1>3. row \in Row
  BY <1>1, WrittenType
<1> HIDE DEF row
<1>4. /\ rows' \in [Runs -> Row \cup {NoRow}]
      /\ \A o \in Runs : Stored(o)' <=> Stored(o)
  BY <1>1, <1>2, <1>3, UpdateRow
<1>5. /\ MoveCall(r, call, at) /\ at \in {"pill", "done"}
      /\ at = "pill" => call.verdict # "errored"
  BY DEF StoreRow, CaseResult
<1> HIDE DEF at
<1>6. /\ exec' \in [Runs -> Execution \cup {NoExecution}]
      /\ \A o \in Runs : Executed(o)' => Executed(o)
  BY <1>5, MoveType
<1>7. recorded' \in [Runs -> Verdicts \cup {"none"}]
  BY <1>1 DEF StoreRow, WellFormed, TypeOK
<1>8. TypeOK'
  BY <1>4, <1>6, <1>7 DEF StoreRow, WellFormed, TypeOK, requests
<1>9. Rooted'
  BY <1>2, <1>4, <1>6, RootedStays DEF StoreRow, WellFormed, Rooted, requests
<1> QED BY <1>8, <1>9 DEF WellFormed

LEMMA StorePillType ==
  ASSUME WellFormed, NEW r \in Runs, Executed(r), NEW call \in exec[r].calls,
         StorePill(r, call)
  PROVE  WellFormed'
<1>1. call.verdict \in Verdicts /\ CaseResult(call.verdict) \in Results
  BY CallContext DEF StorePill, Finalize, CaseResult, Results, Verdicts
<1>2. /\ pill' \in [Cases -> Results]
      /\ pillBy' \in [Cases -> Runs \cup {Null}]
  BY <1>1 DEF StorePill, WellFormed, TypeOK
<1>3. /\ exec' \in [Runs -> Execution \cup {NoExecution}]
      /\ \A o \in Runs : Executed(o)' => Executed(o)
  BY MoveType DEF StorePill
<1>4. TypeOK'
  BY <1>2, <1>3 DEF StorePill, WellFormed, TypeOK, requests
<1>5. Rooted'
  BY <1>3 DEF StorePill, WellFormed, Rooted, Stored, requests
<1> QED BY <1>4, <1>5 DEF WellFormed

LEMMA TroubledType ==
  ASSUME WellFormed, NEW r \in Runs, Executed(r), NEW call \in exec[r].calls
  PROVE  /\ Troubled(exec[r], call) \in Execution
         /\ Resolved(exec[r], call) \in Execution
<1> DEFINE moved == [call EXCEPT !.at = "done"]
<1>1. exec[r] \in Execution /\ moved \in Finalize
  BY CallContext DEF Finalize
<1>2. {[call EXCEPT !.at = at] : at \in {AfterFault(call)} \ {"none"}} = {moved}
  BY DEF AfterFault
<1> HIDE DEF moved
<1>3. Troubled(exec[r], call) =
        [exec[r] EXCEPT !.trouble = TRUE, !.calls = (exec[r].calls \ {call}) \cup {moved}]
  BY <1>2 DEF Troubled
<1>4. Resolved(exec[r], call) =
        [exec[r] EXCEPT !.at = "settled", !.calls = exec[r].calls \ {call}]
  BY DEF Resolved
<1>5. /\ (exec[r].calls \ {call}) \cup {moved} \in SUBSET Finalize
      /\ exec[r].calls \ {call} \in SUBSET Finalize
  BY <1>1 DEF Execution
<1>6. ASSUME NEW e \in Execution, NEW calls \in SUBSET Finalize
      PROVE  /\ [e EXCEPT !.trouble = TRUE, !.calls = calls] \in Execution
             /\ [e EXCEPT !.at = "settled", !.calls = calls] \in Execution
  BY DEF Execution
<1> QED BY <1>1, <1>3, <1>4, <1>5, <1>6

LEMMA StoreFailsType ==
  ASSUME WellFormed, NEW r \in Runs, Executed(r), NEW call \in exec[r].calls,
         StoreFails(r, call)
  PROVE  WellFormed'
<1>1. /\ exec' \in [Runs -> Execution \cup {NoExecution}]
      /\ \A o \in Runs : Executed(o)' => Executed(o)
  BY TroubledType, ExecStep DEF StoreFails
<1>2. left' \in [Disturbances -> Nat]
  BY SpendType DEF WellFormed, StoreFails, Disturbances
<1>3. TypeOK'
  BY <1>1, <1>2 DEF StoreFails, WellFormed, TypeOK, requests, history
<1>4. Rooted'
  BY <1>1 DEF StoreFails, WellFormed, Rooted, Stored, requests
<1> QED BY <1>3, <1>4 DEF WellFormed

LEMMA SettleType ==
  ASSUME WellFormed, NEW r \in Runs, Executed(r), NEW call \in exec[r].calls,
         Settle(r, call)
  PROVE  WellFormed'
<1>1. /\ exec' \in [Runs -> Execution \cup {NoExecution}]
      /\ \A o \in Runs : Executed(o)' => Executed(o)
  BY TroubledType, ExecStep DEF Settle
<1>2. exec[r].by \in Replicas /\ call.verdict \in Verdicts
  BY CallContext DEF Execution, Finalize
<1>3. dones' \in [Runs -> Nat] /\ streams' \in [Clients -> Stream \cup {NoStream}]
  BY <1>2, PublishType DEF Settle
<1>4. TypeOK'
  BY <1>1, <1>3 DEF Settle, WellFormed, TypeOK, requests
<1>5. Rooted'
  BY <1>1 DEF Settle, WellFormed, Rooted, Stored, requests
<1> QED BY <1>4, <1>5 DEF WellFormed

LEMMA ExecutorType ==
  ASSUME WellFormed, NEW r \in Runs, Executor(r)
  PROVE  WellFormed'
<1>1. CASE Finalizing(r)
  BY <1>1, StoreRowType, StorePillType, StoreFailsType, SettleType DEF Finalizing
<1> QED BY <1>1, SpawnType, RejectType, EventType DEF Executor

LEMMA WatchingType ==
  ASSUME WellFormed, Watching
  PROVE  WellFormed'
<1>1. ASSUME NEW k \in Clients, NEW p \in Replicas, NEW r \in Runs, Open(k, p, r)
      PROVE  streams' \in [Clients -> Stream \cup {NoStream}]
             /\ left' \in [Disturbances -> Nat]
  <2>1. rows[r] \in Row
    BY <1>1 DEF Open, Stored, WellFormed, TypeOK
  <2>2. [run |-> r, by |-> p, at |-> "opening", status |-> rows[r].status] \in Stream
    BY <2>1 DEF Stream, Row
  <2>3. left' \in [Disturbances -> Nat]
    BY <1>1, SpendType DEF WellFormed, Open, Disturbances
  <2> QED BY <1>1, <2>2, <2>3 DEF Open, WellFormed, TypeOK
<1>2. ASSUME NEW k \in Clients, Subscribe(k)
      PROVE  streams' \in [Clients -> Stream \cup {NoStream}]
  <2>1. streams[k] \in Stream
    BY <1>2 DEF Subscribe, WellFormed, TypeOK
  <2>2. \A at \in {"closed", "watching"} : [streams[k] EXCEPT !.at = at] \in Stream
    BY <2>1 DEF Stream
  <2> QED BY <1>2, <2>2 DEF Subscribe, WellFormed, TypeOK
<1>3. ASSUME NEW k \in Clients, Leave(k)
      PROVE  streams' \in [Clients -> Stream \cup {NoStream}]
  BY <1>3 DEF Leave, WellFormed, TypeOK
<1>4. /\ streams' \in [Clients -> Stream \cup {NoStream}]
      /\ left' \in [Disturbances -> Nat]
  BY <1>1, <1>2, <1>3 DEF Watching, Subscribe, Leave, WellFormed, TypeOK
<1>5. UNCHANGED <<rows, lastId, pill, clock, exec, requests, history>>
  BY DEF Watching, Open, Subscribe, Leave
<1>6. TypeOK'
  BY <1>4, <1>5 DEF WellFormed, TypeOK, requests, history
<1>7. Rooted'
  BY <1>5 DEF WellFormed, Rooted, Stored, Executed, requests
<1> QED BY <1>6, <1>7 DEF WellFormed

LEMMA DeadType ==
  ASSUME NEW e \in Execution
  PROVE  Dead(e) \in Execution
<1>1. ASSUME NEW at \in {"queued", "child", "settled", "rejected", "lost"}
      PROVE  [e EXCEPT !.alive = FALSE, !.calls = {}, !.at = at] \in Execution
  BY DEF Execution
<1> DEFINE at == IF e.at \in {"queued", "child"} THEN "lost" ELSE e.at
<1>2. at \in {"queued", "child", "settled", "rejected", "lost"}
  BY DEF Execution
<1>3. Dead(e) = [e EXCEPT !.alive = FALSE, !.calls = {}, !.at = at]
  BY DEF Dead
<1> QED BY <1>1, <1>2, <1>3

LEMMA CrashType ==
  ASSUME WellFormed, NEW p \in Replicas, Crash(p)
  PROVE  WellFormed'
<1>1. \A r \in Runs : Executed(r) => Dead(exec[r]) \in Execution
  BY DeadType DEF Executed, WellFormed, TypeOK
<1>2. exec' \in [Runs -> Execution \cup {NoExecution}]
  BY <1>1 DEF Crash, WellFormed, TypeOK
<1>3. \A r \in Runs : Executed(r)' => Executed(r)
  BY DEF Crash, Executed
<1>4. left' \in [Disturbances -> Nat]
  BY SpendType DEF WellFormed, Crash, Disturbances
<1>5. streams' \in [Clients -> Stream \cup {NoStream}]
  BY DEF Crash, WellFormed, TypeOK
<1>6. puts' \subseteq puts /\ suites' \subseteq suites
  BY DEF Crash
<1>7. TypeOK'
  BY <1>2, <1>4, <1>5, <1>6 DEF Crash, WellFormed, TypeOK, history
<1>8. Rooted'
  BY <1>3, <1>6 DEF Crash, WellFormed, Rooted, Stored
<1> QED BY <1>7, <1>8 DEF WellFormed

LEMMA InitWellFormed ==
  ASSUME Init
  PROVE  WellFormed
<1>1. TypeOK
  BY BoundAssumption DEF Init, TypeOK, Results, Null
<1>2. Rooted
  BY DEF Init, Rooted, Stored, Executed
<1> QED BY <1>1, <1>2 DEF WellFormed

LEMMA StepWellFormed ==
  ASSUME WellFormed, [Next]_vars
  PROVE  WellFormed'
<1>1. CASE UNCHANGED vars
  BY <1>1 DEF WellFormed, TypeOK, Rooted, Stored, Executed, vars
<1>2. CASE Requests
  BY <1>2, StartType, ExecuteType, ShortcutType, SuiteType, SuiteRowsType,
     PutReadType, PutWriteType DEF Requests
<1> QED BY <1>1, <1>2, ExecutorType, WatchingType, CrashType DEF Next

(* The tables, the executions and the streams stay well formed for any     *)
(* number of runs, processes, clients and disturbances.                    *)
THEOREM RunsTypeCorrect == Spec => []TypeOK
<1>1. Init => WellFormed
  BY InitWellFormed
<1>2. WellFormed /\ [Next]_vars => WellFormed'
  BY StepWellFormed
<1>3. WellFormed => TypeOK
  BY DEF WellFormed
<1> QED BY <1>1, <1>2, <1>3, PTL DEF Spec
-----------------------------------------------------------------------------
(* One publication per run.  What makes DoneOnce inductive: an execution   *)
(* has at most one call of finalize, it is there only while nothing is     *)
(* published, and what it has stored is known from where it is.            *)

Orderly(e, published, stored) ==
  /\ published <= 1
  /\ e.at = "queued" => ~e.alive /\ ~e.finished
  /\ e.alive /\ ~e.finished => e.at = "child"
  /\ ~e.finished => e.calls = {} /\ stored = "none"
  /\ e.at \in {"queued", "child"} /\ ~e.finished => published = 0
  /\ e.calls # {} => e.at = "child" /\ published = 0
  /\ \A a, b \in e.calls : a = b
  /\ \A a \in e.calls : a.at = "row" => stored = "none"
  /\ \A a \in e.calls : a.at = "pill" => stored = a.verdict

RunOrderly(r) ==
  IF Executed(r) THEN Orderly(exec[r], dones[r], recorded[r])
  ELSE dones[r] = 0 /\ recorded[r] = "none"

AllOrderly == \A r \in Runs : RunOrderly(r)

(* A step of one execution leaves the others orderly.                      *)
LEMMA OneRun ==
  ASSUME WellFormed, AllOrderly, NEW r \in Runs, Executed(r), NEW e \in Execution,
         NEW published, NEW stored, Orderly(e, published, stored),
         exec' = [exec EXCEPT ![r] = e],
         dones' = [dones EXCEPT ![r] = published],
         recorded' = [recorded EXCEPT ![r] = stored]
  PROVE  AllOrderly'
<1> SUFFICES ASSUME NEW o \in Runs PROVE RunOrderly(o)'
  BY DEF AllOrderly
<1>1. CASE o = r
  <2>1. exec'[r] = e /\ dones'[r] = published /\ recorded'[r] = stored
    BY DEF WellFormed, TypeOK
  <2>2. e # NoExecution
    BY MarkAssumption
  <2>3. Orderly(exec[r], dones[r], recorded[r])'
    BY <2>1 DEF Orderly
  <2> QED BY <1>1, <2>1, <2>2, <2>3 DEF RunOrderly, Executed
<1>2. CASE o # r
  <2>1. exec'[o] = exec[o] /\ dones'[o] = dones[o] /\ recorded'[o] = recorded[o]
    BY <1>2 DEF WellFormed, TypeOK
  <2>2. RunOrderly(o)
    BY DEF AllOrderly
  <2> QED BY <2>1, <2>2 DEF RunOrderly, Orderly, Executed
<1> QED BY <1>1, <1>2

(* Steps that leave the executions alone.                                  *)
LEMMA SameOrder ==
  ASSUME AllOrderly, UNCHANGED <<exec, dones, recorded>>
  PROVE  AllOrderly'
BY DEF AllOrderly, RunOrderly, Orderly, Executed

LEMMA ClosingFields ==
  ASSUME NEW e \in Execution, NEW verdict
  PROVE  /\ Closing(e, verdict).finished = TRUE
         /\ Closing(e, verdict).at = e.at /\ Closing(e, verdict).alive = e.alive
         /\ Closing(e, verdict).calls =
              e.calls \cup {[verdict |-> verdict, finished |-> clock + 1,
                             at |-> FirstStatement(verdict)]}
<1> DEFINE call == [verdict |-> verdict, finished |-> clock + 1,
                    at |-> FirstStatement(verdict)]
<1>1. Closing(e, verdict) = [e EXCEPT !.finished = TRUE, !.calls = e.calls \cup {call}]
  BY DEF Closing
<1> HIDE DEF call
<1>2. /\ [e EXCEPT !.finished = TRUE, !.calls = e.calls \cup {call}].finished = TRUE
      /\ [e EXCEPT !.finished = TRUE, !.calls = e.calls \cup {call}].at = e.at
      /\ [e EXCEPT !.finished = TRUE, !.calls = e.calls \cup {call}].alive = e.alive
      /\ [e EXCEPT !.finished = TRUE, !.calls = e.calls \cup {call}].calls
           = e.calls \cup {call}
  BY DEF Execution
<1> QED BY <1>1, <1>2 DEF call

LEMMA ResolvedFields ==
  ASSUME NEW e \in Execution, NEW call
  PROVE  /\ Resolved(e, call).at = "settled" /\ Resolved(e, call).alive = e.alive
         /\ Resolved(e, call).finished = e.finished
         /\ Resolved(e, call).calls = e.calls \ {call}
BY DEF Resolved, Execution

LEMMA Fields ==
  ASSUME NEW e \in Execution, NEW call
  PROVE  /\ Dead(e).alive = FALSE /\ Dead(e).calls = {}
         /\ Dead(e).finished = e.finished
         /\ Dead(e).at = IF e.at \in {"queued", "child"} THEN "lost" ELSE e.at
         /\ Troubled(e, call).at = e.at /\ Troubled(e, call).alive = e.alive
         /\ Troubled(e, call).finished = e.finished
         /\ Troubled(e, call).calls =
              (e.calls \ {call}) \cup {[call EXCEPT !.at = "done"]}
<1>1. {[call EXCEPT !.at = at] : at \in {AfterFault(call)} \ {"none"}}
        = {[call EXCEPT !.at = "done"]}
  BY DEF AfterFault
<1>4. Troubled(e, call) =
        [e EXCEPT !.trouble = TRUE,
           !.calls = (e.calls \ {call}) \cup {[call EXCEPT !.at = "done"]}]
  BY <1>1 DEF Troubled
<1>5. Dead(e) = [e EXCEPT !.alive = FALSE, !.calls = {},
                   !.at = IF e.at \in {"queued", "child"} THEN "lost" ELSE e.at]
  BY DEF Dead
<1>6. ASSUME NEW calls, NEW at
      PROVE  /\ [e EXCEPT !.trouble = TRUE, !.calls = calls].at = e.at
             /\ [e EXCEPT !.trouble = TRUE, !.calls = calls].calls = calls
             /\ [e EXCEPT !.trouble = TRUE, !.calls = calls].alive = e.alive
             /\ [e EXCEPT !.trouble = TRUE, !.calls = calls].finished = e.finished
             /\ [e EXCEPT !.alive = FALSE, !.calls = {}, !.at = at].at = at
             /\ [e EXCEPT !.alive = FALSE, !.calls = {}, !.at = at].calls = {}
             /\ [e EXCEPT !.alive = FALSE, !.calls = {}, !.at = at].alive = FALSE
             /\ [e EXCEPT !.alive = FALSE, !.calls = {}, !.at = at].finished = e.finished
  BY DEF Execution
<1> QED BY <1>4, <1>5, <1>6

LEMMA ExecuteOrder ==
  ASSUME WellFormed, AllOrderly, NEW p \in Replicas, NEW c \in Cases, Execute(p, c)
  PROVE  AllOrderly'
<1> DEFINE r == lastId + 1
           e == [by |-> p, at |-> "queued", alive |-> FALSE, erred |-> FALSE,
                 finished |-> FALSE, trouble |-> FALSE, calls |-> {}]
<1>1. exec' = [exec EXCEPT ![r] = e] /\ dones' = dones /\ recorded' = recorded
  BY DEF Execute, history
<1>2. lastId \in Nat
  BY BoundAssumption DEF WellFormed, TypeOK
<1>3. r \in Runs => ~Executed(r)
  BY <1>2 DEF WellFormed, Rooted
<1>4. e # NoExecution /\ Orderly(e, 0, "none")
  <2>1. e \in Execution
    BY DEF Execution
  <2>2. Orderly(e, 0, "none")
    BY DEF Orderly
  <2> QED BY <2>1, <2>2, MarkAssumption
<1> HIDE DEF e, r
<1> SUFFICES ASSUME NEW o \in Runs PROVE RunOrderly(o)'
  BY DEF AllOrderly
<1>5. CASE o = r
  <2>1. dones[o] = 0 /\ recorded[o] = "none"
    BY <1>3, <1>5 DEF AllOrderly, RunOrderly
  <2>2. exec'[o] = e /\ dones'[o] = 0 /\ recorded'[o] = "none"
    BY <1>1, <1>5, <2>1 DEF WellFormed, TypeOK
  <2>3. Orderly(exec[o], dones[o], recorded[o])'
    BY <1>4, <2>2 DEF Orderly
  <2> QED BY <1>4, <2>2, <2>3 DEF RunOrderly, Executed
<1>6. CASE o # r
  <2>1. exec'[o] = exec[o] /\ dones'[o] = dones[o] /\ recorded'[o] = recorded[o]
    BY <1>1, <1>6 DEF WellFormed, TypeOK
  <2> QED BY <2>1 DEF AllOrderly, RunOrderly, Orderly, Executed
<1> QED BY <1>5, <1>6

(* What is known of a run that is executed.                                *)
LEMMA RunContext ==
  ASSUME WellFormed, AllOrderly, NEW r \in Runs, Executed(r)
  PROVE  /\ exec[r] \in Execution /\ Orderly(exec[r], dones[r], recorded[r])
         /\ dones = [dones EXCEPT ![r] = dones[r]] /\ dones[r] \in Nat
         /\ recorded = [recorded EXCEPT ![r] = recorded[r]]
BY DEF WellFormed, TypeOK, Executed, AllOrderly, RunOrderly

LEMMA SpawnOrder ==
  ASSUME WellFormed, AllOrderly, NEW r \in Runs, Spawn(r)
  PROVE  AllOrderly'
<1> DEFINE e == [exec[r] EXCEPT !.at = "child", !.alive = TRUE]
<1>1. Executed(r)
  BY DEF Spawn
<1>2. exec[r] \in Execution /\ exec[r].at = "queued"
      /\ Orderly(exec[r], dones[r], recorded[r])
  BY <1>1, RunContext DEF Spawn
<1>3. /\ e \in Execution /\ e.at = "child" /\ e.alive = TRUE
      /\ e.finished = exec[r].finished /\ e.calls = exec[r].calls
  BY <1>2 DEF Execution
<1>4. exec' = [exec EXCEPT ![r] = e]
  BY DEF Spawn
<1> HIDE DEF e
<1>5. Orderly(e, dones[r], recorded[r])
  BY <1>2, <1>3 DEF Orderly
<1>6. /\ dones' = [dones EXCEPT ![r] = dones[r]]
      /\ recorded' = [recorded EXCEPT ![r] = recorded[r]]
  BY <1>1, RunContext DEF Spawn, history
<1>7. e \in Execution
  BY <1>3
<1> QED BY <1>1, <1>4, <1>5, <1>6, <1>7, OneRun

LEMMA RejectOrder ==
  ASSUME WellFormed, AllOrderly, NEW r \in Runs, Reject(r)
  PROVE  AllOrderly'
<1> DEFINE e == [exec[r] EXCEPT !.at = "rejected"]
<1>1. Executed(r)
  BY DEF Reject
<1>2. exec[r] \in Execution /\ exec[r].at = "queued"
      /\ Orderly(exec[r], dones[r], recorded[r])
  BY <1>1, RunContext DEF Reject
<1>3. /\ e \in Execution /\ e.at = "rejected" /\ e.alive = exec[r].alive
      /\ e.finished = exec[r].finished /\ e.calls = exec[r].calls
  BY <1>2 DEF Execution
<1>4. /\ exec' = [exec EXCEPT ![r] = e] /\ recorded' = recorded
      /\ dones' = [dones EXCEPT ![r] = dones[r] + 1]
  BY DEF Reject, Publish
<1> HIDE DEF e
<1>5. dones[r] = 0
  BY <1>2 DEF Orderly
<1>6. Orderly(e, dones[r] + 1, recorded[r])
  BY <1>2, <1>3, <1>5 DEF Orderly
<1> QED BY <1>1, <1>3, <1>4, <1>6, OneRun, RunContext

(* An event either starts the one finalize of the execution or, after it,  *)
(* only tells that the child is gone.                                      *)
LEMMA FinishOrder ==
  ASSUME WellFormed, AllOrderly, NEW r \in Runs, Executed(r), exec[r].alive,
         NEW event \in Execution, event.at = exec[r].at,
         event.finished = exec[r].finished, event.calls = exec[r].calls,
         event.alive => exec[r].alive,
         NEW verdict \in Verdicts, Finish(r, event, verdict)
  PROVE  AllOrderly'
<1> DEFINE e == IF MayFinish(exec[r]) THEN Closing(event, verdict) ELSE event
<1>1. exec[r] \in Execution /\ Orderly(exec[r], dones[r], recorded[r])
  BY RunContext
<1>2. /\ exec' = [exec EXCEPT ![r] = e]
      /\ dones' = [dones EXCEPT ![r] = dones[r]]
      /\ recorded' = [recorded EXCEPT ![r] = recorded[r]]
  BY RunContext DEF Finish, history
<1>3. CASE ~exec[r].finished
  <2> DEFINE call == [verdict |-> verdict, finished |-> clock + 1,
                      at |-> FirstStatement(verdict)]
  <2>1. e = Closing(event, verdict)
    BY <1>3 DEF MayFinish
  <2>2. /\ e \in Execution /\ e.finished = TRUE /\ e.at = event.at
        /\ e.calls = event.calls \cup {call}
    <3>1. Closing(event, verdict) \in Execution
      BY ClosingType
    <3>2. /\ Closing(event, verdict).finished = TRUE
          /\ Closing(event, verdict).at = event.at
          /\ Closing(event, verdict).calls = event.calls \cup {call}
      BY ClosingFields
    <3> HIDE DEF e, call
    <3> QED BY <2>1, <3>1, <3>2
  <2>3. call.at = "row"
    BY DEF FirstStatement
  <2> HIDE DEF e, call
  <2>4. exec[r].at = "child" /\ exec[r].calls = {} /\ dones[r] = 0
        /\ recorded[r] = "none"
    BY <1>1, <1>3 DEF Orderly
  <2>5. Orderly(e, dones[r], recorded[r])
    BY <2>2, <2>3, <2>4 DEF Orderly
  <2> QED BY <1>2, <2>2, <2>5, OneRun
<1>4. CASE exec[r].finished
  <2>1. e = event
    BY <1>4 DEF MayFinish
  <2> HIDE DEF e
  <2>2. Orderly(e, dones[r], recorded[r])
    BY <1>1, <1>4, <2>1 DEF Orderly
  <2> QED BY <1>2, <2>1, <2>2, OneRun
<1> QED BY <1>1, <1>3, <1>4 DEF Execution

LEMMA EventOrder ==
  ASSUME WellFormed, AllOrderly, NEW r \in Runs, ErrorEvent(r) \/ ExitEvent(r)
  PROVE  AllOrderly'
<1>1. Executed(r) /\ exec[r] \in Execution /\ exec[r].alive
  BY DEF ErrorEvent, ExitEvent, Executed, WellFormed, TypeOK
<1>2. ASSUME NEW exitFollows \in BOOLEAN,
             Finish(r, [exec[r] EXCEPT !.erred = TRUE, !.alive = exitFollows], "errored")
      PROVE  AllOrderly'
  <2> DEFINE event == [exec[r] EXCEPT !.erred = TRUE, !.alive = exitFollows]
  <2>1. /\ event \in Execution /\ event.at = exec[r].at
        /\ event.finished = exec[r].finished /\ event.calls = exec[r].calls
    BY <1>1 DEF Execution
  <2>2. Finish(r, event, "errored") /\ "errored" \in Verdicts
    BY <1>2 DEF Verdicts
  <2> HIDE DEF event
  <2> QED BY <1>1, <2>1, <2>2, FinishOrder
<1>3. ASSUME NEW verdict \in Verdicts,
             Finish(r, [exec[r] EXCEPT !.alive = FALSE], verdict)
      PROVE  AllOrderly'
  <2> DEFINE event == [exec[r] EXCEPT !.alive = FALSE]
  <2>1. /\ event \in Execution /\ event.at = exec[r].at
        /\ event.finished = exec[r].finished /\ event.calls = exec[r].calls
    BY <1>1 DEF Execution
  <2>2. Finish(r, event, verdict)
    BY <1>3
  <2> HIDE DEF event
  <2> QED BY <1>1, <2>1, <2>2, FinishOrder
<1> QED BY <1>2, <1>3, VerdictType DEF ErrorEvent, ExitEvent

(* The call that is at work is the only one of its execution.              *)
LEMMA OneCall ==
  ASSUME WellFormed, AllOrderly, NEW r \in Runs, Executed(r), NEW call \in exec[r].calls
  PROVE  /\ exec[r] \in Execution /\ call \in Finalize
         /\ exec[r].calls = {call} /\ exec[r].at = "child" /\ exec[r].finished
         /\ dones[r] = 0
         /\ call.at = "row" => recorded[r] = "none"
         /\ call.at = "pill" => recorded[r] = call.verdict
<1>1. exec[r] \in Execution /\ Orderly(exec[r], dones[r], recorded[r])
      /\ dones[r] \in Nat
  BY RunContext
<1>2. \A a \in exec[r].calls : a = call
  BY <1>1 DEF Orderly
<1>3. exec[r].finished \in BOOLEAN
  BY <1>1 DEF Execution
<1> QED BY <1>1, <1>2, <1>3, CallContext DEF Orderly

(* The execution e of one step of finalize: its call becomes moved.        *)
LEMMA MovedOrder ==
  ASSUME WellFormed, AllOrderly, NEW r \in Runs, Executed(r), NEW call \in exec[r].calls,
         NEW e, e.at = exec[r].at, e.alive = exec[r].alive, e.finished = exec[r].finished,
         NEW moved, e.calls = (exec[r].calls \ {call}) \cup {moved},
         NEW stored, moved.at # "row",
         moved.at = "pill" => stored = moved.verdict
  PROVE  Orderly(e, dones[r], stored)
<1>1. /\ exec[r].calls = {call} /\ exec[r].at = "child" /\ exec[r].finished
      /\ dones[r] = 0
  BY OneCall
<1>2. e.calls = {moved}
  BY <1>1
<1> QED BY <1>1, <1>2 DEF Orderly

LEMMA MoveOrder ==
  ASSUME WellFormed, AllOrderly, NEW r \in Runs, Executed(r), NEW call \in exec[r].calls,
         NEW at \in {"pill", "done"}, at = "pill" => call.verdict # "errored",
         MoveCall(r, call, at), dones' = dones,
         NEW stored, recorded' = [recorded EXCEPT ![r] = stored],
         at = "pill" => stored = call.verdict
  PROVE  AllOrderly'
<1> DEFINE moved == [call EXCEPT !.at = at]
           e == [exec[r] EXCEPT !.calls = (exec[r].calls \ {call}) \cup {moved}]
<1>1. exec[r] \in Execution /\ call \in Finalize
  BY OneCall
<1>2. moved \in Finalize /\ moved.at = at /\ moved.verdict = call.verdict
  <2>1. CASE at = "pill"
    BY <1>1, <2>1 DEF Finalize
  <2>2. CASE at = "done"
    BY <1>1, <2>2 DEF Finalize
  <2> QED BY <2>1, <2>2
<1>3. exec' = [exec EXCEPT ![r] = e]
  BY DEF MoveCall, Moved
<1> HIDE DEF moved
<1>4. /\ e \in Execution /\ e.at = exec[r].at /\ e.alive = exec[r].alive
      /\ e.finished = exec[r].finished
      /\ e.calls = (exec[r].calls \ {call}) \cup {moved}
  BY <1>1, <1>2 DEF Execution
<1> HIDE DEF e
<1>5. Orderly(e, dones[r], stored)
  BY <1>2, <1>4, MovedOrder
<1>6. dones' = [dones EXCEPT ![r] = dones[r]]
  BY RunContext
<1> QED BY <1>3, <1>4, <1>5, <1>6, OneRun

LEMMA StoreRowOrder ==
  ASSUME WellFormed, AllOrderly, NEW r \in Runs, Executed(r), NEW call \in exec[r].calls,
         StoreRow(r, call)
  PROVE  AllOrderly'
<1> DEFINE at == IF CaseResult(call.verdict) = "none" THEN "done" ELSE "pill"
<1>1. /\ MoveCall(r, call, at) /\ at \in {"pill", "done"}
      /\ at = "pill" => call.verdict # "errored"
  BY DEF StoreRow, CaseResult
<1>2. dones' = dones /\ recorded' = [recorded EXCEPT ![r] = call.verdict]
  BY DEF StoreRow
<1> HIDE DEF at
<1> QED BY <1>1, <1>2, MoveOrder

LEMMA StorePillOrder ==
  ASSUME WellFormed, AllOrderly, NEW r \in Runs, Executed(r), NEW call \in exec[r].calls,
         StorePill(r, call)
  PROVE  AllOrderly'
<1>1. dones' = dones /\ recorded' = [recorded EXCEPT ![r] = recorded[r]]
  BY RunContext DEF StorePill
<1> QED BY <1>1, MoveOrder DEF StorePill

LEMMA StoreFailsOrder ==
  ASSUME WellFormed, AllOrderly, NEW r \in Runs, Executed(r), NEW call \in exec[r].calls,
         StoreFails(r, call)
  PROVE  AllOrderly'
<1> DEFINE e == Troubled(exec[r], call)
           moved == [call EXCEPT !.at = "done"]
<1>1. exec[r] \in Execution /\ call \in Finalize
  BY OneCall
<1>2. moved.at = "done"
  BY <1>1 DEF Finalize
<1>3. /\ e.at = exec[r].at /\ e.alive = exec[r].alive
      /\ e.finished = exec[r].finished
      /\ e.calls = (exec[r].calls \ {call}) \cup {moved}
  BY <1>1, Fields
<1>4. e \in Execution
  BY TroubledType
<1>5. /\ exec' = [exec EXCEPT ![r] = e]
      /\ dones' = [dones EXCEPT ![r] = dones[r]]
      /\ recorded' = [recorded EXCEPT ![r] = recorded[r]]
  BY RunContext DEF StoreFails, history
<1> HIDE DEF e, moved
<1>6. Orderly(e, dones[r], recorded[r])
  BY <1>2, <1>3, MovedOrder
<1> QED BY <1>4, <1>5, <1>6, OneRun

LEMMA SettleOrder ==
  ASSUME WellFormed, AllOrderly, NEW r \in Runs, Executed(r), NEW call \in exec[r].calls,
         Settle(r, call)
  PROVE  AllOrderly'
<1> DEFINE e == Resolved(exec[r], call)
<1>1. /\ exec[r].calls = {call} /\ exec[r].finished /\ dones[r] = 0
      /\ exec[r] \in Execution
  BY OneCall
<1>2. /\ e.at = "settled" /\ e.alive = exec[r].alive
      /\ e.finished = exec[r].finished /\ e.calls = exec[r].calls \ {call}
  BY <1>1, ResolvedFields
<1>3. e \in Execution
  BY TroubledType
<1>4. /\ exec' = [exec EXCEPT ![r] = e]
      /\ dones' = [dones EXCEPT ![r] = dones[r] + 1]
      /\ recorded' = [recorded EXCEPT ![r] = recorded[r]]
  BY RunContext DEF Settle, Publish
<1> HIDE DEF e
<1>5. Orderly(e, dones[r] + 1, recorded[r])
  BY <1>1, <1>2 DEF Orderly
<1> QED BY <1>3, <1>4, <1>5, OneRun

LEMMA CrashOrder ==
  ASSUME WellFormed, AllOrderly, NEW p \in Replicas, Crash(p)
  PROVE  AllOrderly'
<1> SUFFICES ASSUME NEW r \in Runs PROVE RunOrderly(r)'
  BY DEF AllOrderly
<1>1. dones' = dones /\ recorded' = recorded /\ RunOrderly(r)
  BY DEF Crash, history, AllOrderly
<1>2. CASE Executed(r) /\ exec[r].by = p
  <2>1. exec'[r] = Dead(exec[r])
    BY <1>2 DEF Crash
  <2>2. exec[r] \in Execution /\ Orderly(exec[r], dones[r], recorded[r])
    BY <1>2, RunContext
  <2>3. /\ Dead(exec[r]).alive = FALSE /\ Dead(exec[r]).calls = {}
        /\ Dead(exec[r]).finished = exec[r].finished
        /\ Dead(exec[r]).at =
             IF exec[r].at \in {"queued", "child"} THEN "lost" ELSE exec[r].at
    BY <2>2, Fields
  <2>4. Dead(exec[r]) \in Execution
    BY <2>2, DeadType
  <2> DEFINE e == Dead(exec[r])
  <2> HIDE DEF e
  <2>5. Orderly(e, dones[r], recorded[r])
    BY <2>2, <2>3 DEF Orderly, e
  <2>6. exec'[r] = e /\ e # NoExecution
    BY <2>1, <2>4, MarkAssumption DEF e
  <2> QED BY <1>1, <2>5, <2>6 DEF RunOrderly, Executed, Orderly
<1>3. CASE ~(Executed(r) /\ exec[r].by = p)
  <2>1. exec'[r] = exec[r]
    BY <1>3 DEF Crash
  <2> QED BY <1>1, <2>1 DEF RunOrderly, Executed, Orderly
<1> QED BY <1>2, <1>3

LEMMA StepOrder ==
  ASSUME WellFormed, AllOrderly, [Next]_vars
  PROVE  AllOrderly'
<1>1. CASE UNCHANGED vars
  BY <1>1, SameOrder DEF vars
<1>2. CASE Requests
  BY <1>2, SameOrder, ExecuteOrder
     DEF Requests, Start, Shortcut, RunSuite, RunSuiteRows, PutRead, PutWrite, history
<1>3. ASSUME NEW r \in Runs, Executor(r) PROVE AllOrderly'
  <2>1. CASE Finalizing(r)
    BY <2>1, StoreRowOrder, StorePillOrder, StoreFailsOrder, SettleOrder DEF Finalizing
  <2> QED BY <1>3, <2>1, SpawnOrder, RejectOrder, EventOrder DEF Executor
<1>4. CASE Watching
  BY <1>4, SameOrder DEF Watching, Open, Subscribe, Leave, history
<1> QED BY <1>1, <1>2, <1>3, <1>4, CrashOrder DEF Next

(* A run is published as done at most once, however 'error' and 'exit'     *)
(* fall, whatever fails or dies: of DoneOnce, for every constant.          *)
THEOREM PublishedOnce == Spec => []DoneOnce
<1>1. Init => WellFormed /\ AllOrderly
  BY InitWellFormed DEF Init, AllOrderly, RunOrderly, Executed
<1>2. WellFormed /\ AllOrderly /\ [Next]_vars => WellFormed' /\ AllOrderly'
  BY StepWellFormed, StepOrder
<1>3. WellFormed /\ AllOrderly => DoneOnce
  BY DEF AllOrderly, RunOrderly, Orderly, DoneOnce
<1> QED BY <1>1, <1>2, <1>3, PTL DEF Spec
-----------------------------------------------------------------------------
(* The pill follows the row.  PillHasRecord is inductive together with     *)
(* AllOrderly: a verdict is stored while nothing is recorded, so no pill   *)
(* was left by this run before, and the pill is written by the same call.  *)

LEMMA SameRecord ==
  ASSUME PillHasRecord, UNCHANGED <<pill, pillBy, recorded>>
  PROVE  PillHasRecord'
BY DEF PillHasRecord

LEMMA OverruledRecord ==
  ASSUME WellFormed, PillHasRecord, recorded' = recorded,
         \A c \in Cases : pillBy'[c] = Null \/ (pillBy'[c] = pillBy[c] /\ pill'[c] = pill[c])
  PROVE  PillHasRecord'
BY DEF PillHasRecord

LEMMA StoreRowRecord ==
  ASSUME WellFormed, AllOrderly, PillHasRecord, NEW r \in Runs, Executed(r),
         NEW call \in exec[r].calls, StoreRow(r, call)
  PROVE  PillHasRecord'
<1> SUFFICES ASSUME NEW c \in Cases, pillBy[c] # Null
             PROVE  recorded'[pillBy[c]] = pill[c]
  BY DEF StoreRow, PillHasRecord
<1>1. recorded[r] = "none"
  BY OneCall DEF StoreRow
<1>2. recorded[pillBy[c]] = pill[c] /\ pill[c] \in Results
  BY DEF PillHasRecord, WellFormed, TypeOK
<1>3. pillBy[c] # r
  BY <1>1, <1>2 DEF Results
<1> QED BY <1>2, <1>3 DEF StoreRow, WellFormed, TypeOK

LEMMA StorePillRecord ==
  ASSUME WellFormed, AllOrderly, PillHasRecord, NEW r \in Runs, Executed(r),
         NEW call \in exec[r].calls, StorePill(r, call)
  PROVE  PillHasRecord'
<1>1. call \in Finalize /\ recorded[r] = call.verdict
  BY OneCall DEF StorePill
<1>2. CaseResult(call.verdict) = call.verdict
  BY <1>1 DEF StorePill, Finalize, CaseResult
<1>3. recorded' = recorded
  BY DEF StorePill
<1> SUFFICES ASSUME NEW c \in Cases, pillBy'[c] # Null
             PROVE  recorded[pillBy'[c]] = pill'[c]
  BY <1>3 DEF PillHasRecord
<1>4. CASE c = rows[r].case
  <2>1. pill'[c] = call.verdict /\ pillBy'[c] = r
    BY <1>2, <1>4 DEF StorePill, WellFormed, TypeOK
  <2> QED BY <1>1, <2>1
<1>5. CASE c # rows[r].case
  <2>1. pill'[c] = pill[c] /\ pillBy'[c] = pillBy[c]
    BY <1>5 DEF StorePill, WellFormed, TypeOK
  <2> QED BY <2>1 DEF PillHasRecord
<1> QED BY <1>4, <1>5

LEMMA StepRecord ==
  ASSUME WellFormed, AllOrderly, PillHasRecord, [Next]_vars
  PROVE  PillHasRecord'
<1>1. CASE UNCHANGED vars
  BY <1>1, SameRecord DEF vars
<1>2. ASSUME NEW c \in Cases, NEW result \in Results, Shortcut(c, result)
      PROVE  PillHasRecord'
  BY <1>2, OverruledRecord DEF Shortcut, WellFormed, TypeOK
<1>3. ASSUME NEW result \in {"passed", "failed"}, RunSuite(result)
      PROVE  PillHasRecord'
  BY <1>3, OverruledRecord DEF RunSuite
<1>4. CASE Requests
  BY <1>2, <1>3, <1>4, SameRecord
     DEF Requests, Start, Execute, RunSuiteRows, PutRead, PutWrite, history
<1>5. ASSUME NEW r \in Runs, Executor(r) PROVE PillHasRecord'
  <2>1. CASE Finalizing(r)
    BY <2>1, StoreRowRecord, StorePillRecord, SameRecord
       DEF Finalizing, StoreFails, Settle, history
  <2>2. CASE Spawn(r) \/ Reject(r) \/ ErrorEvent(r) \/ ExitEvent(r)
    BY <2>2, SameRecord DEF Spawn, Reject, ErrorEvent, ExitEvent, Finish, history
  <2> QED BY <1>5, <2>1, <2>2 DEF Executor
<1>6. CASE Watching
  BY <1>6, SameRecord DEF Watching, Open, Subscribe, Leave, history
<1>7. ASSUME NEW p \in Replicas, Crash(p) PROVE PillHasRecord'
  BY <1>7, SameRecord DEF Crash, history
<1> QED BY <1>1, <1>4, <1>5, <1>6, <1>7 DEF Next

(* The pill an executor left on a case is what the same executor had       *)
(* stored in the row of its run before: of PillHasRecord, for any number   *)
(* of processes and any failures and crashes.                              *)
THEOREM PillRecorded == Spec => []PillHasRecord
<1>1. Init => WellFormed /\ AllOrderly /\ PillHasRecord
  BY InitWellFormed DEF Init, AllOrderly, RunOrderly, Executed, PillHasRecord
<1>2. WellFormed /\ AllOrderly /\ PillHasRecord /\ [Next]_vars
        => WellFormed' /\ AllOrderly' /\ PillHasRecord'
  BY StepWellFormed, StepOrder, StepRecord
<1> QED BY <1>1, <1>2, PTL DEF Spec
-----------------------------------------------------------------------------
(* Finish times.  Nothing sets finished_at back to NULL, so a PUT that     *)
(* found it set, or decided to set it, leaves it set; the other writers    *)
(* took theirs before they write.                                          *)

StampedCalls(e) == \A a \in e.calls : a.finished # Null

Stamped ==
  /\ TerminalIsStamped
  /\ \A q \in puts :
       Stamps(q.status) => q.finished # Null \/ rows[q.run].finished # Null
  /\ \A r \in Runs : Executed(r) => StampedCalls(exec[r])
  /\ \A s \in suites : s.finished # Null

(* What a step has to show of the rows, executions and requests it writes. *)
LEMMA StampedStays ==
  ASSUME WellFormed, Stamped,
         \A r \in Runs : Stored(r)' =>
           \/ Stored(r) /\ rows'[r] = rows[r]
           \/ rows'[r].status \in Verdicts => rows'[r].finished # Null,
         \A r \in Runs : Stored(r) /\ rows[r].finished # Null
           => rows'[r].finished # Null,
         \A r \in Runs : Executed(r)' =>
           (Executed(r) /\ exec'[r] = exec[r]) \/ StampedCalls(exec'[r]),
         \A q \in puts' : q \in puts \/
           (q.run \in Runs /\ Stored(q.run) /\ (Stamps(q.status) => q.finished # Null
              \/ rows[q.run].finished # Null)),
         \A s \in suites' : s \in suites \/ s.finished # Null
  PROVE  Stamped'
<1>1. TerminalIsStamped'
  BY DEF Stamped, TerminalIsStamped
<1>2. ASSUME NEW q \in puts', Stamps(q.status)
      PROVE  q.finished # Null \/ rows'[q.run].finished # Null
  <2>1. q.run \in Runs /\ Stored(q.run)
    BY <1>2 DEF WellFormed, TypeOK, Rooted, Put
  <2>2. q.finished # Null \/ rows[q.run].finished # Null
    BY <1>2 DEF Stamped
  <2> QED BY <2>1, <2>2
<1>3. ASSUME NEW r \in Runs, Executed(r)' PROVE StampedCalls(exec'[r])
  BY <1>3 DEF Stamped
<1>4. ASSUME NEW s \in suites' PROVE s.finished # Null
  BY <1>4 DEF Stamped
<1>5. \A q \in puts' :
        Stamps(q.status) => q.finished # Null \/ rows'[q.run].finished # Null
  BY <1>2
<1> QED BY <1>1, <1>3, <1>4, <1>5 DEF Stamped, Stamps, StampedCalls

(* Rows that an INSERT brings have the finish time of their INSERT.        *)
LEMMA InsertStamped ==
  ASSUME WellFormed, NEW cs \in Seq(Cases), NEW status \in Statuses,
         NEW finished \in Nat, Insert(cs, status, finished),
         status \in Verdicts => finished # Null
  PROVE  /\ \A r \in Runs : Stored(r)' =>
              \/ Stored(r) /\ rows'[r] = rows[r]
              \/ rows'[r].status \in Verdicts => rows'[r].finished # Null
         /\ \A r \in Runs : Stored(r) => rows'[r] = rows[r]
<1>1. \A r \in Runs : Stored(r) => rows'[r] = rows[r]
  BY InsertRows DEF WellFormed
<1>2. ASSUME NEW r \in Runs, Stored(r)'
      PROVE  \/ Stored(r) /\ rows'[r] = rows[r]
             \/ rows'[r].status \in Verdicts => rows'[r].finished # Null
  BY <1>2 DEF Insert, Stored
<1> QED BY <1>1, <1>2

LEMMA StartStamped ==
  ASSUME WellFormed, Stamped, NEW c \in Cases, Start(c)
  PROVE  Stamped'
<1>1. /\ <<c>> \in Seq(Cases) /\ "not_run" \in Statuses /\ Null \in Nat
      /\ "not_run" \notin Verdicts
  BY DEF Statuses, Results, Null, Verdicts
<1>2. Insert(<<c>>, "not_run", Null) /\ UNCHANGED <<exec, puts, suites>>
  BY DEF Start, requests
<1> QED BY <1>1, <1>2, InsertStamped, StampedStays DEF Executed

LEMMA ExecuteStamped ==
  ASSUME WellFormed, Stamped, NEW p \in Replicas, NEW c \in Cases, Execute(p, c)
  PROVE  Stamped'
<1>1. /\ <<c>> \in Seq(Cases) /\ "running" \in Statuses /\ Null \in Nat
      /\ "running" \notin Verdicts
  BY DEF Statuses, Null, Verdicts
<1>2. Insert(<<c>>, "running", Null) /\ UNCHANGED <<puts, suites>>
  BY DEF Execute, requests
<1>3. ASSUME NEW r \in Runs, Executed(r)'
      PROVE  (Executed(r) /\ exec'[r] = exec[r]) \/ StampedCalls(exec'[r])
  BY <1>3 DEF Execute, WellFormed, TypeOK, Executed, StampedCalls
<1> QED BY <1>1, <1>2, <1>3, InsertStamped, StampedStays

LEMMA ShortcutStamped ==
  ASSUME WellFormed, Stamped, NEW c \in Cases, NEW result \in Results,
         Shortcut(c, result)
  PROVE  Stamped'
<1> DEFINE finished == IF result = "not_run" THEN Null ELSE clock + 1
<1>1. /\ <<c>> \in Seq(Cases) /\ result \in Statuses /\ finished \in Nat
      /\ result \in Verdicts => finished # Null
  BY DEF Statuses, Null, Verdicts, Results, WellFormed, TypeOK
<1>2. Insert(<<c>>, result, finished) /\ UNCHANGED <<exec, puts, suites>>
  BY DEF Shortcut, requests
<1> HIDE DEF finished
<1> QED BY <1>1, <1>2, InsertStamped, StampedStays DEF Executed

LEMMA SuiteStamped ==
  ASSUME WellFormed, Stamped, NEW result \in {"passed", "failed"}, RunSuite(result)
  PROVE  Stamped'
<1>1. UNCHANGED <<rows, exec, puts>>
  BY DEF RunSuite
<1>2. \A s \in suites' : s \in suites \/ s.finished # Null
  BY DEF RunSuite, Null, WellFormed, TypeOK
<1> QED BY <1>1, <1>2, StampedStays DEF Executed, Stored

LEMMA SuiteRowsStamped ==
  ASSUME WellFormed, Stamped, NEW s \in suites, RunSuiteRows(s)
  PROVE  Stamped'
<1>1. s.result \in Statuses /\ s.finished \in Nat /\ s.finished # Null
  BY DEF WellFormed, TypeOK, SuiteRun, Statuses, Results, Stamped
<1>2. UNCHANGED <<exec, puts>> /\ suites' \subseteq suites
  BY DEF RunSuiteRows
<1>3. CASE Insert(Links, s.result, s.finished)
  BY <1>1, <1>2, <1>3, InsertStamped, SetsAssumption, StampedStays DEF Executed
<1>4. CASE UNCHANGED rows
  BY <1>2, <1>4, StampedStays DEF Executed, Stored
<1> QED BY <1>3, <1>4 DEF RunSuiteRows

LEMMA PutReadStamped ==
  ASSUME WellFormed, Stamped, NEW r \in Runs, NEW status \in Statuses,
         NEW force \in BOOLEAN, PutRead(r, status, force)
  PROVE  Stamped'
<1>1. UNCHANGED <<rows, exec, suites>> /\ Stored(r) /\ clock + 1 # Null
  BY DEF PutRead, WellFormed, TypeOK, Null
<1>2. ASSUME NEW q \in puts'
      PROVE  q \in puts \/
               (q.run \in Runs /\ Stored(q.run) /\ (Stamps(q.status) =>
                  q.finished # Null \/ rows[q.run].finished # Null))
  BY <1>1, <1>2 DEF PutRead
<1> QED BY <1>1, <1>2, StampedStays DEF Executed, Stored

LEMMA PutWriteStamped ==
  ASSUME WellFormed, Stamped, NEW q \in puts, PutWrite(q)
  PROVE  Stamped'
<1>1. q \in Put /\ Stored(q.run) /\ rows[q.run] \in Row /\ q.run \in Runs
  BY DEF WellFormed, TypeOK, Rooted, Put, Stored
<1>2. UNCHANGED <<exec, suites>> /\ puts' \subseteq puts
  BY DEF PutWrite
<1>3. CASE UNCHANGED rows
  BY <1>2, <1>3, StampedStays DEF Executed, Stored
<1>4. CASE ~UNCHANGED rows
  <2> DEFINE finished == IF q.finished = Null THEN rows[q.run].finished
                         ELSE q.finished
             row == Written(rows[q.run], q.status, finished)
  <2>1. rows' = [rows EXCEPT ![q.run] = row]
    BY <1>4 DEF PutWrite
  <2>3. q.status \in Verdicts => finished # Null
    BY DEF Stamped, Stamps, Verdicts
  <2>4. rows[q.run].finished # Null => finished # Null
    OBVIOUS
  <2> HIDE DEF finished
  <2>2. row.status = q.status /\ row.finished = finished
    BY <1>1, WrittenFields
  <2> HIDE DEF row
  <2>5. rows'[q.run] = row /\ \A o \in Runs \ {q.run} : rows'[o] = rows[o]
    BY <1>1, <2>1 DEF WellFormed, TypeOK
  <2>6. \A r \in Runs : Stored(r)' =>
           \/ Stored(r) /\ rows'[r] = rows[r]
           \/ rows'[r].status \in Verdicts => rows'[r].finished # Null
    BY <2>2, <2>3, <2>5 DEF Stored
  <2>7. \A r \in Runs : Stored(r) /\ rows[r].finished # Null
           => rows'[r].finished # Null
    BY <2>2, <2>4, <2>5
  <2> QED BY <1>2, <2>6, <2>7, StampedStays DEF Executed
<1> QED BY <1>3, <1>4

LEMMA ExecutorStamped ==
  ASSUME WellFormed, Stamped, NEW r \in Runs, UNCHANGED <<rows, puts, suites>>,
         NEW e, exec' = [exec EXCEPT ![r] = e], StampedCalls(e)
  PROVE  Stamped'
<1>1. ASSUME NEW o \in Runs, Executed(o)'
      PROVE  (Executed(o) /\ exec'[o] = exec[o]) \/ StampedCalls(exec'[o])
  BY <1>1 DEF Executed, WellFormed, TypeOK
<1> QED BY <1>1, StampedStays DEF Stored

(* The calls of one execution before a step of it.                         *)
LEMMA CallsContext ==
  ASSUME WellFormed, Stamped, NEW r \in Runs, Executed(r)
  PROVE  /\ exec[r] \in Execution /\ StampedCalls(exec[r])
         /\ \A call \in exec[r].calls : call \in Finalize /\ call.finished # Null
BY DEF WellFormed, TypeOK, Executed, Stamped, StampedCalls, Execution

LEMMA StartedStamped ==
  ASSUME WellFormed, Stamped, NEW r \in Runs, Spawn(r) \/ Reject(r)
  PROVE  Stamped'
<1>1. Executed(r) /\ UNCHANGED <<rows, puts, suites>>
  BY DEF Spawn, Reject, requests
<1>2. exec[r] \in Execution /\ StampedCalls(exec[r])
  BY <1>1, CallsContext
<1>3. PICK e : exec' = [exec EXCEPT ![r] = e] /\ e.calls = exec[r].calls
  <2>1. /\ [exec[r] EXCEPT !.at = "child", !.alive = TRUE].calls = exec[r].calls
        /\ [exec[r] EXCEPT !.at = "rejected"].calls = exec[r].calls
    BY <1>2 DEF Execution
  <2>2. \/ exec' = [exec EXCEPT ![r] = [exec[r] EXCEPT !.at = "child", !.alive = TRUE]]
        \/ exec' = [exec EXCEPT ![r] = [exec[r] EXCEPT !.at = "rejected"]]
    BY DEF Spawn, Reject
  <2> QED BY <2>1, <2>2
<1>4. StampedCalls(e)
  BY <1>2, <1>3 DEF StampedCalls
<1> QED BY <1>1, <1>3, <1>4, ExecutorStamped

LEMMA FinishStamped ==
  ASSUME WellFormed, Stamped, NEW r \in Runs, Executed(r), NEW event \in Execution,
         event.calls = exec[r].calls, NEW verdict, Finish(r, event, verdict)
  PROVE  Stamped'
<1> DEFINE e == IF MayFinish(exec[r]) THEN Closing(event, verdict) ELSE event
           call == [verdict |-> verdict, finished |-> clock + 1,
                    at |-> FirstStatement(verdict)]
<1>1. exec' = [exec EXCEPT ![r] = e] /\ UNCHANGED <<rows, puts, suites>>
  BY DEF Finish, requests
<1>2. StampedCalls(event)
  BY CallsContext DEF StampedCalls
<1>3. Closing(event, verdict).calls = event.calls \cup {call}
  BY ClosingFields
<1>4. call.finished # Null
  BY DEF WellFormed, TypeOK, Null
<1> HIDE DEF call
<1>5. StampedCalls(Closing(event, verdict))
  BY <1>2, <1>3, <1>4 DEF StampedCalls
<1>6. StampedCalls(e)
  BY <1>2, <1>5
<1> HIDE DEF e
<1> QED BY <1>1, <1>6, ExecutorStamped

LEMMA EventStamped ==
  ASSUME WellFormed, Stamped, NEW r \in Runs, ErrorEvent(r) \/ ExitEvent(r)
  PROVE  Stamped'
<1>1. Executed(r) /\ exec[r] \in Execution
  BY DEF ErrorEvent, ExitEvent, Executed, WellFormed, TypeOK
<1>2. ASSUME NEW event, NEW verdict, Finish(r, event, verdict), event \in Execution,
             event.calls = exec[r].calls
      PROVE  Stamped'
  BY <1>1, <1>2, FinishStamped
<1>3. CASE ErrorEvent(r)
  <2>1. PICK exitFollows \in BOOLEAN :
          Finish(r, [exec[r] EXCEPT !.erred = TRUE, !.alive = exitFollows], "errored")
    BY <1>3 DEF ErrorEvent
  <2> DEFINE event == [exec[r] EXCEPT !.erred = TRUE, !.alive = exitFollows]
  <2>2. event \in Execution /\ event.calls = exec[r].calls
    BY <1>1 DEF Execution
  <2> HIDE DEF event
  <2> QED BY <1>2, <2>1, <2>2 DEF event
<1>4. CASE ExitEvent(r)
  <2> DEFINE event == [exec[r] EXCEPT !.alive = FALSE]
  <2>1. event \in Execution /\ event.calls = exec[r].calls
    BY <1>1 DEF Execution
  <2>2. PICK code \in {0, 1}, failures \in {0, 1} :
          Finish(r, event, Verdict(code, failures))
    BY <1>4 DEF ExitEvent
  <2> HIDE DEF event
  <2> QED BY <1>2, <2>1, <2>2
<1> QED BY <1>3, <1>4

(* A call that moves on keeps the time it took.                            *)
LEMMA MovedStamped ==
  ASSUME NEW call \in Finalize, call.finished # Null, NEW at
  PROVE  [call EXCEPT !.at = at].finished # Null
BY DEF Finalize

LEMMA MoveStamped ==
  ASSUME WellFormed, Stamped, NEW r \in Runs, Executed(r), NEW call \in exec[r].calls,
         NEW at
  PROVE  StampedCalls(Moved(exec[r], call, at))
<1> DEFINE moved == [call EXCEPT !.at = at]
           calls == (exec[r].calls \ {call}) \cup {moved}
<1>1. exec[r] \in Execution /\ StampedCalls(exec[r]) /\ moved.finished # Null
  BY CallsContext, MovedStamped
<1>2. Moved(exec[r], call, at) = [exec[r] EXCEPT !.calls = calls]
  BY DEF Moved
<1> HIDE DEF moved
<1>3. \A a \in calls : a.finished # Null
  BY <1>1 DEF StampedCalls
<1> HIDE DEF calls
<1>4. [exec[r] EXCEPT !.calls = calls].calls = calls
  BY <1>1 DEF Execution
<1> QED BY <1>2, <1>3, <1>4 DEF StampedCalls

LEMMA StoreRowStamped ==
  ASSUME WellFormed, Stamped, NEW r \in Runs, Executed(r), NEW call \in exec[r].calls,
         StoreRow(r, call)
  PROVE  Stamped'
<1> DEFINE row == Written(rows[r], call.verdict, call.finished)
           at == IF CaseResult(call.verdict) = "none" THEN "done" ELSE "pill"
           e == Moved(exec[r], call, at)
<1>1. rows' = [rows EXCEPT ![r] = row] /\ UNCHANGED <<puts, suites>>
  BY DEF StoreRow, requests
<1>2. call.finished # Null /\ rows[r] \in Row /\ Stored(r)
  BY CallsContext, CallContext
<1>3. row.finished # Null
  BY <1>2, WrittenFields
<1>4. exec' = [exec EXCEPT ![r] = e]
  BY DEF StoreRow, MoveCall
<1> HIDE DEF row, at
<1>5. StampedCalls(e)
  BY MoveStamped
<1> HIDE DEF e
<1>6. rows'[r] = row /\ \A o \in Runs \ {r} : rows'[o] = rows[o]
  BY <1>1 DEF WellFormed, TypeOK
<1>7. ASSUME NEW o \in Runs, Executed(o)'
      PROVE  (Executed(o) /\ exec'[o] = exec[o]) \/ StampedCalls(exec'[o])
  BY <1>4, <1>5, <1>7 DEF Executed, WellFormed, TypeOK
<1>8. \A o \in Runs : Stored(o)' =>
        \/ Stored(o) /\ rows'[o] = rows[o]
        \/ rows'[o].status \in Verdicts => rows'[o].finished # Null
  BY <1>3, <1>6 DEF Stored
<1>9. \A o \in Runs : Stored(o) /\ rows[o].finished # Null
        => rows'[o].finished # Null
  BY <1>3, <1>6
<1> QED BY <1>1, <1>7, <1>8, <1>9, StampedStays

LEMMA FinalizingStamped ==
  ASSUME WellFormed, Stamped, NEW r \in Runs, Finalizing(r)
  PROVE  Stamped'
<1>1. Executed(r)
  BY DEF Finalizing
<1>2. PICK call \in exec[r].calls :
        StoreRow(r, call) \/ StorePill(r, call) \/ StoreFails(r, call) \/ Settle(r, call)
  BY DEF Finalizing
<1>3. exec[r] \in Execution /\ StampedCalls(exec[r]) /\ call \in Finalize
      /\ call.finished # Null
  BY <1>1, CallsContext
<1>4. CASE StorePill(r, call)
  BY <1>1, <1>4, MoveStamped, ExecutorStamped DEF StorePill, MoveCall, requests
<1>5. CASE StoreFails(r, call)
  <2> DEFINE moved == [call EXCEPT !.at = "done"]
  <2>0. exec[r] \in Execution
    BY <1>3
  <2>1. Troubled(exec[r], call).calls = (exec[r].calls \ {call}) \cup {moved}
    BY <2>0, Fields
  <2>2. moved.finished # Null
    BY <1>3, MovedStamped
  <2> HIDE DEF moved
  <2>3. StampedCalls(Troubled(exec[r], call))
    BY <1>3, <2>1, <2>2 DEF StampedCalls
  <2> QED BY <1>5, <2>3, ExecutorStamped DEF StoreFails, requests
<1>6. CASE Settle(r, call)
  <2>1. StampedCalls(Resolved(exec[r], call))
    BY <1>3, ResolvedFields DEF StampedCalls
  <2> QED BY <1>6, <2>1, ExecutorStamped DEF Settle, requests
<1> QED BY <1>1, <1>2, <1>4, <1>5, <1>6, StoreRowStamped

LEMMA CrashStamped ==
  ASSUME WellFormed, Stamped, NEW p \in Replicas, Crash(p)
  PROVE  Stamped'
<1>1. ASSUME NEW r \in Runs, Executed(r)'
      PROVE  (Executed(r) /\ exec'[r] = exec[r]) \/ StampedCalls(exec'[r])
  <2>1. CASE Executed(r) /\ exec[r].by = p
    <3>1. exec'[r] = Dead(exec[r]) /\ Dead(exec[r]).calls = {}
      BY <2>1, Fields, CallsContext DEF Crash
    <3> QED BY <3>1 DEF StampedCalls
  <2>2. CASE ~(Executed(r) /\ exec[r].by = p)
    BY <1>1, <2>2 DEF Crash, Executed
  <2> QED BY <2>1, <2>2
<1>2. rows' = rows /\ puts' \subseteq puts /\ suites' \subseteq suites
  BY DEF Crash
<1> QED BY <1>1, <1>2, StampedStays DEF Stored

LEMMA StepStamped ==
  ASSUME WellFormed, Stamped, [Next]_vars
  PROVE  Stamped'
<1>1. CASE UNCHANGED <<rows, exec, puts, suites>>
  BY <1>1, StampedStays DEF Stored, Executed
<1>2. CASE Requests
  BY <1>2, StartStamped, ExecuteStamped, ShortcutStamped, SuiteStamped,
     SuiteRowsStamped, PutReadStamped, PutWriteStamped DEF Requests
<1>3. ASSUME NEW r \in Runs, Executor(r) PROVE Stamped'
  BY <1>3, StartedStamped, EventStamped, FinalizingStamped DEF Executor
<1>4. CASE Watching
  BY <1>1, <1>4 DEF Watching, Open, Subscribe, Leave, requests
<1> QED BY <1>1, <1>2, <1>3, <1>4, CrashStamped DEF Next, vars

(* Every run with a verdict has a finish time, whoever wrote the verdict   *)
(* and however stale the writer was: of TerminalIsStamped.                 *)
THEOREM VerdictsStamped == Spec => []TerminalIsStamped
<1>1. Init => WellFormed /\ Stamped
  BY InitWellFormed DEF Init, Stamped, TerminalIsStamped, Stored, Executed
<1>2. WellFormed /\ Stamped /\ [Next]_vars => WellFormed' /\ Stamped'
  BY StepWellFormed, StepStamped
<1>3. Stamped => TerminalIsStamped
  BY DEF Stamped
<1> QED BY <1>1, <1>2, <1>3, PTL DEF Spec
-----------------------------------------------------------------------------
(* Settled runs.  A request that has seen a verdict is there only because  *)
(* it was forced, and only an execution under way stores a row.            *)

ForcedPuts == \A q \in puts : q.seen \in Verdicts => q.force

LEMMA ForcedStays ==
  ASSUME WellFormed, ForcedPuts, [Next]_vars
  PROVE  ForcedPuts'
<1>1. CASE puts' \subseteq puts
  BY <1>1 DEF ForcedPuts
<1>2. ASSUME NEW r \in Runs, NEW status \in Statuses, NEW force \in BOOLEAN,
             PutRead(r, status, force)
      PROVE  ForcedPuts'
  <2> DEFINE new == [run |-> r, seen |-> rows[r].status, status |-> status,
                     force |-> force /\ Finalized(rows[r].status),
                     finished |-> IF Stamps(status) /\ rows[r].finished = Null
                                  THEN clock + 1 ELSE Null]
  <2>1. puts' = puts \cup {new} /\ (force \/ ~Finalized(rows[r].status))
    BY <1>2 DEF PutRead
  <2>2. new.seen \in Verdicts => new.force
    BY <2>1 DEF Finalized
  <2> HIDE DEF new
  <2> QED BY <2>1, <2>2 DEF ForcedPuts
<1>3. CASE Requests
  BY <1>1, <1>2, <1>3
     DEF Requests, Start, Execute, Shortcut, RunSuite, RunSuiteRows, PutWrite, requests
<1>4. ASSUME NEW r \in Runs, Executor(r) PROVE puts' \subseteq puts
  BY <1>4 DEF Executor, Spawn, Reject, ErrorEvent, ExitEvent, Finish, Finalizing,
     StoreRow, StorePill, StoreFails, Settle, requests
<1>5. CASE Watching
  BY <1>1, <1>5 DEF Watching, Open, Subscribe, Leave, requests
<1>6. CASE \E p \in Replicas : Crash(p)
  BY <1>1, <1>6 DEF Crash
<1> QED BY <1>1, <1>3, <1>4, <1>5, <1>6 DEF Next, vars

(* What a step may do to the status of a row that is there.                *)
LEMMA StatusStep ==
  ASSUME WellFormed, AllOrderly, [Next]_vars, NEW r \in Runs, Stored(r)
  PROVE  \/ rows'[r] = rows[r]
         \/ \E q \in puts : q.run = r
         \/ Executed(r) /\ exec[r].at = "child"
<1>1. ASSUME NEW cs \in Seq(Cases), NEW status \in Statuses, NEW finished \in Nat,
             Insert(cs, status, finished)
      PROVE  rows'[r] = rows[r]
  BY <1>1, InsertRows DEF WellFormed
<1>2. CASE Requests
  <2>1. ASSUME NEW c \in Cases PROVE <<c>> \in Seq(Cases)
    OBVIOUS
  <2>2. ASSUME NEW c \in Cases, Start(c) PROVE rows'[r] = rows[r]
    BY <1>1, <2>1, <2>2 DEF Start, Statuses, Results, Null
  <2>3. ASSUME NEW c \in Cases, NEW p \in Replicas, Execute(p, c)
        PROVE rows'[r] = rows[r]
    BY <1>1, <2>1, <2>3 DEF Execute, Statuses, Null
  <2>4. ASSUME NEW c \in Cases, NEW result \in Results, Shortcut(c, result)
        PROVE rows'[r] = rows[r]
    <3> DEFINE finished == IF result = "not_run" THEN Null ELSE clock + 1
    <3>1. finished \in Nat /\ result \in Statuses /\ Insert(<<c>>, result, finished)
      BY <2>4 DEF Shortcut, Statuses, Null, WellFormed, TypeOK
    <3> HIDE DEF finished
    <3> QED BY <1>1, <2>1, <3>1
  <2>5. ASSUME NEW s \in suites, RunSuiteRows(s) PROVE rows'[r] = rows[r]
    <3>1. s.result \in Statuses /\ s.finished \in Nat
      BY DEF WellFormed, TypeOK, SuiteRun, Statuses, Results
    <3> QED BY <1>1, <2>5, <3>1, SetsAssumption DEF RunSuiteRows
  <2>6. ASSUME NEW q \in puts, PutWrite(q), q.run # r PROVE rows'[r] = rows[r]
    BY <2>6 DEF PutWrite, WellFormed, TypeOK
  <2> QED BY <1>2, <2>2, <2>3, <2>4, <2>5, <2>6 DEF Requests, RunSuite, PutRead
<1>3. ASSUME NEW o \in Runs, Executor(o), rows'[r] # rows[r]
      PROVE  Executed(r) /\ exec[r].at = "child"
  <2>1. PICK call \in exec[o].calls : Executed(o) /\ StoreRow(o, call)
    BY <1>3 DEF Executor, Spawn, Reject, ErrorEvent, ExitEvent, Finish, Finalizing,
       StorePill, StoreFails, Settle
  <2>2. o = r
    BY <1>3, <2>1 DEF StoreRow, WellFormed, TypeOK
  <2> QED BY <2>1, <2>2, OneCall
<1>4. CASE Watching
  BY <1>4 DEF Watching, Open, Subscribe, Leave
<1>5. CASE \E p \in Replicas : Crash(p)
  BY <1>5 DEF Crash
<1> QED BY <1>2, <1>3, <1>4, <1>5 DEF Next, vars

(* Once a run has a verdict, nobody executes it and every request in       *)
(* flight has seen it, only a forced PUT changes it: SettledIsFinal.       *)
THEOREM SettledStays == Spec => SettledIsFinal
<1> DEFINE Inv == WellFormed /\ AllOrderly /\ ForcedPuts
           Final == \A r \in Runs : Settled(r) /\ rows'[r].status # rows[r].status =>
                      \E q \in puts : q.run = r /\ q.force
<1>1. Init => Inv
  BY InitWellFormed DEF Init, AllOrderly, RunOrderly, Executed, ForcedPuts
<1>2. Inv /\ [Next]_vars => Inv'
  BY StepWellFormed, StepOrder, ForcedStays
<1>3. Inv /\ [Next]_vars => [Final]_vars
  <2> SUFFICES ASSUME Inv, [Next]_vars, NEW r \in Runs, Settled(r),
                      rows'[r].status # rows[r].status
               PROVE  \E q \in puts : q.run = r /\ q.force
    OBVIOUS
  <2>1. ~(Executed(r) /\ exec[r].at = "child") /\ Stored(r)
    BY DEF Settled, Unsettled
  <2>2. PICK q \in puts : q.run = r
    BY <2>1, StatusStep
  <2>3. q.seen \in Verdicts
    BY <2>2 DEF Settled
  <2> QED BY <2>2, <2>3 DEF ForcedPuts
<1> HIDE DEF Inv
<1>4. Inv /\ [][Next]_vars => [][Final]_vars
  BY <1>2, <1>3, PTL
<1> QED BY <1>1, <1>2, <1>4, PTL DEF Spec, SettledIsFinal
-----------------------------------------------------------------------------
(* What a client was told.  As long as no PUT has come in, the status of   *)
(* an executed run is "running" until its executor stores the verdict, and *)
(* the verdict from then on.  So a stream that was closed, by the snapshot *)
(* it opened with or by the publication, was told what has been stored:    *)
(* the publication follows the UPDATE unless a statement failed.           *)

(* Streams are about stored runs.                                          *)
SubscribersRooted == \A k \in Clients : streams[k] # NoStream => Stored(streams[k].run)

(* A finalize without trouble publishes what it has stored.                *)
CallKnown(e, stored) ==
  \A a \in e.calls : a.at = "done" /\ ~e.trouble => stored = a.verdict

(* The row says what the executor has stored.                              *)
RowKnown(row, stored) ==
  row.status = IF stored = "none" THEN "running" ELSE stored

(* A client that has been told a verdict was told the stored one.          *)
StreamKnown(s) ==
  Executed(s.run) =>
    /\ s.at = "opening" /\ s.status \in Verdicts => recorded[s.run] = s.status
    /\ s.at = "closed" /\ exec[s.run].at # "rejected" /\ ~exec[s.run].trouble
         => recorded[s.run] = s.status

Untouched == left.put = Budget.put

ToldInv ==
  /\ left.put <= Budget.put
  /\ SubscribersRooted
  /\ \A r \in Runs : Executed(r) => CallKnown(exec[r], recorded[r])
  /\ Untouched =>
       /\ puts = {}
       /\ \A r \in Runs : Executed(r) => RowKnown(rows[r], recorded[r])
       /\ \A k \in Clients : streams[k] # NoStream => StreamKnown(streams[k])

LEMMA Spent ==
  ASSUME WellFormed, NEW what \in Disturbances, Spend(what)
  PROVE  /\ left'.put <= left.put
         /\ what = "put" => left'.put < left.put
         /\ left'.put \in Nat /\ left.put \in Nat
BY DEF WellFormed, TypeOK, Spend, Disturbances

(* Steps that leave executions and streams alone.                          *)
LEMMA SameTold ==
  ASSUME WellFormed, ToldInv, UNCHANGED <<exec, recorded, streams>>,
         \A r \in Runs : Stored(r) => Stored(r)',
         left'.put <= left.put, left'.put \in Nat,
         Untouched' => /\ puts' \subseteq puts
                       /\ \A r \in Runs : Executed(r) => rows'[r].status = rows[r].status
  PROVE  ToldInv'
<1>1. left.put \in Nat /\ Budget.put \in Nat
  BY BoundAssumption DEF WellFormed, TypeOK, Disturbances
<1>2. Untouched' => Untouched
  BY <1>1 DEF Untouched, ToldInv
<1>3. \A k \in Clients : streams[k] # NoStream => streams[k].run \in Runs
  BY DEF WellFormed, TypeOK, Stream
<1>4. left'.put <= Budget.put
  BY <1>1 DEF ToldInv
<1>5. SubscribersRooted'
  BY <1>3 DEF ToldInv, SubscribersRooted
<1>6. \A r \in Runs : Executed(r)' => CallKnown(exec[r], recorded[r])'
  BY DEF ToldInv, CallKnown, Executed
<1>7. ASSUME Untouched'
      PROVE  /\ puts' = {}
             /\ \A r \in Runs : Executed(r)' => RowKnown(rows[r], recorded[r])'
             /\ \A k \in Clients : (streams[k] # NoStream)' => StreamKnown(streams[k])'
  BY <1>2, <1>7 DEF ToldInv, RowKnown, StreamKnown, Executed
<1> QED BY <1>4, <1>5, <1>6, <1>7 DEF ToldInv

LEMMA RequestTold ==
  ASSUME WellFormed, WellFormed', ToldInv,
         \/ \E c \in Cases : Start(c)
         \/ \E c \in Cases, result \in Results : Shortcut(c, result)
         \/ \E result \in {"passed", "failed"} : RunSuite(result)
         \/ \E s \in suites : RunSuiteRows(s)
         \/ \E r \in Runs, status \in Statuses, force \in BOOLEAN : PutRead(r, status, force)
         \/ \E q \in puts : PutWrite(q)
  PROVE  ToldInv'
<1>1. /\ left.put \in Nat /\ Budget.put \in Nat /\ left'.put \in Nat
      /\ left.put <= Budget.put
  BY BoundAssumption DEF WellFormed, TypeOK, Disturbances, ToldInv
<1>2. ASSUME NEW cs \in Seq(Cases), NEW status \in Statuses, NEW finished \in Nat,
             Insert(cs, status, finished)
      PROVE  \A r \in Runs : Stored(r) => Stored(r)' /\ rows'[r] = rows[r]
  BY <1>2, InsertRows DEF WellFormed, Stored
<1>3. \A r \in Runs : Executed(r) => Stored(r)
  BY DEF WellFormed, Rooted
<1>4. ASSUME NEW c \in Cases, Start(c) PROVE ToldInv'
  <2>1. Insert(<<c>>, "not_run", Null) /\ <<c>> \in Seq(Cases) /\ "not_run" \in Statuses
        /\ Null \in Nat
    BY <1>4 DEF Start, Statuses, Results, Null
  <2>2. \A r \in Runs : Stored(r) => Stored(r)' /\ rows'[r] = rows[r]
    BY <1>2, <2>1
  <2> QED BY <1>1, <1>3, <1>4, <2>2, SameTold DEF Start, requests, history
<1>5. ASSUME NEW c \in Cases, NEW result \in Results, Shortcut(c, result) PROVE ToldInv'
  <2> DEFINE finished == IF result = "not_run" THEN Null ELSE clock + 1
  <2>1. Insert(<<c>>, result, finished) /\ <<c>> \in Seq(Cases) /\ result \in Statuses
        /\ finished \in Nat
    BY <1>5 DEF Shortcut, Statuses, Null, WellFormed, TypeOK
  <2> HIDE DEF finished
  <2>2. left'.put <= left.put
    BY <1>5, Spent DEF Shortcut, Disturbances
  <2> QED BY <1>1, <1>2, <1>3, <1>5, <2>1, <2>2, SameTold DEF Shortcut, requests
<1>6. ASSUME NEW result \in {"passed", "failed"}, RunSuite(result) PROVE ToldInv'
  <2>1. left'.put <= left.put
    BY <1>6, Spent DEF RunSuite, Disturbances
  <2> QED BY <1>1, <1>6, <2>1, SameTold DEF RunSuite, Stored
<1>7. ASSUME NEW s \in suites, RunSuiteRows(s) PROVE ToldInv'
  <2>1. s.result \in Statuses /\ s.finished \in Nat /\ Links \in Seq(Cases)
    BY <1>7, SetsAssumption DEF WellFormed, TypeOK, SuiteRun, Statuses, Results
  <2>2. left'.put <= left.put
    BY <1>1, <1>7, Spent DEF RunSuiteRows, Disturbances
  <2>3. \A r \in Runs : Stored(r) => Stored(r)' /\ rows'[r] = rows[r]
    BY <1>2, <1>7, <2>1 DEF RunSuiteRows, Stored
  <2> QED BY <1>1, <1>3, <1>7, <2>2, <2>3, SameTold DEF RunSuiteRows, history
<1>8. ASSUME NEW r \in Runs, NEW status \in Statuses, NEW force \in BOOLEAN,
             PutRead(r, status, force)
      PROVE  ToldInv'
  <2>1. left'.put < left.put
    BY <1>8, Spent DEF PutRead, Disturbances
  <2>2. ~Untouched'
    BY <1>1, <2>1 DEF Untouched
  <2> QED BY <1>1, <1>8, <2>1, <2>2, SameTold DEF PutRead, history, Stored
<1>9. ASSUME NEW q \in puts, PutWrite(q) PROVE ToldInv'
  <2>1. left'.put <= left.put
    BY <1>1, <1>9, Spent DEF PutWrite, Disturbances
  <2>2. ~Untouched'
    BY <1>1, <1>9, <2>1 DEF Untouched, ToldInv
  <2>3. \A r \in Runs : Stored(r) => Stored(r)'
    <3>1. CASE UNCHANGED rows
      BY <3>1 DEF Stored
    <3>2. \A r \in Runs : Stored(r) => r <= lastId
      BY DEF WellFormed, Rooted
    <3>3. q \in Put /\ q.run \in Runs /\ Stored(q.run) /\ rows[q.run] \in Row
      BY <1>9 DEF WellFormed, TypeOK, Rooted, Put, Stored
    <3>4. ASSUME NEW row \in Row, rows' = [rows EXCEPT ![q.run] = row]
          PROVE  \A r \in Runs : Stored(r) => Stored(r)'
      BY <3>3, <3>4, MarkAssumption DEF WellFormed, TypeOK, Stored
    <3>5. \A finished \in Nat : Written(rows[q.run], q.status, finished) \in Row
      BY <3>3, WrittenType DEF Put
    <3>6. (IF q.finished = Null THEN rows[q.run].finished ELSE q.finished) \in Nat
      BY <3>3 DEF Put, Row
    <3> QED BY <1>9, <3>1, <3>4, <3>5, <3>6 DEF PutWrite
  <2> QED BY <1>1, <1>9, <2>1, <2>2, <2>3, SameTold DEF PutWrite, history
<1> QED BY <1>4, <1>5, <1>6, <1>7, <1>8, <1>9

(* Every stream such a step ends is one of r, and is told what is stored.  *)
ToldBy(r, e, stored) ==
  \A k \in Clients :
    \/ streams'[k] = streams[k]
    \/ /\ streams[k] # NoStream /\ streams[k].run = r
       /\ streams'[k].run = r /\ streams'[k].at = "closed"
       /\ e.at # "rejected" /\ ~e.trouble => stored = streams'[k].status

(* One step of the executor of r: its execution becomes e, what it has     *)
(* stored becomes stored, and the streams it tells are told the truth.     *)
LEMMA ExecutorTold ==
  ASSUME WellFormed, WellFormed', ToldInv, NEW r \in Runs, Executed(r),
         NEW e \in Execution, exec' = [exec EXCEPT ![r] = e],
         NEW stored, recorded' = [recorded EXCEPT ![r] = stored], recorded[r] \in {stored, "none"},
         puts' = puts, left'.put <= left.put, left'.put \in Nat,
         \A o \in Runs : Stored(o) => Stored(o)',
         \A o \in Runs : o # r => rows'[o] = rows[o],
         Untouched => RowKnown(rows'[r], stored),
         CallKnown(e, stored),
         e.at # "rejected" => exec[r].at # "rejected",
         ~e.trouble => ~exec[r].trouble,
         ToldBy(r, e, stored)
  PROVE  ToldInv'
<1>1. left.put \in Nat /\ Budget.put \in Nat
  BY BoundAssumption DEF WellFormed, TypeOK, Disturbances
<1>2. Untouched' => Untouched
  BY <1>1 DEF Untouched, ToldInv
<1>3. left'.put <= Budget.put
  BY <1>1 DEF ToldInv
<1>4. /\ exec'[r] = e /\ recorded'[r] = stored
      /\ \A o \in Runs : o # r => exec'[o] = exec[o] /\ recorded'[o] = recorded[o]
  BY DEF WellFormed, TypeOK
<1>5. \A o \in Runs : Executed(o)' => Executed(o)
  BY <1>4 DEF Executed
<1>6. \A k \in Clients : streams[k] # NoStream =>
        streams[k].run \in Runs /\ streams[k].status \in Statuses
  BY DEF WellFormed, TypeOK, Stream
<1>7. SubscribersRooted'
  <2> SUFFICES ASSUME NEW k \in Clients, streams'[k] # NoStream PROVE Stored(streams[k].run)'
    BY DEF SubscribersRooted
  <2>1. CASE streams'[k] = streams[k]
    BY <1>6, <2>1 DEF ToldInv, SubscribersRooted
  <2>2. CASE streams[k] # NoStream /\ streams[k].run = r /\ streams'[k].run = r
    BY <2>2 DEF ToldInv, SubscribersRooted
  <2> QED BY <2>1, <2>2 DEF ToldBy
<1>8. ASSUME NEW o \in Runs, Executed(o)' PROVE CallKnown(exec[o], recorded[o])'
  <2>1. CASE o = r
    BY <1>4, <2>1 DEF CallKnown
  <2>2. CASE o # r
    BY <1>4, <1>5, <1>8, <2>2 DEF ToldInv, CallKnown
  <2> QED BY <2>1, <2>2
<1>9. ASSUME Untouched', NEW o \in Runs, Executed(o)' PROVE RowKnown(rows[o], recorded[o])'
  <2>1. CASE o = r
    BY <1>2, <1>4, <1>9, <2>1 DEF RowKnown
  <2>2. CASE o # r
    BY <1>2, <1>4, <1>5, <1>9, <2>2 DEF ToldInv, RowKnown
  <2> QED BY <2>1, <2>2
<1>10. ASSUME Untouched', NEW k \in Clients, streams'[k] # NoStream
       PROVE  StreamKnown(streams[k])'
  <2> DEFINE s == streams[k]
  <2>1. CASE streams'[k] = s /\ s.run # r
    BY <1>2, <1>4, <1>5, <1>6, <1>10, <2>1 DEF ToldInv, StreamKnown
  <2>2. CASE streams'[k] = s /\ s.run = r
    <3>1. StreamKnown(s) /\ s.status \in Statuses /\ s.status # "none"
      BY <1>2, <1>6, <1>10, <2>2 DEF ToldInv, Statuses, Results, Verdicts
    <3> QED BY <1>4, <2>2, <3>1 DEF StreamKnown
  <2>3. CASE /\ s # NoStream /\ s.run = r
             /\ streams'[k].run = r /\ streams'[k].at = "closed"
             /\ e.at # "rejected" /\ ~e.trouble => stored = streams'[k].status
    BY <1>4, <2>3 DEF StreamKnown
  <2> QED BY <2>1, <2>2, <2>3 DEF ToldBy
<1> QED BY <1>2, <1>3, <1>7, <1>8, <1>9, <1>10 DEF ToldInv

(* What is known before such a step.                                       *)
LEMMA ToldContext ==
  ASSUME WellFormed, AllOrderly, ToldInv, NEW r \in Runs, Executed(r)
  PROVE  /\ CallKnown(exec[r], recorded[r])
         /\ Untouched => RowKnown(rows[r], recorded[r])
         /\ recorded[r] \in {recorded[r], "none"}
         /\ exec[r] \in Execution
         /\ recorded = [recorded EXCEPT ![r] = recorded[r]]
         /\ left.put \in Nat /\ left.put <= left.put
BY RunContext DEF ToldInv, WellFormed, TypeOK, Disturbances

(* What steps of finalize and a crash do to the history of trouble.        *)
LEMMA MovedFields ==
  ASSUME NEW e \in Execution, NEW call, NEW at
  PROVE  Moved(e, call, at).trouble = e.trouble /\ Moved(e, call, at).at = e.at
<1>1. \A calls : [e EXCEPT !.calls = calls].trouble = e.trouble
                 /\ [e EXCEPT !.calls = calls].at = e.at
  BY DEF Execution
<1> QED BY <1>1 DEF Moved

LEMMA ClosingTrouble ==
  ASSUME NEW e \in Execution, NEW verdict
  PROVE  Closing(e, verdict).trouble = e.trouble
<1>1. \A calls : [e EXCEPT !.finished = TRUE, !.calls = calls].trouble = e.trouble
  BY DEF Execution
<1> QED BY <1>1 DEF Closing

LEMMA CallTrouble ==
  ASSUME NEW e \in Execution, NEW call
  PROVE  Resolved(e, call).trouble = e.trouble /\ Troubled(e, call).trouble = TRUE
<1>1. \A calls : /\ [e EXCEPT !.at = "settled", !.calls = calls].trouble = e.trouble
                 /\ [e EXCEPT !.trouble = TRUE, !.calls = calls].trouble = TRUE
  BY DEF Execution
<1> QED BY <1>1 DEF Resolved, Troubled

LEMMA DeadFields ==
  ASSUME NEW e \in Execution
  PROVE  /\ Dead(e).trouble = e.trouble /\ Dead(e).calls = {}
         /\ Dead(e).at = "rejected" <=> e.at = "rejected"
<1>1. \A fate : /\ [e EXCEPT !.alive = FALSE, !.calls = {}, !.at = fate].trouble = e.trouble
                /\ [e EXCEPT !.alive = FALSE, !.calls = {}, !.at = fate].calls = {}
                /\ [e EXCEPT !.alive = FALSE, !.calls = {}, !.at = fate].at = fate
  BY DEF Execution
<1> QED BY <1>1 DEF Dead

LEMMA PublishTold ==
  ASSUME NEW p, NEW r, NEW verdict, Publish(p, r, verdict), WellFormed
  PROVE  \A k \in Clients :
           \/ streams'[k] = streams[k]
           \/ /\ streams[k] # NoStream /\ streams[k].run = r
              /\ streams'[k].run = r /\ streams'[k].at = "closed"
              /\ streams'[k].status = verdict
<1> SUFFICES ASSUME NEW k \in Clients, streams'[k] # streams[k]
             PROVE  /\ streams[k] # NoStream /\ streams[k].run = r
                    /\ streams'[k].run = r /\ streams'[k].at = "closed"
                    /\ streams'[k].status = verdict
  OBVIOUS
<1>1. /\ streams[k] # NoStream /\ Watches(streams[k], p, r)
      /\ streams'[k] = Ended(streams[k], verdict)
  BY DEF Publish
<1>2. streams[k] \in Stream /\ streams[k].run = r
  BY <1>1 DEF WellFormed, TypeOK, Watches
<1> QED BY <1>1, <1>2 DEF Ended, Stream

LEMMA SpawnTold ==
  ASSUME WellFormed, WellFormed', AllOrderly, ToldInv, NEW r \in Runs, Spawn(r)
  PROVE  ToldInv'
<1> DEFINE e == [exec[r] EXCEPT !.at = "child", !.alive = TRUE]
<1>1. Executed(r) /\ exec[r].at = "queued" /\ exec' = [exec EXCEPT ![r] = e]
  BY DEF Spawn
<1>2. exec[r] \in Execution
  BY <1>1, ToldContext
<1>3. /\ e \in Execution /\ e.at = "child" /\ e.trouble = exec[r].trouble
      /\ e.calls = exec[r].calls
  BY <1>2 DEF Execution
<1> HIDE DEF e
<1>4. CallKnown(e, recorded[r])
  BY <1>1, <1>3, ToldContext DEF CallKnown
<1>5. UNCHANGED <<rows, recorded, streams, puts, left>>
  BY DEF Spawn, requests, history
<1>6. \A o \in Runs : Stored(o) => Stored(o)'
  BY <1>5 DEF Stored
<1>7. ToldBy(r, e, recorded[r])
  BY <1>5 DEF ToldBy
<1> QED BY <1>1, <1>3, <1>4, <1>5, <1>6, <1>7, ToldContext, ExecutorTold

LEMMA RejectTold ==
  ASSUME WellFormed, WellFormed', AllOrderly, ToldInv, NEW r \in Runs, Reject(r)
  PROVE  ToldInv'
<1> DEFINE e == [exec[r] EXCEPT !.at = "rejected"]
<1>1. Executed(r) /\ exec[r].at = "queued" /\ exec' = [exec EXCEPT ![r] = e]
  BY DEF Reject
<1>2. exec[r] \in Execution
  BY <1>1, ToldContext
<1>3. /\ e \in Execution /\ e.at = "rejected" /\ e.trouble = exec[r].trouble
      /\ e.calls = exec[r].calls
  BY <1>2 DEF Execution
<1> HIDE DEF e
<1>4. CallKnown(e, recorded[r])
  BY <1>1, <1>3, ToldContext DEF CallKnown
<1>5. UNCHANGED <<rows, recorded, puts>> /\ left'.put <= left.put /\ left'.put \in Nat
  BY Spent DEF Reject, requests, Disturbances
<1>6. \A o \in Runs : Stored(o) => Stored(o)'
  BY <1>5 DEF Stored
<1>7. Publish(exec[r].by, r, "errored")
  BY DEF Reject
<1>8. ToldBy(r, e, recorded[r])
  BY <1>3, <1>7, PublishTold DEF ToldBy
<1>9. /\ recorded' = [recorded EXCEPT ![r] = recorded[r]]
      /\ Untouched => RowKnown(rows'[r], recorded[r])
  BY <1>1, <1>5, ToldContext
<1>10. e.at # "rejected" => exec[r].at # "rejected"
  BY <1>1
<1> QED BY <1>1, <1>3, <1>4, <1>5, <1>6, <1>8, <1>9, <1>10, ExecutorTold

LEMMA EventTold ==
  ASSUME WellFormed, WellFormed', AllOrderly, ToldInv, NEW r \in Runs,
         ErrorEvent(r) \/ ExitEvent(r)
  PROVE  ToldInv'
<1>1. Executed(r) /\ exec[r] \in Execution
  BY DEF ErrorEvent, ExitEvent, Executed, WellFormed, TypeOK
<1>2. ASSUME NEW event \in Execution, event.at = exec[r].at, event.trouble = exec[r].trouble,
             event.calls = exec[r].calls, NEW verdict \in Verdicts, Finish(r, event, verdict)
      PROVE  ToldInv'
  <2> DEFINE e == IF MayFinish(exec[r]) THEN Closing(event, verdict) ELSE event
             call == [verdict |-> verdict, finished |-> clock + 1,
                      at |-> FirstStatement(verdict)]
  <2>1. e \in Execution
    BY <1>2, ClosingType
  <2>2. /\ e.at = exec[r].at /\ e.trouble = exec[r].trouble
        /\ e.calls \subseteq exec[r].calls \cup {call}
    <3>1. /\ Closing(event, verdict).at = event.at
          /\ Closing(event, verdict).trouble = event.trouble
          /\ Closing(event, verdict).calls = event.calls \cup {call}
      BY <1>2, ClosingFields, ClosingTrouble
    <3> HIDE DEF call
    <3>2. CASE MayFinish(exec[r])
      <4>1. e = Closing(event, verdict)
        BY <3>2
      <4> HIDE DEF e
      <4> QED BY <1>2, <3>1, <4>1
    <3>3. CASE ~MayFinish(exec[r])
      BY <1>2, <3>3
    <3> QED BY <3>2, <3>3
  <2>3. exec' = [exec EXCEPT ![r] = e]
    BY <1>2 DEF Finish
  <2>4. call.at = "row"
    BY DEF FirstStatement
  <2> HIDE DEF e, call
  <2>5. CallKnown(e, recorded[r])
    BY <1>1, <2>2, <2>4, ToldContext DEF CallKnown
  <2>6. UNCHANGED <<rows, recorded, streams, puts, left>>
    BY <1>2 DEF Finish, requests, history
  <2>7. \A o \in Runs : Stored(o) => Stored(o)'
    BY <2>6 DEF Stored
  <2>8. ToldBy(r, e, recorded[r])
    BY <2>6 DEF ToldBy
  <2> QED BY <1>1, <2>1, <2>2, <2>3, <2>5, <2>6, <2>7, <2>8, ToldContext, ExecutorTold
<1>3. ASSUME NEW exitFollows \in BOOLEAN
      PROVE  LET event == [exec[r] EXCEPT !.erred = TRUE, !.alive = exitFollows]
             IN  /\ event \in Execution /\ event.at = exec[r].at
                 /\ event.trouble = exec[r].trouble /\ event.calls = exec[r].calls
  BY <1>1 DEF Execution
<1>4. LET event == [exec[r] EXCEPT !.alive = FALSE]
      IN  /\ event \in Execution /\ event.at = exec[r].at
          /\ event.trouble = exec[r].trouble /\ event.calls = exec[r].calls
  BY <1>1 DEF Execution
<1>5. CASE ErrorEvent(r)
  BY <1>2, <1>3, <1>5 DEF ErrorEvent, Verdicts
<1>6. CASE ExitEvent(r)
  BY <1>2, <1>4, <1>6, VerdictType DEF ExitEvent
<1> QED BY <1>5, <1>6

LEMMA FinalizingTold ==
  ASSUME WellFormed, WellFormed', AllOrderly, ToldInv, NEW r \in Runs, Executed(r),
         NEW call \in exec[r].calls,
         \/ StoreRow(r, call) \/ StorePill(r, call) \/ StoreFails(r, call) \/ Settle(r, call)
  PROVE  ToldInv'
<1>1. /\ exec[r] \in Execution /\ call \in Finalize /\ call.verdict \in Verdicts
      /\ exec[r].calls = {call} /\ exec[r].at = "child"
      /\ call.at = "row" => recorded[r] = "none"
      /\ call.at = "pill" => recorded[r] = call.verdict
      /\ Stored(r) /\ rows[r] \in Row
  BY OneCall, CallContext DEF Finalize
<1>2. ASSUME NEW at \in {"pill", "done"}, at = "pill" => call.verdict # "errored",
             MoveCall(r, call, at), NEW stored,
             stored = call.verdict, recorded[r] \in {stored, "none"},
             recorded' = [recorded EXCEPT ![r] = stored],
             UNCHANGED <<streams, puts, left>>, \A o \in Runs : Stored(o) => Stored(o)',
             \A o \in Runs : o # r => rows'[o] = rows[o],
             Untouched => RowKnown(rows'[r], stored)
      PROVE  ToldInv'
  <2> DEFINE moved == [call EXCEPT !.at = at]
             e == Moved(exec[r], call, at)
  <2>1. moved.verdict = call.verdict
    BY <1>1 DEF Finalize
  <2>2. e = [exec[r] EXCEPT !.calls = (exec[r].calls \ {call}) \cup {moved}]
    BY DEF Moved
  <2>3. exec' = [exec EXCEPT ![r] = e]
    BY <1>2 DEF MoveCall
  <2>4. e.trouble = exec[r].trouble /\ e.at = exec[r].at
    BY <1>1, MovedFields
  <2> HIDE DEF moved
  <2>5. e.calls = {moved}
    <3> HIDE DEF e
    <3> QED BY <1>1, <2>2 DEF Execution
  <2> HIDE DEF e
  <2>6. e \in Execution
    <3>1. moved \in Finalize
      BY <1>1, <1>2 DEF moved, Finalize
    <3> QED BY <1>1, <2>2, <3>1 DEF Execution
  <2>7. CallKnown(e, stored)
    BY <1>2, <2>1, <2>5 DEF CallKnown
  <2>8. ToldBy(r, e, stored)
    BY <1>2 DEF ToldBy
  <2> QED BY <1>2, <2>3, <2>4, <2>6, <2>7, <2>8, ToldContext, ExecutorTold
<1>3. CASE StoreRow(r, call)
  <2> DEFINE at == IF CaseResult(call.verdict) = "none" THEN "done" ELSE "pill"
             row == Written(rows[r], call.verdict, call.finished)
  <2>1. /\ MoveCall(r, call, at) /\ at \in {"pill", "done"} /\ call.at = "row"
        /\ at = "pill" => call.verdict # "errored"
    BY <1>3 DEF StoreRow, CaseResult
  <2>2. rows' = [rows EXCEPT ![r] = row]
    BY <1>3 DEF StoreRow
  <2>3. row.status = call.verdict /\ row # NoRow
    <3>1. call.finished \in Nat /\ call.verdict \in Statuses
      BY <1>1 DEF Finalize, Statuses
    <3> QED BY <1>1, <3>1, WrittenFields, WrittenType, MarkAssumption
  <2> HIDE DEF at, row
  <2>4. /\ \A o \in Runs : Stored(o) => Stored(o)'
        /\ \A o \in Runs : o # r => rows'[o] = rows[o]
        /\ RowKnown(rows'[r], call.verdict)
    BY <1>1, <2>2, <2>3 DEF WellFormed, TypeOK, Stored, RowKnown, Verdicts
  <2> QED BY <1>1, <1>2, <1>3, <2>1, <2>4 DEF StoreRow, requests
<1>4. CASE StorePill(r, call)
  <2>1. UNCHANGED <<rows, recorded, streams, puts, left>> /\ MoveCall(r, call, "done")
        /\ call.at = "pill"
    BY <1>4 DEF StorePill, requests
  <2>2. /\ recorded' = [recorded EXCEPT ![r] = call.verdict]
        /\ Untouched => RowKnown(rows'[r], call.verdict)
        /\ recorded[r] = call.verdict
    BY <1>1, <2>1, ToldContext
  <2>3. \A o \in Runs : Stored(o) => Stored(o)'
    BY <2>1 DEF Stored
  <2> QED BY <1>2, <2>1, <2>2, <2>3
<1>5. CASE StoreFails(r, call)
  <2> DEFINE e == Troubled(exec[r], call)
  <2>1. e \in Execution /\ e.at = exec[r].at /\ e.trouble = TRUE
    <3>1. e \in Execution
      BY TroubledType
    <3>2. e.at = exec[r].at
      BY <1>1, Fields
    <3>3. e.trouble = TRUE
      BY <1>1, CallTrouble
    <3> QED BY <3>1, <3>2, <3>3
  <2>2. exec' = [exec EXCEPT ![r] = e]
    BY <1>5 DEF StoreFails
  <2> HIDE DEF e
  <2>3. UNCHANGED <<rows, recorded, streams, puts>> /\ left'.put <= left.put /\ left'.put \in Nat
    BY <1>5, Spent DEF StoreFails, requests, history, Disturbances
  <2>4. \A o \in Runs : Stored(o) => Stored(o)'
    BY <2>3 DEF Stored
  <2>5. CallKnown(e, recorded[r])
    BY <2>1 DEF CallKnown
  <2>6. ToldBy(r, e, recorded[r])
    BY <2>3 DEF ToldBy
  <2> QED BY <2>1, <2>2, <2>3, <2>4, <2>5, <2>6, ToldContext, ExecutorTold
<1>6. CASE Settle(r, call)
  <2> DEFINE e == Resolved(exec[r], call)
  <2>1. /\ e \in Execution /\ e.at = "settled" /\ e.trouble = exec[r].trouble /\ e.calls = {}
    <3>1. e \in Execution
      BY TroubledType
    <3>2. e.at = "settled" /\ e.calls = {}
      BY <1>1, ResolvedFields
    <3>3. e.trouble = exec[r].trouble
      BY <1>1, CallTrouble
    <3> QED BY <3>1, <3>2, <3>3
  <2>2. exec' = [exec EXCEPT ![r] = e] /\ call.at = "done"
    BY <1>6 DEF Settle
  <2> HIDE DEF e
  <2>3. UNCHANGED <<rows, recorded, puts, left>> /\ Publish(exec[r].by, r, call.verdict)
    BY <1>6 DEF Settle, requests
  <2>4. \A o \in Runs : Stored(o) => Stored(o)'
    BY <2>3 DEF Stored
  <2>5. CallKnown(e, recorded[r])
    BY <2>1 DEF CallKnown
  <2>6. ~e.trouble => recorded[r] = call.verdict
    BY <1>1, <2>1, <2>2, ToldContext DEF CallKnown
  <2>7. e.at # "rejected" => exec[r].at # "rejected"
    BY <1>1
  <2>8. ToldBy(r, e, recorded[r])
    BY <2>3, <2>6, PublishTold DEF ToldBy
  <2>9. /\ recorded' = [recorded EXCEPT ![r] = recorded[r]]
        /\ Untouched => RowKnown(rows'[r], recorded[r])
        /\ left'.put <= left.put /\ left'.put \in Nat
    BY <2>3, ToldContext
  <2> QED BY <2>1, <2>2, <2>3, <2>4, <2>5, <2>7, <2>8, <2>9, ExecutorTold
<1> QED BY <1>3, <1>4, <1>5, <1>6

LEMMA ExecuteTold ==
  ASSUME WellFormed, WellFormed', AllOrderly, ToldInv, NEW p \in Replicas, NEW c \in Cases,
         Execute(p, c)
  PROVE  ToldInv'
<1> DEFINE r == lastId + 1
           e == [by |-> p, at |-> "queued", alive |-> FALSE, erred |-> FALSE,
                 finished |-> FALSE, trouble |-> FALSE, calls |-> {}]
<1>1. /\ exec' = [exec EXCEPT ![r] = e] /\ UNCHANGED <<recorded, streams, puts, left>>
      /\ Insert(<<c>>, "running", Null)
  BY DEF Execute, history, requests
<1>2. /\ lastId \in Nat /\ <<c>> \in Seq(Cases) /\ Len(<<c>>) = 1 /\ Null \in Nat
      /\ "running" \in Statuses
  BY BoundAssumption DEF WellFormed, TypeOK, Null, Statuses
<1>3. r \in Runs /\ ~Stored(r) /\ ~Executed(r)
  BY <1>1, <1>2, BoundAssumption DEF Insert, Runs, WellFormed, Rooted
<1>4. recorded[r] = "none"
  BY <1>3 DEF AllOrderly, RunOrderly
<1>5. \A o \in Runs : Stored(o) => rows'[o] = rows[o] /\ Stored(o)'
  BY <1>1, <1>2, InsertRows DEF WellFormed, Stored
<1>6. rows'[r].status = "running"
  BY <1>1, <1>2, <1>3 DEF Insert
<1>7. e.calls = {}
  OBVIOUS
<1> HIDE DEF e
<1>8. exec'[r] = e /\ \A o \in Runs : o # r => exec'[o] = exec[o]
  BY <1>1, <1>3 DEF WellFormed, TypeOK
<1>9. \A k \in Clients : streams[k] # NoStream =>
        streams[k].run \in Runs /\ streams[k].run # r /\ Stored(streams[k].run)
  BY <1>3 DEF WellFormed, TypeOK, Stream, ToldInv, SubscribersRooted
<1> HIDE DEF r
<1>10. left'.put <= Budget.put /\ SubscribersRooted'
  BY <1>1, <1>5, <1>9 DEF ToldInv, SubscribersRooted
<1>11. \A o \in Runs : Executed(o)' => CallKnown(exec[o], recorded[o])'
  BY <1>1, <1>7, <1>8 DEF ToldInv, CallKnown, Executed
<1>12. ASSUME Untouched'
       PROVE  /\ puts' = {}
              /\ \A o \in Runs : Executed(o)' => RowKnown(rows[o], recorded[o])'
              /\ \A k \in Clients : (streams[k] # NoStream)' => StreamKnown(streams[k])'
  <2>1. Untouched
    BY <1>1, <1>12 DEF Untouched
  <2>2. \A o \in Runs : Executed(o) => Stored(o)
    BY DEF WellFormed, Rooted
  <2>3. \A o \in Runs : Executed(o)' => RowKnown(rows[o], recorded[o])'
    BY <1>1, <1>4, <1>5, <1>6, <1>8, <2>1, <2>2 DEF ToldInv, RowKnown, Executed
  <2>4. \A k \in Clients : (streams[k] # NoStream)' => StreamKnown(streams[k])'
    BY <1>1, <1>8, <1>9, <2>1 DEF ToldInv, StreamKnown, Executed
  <2> QED BY <1>1, <2>1, <2>3, <2>4 DEF ToldInv
<1> QED BY <1>10, <1>11, <1>12 DEF ToldInv

(* Steps of the streams: a snapshot tells what the row says.               *)
LEMMA WatchingTold ==
  ASSUME WellFormed, WellFormed', AllOrderly, ToldInv, Watching
  PROVE  ToldInv'
<1>1. UNCHANGED <<rows, exec, puts, recorded>>
  BY DEF Watching, Open, Subscribe, Leave, requests, history
<1>2. left'.put <= left.put /\ left'.put \in Nat /\ left.put \in Nat /\ Budget.put \in Nat
  <2>1. left' = left \/ Spend("stream")
    BY DEF Watching, Open, Subscribe, Leave
  <2> QED BY <2>1, Spent, BoundAssumption DEF Disturbances, WellFormed, TypeOK
<1>3. Untouched' => Untouched
  BY <1>2 DEF Untouched, ToldInv
<1>4. \A k \in Clients : streams[k] # NoStream =>
        streams[k] \in Stream /\ streams[k].run \in Runs /\ Stored(streams[k].run)
  BY DEF WellFormed, TypeOK, Stream, ToldInv, SubscribersRooted
<1>5. ASSUME NEW k \in Clients, streams'[k] # NoStream
      PROVE  Stored(streams'[k].run) /\ (Untouched => StreamKnown(streams'[k]))
  <2>1. CASE streams'[k] = streams[k]
    BY <1>4, <1>5, <2>1 DEF ToldInv
  <2>2. ASSUME NEW p \in Replicas, NEW r \in Runs, Open(k, p, r)
        PROVE  Stored(streams'[k].run) /\ (Untouched => StreamKnown(streams'[k]))
    <3>1. /\ streams'[k].run = r /\ streams'[k].at = "opening"
          /\ streams'[k].status = rows[r].status /\ Stored(r)
      BY <2>2 DEF Open, WellFormed, TypeOK
    <3>2. Untouched /\ Executed(r) => RowKnown(rows[r], recorded[r])
      BY DEF ToldInv
    <3> QED BY <3>1, <3>2 DEF StreamKnown, RowKnown, Verdicts
  <2>3. CASE Subscribe(k)
    <3>1. streams[k] # NoStream /\ streams[k].at = "opening" /\ streams[k] \in Stream
      BY <1>4, <2>3 DEF Subscribe
    <3>2. /\ streams'[k].run = streams[k].run /\ streams'[k].status = streams[k].status
          /\ streams'[k].at = IF streams[k].status \in Verdicts THEN "closed" ELSE "watching"
      BY <2>3, <3>1 DEF Subscribe, WellFormed, TypeOK, Stream
    <3>3. Stored(streams[k].run) /\ (Untouched => StreamKnown(streams[k]))
      BY <1>4, <3>1 DEF ToldInv
    <3> QED BY <3>1, <3>2, <3>3 DEF StreamKnown
  <2>4. \/ streams'[k] = streams[k] \/ Subscribe(k) \/ streams'[k] = NoStream
        \/ \E p \in Replicas, r \in Runs : Open(k, p, r)
    BY DEF Watching, Open, Subscribe, Leave, WellFormed, TypeOK
  <2> QED BY <1>5, <2>1, <2>2, <2>3, <2>4
<1>6. left'.put <= Budget.put
  BY <1>2 DEF ToldInv
<1>7. SubscribersRooted' /\ (\A r \in Runs : Executed(r)' => CallKnown(exec[r], recorded[r])')
  BY <1>1, <1>5 DEF ToldInv, SubscribersRooted, CallKnown, Executed, Stored
<1>8. ASSUME Untouched'
      PROVE  /\ puts' = {}
             /\ \A r \in Runs : Executed(r)' => RowKnown(rows[r], recorded[r])'
             /\ \A k \in Clients : (streams[k] # NoStream)' => StreamKnown(streams[k])'
  BY <1>1, <1>3, <1>5, <1>8 DEF ToldInv, RowKnown, StreamKnown, Executed
<1> QED BY <1>6, <1>7, <1>8 DEF ToldInv

LEMMA CrashTold ==
  ASSUME WellFormed, WellFormed', AllOrderly, ToldInv, NEW p \in Replicas, Crash(p)
  PROVE  ToldInv'
<1>1. UNCHANGED <<rows, recorded>> /\ puts' \subseteq puts
  BY DEF Crash, history
<1>2. left'.put <= left.put /\ left'.put \in Nat /\ left.put \in Nat /\ Budget.put \in Nat
  BY Spent, BoundAssumption DEF Crash, Disturbances, WellFormed, TypeOK
<1>3. Untouched' => Untouched
  BY <1>2 DEF Untouched, ToldInv
<1>4. \A r \in Runs : Executed(r)' =>
        /\ Executed(r) /\ exec'[r].trouble = exec[r].trouble
        /\ exec'[r].at = "rejected" <=> exec[r].at = "rejected"
        /\ exec'[r].calls \subseteq exec[r].calls
  <2> SUFFICES ASSUME NEW r \in Runs, Executed(r)'
               PROVE  /\ Executed(r) /\ exec'[r].trouble = exec[r].trouble
                      /\ exec'[r].at = "rejected" <=> exec[r].at = "rejected"
                      /\ exec'[r].calls \subseteq exec[r].calls
    OBVIOUS
  <2>1. Executed(r) /\ exec[r] \in Execution
    BY DEF Crash, Executed, WellFormed, TypeOK
  <2>2. exec'[r] = exec[r] \/ exec'[r] = Dead(exec[r])
    BY DEF Crash
  <2> QED BY <2>1, <2>2, DeadFields
<1>5. \A k \in Clients : streams'[k] \in {NoStream, streams[k]}
  BY DEF Crash
<1>6. \A k \in Clients : streams[k] # NoStream => streams[k].run \in Runs
  BY DEF WellFormed, TypeOK, Stream
<1>7. left'.put <= Budget.put
  BY <1>2 DEF ToldInv
<1>8. SubscribersRooted'
  BY <1>1, <1>5 DEF ToldInv, SubscribersRooted, Stored
<1>9. \A r \in Runs : Executed(r)' => CallKnown(exec[r], recorded[r])'
  BY <1>1, <1>4 DEF ToldInv, CallKnown
<1>10. ASSUME Untouched'
       PROVE  /\ puts' = {}
              /\ \A r \in Runs : Executed(r)' => RowKnown(rows[r], recorded[r])'
              /\ \A k \in Clients : (streams[k] # NoStream)' => StreamKnown(streams[k])'
  BY <1>1, <1>3, <1>4, <1>5, <1>6, <1>10 DEF ToldInv, RowKnown, StreamKnown
<1> QED BY <1>7, <1>8, <1>9, <1>10 DEF ToldInv

LEMMA StepTold ==
  ASSUME WellFormed, WellFormed', AllOrderly, ToldInv, [Next]_vars
  PROVE  ToldInv'
<1>1. CASE UNCHANGED vars
  <2>1. UNCHANGED <<rows, exec, streams, puts, left, recorded>>
    BY <1>1 DEF vars
  <2>2. left.put \in Nat /\ left.put <= left.put
    BY DEF WellFormed, TypeOK, Disturbances
  <2> QED BY <2>1, <2>2, SameTold DEF Stored
<1>2. CASE Requests
  BY <1>2, RequestTold, ExecuteTold DEF Requests
<1>3. ASSUME NEW r \in Runs, Executor(r) PROVE ToldInv'
  <2>1. CASE Finalizing(r)
    BY <2>1, FinalizingTold DEF Finalizing
  <2> QED BY <1>3, <2>1, SpawnTold, RejectTold, EventTold DEF Executor
<1> QED BY <1>1, <1>2, <1>3, WatchingTold, CrashTold DEF Next

(* A client whose stream was closed was told what the table says, however  *)
(* the publication, the snapshot of its stream, crashes and failures of    *)
(* other runs fall: of ToldIsTrue, for any number of runs and clients.     *)
THEOREM ClientsToldTheTruth == Spec => []ToldIsTrue
<1>1. Init => WellFormed /\ AllOrderly /\ ToldInv
  <2>1. Init => WellFormed /\ AllOrderly
    BY InitWellFormed DEF Init, AllOrderly, RunOrderly, Executed
  <2>2. Init => ToldInv
    BY BoundAssumption DEF Init, ToldInv, SubscribersRooted, Executed, Disturbances
  <2> QED BY <2>1, <2>2
<1>2. WellFormed /\ AllOrderly /\ ToldInv /\ [Next]_vars
        => WellFormed' /\ AllOrderly' /\ ToldInv'
  BY StepWellFormed, StepOrder, StepTold
<1>3. WellFormed /\ ToldInv => ToldIsTrue
  <2> SUFFICES ASSUME WellFormed, ToldInv, NEW k \in Clients, streams[k] # NoStream,
                      streams[k].at = "closed", Executed(streams[k].run),
                      exec[streams[k].run].at = "settled", ~exec[streams[k].run].trouble,
                      Untouched
               PROVE  rows[streams[k].run].status = streams[k].status
    BY DEF ToldIsTrue, Untouched
  <2>1. streams[k].run \in Runs /\ streams[k].status \in Statuses
    BY DEF WellFormed, TypeOK, Stream
  <2>2. recorded[streams[k].run] = streams[k].status
    BY DEF ToldInv, StreamKnown
  <2>3. RowKnown(rows[streams[k].run], recorded[streams[k].run])
    BY <2>1 DEF ToldInv
  <2> QED BY <2>1, <2>2, <2>3 DEF RowKnown, Statuses, Results, Verdicts
<1> QED BY <1>1, <1>2, <1>3, PTL DEF Spec
-----------------------------------------------------------------------------
(* TestRuns implements RunContract.  What the contract sees of a step is   *)
(* the standing of one execution, or of those that die together, and what  *)
(* it has stored and told; AllOrderly says that it is under way when it    *)
(* stores or tells, and has stored nothing before.                         *)

Standings == [r \in Runs |-> Standing(exec[r])]

LEMMA InContract ==
  ASSUME NEW e \in Execution
  PROVE  /\ e # NoExecution
         /\ Standing(e) \in {"underway", "ended", "lost"}
         /\ e.at \in {"queued", "child"} => Standing(e) = "underway"
         /\ e.at \in {"rejected", "settled"} => Standing(e) = "ended"
         /\ e.at = "lost" => Standing(e) = "lost"
<1>1. e # NoExecution
  BY MarkAssumption
<1>2. e.at \in {"queued", "child", "settled", "rejected", "lost"}
  BY DEF Execution
<1> QED BY <1>1, <1>2 DEF Standing

LEMMA OneStanding ==
  ASSUME WellFormed, NEW r \in Runs, NEW e \in Execution, exec' = [exec EXCEPT ![r] = e]
  PROVE  Standings' = [Standings EXCEPT ![r] = Standing(e)]
BY DEF WellFormed, TypeOK, Standings

(* Steps the contract does not see.                                        *)
LEMMA Unseen ==
  ASSUME Standings' = Standings, UNCHANGED <<recorded, dones>>
  PROVE  [Contract!Next]_(Contract!vars)
BY DEF Contract!vars, Standings

LEMMA SameStanding ==
  ASSUME WellFormed, NEW r \in Runs, Executed(r), NEW e \in Execution,
         e.at = exec[r].at \/ {e.at, exec[r].at} \subseteq {"queued", "child"},
         exec' = [exec EXCEPT ![r] = e], UNCHANGED <<recorded, dones>>
  PROVE  [Contract!Next]_(Contract!vars)
<1>1. exec[r] \in Execution
  BY DEF WellFormed, TypeOK, Executed
<1>2. Standing(e) = Standing(exec[r])
  <2>1. e.at \in {"queued", "child", "settled", "rejected", "lost"}
    BY DEF Execution
  <2> QED BY <1>1, <2>1, InContract
<1>3. Standings' = [Standings EXCEPT ![r] = Standings[r]]
  BY <1>2, OneStanding DEF Standings
<1>4. Standings' = Standings
  BY <1>3 DEF Standings
<1> QED BY <1>4, Unseen

LEMMA ContractTell ==
  ASSUME WellFormed, NEW r \in Runs, Executed(r), exec[r].at \in {"queued", "child"},
         NEW e \in Execution, e.at \in {"rejected", "settled"},
         exec' = [exec EXCEPT ![r] = e],
         dones' = [dones EXCEPT ![r] = @ + 1], recorded' = recorded
  PROVE  [Contract!Next]_(Contract!vars)
<1>1. exec[r] \in Execution
  BY DEF WellFormed, TypeOK, Executed
<1>2. Standings[r] = "underway" /\ Standing(e) = "ended"
  BY <1>1, InContract DEF Standings
<1>3. Standings' = [Standings EXCEPT ![r] = "ended"]
  BY <1>2, OneStanding
<1>4. Contract!Tell(r)
  BY <1>2, <1>3 DEF Contract!Tell, Standings
<1> QED BY <1>4 DEF Contract!Next

LEMMA ExecuteContract ==
  ASSUME WellFormed, NEW p \in Replicas, NEW c \in Cases, Execute(p, c)
  PROVE  [Contract!Next]_(Contract!vars)
<1> DEFINE r == lastId + 1
           e == [by |-> p, at |-> "queued", alive |-> FALSE, erred |-> FALSE,
                 finished |-> FALSE, trouble |-> FALSE, calls |-> {}]
<1>1. exec' = [exec EXCEPT ![r] = e] /\ dones' = dones /\ recorded' = recorded
  BY DEF Execute, history
<1>2. lastId \in Nat /\ r \in Runs
  <2>1. Len(<<c>>) = 1 /\ lastId + Len(<<c>>) <= MaxRuns
    BY DEF Execute, Insert
  <2> QED BY <2>1, BoundAssumption DEF WellFormed, TypeOK, Runs
<1>3. ~Executed(r)
  BY <1>2 DEF WellFormed, Rooted
<1>4. e \in Execution /\ e.at = "queued"
  BY DEF Execution
<1> HIDE DEF r, e
<1>5. Standings[r] = "unstarted" /\ Standing(e) = "underway"
  BY <1>2, <1>3, <1>4, InContract DEF Standings, Standing, Executed
<1>6. Standings' = [Standings EXCEPT ![r] = "underway"]
  BY <1>1, <1>2, <1>4, <1>5, OneStanding
<1>7. Contract!Start(r)
  BY <1>1, <1>5, <1>6 DEF Contract!Start, Standings
<1> QED BY <1>2, <1>7 DEF Contract!Next

LEMMA EventContract ==
  ASSUME WellFormed, NEW r \in Runs, ErrorEvent(r) \/ ExitEvent(r)
  PROVE  [Contract!Next]_(Contract!vars)
<1>1. Executed(r) /\ exec[r] \in Execution
  BY DEF ErrorEvent, ExitEvent, Executed, WellFormed, TypeOK
<1>2. ASSUME NEW event \in Execution, event.at = exec[r].at, NEW verdict \in Verdicts,
             event.calls = exec[r].calls, Finish(r, event, verdict)
      PROVE  [Contract!Next]_(Contract!vars)
  <2> DEFINE e == IF MayFinish(exec[r]) THEN Closing(event, verdict) ELSE event
  <2>1. exec' = [exec EXCEPT ![r] = e] /\ dones' = dones /\ recorded' = recorded
    BY <1>2 DEF Finish, history
  <2>2. Closing(event, verdict) \in Execution /\ Closing(event, verdict).at = exec[r].at
    BY <1>2, ClosingType, ClosingFields
  <2>3. e \in Execution /\ e.at = exec[r].at
    BY <1>2, <2>2
  <2> HIDE DEF e
  <2> QED BY <1>1, <2>1, <2>3, SameStanding
<1>3. ASSUME NEW exitFollows \in BOOLEAN,
             Finish(r, [exec[r] EXCEPT !.erred = TRUE, !.alive = exitFollows], "errored")
      PROVE  [Contract!Next]_(Contract!vars)
  <2> DEFINE event == [exec[r] EXCEPT !.erred = TRUE, !.alive = exitFollows]
  <2>1. /\ event \in Execution /\ event.at = exec[r].at /\ event.calls = exec[r].calls
    BY <1>1 DEF Execution
  <2>2. Finish(r, event, "errored") /\ "errored" \in Verdicts
    BY <1>3 DEF Verdicts
  <2> HIDE DEF event
  <2> QED BY <1>2, <2>1, <2>2
<1>4. ASSUME NEW verdict \in Verdicts,
             Finish(r, [exec[r] EXCEPT !.alive = FALSE], verdict)
      PROVE  [Contract!Next]_(Contract!vars)
  <2> DEFINE event == [exec[r] EXCEPT !.alive = FALSE]
  <2>1. /\ event \in Execution /\ event.at = exec[r].at /\ event.calls = exec[r].calls
    BY <1>1 DEF Execution
  <2>2. Finish(r, event, verdict)
    BY <1>4
  <2> HIDE DEF event
  <2> QED BY <1>2, <2>1, <2>2
<1> QED BY <1>3, <1>4, VerdictType DEF ErrorEvent, ExitEvent

LEMMA FinalizeContract ==
  ASSUME WellFormed, AllOrderly, NEW r \in Runs, Executed(r), NEW call \in exec[r].calls,
         \/ StoreRow(r, call) \/ StorePill(r, call)
         \/ StoreFails(r, call) \/ Settle(r, call)
  PROVE  [Contract!Next]_(Contract!vars)
<1>1. /\ exec[r] \in Execution /\ call \in Finalize /\ exec[r].at = "child"
      /\ call.at = "row" => recorded[r] = "none"
  BY OneCall
<1>2. ASSUME NEW at \in {"pill", "done"}, at = "pill" => call.verdict # "errored"
      PROVE  Moved(exec[r], call, at) \in Execution /\ Moved(exec[r], call, at).at = "child"
  <2> DEFINE moved == [call EXCEPT !.at = at]
             calls == (exec[r].calls \ {call}) \cup {moved}
  <2>1. moved \in Finalize
    <3>1. CASE at = "pill"
      BY <1>1, <1>2, <3>1 DEF Finalize
    <3>2. CASE at = "done"
      BY <1>1, <3>2 DEF Finalize
    <3> QED BY <3>1, <3>2
  <2>2. Moved(exec[r], call, at) = [exec[r] EXCEPT !.calls = calls]
    BY DEF Moved
  <2> HIDE DEF moved
  <2> QED BY <1>1, <2>1, <2>2 DEF Execution
<1>3. CASE StoreRow(r, call)
  <2> DEFINE at == IF CaseResult(call.verdict) = "none" THEN "done" ELSE "pill"
             e == Moved(exec[r], call, at)
  <2>1. at \in {"pill", "done"} /\ (at = "pill" => call.verdict # "errored")
    BY DEF CaseResult
  <2>2. /\ exec' = [exec EXCEPT ![r] = e] /\ dones' = dones
        /\ recorded' = [recorded EXCEPT ![r] = call.verdict]
        /\ recorded[r] = "none"
    BY <1>1, <1>3 DEF StoreRow, MoveCall
  <2> HIDE DEF at
  <2>3. e \in Execution /\ e.at = "child"
    BY <1>2, <2>1
  <2> HIDE DEF e
  <2>4. Standings[r] = "underway" /\ Standing(e) = "underway"
    BY <1>1, <2>3, InContract DEF Standings
  <2>5. Standings' = [Standings EXCEPT ![r] = Standings[r]]
    BY <2>2, <2>3, <2>4, OneStanding
  <2>6. Standings' = Standings
    BY <2>5 DEF Standings
  <2>7. Contract!Store(r, call.verdict) /\ call.verdict \in Verdicts
    BY <1>1, <2>2, <2>4, <2>6 DEF Contract!Store, Standings, Finalize
  <2> QED BY <2>7 DEF Contract!Next
<1>4. CASE StorePill(r, call)
  <2> DEFINE e == Moved(exec[r], call, "done")
  <2>1. exec' = [exec EXCEPT ![r] = e] /\ dones' = dones /\ recorded' = recorded
    BY <1>4 DEF StorePill, MoveCall
  <2>2. e \in Execution /\ e.at = exec[r].at
    BY <1>1, <1>2
  <2> HIDE DEF e
  <2> QED BY <2>1, <2>2, SameStanding
<1>5. CASE StoreFails(r, call)
  <2> DEFINE e == Troubled(exec[r], call)
  <2>1. exec' = [exec EXCEPT ![r] = e] /\ dones' = dones /\ recorded' = recorded
    BY <1>5 DEF StoreFails, history
  <2>2. e \in Execution /\ e.at = exec[r].at
    BY <1>1, TroubledType, Fields
  <2> HIDE DEF e
  <2> QED BY <2>1, <2>2, SameStanding
<1>6. CASE Settle(r, call)
  <2> DEFINE e == Resolved(exec[r], call)
  <2>1. /\ exec' = [exec EXCEPT ![r] = e] /\ recorded' = recorded
        /\ dones' = [dones EXCEPT ![r] = @ + 1]
    BY <1>6 DEF Settle, Publish
  <2>2. e \in Execution /\ e.at = "settled"
    BY <1>1, TroubledType, ResolvedFields
  <2> HIDE DEF e
  <2> QED BY <1>1, <2>1, <2>2, ContractTell
<1> QED BY <1>3, <1>4, <1>5, <1>6

LEMMA CrashContract ==
  ASSUME WellFormed, NEW p \in Replicas, Crash(p)
  PROVE  [Contract!Next]_(Contract!vars)
<1> DEFINE gone == {r \in Runs : Executed(r) /\ exec[r].by = p
                                   /\ exec[r].at \in {"queued", "child"}}
<1>1. recorded' = recorded /\ dones' = dones
  BY DEF Crash, history
<1>2. ASSUME NEW r \in Runs
      PROVE  /\ r \in gone => Standings[r] = "underway"
             /\ Standing(exec'[r]) = IF r \in gone THEN "lost" ELSE Standings[r]
  <2>1. CASE Executed(r) /\ exec[r].by = p
    <3>1. exec'[r] = Dead(exec[r]) /\ exec[r] \in Execution
      BY <2>1 DEF Crash, WellFormed, TypeOK, Executed
    <3>2. /\ Dead(exec[r]) \in Execution
          /\ Dead(exec[r]).at =
               IF exec[r].at \in {"queued", "child"} THEN "lost" ELSE exec[r].at
      BY <3>1, DeadType, Fields
    <3>3. exec[r].at \in {"queued", "child", "settled", "rejected", "lost"}
      BY <3>1 DEF Execution
    <3> QED BY <2>1, <3>1, <3>2, <3>3, InContract DEF Standings
  <2>2. CASE ~(Executed(r) /\ exec[r].by = p)
    BY <2>2 DEF Crash, Standings
  <2> QED BY <2>1, <2>2
<1> HIDE DEF gone
<1>3. gone \in SUBSET Runs
  BY DEF gone
<1>4. Standings' = [r \in Runs |-> IF r \in gone THEN "lost" ELSE Standings[r]]
  BY <1>2 DEF Standings
<1>5. Contract!Lose(gone)
  BY <1>1, <1>2, <1>3, <1>4 DEF Contract!Lose, Standings
<1> QED BY <1>3, <1>5 DEF Contract!Next

LEMMA StepContract ==
  ASSUME WellFormed, AllOrderly, [Next]_vars
  PROVE  [Contract!Next]_(Contract!vars)
<1>1. ASSUME UNCHANGED <<exec, recorded, dones>>
      PROVE  [Contract!Next]_(Contract!vars)
  BY <1>1, Unseen DEF Standings
<1>2. CASE UNCHANGED vars
  BY <1>1, <1>2 DEF vars
<1>3. CASE Requests
  BY <1>1, <1>3, ExecuteContract
     DEF Requests, Start, Shortcut, RunSuite, RunSuiteRows, PutRead, PutWrite, history
<1>4. ASSUME NEW r \in Runs, Executor(r)
      PROVE  [Contract!Next]_(Contract!vars)
  <2>1. CASE Spawn(r)
    <3> DEFINE e == [exec[r] EXCEPT !.at = "child", !.alive = TRUE]
    <3>1. Executed(r) /\ exec[r] \in Execution /\ exec[r].at = "queued"
      BY <2>1 DEF Spawn, WellFormed, TypeOK, Executed
    <3>2. e \in Execution /\ e.at = "child"
      BY <3>1 DEF Execution
    <3>3. exec' = [exec EXCEPT ![r] = e] /\ dones' = dones /\ recorded' = recorded
      BY <2>1 DEF Spawn, history
    <3> HIDE DEF e
    <3> QED BY <3>1, <3>2, <3>3, SameStanding
  <2>2. CASE Reject(r)
    <3> DEFINE e == [exec[r] EXCEPT !.at = "rejected"]
    <3>1. Executed(r) /\ exec[r] \in Execution /\ exec[r].at = "queued"
      BY <2>2 DEF Reject, WellFormed, TypeOK, Executed
    <3>2. e \in Execution /\ e.at = "rejected"
      BY <3>1 DEF Execution
    <3>3. /\ exec' = [exec EXCEPT ![r] = e] /\ recorded' = recorded
          /\ dones' = [dones EXCEPT ![r] = @ + 1]
      BY <2>2 DEF Reject, Publish
    <3> HIDE DEF e
    <3> QED BY <3>1, <3>2, <3>3, ContractTell
  <2>3. CASE Finalizing(r)
    BY <2>3, FinalizeContract DEF Finalizing
  <2> QED BY <1>4, <2>1, <2>2, <2>3, EventContract DEF Executor
<1>5. CASE Watching
  BY <1>1, <1>5 DEF Watching, Open, Subscribe, Leave, history
<1> QED BY <1>2, <1>3, <1>4, <1>5, CrashContract DEF Next

(* docs/test-execution.md, for every number of runs, processes, clients    *)
(* and disturbances: the verdict is written once, then told once, and that *)
(* is the end; TestRuns implements RunContract, so KeepsRunContract holds. *)
THEOREM RunsKeepContract == Spec => KeepsRunContract
<1>1. Init => Contract!Init
  BY DEF Init, Contract!Init, Standing
<1>2. Init => WellFormed /\ AllOrderly
  BY InitWellFormed DEF Init, AllOrderly, RunOrderly, Executed
<1>3. WellFormed /\ AllOrderly /\ [Next]_vars => WellFormed' /\ AllOrderly'
  BY StepWellFormed, StepOrder
<1>4. WellFormed /\ AllOrderly /\ [Next]_vars => [Contract!Next]_(Contract!vars)
  BY StepContract
<1> QED BY <1>1, <1>2, <1>3, <1>4, PTL DEF Spec, KeepsRunContract, Contract!Spec
=============================================================================
