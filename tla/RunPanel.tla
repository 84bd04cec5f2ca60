------------------------------ MODULE RunPanel ------------------------------
(***************************************************************************)
(* The panel of a case's page that starts a run and follows it: its own    *)
(* state, the request that starts the run, and the event stream it reads,  *)
(* from the handler that writes the snapshot to the frames the client      *)
(* takes in one by one.  The executor is only its verdict, the row and the *)
(* event that tells it (TestRuns has the rest).  Output is left out.       *)
(***************************************************************************)
EXTENDS Integers, Sequences

CONSTANTS
  MaxRuns,    \* bound: runs started
  MaxFaults   \* bound: answers refused or lost, streams broken, rows not stored

Runs == 1..MaxRuns
Verdicts == {"passed", "failed", "errored"}
NoRun == 0

VARIABLES
  status,   \* what the badge of the panel says
  active,   \* activeRunId
  pending,  \* the POST under way
  stream,   \* the stream of each run: its handler, and the frames not yet read
  rows,     \* test_runs.status
  exec,     \* the executor of each run
  lastId,   \* runs created
  left,     \* what is left of the bound on faults
  verdict   \* history: what the executor concluded

vars == <<status, active, pending, stream, rows, exec, lastId, left, verdict>>
panel == <<status, active, pending>>
server == <<rows, exec, lastId, verdict>>

NoStream == [at |-> "off", frames |-> <<>>]

Init ==
  /\ status = "idle" /\ active = NoRun /\ pending = "none"
  /\ stream = [r \in Runs |-> NoStream]
  /\ rows = [r \in Runs |-> "none"] /\ exec = [r \in Runs |-> "none"] /\ lastId = 0
  /\ left = MaxFaults
  /\ verdict = [r \in Runs |-> "none"]

Fault == left > 0 /\ left' = left - 1

(* setActiveRunId: the effect of useRunStream ends the stream of the run   *)
(* before and opens that of the run now.                                   *)
Follow(r) ==
  /\ active' = r
  /\ stream' = [s \in Runs |-> IF s = r THEN [NoStream EXCEPT !.at = "asked"]
                               ELSE IF s = active THEN NoStream ELSE stream[s]]

-----------------------------------------------------------------------------
(* The panel.                                                              *)

(* The button is pressed.                                                  *)
StartRun ==
  /\ status # "running" /\ lastId < MaxRuns
  /\ status' = "running" /\ pending' = "sent"
  /\ UNCHANGED <<active, stream, server, left>>

(* The answer, and the stream.                                             *)
Started ==
  /\ pending = "created"
  /\ pending' = "none"
  /\ Follow(lastId)
  /\ UNCHANGED <<status, server, left>>

(* The POST is refused, or its answer is lost.                             *)
StartFails ==
  /\ pending # "none" /\ Fault
  /\ pending' = "none" /\ status' = "errored"
  /\ UNCHANGED <<active, stream, server>>

(* The user leaves the page; the answer of the POST is for nobody.         *)
Leave ==
  /\ status # "idle"
  /\ status' = "idle" /\ pending' = "none"
  /\ Follow(NoRun)
  /\ UNCHANGED <<server, left>>

(* Mutants of Shows: a connection that breaks counts as a failure; only    *)
(* 'done' is heeded.                                                       *)
ShowsFailure(frame) ==
  IF frame.event = "error" THEN "failed" ELSE frame.status
ShowsDone(frame) ==
  IF frame.event = "snapshot" THEN "running" ELSE frame.status

(* handleStreamEvent: what a frame makes of the status; a run that is not  *)
(* running is not followed any more.                                       *)
Shows(frame) == frame.status

Read ==
  /\ active # NoRun /\ stream[active].frames # <<>>
  /\ LET frame == Head(stream[active].frames)
     IN  /\ status' = Shows(frame)
         /\ IF Shows(frame) = "running"
            THEN /\ stream' = [stream EXCEPT ![active].frames = Tail(@)]
                 /\ UNCHANGED active
            ELSE Follow(NoRun)
  /\ UNCHANGED <<pending, server, left>>

-----------------------------------------------------------------------------
(* The server.                                                             *)

Send(r, at, event, shown) ==
  stream' = [stream EXCEPT ![r] =
    [at |-> at, frames |-> Append(@.frames, [event |-> event, status |-> shown])]]

(* POST /test-cases/:id/execute                                            *)
Create ==
  /\ pending = "sent"
  /\ pending' = "created"
  /\ lastId' = lastId + 1
  /\ rows' = [rows EXCEPT ![lastId + 1] = "running"]
  /\ exec' = [exec EXCEPT ![lastId + 1] = "running"]
  /\ UNCHANGED <<status, active, stream, left, verdict>>

(* GET /runs/:id/stream: the row is read, which the snapshot tells ...     *)
Snapshot(r) ==
  /\ stream[r].at = "asked"
  /\ Send(r, IF rows[r] \in Verdicts THEN "ended" ELSE "subscribing", "snapshot", rows[r])
  /\ UNCHANGED <<panel, server, left>>

(* ... and the handler subscribes once the database has answered.          *)
Subscribe(r) ==
  /\ stream[r].at = "subscribing"
  /\ stream' = [stream EXCEPT ![r].at = "watching"]
  /\ UNCHANGED <<panel, server, left>>

(* The stream is refused, or its connection breaks: the client makes an    *)
(* 'error' of it.                                                          *)
Break(r) ==
  /\ stream[r].at \in {"asked", "subscribing", "watching"} /\ Fault
  /\ Send(r, "ended", "error", "errored")
  /\ UNCHANGED <<panel, server>>

(* Or something between them ends the response in good order: the reader   *)
(* is done, nothing is left in its buffer and no event is made of it.      *)
EndSilently(r) ==
  /\ stream[r].at \in {"subscribing", "watching"} /\ Fault
  /\ stream' = [stream EXCEPT ![r].at = "silent"]
  /\ UNCHANGED <<panel, server>>

Conclude(r, v) ==
  /\ exec[r] = "running"
  /\ exec' = [exec EXCEPT ![r] = "storing"]
  /\ verdict' = [verdict EXCEPT ![r] = v]
  /\ UNCHANGED <<panel, stream, rows, lastId, left>>

(* The row; a failure to store it does not keep 'done' from being told.    *)
Store(r) ==
  /\ exec[r] = "storing"
  /\ exec' = [exec EXCEPT ![r] = "telling"]
  /\ \/ rows' = [rows EXCEPT ![r] = verdict[r]] /\ UNCHANGED left
     \/ Fault /\ UNCHANGED rows
  /\ UNCHANGED <<panel, stream, lastId, verdict>>

(* 'done', to those who have subscribed by now.                            *)
Tell(r) ==
  /\ exec[r] = "telling"
  /\ exec' = [exec EXCEPT ![r] = "over"]
  /\ IF stream[r].at = "watching" THEN Send(r, "ended", "done", verdict[r]) ELSE UNCHANGED stream
  /\ UNCHANGED <<panel, rows, lastId, left, verdict>>

Next ==
  \/ StartRun \/ Started \/ StartFails \/ Leave \/ Read \/ Create
  \/ \E r \in Runs :
       \/ Snapshot(r) \/ Subscribe(r) \/ Break(r) \/ EndSilently(r)
       \/ \E v \in Verdicts : Conclude(r, v)
       \/ Store(r) \/ Tell(r)

Spec == Init /\ [][Next]_vars

(* Requests are answered, handlers go on, and Cypress ends: nothing in the *)
(* executor ends it when it does not.                                      *)
Fairness ==
  /\ WF_vars(Started) /\ WF_vars(Read) /\ WF_vars(Create)
  /\ \A r \in Runs :
       /\ WF_vars(Snapshot(r)) /\ WF_vars(Subscribe(r))
       /\ WF_vars(\E v \in Verdicts : Conclude(r, v)) /\ WF_vars(Store(r)) /\ WF_vars(Tell(r))

FairSpec == Spec /\ Fairness

-----------------------------------------------------------------------------
(* "Passed" and "failed" are what the run that was started last came to;   *)
(* a connection that breaks shows as "errored", never as a failure.        *)
PanelTellsVerdict == status \in {"passed", "failed"} => verdict[lastId] = status

(* The panel waits for events that will not come: 'done' was told between  *)
(* the snapshot and the subscription, or the stream ended in good order    *)
(* without it.                                                             *)
Deaf ==
  /\ active # NoRun /\ stream[active].frames = <<>>
  /\ \/ stream[active].at = "silent"
     \/ stream[active].at = "watching" /\ exec[active] = "over"

(* Otherwise a panel that says "running" comes to say something else, and  *)
(* the Run button is given back.                                           *)
PanelIsReleased == status = "running" ~> status # "running" \/ Deaf
=============================================================================
