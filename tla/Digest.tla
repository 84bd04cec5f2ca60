------------------------------- MODULE Digest -------------------------------
(***************************************************************************)
(* The periodic summary: the loop of middleware/digestLoop.js in every     *)
(* process, what utils/digest.js composes, records in digest_logs and      *)
(* delivers, and POST /digest/send, which does the same at once.           *)
(*                                                                         *)
(* An action is a stretch of code between two awaits.  Delivery is the     *)
(* SMTP dialogue: one action per command and its reply, of a server that   *)
(* may refuse or fall silent at every one.  Without SMTP_HOST it is the    *)
(* writing of a file.  The digest is that of project 1.                    *)
(***************************************************************************)
EXTENDS Integers, FiniteSets

CONSTANTS
  Replicas,     \* API processes; each runs the loop
  MaxTime,      \* the clock stops here
  Slots,        \* the instants DIGEST_SCHEDULE matches
  Window,       \* DEFAULT_WINDOW_HOURS: what the first digest looks back
  Recipients,   \* how many addresses it goes to
  Scenarios     \* the SMTP server, the processes with DIGEST_ENABLED, and how
                \* often each kind of event may happen: one is taken

Instants == 0..MaxTime
Null == 0      \* no slot; the epoch when nothing was sent

(* configured: SMTP_HOST is set; login: so are SMTP_USER and SMTP_PASS.    *)
(* What the server advertises in answer to the first EHLO and to the one   *)
(* after STARTTLS.                                                         *)
Methods == {"PLAIN", "LOGIN"}
Server == [configured : BOOLEAN, login : BOOLEAN, starttls : BOOLEAN,
           plain : SUBSET Methods, tls : SUBSET Methods]

(* The dialogue, by the reply that is awaited.                             *)
Stages == {"banner", "ehlo", "starttls", "tls", "ehlo2", "user", "pass", "auth", "mail",
           "rcpt", "data", "body"}
Phases == {"claim", "window", "count", "insert", "deliver", "quit", "stalled"} \cup Stages

(* One sendDigest under way, for a slot in the loop or for a request: the  *)
(* start of its window, what it counted, the recipients accepted so far.   *)
Task == [op : Nat, by : Replicas, slot : Slots \cup {Null}, at : Phases,
         start : Int, counted : SUBSET Nat, accepted : 0..Recipients]

(* A row of digest_logs.  The task it is of and what was counted are known *)
(* to the model only; the table has the numbers.                           *)
LogRow == [op : Nat, slot : Slots \cup {Null}, sent : Instants, counted : SUBSET Nat]

(* Each kind is bounded by itself, and "any" bounds their sum.             *)
Events == {"activity", "manual", "fault", "silence", "refusal", "crash", "any"}

ASSUME TimeAssumption ==
  MaxTime \in Nat \ {0} /\ Slots \subseteq 1..MaxTime /\ Window \in Nat /\ Recipients \in Nat
ASSUME ScenarioAssumption ==
  Scenarios \subseteq [server : Server, enabled : SUBSET Replicas, budget : [Events -> Nat]]

VARIABLES
  clock,
  server, enabled,  \* the environment the processes were started with
  log,       \* digest_logs
  fired,     \* lastFiredKey of each process
  tasks,
  happened,  \* finished runs and edits: by number, at which instant
  lastOp,    \* to tell tasks apart
  left,      \* what is left of the budget taken
  taken,     \* history: messages the server has taken, and for how many
  raced,     \* history: slots two tasks were claiming or composing at once
  slipped,   \* history: what happened between the count of a digest and its row
  failed     \* history: a task failed after it had marked its slot

env == <<server, enabled>>
vars == <<clock, env, log, fired, tasks, happened, lastOp, left, taken,
          raced, slipped, failed>>
history == <<taken, raced, slipped, failed>>

-----------------------------------------------------------------------------
Spend(what) ==
  /\ left[what] > 0 /\ left["any"] > 0
  /\ left' = [e \in Events |-> IF e \in {what, "any"} THEN left[e] - 1 ELSE left[e]]

Init ==
  /\ clock = 1
  /\ \E s \in Scenarios : server = s.server /\ enabled = s.enabled /\ left = s.budget
  /\ log = {} /\ fired = [r \in Replicas |-> Null]
  /\ tasks = {} /\ happened = {} /\ lastOp = 0
  /\ taken = {} /\ raced = {} /\ slipped = {} /\ failed = {}

Advance ==
  /\ clock < MaxTime
  /\ clock' = clock + 1
  /\ UNCHANGED <<env, log, fired, tasks, happened, lastOp, left, history>>

(* A run finishes, or a case is edited.                                    *)
Activity ==
  /\ Spend("activity")
  /\ happened' = happened \cup {[number |-> Cardinality(happened) + 1, when |-> clock]}
  /\ slipped' = IF \E t \in tasks : t.at = "insert"
                THEN slipped \cup {Cardinality(happened) + 1} ELSE slipped
  /\ UNCHANGED <<clock, env, log, fired, tasks, lastOp, taken, raced, failed>>

-----------------------------------------------------------------------------
(* The loop.                                                               *)

LastSent ==
  IF log = {} THEN Null
  ELSE CHOOSE s \in {row.sent : row \in log} : \A row \in log : row.sent <= s

(* nextFireFromExpr: the first match after an instant, or none.            *)
NextSlot(t) ==
  IF \A s \in Slots : s <= t THEN Null
  ELSE CHOOSE s \in Slots : s > t /\ \A u \in Slots : u > t => s <= u

(* Mutant of Ticking: the flag is not reset.                               *)
TickingForGood(r) == fired[r] # Null

Ticking(r) == \E t \in tasks : t.by = r /\ t.slot # Null

Due(slot) == slot # Null /\ slot <= clock

(* The slot after the last digest sent is due, and this process has not    *)
(* taken it yet.  A tick that returns at once changes nothing.             *)
Tick(r) ==
  LET slot == NextSlot(LastSent)
  IN  /\ r \in enabled /\ ~Ticking(r) /\ Due(slot) /\ fired[r] # slot
      /\ lastOp' = lastOp + 1
      /\ tasks' = tasks \cup
           {[op |-> lastOp + 1, by |-> r, slot |-> slot, at |-> "claim", start |-> 0,
             counted |-> {}, accepted |-> 0]}
      /\ UNCHANGED <<clock, env, log, fired, happened, left, history>>

Continue(t, at) == tasks' = (tasks \ {t}) \cup {[t EXCEPT !.at = at]}
End(t) == tasks' = tasks \ {t}

(* Mutant of Owned: nobody looks.                                          *)
OwnedNever(slot) == FALSE

(* Some row was sent at the slot or after it.                              *)
Owned(slot) == \E row \in log : row.sent >= slot

Rivals(t) == {u \in tasks : u.slot = t.slot /\ u.op # t.op
                              /\ u.at \in {"window", "count", "insert"}}

(* The claim is a read; the mark is set before anything is sent.           *)
Claim(t) ==
  /\ t.at = "claim"
  /\ fired' = [fired EXCEPT ![t.by] = t.slot]
  /\ IF Owned(t.slot) THEN End(t) ELSE Continue(t, "window")
  /\ raced' = IF Rivals(t) = {} THEN raced ELSE raced \cup {t.slot}
  /\ UNCHANGED <<clock, env, log, happened, lastOp, left, taken, slipped, failed>>

(* POST /digest/send.                                                      *)
SendNow(r) ==
  /\ Spend("manual")
  /\ lastOp' = lastOp + 1
  /\ tasks' = tasks \cup
       {[op |-> lastOp + 1, by |-> r, slot |-> Null, at |-> "window", start |-> 0,
         counted |-> {}, accepted |-> 0]}
  /\ UNCHANGED <<clock, env, log, fired, happened, history>>

-----------------------------------------------------------------------------
(* sendDigest.                                                             *)

(* Mutant of From: after the last digest, not from it on.                  *)
FromAfter(t) == IF log = {} THEN clock - Window ELSE LastSent + 1

(* digestWindow: since the last digest, or the default.                    *)
From(t) == IF log = {} THEN clock - Window ELSE LastSent

ReadWindow(t) ==
  /\ t.at = "window"
  /\ tasks' = (tasks \ {t}) \cup {[t EXCEPT !.at = "count", !.start = From(t)]}
  /\ UNCHANGED <<clock, env, log, fired, happened, lastOp, left, history>>

(* The counts have no upper end: all up to now that is not before start.   *)
Count(t) ==
  /\ t.at = "count"
  /\ tasks' = (tasks \ {t}) \cup
       {[t EXCEPT !.at = "insert",
                  !.counted = {h.number : h \in {g \in happened : g.when >= t.start}}]}
  /\ UNCHANGED <<clock, env, log, fired, happened, lastOp, left, history>>

(* Mutant of Logged: the row is written once the mail is out.              *)
LoggedLater(t) == UNCHANGED log

(* The row comes before the delivery.                                      *)
Logged(t) ==
  log' = log \cup {[op |-> t.op, slot |-> t.slot, sent |-> clock, counted |-> t.counted]}

Insert(t) ==
  /\ t.at = "insert"
  /\ Logged(t)
  /\ Continue(t, IF server.configured THEN "banner" ELSE "deliver")
  /\ UNCHANGED <<clock, env, fired, happened, lastOp, left, history>>

(* Without a server: a file.                                               *)
WriteFile(t) ==
  /\ t.at = "deliver"
  /\ End(t)
  /\ UNCHANGED <<clock, env, log, fired, happened, lastOp, left, history>>

(* A query fails: tick logs it, the route answers 500.                     *)
Marked(t) == t.slot # Null /\ t.at \in {"window", "count", "insert"}
TaskFails(t) ==
  /\ t.at \in {"claim", "window", "count", "insert"} /\ Spend("fault")
  /\ End(t)
  /\ failed' = IF Marked(t) THEN failed \cup {t.slot} ELSE failed
  /\ UNCHANGED <<clock, env, log, fired, happened, lastOp, taken, raced, slipped>>

-----------------------------------------------------------------------------
(* The dialogue.                                                           *)

Advertised == IF server.starttls THEN server.plain \cup server.tls ELSE server.plain

(* How to authenticate is read from the answer to the first EHLO, whether  *)
(* there was a second one or not.                                          *)
AfterEhlo ==
  IF ~server.login \/ Advertised = {} THEN "mail"
  ELSE IF "PLAIN" \in server.plain THEN "auth"
  ELSE IF "LOGIN" \in server.plain THEN "user" ELSE "none"

AfterRcpt(t) == IF t.accepted + 1 < Recipients THEN "rcpt" ELSE "data"

(* What the client sends next once the awaited answer has the right code.  *)
After(t) ==
  CASE t.at = "banner" -> "ehlo"
    [] t.at = "ehlo" -> IF server.starttls THEN "starttls" ELSE AfterEhlo
    [] t.at = "starttls" -> "tls"
    [] t.at = "tls" -> "ehlo2"
    [] t.at = "ehlo2" -> AfterEhlo
    [] t.at = "user" -> "pass"
    [] t.at = "pass" -> "auth"
    [] t.at = "auth" -> "mail"
    [] t.at = "mail" -> IF Recipients = 0 THEN "data" ELSE "rcpt"
    [] t.at = "rcpt" -> AfterRcpt(t)
    [] t.at = "data" -> "body"
    [] t.at = "body" -> "quit"

Accept(t) == taken' = taken \cup {[op |-> t.op, to |-> t.accepted]}

(* The server agrees; it takes the message when it answers the body.       *)
Agreed(t) ==
  /\ t.at \in Stages
  /\ IF After(t) = "none" THEN End(t)
     ELSE tasks' = (tasks \ {t}) \cup
       {[t EXCEPT !.at = After(t),
                  !.accepted = IF t.at = "rcpt" THEN t.accepted + 1 ELSE t.accepted]}
  /\ IF t.at = "body" THEN Accept(t) ELSE UNCHANGED taken
  /\ UNCHANGED <<clock, env, log, fired, happened, lastOp, left, raced, slipped, failed>>

(* Any other code ends the dialogue, but nobody looks at the banner's.     *)
Refused(t) == IF t.at = "banner" THEN Continue(t, "ehlo") ELSE End(t)

Refusal(t) ==
  /\ t.at \in Stages \ {"tls"} /\ Spend("refusal")
  /\ Refused(t)
  /\ UNCHANGED <<clock, env, log, fired, happened, lastOp, history>>

(* No answer, or a lost connection: the timer of the command ends the      *)
(* dialogue.  What was sent last may have reached the server.  The TLS     *)
(* handshake has no timer.                                                 *)
Silence(t) ==
  /\ t.at \in Stages /\ Spend("silence")
  /\ IF t.at = "tls" THEN Continue(t, "stalled") \/ End(t) ELSE End(t)
  /\ UNCHANGED taken \/ (t.at = "body" /\ Accept(t))
  /\ UNCHANGED <<clock, env, log, fired, happened, lastOp, raced, slipped, failed>>

(* QUIT is sent, and answered or not.                                      *)
Quit(t) ==
  /\ t.at = "quit"
  /\ End(t)
  /\ UNCHANGED <<clock, env, log, fired, happened, lastOp, left, history>>

(* A process dies and is started again.                                    *)
Crash(r) ==
  /\ Spend("crash")
  /\ tasks' = {t \in tasks : t.by # r}
  /\ fired' = [fired EXCEPT ![r] = Null]
  /\ UNCHANGED <<clock, env, log, happened, lastOp, history>>

-----------------------------------------------------------------------------
Step(t) == \/ Claim(t) \/ ReadWindow(t) \/ Count(t) \/ Insert(t) \/ WriteFile(t)
           \/ Agreed(t) \/ Refusal(t) \/ Silence(t) \/ Quit(t) \/ TaskFails(t)

Next ==
  \/ Advance \/ Activity
  \/ \E r \in Replicas : Tick(r) \/ SendNow(r) \/ Crash(r)
  \/ \E t \in tasks : Step(t)

Spec == Init /\ [][Next]_vars

(* The interval timer keeps firing; a statement or a command that was sent *)
(* is answered, refused or given up.                                       *)
Progress(r) == Tick(r) \/ \E t \in tasks : t.by = r /\ Step(t)
Fairness == \A r \in Replicas : WF_vars(Progress(r))
FairSpec == Spec /\ Fairness

-----------------------------------------------------------------------------
TypeOK ==
  /\ clock \in Instants /\ server \in Server /\ enabled \subseteq Replicas
  /\ log \subseteq LogRow /\ fired \in [Replicas -> Slots \cup {Null}]
  /\ tasks \subseteq Task
  /\ happened \subseteq [number : Nat, when : Instants]
  /\ lastOp \in Nat /\ left \in [Events -> Nat]
  /\ taken \subseteq [op : Nat, to : 0..Recipients]
  /\ raced \subseteq Slots /\ slipped \subseteq Nat /\ failed \subseteq Slots

(* middleware/digestLoop.js: the loop is idempotent, across restarts too:  *)
(* a slot is sent once.  Two processes that claim it at the same time both *)
(* find no row; those slots are exempt.                                    *)
OncePerSlot ==
  \A a, b \in log :
    a.slot = b.slot /\ a.slot \notin raced \cup {Null} => a.op = b.op

(* docs/digest.md: the row is written first.  Whatever is mailed is in the *)
(* history, though the process dies at once or the answer is lost, and it  *)
(* is mailed to all recipients: a server that refuses one gets no message. *)
MailHasRow ==
  \A m \in taken : m.to = Recipients /\ \E row \in log : row.op = m.op

(* utils/digest.js: a digest covers what happened since the previous one,  *)
(* and the first one what happened in the default window.  Whatever is     *)
(* older than the last digest, and not by a window older than the first,   *)
(* is in some digest, but for what comes between the counts of one and its *)
(* row.                                                                    *)
InReach(h) == \E row \in log : h.when >= row.sent - Window
NothingForgotten ==
  \A h \in happened :
    h.when < LastSent /\ InReach(h) /\ h.number \notin slipped =>
      \E row \in log : h.number \in row.counted

(* A slot that is due is sent in the end, if no query fails after it was   *)
(* marked in the process and no TLS handshake hangs.                       *)
Stalled == \E t \in tasks : t.at = "stalled"
DueGoesOut ==
  \A s \in Slots :
    (enabled # {} /\ Due(s) /\ s = NextSlot(LastSent)) ~> (LastSent >= s \/ s \in failed \/ Stalled)

(* docs/digest.md: "When the next fire time has passed AND no digest has   *)
(* been sent for that slot ... it calls sendDigest."  One failing query    *)
(* leaves lastFiredKey on the slot: every later tick finds the same slot   *)
(* and returns, until the process is restarted.                            *)
DueDigestGoesOut ==
  \A s \in Slots : (enabled # {} /\ Due(s) /\ s = NextSlot(LastSent)) ~> (LastSent >= s \/ Stalled)
=============================================================================
