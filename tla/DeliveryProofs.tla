---------------------------- MODULE DeliveryProofs ----------------------------
(* Theorems about Deliveries for every value of its constants: a slot that *)
(* is not raced is sent once, what is mailed is in the history and goes to *)
(* everyone, digest after digest nothing is left out, and what             *)
(* WebhookProofs says of the webhooks holds beside the digests.            *)
EXTENDS Deliveries, FiniteSetTheorems, WellFoundedInduction, TLAPS

(* A set of instants has a least and, bounded by the clock, a greatest one.*)
LEMMA Earliest ==
  ASSUME NEW S \in SUBSET Nat, S # {}
  PROVE  \E s \in S : \A t \in S : s \leq t
<1> DEFINE R == OpToRel(<, Nat)
<1>1. IsWellFoundedOn(R, Nat)
  BY NatLessThanWellFounded
<1>2. \E s \in S : \A t \in S : ~(<<t, s>> \in R)
  <2> HIDE DEF R
  <2> QED BY <1>1, WFMin
<1>3. \A s, t \in Nat : <<t, s>> \in R <=> t < s
  BY DEF OpToRel
<1> HIDE DEF R
<1>4. PICK s \in S : \A t \in S : ~(<<t, s>> \in R)
  BY <1>2
<1>5. \A t \in S : ~(t < s)
  BY <1>3, <1>4
<1> QED BY <1>5

LEMMA Latest ==
  ASSUME NEW S \in SUBSET Instants, S # {}
  PROVE  \E s \in S : \A t \in S : t \leq s
<1> DEFINE back == {MaxTime - s : s \in S}
<1>1. MaxTime \in Nat /\ S \subseteq 0..MaxTime
  BY TimeAssumption DEF Instants
<1>2. back \in SUBSET Nat /\ back # {}
  <2>1. \A s \in S : MaxTime - s \in Nat
    BY <1>1
  <2> QED BY <2>1
<1>3. PICK b \in back : \A c \in back : b \leq c
  <2> HIDE DEF back
  <2> QED BY <1>2, Earliest
<1>4. PICK s \in S : b = MaxTime - s
  OBVIOUS
<1>5. ASSUME NEW t \in S PROVE t \leq s
  <2>1. b \leq MaxTime - t
    BY <1>3
  <2> QED BY <1>1, <1>4, <2>1
<1> QED BY <1>5

LEMMA SlotsAreInstants == Slots \subseteq Nat /\ Null \notin Slots /\ Instants \subseteq Nat
BY TimeAssumption DEF Null, Instants

(* nextFireFromExpr answers with a slot or nothing.                        *)
LEMMA NextSlotType ==
  ASSUME NEW t \in Nat
  PROVE  NextSlot(t) \in Slots \cup {Null}
<1> DEFINE later == {s \in Slots : s > t}
<1>1. CASE later = {}
  <2>1. \A s \in Slots : s \leq t
    BY <1>1, SlotsAreInstants
  <2> QED BY <2>1 DEF NextSlot
<1>2. CASE later # {}
  <2>1. PICK s \in later : \A u \in later : s \leq u
    <3>1. later \in SUBSET Nat
      BY SlotsAreInstants
    <3> HIDE DEF later
    <3> QED BY <1>2, <3>1, Earliest
  <2>2. \E u \in Slots : u > t /\ \A w \in Slots : w > t => u \leq w
    BY <2>1
  <2>3. (CHOOSE u \in Slots : u > t /\ \A w \in Slots : w > t => u \leq w) \in Slots
    BY <2>2
  <2>4. ~(\A u \in Slots : u \leq t)
    BY <2>1, SlotsAreInstants
  <2> QED BY <2>3, <2>4 DEF NextSlot
<1> QED BY <1>1, <1>2

LEMMA LastSentType ==
  ASSUME TypeOK
  PROVE  /\ LastSent \in Instants /\ \A row \in log : row.sent \leq LastSent
         /\ log # {} => \E row \in log : row.sent = LastSent
<1> DEFINE sent == {row.sent : row \in log}
<1>1. sent \in SUBSET Instants
  BY DEF TypeOK, LogRow
<1>2. CASE log = {}
  BY <1>2, TimeAssumption DEF LastSent, Null, Instants
<1>3. CASE log # {}
  <2>1. PICK last \in sent : \A t \in sent : t \leq last
    <3>1. sent # {}
      BY <1>3
    <3> HIDE DEF sent
    <3> QED BY <1>1, <3>1, Latest
  <2>2. \E s \in sent : \A row \in log : row.sent \leq s
    BY <2>1
  <2>3. LastSent = CHOOSE s \in sent : \A row \in log : row.sent \leq s
    BY <1>3 DEF LastSent
  <2> HIDE DEF sent
  <2>4. LastSent \in sent /\ \A row \in log : row.sent \leq LastSent
    BY <2>2, <2>3
  <2>5. \E row \in log : row.sent = LastSent
    BY <2>4 DEF sent
  <2> QED BY <1>1, <2>4, <2>5
<1> QED BY <1>2, <1>3
-----------------------------------------------------------------------------
(* Type correctness.  A task that goes on stays the task it is.            *)

LEMMA TaskMoves ==
  ASSUME NEW t \in Task, NEW at \in Phases
  PROVE  /\ [t EXCEPT !.at = at] \in Task
         /\ [t EXCEPT !.at = at].at = at /\ [t EXCEPT !.at = at].op = t.op
         /\ [t EXCEPT !.at = at].slot = t.slot /\ [t EXCEPT !.at = at].accepted = t.accepted
BY DEF Task

LEMMA TaskStarts ==
  ASSUME NEW t \in Task, NEW start \in Int
  PROVE  LET u == [t EXCEPT !.at = "count", !.start = start]
         IN  /\ u \in Task /\ u.at = "count" /\ u.op = t.op
             /\ u.slot = t.slot /\ u.accepted = t.accepted
BY DEF Task, Phases

LEMMA TaskCounts ==
  ASSUME NEW t \in Task, NEW counted \in SUBSET Nat
  PROVE  LET u == [t EXCEPT !.at = "insert", !.counted = counted]
         IN  /\ u \in Task /\ u.at = "insert" /\ u.op = t.op
             /\ u.slot = t.slot /\ u.accepted = t.accepted
BY DEF Task, Phases

(* A claim is for a slot; how many recipients have been accepted by each   *)
(* stage.                                                                  *)
InTurn(t) ==
  /\ t.at = "claim" => t.slot \in Slots
  /\ t.at = "rcpt" => t.accepted < Recipients
  /\ t.at \in {"data", "body"} => t.accepted = Recipients
  /\ t.at \notin {"rcpt", "data", "body", "quit"} => t.accepted = 0

WellFormed == TypeOK /\ IsFiniteSet(happened) /\ \A t \in tasks : InTurn(t)

LEMMA InitWellFormed == Init => WellFormed
<1> SUFFICES ASSUME Init PROVE WellFormed
  OBVIOUS
<1>1. clock \in Instants
  BY TimeAssumption DEF Init, Instants
<1>2. PICK s \in Scenarios : server = s.server /\ enabled = s.enabled /\ left = s.budget
  BY DEF Init
<1>3. server \in Server /\ enabled \subseteq Replicas /\ left \in [Events -> Nat]
  BY <1>2, ScenarioAssumption
<1>4. IsFiniteSet(happened)
  BY FS_EmptySet DEF Init
<1> QED BY <1>1, <1>3, <1>4 DEF Init, WellFormed, TypeOK

LEMMA SpendType ==
  ASSUME TypeOK, NEW what \in Events, Spend(what)
  PROVE  left' \in [Events -> Nat]
BY DEF TypeOK, Spend, Events

(* Tasks go, and at most one task is put in the place of another.          *)
LEMMA TasksReplaced ==
  ASSUME WellFormed, NEW u \in Task, InTurn(u), tasks' \subseteq tasks \cup {u}
  PROVE  tasks' \subseteq Task /\ \A t \in tasks' : InTurn(t)
BY DEF WellFormed, TypeOK

LEMMA TasksGo ==
  ASSUME WellFormed, tasks' \subseteq tasks
  PROVE  tasks' \subseteq Task /\ \A t \in tasks' : InTurn(t)
BY DEF WellFormed, TypeOK

(* The next stage of the dialogue, and who has been accepted by then.      *)
LEMMA AfterStage ==
  ASSUME NEW t \in Task, InTurn(t), t.at \in Stages
  PROVE  /\ After(t) \in (Stages \ {"banner"}) \cup {"quit", "none"}
         /\ t.at # "body" => After(t) # "quit"
         /\ t.at = "body" => After(t) = "quit"
         /\ After(t) = "rcpt" => \/ t.at = "mail" /\ Recipients # 0
                                 \/ t.at = "rcpt" /\ t.accepted + 1 < Recipients
         /\ After(t) = "data" => \/ t.at = "mail" /\ Recipients = 0
                                 \/ t.at = "rcpt" /\ t.accepted + 1 = Recipients
         /\ After(t) = "body" => t.at = "data"
         /\ After(t) = "mail" => t.at \in {"ehlo", "ehlo2", "auth"}
<1>1. t.accepted \in 0..Recipients /\ Recipients \in Nat
  BY TimeAssumption DEF Task
<1>2. AfterEhlo \in {"mail", "auth", "user", "none"}
  BY DEF AfterEhlo
<1>3. CASE t.at \in {"banner", "starttls", "tls", "user", "pass", "auth", "data", "body"}
  BY <1>3 DEF After, Stages
<1>4. CASE t.at \in {"ehlo", "ehlo2"}
  BY <1>2, <1>4 DEF After, Stages
<1>5. CASE t.at = "mail"
  BY <1>1, <1>5 DEF After, Stages
<1>6. CASE t.at = "rcpt"
  <2>1. t.accepted < Recipients
    BY <1>6 DEF InTurn
  <2>2. After(t) = AfterRcpt(t)
    BY <1>6 DEF After
  <2> QED BY <1>1, <1>6, <2>1, <2>2 DEF AfterRcpt, Stages
<1> QED BY <1>3, <1>4, <1>5, <1>6 DEF Stages

LEMMA AgreedGoesOn ==
  ASSUME WellFormed, NEW t \in tasks, t.at \in Stages, After(t) # "none"
  PROVE  LET u == [t EXCEPT !.at = After(t),
                            !.accepted = IF t.at = "rcpt" THEN t.accepted + 1 ELSE t.accepted]
         IN  u \in Task /\ InTurn(u) /\ u.op = t.op /\ u.slot = t.slot /\ u.at = After(t)
<1> DEFINE accepted == IF t.at = "rcpt" THEN t.accepted + 1 ELSE t.accepted
           u == [t EXCEPT !.at = After(t), !.accepted = accepted]
<1>1. t \in Task /\ InTurn(t) /\ Recipients \in Nat /\ t.accepted \in 0..Recipients
  BY TimeAssumption DEF WellFormed, TypeOK, Task
<1>2. accepted \in 0..Recipients
  BY <1>1 DEF InTurn
<1>3. After(t) \in Phases
  BY <1>1, AfterStage DEF Phases, Stages
<1>4. u \in Task /\ u.at = After(t) /\ u.op = t.op /\ u.slot = t.slot /\ u.accepted = accepted
  <2>1. PICK at \in Phases : at = After(t)
    BY <1>3
  <2>2. PICK n \in 0..Recipients : n = accepted
    BY <1>2
  <2>3. u = [t EXCEPT !.at = at, !.accepted = n]
    BY <2>1, <2>2
  <2> HIDE DEF u, accepted
  <2>4. /\ [t EXCEPT !.at = at, !.accepted = n] \in Task
        /\ [t EXCEPT !.at = at, !.accepted = n].at = at
        /\ [t EXCEPT !.at = at, !.accepted = n].op = t.op
        /\ [t EXCEPT !.at = at, !.accepted = n].slot = t.slot
        /\ [t EXCEPT !.at = at, !.accepted = n].accepted = n
    BY <1>1 DEF Task
  <2> QED BY <2>1, <2>2, <2>3, <2>4
<1>5. u.at = "rcpt" => u.accepted < Recipients
  BY <1>1, <1>4, AfterStage DEF InTurn
<1>6. u.at \in {"data", "body"} => u.accepted = Recipients
  BY <1>1, <1>4, AfterStage DEF InTurn
<1>7. u.at \notin {"rcpt", "data", "body", "quit"} => u.accepted = 0
  <2>1. CASE t.at \in {"rcpt", "data", "body"}
    BY <1>1, <1>4, <2>1 DEF After, AfterRcpt
  <2>2. CASE t.at \notin {"rcpt", "data", "body"}
    <3>1. t.at # "quit"
      BY DEF Stages
    <3> QED BY <1>1, <1>4, <2>2, <3>1 DEF InTurn
  <2> QED BY <2>1, <2>2
<1>8. u.at # "claim"
  BY <1>1, <1>4, AfterStage DEF Stages
<1> QED BY <1>4, <1>5, <1>6, <1>7, <1>8 DEF InTurn

LEMMA TaskStepWellFormed ==
  ASSUME WellFormed, NEW t \in tasks, Step(t)
  PROVE  WellFormed'
<1>1. t \in Task /\ InTurn(t) /\ t.op \in Nat /\ t.slot \in Slots \cup {Null} /\ t.by \in Replicas
      /\ t.accepted \in 0..Recipients
  BY DEF WellFormed, TypeOK, Task
<1>2. ASSUME NEW at \in {"window", "banner", "deliver", "ehlo", "stalled"},
             t.at \notin {"rcpt", "data", "body", "quit"}, End(t) \/ Continue(t, at)
      PROVE  tasks' \subseteq Task /\ \A u \in tasks' : InTurn(u)
  <2>1. [t EXCEPT !.at = at] \in Task /\ InTurn([t EXCEPT !.at = at])
    BY <1>1, <1>2, TaskMoves DEF Phases, Stages, InTurn
  <2>2. tasks' \subseteq tasks \cup {[t EXCEPT !.at = at]}
    BY <1>2 DEF Continue, End
  <2> QED BY <2>1, <2>2, TasksReplaced
<1>3. ASSUME End(t) PROVE tasks' \subseteq Task /\ \A u \in tasks' : InTurn(u)
  BY <1>3, TasksGo DEF End
<1>4. CASE Claim(t)
  <2>1. tasks' \subseteq Task /\ \A u \in tasks' : InTurn(u)
    BY <1>2, <1>3, <1>4 DEF Claim
  <2>2. t.slot \in Slots
    BY <1>1, <1>4 DEF Claim, InTurn
  <2>3. fired' \in [Replicas -> Slots \cup {Null}] /\ raced' \subseteq Slots
    BY <1>1, <1>4, <2>2 DEF Claim, WellFormed, TypeOK
  <2> QED BY <1>4, <2>1, <2>3 DEF Claim, WellFormed, TypeOK, env
<1>5. CASE ReadWindow(t)
  <2>1. From(t) \in Int
    BY LastSentType, TimeAssumption DEF From, WellFormed, TypeOK, Instants
  <2>2. PICK u \in Task : tasks' = (tasks \ {t}) \cup {u} /\ u.at = "count" /\ u.accepted = t.accepted
    BY <1>1, <1>5, <2>1, TaskStarts DEF ReadWindow
  <2>3. InTurn(u)
    BY <1>1, <1>5, <2>2 DEF ReadWindow, InTurn
  <2>4. tasks' \subseteq Task /\ \A v \in tasks' : InTurn(v)
    BY <2>2, <2>3, TasksReplaced
  <2> QED BY <1>5, <2>4 DEF ReadWindow, WellFormed, TypeOK, env, history
<1>6. CASE Count(t)
  <2> DEFINE counted == {h.number : h \in {g \in happened : g.when >= t.start}}
  <2>1. counted \in SUBSET Nat
    BY DEF WellFormed, TypeOK
  <2>2. PICK u \in Task : tasks' = (tasks \ {t}) \cup {u} /\ u.at = "insert" /\ u.accepted = t.accepted
    <3>1. tasks' = (tasks \ {t}) \cup {[t EXCEPT !.at = "insert", !.counted = counted]}
      BY <1>6 DEF Count
    <3> HIDE DEF counted
    <3> QED BY <1>1, <2>1, <3>1, TaskCounts
  <2>3. InTurn(u)
    BY <1>1, <1>6, <2>2 DEF Count, InTurn
  <2>4. tasks' \subseteq Task /\ \A v \in tasks' : InTurn(v)
    BY <2>2, <2>3, TasksReplaced
  <2> QED BY <1>6, <2>4 DEF Count, WellFormed, TypeOK, env, history
<1>7. CASE Insert(t)
  <2>1. tasks' \subseteq Task /\ \A u \in tasks' : InTurn(u)
    BY <1>2, <1>7 DEF Insert
  <2>2. [op |-> t.op, slot |-> t.slot, sent |-> clock, counted |-> t.counted] \in LogRow
    BY <1>1 DEF WellFormed, TypeOK, Task, LogRow
  <2>3. log' \subseteq LogRow
    BY <1>7, <2>2 DEF Insert, Logged, WellFormed, TypeOK
  <2> QED BY <1>7, <2>1, <2>3 DEF Insert, WellFormed, TypeOK, env, history
<1>8. CASE WriteFile(t) \/ Quit(t)
  <2>1. tasks' \subseteq Task /\ \A u \in tasks' : InTurn(u)
    BY <1>3, <1>8 DEF WriteFile, Quit
  <2> QED BY <1>8, <2>1 DEF WriteFile, Quit, WellFormed, TypeOK, env, history
<1>9. CASE Agreed(t)
  <2>1. tasks' \subseteq Task /\ \A u \in tasks' : InTurn(u)
    <3>1. CASE After(t) = "none"
      BY <1>3, <1>9, <3>1 DEF Agreed
    <3>2. CASE After(t) # "none"
      <4>1. PICK u \in Task : InTurn(u) /\ tasks' = (tasks \ {t}) \cup {u}
        BY <1>9, <3>2, AgreedGoesOn DEF Agreed
      <4> QED BY <4>1, TasksReplaced
    <3> QED BY <3>1, <3>2
  <2>2. taken' \subseteq [op : Nat, to : 0..Recipients]
    BY <1>1, <1>9 DEF Agreed, Accept, WellFormed, TypeOK
  <2> QED BY <1>9, <2>1, <2>2 DEF Agreed, WellFormed, TypeOK, env
<1>10. CASE Refusal(t)
  <2>1. tasks' \subseteq Task /\ \A u \in tasks' : InTurn(u)
    BY <1>2, <1>3, <1>10 DEF Refusal, Refused
  <2>2. left' \in [Events -> Nat]
    BY <1>10, SpendType DEF Refusal, WellFormed, Events
  <2> QED BY <1>10, <2>1, <2>2 DEF Refusal, WellFormed, TypeOK, env, history
<1>11. CASE Silence(t)
  <2>1. tasks' \subseteq Task /\ \A u \in tasks' : InTurn(u)
    BY <1>2, <1>3, <1>11 DEF Silence
  <2>2. taken' \subseteq [op : Nat, to : 0..Recipients]
    BY <1>1, <1>11 DEF Silence, Accept, WellFormed, TypeOK
  <2>3. left' \in [Events -> Nat]
    BY <1>11, SpendType DEF Silence, WellFormed, Events
  <2> QED BY <1>11, <2>1, <2>2, <2>3 DEF Silence, WellFormed, TypeOK, env
<1>12. CASE TaskFails(t)
  <2>1. tasks' \subseteq Task /\ \A u \in tasks' : InTurn(u)
    BY <1>3, <1>12 DEF TaskFails
  <2>2. failed' \subseteq Slots
    BY <1>1, <1>12 DEF TaskFails, Marked, WellFormed, TypeOK
  <2>3. left' \in [Events -> Nat]
    BY <1>12, SpendType DEF TaskFails, WellFormed, Events
  <2> QED BY <1>12, <2>1, <2>2, <2>3 DEF TaskFails, WellFormed, TypeOK, env
<1> QED BY <1>4, <1>5, <1>6, <1>7, <1>8, <1>9, <1>10, <1>11, <1>12 DEF Step

LEMMA StepWellFormed == WellFormed /\ [Next]_vars => WellFormed'
<1> SUFFICES ASSUME WellFormed, [Next]_vars PROVE WellFormed'
  OBVIOUS
<1>1. CASE Advance
  BY <1>1, TimeAssumption DEF Advance, WellFormed, TypeOK, Instants, env, history
<1>2. CASE Activity
  <2>1. Cardinality(happened) + 1 \in Nat
    BY FS_CardinalityType DEF WellFormed
  <2>2. happened' \subseteq [number : Nat, when : Instants] /\ slipped' \subseteq Nat
    <3>1. PICK n \in Nat : n = Cardinality(happened) + 1
      BY <2>1
    <3>2. [number |-> n, when |-> clock] \in [number : Nat, when : Instants]
      BY DEF WellFormed, TypeOK
    <3>3. happened' = happened \cup {[number |-> n, when |-> clock]}
      BY <1>2, <3>1 DEF Activity
    <3>4. slipped' \subseteq slipped \cup {n}
      BY <1>2, <3>1 DEF Activity
    <3> QED BY <3>1, <3>2, <3>3, <3>4 DEF WellFormed, TypeOK
  <2>3. IsFiniteSet(happened')
    BY <1>2, FS_AddElement DEF Activity, WellFormed
  <2>4. left' \in [Events -> Nat]
    BY <1>2, SpendType DEF Activity, WellFormed, Events
  <2> QED BY <1>2, <2>2, <2>3, <2>4 DEF Activity, WellFormed, TypeOK, env
<1>3. ASSUME NEW r \in Replicas, NEW slot \in Slots \cup {Null}, NEW at \in {"claim", "window"},
             at = "claim" => slot \in Slots, lastOp' = lastOp + 1,
             tasks' = tasks \cup
               {[op |-> lastOp + 1, by |-> r, slot |-> slot, at |-> at, start |-> 0,
                 counted |-> {}, accepted |-> 0]}
      PROVE  tasks' \subseteq Task /\ (\A t \in tasks' : InTurn(t)) /\ lastOp' \in Nat
  <2>1. PICK u : u = [op |-> lastOp + 1, by |-> r, slot |-> slot, at |-> at, start |-> 0,
                      counted |-> {}, accepted |-> 0]
    OBVIOUS
  <2>2. lastOp + 1 \in Nat /\ Recipients \in Nat
    BY TimeAssumption DEF WellFormed, TypeOK
  <2>3. u \in Task
    BY <2>1, <2>2 DEF Task, Phases
  <2>4. InTurn(u)
    BY <1>3, <2>1 DEF InTurn
  <2> QED BY <1>3, <2>1, <2>2, <2>3, <2>4, TasksReplaced
<1>4. ASSUME NEW r \in Replicas, Tick(r) PROVE WellFormed'
  <2>1. PICK slot \in Slots : slot = NextSlot(LastSent)
    <3>1. LastSent \in Nat
      BY LastSentType, SlotsAreInstants DEF WellFormed
    <3>2. NextSlot(LastSent) \in Slots \cup {Null}
      BY <3>1, NextSlotType
    <3> QED BY <1>4, <3>2 DEF Tick, Due
  <2>2. tasks' \subseteq Task /\ (\A t \in tasks' : InTurn(t)) /\ lastOp' \in Nat
    BY <1>3, <1>4, <2>1 DEF Tick
  <2> QED BY <1>4, <2>2 DEF Tick, WellFormed, TypeOK, env, history
<1>5. ASSUME NEW r \in Replicas, SendNow(r) PROVE WellFormed'
  <2>1. tasks' \subseteq Task /\ (\A t \in tasks' : InTurn(t)) /\ lastOp' \in Nat
    BY <1>3, <1>5 DEF SendNow
  <2>2. left' \in [Events -> Nat]
    BY <1>5, SpendType DEF SendNow, WellFormed, Events
  <2> QED BY <1>5, <2>1, <2>2 DEF SendNow, WellFormed, TypeOK, env, history
<1>6. ASSUME NEW r \in Replicas, Crash(r) PROVE WellFormed'
  <2>1. tasks' \subseteq Task /\ \A t \in tasks' : InTurn(t)
    BY <1>6, TasksGo DEF Crash
  <2>2. left' \in [Events -> Nat]
    BY <1>6, SpendType DEF Crash, WellFormed, Events
  <2> QED BY <1>6, <2>1, <2>2 DEF Crash, WellFormed, TypeOK, env, history
<1>7. CASE UNCHANGED vars
  BY <1>7 DEF vars, WellFormed, TypeOK, env, InTurn
<1> QED BY <1>1, <1>2, <1>4, <1>5, <1>6, <1>7, TaskStepWellFormed DEF Next

LEMMA AlwaysWellFormed == Spec => []WellFormed
BY InitWellFormed, StepWellFormed, PTL DEF Spec

(* Every variable keeps its type: a slot is one of the schedule, and no    *)
(* more recipients are accepted than there are.                            *)
THEOREM DigestTypeCorrect == Spec => []TypeOK
<1>1. WellFormed => TypeOK
  BY DEF WellFormed
<1> QED BY <1>1, AlwaysWellFormed, PTL

-----------------------------------------------------------------------------
(* The ledger: a task is claimed, then its row is in the history, then it  *)
(* is delivered.                                                           *)

Claimed(t) == t.at \in {"window", "count", "insert"}
Delivering(t) == t.at \in Stages \cup {"deliver", "quit", "stalled"}

Moves(t, u) ==
  /\ tasks' \subseteq (tasks \ {t}) \cup {u}
  /\ u.op = t.op /\ u.slot = t.slot
  /\ Claimed(u) => Claimed(t) \/ (Claim(t) /\ ~Owned(t.slot))
  /\ Delivering(u) => Delivering(t) \/ Insert(t)

(* A step of a task is the end of it or leaves it with its number and slot.*)
LEMMA TaskGoesOn ==
  ASSUME WellFormed, NEW t \in tasks, Step(t)
  PROVE  \E u : Moves(t, u)
<1>1. t \in Task /\ InTurn(t)
  BY DEF WellFormed, TypeOK
<1>2. ASSUME End(t) PROVE \E u : Moves(t, u)
  <2>1. Moves(t, t)
    BY <1>2 DEF Moves, End
  <2> QED BY <2>1
<1>3. ASSUME NEW at \in Phases, Continue(t, at),
             at \in {"window", "count", "insert"} =>
               Claimed(t) \/ (Claim(t) /\ ~Owned(t.slot)),
             at \in Stages \cup {"deliver", "quit", "stalled"} => Delivering(t) \/ Insert(t)
      PROVE  \E u : Moves(t, u)
  <2>1. Moves(t, [t EXCEPT !.at = at])
    BY <1>1, <1>3, TaskMoves DEF Moves, Continue, Claimed, Delivering
  <2> QED BY <2>1
<1>4. CASE Claim(t)
  BY <1>2, <1>3, <1>4 DEF Claim, Phases, Stages
<1>5. CASE ReadWindow(t)
  <2>1. From(t) \in Int
    BY LastSentType, TimeAssumption DEF From, WellFormed, TypeOK, Instants
  <2>2. PICK u \in Task : /\ tasks' = (tasks \ {t}) \cup {u} /\ u.at = "count"
                          /\ u.op = t.op /\ u.slot = t.slot
    BY <1>1, <1>5, <2>1, TaskStarts DEF ReadWindow
  <2>3. Moves(t, u)
    BY <1>5, <2>2 DEF Moves, Claimed, Delivering, ReadWindow, Stages
  <2> QED BY <2>3
<1>6. CASE Count(t)
  <2> DEFINE counted == {h.number : h \in {g \in happened : g.when >= t.start}}
  <2>1. counted \in SUBSET Nat
    BY DEF WellFormed, TypeOK
  <2>2. PICK u \in Task : /\ tasks' = (tasks \ {t}) \cup {u} /\ u.at = "insert"
                          /\ u.op = t.op /\ u.slot = t.slot
    <3>1. tasks' = (tasks \ {t}) \cup {[t EXCEPT !.at = "insert", !.counted = counted]}
      BY <1>6 DEF Count
    <3> HIDE DEF counted
    <3> QED BY <1>1, <2>1, <3>1, TaskCounts
  <2>3. Moves(t, u)
    BY <1>6, <2>2 DEF Moves, Claimed, Delivering, Count, Stages
  <2> QED BY <2>3
<1>7. CASE Insert(t)
  BY <1>3, <1>7 DEF Insert, Phases, Stages
<1>8. CASE WriteFile(t) \/ Quit(t) \/ TaskFails(t)
  BY <1>2, <1>8 DEF WriteFile, Quit, TaskFails
<1>9. CASE Agreed(t)
  <2>1. CASE After(t) = "none"
    BY <1>2, <1>9, <2>1 DEF Agreed
  <2>2. CASE After(t) # "none"
    <3>1. PICK u \in Task : /\ tasks' = (tasks \ {t}) \cup {u}
                            /\ u.op = t.op /\ u.slot = t.slot /\ u.at = After(t)
      BY <1>9, <2>2, AgreedGoesOn DEF Agreed
    <3>2. u.at \in Stages \cup {"quit"}
      BY <1>1, <1>9, <2>2, <3>1, AfterStage DEF Agreed
    <3>3. ~Claimed(u) /\ Delivering(t)
      BY <1>9, <3>2 DEF Claimed, Delivering, Agreed, Stages
    <3>4. Moves(t, u)
      BY <3>1, <3>3 DEF Moves
    <3> QED BY <3>4
  <2> QED BY <2>1, <2>2
<1>10. CASE Refusal(t)
  BY <1>2, <1>3, <1>10 DEF Refusal, Refused, Delivering, Phases, Stages
<1>11. CASE Silence(t)
  BY <1>2, <1>3, <1>11 DEF Silence, Delivering, Phases, Stages
<1> QED BY <1>4, <1>5, <1>6, <1>7, <1>8, <1>9, <1>10, <1>11 DEF Step

(* Only an insert touches the history, and it adds the task's own row.     *)
LEMMA RowsStay ==
  ASSUME NEW t \in tasks, Step(t)
  PROVE  /\ log \subseteq log' /\ lastOp' = lastOp /\ raced \subseteq raced' /\ clock' = clock
         /\ log' = log \/ Insert(t)
BY DEF Step, Claim, ReadWindow, Count, Insert, Logged, WriteFile, Agreed, Refusal, Silence, Quit,
       TaskFails, history

LEMMA RowOfInsert ==
  ASSUME NEW t \in tasks, Insert(t)
  PROVE  \E new : /\ log' = log \cup {new} /\ new.op = t.op /\ new.slot = t.slot
                  /\ new.sent = clock
<1>1. PICK new : new = [op |-> t.op, slot |-> t.slot, sent |-> clock, counted |-> t.counted]
  OBVIOUS
<1>2. new.op = t.op /\ new.slot = t.slot /\ new.sent = clock
  BY <1>1
<1> QED BY <1>1, <1>2 DEF Insert, Logged

(* The other steps leave the history alone.                                *)
LEMMA OtherStepsKeepRows ==
  ASSUME [Next]_vars, \A t \in tasks : ~Step(t)
  PROVE  log' = log /\ taken' = taken /\ raced' = raced
BY DEF Next, Advance, Activity, Tick, SendNow, Crash, history, vars

(* What comes in is a task before its row: for a due slot and unclaimed,   *)
(* or for none.                                                            *)
Arrives(u) ==
  /\ u.op = lastOp + 1 /\ ~Delivering(u)
  /\ u.slot # Null => u.at = "claim" /\ u.slot <= clock

LEMMA OtherStepsKeepTasks ==
  ASSUME [Next]_vars, \A t \in tasks : ~Step(t)
  PROVE  \/ tasks' \subseteq tasks /\ lastOp' = lastOp
         \/ /\ lastOp' = lastOp + 1 /\ clock' = clock
            /\ \E u : Arrives(u) /\ tasks' = tasks \cup {u}
<1>1. ASSUME NEW r \in Replicas, Tick(r) PROVE
        /\ lastOp' = lastOp + 1 /\ clock' = clock
        /\ \E u : Arrives(u) /\ tasks' = tasks \cup {u}
  BY <1>1 DEF Tick, Arrives, Due, Delivering, Stages
<1>2. ASSUME NEW r \in Replicas, SendNow(r) PROVE
        /\ lastOp' = lastOp + 1 /\ clock' = clock
        /\ \E u : Arrives(u) /\ tasks' = tasks \cup {u}
  BY <1>2 DEF SendNow, Arrives, Delivering, Stages
<1> QED BY <1>1, <1>2 DEF Next, Advance, Activity, Crash, history, vars

LEMMA TimeGoesOn ==
  ASSUME TypeOK, [Next]_vars
  PROVE  clock \leq clock' /\ clock \in Nat /\ clock' \in Nat
<1>1. clock \in Nat
  BY SlotsAreInstants DEF TypeOK
<1>2. clock' = clock \/ clock' = clock + 1
  BY DEF Next, Advance, Activity, Tick, SendNow, Crash, Step, Claim, ReadWindow, Count, Insert,
         WriteFile, Agreed, Refusal, Silence, Quit, TaskFails, vars
<1> QED BY <1>1, <1>2

-----------------------------------------------------------------------------
(* Tasks are told apart by their numbers, and the numbers are given out in *)
(* order.                                                                  *)
Numbered ==
  /\ \A t \in tasks : t.op <= lastOp
  /\ \A t, u \in tasks : t.op = u.op => t = u

LEMMA StepNumbered == WellFormed /\ Numbered /\ [Next]_vars => Numbered'
<1> SUFFICES ASSUME WellFormed, Numbered, [Next]_vars PROVE Numbered'
  OBVIOUS
<1>1. lastOp \in Nat /\ \A t \in tasks : t.op \in Nat
  BY DEF WellFormed, TypeOK, Task
<1>2. CASE \E t \in tasks : Step(t)
  <2>1. PICK t \in tasks : Step(t)
    BY <1>2
  <2>2. PICK u : Moves(t, u)
    BY <2>1, TaskGoesOn
  <2>3. lastOp' = lastOp
    BY <2>1, RowsStay
  <2> QED BY <2>2, <2>3 DEF Moves, Numbered
<1>3. CASE \A t \in tasks : ~Step(t)
  <2>1. CASE tasks' \subseteq tasks /\ lastOp' = lastOp
    BY <2>1 DEF Numbered
  <2>2. ASSUME lastOp' = lastOp + 1, NEW u, Arrives(u), tasks' = tasks \cup {u}
        PROVE  Numbered'
    <3>1. u.op = lastOp + 1 /\ \A t \in tasks : t.op < u.op
      BY <1>1, <2>2 DEF Arrives, Numbered
    <3> QED BY <1>1, <2>2, <3>1 DEF Numbered
  <2> QED BY <1>3, <2>1, <2>2, OtherStepsKeepTasks
<1> QED BY <1>2, <1>3

(* Whatever is being delivered has its row.                                *)
RowFirst == \A t \in tasks : Delivering(t) => \E row \in log : row.op = t.op

LEMMA StepRowFirst ==
  WellFormed /\ RowFirst /\ MailHasRow /\ [Next]_vars => RowFirst' /\ MailHasRow'
<1> SUFFICES ASSUME WellFormed, RowFirst, MailHasRow, [Next]_vars
             PROVE  RowFirst' /\ MailHasRow'
  OBVIOUS
<1>1. CASE \E t \in tasks : Step(t)
  <2>1. PICK t \in tasks : Step(t)
    BY <1>1
  <2>2. PICK u : Moves(t, u)
    BY <2>1, TaskGoesOn
  <2>3. log \subseteq log'
    BY <2>1, RowsStay
  <2>4. Insert(t) => \E row \in log' : row.op = t.op
    BY RowOfInsert
  <2>5. RowFirst'
    BY <2>2, <2>3, <2>4 DEF RowFirst, Moves, Delivering
  <2>6. taken' = taken \/ (taken' = taken \cup {[op |-> t.op, to |-> t.accepted]} /\ t.at = "body")
    BY <2>1 DEF Step, Claim, ReadWindow, Count, Insert, WriteFile, Agreed, Refusal, Silence, Quit,
                TaskFails, Accept, history
  <2>7. t.at = "body" => t.accepted = Recipients /\ \E row \in log : row.op = t.op
    BY DEF WellFormed, InTurn, RowFirst, Delivering, Stages
  <2>8. MailHasRow'
    BY <2>3, <2>6, <2>7 DEF MailHasRow
  <2> QED BY <2>5, <2>8
<1>2. CASE \A t \in tasks : ~Step(t)
  <2>1. log' = log /\ taken' = taken
    BY <1>2, OtherStepsKeepRows
  <2>2. \A t \in tasks' : t \in tasks \/ ~Delivering(t)
    BY <1>2, OtherStepsKeepTasks DEF Arrives
  <2> QED BY <2>1, <2>2 DEF RowFirst, MailHasRow, Delivering
<1> QED BY <1>1, <1>2

(* docs/digest.md: the row is written first.  Whatever the server takes is *)
(* in the history, and goes to every recipient: the task that reaches the  *)
(* body has written its row and has had every address accepted.            *)
THEOREM MailedIsLogged == Spec => []MailHasRow
<1>1. Init => RowFirst /\ MailHasRow
  BY DEF Init, RowFirst, MailHasRow
<1> QED BY <1>1, StepRowFirst, AlwaysWellFormed, PTL DEF Spec

-----------------------------------------------------------------------------
(* One task at a time is between its claim and its row, unless the slot is *)
(* raced, and a claimed slot has no row before.                            *)
InTime ==
  /\ \A t \in tasks : t.slot # Null => t.slot <= clock
  /\ \A row \in log : row.slot # Null => row.slot <= row.sent

OneClaim ==
  \A t, u \in tasks :
    Claimed(t) /\ Claimed(u) /\ t.slot = u.slot /\ t.slot \notin raced \cup {Null} => t = u

ClaimBeforeRow ==
  \A t \in tasks : \A row \in log :
    Claimed(t) /\ t.slot = row.slot => t.slot \in raced \cup {Null}

Ledger == InTime /\ OneClaim /\ ClaimBeforeRow /\ OncePerSlot

LEMMA StepInTime == WellFormed /\ InTime /\ [Next]_vars => InTime'
<1> SUFFICES ASSUME WellFormed, InTime, [Next]_vars PROVE InTime'
  OBVIOUS
<1>1. clock <= clock' /\ clock \in Nat /\ clock' \in Nat
  BY TimeGoesOn DEF WellFormed
<1>2. /\ \A t \in tasks : t.slot \in Nat
      /\ \A row \in log : row.slot \in Nat
  <2>1. Slots \cup {Null} \subseteq Nat
    BY SlotsAreInstants DEF Null
  <2>2. \A t \in tasks : t.slot \in Slots \cup {Null}
    BY DEF WellFormed, TypeOK, Task
  <2>3. \A row \in log : row.slot \in Slots \cup {Null}
    BY DEF WellFormed, TypeOK, LogRow
  <2> QED BY <2>1, <2>2, <2>3
<1>3. CASE \E t \in tasks : Step(t)
  <2>1. PICK t \in tasks : Step(t)
    BY <1>3
  <2>2. PICK u : Moves(t, u)
    BY <2>1, TaskGoesOn
  <2>3. \A v \in tasks' : v.slot # Null => v.slot <= clock'
    BY <1>1, <1>2, <2>2 DEF Moves, InTime
  <2>4. \A row \in log' : row.slot # Null => row.slot <= row.sent
    BY <1>2, <2>1, RowsStay, RowOfInsert DEF InTime
  <2> QED BY <2>3, <2>4 DEF InTime
<1>4. CASE \A t \in tasks : ~Step(t)
  <2>1. log' = log
    BY <1>4, OtherStepsKeepRows
  <2>2. \A v \in tasks' : v.slot # Null => v.slot <= clock'
    BY <1>1, <1>2, <1>4, OtherStepsKeepTasks DEF Arrives, InTime
  <2> QED BY <2>1, <2>2 DEF InTime
<1> QED BY <1>3, <1>4

LEMMA StepLedger == WellFormed /\ Numbered /\ Ledger /\ [Next]_vars => Ledger'
<1> SUFFICES ASSUME WellFormed, Numbered, Ledger, [Next]_vars PROVE Ledger'
  OBVIOUS
<1>1. InTime'
  BY StepInTime DEF Ledger
<1>2. CASE \E t \in tasks : Step(t)
  <2>1. PICK t \in tasks : Step(t)
    BY <1>2
  <2>2. PICK u : Moves(t, u)
    BY <2>1, TaskGoesOn
  <2>3. raced \subseteq raced' /\ (log' = log \/ Insert(t))
    BY <2>1, RowsStay
  (* A claim that goes on finds no row and declares its rivals.            *)
  <2>4. ASSUME Claim(t), ~Owned(t.slot)
        PROVE  /\ \A row \in log : row.slot # t.slot
               /\ \A v \in tasks \ {t} : Claimed(v) /\ v.slot = t.slot => t.slot \in raced'
    <3>1. t.slot \in Slots /\ t.slot # Null
      BY <2>4, SlotsAreInstants DEF Claim, WellFormed, InTurn
    <3>2. \A row \in log : row.slot # t.slot
      BY <2>4, <3>1 DEF Owned, Ledger, InTime
    <3>3. ASSUME NEW v \in tasks \ {t}, Claimed(v), v.slot = t.slot PROVE t.slot \in raced'
      <4>1. v \in Rivals(t)
        BY <3>3 DEF Rivals, Claimed, Numbered
      <4> QED BY <2>4, <4>1 DEF Claim
    <3> QED BY <3>2, <3>3
  <2>5. OneClaim'
    BY <2>2, <2>3, <2>4 DEF Moves, Ledger, OneClaim, Claimed
  <2>6. CASE log' = log
    <3>1. ClaimBeforeRow'
      BY <2>2, <2>3, <2>4, <2>6 DEF Moves, Ledger, ClaimBeforeRow, Claimed
    <3>2. OncePerSlot'
      BY <2>3, <2>6 DEF Ledger, OncePerSlot
    <3> QED BY <1>1, <2>5, <3>1, <3>2 DEF Ledger
  <2>7. CASE Insert(t)
    <3>1. PICK new : log' = log \cup {new} /\ new.op = t.op /\ new.slot = t.slot
      BY <2>7, RowOfInsert
    <3>2. Claimed(t) /\ ~Claim(t)
      BY <2>7 DEF Insert, Claim, Claimed
    <3>3. [t EXCEPT !.at = IF server.configured THEN "banner" ELSE "deliver"].at
            \in {"banner", "deliver"}
      BY DEF WellFormed, TypeOK, Task
    <3>4. \A v \in tasks' : Claimed(v) => v \in tasks \ {t}
      BY <2>7, <3>3 DEF Insert, Continue, Claimed
    <3>5. ClaimBeforeRow'
      BY <2>3, <3>1, <3>2, <3>4 DEF Ledger, ClaimBeforeRow, OneClaim, Claimed
    <3>6. OncePerSlot'
      BY <2>3, <3>1, <3>2 DEF Ledger, OncePerSlot, ClaimBeforeRow
    <3> QED BY <1>1, <2>5, <3>5, <3>6 DEF Ledger
  <2> QED BY <2>3, <2>6, <2>7
<1>3. CASE \A t \in tasks : ~Step(t)
  <2>1. log' = log /\ raced' = raced
    BY <1>3, OtherStepsKeepRows
  <2>2. \A v \in tasks' : Claimed(v) => v \in tasks \/ v.slot = Null
    BY <1>3, OtherStepsKeepTasks DEF Arrives, Claimed
  <2>3. OneClaim' /\ ClaimBeforeRow' /\ OncePerSlot'
    BY <2>1, <2>2 DEF Ledger, OneClaim, ClaimBeforeRow, OncePerSlot, Claimed
  <2> QED BY <1>1, <2>3 DEF Ledger
<1> QED BY <1>2, <1>3

(* A slot that two processes do not claim at once is sent once, by         *)
(* whichever process takes it and across restarts: the row, not the mark   *)
(* in memory, is what the next claim finds.                                *)
THEOREM SlotSentOnce == Spec => []OncePerSlot
<1>1. Init => Numbered /\ Ledger
  BY DEF Init, Numbered, Ledger, InTime, OneClaim, ClaimBeforeRow, OncePerSlot
<1>2. Ledger => OncePerSlot
  BY DEF Ledger
<1> QED BY <1>1, <1>2, StepNumbered, StepLedger, AlwaysWellFormed, PTL DEF Spec

-----------------------------------------------------------------------------
(* What happened before the window of a digest is in an earlier one, or    *)
(* came too early for the first: so it is until the row is written, and    *)
(* what comes after the counts has slipped.                                *)
Counted(h) == \E row \in log : h.number \in row.counted

TooEarly(h) ==
  h.when < clock - Window /\ \A row \in log : h.when < row.sent - Window

Settled(h) == h.number \in slipped \/ Counted(h) \/ TooEarly(h)

SentByNow == \A row \in log : row.sent <= clock
HappenedByNow == \A h \in happened : h.when <= clock

WindowIsWhole(t) ==
  t.start <= clock /\ \A h \in happened : h.when < t.start => Settled(h)

CountIsWhole(t) ==
  \A h \in happened : h.number \in t.counted \/ Settled(h)

Coverage ==
  /\ SentByNow /\ HappenedByNow
  /\ \A t \in tasks : t.at = "count" => WindowIsWhole(t)
  /\ \A t \in tasks : t.at = "insert" => CountIsWhole(t)
  /\ \A h \in happened : h.when < LastSent => Settled(h)

LEMMA LastSentByNow ==
  ASSUME WellFormed, SentByNow
  PROVE  LastSent <= clock
<1>1. CASE log = {}
  <2>1. clock \in Nat
    BY SlotsAreInstants DEF WellFormed, TypeOK
  <2> QED BY <1>1, <2>1 DEF LastSent, Null
<1>2. CASE log # {}
  BY <1>2, LastSentType DEF SentByNow, WellFormed
<1> QED BY <1>1, <1>2

(* A row of this instant is too late for what is too early, and the clock  *)
(* does not go back.                                                       *)
LogGoesOn ==
  \/ log' = log
  \/ \E new : log' = log \cup {new} /\ new.sent = clock

LEMMA SettledStays ==
  ASSUME WellFormed, NEW h \in happened, Settled(h),
         slipped \subseteq slipped', clock <= clock', clock' \in Nat, LogGoesOn
  PROVE  Settled(h)'
<1>1. h.when \in Nat /\ clock \in Nat /\ Window \in Nat /\ \A row \in log : row.sent \in Nat
  BY SlotsAreInstants, TimeAssumption DEF WellFormed, TypeOK, LogRow
<1>2. log \subseteq log' /\ \A row \in log' : row \in log \/ row.sent = clock
  BY DEF LogGoesOn
<1>3. Counted(h) => Counted(h)'
  BY <1>2 DEF Counted
<1>4. TooEarly(h) => TooEarly(h)'
  BY <1>1, <1>2 DEF TooEarly
<1> QED BY <1>3, <1>4 DEF Settled

(* Where a window starts, what was before is settled.                      *)
LEMMA FromIsWhole ==
  ASSUME WellFormed, Coverage, NEW t \in tasks
  PROVE  From(t) <= clock /\ \A h \in happened : h.when < From(t) => Settled(h)
<1>1. clock \in Nat /\ Window \in Nat /\ LastSent <= clock
  BY SlotsAreInstants, TimeAssumption, LastSentByNow DEF WellFormed, TypeOK, Coverage
<1>2. CASE log = {}
  <2>1. \A h \in happened : h.when < From(t) => TooEarly(h)
    BY <1>2 DEF From, TooEarly
  <2> QED BY <1>1, <1>2, <2>1 DEF From, Settled
<1>3. CASE log # {}
  BY <1>1, <1>3 DEF From, Coverage
<1> QED BY <1>2, <1>3

(* No other step than these touches a window, a count or a row.            *)
CountsStay ==
  /\ log' = log /\ happened' = happened /\ slipped' = slipped
  /\ \A v \in tasks' : v.at \in {"count", "insert"} => v \in tasks

LEMMA OtherStepsKeepCounts ==
  ASSUME WellFormed, [Next]_vars, ~Activity,
         \A t \in tasks : ~ReadWindow(t) /\ ~Count(t) /\ ~Insert(t)
  PROVE  CountsStay
<1>1. ASSUME NEW t \in tasks, NEW at \in Phases \ {"count", "insert"}, End(t) \/ Continue(t, at)
      PROVE  \A v \in tasks' : v.at \in {"count", "insert"} => v \in tasks
  <2>1. [t EXCEPT !.at = at].at = at
    BY TaskMoves DEF WellFormed, TypeOK
  <2> QED BY <1>1, <2>1 DEF End, Continue
<1>2. ASSUME NEW t \in tasks, Claim(t) \/ WriteFile(t) \/ Quit(t) \/ TaskFails(t) \/ Refusal(t)
                              \/ Silence(t)
      PROVE  CountsStay
  <2>1. CASE Claim(t)
    BY <1>1, <2>1 DEF Claim, CountsStay, Phases
  <2>2. CASE WriteFile(t) \/ Quit(t) \/ TaskFails(t)
    BY <1>1, <2>2 DEF WriteFile, Quit, TaskFails, End, CountsStay, history
  <2>3. CASE Refusal(t)
    BY <1>1, <2>3 DEF Refusal, Refused, CountsStay, history, Phases, Stages
  <2>4. CASE Silence(t)
    BY <1>1, <2>4 DEF Silence, CountsStay, Phases
  <2> QED BY <1>2, <2>1, <2>2, <2>3, <2>4
<1>3. ASSUME NEW t \in tasks, Agreed(t) PROVE CountsStay
  <2>1. CASE After(t) = "none"
    BY <1>3, <2>1 DEF Agreed, End, CountsStay
  <2>2. CASE After(t) # "none"
    <3>1. PICK u \in Task : tasks' = (tasks \ {t}) \cup {u} /\ u.at = After(t)
      BY <1>3, <2>2, AgreedGoesOn DEF Agreed
    <3>2. t \in Task /\ InTurn(t) /\ t.at \in Stages
      BY <1>3 DEF WellFormed, TypeOK, Agreed
    <3>3. u.at \notin {"count", "insert"}
      BY <2>2, <3>1, <3>2, AfterStage DEF Stages
    <3> QED BY <1>3, <3>1, <3>3 DEF Agreed, CountsStay
  <2> QED BY <2>1, <2>2
<1>4. ASSUME NEW r \in Replicas, Tick(r) \/ SendNow(r) \/ Crash(r) PROVE CountsStay
  BY <1>4 DEF Tick, SendNow, Crash, CountsStay, history
<1>5. CASE Advance \/ UNCHANGED vars
  BY <1>5 DEF Advance, CountsStay, history, vars
<1> QED BY <1>2, <1>3, <1>4, <1>5 DEF Next, Step

LEMMA StepCoverage == WellFormed /\ Coverage /\ [Next]_vars => Coverage'
<1> SUFFICES ASSUME WellFormed, Coverage, [Next]_vars PROVE Coverage'
  OBVIOUS
<1>1. clock <= clock' /\ clock \in Nat /\ clock' \in Nat
  BY TimeGoesOn DEF WellFormed
<1>2. /\ \A t \in tasks : t \in Task /\ t.start \in Int
      /\ \A h \in happened : h.when \in Nat
      /\ \A row \in log : row.sent \in Nat
  BY SlotsAreInstants DEF WellFormed, TypeOK, Task, LogRow
<1>3. CASE Activity
  <2>1. PICK new : /\ happened' = happened \cup {new} /\ new.when = clock
                   /\ slipped \subseteq slipped'
                   /\ (\E t \in tasks : t.at = "insert") => new.number \in slipped'
    <3>1. PICK new : new = [number |-> Cardinality(happened) + 1, when |-> clock]
      OBVIOUS
    <3>2. new.when = clock /\ new.number = Cardinality(happened) + 1
      BY <3>1
    <3> QED BY <1>3, <3>1, <3>2 DEF Activity
  <2>2. tasks' = tasks /\ log' = log /\ clock' = clock /\ LastSent' = LastSent
    BY <1>3 DEF Activity, LastSent
  <2>3. \A h \in happened : Settled(h) => Settled(h)'
    BY <2>1, <2>2 DEF Settled, Counted, TooEarly
  <2>4. (\E t \in tasks : t.at = "insert") => Settled(new)'
    BY <2>1 DEF Settled
  <2>5. LastSent <= clock
    BY LastSentByNow DEF Coverage
  <2>6. LastSent \in Nat
    BY LastSentType, SlotsAreInstants DEF WellFormed
  <2>7. ASSUME NEW t \in tasks, t.at = "count" PROVE WindowIsWhole(t)'
    BY <1>1, <1>2, <2>1, <2>2, <2>3, <2>7 DEF Coverage, WindowIsWhole
  <2>8. ASSUME NEW t \in tasks, t.at = "insert" PROVE CountIsWhole(t)'
    BY <2>1, <2>3, <2>4, <2>8 DEF Coverage, CountIsWhole
  <2>9. \A h \in happened' : h.when < LastSent' => Settled(h)'
    BY <1>1, <2>1, <2>2, <2>3, <2>5, <2>6 DEF Coverage
  <2>10. SentByNow' /\ HappenedByNow'
    BY <1>1, <2>1, <2>2 DEF Coverage, SentByNow, HappenedByNow
  <2> QED BY <2>2, <2>7, <2>8, <2>9, <2>10 DEF Coverage
<1>4. ASSUME happened' = happened, slipped' = slipped, LogGoesOn
      PROVE  /\ \A h \in happened : Settled(h) => Settled(h)'
             /\ SentByNow' /\ HappenedByNow'
             /\ \A t \in tasks : WindowIsWhole(t) => WindowIsWhole(t)'
             /\ \A t \in tasks : CountIsWhole(t) => CountIsWhole(t)'
  <2>1. \A h \in happened : Settled(h) => Settled(h)'
    BY <1>1, <1>4, SettledStays
  <2>2. SentByNow'
    BY <1>1, <1>2, <1>4 DEF Coverage, SentByNow, LogGoesOn
  <2>3. HappenedByNow'
    BY <1>1, <1>2, <1>4 DEF Coverage, HappenedByNow
  <2>4. ASSUME NEW t \in tasks, WindowIsWhole(t) PROVE WindowIsWhole(t)'
    BY <1>1, <1>2, <1>4, <2>1, <2>4 DEF WindowIsWhole
  <2>5. \A t \in tasks : CountIsWhole(t) => CountIsWhole(t)'
    BY <1>4, <2>1 DEF CountIsWhole
  <2> QED BY <2>1, <2>2, <2>3, <2>4, <2>5
<1>5. ASSUME NEW t \in tasks, ReadWindow(t) PROVE Coverage'
  <2>1. log' = log /\ happened' = happened /\ slipped' = slipped /\ clock' = clock /\ LogGoesOn
        /\ LastSent' = LastSent
    BY <1>5 DEF ReadWindow, history, LogGoesOn, LastSent
  <2>2. From(t) \in Int
    BY LastSentType, TimeAssumption DEF From, WellFormed, TypeOK, Instants
  <2>3. PICK u : /\ tasks' = (tasks \ {t}) \cup {u} /\ u.at = "count" /\ u.start = From(t)
    <3>1. PICK u : u = [t EXCEPT !.at = "count", !.start = From(t)]
      OBVIOUS
    <3>2. u.at = "count" /\ u.start = From(t)
      BY <1>2, <3>1 DEF Task
    <3> QED BY <1>5, <3>1, <3>2 DEF ReadWindow
  <2>4. WindowIsWhole(u)'
    BY <1>1, <1>4, <2>1, <2>3, FromIsWhole DEF WindowIsWhole
  <2> QED BY <1>4, <2>1, <2>3, <2>4 DEF Coverage
<1>6. ASSUME NEW t \in tasks, Count(t) PROVE Coverage'
  <2> DEFINE counted == {h.number : h \in {g \in happened : g.when >= t.start}}
  <2>1. log' = log /\ happened' = happened /\ slipped' = slipped /\ clock' = clock /\ LogGoesOn
        /\ LastSent' = LastSent
    <3>1. UNCHANGED <<clock, log, happened, history>>
      BY <1>6 DEF Count
    <3> QED BY <3>1 DEF history, LogGoesOn, LastSent
  <2>2. PICK u : /\ tasks' = (tasks \ {t}) \cup {u} /\ u.at = "insert" /\ u.counted = counted
    <3>1. PICK u : u = [t EXCEPT !.at = "insert", !.counted = counted]
      OBVIOUS
    <3>2. u.at = "insert" /\ u.counted = counted
      <4> HIDE DEF counted
      <4> QED BY <1>2, <3>1 DEF Task
    <3> QED BY <1>6, <3>1, <3>2 DEF Count
  <2>3. WindowIsWhole(t)
    BY <1>6 DEF Count, Coverage
  <2>4. ASSUME NEW h \in happened PROVE h.number \in counted \/ Settled(h)
    <3>1. CASE h.when >= t.start
      BY <3>1
    <3>2. CASE h.when < t.start
      BY <2>3, <3>2 DEF WindowIsWhole
    <3> QED BY <1>2, <3>1, <3>2
  <2>5. CountIsWhole(u)'
    <3> HIDE DEF counted
    <3> QED BY <1>4, <2>1, <2>2, <2>4 DEF CountIsWhole
  <2> QED BY <1>4, <2>1, <2>2, <2>5 DEF Coverage
<1>7. ASSUME NEW t \in tasks, Insert(t) PROVE Coverage'
  <2>1. PICK new : log' = log \cup {new} /\ new.sent = clock /\ new.counted = t.counted
    <3>1. PICK new : new = [op |-> t.op, slot |-> t.slot, sent |-> clock, counted |-> t.counted]
      OBVIOUS
    <3>2. new.sent = clock /\ new.counted = t.counted
      BY <3>1
    <3> QED BY <1>7, <3>1, <3>2 DEF Insert, Logged
  <2>2. happened' = happened /\ slipped' = slipped /\ LogGoesOn
    BY <1>7, <2>1 DEF Insert, history, LogGoesOn
  <2>3. [t EXCEPT !.at = IF server.configured THEN "banner" ELSE "deliver"].at
          \notin {"count", "insert"}
    BY <1>2 DEF Task
  <2>4. \A v \in tasks' : v.at \in {"count", "insert"} => v \in tasks
    BY <1>7, <2>3 DEF Insert, Continue
  <2>5. \A h \in happened : h.number \in t.counted \/ Settled(h)
    BY <1>7 DEF Insert, Coverage, CountIsWhole
  <2>6. \A h \in happened : Settled(h)'
    <3>1. \A h \in happened : h.number \in t.counted => Counted(h)'
      BY <2>1 DEF Counted
    <3> QED BY <1>4, <2>2, <2>5, <3>1 DEF Settled
  <2> QED BY <1>4, <2>2, <2>4, <2>6 DEF Coverage
<1>8. CASE ~Activity /\ \A t \in tasks : ~ReadWindow(t) /\ ~Count(t) /\ ~Insert(t)
  <2>1. CountsStay
    BY <1>8, OtherStepsKeepCounts
  <2>2. LogGoesOn /\ LastSent' = LastSent
    BY <2>1 DEF CountsStay, LogGoesOn, LastSent
  <2> QED BY <1>4, <2>1, <2>2 DEF Coverage, CountsStay
<1> QED BY <1>3, <1>5, <1>6, <1>7, <1>8

(* Digest after digest, whatever happened in reach of the first and before *)
(* the last is counted in one of them, unless it came between the counts   *)
(* of one and its row: two tasks at once, failures and crashes leave no    *)
(* other gap.                                                              *)
THEOREM DigestsLeaveNoGap == Spec => []NothingForgotten
<1>1. Init => Coverage
  <2> SUFFICES ASSUME Init PROVE Coverage
    OBVIOUS
  <2>1. happened = {} /\ log = {} /\ tasks = {}
    BY DEF Init
  <2> QED BY <2>1 DEF Coverage, SentByNow, HappenedByNow
<1>2. WellFormed /\ Coverage => NothingForgotten
  <2> SUFFICES ASSUME WellFormed, Coverage,
                      NEW h \in happened, h.when < LastSent, InReach(h), h.number \notin slipped
               PROVE  Counted(h)
    BY DEF NothingForgotten, Counted
  <2>1. h.when \in Nat /\ Window \in Nat /\ \A row \in log : row.sent \in Nat
    BY SlotsAreInstants, TimeAssumption DEF WellFormed, TypeOK, LogRow
  <2>2. ~TooEarly(h)
    BY <2>1 DEF TooEarly, InReach
  <2> QED BY <2>2 DEF Coverage, Settled
<1> QED BY <1>1, <1>2, StepCoverage, AlwaysWellFormed, PTL DEF Spec

-----------------------------------------------------------------------------
(* The webhooks beside the digests.  Sent is Outgoing with the theorems    *)
(* about it: the two say the same.                                         *)
Sent == INSTANCE WebhookProofs WITH lastOp <- hookOp, left <- hookLeft

LEMMA SameInit == Outgoing!Init => Sent!Init
BY DEF Outgoing!Init, Sent!Init

LEMMA SameNext == Outgoing!Next => Sent!Next
BY DEF Outgoing!Events, Sent!Events, Outgoing!vars, Sent!vars, Outgoing!history, Sent!history,
       Outgoing!Stored, Sent!Stored, Outgoing!Spend, Sent!Spend, Outgoing!Create, Sent!Create,
       Outgoing!Put, Sent!Put, Outgoing!Delete, Sent!Delete, Outgoing!NewCampaign,
       Sent!NewCampaign, Outgoing!Emit, Sent!Emit, Outgoing!Subscribed, Sent!Subscribed,
       Outgoing!Lookup, Sent!Lookup, Outgoing!LookupFails, Sent!LookupFails, Outgoing!Test,
       Sent!Test, Outgoing!Becomes, Sent!Becomes, Outgoing!Leaves, Sent!Leaves, Outgoing!Tries,
       Sent!Tries, Outgoing!Post, Sent!Post, Outgoing!PostCut, Sent!PostCut, Outgoing!Over,
       Sent!Over, Outgoing!Persist, Sent!Persist, Outgoing!Rejected, Sent!Rejected,
       Outgoing!PersistFails, Sent!PersistFails, Outgoing!Retry, Sent!Retry, Outgoing!Restart,
       Sent!Restart, Outgoing!Next, Sent!Next

LEMMA SameCardinality == \A S : Outgoing!Cardinality(S) = Sent!Cardinality(S)
BY DEF Outgoing!Cardinality, Sent!Cardinality

LEMMA SameRecord == Sent!AttemptsOnRecord => Outgoing!AttemptsOnRecord
BY SameCardinality
   DEF Outgoing!PostsOf, Sent!PostsOf, Outgoing!RowsOf, Sent!RowsOf, Outgoing!UnderWay, Sent!UnderWay,
       Outgoing!OpsAndHooks, Sent!OpsAndHooks, Outgoing!AttemptsOnRecord, Sent!AttemptsOnRecord

LEMMA SameQuiet == Sent!DeletedHookQuiets => Outgoing!DeletedHookQuiets
BY SameCardinality DEF Outgoing!DeletedHookQuiets, Sent!DeletedHookQuiets

LEMMA DeliveriesSend == DeliverySpec => Sent!Spec
<1>1. [DigestGoesOn \/ WebhooksGoOn]_DeliveryVars => [Sent!Next]_(Sent!vars)
  BY SameNext DEF DigestGoesOn, WebhooksGoOn, DeliveryVars, hookVars, Sent!vars
<1> QED BY <1>1, SameInit, PTL DEF DeliverySpec, Sent!Spec

(* docs/webhooks.md: every attempt writes a row.  The history of           *)
(* deliveries tells the attempts that were made, one row each, none after  *)
(* a success and at most one more than there are retries, however          *)
(* campaigns, edits, deletions, faults and restarts fall.                  *)
THEOREM DeliveriesRecorded == DeliverySpec => []AttemptsOnRecord
<1>1. Sent!Spec => []Sent!AttemptsOnRecord
  BY RetriesAssumption, Sent!AttemptsRecorded
<1>2. Sent!AttemptsOnRecord => AttemptsOnRecord
  BY SameRecord DEF AttemptsOnRecord
<1> QED BY <1>1, <1>2, DeliveriesSend, PTL

(* A campaign comes to a deleted subscription at most once: it finds that  *)
(* it has no row to write to and ends.                                     *)
THEOREM DeletedHooksLeftAlone == DeliverySpec => []DeletedHookQuiets
<1>1. Sent!Spec => []Sent!DeletedHookQuiets
  BY RetriesAssumption, Sent!DeletedIsLeftAlone
<1>2. Sent!DeletedHookQuiets => DeletedHookQuiets
  BY SameQuiet DEF DeletedHookQuiets
<1> QED BY <1>1, <1>2, DeliveriesSend, PTL
=============================================================================
