------------------------------ MODULE Webhooks ------------------------------
(***************************************************************************)
(* Outgoing webhooks: the subscriptions of routes/webhooks.js, the event   *)
(* of utils/webhooks.js that the run of a suite emits (a scheduled fire or *)
(* POST /test-suites/:id/run), and the campaign that delivers it to one    *)
(* subscription, attempt by attempt, from the memory of the process.       *)
(* POST /webhooks/:id/test runs a campaign too, and answers when it ends.  *)
(*                                                                         *)
(* An action is a stretch of code between two awaits.  The subscriptions   *)
(* are those of one project; what the request says and its signature are   *)
(* left out.                                                               *)
(***************************************************************************)
EXTENDS Integers, FiniteSets

CONSTANTS
  Hooks,      \* ids of subscriptions: none is used twice
  Retries,    \* WEBHOOK_RETRIES
  MaxOps,     \* bound: emissions and tests
  Budgets     \* how often each kind of event may happen: one is taken

(* webhooks: what is left of the row is whether it is there and its switch.*)
HookStates == {"not yet", "enabled", "disabled", "gone"}

(* deliverToWebhook under way for one subscription, at attempt `attempt`;  *)
(* "hung": neither 'end' nor 'error' comes any more.                       *)
Campaign == [op : Nat, hook : Hooks, attempt : 1..(Retries + 1),
             at : {"post", "persist", "wait", "hung"}, success : BOOLEAN]

(* A row of webhook_deliveries; and an attempt made, with whether the      *)
(* subscription was deleted by then.                                       *)
Delivery == [op : Nat, hook : Hooks, attempt : 1..(Retries + 1), success : BOOLEAN]
Attempt == [op : Nat, hook : Hooks, attempt : 1..(Retries + 1), gone : BOOLEAN]

(* Each kind is bounded by itself, and "any" bounds their sum.             *)
Events == {"create", "put", "delete", "emit", "test", "cut", "fault", "restart", "any"}

VARIABLES
  hooks,       \* webhooks
  deliveries,  \* webhook_deliveries
  emitting,    \* emissions whose lookup has not returned
  campaigns,
  lastOp,      \* tells emissions and tests apart
  left,        \* what is left of the budget taken
  posts,       \* history: the attempts made
  excused      \* history: <<op, hook>> that lost a row or the process to a fault

vars == <<hooks, deliveries, emitting, campaigns, lastOp, left, posts, excused>>
history == <<posts, excused>>

-----------------------------------------------------------------------------
Stored(h) == hooks[h] \in {"enabled", "disabled"}

Spend(what) ==
  /\ left[what] > 0 /\ left["any"] > 0
  /\ left' = [e \in Events |-> IF e \in {what, "any"} THEN left[e] - 1 ELSE left[e]]

Init ==
  /\ hooks = [h \in Hooks |-> "not yet"]
  /\ deliveries = {} /\ emitting = {} /\ campaigns = {} /\ lastOp = 0
  /\ left \in Budgets
  /\ posts = {} /\ excused = {}

-----------------------------------------------------------------------------
(* The subscriptions.                                                      *)

Create(h, state) ==
  /\ hooks[h] = "not yet" /\ Spend("create")
  /\ hooks' = [hooks EXCEPT ![h] = state]
  /\ UNCHANGED <<deliveries, emitting, campaigns, lastOp, history>>

(* PUT turns the switch; a campaign under way keeps the row it read.       *)
Put(h, state) ==
  /\ Stored(h) /\ hooks[h] # state /\ Spend("put")
  /\ hooks' = [hooks EXCEPT ![h] = state]
  /\ UNCHANGED <<deliveries, emitting, campaigns, lastOp, history>>

(* DELETE; the deliveries go with it.                                      *)
Delete(h) ==
  /\ Stored(h) /\ Spend("delete")
  /\ hooks' = [hooks EXCEPT ![h] = "gone"]
  /\ deliveries' = {d \in deliveries : d.hook # h}
  /\ excused' = excused \cup {<<o, h>> : o \in 1..lastOp}
  /\ UNCHANGED <<emitting, campaigns, lastOp, posts>>

-----------------------------------------------------------------------------
(* Campaigns start.                                                        *)

NewCampaign(op, h) ==
  [op |-> op, hook |-> h, attempt |-> 1, at |-> "post", success |-> FALSE]

(* emitSuiteRunCompleted, not awaited by the fire that calls it ...        *)
Emit ==
  /\ lastOp < MaxOps /\ Spend("emit")
  /\ lastOp' = lastOp + 1
  /\ emitting' = emitting \cup {lastOp + 1}
  /\ UNCHANGED <<hooks, deliveries, campaigns, history>>

Subscribed == {h \in Hooks : hooks[h] = "enabled"}

(* ... reads the enabled subscriptions and starts a campaign for each.     *)
Lookup(op) ==
  /\ op \in emitting
  /\ emitting' = emitting \ {op}
  /\ campaigns' = campaigns \cup {NewCampaign(op, h) : h \in Subscribed}
  /\ UNCHANGED <<hooks, deliveries, lastOp, left, history>>

(* The query throws: the event is dropped.                                 *)
LookupFails(op) ==
  /\ op \in emitting /\ Spend("fault")
  /\ emitting' = emitting \ {op}
  /\ UNCHANGED <<hooks, deliveries, campaigns, lastOp, history>>

(* POST /webhooks/:id/test, enabled or not.                                *)
Test(h) ==
  /\ Stored(h) /\ lastOp < MaxOps /\ Spend("test")
  /\ lastOp' = lastOp + 1
  /\ campaigns' = campaigns \cup {NewCampaign(lastOp + 1, h)}
  /\ UNCHANGED <<hooks, deliveries, emitting, history>>

-----------------------------------------------------------------------------
(* The steps of a campaign.                                                *)

Becomes(c, d) == campaigns' = (campaigns \ {c}) \cup {d}
Leaves(c) == campaigns' = campaigns \ {c}

Tries(c) ==
  /\ c.at = "post"
  /\ posts' = posts \cup {[op |-> c.op, hook |-> c.hook, attempt |-> c.attempt,
                           gone |-> ~Stored(c.hook)]}

(* An answer, 2xx or not, or an error: the address is refused, does not    *)
(* resolve, does not answer in time.                                       *)
Post(c) ==
  /\ Tries(c)
  /\ \E success \in BOOLEAN : Becomes(c, [c EXCEPT !.at = "persist", !.success = success])
  /\ UNCHANGED <<hooks, deliveries, emitting, lastOp, left, excused>>

(* The connection is lost inside the body of the answer.  The response is  *)
(* listened to for 'data' and 'end' only, and the timer goes with the      *)
(* socket: the promise never settles.                                      *)
PostCut(c) ==
  /\ Tries(c) /\ Spend("cut")
  /\ Becomes(c, [c EXCEPT !.at = "hung"])
  /\ UNCHANGED <<hooks, deliveries, emitting, lastOp, excused>>

(* Mutants of Over: one attempt is missed; a success is not the end.       *)
OverEarly(c) == c.success \/ c.attempt >= Retries
OverUnheard(c) == c.attempt > Retries

Over(c) == c.success \/ c.attempt > Retries

(* The row of the attempt; then the end, or the pause before the next.     *)
Persist(c) ==
  /\ c.at = "persist" /\ Stored(c.hook)
  /\ deliveries' = deliveries \cup {[op |-> c.op, hook |-> c.hook, attempt |-> c.attempt,
                                     success |-> c.success]}
  /\ IF Over(c) THEN Leaves(c) ELSE Becomes(c, [c EXCEPT !.at = "wait"])
  /\ UNCHANGED <<hooks, emitting, lastOp, left, history>>

(* Mutant of Rejected: the campaign goes on without the row.               *)
RejectedGoesOn(c) == IF Over(c) THEN Leaves(c) ELSE Becomes(c, [c EXCEPT !.at = "wait"])

(* The row cannot be written: the campaign rejects, whatever is left of it *)
Rejected(c) == Leaves(c)

(* because the subscription is gone, or the statement fails.               *)
PersistFails(c) ==
  /\ c.at = "persist"
  /\ Rejected(c)
  /\ IF Stored(c.hook) THEN Spend("fault") ELSE UNCHANGED left
  /\ excused' = excused \cup {<<c.op, c.hook>>}
  /\ UNCHANGED <<hooks, deliveries, emitting, lastOp, posts>>

(* The pause of 100 ms times the attempt is over.                          *)
Retry(c) ==
  /\ c.at = "wait"
  /\ Becomes(c, [c EXCEPT !.at = "post", !.attempt = @ + 1])
  /\ UNCHANGED <<hooks, deliveries, emitting, lastOp, left, history>>

(* The process ends: campaigns are nowhere but in its memory.              *)
Restart ==
  /\ Spend("restart")
  /\ emitting' = {} /\ campaigns' = {}
  /\ excused' = excused \cup {<<c.op, c.hook>> : c \in campaigns}
  /\ UNCHANGED <<hooks, deliveries, lastOp, posts>>

Step(c) == Post(c) \/ Persist(c) \/ (~Stored(c.hook) /\ PersistFails(c)) \/ Retry(c)

Next ==
  \/ \E h \in Hooks :
       \/ \E state \in {"enabled", "disabled"} : Create(h, state) \/ Put(h, state)
       \/ Delete(h)
       \/ Test(h)
  \/ Emit
  \/ \E op \in emitting : Lookup(op) \/ LookupFails(op)
  \/ \E c \in campaigns : Post(c) \/ PostCut(c) \/ Persist(c) \/ PersistFails(c) \/ Retry(c)
  \/ Restart

Spec == Init /\ [][Next]_vars

(* A query returns, a request is answered or times out, a timer comes due. *)
Fairness ==
  /\ \A op \in 1..MaxOps : WF_vars(Lookup(op))
  /\ \A op \in 1..MaxOps, h \in Hooks :
       WF_vars(\E c \in campaigns : c.op = op /\ c.hook = h /\ Step(c))

FairSpec == Spec /\ Fairness

-----------------------------------------------------------------------------
TypeOK ==
  /\ hooks \in [Hooks -> HookStates]
  /\ deliveries \subseteq Delivery /\ campaigns \subseteq Campaign
  /\ emitting \subseteq 1..lastOp /\ lastOp \in 0..MaxOps
  /\ left \in [Events -> Nat]
  /\ posts \subseteq Attempt /\ excused \subseteq (1..lastOp) \X Hooks

PostsOf(op, h) == {p.attempt : p \in {q \in posts : q.op = op /\ q.hook = h}}
RowsOf(op, h) == {d \in deliveries : d.op = op /\ d.hook = h}
UnderWay(op, h) == {c \in campaigns : c.op = op /\ c.hook = h}
OpsAndHooks == (1..lastOp) \X Hooks

(* docs/webhooks.md: "Every attempt writes a webhook_deliveries row".  The *)
(* rows are those of the attempts made, but for the one being written and  *)
(* one whose answer was cut; nothing follows a success; and there are at   *)
(* most Retries + 1.  A campaign of the excused lost a row to a fault.     *)
AttemptsOnRecord ==
  \A oh \in OpsAndHooks \ excused :
    LET op == oh[1]
        h == oh[2]
        pending == {c.attempt : c \in {b \in UnderWay(op, h) : b.at \in {"persist", "hung"}}}
        rows == RowsOf(op, h)
    IN  /\ PostsOf(op, h) = pending \cup {d.attempt : d \in rows}
        /\ PostsOf(op, h) = 1..Cardinality(PostsOf(op, h))
        /\ Cardinality(rows) \leq Retries + 1
        /\ \A d \in rows : d.success => PostsOf(op, h) = 1..d.attempt

(* A subscription that was deleted is left alone: what was under way then  *)
(* makes one attempt more, finds that it has no row to write to and ends.  *)
DeletedHookQuiets ==
  \A op \in 1..lastOp, h \in Hooks :
    Cardinality({p \in posts : p.op = op /\ p.hook = h /\ p.gone}) \leq 1

(* A campaign comes to an end on record, a success or the last failure,    *)
(* unless it is excused, or an answer was cut inside its body: then it is  *)
(* there for ever, and POST /webhooks/:id/test never answers.              *)
CampaignSettles ==
  \A op \in 1..MaxOps, h \in Hooks :
    UnderWay(op, h) # {} ~>
      \/ <<op, h>> \in excused
      \/ \E c \in UnderWay(op, h) : c.at = "hung"
      \/ UnderWay(op, h) = {} /\ \E d \in RowsOf(op, h) : d.success \/ d.attempt = Retries + 1
=============================================================================
