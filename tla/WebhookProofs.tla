---------------------------- MODULE WebhookProofs ----------------------------
(* Theorems about Webhooks for every number of subscriptions, retries and  *)
(* events: the history tells the attempts that were made, and a deleted    *)
(* subscription is left alone.                                             *)
EXTENDS Webhooks, FiniteSetTheorems, TLAPS

Typed ==
  /\ hooks \in [Hooks -> HookStates]
  /\ deliveries \subseteq Delivery /\ campaigns \subseteq Campaign /\ posts \subseteq Attempt
  /\ lastOp \in Nat /\ emitting \subseteq 1..lastOp

(* What was sent, or is, belongs to an event that was looked up and to a   *)
(* subscription that was there.                                            *)
Known(op, h) == op \in (1..lastOp) \ emitting /\ h \in Hooks /\ hooks[h] # "not yet"
Sound ==
  /\ \A c \in campaigns : Known(c.op, c.hook) /\ (c.at = "wait" => c.attempt \leq Retries)
  /\ \A p \in posts : Known(p.op, p.hook)
  /\ \A d \in deliveries : Known(d.op, d.hook)

(* An event is delivered to a subscription by one campaign.                *)
OneEach == \A c, d \in campaigns : c.op = d.op /\ c.hook = d.hook => c = d

(* An attempt at a subscription that is gone is the last of its campaign:  *)
(* what is under way does not come to another.                             *)
Quiet ==
  \A p \in posts : p.gone =>
    /\ hooks[p.hook] = "gone"
    /\ \A q \in posts : q.gone /\ q.op = p.op /\ q.hook = p.hook => q = p
    /\ \A c \in campaigns : c.op = p.op /\ c.hook = p.hook => c.at \in {"persist", "hung"}

(* The attempts made are the first n and those on record the first m; how  *)
(* they differ is told by where the campaign is.                           *)
Counts(op, h, n, m) ==
  /\ PostsOf(op, h) = 1..n
  /\ {d.attempt : d \in RowsOf(op, h)} = 1..m
  /\ \A d, e \in RowsOf(op, h) : d.attempt = e.attempt => d = e
  /\ \A d \in RowsOf(op, h) : d.success => UnderWay(op, h) = {} /\ d.attempt = n
  /\ UnderWay(op, h) = {} => m = n
  /\ \A c \in UnderWay(op, h) :
       /\ n = IF c.at = "post" THEN c.attempt - 1 ELSE c.attempt
       /\ m = IF c.at = "wait" THEN c.attempt ELSE c.attempt - 1
Record(op, h) == \E n, m \in 0..(Retries + 1) : Counts(op, h, n, m)
OnRecord ==
  \A op \in 1..lastOp, h \in Hooks : <<op, h>> \notin excused => Record(op, h)

Invariant == Typed /\ Sound /\ OneEach /\ Quiet /\ OnRecord
-----------------------------------------------------------------------------
(* What a step does to what belongs to one event and one subscription.     *)
LEMMA RecordKept ==
  ASSUME NEW op, NEW h, Record(op, h), PostsOf(op, h)' = PostsOf(op, h),
         RowsOf(op, h)' = RowsOf(op, h), UnderWay(op, h)' = UnderWay(op, h)
  PROVE  Record(op, h)'
<1>1. PICK n, m \in 0..(Retries + 1) : Counts(op, h, n, m)
  BY DEF Record
<1>2. Counts(op, h, n, m)'
  BY <1>1 DEF Counts
<1> QED BY <1>2 DEF Record

LEMMA OnePost ==
  ASSUME NEW p, posts' = posts \cup {p}
  PROVE  \A op, h : PostsOf(op, h)' = IF p.op = op /\ p.hook = h
                                      THEN PostsOf(op, h) \cup {p.attempt}
                                      ELSE PostsOf(op, h)
BY DEF PostsOf

LEMMA OneRow ==
  ASSUME NEW d, deliveries' = deliveries \cup {d}
  PROVE  \A op, h : RowsOf(op, h)' = IF d.op = op /\ d.hook = h
                                     THEN RowsOf(op, h) \cup {d}
                                     ELSE RowsOf(op, h)
BY DEF RowsOf

LEMMA Moved ==
  ASSUME OneEach, NEW c \in campaigns, NEW d, d.op = c.op, d.hook = c.hook, Becomes(c, d)
  PROVE  /\ OneEach'
         /\ \A op, h : UnderWay(op, h)' = IF c.op = op /\ c.hook = h THEN {d}
                                          ELSE UnderWay(op, h)
BY DEF OneEach, Becomes, UnderWay

LEMMA Ended ==
  ASSUME OneEach, NEW c \in campaigns, Leaves(c)
  PROVE  /\ OneEach'
         /\ \A op, h : UnderWay(op, h)' = IF c.op = op /\ c.hook = h THEN {}
                                          ELSE UnderWay(op, h)
BY DEF OneEach, Leaves, UnderWay

(* Before an event is looked up nothing of it is there.                    *)
LEMMA Unknown ==
  ASSUME Retries \in Nat, Sound, NEW op, NEW h, ~Known(op, h)
  PROVE  /\ PostsOf(op, h) = {} /\ RowsOf(op, h) = {} /\ UnderWay(op, h) = {}
         /\ Counts(op, h, 0, 0) /\ 0 \in 0..(Retries + 1) /\ Record(op, h)
<1>1. PostsOf(op, h) = {} /\ RowsOf(op, h) = {} /\ UnderWay(op, h) = {}
  BY DEF Sound, PostsOf, RowsOf, UnderWay
<1>2. 0 \in 0..(Retries + 1) /\ 1..0 = {}
  OBVIOUS
<1>3. Counts(op, h, 0, 0)
  BY <1>1, <1>2 DEF Counts
<1> QED BY <1>1, <1>2, <1>3 DEF Record

-----------------------------------------------------------------------------
LEMMA InitInvariant == ASSUME Retries \in Nat, Init PROVE Invariant
<1>1. Typed
  BY DEF Init, Typed, HookStates
<1>2. Sound /\ OneEach /\ Quiet
  BY DEF Init, Sound, OneEach, Quiet
<1>3. 1..0 = {}
  OBVIOUS
<1>4. OnRecord
  BY <1>3 DEF Init, OnRecord
<1> QED BY <1>1, <1>2, <1>4 DEF Invariant

LEMMA SubscriptionSteps ==
  ASSUME Retries \in Nat, Invariant, NEW h \in Hooks,
         \/ \E state \in {"enabled", "disabled"} : Create(h, state) \/ Put(h, state)
         \/ Delete(h)
  PROVE  Invariant'
<1>1. Typed /\ Sound /\ OneEach /\ Quiet /\ OnRecord
  BY DEF Invariant
<1>2. UNCHANGED <<emitting, campaigns, lastOp, posts>>
  BY DEF Create, Put, Delete, history
<1>3. \E state \in {"enabled", "disabled", "gone"} :
        /\ hooks' = [hooks EXCEPT ![h] = state]
        /\ hooks[h] # "gone"
  BY DEF Create, Put, Delete, Stored
<1>4. /\ hooks' \in [Hooks -> HookStates]
      /\ \A g \in Hooks : /\ hooks[g] # "not yet" => hooks'[g] # "not yet"
                          /\ hooks[g] = "gone" => hooks'[g] = "gone"
  BY <1>1, <1>3 DEF Typed, HookStates
<1>5. deliveries' \subseteq deliveries /\ excused \subseteq excused'
  BY DEF Create, Put, Delete, history
<1>6. Typed'
  BY <1>1, <1>2, <1>4, <1>5 DEF Typed
<1>7. \A op, g : Known(op, g) => Known(op, g)'
  BY <1>2, <1>4 DEF Known
<1>8. Sound'
  BY <1>1, <1>2, <1>5, <1>7 DEF Sound
<1>9. OneEach'
  BY <1>1, <1>2 DEF OneEach
<1>10. Quiet'
  BY <1>1, <1>2, <1>4 DEF Quiet, Sound, Known
<1>11. ASSUME NEW op \in 1..lastOp, NEW g \in Hooks, <<op, g>> \notin excused' PROVE Record(op, g)'
  <2>1. Record(op, g)
    BY <1>1, <1>5, <1>11 DEF OnRecord
  <2>2. PostsOf(op, g)' = PostsOf(op, g) /\ UnderWay(op, g)' = UnderWay(op, g)
    BY <1>2 DEF PostsOf, UnderWay
  <2>3. RowsOf(op, g)' = RowsOf(op, g)
    <3>1. CASE UNCHANGED deliveries
      BY <3>1 DEF RowsOf
    <3>2. CASE Delete(h)
      <4>1. g # h
        BY <1>11, <3>2 DEF Delete
      <4> QED BY <3>2, <4>1 DEF Delete, RowsOf
    <3> QED BY <3>1, <3>2 DEF Create, Put
  <2> QED BY <2>1, <2>2, <2>3, RecordKept
<1>12. OnRecord'
  BY <1>2, <1>11 DEF OnRecord
<1> QED BY <1>6, <1>8, <1>9, <1>10, <1>12 DEF Invariant

(* A campaign of an event, or a test, that nothing is known of yet.        *)
LEMMA NewCampaignType ==
  ASSUME Retries \in Nat, NEW op \in Nat, NEW h \in Hooks
  PROVE  NewCampaign(op, h) \in Campaign
BY DEF NewCampaign, Campaign

LEMMA CampaignsStart ==
  ASSUME Retries \in Nat, Invariant, NEW op \in Nat, NEW H, H \subseteq Hooks,
         \A h \in Hooks : ~Known(op, h),
         \A h \in H : Known(op, h)' /\ hooks[h] # "gone",
         campaigns' = campaigns \cup {NewCampaign(op, h) : h \in H},
         UNCHANGED <<hooks, deliveries, posts, excused>>,
         lastOp' \in Nat, lastOp \leq lastOp', emitting' \subseteq 1..lastOp',
         \A o \in (1..lastOp') \ {op} : o \in 1..lastOp /\ (o \in emitting' <=> o \in emitting)
  PROVE  Invariant'
<1>1. Typed /\ Sound /\ OneEach /\ Quiet /\ OnRecord
  BY DEF Invariant
<1>2. \A h : LET c == NewCampaign(op, h)
             IN  c.op = op /\ c.hook = h /\ c.at = "post" /\ c.attempt = 1
  BY DEF NewCampaign
<1>3. \A h \in H : NewCampaign(op, h) \in Campaign
  BY NewCampaignType
<1>4. Typed'
  BY <1>1, <1>3 DEF Typed
<1>5. ASSUME NEW o \in Nat, NEW h \in Hooks, Known(o, h) PROVE o # op /\ Known(o, h)'
  <2>1. o \in 1..lastOp /\ o \notin emitting /\ h \in Hooks /\ hooks[h] # "not yet" /\ lastOp \in Nat
    BY <1>1, <1>5 DEF Known, Typed
  <2>2. o # op
    BY <1>5, <2>1
  <2>3. o \in 1..lastOp'
    <3>1. \A a, b \in Nat : a \leq b => 1..a \subseteq 1..b
      OBVIOUS
    <3>2. 1..lastOp \subseteq 1..lastOp'
      BY <2>1, <3>1
    <3> QED BY <2>1, <3>2
  <2>4. o \notin emitting'
    BY <2>1, <2>2, <2>3
  <2> QED BY <2>1, <2>2, <2>3, <2>4 DEF Known
<1>6. \A c \in campaigns' : c \in campaigns \/ \E h \in H : c = NewCampaign(op, h)
  OBVIOUS
<1>7. Sound'
  <2>1. \A x \in campaigns \cup posts \cup deliveries : x.op \in Nat /\ x.hook \in Hooks
    BY <1>1 DEF Typed, Campaign, Attempt, Delivery
  <2> QED BY <1>1, <1>2, <1>5, <1>6, <2>1 DEF Sound
<1>8. \A c \in campaigns : c.op # op
  BY <1>1, <1>5 DEF Sound, Typed, Campaign
<1>9. OneEach'
  BY <1>1, <1>2, <1>6, <1>8 DEF OneEach
<1>10. \A p \in posts : p.op # op
  BY <1>1, <1>5 DEF Sound, Typed, Attempt
<1>11. Quiet'
  BY <1>1, <1>2, <1>6, <1>10 DEF Quiet
<1>12. ASSUME NEW o \in 1..lastOp', NEW h \in Hooks, <<o, h>> \notin excused' PROVE Record(o, h)'
  <2>1. PostsOf(o, h)' = PostsOf(o, h) /\ RowsOf(o, h)' = RowsOf(o, h)
    BY DEF PostsOf, RowsOf
  <2>2. CASE o # op
    <3>1. o \in 1..lastOp
      BY <2>2
    <3>2. UnderWay(o, h)' = UnderWay(o, h)
      BY <1>2, <2>2 DEF UnderWay
    <3> QED BY <1>1, <1>12, <2>1, <3>1, <3>2, RecordKept DEF OnRecord
  <2>3. CASE o = op
    <3>1. /\ PostsOf(o, h) = {} /\ RowsOf(o, h) = {} /\ 0 \in 0..(Retries + 1)
          /\ UnderWay(o, h) = {}
      BY <1>1, <2>3, Unknown
    <3>2. \A c \in UnderWay(o, h)' : c.at = "post" /\ c.attempt = 1
      BY <1>2, <1>6, <3>1 DEF UnderWay
    <3>3. 1..0 = {}
      OBVIOUS
    <3>4. Counts(o, h, 0, 0)'
      BY <2>1, <3>1, <3>2, <3>3 DEF Counts
    <3> QED BY <3>1, <3>4 DEF Record
  <2> QED BY <2>2, <2>3
<1>13. OnRecord'
  BY <1>12 DEF OnRecord
<1> QED BY <1>4, <1>7, <1>9, <1>11, <1>13 DEF Invariant

(* The next id is of no event yet.                                         *)
LEMMA NewIds ==
  ASSUME Invariant, NEW new \in Nat, new = lastOp + 1, lastOp' = new,
         emitting' = emitting \/ emitting' = emitting \cup {new}
  PROVE  /\ \A h \in Hooks : ~Known(new, h)
         /\ lastOp' \in Nat /\ lastOp \leq lastOp' /\ emitting' \subseteq 1..lastOp'
         /\ \A o \in (1..lastOp') \ {new} :
              o \in 1..lastOp /\ (o \in emitting' <=> o \in emitting)
<1>1. lastOp \in Nat /\ emitting \subseteq 1..lastOp
  BY DEF Invariant, Typed
<1>2. new \notin 1..lastOp /\ 1..lastOp' = (1..lastOp) \cup {new}
  BY <1>1
<1>3. \A h \in Hooks : ~Known(new, h)
  BY <1>2 DEF Known
<1>4. emitting' \subseteq 1..lastOp'
  BY <1>1, <1>2
<1>5. lastOp' \in Nat /\ lastOp \leq lastOp'
  BY <1>1
<1>6. ASSUME NEW o \in (1..lastOp') \ {new}
      PROVE  o \in 1..lastOp /\ (o \in emitting' <=> o \in emitting)
  BY <1>2, <1>6
<1> QED BY <1>3, <1>4, <1>5, <1>6

(* Emissions, and their lookups; tests.                                    *)
LEMMA StartSteps ==
  ASSUME Retries \in Nat, Invariant,
         \/ Emit
         \/ \E op \in emitting : Lookup(op) \/ LookupFails(op)
         \/ \E h \in Hooks : Test(h)
  PROVE  Invariant'
<1>1. Typed /\ Sound
  BY DEF Invariant
<1>2. PICK new \in Nat : new = lastOp + 1
  BY <1>1 DEF Typed
<1>3. CASE Emit
  <2>1. PICK H \in SUBSET Hooks : H = {}
    OBVIOUS
  <2>2. campaigns' = campaigns \cup {NewCampaign(new, h) : h \in H}
    BY <1>3, <2>1 DEF Emit
  <2>3. UNCHANGED <<hooks, deliveries, posts, excused>>
    BY <1>3 DEF Emit, history
  <2>4. lastOp' = new /\ emitting' = emitting \cup {new}
    BY <1>2, <1>3 DEF Emit
  <2>5. /\ \A h \in Hooks : ~Known(new, h)
        /\ lastOp' \in Nat /\ lastOp \leq lastOp' /\ emitting' \subseteq 1..lastOp'
        /\ \A o \in (1..lastOp') \ {new} :
             o \in 1..lastOp /\ (o \in emitting' <=> o \in emitting)
    BY <1>2, <2>4, NewIds
  <2> QED BY <2>1, <2>2, <2>3, <2>5, CampaignsStart
<1>4. ASSUME NEW op \in emitting, Lookup(op) \/ LookupFails(op) PROVE Invariant'
  <2>1. op \in Nat /\ \A h \in Hooks : ~Known(op, h)
    <3>1. op \in 1..lastOp /\ lastOp \in Nat
      BY <1>1 DEF Typed
    <3>2. op \in Nat
      BY <3>1
    <3> QED BY <3>2 DEF Known
  <2>2. /\ UNCHANGED <<hooks, deliveries, posts, excused>> /\ lastOp' = lastOp
        /\ lastOp \leq lastOp' /\ lastOp \in Nat /\ emitting' = emitting \ {op}
    BY <1>1, <1>4 DEF Lookup, LookupFails, Typed, history
  <2>3. /\ emitting' \subseteq 1..lastOp'
        /\ \A o \in (1..lastOp') \ {op} : o \in 1..lastOp /\ (o \in emitting' <=> o \in emitting)
    BY <1>1, <2>2 DEF Typed
  <2>4. PICK H \in SUBSET Hooks :
          /\ campaigns' = campaigns \cup {NewCampaign(op, h) : h \in H}
          /\ \A h \in H : hooks[h] = "enabled"
    <3>1. CASE Lookup(op)
      <4>1. Subscribed \in SUBSET Hooks /\ \A h \in Subscribed : hooks[h] = "enabled"
        BY DEF Subscribed
      <4> QED BY <3>1, <4>1 DEF Lookup
    <3>2. CASE LookupFails(op)
      <4>1. campaigns' = campaigns \cup {NewCampaign(op, h) : h \in {}}
        BY <3>2 DEF LookupFails
      <4>2. WITNESS {} \in SUBSET Hooks
      <4> QED BY <4>1
    <3> QED BY <1>4, <3>1, <3>2
  <2>5. \A h \in H : Known(op, h)' /\ hooks[h] # "gone"
    BY <1>1, <2>2, <2>4 DEF Known, Typed
  <2> QED BY <2>1, <2>2, <2>3, <2>4, <2>5, CampaignsStart
<1>5. ASSUME NEW h \in Hooks, Test(h) PROVE Invariant'
  <2>1. PICK H \in SUBSET Hooks : H = {h}
    OBVIOUS
  <2>2. campaigns' = campaigns \cup {NewCampaign(new, g) : g \in H}
    BY <1>2, <1>5, <2>1 DEF Test
  <2>3. UNCHANGED <<hooks, deliveries, posts, excused, emitting>> /\ hooks[h] \in {"enabled", "disabled"}
    BY <1>5 DEF Test, Stored, history
  <2>4. lastOp' = new
    BY <1>2, <1>5 DEF Test
  <2>5. new \notin emitting /\ new \in 1..lastOp'
    BY <1>1, <1>2, <2>4 DEF Typed
  <2>6. \A g \in H : Known(new, g)' /\ hooks[g] # "gone"
    BY <2>1, <2>3, <2>5 DEF Known
  <2>7. /\ \A g \in Hooks : ~Known(new, g)
        /\ lastOp' \in Nat /\ lastOp \leq lastOp' /\ emitting' \subseteq 1..lastOp'
        /\ \A o \in (1..lastOp') \ {new} :
             o \in 1..lastOp /\ (o \in emitting' <=> o \in emitting)
    BY <1>2, <2>3, <2>4, NewIds
  <2> QED BY <2>1, <2>3, <2>6, <2>2, <2>7, CampaignsStart
<1> QED BY <1>3, <1>4, <1>5
-----------------------------------------------------------------------------
(* The steps of a campaign leave the records of others as they are.        *)
LEMMA CampaignStep ==
  ASSUME Invariant, NEW c \in campaigns,
         UNCHANGED <<hooks, lastOp, emitting>>, excused \subseteq excused',
         \A op, h : ~(op = c.op /\ h = c.hook) =>
           /\ PostsOf(op, h)' = PostsOf(op, h) /\ RowsOf(op, h)' = RowsOf(op, h)
           /\ UnderWay(op, h)' = UnderWay(op, h),
         <<c.op, c.hook>> \in excused' \/ Record(c.op, c.hook)'
  PROVE  OnRecord'
<1>1. SUFFICES ASSUME NEW op \in 1..lastOp, NEW h \in Hooks, <<op, h>> \notin excused'
               PROVE  Record(op, h)'
  BY DEF OnRecord
<1>2. CASE op = c.op /\ h = c.hook
  BY <1>1, <1>2
<1>3. CASE ~(op = c.op /\ h = c.hook)
  <2>1. Record(op, h)
    BY <1>1 DEF Invariant, OnRecord
  <2> QED BY <1>3, <2>1, RecordKept
<1> QED BY <1>2, <1>3

(* Its own record, as far as it is not excused.                            *)
LEMMA OwnCounts ==
  ASSUME Retries \in Nat, Invariant, NEW c \in campaigns, <<c.op, c.hook>> \notin excused
  PROVE  LET n == IF c.at = "post" THEN c.attempt - 1 ELSE c.attempt
             m == IF c.at = "wait" THEN c.attempt ELSE c.attempt - 1
         IN  Counts(c.op, c.hook, n, m) /\ c.attempt \in 1..(Retries + 1)
<1>1. Typed /\ Sound /\ OnRecord
  BY DEF Invariant
<1>2. c.op \in 1..lastOp /\ c.hook \in Hooks
  BY <1>1 DEF Sound, Known
<1>3. PICK n, m \in 0..(Retries + 1) : Counts(c.op, c.hook, n, m)
  BY <1>1, <1>2 DEF OnRecord, Record
<1>4. c \in UnderWay(c.op, c.hook)
  BY DEF UnderWay
<1>5. /\ n = IF c.at = "post" THEN c.attempt - 1 ELSE c.attempt
      /\ m = IF c.at = "wait" THEN c.attempt ELSE c.attempt - 1
  BY <1>3, <1>4 DEF Counts
<1>6. c.attempt \in 1..(Retries + 1)
  BY <1>1 DEF Typed, Campaign
<1> QED BY <1>3, <1>5, <1>6

LEMMA UpTo ==
  /\ \A a \in Nat \ {0} : (1..(a - 1)) \cup {a} = 1..a /\ a \notin 1..(a - 1)
  /\ \A R \in Nat : \A a \in 1..(R + 1) : a \in Nat \ {0} /\ a \in 0..(R + 1) /\ a - 1 \in 0..(R + 1)
OBVIOUS

LEMMA GoneOrNot == \A h : (~Stored(h)) \in BOOLEAN
BY DEF Stored

(* An attempt is made: by Quiet none was made at a subscription gone.      *)
LEMMA AttemptStep ==
  ASSUME Retries \in Nat, Invariant, NEW c \in campaigns, NEW d \in Campaign,
         Tries(c), Becomes(c, d), d.op = c.op, d.hook = c.hook, d.attempt = c.attempt,
         d.at \in {"persist", "hung"},
         UNCHANGED <<hooks, deliveries, emitting, lastOp, excused>>
  PROVE  Invariant'
<1>1. Typed /\ Sound /\ OneEach /\ Quiet /\ OnRecord
  BY DEF Invariant
<1>2. c \in Campaign /\ c.at = "post" /\ Known(c.op, c.hook)
  BY <1>1 DEF Typed, Tries, Sound
<1>3. PICK p \in Attempt : /\ posts' = posts \cup {p}
                           /\ p.op = c.op /\ p.hook = c.hook /\ p.attempt = c.attempt
                           /\ p.gone = ~Stored(c.hook)
  <2> DEFINE q == [op |-> c.op, hook |-> c.hook, attempt |-> c.attempt, gone |-> ~Stored(c.hook)]
  <2>1. q \in Attempt
    <3>1. (~Stored(c.hook)) \in BOOLEAN
      BY GoneOrNot
    <3> QED BY <1>2, <3>1 DEF Campaign, Attempt
  <2>2. q.op = c.op /\ q.hook = c.hook /\ q.attempt = c.attempt /\ q.gone = ~Stored(c.hook)
    OBVIOUS
  <2>3. posts' = posts \cup {q}
    BY DEF Tries
  <2> HIDE DEF q
  <2> QED BY <2>1, <2>2, <2>3
<1>4. campaigns' \subseteq campaigns \cup {d} /\ d \in campaigns'
  BY DEF Becomes
<1>5. Typed'
  BY <1>1, <1>3, <1>4 DEF Typed
<1>6. \A op, h : Known(op, h) => Known(op, h)'
  BY DEF Known
<1>7. Sound'
  BY <1>1, <1>2, <1>3, <1>4, <1>6 DEF Sound
<1>8. OneEach'
  BY <1>1, Moved
<1>9. Quiet'
  <2>1. SUFFICES ASSUME NEW q \in posts', q.gone
                 PROVE  /\ hooks[q.hook] = "gone"
                        /\ \A o \in posts' : o.gone /\ o.op = q.op /\ o.hook = q.hook => o = q
                        /\ \A b \in campaigns' : b.op = q.op /\ b.hook = q.hook => b.at \in {"persist", "hung"}
    BY DEF Quiet
  <2>2. \A o \in posts : o.gone => ~(o.op = c.op /\ o.hook = c.hook)
    BY <1>1, <1>2 DEF Quiet
  <2>3. hooks[c.hook] \in {"enabled", "disabled", "gone"}
    BY <1>1, <1>2 DEF Typed, Known, HookStates
  <2>4. CASE q = p
    <3>1. hooks[q.hook] = "gone"
      BY <1>3, <2>1, <2>3, <2>4 DEF Stored
    <3>2. \A b \in campaigns' : b.op = q.op /\ b.hook = q.hook => b = d
      BY <1>3, <1>4, <1>8, <2>4 DEF OneEach
    <3> QED BY <1>3, <2>2, <2>4, <3>1, <3>2
  <2>5. CASE q \in posts
    BY <1>1, <1>3, <1>4, <2>1, <2>2, <2>5 DEF Quiet
  <2> QED BY <1>3, <2>4, <2>5
<1>10. \A op, h : PostsOf(op, h)' = IF c.op = op /\ c.hook = h
                                    THEN PostsOf(op, h) \cup {c.attempt} ELSE PostsOf(op, h)
  BY <1>3, OnePost
<1>11. \A op, h : RowsOf(op, h)' = RowsOf(op, h)
  BY DEF RowsOf
<1>12. \A op, h : UnderWay(op, h)' = IF c.op = op /\ c.hook = h THEN {d} ELSE UnderWay(op, h)
  BY <1>1, Moved
<1>13. <<c.op, c.hook>> \in excused' \/ Record(c.op, c.hook)'
  <2>1. SUFFICES ASSUME <<c.op, c.hook>> \notin excused PROVE Record(c.op, c.hook)'
    OBVIOUS
  <2>2. PICK op, h, a : op = c.op /\ h = c.hook /\ a = c.attempt
    OBVIOUS
  <2>3. Counts(op, h, a - 1, a - 1) /\ a \in 1..(Retries + 1)
    BY <1>2, <2>1, <2>2, OwnCounts
  <2>4. /\ a \in 0..(Retries + 1) /\ a - 1 \in 0..(Retries + 1)
        /\ (1..(a - 1)) \cup {a} = 1..a
    BY <2>3, UpTo
  <2>5. c \in UnderWay(op, h)
    BY <2>2 DEF UnderWay
  <2>6. \A r \in RowsOf(op, h) : ~r.success
    BY <2>3, <2>5 DEF Counts
  <2>7. /\ PostsOf(op, h)' = 1..a
        /\ RowsOf(op, h)' = RowsOf(op, h) /\ UnderWay(op, h)' = {d}
    BY <1>10, <1>11, <1>12, <2>2, <2>3, <2>4 DEF Counts
  <2>8. Counts(op, h, a, a - 1)'
    BY <2>2, <2>3, <2>6, <2>7 DEF Counts
  <2>9. Record(op, h)'
    BY <2>4, <2>8 DEF Record
  <2> QED BY <2>2, <2>9
<1>14. OnRecord'
  BY <1>10, <1>11, <1>12, <1>13, CampaignStep
<1> QED BY <1>5, <1>7, <1>8, <1>9, <1>14 DEF Invariant

LEMMA CampaignAfter ==
  ASSUME NEW c \in Campaign
  PROVE  /\ \A success \in BOOLEAN :
              LET d == [c EXCEPT !.at = "persist", !.success = success]
              IN  d \in Campaign /\ d.op = c.op /\ d.hook = c.hook /\ d.attempt = c.attempt
                  /\ d.at = "persist"
         /\ \A at \in {"hung", "wait"} :
              LET d == [c EXCEPT !.at = at]
              IN  d \in Campaign /\ d.op = c.op /\ d.hook = c.hook /\ d.attempt = c.attempt
                  /\ d.at = at /\ d.success = c.success
BY DEF Campaign

LEMMA PostSteps ==
  ASSUME Retries \in Nat, Invariant, NEW c \in campaigns, Post(c) \/ PostCut(c)
  PROVE  Invariant'
<1>1. c \in Campaign
  BY DEF Invariant, Typed
<1>2. UNCHANGED <<hooks, deliveries, emitting, lastOp, excused>> /\ Tries(c)
  BY DEF Post, PostCut
<1>3. CASE Post(c)
  <2>1. PICK success \in BOOLEAN : Becomes(c, [c EXCEPT !.at = "persist", !.success = success])
    BY <1>3 DEF Post
  <2>2. PICK d : d = [c EXCEPT !.at = "persist", !.success = success]
    OBVIOUS
  <2>3. d \in Campaign /\ d.op = c.op /\ d.hook = c.hook /\ d.attempt = c.attempt /\ d.at = "persist"
    BY <1>1, <2>2, CampaignAfter
  <2> QED BY <1>2, <2>1, <2>2, <2>3, AttemptStep
<1>4. CASE PostCut(c)
  <2>1. PICK d : d = [c EXCEPT !.at = "hung"]
    OBVIOUS
  <2>2. d \in Campaign /\ d.op = c.op /\ d.hook = c.hook /\ d.attempt = c.attempt /\ d.at = "hung"
    BY <1>1, <2>1, CampaignAfter
  <2>3. Becomes(c, d)
    BY <1>4, <2>1 DEF PostCut
  <2> QED BY <1>2, <2>2, <2>3, AttemptStep
<1> QED BY <1>3, <1>4

(* A campaign that goes on, or ends, without an attempt.                   *)
LEMMA QuietKept ==
  ASSUME Quiet, UNCHANGED <<hooks, posts>>,
         \A d \in campaigns' : \E c \in campaigns :
           c.op = d.op /\ c.hook = d.hook /\ (d = c \/ hooks[c.hook] # "gone" \/ c.at \in {"post", "wait"})
  PROVE  Quiet'
<1>1. SUFFICES ASSUME NEW p \in posts, p.gone, NEW d \in campaigns', d.op = p.op, d.hook = p.hook
               PROVE  d.at \in {"persist", "hung"}
  BY DEF Quiet
<1>2. PICK c \in campaigns :
        c.op = d.op /\ c.hook = d.hook /\ (d = c \/ hooks[c.hook] # "gone" \/ c.at \in {"post", "wait"})
  OBVIOUS
<1>3. hooks[p.hook] = "gone" /\ c.at \in {"persist", "hung"}
  BY <1>1, <1>2 DEF Quiet
<1> QED BY <1>1, <1>2, <1>3

LEMMA PersistStep ==
  ASSUME Retries \in Nat, Invariant, NEW c \in campaigns, Persist(c)
  PROVE  Invariant'
<1>1. Typed /\ Sound /\ OneEach /\ Quiet /\ OnRecord
  BY DEF Invariant
<1>2. /\ c \in Campaign /\ c.at = "persist" /\ Known(c.op, c.hook) /\ Stored(c.hook)
      /\ UNCHANGED <<hooks, emitting, lastOp, posts, excused>>
  BY <1>1 DEF Typed, Persist, Sound, history
<1>3. PICK r \in Delivery : /\ deliveries' = deliveries \cup {r}
                            /\ r.op = c.op /\ r.hook = c.hook /\ r.attempt = c.attempt
                            /\ r.success = c.success
  <2> DEFINE q == [op |-> c.op, hook |-> c.hook, attempt |-> c.attempt, success |-> c.success]
  <2>1. q \in Delivery
    BY <1>2 DEF Campaign, Delivery
  <2>2. q.op = c.op /\ q.hook = c.hook /\ q.attempt = c.attempt /\ q.success = c.success
    OBVIOUS
  <2>3. deliveries' = deliveries \cup {q}
    BY DEF Persist
  <2> HIDE DEF q
  <2> QED BY <2>1, <2>2, <2>3
<1>4. PICK d \in Campaign : /\ d = [c EXCEPT !.at = "wait"]
                            /\ d.op = c.op /\ d.hook = c.hook /\ d.attempt = c.attempt
                            /\ d.at = "wait"
  BY <1>2, CampaignAfter
<1>5. IF Over(c) THEN Leaves(c) ELSE Becomes(c, d)
  BY <1>4 DEF Persist
<1>6. ~Over(c) => ~c.success /\ d.attempt \leq Retries
  BY <1>2, <1>4 DEF Over, Campaign
<1>7. \A b \in campaigns' : b \in campaigns \/ (b = d /\ ~Over(c))
  BY <1>5 DEF Leaves, Becomes
<1>8. Typed'
  BY <1>1, <1>2, <1>3, <1>4, <1>7 DEF Typed
<1>9. \A op, h : Known(op, h) => Known(op, h)'
  BY <1>2 DEF Known
<1>10. Sound'
  BY <1>1, <1>2, <1>3, <1>4, <1>6, <1>7, <1>9 DEF Sound
<1>11. OneEach'
  BY <1>1, <1>4, <1>5, Moved, Ended
<1>12. Quiet'
  <2>1. hooks[c.hook] # "gone"
    BY <1>2 DEF Stored
  <2> QED BY <1>1, <1>2, <1>4, <1>7, <2>1, QuietKept
<1>13. \A op, h : RowsOf(op, h)' = IF c.op = op /\ c.hook = h
                                   THEN RowsOf(op, h) \cup {r} ELSE RowsOf(op, h)
  BY <1>3, OneRow
<1>14. \A op, h : PostsOf(op, h)' = PostsOf(op, h)
  BY <1>2 DEF PostsOf
<1>15. \A op, h : UnderWay(op, h)' = IF c.op = op /\ c.hook = h
                                     THEN IF Over(c) THEN {} ELSE {d} ELSE UnderWay(op, h)
  <2>1. CASE Over(c)
    BY <1>1, <1>5, <2>1, Ended
  <2>2. CASE ~Over(c)
    <3>1. Becomes(c, d)
      BY <1>5, <2>2
    <3>2. d.op = c.op /\ d.hook = c.hook /\ OneEach
      BY <1>1, <1>4
    <3>3. \A op, h : UnderWay(op, h)' = IF c.op = op /\ c.hook = h THEN {d} ELSE UnderWay(op, h)
      BY <3>1, <3>2, Moved
    <3> QED BY <2>2, <3>3
  <2> QED BY <2>1, <2>2
<1>16. <<c.op, c.hook>> \in excused' \/ Record(c.op, c.hook)'
  <2>1. SUFFICES ASSUME <<c.op, c.hook>> \notin excused PROVE Record(c.op, c.hook)'
    BY <1>2
  <2>2. PICK op, h, a : op = c.op /\ h = c.hook /\ a = c.attempt
    OBVIOUS
  <2>3. Counts(op, h, a, a - 1) /\ a \in 1..(Retries + 1)
    BY <1>2, <2>1, <2>2, OwnCounts
  <2>4. /\ a \in 0..(Retries + 1) /\ a \notin 1..(a - 1)
        /\ (1..(a - 1)) \cup {a} = 1..a
    BY <2>3, UpTo
  <2>5. c \in UnderWay(op, h)
    BY <2>2 DEF UnderWay
  <2>6. \A s \in RowsOf(op, h) : ~s.success /\ s.attempt # a
    <3>1. \A s \in RowsOf(op, h) : s.attempt \in 1..(a - 1)
      BY <2>3 DEF Counts
    <3> QED BY <2>3, <2>4, <2>5, <3>1 DEF Counts
  <2>7. /\ PostsOf(op, h)' = 1..a
        /\ RowsOf(op, h)' = RowsOf(op, h) \cup {r}
        /\ UnderWay(op, h)' = IF Over(c) THEN {} ELSE {d}
        /\ r.attempt = a /\ d.attempt = a /\ (~Over(c) => ~r.success)
    BY <1>3, <1>4, <1>6, <1>13, <1>14, <1>15, <2>2, <2>3 DEF Counts
  <2>8. {s.attempt : s \in RowsOf(op, h)'} = 1..a
    <3>1. {s.attempt : s \in RowsOf(op, h)'} = {s.attempt : s \in RowsOf(op, h)} \cup {a}
      BY <2>7
    <3> QED BY <2>3, <2>4, <3>1 DEF Counts
  <2>9. \A s, t \in RowsOf(op, h)' : s.attempt = t.attempt => s = t
    BY <2>3, <2>6, <2>7 DEF Counts
  <2>10. \A s \in RowsOf(op, h)' : s.success => UnderWay(op, h)' = {} /\ s.attempt = a
    BY <2>6, <2>7
  <2>11. \A b \in UnderWay(op, h)' : b.at = "wait" /\ b.attempt = a
    BY <1>4, <2>7
  <2>12. Counts(op, h, a, a)'
    BY <2>7, <2>8, <2>9, <2>10, <2>11 DEF Counts
  <2>13. Record(op, h)'
    BY <2>4, <2>12 DEF Record
  <2> QED BY <2>2, <2>13
<1>17. OnRecord'
  BY <1>2, <1>13, <1>14, <1>15, <1>16, CampaignStep
<1> QED BY <1>8, <1>10, <1>11, <1>12, <1>17 DEF Invariant

LEMMA PersistFailsStep ==
  ASSUME Invariant, NEW c \in campaigns, PersistFails(c)
  PROVE  Invariant'
<1>1. Typed /\ Sound /\ OneEach /\ Quiet /\ OnRecord
  BY DEF Invariant
<1>2. /\ campaigns' = campaigns \ {c} /\ excused' = excused \cup {<<c.op, c.hook>>}
      /\ UNCHANGED <<hooks, deliveries, emitting, lastOp, posts>>
  BY DEF PersistFails, Rejected, Leaves
<1>3. Typed' /\ Sound'
  BY <1>1, <1>2 DEF Typed, Sound, Known
<1>4. /\ OneEach'
      /\ \A op, h : UnderWay(op, h)' = IF c.op = op /\ c.hook = h THEN {} ELSE UnderWay(op, h)
  BY <1>1, Ended DEF PersistFails, Rejected
<1>5. Quiet'
  BY <1>1, <1>2, QuietKept
<1>6. \A op, h : PostsOf(op, h)' = PostsOf(op, h) /\ RowsOf(op, h)' = RowsOf(op, h)
  BY <1>2 DEF PostsOf, RowsOf
<1>7. OnRecord'
  BY <1>2, <1>4, <1>6, CampaignStep
<1> QED BY <1>3, <1>4, <1>5, <1>7 DEF Invariant

LEMMA RetriedType ==
  ASSUME Retries \in Nat, NEW c \in Campaign, c.attempt \leq Retries
  PROVE  LET d == [c EXCEPT !.at = "post", !.attempt = @ + 1]
         IN  /\ d \in Campaign /\ d.op = c.op /\ d.hook = c.hook
             /\ d.attempt = c.attempt + 1 /\ d.at = "post"
<1>1. c.attempt + 1 \in 1..(Retries + 1)
  BY DEF Campaign
<1>2. \A a \in 1..(Retries + 1) :
        LET d == [c EXCEPT !.at = "post", !.attempt = a]
        IN  d \in Campaign /\ d.op = c.op /\ d.hook = c.hook /\ d.attempt = a /\ d.at = "post"
  BY DEF Campaign
<1> QED BY <1>1, <1>2

LEMMA RetryStep ==
  ASSUME Retries \in Nat, Invariant, NEW c \in campaigns, Retry(c)
  PROVE  Invariant'
<1>1. Typed /\ Sound /\ OneEach /\ Quiet /\ OnRecord
  BY DEF Invariant
<1>2. /\ c \in Campaign /\ c.at = "wait" /\ Known(c.op, c.hook) /\ c.attempt \leq Retries
      /\ UNCHANGED <<hooks, deliveries, emitting, lastOp, posts, excused>>
  BY <1>1 DEF Typed, Retry, Sound, history
<1>3. PICK d : d = [c EXCEPT !.at = "post", !.attempt = @ + 1]
  OBVIOUS
<1>4. d \in Campaign /\ d.op = c.op /\ d.hook = c.hook /\ d.attempt = c.attempt + 1 /\ d.at = "post"
  BY <1>2, <1>3, RetriedType
<1>5. Becomes(c, d)
  BY <1>3 DEF Retry
<1>6. \A b \in campaigns' : b \in campaigns \/ b = d
  BY <1>5 DEF Becomes
<1>7. Typed'
  BY <1>1, <1>2, <1>4, <1>6 DEF Typed
<1>8. Sound'
  BY <1>1, <1>2, <1>4, <1>6 DEF Sound, Known
<1>9. /\ OneEach'
      /\ \A op, h : UnderWay(op, h)' = IF c.op = op /\ c.hook = h THEN {d} ELSE UnderWay(op, h)
  BY <1>1, <1>4, <1>5, Moved
<1>10. Quiet'
  BY <1>1, <1>2, <1>4, <1>6, QuietKept
<1>11. \A op, h : PostsOf(op, h)' = PostsOf(op, h) /\ RowsOf(op, h)' = RowsOf(op, h)
  BY <1>2 DEF PostsOf, RowsOf
<1>12. <<c.op, c.hook>> \in excused' \/ Record(c.op, c.hook)'
  <2>1. SUFFICES ASSUME <<c.op, c.hook>> \notin excused PROVE Record(c.op, c.hook)'
    BY <1>2
  <2>2. PICK op, h, a : op = c.op /\ h = c.hook /\ a = c.attempt
    OBVIOUS
  <2>3. Counts(op, h, a, a) /\ a \in 1..(Retries + 1)
    BY <1>2, <2>1, <2>2, OwnCounts
  <2>4. a \in 0..(Retries + 1) /\ a + 1 - 1 = a
    BY <2>3
  <2>5. c \in UnderWay(op, h)
    BY <2>2 DEF UnderWay
  <2>6. \A r \in RowsOf(op, h) : ~r.success
    BY <2>3, <2>5 DEF Counts
  <2>7. /\ PostsOf(op, h)' = PostsOf(op, h) /\ RowsOf(op, h)' = RowsOf(op, h)
        /\ UnderWay(op, h)' = {d} /\ d.at = "post" /\ d.attempt - 1 = a
    BY <1>4, <1>9, <1>11, <2>2, <2>4
  <2>8. Counts(op, h, a, a)'
    BY <2>3, <2>6, <2>7 DEF Counts
  <2>9. Record(op, h)'
    BY <2>4, <2>8 DEF Record
  <2> QED BY <2>2, <2>9
<1>13. OnRecord'
  BY <1>2, <1>9, <1>11, <1>12, CampaignStep
<1> QED BY <1>7, <1>8, <1>9, <1>10, <1>13 DEF Invariant

LEMMA RestartStep == ASSUME Invariant, Restart PROVE Invariant'
<1>1. Typed /\ Sound /\ OneEach /\ Quiet /\ OnRecord
  BY DEF Invariant
<1>2. /\ emitting' = {} /\ campaigns' = {}
      /\ excused' = excused \cup {<<c.op, c.hook>> : c \in campaigns}
      /\ UNCHANGED <<hooks, deliveries, lastOp, posts>>
  BY DEF Restart
<1>3. Typed' /\ Sound' /\ OneEach' /\ Quiet'
  BY <1>1, <1>2 DEF Typed, Sound, Known, OneEach, Quiet
<1>4. ASSUME NEW op \in 1..lastOp, NEW h \in Hooks, <<op, h>> \notin excused' PROVE Record(op, h)'
  <2>1. UnderWay(op, h) = {} /\ <<op, h>> \notin excused
    BY <1>2, <1>4 DEF UnderWay
  <2>2. UnderWay(op, h)' = UnderWay(op, h)
    BY <1>2, <2>1 DEF UnderWay
  <2>3. PostsOf(op, h)' = PostsOf(op, h) /\ RowsOf(op, h)' = RowsOf(op, h)
    BY <1>2 DEF PostsOf, RowsOf
  <2> QED BY <1>1, <2>1, <2>2, <2>3, RecordKept DEF OnRecord
<1>5. OnRecord'
  BY <1>2, <1>4 DEF OnRecord
<1> QED BY <1>3, <1>5 DEF Invariant

LEMMA StepInvariant == ASSUME Retries \in Nat, Invariant, [Next]_vars PROVE Invariant'
<1>1. CASE UNCHANGED vars
  <2>1. UNCHANGED <<hooks, deliveries, emitting, campaigns, lastOp, posts, excused>>
    BY <1>1 DEF vars, history
  <2>2. Typed' /\ Sound' /\ OneEach' /\ Quiet'
    BY <2>1 DEF Invariant, Typed, Sound, Known, OneEach, Quiet
  <2>3. \A op, h : /\ PostsOf(op, h)' = PostsOf(op, h) /\ RowsOf(op, h)' = RowsOf(op, h)
                  /\ UnderWay(op, h)' = UnderWay(op, h)
    BY <2>1 DEF PostsOf, RowsOf, UnderWay
  <2>4. OnRecord'
    BY <2>1, <2>3, RecordKept DEF Invariant, OnRecord
  <2> QED BY <2>2, <2>4 DEF Invariant
<1>2. CASE \E h \in Hooks : \/ \E state \in {"enabled", "disabled"} : Create(h, state) \/ Put(h, state)
                            \/ Delete(h)
  BY <1>2, SubscriptionSteps
<1>3. CASE \/ Emit
           \/ \E op \in emitting : Lookup(op) \/ LookupFails(op)
           \/ \E h \in Hooks : Test(h)
  BY <1>3, StartSteps
<1>4. CASE \E c \in campaigns : Post(c) \/ PostCut(c) \/ Persist(c) \/ PersistFails(c) \/ Retry(c)
  BY <1>4, PostSteps, PersistStep, PersistFailsStep, RetryStep
<1>5. CASE Restart
  BY <1>5, RestartStep
<1> QED BY <1>1, <1>2, <1>3, <1>4, <1>5 DEF Next
-----------------------------------------------------------------------------
LEMMA RecordsTell ==
  ASSUME Retries \in Nat, Typed, NEW op, NEW h, Record(op, h)
  PROVE  LET pending == {c.attempt : c \in {b \in UnderWay(op, h) : b.at \in {"persist", "hung"}}}
             rows == RowsOf(op, h)
         IN  /\ PostsOf(op, h) = pending \cup {d.attempt : d \in rows}
             /\ PostsOf(op, h) = 1..Cardinality(PostsOf(op, h))
             /\ Cardinality(rows) \leq Retries + 1
             /\ \A d \in rows : d.success => PostsOf(op, h) = 1..d.attempt
<1> DEFINE pending == {c.attempt : c \in {b \in UnderWay(op, h) : b.at \in {"persist", "hung"}}}
           rows == RowsOf(op, h)
<1>1. PICK n, m \in 0..(Retries + 1) : Counts(op, h, n, m)
  BY DEF Record
<1>2. n \in Nat /\ m \in Nat /\ m \leq Retries + 1
  OBVIOUS
<1>3. Cardinality(1..n) = n /\ IsFiniteSet(1..m) /\ Cardinality(1..m) = m
  BY <1>2, FS_Interval
<1>4. PostsOf(op, h) = pending \cup {d.attempt : d \in rows}
  <2>1. CASE \E c \in UnderWay(op, h) : c.at \in {"persist", "hung"}
    <3>1. PICK c \in UnderWay(op, h) : c.at \in {"persist", "hung"}
      BY <2>1
    <3>2. n = c.attempt /\ m = n - 1
      BY <1>1, <3>1 DEF Counts
    <3>3. pending = {n}
      BY <1>1, <3>1, <3>2 DEF Counts
    <3>4. 1..n = {n} \cup 1..m
      BY <1>2, <3>2
    <3> QED BY <1>1, <3>3, <3>4 DEF Counts
  <2>2. CASE ~\E c \in UnderWay(op, h) : c.at \in {"persist", "hung"}
    <3>1. pending = {}
      BY <2>2
    <3>2. \A c \in UnderWay(op, h) : c.at \in {"post", "wait"}
      BY <2>2 DEF UnderWay, Typed, Campaign
    <3>3. m = n
      BY <1>1, <3>2 DEF Counts
    <3> QED BY <1>1, <3>1, <3>3 DEF Counts
  <2> QED BY <2>1, <2>2
<1>5. Cardinality(rows) \leq Retries + 1
  <2> DEFINE f == [d \in rows |-> d.attempt]
  <2>1. f \in Injection(rows, 1..m)
    BY <1>1 DEF Counts, Injection, IsInjective
  <2>2. IsFiniteSet(rows) /\ Cardinality(rows) \leq Cardinality(1..m)
    <3> HIDE DEF f
    <3> QED BY <1>3, <2>1, FS_Injection
  <2>3. Cardinality(rows) \in Nat
    BY <2>2, FS_CardinalityType
  <2> QED BY <1>2, <1>3, <2>2, <2>3
<1>6. \A d \in rows : d.success => PostsOf(op, h) = 1..d.attempt
  BY <1>1 DEF Counts
<1> QED BY <1>1, <1>3, <1>4, <1>5, <1>6 DEF Counts

(* The history of deliveries tells the attempts that were made, one row    *)
(* each but for the one under way, nothing after a success, and at most    *)
(* Retries + 1, whatever is emitted, tested, changed or deleted meanwhile. *)
THEOREM AttemptsRecorded == ASSUME Retries \in Nat PROVE Spec => []AttemptsOnRecord
<1>1. Init => Invariant
  BY InitInvariant
<1>2. Invariant /\ [Next]_vars => Invariant'
  BY StepInvariant
<1>3. ASSUME Invariant PROVE AttemptsOnRecord
  <2>1. SUFFICES ASSUME NEW oh \in OpsAndHooks \ excused
                 PROVE  Record(oh[1], oh[2])
    BY <1>3, RecordsTell DEF AttemptsOnRecord, Invariant
  <2>2. oh[1] \in 1..lastOp /\ oh[2] \in Hooks /\ oh = <<oh[1], oh[2]>>
    BY DEF OpsAndHooks
  <2> QED BY <1>3, <2>1, <2>2 DEF Invariant, OnRecord
<1> QED BY <1>1, <1>2, <1>3, PTL DEF Spec

(* Each campaign comes to a subscription that was deleted at most once.    *)
THEOREM DeletedIsLeftAlone == ASSUME Retries \in Nat PROVE Spec => []DeletedHookQuiets
<1>1. Init => Invariant
  BY InitInvariant
<1>2. Invariant /\ [Next]_vars => Invariant'
  BY StepInvariant
<1>3. ASSUME Invariant PROVE DeletedHookQuiets
  <2>1. SUFFICES ASSUME NEW op \in 1..lastOp, NEW h \in Hooks
                 PROVE  Cardinality({p \in posts : p.op = op /\ p.hook = h /\ p.gone}) \leq 1
    BY DEF DeletedHookQuiets
  <2> DEFINE gone == {p \in posts : p.op = op /\ p.hook = h /\ p.gone}
  <2>2. \A p, q \in gone : p = q
    BY <1>3 DEF Invariant, Quiet
  <2>3. gone = {} \/ \E p : gone = {p}
    BY <2>2
  <2>4. Cardinality(gone) \in {0, 1}
    <3> HIDE DEF gone
    <3> QED BY <2>3, FS_EmptySet, FS_Singleton
  <2> QED BY <2>4
<1> QED BY <1>1, <1>2, <1>3, PTL DEF Spec
=============================================================================
