---------------------------- MODULE AccountProofs -----------------------------
(* Theorems about Accounts for every value of its constants: an invite     *)
(* keeps its contract, invite mode lets in whom it should, somebody can    *)
(* always administer, and the audit trail is complete.                     *)
EXTENDS Accounts, FiniteSetTheorems, TLAPS

(* What a request has in hand by where it is.                              *)
JoinOK(q) ==
  /\ q.kind = "register" \/ q.at \in {"email", "insert"} => q.email \in Emails
  /\ q.kind = "redeem" \/ q.at = "invite" => q.token \in Invites
  /\ q.kind = "redeem" => q.at # "gate"
ActOK(q) ==
  /\ q.at = "find" => q.kind \in {"role", "delete", "slug", "switch"}
  /\ q.kind \in {"role", "delete"} => q.target \in Ids
  /\ q.kind = "revoke" => q.target \in Invites
  /\ q.kind \in {"slug", "switch"} => q.target \in Projects
  /\ q.kind = "invite" => q.email \in Emails
  /\ q.kind \in {"project", "slug"} => q.slug \in Slugs

(* The sequences are ahead of their tables.                                *)
Ahead ==
  /\ \A u \in Ids : Stored(u) => u \leq lastUser
  /\ \A i \in Invites : StoredInvite(i) => i \leq lastInvite

WellFormed ==
  /\ TypeOK /\ Ahead
  /\ \A q \in joins : JoinOK(q)
  /\ \A q \in acts : ActOK(q)
-----------------------------------------------------------------------------
(* Type correctness, group by group.                                       *)

LEMMA SpendType ==
  ASSUME TypeOK, NEW what \in Events, Spend(what)
  PROVE  left' \in [Events -> Nat]
BY DEF TypeOK, Spend, Events

LEMMA InitWellFormed == Init => WellFormed
<1> SUFFICES ASSUME Init PROVE WellFormed
  OBVIOUS
<1>1. PICK s \in Scenarios : mode = s.mode /\ users = s.users /\ left = s.budget
  BY DEF Init
<1> DEFINE there == {u \in Ids : users[u] # NoRow}
<1>2. IsFiniteSet(Ids) /\ Cardinality(Ids) = MaxUsers
  BY SizeAssumption, FS_Interval DEF Ids
<1>3. IsFiniteSet(there) /\ Cardinality(there) \in 0..MaxUsers
  BY <1>2, FS_Subset, FS_CardinalityType, SizeAssumption
<1>4. lastUser = Cardinality(there)
  BY DEF Init
<1>5. ASSUME NEW u \in Ids, Stored(u) PROVE u \leq lastUser
  <2>1. 1..u \subseteq there
    BY <1>1, <1>5, ScenarioAssumption, SizeAssumption DEF Stored, Ids
  <2>2. Cardinality(1..u) = u
    BY FS_Interval DEF Ids
  <2>3. Cardinality(1..u) \leq Cardinality(there)
    BY <1>3, <2>1, FS_Subset
  <2> QED BY <1>4, <2>2, <2>3
<1>6. PICK slug \in Slugs : projects = [p \in Projects |-> IF p = 1 THEN slug ELSE NoRow]
  BY DEF Init
<1>7. TypeOK
  <2>1. users \in [Ids -> User \cup {NoRow}] /\ mode \in {"open", "invite"}
        /\ left \in [Events -> Nat]
    BY <1>1, ScenarioAssumption
  <2>2. welcome \subseteq Emails
    BY <2>1, ValueAssumption DEF Init, User
  <2>3. projects \in [Projects -> Slugs \cup {NoRow}] /\ lastProject \in Projects
    BY <1>6, SizeAssumption DEF Init, Projects
  <2>4. invites \in [Invites -> Invite \cup {NoRow}] /\ lastInvite \in 0..MaxInvites
        /\ granted \in [Invites -> SUBSET Ids]
    BY SizeAssumption DEF Init
  <2>5. joins \subseteq Join /\ acts \subseteq Act
        /\ audit \subseteq [op : Nat, actor : Ids \cup {Null}] /\ lastOp \in Nat
        /\ done \subseteq Nat /\ answered \subseteq Nat /\ unaudited \subseteq Nat
        /\ died \subseteq Nat /\ outlived \in BOOLEAN
    BY DEF Init
  <2> QED BY <1>3, <1>4, <2>1, <2>2, <2>3, <2>4, <2>5 DEF TypeOK
<1>8. Ahead
  BY <1>5 DEF Init, Ahead, StoredInvite
<1> QED BY <1>7, <1>8 DEF Init, WellFormed

(* A request that goes on stays the request it is.                         *)
LEMMA JoinMoves ==
  ASSUME NEW q \in Join, NEW at \in {"gate", "invite", "email", "insert"}
  PROVE  /\ [q EXCEPT !.at = at] \in Join
         /\ [q EXCEPT !.at = at].at = at /\ [q EXCEPT !.at = at].op = q.op
         /\ [q EXCEPT !.at = at].kind = q.kind /\ [q EXCEPT !.at = at].email = q.email
         /\ [q EXCEPT !.at = at].token = q.token /\ [q EXCEPT !.at = at].invitee = q.invitee
BY DEF Join

LEMMA ActMoves ==
  ASSUME NEW q \in Act, NEW at \in {"find", "count", "clash", "write", "audit"}
  PROVE  /\ [q EXCEPT !.at = at] \in Act
         /\ [q EXCEPT !.at = at].at = at /\ [q EXCEPT !.at = at].op = q.op
         /\ [q EXCEPT !.at = at].kind = q.kind /\ [q EXCEPT !.at = at].actor = q.actor
         /\ [q EXCEPT !.at = at].target = q.target /\ [q EXCEPT !.at = at].role = q.role
         /\ [q EXCEPT !.at = at].email = q.email /\ [q EXCEPT !.at = at].slug = q.slug
         /\ [q EXCEPT !.at = at].project = q.project
BY DEF Act
-----------------------------------------------------------------------------
LEMMA JoiningWellFormed ==
  ASSUME WellFormed, Joining
  PROVE  WellFormed'
<1>1. ASSUME NEW email \in Emails, NEW token \in 0..MaxInvites, Register(email, token)
      PROVE  WellFormed'
  <2> DEFINE q == [op |-> lastOp + 1, kind |-> "register", at |-> "gate",
                   email |-> email, token |-> token, invitee |-> Null]
  <2>1. q \in Join /\ JoinOK(q)
    BY SizeAssumption DEF WellFormed, TypeOK, Join, Joins, Invites, Null, JoinOK
  <2>2. joins' = joins \cup {q} /\ lastOp' \in Nat
    BY <1>1 DEF Register, WellFormed, TypeOK
  <2>3. left' \in [Events -> Nat]
    BY <1>1, SpendType DEF Register, WellFormed, Events, Joins
  <2> QED BY <1>1, <2>1, <2>2, <2>3
          DEF Register, WellFormed, TypeOK, Ahead, Stored, StoredInvite, tables, history
<1>2. ASSUME NEW token \in Invites, Redeem(token)
      PROVE  WellFormed'
  <2> DEFINE q == [op |-> lastOp + 1, kind |-> "redeem", at |-> "invite",
                   email |-> Null, token |-> token, invitee |-> Null]
  <2>1. q \in Join /\ JoinOK(q)
    BY SizeAssumption DEF WellFormed, TypeOK, Join, Joins, Invites, Null, JoinOK
  <2>2. joins' = joins \cup {q} /\ lastOp' \in Nat
    BY <1>2 DEF Redeem, WellFormed, TypeOK
  <2>3. left' \in [Events -> Nat]
    BY <1>2, SpendType DEF Redeem, WellFormed, Events, Joins
  <2> QED BY <1>2, <2>1, <2>2, <2>3
          DEF Redeem, WellFormed, TypeOK, Ahead, Stored, StoredInvite, tables, history
<1>3. ASSUME NEW i \in Invites, Expire(i)
      PROVE  WellFormed'
  <2>1. left' \in [Events -> Nat]
    BY <1>3, SpendType DEF Expire, WellFormed, Events
  <2>2. invites[i] \in Invite
    BY <1>3 DEF Expire, StoredInvite, WellFormed, TypeOK
  <2>3. [invites[i] EXCEPT !.expired = TRUE] \in Invite
    BY <2>2 DEF Invite
  <2>4. invites' = [invites EXCEPT ![i] = [invites[i] EXCEPT !.expired = TRUE]]
    BY <1>3 DEF Expire
  <2>5. invites' \in [Invites -> Invite \cup {NoRow}]
    BY <2>3, <2>4 DEF WellFormed, TypeOK
  <2>6. \A j \in Invites : StoredInvite(j)' => StoredInvite(j)
    BY <1>3, <2>4 DEF Expire, StoredInvite, WellFormed, TypeOK
  <2>7. TypeOK'
    BY <1>3, <2>1, <2>5 DEF Expire, WellFormed, TypeOK, history
  <2>8. Ahead'
    BY <1>3, <2>6 DEF Expire, WellFormed, Ahead, Stored
  <2> QED BY <1>3, <2>7, <2>8 DEF Expire, WellFormed
<1>4. ASSUME NEW q \in joins, Gate(q)
      PROVE  WellFormed'
  <2>1. q \in Join /\ JoinOK(q) /\ q.kind = "register" /\ q.email \in Emails
    BY <1>4 DEF WellFormed, TypeOK, JoinOK, Gate, Join, Joins
  <2>2. ASSUME joins' = joins \ {q} PROVE joins' \subseteq Join /\ \A p \in joins' : JoinOK(p)
    BY <2>2 DEF WellFormed, TypeOK
  <2>3. ASSUME NEW at \in {"email", "invite"}, Join_(q, at), at = "invite" => q.token # Null
        PROVE  joins' \subseteq Join /\ \A p \in joins' : JoinOK(p)
    <3>1. [q EXCEPT !.at = at] \in Join /\ JoinOK([q EXCEPT !.at = at])
      BY <2>1, <2>3, JoinMoves DEF JoinOK, Join
    <3> QED BY <2>3, <3>1 DEF Join_, WellFormed, TypeOK
  <2>4. joins' \subseteq Join /\ \A p \in joins' : JoinOK(p)
    BY <1>4, <2>2, <2>3 DEF Gate, EndJoin
  <2>5. welcome' \subseteq Emails
    BY <1>4, <2>1 DEF Gate, WellFormed, TypeOK
  <2> QED BY <1>4, <2>4, <2>5
          DEF Gate, WellFormed, TypeOK, Ahead, Stored, StoredInvite, tables
<1>5. ASSUME NEW q \in joins, FindInvite(q)
      PROVE  WellFormed'
  <2>1. q \in Join /\ JoinOK(q) /\ q.token \in Invites
    BY <1>5 DEF WellFormed, TypeOK, JoinOK, FindInvite
  <2>2. CASE Redeemable(q.token)
    <3> DEFINE email == invites[q.token].email
    <3>1. email \in Emails
      BY <2>1, <2>2 DEF Redeemable, StoredInvite, WellFormed, TypeOK, Invite
    <3>2. PICK p \in Join : p.kind = q.kind /\ p.at = "email" /\ p.token = q.token
              /\ p.email \in Emails /\ joins' = (joins \ {q}) \cup {p}
      <4>1. CASE q.kind = "redeem"
        <5>1. [q EXCEPT !.at = "email", !.email = email] \in Join
          BY <2>1, <3>1 DEF Join
        <5> QED BY <1>5, <2>1, <2>2, <3>1, <4>1, <5>1 DEF FindInvite, Join
      <4>2. CASE q.kind = "register"
        <5>1. [q EXCEPT !.at = "email", !.invitee = email] \in Join
          BY <2>1, <3>1 DEF Join
        <5> QED BY <1>5, <2>1, <2>2, <4>2, <5>1 DEF FindInvite, Join, JoinOK
      <4> QED BY <2>1, <4>1, <4>2 DEF Join, Joins
    <3>3. JoinOK(p)
      BY <2>1, <3>2 DEF JoinOK
    <3> QED BY <1>5, <3>2, <3>3
            DEF FindInvite, WellFormed, TypeOK, Ahead, Stored, StoredInvite, tables, history
  <2>3. CASE ~Redeemable(q.token)
    BY <1>5, <2>3 DEF FindInvite, EndJoin, WellFormed, TypeOK, Ahead, Stored, StoredInvite,
       tables, history
  <2> QED BY <2>2, <2>3
<1>6. ASSUME NEW q \in joins, FindEmail(q)
      PROVE  WellFormed'
  <2>1. q \in Join /\ JoinOK(q)
    BY DEF WellFormed, TypeOK
  <2>2. [q EXCEPT !.at = "insert"] \in Join /\ JoinOK([q EXCEPT !.at = "insert"])
    BY <1>6, <2>1, JoinMoves DEF FindEmail, JoinOK
  <2> QED BY <1>6, <2>2 DEF FindEmail, Join_, EndJoin, WellFormed, TypeOK, Ahead, Stored,
             StoredInvite, tables, history
<1>7. ASSUME NEW q \in joins, NEW role \in Roles, NEW project \in Projects,
             q.at = "insert", CreateUser(q.email, role, project)
      PROVE  /\ users' \in [Ids -> User \cup {NoRow}] /\ lastUser' \in 0..MaxUsers
             /\ \A u \in Ids : Stored(u)' => u \leq lastUser'
  <2>1. q.email \in Emails
    BY <1>7 DEF WellFormed, JoinOK
  <2>2. lastUser + 1 \in Ids /\ lastUser' = lastUser + 1
    BY <1>7, SizeAssumption DEF CreateUser, WellFormed, TypeOK, Ids
  <2>3. [email |-> q.email, role |-> role, project |-> project] \in User
    BY <2>1 DEF User
  <2>4. users' = [users EXCEPT ![lastUser + 1] =
                    [email |-> q.email, role |-> role, project |-> project]]
    BY <1>7 DEF CreateUser
  <2> QED BY <2>2, <2>3, <2>4 DEF WellFormed, TypeOK, Ahead, Stored, Ids
<1>8. ASSUME NEW q \in joins, InsertUser(q)
      PROVE  WellFormed'
  <2>1. 1 \in Projects /\ "admin" \in Roles /\ "editor" \in Roles
    BY SizeAssumption DEF Projects, Roles
  <2>2. users' \in [Ids -> User \cup {NoRow}] /\ lastUser' \in 0..MaxUsers
        /\ \A u \in Ids : Stored(u)' => u \leq lastUser'
    BY <1>7, <1>8, <2>1 DEF InsertUser, WellFormed, TypeOK, Ahead, Stored
  <2> QED BY <1>8, <2>2
          DEF InsertUser, EndJoin, WellFormed, TypeOK, Ahead, StoredInvite, history
<1>9. ASSUME NEW q \in joins, Claim(q)
      PROVE  WellFormed'
  <2> DEFINE i == q.token
  <2>1. i \in Invites
    BY <1>9 DEF Claim, WellFormed, JoinOK
  <2>2. CASE ~Claimable(i) \/ Taken(q.email)
    BY <1>9, <2>2 DEF Claim, RolledBack, EndJoin, WellFormed, TypeOK, Ahead, Stored,
       StoredInvite
  <2>3. CASE Claimable(i) /\ ~Taken(q.email)
    <3>1. invites[i] \in Invite
      BY <2>1, <2>3 DEF Claimable, Redeemable, StoredInvite, WellFormed, TypeOK
    <3>2. CreateUser(q.email, invites[i].role, invites[i].project)
          /\ invites' = [invites EXCEPT ![i].accepted = TRUE]
          /\ granted' = [granted EXCEPT ![i] = @ \cup {lastUser + 1}]
      BY <1>9, <2>3 DEF Claim
    <3>3. users' \in [Ids -> User \cup {NoRow}] /\ lastUser' \in 0..MaxUsers
          /\ \A u \in Ids : Stored(u)' => u \leq lastUser'
      BY <1>7, <1>9, <3>1, <3>2 DEF Claim, Invite
    <3>4. [invites[i] EXCEPT !.accepted = TRUE] \in Invite
      BY <3>1 DEF Invite
    <3>5. invites' \in [Invites -> Invite \cup {NoRow}]
          /\ \A j \in Invites : StoredInvite(j)' => StoredInvite(j)
      BY <2>1, <2>3, <3>2, <3>4 DEF WellFormed, TypeOK, StoredInvite, Claimable, Redeemable
    <3>6. granted' \in [Invites -> SUBSET Ids]
      <4>1. lastUser + 1 \in Ids
        BY <3>2, SizeAssumption DEF CreateUser, WellFormed, TypeOK, Ids
      <4> QED BY <2>1, <3>2, <4>1 DEF WellFormed, TypeOK
    <3> QED BY <1>9, <3>3, <3>5, <3>6 DEF Claim, EndJoin, WellFormed, TypeOK, Ahead
  <2> QED BY <2>2, <2>3
<1>10. ASSUME NEW q \in joins, JoinFails(q)
       PROVE  WellFormed'
  <2>1. left' \in [Events -> Nat]
    BY <1>10, SpendType DEF JoinFails, WellFormed, Events
  <2> QED BY <1>10, <2>1 DEF JoinFails, EndJoin, WellFormed, TypeOK, Ahead, Stored,
             StoredInvite, tables, history
<1> QED BY <1>1, <1>2, <1>3, <1>4, <1>5, <1>6, <1>8, <1>9, <1>10 DEF Joining

LEMMA CallingWellFormed ==
  ASSUME WellFormed, Calling
  PROVE  WellFormed'
<1>1. ASSUME NEW kind \in Acts, NEW a \in Ids, NEW target \in Nat, NEW role \in Roles,
             NEW email \in Emails \cup {Null}, NEW slug \in Slugs \cup {NoRow},
             Call(kind, a, target, role, email, slug),
             kind \in {"role", "delete"} => target \in Ids,
             kind = "revoke" => target \in Invites,
             kind \in {"slug", "switch"} => target \in Projects,
             kind = "invite" => email \in Emails,
             kind \in {"project", "slug"} => slug \in Slugs
      PROVE  WellFormed'
  <2> DEFINE q == [op |-> lastOp + 1, kind |-> kind, at |-> Starts(kind), actor |-> a,
                   project |-> users[a].project, target |-> target, role |-> role,
                   email |-> email, slug |-> slug]
  <2>1. users[a] \in User
    BY <1>1 DEF Call, IsAdmin, Stored, WellFormed, TypeOK
  <2>2. q \in Act
    BY <2>1 DEF Act, Starts, User, WellFormed, TypeOK
  <2>3. ActOK(q)
    BY <1>1 DEF ActOK, Starts
  <2>4. left' \in [Events -> Nat]
    BY <1>1, SpendType DEF Call, WellFormed, Events
  <2>5. acts' = acts \cup {q} /\ lastOp' \in Nat
    BY <1>1 DEF Call, WellFormed, TypeOK
  <2> QED BY <1>1, <2>2, <2>3, <2>4, <2>5
          DEF Call, WellFormed, TypeOK, Ahead, Stored, StoredInvite, tables, history
<1>2. "viewer" \in Roles /\ Null \in Nat /\ Ids \subseteq Nat /\ Invites \subseteq Nat
      /\ Projects \subseteq Nat
  BY DEF Roles, Null, Ids, Invites, Projects
<1>3. PICK a \in Ids :
        \/ \E u \in Ids, role \in GivenRoles : CallRole(a, u, role)
        \/ \E u \in Ids : CallDelete(a, u)
        \/ \E email \in Emails, role \in GivenRoles : CallInvite(a, email, role)
        \/ \E i \in Invites : CallRevoke(a, i)
        \/ \E slug \in Slugs : CallProject(a, slug)
        \/ \E p \in Projects, slug \in Slugs : CallSlug(a, p, slug)
        \/ \E p \in Projects : CallSwitch(a, p)
  BY DEF Calling
<1>4. ASSUME NEW u \in Ids, NEW role \in GivenRoles, CallRole(a, u, role) PROVE WellFormed'
  BY <1>1, <1>2, <1>4, ValueAssumption DEF CallRole, Acts
<1>5. ASSUME NEW u \in Ids, CallDelete(a, u) PROVE WellFormed'
  BY <1>1, <1>2, <1>5 DEF CallDelete, Acts
<1>6. ASSUME NEW email \in Emails, NEW role \in GivenRoles, CallInvite(a, email, role)
      PROVE  WellFormed'
  BY <1>1, <1>2, <1>6, ValueAssumption DEF CallInvite, Acts
<1>7. ASSUME NEW i \in Invites, CallRevoke(a, i) PROVE WellFormed'
  BY <1>1, <1>2, <1>7 DEF CallRevoke, Acts
<1>8. ASSUME NEW slug \in Slugs, CallProject(a, slug) PROVE WellFormed'
  BY <1>1, <1>2, <1>8 DEF CallProject, Acts
<1>9. ASSUME NEW p \in Projects, NEW slug \in Slugs, CallSlug(a, p, slug) PROVE WellFormed'
  BY <1>1, <1>2, <1>9 DEF CallSlug, Acts
<1>10. ASSUME NEW p \in Projects, CallSwitch(a, p) PROVE WellFormed'
  BY <1>1, <1>2, <1>10 DEF CallSwitch, Acts
<1> QED BY <1>3, <1>4, <1>5, <1>6, <1>7, <1>8, <1>9, <1>10

(* A call that goes on or ends leaves the requests well formed.            *)
LEMMA ActsMove ==
  ASSUME WellFormed, NEW q \in acts, NEW at \in {"count", "clash", "write", "audit"},
         EndAct(q) \/ Continue(q, at)
  PROVE  acts' \subseteq Act /\ \A p \in acts' : ActOK(p)
<1>1. q \in Act /\ ActOK(q)
  BY DEF WellFormed, TypeOK
<1>2. at # "find" /\ at \in {"find", "count", "clash", "write", "audit"}
  OBVIOUS
<1>3. [q EXCEPT !.at = at] \in Act /\ ActOK([q EXCEPT !.at = at])
  BY <1>1, <1>2, ActMoves DEF ActOK
<1> QED BY <1>3 DEF EndAct, Continue, WellFormed, TypeOK

LEMMA ForgottenType ==
  ASSUME WellFormed, NEW u \in Ids
  PROVE  Forgotten(u) \subseteq [op : Nat, actor : Ids \cup {Null}]
<1>1. ASSUME NEW a \in audit
      PROVE  (IF a.actor = u THEN [a EXCEPT !.actor = Null] ELSE a)
               \in [op : Nat, actor : Ids \cup {Null}]
  BY DEF WellFormed, TypeOK
<1> QED BY <1>1 DEF Forgotten

LEMMA WritesWellFormed ==
  ASSUME WellFormed, NEW q \in acts, Writes(q)
  PROVE  WellFormed'
<1>1. q \in Act /\ ActOK(q) /\ q.op \in Nat /\ q.actor \in Ids
  BY DEF WellFormed, TypeOK, Act
<1>2. ASSUME Acted(q),
             users' \in [Ids -> User \cup {NoRow}], lastUser' = lastUser,
             invites' \in [Invites -> Invite \cup {NoRow}], lastInvite' \in 0..MaxInvites,
             projects' \in [Projects -> Slugs \cup {NoRow}], lastProject' \in Projects,
             audit' \subseteq [op : Nat, actor : Ids \cup {Null}], welcome' \subseteq Emails,
             Ahead'
      PROVE  WellFormed'
  <2>1. acts' \subseteq Act /\ \A p \in acts' : ActOK(p)
    BY <1>2, ActsMove DEF Acted
  <2>2. answered' \subseteq Nat /\ done' \subseteq Nat /\ outlived' \in BOOLEAN
    BY <1>1, <1>2 DEF Acted, Answered, WellFormed, TypeOK
  <2> QED BY <1>2, <2>1, <2>2 DEF Acted, WellFormed, TypeOK
<1>3. ASSUME WriteRole(q) PROVE WellFormed'
  <2>1. q.target \in Ids /\ users[q.target] \in User /\ q.role \in Roles
    BY <1>1, <1>3 DEF WriteRole, ActOK, Act, Stored, WellFormed, TypeOK
  <2>2. [users[q.target] EXCEPT !.role = q.role] \in User
    BY <2>1 DEF User
  <2>3. users' = [users EXCEPT ![q.target] = [users[q.target] EXCEPT !.role = q.role]]
    BY <1>3 DEF WriteRole
  <2>4. users' \in [Ids -> User \cup {NoRow}] /\ \A u \in Ids : Stored(u)' => Stored(u)
    BY <1>3, <2>1, <2>2, <2>3 DEF WriteRole, WellFormed, TypeOK, Stored
  <2> QED BY <1>2, <1>3, <2>4 DEF WriteRole, WellFormed, TypeOK, Ahead, StoredInvite
<1>4. ASSUME WriteDelete(q) PROVE WellFormed'
  <2>1. users' = [users EXCEPT ![q.target] = NoRow] /\ q.target \in Ids
    BY <1>1, <1>4 DEF WriteDelete, ActOK
  <2>2. users' \in [Ids -> User \cup {NoRow}] /\ \A u \in Ids : Stored(u)' => Stored(u)
    BY <2>1 DEF WellFormed, TypeOK, Stored
  <2>3. audit' \subseteq [op : Nat, actor : Ids \cup {Null}]
    BY <1>4, <2>1, ForgottenType DEF WriteDelete
  <2> QED BY <1>2, <1>4, <2>2, <2>3 DEF WriteDelete, WellFormed, TypeOK, Ahead, StoredInvite
<1>5. ASSUME WriteInvite(q) PROVE WellFormed'
  <2> DEFINE i == [email |-> q.email, role |-> q.role, project |-> q.project, by |-> q.actor,
                   accepted |-> FALSE, expired |-> FALSE]
  <2>1. q.email \in Emails /\ i \in Invite
    BY <1>1, <1>5 DEF WriteInvite, ActOK, Act, Invite
  <2>2. lastInvite + 1 \in Invites /\ lastInvite' = lastInvite + 1 /\ lastInvite \in Nat
        /\ lastInvite' \in 0..MaxInvites
    BY <1>5, SizeAssumption DEF WriteInvite, WellFormed, TypeOK, Invites
  <2>3. invites' = [invites EXCEPT ![lastInvite + 1] = i]
    BY <1>5 DEF WriteInvite
  <2>4. invites' \in [Invites -> Invite \cup {NoRow}]
    BY <2>1, <2>2, <2>3 DEF WellFormed, TypeOK
  <2>5. Ahead'
    <3>1. ASSUME NEW j \in Invites, StoredInvite(j)' PROVE j \leq lastInvite'
      BY <2>2, <2>3, <3>1 DEF WellFormed, TypeOK, Ahead, StoredInvite, Invites
    <3>2. ASSUME NEW u \in Ids, Stored(u)' PROVE u \leq lastUser'
      BY <1>5, <3>2 DEF WriteInvite, WellFormed, Ahead, Stored
    <3> QED BY <3>1, <3>2 DEF Ahead
  <2>6. welcome' \subseteq Emails
    BY <1>5, <2>1 DEF WriteInvite, WellFormed, TypeOK
  <2> QED BY <1>2, <1>5, <2>2, <2>4, <2>5, <2>6 DEF WriteInvite, WellFormed, TypeOK
<1>6. ASSUME WriteRevoke(q) PROVE WellFormed'
  <2>1. invites' = [invites EXCEPT ![q.target] = NoRow] /\ q.target \in Invites
    BY <1>1, <1>6 DEF WriteRevoke, ActOK
  <2>2. invites' \in [Invites -> Invite \cup {NoRow}]
        /\ \A i \in Invites : StoredInvite(i)' => StoredInvite(i)
    BY <2>1 DEF WellFormed, TypeOK, StoredInvite
  <2> QED BY <1>2, <1>6, <2>2 DEF WriteRevoke, WellFormed, TypeOK, Ahead, Stored
<1>7. ASSUME WriteProject(q) PROVE WellFormed'
  <2>1. q.slug \in Slugs /\ lastProject + 1 \in Projects
    BY <1>1, <1>7, SizeAssumption DEF WriteProject, ActOK, WellFormed, TypeOK, Projects
  <2>2. projects' \in [Projects -> Slugs \cup {NoRow}] /\ lastProject' \in Projects
    BY <1>7, <2>1 DEF WriteProject, WellFormed, TypeOK
  <2> QED BY <1>2, <1>7, <2>2 DEF WriteProject, WellFormed, TypeOK, Ahead, Stored, StoredInvite
<1>8. ASSUME WriteSlug(q) PROVE WellFormed'
  <2>1. projects' \in [Projects -> Slugs \cup {NoRow}]
    BY <1>1, <1>8 DEF WriteSlug, ActOK, WellFormed, TypeOK
  <2> QED BY <1>2, <1>8, <2>1 DEF WriteSlug, WellFormed, TypeOK, Ahead, Stored, StoredInvite
<1>9. ASSUME WriteSwitch(q) PROVE WellFormed'
  <2>1. q.target \in Projects /\ users[q.actor] \in User
    BY <1>1, <1>9 DEF WriteSwitch, ActOK, Stored, WellFormed, TypeOK
  <2>2. [users[q.actor] EXCEPT !.project = q.target] \in User
    BY <2>1 DEF User
  <2>3. users' = [users EXCEPT ![q.actor] = [users[q.actor] EXCEPT !.project = q.target]]
    BY <1>9 DEF WriteSwitch
  <2>4. users' \in [Ids -> User \cup {NoRow}] /\ \A u \in Ids : Stored(u)' => Stored(u)
    BY <1>1, <1>9, <2>2, <2>3 DEF WriteSwitch, WellFormed, TypeOK, Stored
  <2> QED BY <1>2, <1>9, <2>4 DEF WriteSwitch, WellFormed, TypeOK, Ahead, StoredInvite
<1> QED BY <1>3, <1>4, <1>5, <1>6, <1>7, <1>8, <1>9 DEF Writes

LEMMA ActingWellFormed ==
  ASSUME WellFormed, Acting
  PROVE  WellFormed'
<1>1. PICK q \in acts : \/ Find(q) \/ Count(q) \/ Clash(q) \/ Writes(q) \/ Refuse(q)
                        \/ Record(q) \/ RecordFails(q) \/ ActFails(q) \/ ActDies(q)
  BY DEF Acting
<1>2. q \in Act /\ q.op \in Nat /\ q.actor \in Ids
  BY DEF WellFormed, TypeOK, Act
<1>3. ASSUME NEW at \in {"count", "clash", "write"}, EndAct(q) \/ Continue(q, at),
             UNCHANGED <<mode, tables, joins, audit, lastOp, history>>,
             left' \in [Events -> Nat]
      PROVE  WellFormed'
  BY <1>3, ActsMove DEF WellFormed, TypeOK, Ahead, Stored, StoredInvite, tables, history
<1>4. CASE Find(q) \/ Count(q) \/ Clash(q) \/ Refuse(q)
  <2>1. ASSUME Find(q) PROVE \E at \in {"count", "clash", "write"} : EndAct(q) \/ Continue(q, at)
    <3>1. q.kind \in {"role", "delete", "slug", "switch"}
      BY <2>1 DEF Find, WellFormed, ActOK
    <3>2. CASE q.kind \in {"role", "delete"}
      BY <2>1, <3>2 DEF Find
    <3>3. CASE q.kind = "slug"
      BY <2>1, <3>3 DEF Find
    <3>4. CASE q.kind = "switch"
      BY <2>1, <3>4 DEF Find
    <3> QED BY <3>1, <3>2, <3>3, <3>4
  <2>2. \E at \in {"count", "clash", "write"} : EndAct(q) \/ Continue(q, at)
    BY <1>4, <2>1 DEF Count, Clash, Refuse
  <2> QED BY <1>3, <1>4, <2>2 DEF Find, Count, Clash, Refuse, WellFormed, TypeOK
<1>5. CASE Writes(q)
  BY <1>5, WritesWellFormed
<1>6. CASE ActFails(q)
  BY <1>3, <1>6, SpendType DEF ActFails, WellFormed, Events
<1>7. CASE Record(q)
  <2>1. acts' \subseteq Act /\ \A p \in acts' : ActOK(p)
    BY <1>7, ActsMove DEF Record
  <2>2. [op |-> q.op, actor |-> q.actor] \in [op : Nat, actor : Ids \cup {Null}]
    BY <1>2
  <2>3. audit' \subseteq [op : Nat, actor : Ids \cup {Null}] /\ answered' \subseteq Nat
    BY <1>2, <1>7, <2>2 DEF Record, WellFormed, TypeOK
  <2> QED BY <1>7, <2>1, <2>3
          DEF Record, WellFormed, TypeOK, Ahead, Stored, StoredInvite, tables
<1>8. CASE RecordFails(q)
  <2>1. acts' \subseteq Act /\ \A p \in acts' : ActOK(p)
    BY <1>8, ActsMove DEF RecordFails
  <2>2. left' \in [Events -> Nat]
    BY <1>8, SpendType DEF RecordFails, WellFormed, TypeOK, Events
  <2> QED BY <1>2, <1>8, <2>1, <2>2
          DEF RecordFails, WellFormed, TypeOK, Ahead, Stored, StoredInvite, tables
<1>9. CASE ActDies(q)
  <2>1. acts' \subseteq Act /\ \A p \in acts' : ActOK(p)
    BY <1>9, ActsMove DEF ActDies
  <2>2. left' \in [Events -> Nat]
    BY <1>9, SpendType DEF ActDies, WellFormed, Events
  <2> QED BY <1>2, <1>9, <2>1, <2>2
          DEF ActDies, WellFormed, TypeOK, Ahead, Stored, StoredInvite, tables
<1> QED BY <1>1, <1>4, <1>5, <1>6, <1>7, <1>8, <1>9

LEMMA StepWellFormed == WellFormed /\ [Next]_vars => WellFormed'
<1>1. ASSUME WellFormed, UNCHANGED vars PROVE WellFormed'
  BY <1>1 DEF WellFormed, TypeOK, Ahead, Stored, StoredInvite, vars, tables, history
<1> QED BY <1>1, JoiningWellFormed, CallingWellFormed, ActingWellFormed DEF Next
-----------------------------------------------------------------------------
(* The tables and the requests have the types the schema gives them.       *)
THEOREM AccountsTypeCorrect == Spec => []TypeOK
<1>1. WellFormed => TypeOK
  BY DEF WellFormed
<1> QED BY <1>1, InitWellFormed, StepWellFormed, PTL DEF Spec

-----------------------------------------------------------------------------
(* Who is vouched for: the emails of invites and of accounts, and those of *)
(* requests that are past the gate, by themselves or by their invite.      *)
JoinVouched(q) ==
  /\ q.at = "email" => q.email \in welcome \/ (q.invitee # Null /\ q.invitee \in welcome)
  /\ q.at = "insert" => q.email \in welcome
Vouched ==
  mode = "invite" =>
    /\ AdminEmails \subseteq welcome
    /\ \A u \in Ids : Stored(u) => users[u].email \in welcome
    /\ \A i \in Invites : StoredInvite(i) => invites[i].email \in welcome
    /\ \A q \in joins : q.kind = "register" /\ q.at \in {"gate", "invite"} => q.invitee = Null
    /\ \A q \in joins : JoinVouched(q)

LEMMA JoiningVouched ==
  ASSUME WellFormed, Vouched, Joining, mode = "invite"
  PROVE  Vouched'
<1>1. ASSUME NEW email \in Emails, NEW token \in 0..MaxInvites, Register(email, token)
      PROVE  Vouched'
  BY <1>1 DEF Register, Vouched, JoinVouched, Stored, StoredInvite, tables, history
<1>2. ASSUME NEW token \in Invites, Redeem(token)
      PROVE  Vouched'
  BY <1>2 DEF Redeem, Vouched, JoinVouched, Stored, StoredInvite, tables, history
<1>3. ASSUME NEW i \in Invites, Expire(i)
      PROVE  Vouched'
  <2>1. invites[i] \in Invite
    BY <1>3 DEF Expire, StoredInvite, WellFormed, TypeOK
  <2>2. invites' = [invites EXCEPT ![i] = [invites[i] EXCEPT !.expired = TRUE]]
    BY <1>3 DEF Expire
  <2>3. [invites[i] EXCEPT !.expired = TRUE].email = invites[i].email
    BY <2>1 DEF Invite
  <2>4. \A j \in Invites : StoredInvite(j)' =>
          StoredInvite(j) /\ invites'[j].email = invites[j].email
    BY <1>3, <2>2, <2>3 DEF Expire, StoredInvite, WellFormed, TypeOK
  <2> QED BY <1>3, <2>4 DEF Expire, Vouched, JoinVouched, Stored, history
<1>4. ASSUME NEW q \in joins, Gate(q)
      PROVE  Vouched'
  <2>1. q \in Join /\ q.kind = "register" /\ q.email \in Emails
    BY <1>4 DEF WellFormed, TypeOK, JoinOK, Gate, Join, Joins
  <2>2. welcome \subseteq welcome'
    BY <1>4 DEF Gate
  <2>3. ASSUME Join_(q, "email") PROVE \A p \in joins' : p \in joins \/ p.email \in welcome'
    <3>1. q.email \in welcome' \/ joins' = joins \ {q}
          \/ joins' = (joins \ {q}) \cup {[q EXCEPT !.at = "invite"]}
      BY <1>4 DEF Gate, Join_, EndJoin, Vouched
    <3>2. [q EXCEPT !.at = "email"].email = q.email
          /\ [q EXCEPT !.at = "email"] # [q EXCEPT !.at = "invite"]
      BY <2>1, JoinMoves
    <3> QED BY <2>3, <3>1, <3>2 DEF Join_
  <2>4. ASSUME NEW p \in joins'
        PROVE  /\ p.kind = "register" /\ p.at \in {"gate", "invite"} => p.invitee = Null
               /\ JoinVouched(p)'
    <3>1. CASE p \in joins
      BY <2>2, <3>1, <1>4 DEF Vouched, JoinVouched, Gate
    <3>2. CASE p \notin joins /\ Join_(q, "email")
      <4>1. p = [q EXCEPT !.at = "email"]
        BY <3>2 DEF Join_
      <4>2. p.at = "email"
        BY <2>1, <4>1, JoinMoves
      <4> QED BY <2>3, <3>2, <4>2 DEF JoinVouched
    <3>3. CASE p \notin joins /\ Join_(q, "invite")
      <4>1. p = [q EXCEPT !.at = "invite"]
        BY <3>3 DEF Join_
      <4>2. p.at = "invite" /\ p.invitee = q.invitee
        BY <2>1, <4>1, JoinMoves
      <4> QED BY <1>4, <2>1, <4>2 DEF Gate, JoinVouched, Vouched
    <3> QED BY <1>4, <3>1, <3>2, <3>3 DEF Gate, EndJoin
  <2> QED BY <1>4, <2>2, <2>4 DEF Gate, Vouched, Stored, StoredInvite, tables
<1>5. ASSUME NEW q \in joins, FindInvite(q)
      PROVE  Vouched'
  <2>1. q \in Join /\ q.token \in Invites
    BY <1>5 DEF WellFormed, TypeOK, JoinOK, FindInvite
  <2>2. CASE Redeemable(q.token)
    <3> DEFINE email == invites[q.token].email
    <3>1. email \in Emails /\ email \in welcome
      BY <2>1, <2>2 DEF Redeemable, StoredInvite, WellFormed, TypeOK, Invite, Vouched
    <3>2. PICK p \in Join : /\ p.at = "email" /\ joins' = (joins \ {q}) \cup {p}
                            /\ p.email = email \/ p.invitee = email
      <4>1. CASE q.kind = "redeem"
        <5>1. [q EXCEPT !.at = "email", !.email = email] \in Join
          BY <2>1, <3>1 DEF Join
        <5> QED BY <1>5, <2>1, <2>2, <3>1, <4>1, <5>1 DEF FindInvite, Join
      <4>2. CASE q.kind = "register"
        <5>1. [q EXCEPT !.at = "email", !.invitee = email] \in Join
          BY <2>1, <3>1 DEF Join
        <5> QED BY <1>5, <2>1, <2>2, <4>2, <5>1 DEF FindInvite, Join
      <4> QED BY <2>1, <4>1, <4>2 DEF Join, Joins
    <3>3. email # Null
      BY <3>1, ValueAssumption
    <3>4. UNCHANGED <<mode, users, invites, welcome>>
      BY <1>5 DEF FindInvite, tables, history
    <3>5. ASSUME NEW r \in joins'
          PROVE  /\ r.kind = "register" /\ r.at \in {"gate", "invite"} => r.invitee = Null
                 /\ JoinVouched(r)
      BY <3>1, <3>2, <3>3 DEF Vouched, JoinVouched
    <3> QED BY <3>4, <3>5 DEF Vouched, JoinVouched, Stored, StoredInvite
  <2>3. CASE ~Redeemable(q.token)
    BY <1>5, <2>3 DEF FindInvite, EndJoin, Vouched, JoinVouched, Stored, StoredInvite,
       tables, history
  <2> QED BY <2>2, <2>3
<1>6. ASSUME NEW q \in joins, FindEmail(q)
      PROVE  Vouched'
  <2>1. q \in Join /\ JoinVouched(q) /\ q.at = "email"
    BY <1>6 DEF FindEmail, WellFormed, TypeOK, Vouched
  <2>2. ASSUME Suits(q)
        PROVE  LET p == [q EXCEPT !.at = "insert"] IN p.at = "insert" /\ p.email \in welcome
    BY <2>1, <2>2, JoinMoves DEF Suits, JoinVouched
  <2>3. ASSUME NEW p \in joins'
        PROVE  p \in joins \/ (p.at = "insert" /\ p.email \in welcome)
    BY <1>6, <2>2, <2>3 DEF FindEmail, Join_, EndJoin
  <2> QED BY <1>6, <2>3
          DEF FindEmail, Vouched, JoinVouched, Stored, StoredInvite, tables, history
<1>7. ASSUME NEW q \in joins, NEW role, NEW project,
             q.at = "insert", CreateUser(q.email, role, project)
      PROVE  \A u \in Ids : Stored(u)' => users'[u].email \in welcome
  <2>1. q.email \in welcome
    BY <1>7 DEF Vouched, JoinVouched
  <2>2. users' = [users EXCEPT ![lastUser + 1] =
                    [email |-> q.email, role |-> role, project |-> project]]
    BY <1>7 DEF CreateUser
  <2> QED BY <2>1, <2>2 DEF Vouched, Stored, WellFormed, TypeOK
<1>8. ASSUME NEW q \in joins, InsertUser(q)
      PROVE  Vouched'
  <2>1. \A u \in Ids : Stored(u)' => users'[u].email \in welcome
    BY <1>7, <1>8 DEF InsertUser, Vouched, Stored
  <2> QED BY <1>8, <2>1 DEF InsertUser, EndJoin, Vouched, JoinVouched, StoredInvite, history
<1>9. ASSUME NEW q \in joins, Claim(q)
      PROVE  Vouched'
  <2>1. q.token \in Invites
    BY <1>9 DEF Claim, WellFormed, JoinOK
  <2>2. \A u \in Ids : Stored(u)' => users'[u].email \in welcome
    BY <1>7, <1>9 DEF Claim, Vouched, Stored
  <2>3. \A i \in Invites : StoredInvite(i)' =>
          StoredInvite(i) /\ invites'[i].email = invites[i].email
    <3>1. CASE UNCHANGED invites
      BY <3>1 DEF StoredInvite
    <3>2. CASE Claimable(q.token) /\ invites' = [invites EXCEPT ![q.token].accepted = TRUE]
      <4>1. invites[q.token] \in Invite
        BY <2>1, <3>2 DEF Claimable, Redeemable, StoredInvite, WellFormed, TypeOK
      <4>2. [invites[q.token] EXCEPT !.accepted = TRUE].email = invites[q.token].email
        BY <4>1 DEF Invite
      <4> QED BY <2>1, <3>2, <4>2 DEF StoredInvite, WellFormed, TypeOK, Claimable, Redeemable
    <3> QED BY <1>9, <3>1, <3>2 DEF Claim, RolledBack
  <2> QED BY <1>9, <2>2, <2>3 DEF Claim, EndJoin, Vouched, JoinVouched
<1>10. ASSUME NEW q \in joins, JoinFails(q)
       PROVE  Vouched'
  BY <1>10 DEF JoinFails, EndJoin, Vouched, JoinVouched, Stored, StoredInvite, tables, history
<1> QED BY <1>1, <1>2, <1>3, <1>4, <1>5, <1>6, <1>8, <1>9, <1>10 DEF Joining

LEMMA ActingVouched ==
  ASSUME WellFormed, Vouched, Calling \/ Acting, mode = "invite"
  PROVE  Vouched'
<1>1. UNCHANGED joins
  BY DEF Calling, CallRole, CallDelete, CallInvite, CallRevoke, CallProject, CallSlug,
     CallSwitch, Call, Acting, Find, Count, Clash, Writes, WriteRole, WriteDelete, WriteInvite,
     WriteRevoke, WriteProject, WriteSlug, WriteSwitch, Acted, Refuse, Record, RecordFails,
     ActFails, ActDies
<1>2. CASE UNCHANGED <<users, invites, welcome>>
  BY <1>1, <1>2 DEF Vouched, JoinVouched, Stored, StoredInvite
<1>3. CASE \E q \in acts : Writes(q)
  <2>1. PICK q \in acts : Writes(q)
    BY <1>3
  <2>2. q.target \in Ids \/ q.kind \notin {"role", "delete"}
    BY DEF WellFormed, ActOK
  <2>3. welcome \subseteq welcome' /\ q.actor \in Ids
    BY <2>1 DEF Writes, WriteRole, WriteDelete, WriteInvite, WriteRevoke, WriteProject,
       WriteSlug, WriteSwitch, Acted, WellFormed, TypeOK, Act
  <2>4. ASSUME NEW u \in Ids, Stored(u)'
        PROVE  Stored(u) /\ users'[u].email = users[u].email
    <3>1. CASE WriteRole(q)
      <4>1. users' = [users EXCEPT ![q.target] = [users[q.target] EXCEPT !.role = q.role]]
            /\ q.target \in Ids /\ users[q.target] \in User
        BY <2>2, <3>1 DEF WriteRole, Stored, WellFormed, TypeOK
      <4>2. [users[q.target] EXCEPT !.role = q.role].email = users[q.target].email
        BY <4>1 DEF User
      <4> QED BY <2>4, <3>1, <4>1, <4>2 DEF WriteRole, Stored, WellFormed, TypeOK
    <3>2. CASE WriteDelete(q)
      BY <2>2, <2>4, <3>2 DEF WriteDelete, Stored, WellFormed, TypeOK
    <3>3. CASE WriteSwitch(q)
      <4>1. users' = [users EXCEPT ![q.actor] = [users[q.actor] EXCEPT !.project = q.target]]
            /\ users[q.actor] \in User
        BY <2>3, <3>3 DEF WriteSwitch, Stored, WellFormed, TypeOK
      <4>2. [users[q.actor] EXCEPT !.project = q.target].email = users[q.actor].email
        BY <4>1 DEF User
      <4> QED BY <2>3, <2>4, <3>3, <4>1, <4>2 DEF WriteSwitch, Stored, WellFormed, TypeOK
    <3> QED BY <2>1, <2>4, <3>1, <3>2, <3>3
            DEF Writes, WriteInvite, WriteRevoke, WriteProject, WriteSlug, Stored
  <2>5. ASSUME NEW i \in Invites, StoredInvite(i)'
        PROVE  invites'[i].email \in welcome'
    <3>1. CASE WriteInvite(q)
      <4>1. invites' = [invites EXCEPT ![lastInvite + 1] =
               [email |-> q.email, role |-> q.role, project |-> q.project, by |-> q.actor,
                accepted |-> FALSE, expired |-> FALSE]]
            /\ q.email \in welcome'
        BY <3>1 DEF WriteInvite
      <4> QED BY <2>3, <2>5, <4>1 DEF StoredInvite, Vouched, WellFormed, TypeOK
    <3>2. CASE WriteRevoke(q)
      BY <2>3, <2>5, <3>2 DEF WriteRevoke, StoredInvite, Vouched, WellFormed, TypeOK
    <3> QED BY <2>1, <2>3, <2>5, <3>1, <3>2
            DEF Writes, WriteRole, WriteDelete, WriteProject, WriteSlug, WriteSwitch,
                StoredInvite, Vouched
  <2> QED BY <1>1, <2>3, <2>4, <2>5 DEF Vouched, JoinVouched
<1> QED BY <1>2, <1>3 DEF Calling, CallRole, CallDelete, CallInvite, CallRevoke, CallProject,
     CallSlug, CallSwitch, Call, Acting, Find, Count, Clash, Refuse, Record, RecordFails,
     ActFails, ActDies, tables, history

(* In invite mode every account is of someone the operator named, an       *)
(* administrator has invited, or who came while there was nobody.          *)
THEOREM OnlyTheInvited == Spec => []InvitedOnly
<1> DEFINE Inv == WellFormed /\ Vouched
<1>1. Init => Inv
  <2> SUFFICES ASSUME Init PROVE Vouched
    BY InitWellFormed
  <2> QED BY DEF Init, Vouched, Stored, StoredInvite
<1>2. Inv /\ [Next]_vars => Inv'
  <2> SUFFICES ASSUME Inv, [Next]_vars PROVE Vouched'
    BY StepWellFormed
  <2>1. mode' = mode
    BY DEF Next, Joining, Register, Redeem, Expire, Gate, FindInvite, FindEmail, InsertUser,
       Claim, JoinFails, Calling, CallRole, CallDelete, CallInvite, CallRevoke, CallProject,
       CallSlug, CallSwitch, Call, Acting, Find, Count, Clash, Writes, WriteRole, WriteDelete,
       WriteInvite, WriteRevoke, WriteProject, WriteSlug, WriteSwitch, Acted, Refuse, Record,
       RecordFails, ActFails, ActDies, vars
  <2>2. CASE mode # "invite"
    BY <2>1, <2>2 DEF Vouched
  <2>3. CASE UNCHANGED vars
    BY <2>3 DEF Vouched, JoinVouched, Stored, StoredInvite, vars, tables, history
  <2> QED BY <2>2, <2>3, JoiningVouched, ActingVouched DEF Next
<1>3. Inv => InvitedOnly
  BY DEF Vouched, InvitedOnly
<1> QED BY <1>1, <1>2, <1>3, PTL DEF Spec
-----------------------------------------------------------------------------
(* What an invite has made: nothing while it may still make something, and *)
(* only accounts whose ids have been handed out.                           *)
Earned ==
  \A i \in Invites :
    /\ StoredInvite(i) /\ ~invites[i].accepted => granted[i] = {}
    /\ lastInvite < i => granted[i] = {}
    /\ \A a \in granted[i] : a \leq lastUser

standings == [i \in Invites |-> Standing(i)]

LEMMA StandingMoves ==
  ASSUME NEW i \in Invites, NEW to, Standing(i)' = to,
         \A j \in Invites : j # i => Standing(j)' = Standing(j)
  PROVE  standings' = [standings EXCEPT ![i] = to]
BY DEF standings

LEMMA SameStandings ==
  ASSUME UNCHANGED <<invites, lastInvite>>
  PROVE  standings' = standings
BY DEF standings, Standing, StoredInvite

SameOrNext == lastUser' = lastUser \/ lastUser' = lastUser + 1

(* Whatever else happens touches no invite.                                *)
LEMMA InviteSteps ==
  ASSUME WellFormed, [Next]_vars
  PROVE  \/ \E i \in Invites : Expire(i)
         \/ \E q \in joins : Claim(q)
         \/ \E q \in acts : WriteInvite(q) \/ WriteRevoke(q)
         \/ UNCHANGED <<invites, lastInvite, granted>> /\ SameOrNext
<1>2. CASE UNCHANGED vars
  BY <1>2 DEF vars, tables, history, SameOrNext
<1>3. CASE Joining
  <2>1. ASSUME NEW q \in joins, InsertUser(q)
        PROVE  UNCHANGED <<invites, lastInvite, granted>> /\ SameOrNext
    BY <2>1 DEF InsertUser, CreateUser, history, SameOrNext
  <2> QED BY <1>3, <2>1 DEF Joining, Register, Redeem, Gate, FindInvite, FindEmail,
             JoinFails, tables, history, SameOrNext
<1>4. CASE Calling
  BY <1>4 DEF Calling, CallRole, CallDelete, CallInvite, CallRevoke, CallProject,
     CallSlug, CallSwitch, Call, tables, history, SameOrNext
<1>5. CASE Acting
  <2>1. PICK q \in acts : \/ Find(q) \/ Count(q) \/ Clash(q) \/ Writes(q) \/ Refuse(q)
                          \/ Record(q) \/ RecordFails(q) \/ ActFails(q) \/ ActDies(q)
    BY <1>5 DEF Acting
  <2>2. ASSUME Writes(q), ~WriteInvite(q), ~WriteRevoke(q)
        PROVE  UNCHANGED <<invites, lastInvite, granted>> /\ SameOrNext
    BY <2>2 DEF Writes, WriteRole, WriteDelete, WriteProject, WriteSlug, WriteSwitch, Acted,
       SameOrNext
  <2> QED BY <2>1, <2>2 DEF Find, Count, Clash, Refuse, Record, RecordFails, ActFails, ActDies,
             tables, history, SameOrNext
<1> QED BY <1>2, <1>3, <1>4, <1>5 DEF Next

LEMMA ExpireContract ==
  ASSUME WellFormed, Earned, NEW i \in Invites, Expire(i)
  PROVE  /\ Earned' /\ granted' = granted
         /\ \/ standings' = standings
            \/ standings[i] = "open" /\ standings' = [standings EXCEPT ![i] = "lapsed"]
<1>1. invites[i] \in Invite /\ i \leq lastInvite /\ lastInvite \in Nat /\ i \in Nat
  BY DEF Expire, StoredInvite, WellFormed, TypeOK, Ahead, Invites
<1>2. invites' = [invites EXCEPT ![i] = [invites[i] EXCEPT !.expired = TRUE]]
      /\ lastInvite' = lastInvite /\ granted' = granted /\ lastUser' = lastUser
  BY DEF Expire, history
<1>3. [invites[i] EXCEPT !.expired = TRUE] \in Invite
      /\ [invites[i] EXCEPT !.expired = TRUE].accepted = invites[i].accepted
      /\ [invites[i] EXCEPT !.expired = TRUE].expired = TRUE
  BY <1>1 DEF Invite
<1>4. \A j \in Invites : j # i => invites'[j] = invites[j]
  BY <1>2 DEF WellFormed, TypeOK
<1>5. invites'[i] \in Invite /\ invites'[i].accepted = invites[i].accepted /\ invites'[i].expired
  BY <1>2, <1>3 DEF WellFormed, TypeOK
<1>6. Earned'
  BY <1>1, <1>2, <1>4, <1>5, ValueAssumption DEF Earned, StoredInvite
<1>7. \A j \in Invites : j # i => Standing(j)' = Standing(j)
  BY <1>2, <1>4 DEF Standing, StoredInvite
<1>8. ~(lastInvite < i) /\ StoredInvite(i) /\ StoredInvite(i)' /\ ~invites[i].expired
  <2>1. ~(lastInvite < i)
    BY <1>1
  <2>2. StoredInvite(i)'
    BY <1>5, ValueAssumption DEF StoredInvite
  <2> QED BY <2>1, <2>2 DEF Expire
<1>9. CASE invites[i].accepted
  <2>1. Standing(i) = "granted" /\ Standing(i)' = "granted"
    BY <1>2, <1>5, <1>8, <1>9 DEF Standing
  <2> QED BY <1>2, <1>6, <1>7, <2>1 DEF standings
<1>10. CASE ~invites[i].accepted
  <2>1. Standing(i) = "open" /\ Standing(i)' = "lapsed"
    BY <1>2, <1>5, <1>8, <1>10 DEF Standing
  <2>2. standings[i] = "open"
    BY <2>1 DEF standings
  <2> QED BY <1>2, <1>6, <1>7, <2>1, <2>2, StandingMoves
<1> QED BY <1>9, <1>10

LEMMA ClaimContract ==
  ASSUME WellFormed, Earned, NEW q \in joins, Claim(q)
  PROVE  /\ Earned'
         /\ \/ standings' = standings /\ granted' = granted
            \/ \E i \in Invites, a \in Ids :
                 /\ standings[i] = "open" /\ standings' = [standings EXCEPT ![i] = "granted"]
                 /\ \A j \in Invites : a \notin granted[j]
                 /\ granted' = [granted EXCEPT ![i] = {a}]
<1> DEFINE i == q.token
           a == lastUser + 1
<1>1. i \in Invites
  BY DEF Claim, WellFormed, JoinOK
<1>2. CASE ~Claimable(i) \/ Taken(q.email)
  <2>1. UNCHANGED <<invites, lastInvite, granted, lastUser>>
    BY <1>2 DEF Claim, RolledBack
  <2> QED BY <2>1, SameStandings DEF Earned, StoredInvite
<1>3. CASE Claimable(i) /\ ~Taken(q.email)
  <2>1. /\ lastUser < MaxUsers /\ lastUser' = a /\ lastInvite' = lastInvite
        /\ invites' = [invites EXCEPT ![i] = [invites[i] EXCEPT !.accepted = TRUE]]
        /\ granted' = [granted EXCEPT ![i] = granted[i] \cup {a}]
    BY <1>3 DEF Claim, CreateUser
  <2>2. invites[i] \in Invite /\ i \leq lastInvite /\ lastInvite \in Nat /\ i \in Nat
        /\ ~invites[i].accepted /\ ~invites[i].expired
    BY <1>1, <1>3 DEF Claimable, Redeemable, StoredInvite, WellFormed, TypeOK, Ahead, Invites
  <2>3. a \in Ids /\ lastUser \in Nat
    BY <2>1, SizeAssumption DEF WellFormed, TypeOK, Ids
  <2>4. invites'[i] \in Invite /\ invites'[i].accepted
    BY <1>1, <2>1, <2>2 DEF WellFormed, TypeOK, Invite
  <2>5. \A j \in Invites : j # i => invites'[j] = invites[j] /\ granted'[j] = granted[j]
    BY <2>1 DEF WellFormed, TypeOK
  <2>6. StoredInvite(i) /\ StoredInvite(i)' /\ ~(lastInvite < i)
    BY <2>2, <2>4, ValueAssumption DEF StoredInvite
  <2>7. granted[i] = {} /\ granted'[i] = {a}
    BY <1>1, <2>1, <2>2, <2>6 DEF Earned, WellFormed, TypeOK
  <2>8. \A j \in Invites : a \notin granted[j]
    BY <2>3 DEF Earned
  <2>9. Earned'
    <3>1. ASSUME NEW j \in Invites
          PROVE  (/\ StoredInvite(j) /\ ~invites[j].accepted => granted[j] = {}
                  /\ lastInvite < j => granted[j] = {}
                  /\ \A b \in granted[j] : b \leq lastUser)'
      <4>1. CASE j = i
        BY <2>1, <2>3, <2>4, <2>6, <2>7, <4>1
      <4>2. CASE j # i
        <5>1. \A b \in granted[j] : b \leq lastUser'
          BY <2>1, <2>3 DEF Earned, WellFormed, TypeOK, Ids
        <5> QED BY <2>1, <2>5, <4>2, <5>1 DEF Earned, StoredInvite
      <4> QED BY <4>1, <4>2
    <3> QED BY <3>1 DEF Earned
  <2>10. Standing(i) = "open" /\ Standing(i)' = "granted"
    BY <2>1, <2>2, <2>4, <2>6 DEF Standing
  <2>11. \A j \in Invites : j # i => Standing(j)' = Standing(j)
    BY <2>1, <2>5 DEF Standing, StoredInvite
  <2>12. standings[i] = "open" /\ standings' = [standings EXCEPT ![i] = "granted"]
    BY <1>1, <2>10, <2>11, StandingMoves DEF standings
  <2>13. granted' = [granted EXCEPT ![i] = {a}]
    BY <2>1, <2>7
  <2> QED BY <1>1, <2>3, <2>8, <2>9, <2>12, <2>13
<1> QED BY <1>2, <1>3

LEMMA IssueContract ==
  ASSUME WellFormed, Earned, NEW q \in acts, WriteInvite(q)
  PROVE  /\ Earned' /\ granted' = granted
         /\ \E i \in Invites : /\ standings[i] = "unissued"
                               /\ standings' = [standings EXCEPT ![i] = "open"]
<1>0. PICK i \in Invites : i = lastInvite + 1
  BY SizeAssumption DEF WriteInvite, WellFormed, TypeOK, Invites
<1> DEFINE row == [email |-> q.email, role |-> q.role, project |-> q.project, by |-> q.actor,
                   accepted |-> FALSE, expired |-> FALSE]
<1>1. /\ invites' = [invites EXCEPT ![i] = row] /\ lastInvite' = i
      /\ granted' = granted /\ lastUser' = lastUser
  BY <1>0 DEF WriteInvite, Acted
<1>2. lastInvite \in Nat /\ i \in Nat /\ lastInvite < i /\ ~(lastInvite' < i)
  BY <1>0, <1>1 DEF WellFormed, TypeOK
<1>3. row \in Invite /\ row # NoRow /\ ~row.accepted /\ ~row.expired
  <2>1. q.email \in Emails /\ q \in Act
    BY DEF WriteInvite, WellFormed, TypeOK, ActOK
  <2>2. q.role \in Roles /\ q.project \in Projects /\ q.actor \in Ids
    BY <2>1 DEF Act
  <2>3. row \in Invite
    BY <2>1, <2>2 DEF Invite
  <2> QED BY <2>3, ValueAssumption
<1> HIDE DEF row
<1>4. invites'[i] = row /\ StoredInvite(i)' /\ ~invites'[i].accepted /\ ~invites'[i].expired
  BY <1>1, <1>2, <1>3 DEF WellFormed, TypeOK, StoredInvite
<1>5. \A j \in Invites : j # i => invites'[j] = invites[j] /\ (lastInvite' < j <=> lastInvite < j)
  BY <1>0, <1>1, <1>2 DEF WellFormed, TypeOK, Invites
<1>6. Earned'
  <2>1. ASSUME NEW j \in Invites
        PROVE  (/\ StoredInvite(j) /\ ~invites[j].accepted => granted[j] = {}
                /\ lastInvite < j => granted[j] = {}
                /\ \A b \in granted[j] : b \leq lastUser)'
    <3>1. CASE j = i
      BY <1>1, <1>2, <3>1 DEF Earned
    <3>2. CASE j # i
      BY <1>1, <1>5, <3>2 DEF Earned, StoredInvite
    <3> QED BY <3>1, <3>2
  <2> QED BY <2>1 DEF Earned
<1>7. Standing(i) = "unissued" /\ Standing(i)' = "open"
  BY <1>1, <1>2, <1>4 DEF Standing
<1>8. \A j \in Invites : j # i => Standing(j)' = Standing(j)
  BY <1>5 DEF Standing, StoredInvite
<1>9. standings[i] = "unissued" /\ standings' = [standings EXCEPT ![i] = "open"]
  BY <1>2, <1>7, <1>8, StandingMoves DEF standings
<1> QED BY <1>1, <1>2, <1>6, <1>9

LEMMA RevokeContract ==
  ASSUME WellFormed, Earned, NEW q \in acts, WriteRevoke(q)
  PROVE  /\ Earned' /\ granted' = granted
         /\ \E i \in Invites : /\ standings[i] \in {"open", "lapsed", "granted"}
                               /\ standings' = [standings EXCEPT ![i] = "revoked"]
<1> DEFINE i == q.target
<1>1. /\ invites' = [invites EXCEPT ![i] = NoRow] /\ lastInvite' = lastInvite
      /\ granted' = granted /\ lastUser' = lastUser
  BY DEF WriteRevoke, Acted
<1>2. i \in Invites /\ StoredInvite(i) /\ ~(lastInvite < i)
  BY DEF WriteRevoke, Revocable, WellFormed, TypeOK, Ahead, ActOK, Invites
<1>3. ~StoredInvite(i)' /\ \A j \in Invites : j # i => invites'[j] = invites[j]
  BY <1>1, <1>2 DEF WellFormed, TypeOK, StoredInvite
<1>4. Earned'
  BY <1>1, <1>3 DEF Earned, StoredInvite
<1>5. Standing(i) \in {"open", "lapsed", "granted"} /\ Standing(i)' = "revoked"
  BY <1>1, <1>2, <1>3 DEF Standing
<1>6. \A j \in Invites : j # i => Standing(j)' = Standing(j)
  BY <1>1, <1>3 DEF Standing, StoredInvite
<1>7. standings[i] \in {"open", "lapsed", "granted"}
      /\ standings' = [standings EXCEPT ![i] = "revoked"]
  BY <1>2, <1>5, <1>6, StandingMoves DEF standings
<1> QED BY <1>1, <1>2, <1>4, <1>7

(* Accounts implements the contract of an invite: every step of a request  *)
(* or of the clock is a step of the contract or leaves the invites alone.  *)
THEOREM InvitesKeepContract == Spec => KeepsContract
<1> DEFINE Inv == WellFormed /\ Earned
<1>1. Init => Inv
  <2> SUFFICES ASSUME Init PROVE Earned
    BY InitWellFormed
  <2> QED BY DEF Init, Earned
<1>2. Init => Contract!Init
  <2> SUFFICES ASSUME Init PROVE Contract!Init
    OBVIOUS
  <2>1. \A i \in Invites : 0 < i
    BY DEF Invites
  <2> QED BY <2>1 DEF Init, Contract!Init, Standing
<1>3. Inv /\ [Next]_vars => Inv' /\ [Contract!Next]_<<standings, granted>>
  <2> SUFFICES ASSUME Inv, [Next]_vars
               PROVE  Earned' /\ [Contract!Next]_<<standings, granted>>
    BY StepWellFormed
  <2>1. CASE \E i \in Invites : Expire(i)
    BY <2>1, ExpireContract DEF Contract!Next, Contract!Lapse, Contract!Move, standings
  <2>2. CASE \E q \in joins : Claim(q)
    BY <2>2, ClaimContract DEF Contract!Next, Contract!Grant, Contract!Move, standings
  <2>3. CASE \E q \in acts : WriteInvite(q)
    BY <2>3, IssueContract DEF Contract!Next, Contract!Issue, Contract!Move, standings
  <2>4. CASE \E q \in acts : WriteRevoke(q)
    BY <2>4, RevokeContract DEF Contract!Next, Contract!Revoke, Contract!Move, standings
  <2>5. CASE UNCHANGED <<invites, lastInvite, granted>> /\ SameOrNext
    <3>1. Earned'
      <4>1. \A i \in Invites : \A a \in granted[i] : a \in Nat
        BY DEF WellFormed, TypeOK, Ids
      <4>2. lastUser \in Nat
        BY DEF WellFormed, TypeOK
      <4> QED BY <2>5, <4>1, <4>2 DEF Earned, StoredInvite, SameOrNext
    <3> QED BY <2>5, <3>1, SameStandings
  <2> QED BY <2>1, <2>2, <2>3, <2>4, <2>5, InviteSteps
<1> HIDE DEF Inv
<1> QED BY <1>1, <1>2, <1>3, PTL DEF Spec, KeepsContract, Contract!Spec, standings
-----------------------------------------------------------------------------
(* A step brings a new call, which starts where its kind starts, or moves  *)
(* one that was there.                                                     *)
LEMMA CallsMove ==
  ASSUME WellFormed, [Next]_vars, NEW p \in acts'
  PROVE  \/ p \in acts
         \/ p.at = Starts(p.kind)
         \/ \E q \in acts, at \in {"count", "clash", "write", "audit"} :
              /\ p = [q EXCEPT !.at = at]
              /\ q.at = "find" => Find(q)
<1>1. CASE UNCHANGED vars \/ Joining
  BY <1>1 DEF vars, Joining, Register, Redeem, Expire, Gate, FindInvite, FindEmail, InsertUser,
     Claim, JoinFails
<1>2. CASE Calling
  <2>1. ASSUME NEW kind, NEW a, NEW target, NEW role, NEW email, NEW slug,
               Call(kind, a, target, role, email, slug)
        PROVE  p \in acts \/ p.at = Starts(p.kind)
    BY <2>1 DEF Call
  <2> QED BY <1>2, <2>1 DEF Calling, CallRole, CallDelete, CallInvite, CallRevoke, CallProject,
             CallSlug, CallSwitch
<1>3. CASE Acting
  <2>1. PICK q \in acts : \/ Find(q) \/ Count(q) \/ Clash(q) \/ Writes(q) \/ Refuse(q)
                          \/ Record(q) \/ RecordFails(q) \/ ActFails(q) \/ ActDies(q)
    BY <1>3 DEF Acting
  <2>2. CASE Find(q)
    <3>1. \E at \in {"count", "clash", "write"} : EndAct(q) \/ Continue(q, at)
      <4>1. q.kind \in {"role", "delete", "slug", "switch"}
        BY <2>2 DEF Find, WellFormed, ActOK
      <4>2. CASE q.kind \in {"role", "delete"}
        BY <2>2, <4>2 DEF Find
      <4>3. CASE q.kind = "slug"
        BY <2>2, <4>3 DEF Find
      <4>4. CASE q.kind = "switch"
        BY <2>2, <4>4 DEF Find
      <4> QED BY <4>1, <4>2, <4>3, <4>4
    <3> QED BY <2>2, <3>1 DEF EndAct, Continue
  <2>3. CASE Count(q)
    BY <2>3 DEF Count, EndAct, Continue
  <2>4. CASE Clash(q)
    BY <2>4 DEF Clash, EndAct, Continue
  <2>5. CASE Writes(q)
    <3>1. Acted(q)
      BY <2>5 DEF Writes, WriteRole, WriteDelete, WriteInvite, WriteRevoke, WriteProject,
         WriteSlug, WriteSwitch
    <3> QED BY <3>1 DEF Acted, Continue
  <2> QED BY <2>1, <2>2, <2>3, <2>4, <2>5
          DEF Refuse, Record, RecordFails, ActFails, ActDies, EndAct
<1> QED BY <1>1, <1>2, <1>3 DEF Next

(* Past the check, nobody demotes or deletes themselves.                   *)
Oneself(q) == q.kind \in {"role", "delete"} /\ q.target = q.actor
NotOneself ==
  \A q \in acts : q.at # "find" /\ Oneself(q) => q.kind = "role" /\ q.role = "admin"

LEMMA NotOneselfStays == WellFormed /\ NotOneself /\ [Next]_vars => NotOneself'
<1> SUFFICES ASSUME WellFormed, NotOneself, [Next]_vars, NEW p \in acts', p.at # "find",
                    Oneself(p)
             PROVE  p.kind = "role" /\ p.role = "admin"
  BY DEF NotOneself
<1>1. CASE p \in acts
  BY <1>1 DEF NotOneself
<1>2. CASE p.at = Starts(p.kind)
  BY <1>2 DEF Starts, Oneself
<1>3. ASSUME NEW q \in acts, NEW at \in {"count", "clash", "write", "audit"},
             p = [q EXCEPT !.at = at], q.at = "find" => Find(q)
      PROVE  p.kind = "role" /\ p.role = "admin"
  <2>1. q \in Act
    BY DEF WellFormed, TypeOK
  <2>2. p.kind = q.kind /\ p.target = q.target /\ p.actor = q.actor /\ p.role = q.role
    BY <1>3, <2>1, ActMoves
  <2>3. CASE q.at # "find"
    BY <2>2, <2>3 DEF NotOneself, Oneself
  <2>4. CASE q.at = "find" /\ Allows(q)
    BY <2>2, <2>4 DEF Allows, Oneself
  <2>5. CASE q.at = "find" /\ ~Allows(q)
    <3>1. q.kind \in {"role", "delete"} /\ Find(q)
      BY <1>3, <2>2, <2>5 DEF Oneself
    <3>2. EndAct(q)
      BY <2>5, <3>1 DEF Find
    <3> QED BY <1>1, <3>2 DEF EndAct
  <2> QED BY <2>3, <2>4, <2>5
<1> QED BY <1>1, <1>2, <1>3, CallsMove

(* Whose role or row changes is not who changes it: AdminRemains.          *)
THEOREM AdminStays == Spec => AdminRemains
<1> DEFINE Inv == WellFormed /\ NotOneself
           Kept == SomeAdmin /\ ~outlived' => SomeAdmin'
<1>1. Init => Inv
  BY InitWellFormed DEF Init, NotOneself
<1>2. Inv /\ [Next]_vars => Inv'
  BY StepWellFormed, NotOneselfStays
<1>3. Inv /\ [Next]_vars => [Kept]_vars
  <2> SUFFICES ASSUME Inv, [Next]_vars, SomeAdmin, ~outlived' PROVE SomeAdmin'
    OBVIOUS
  <2>1. PICK u \in Ids : IsAdmin(u)
    BY DEF SomeAdmin
  <2>2. CASE users' = users
    BY <2>1, <2>2 DEF SomeAdmin, IsAdmin, Stored
  <2>3. ASSUME NEW q \in joins, InsertUser(q) \/ Claim(q), users' # users
        PROVE  SomeAdmin'
    <3>1. PICK new : lastUser' = lastUser + 1 /\ users' = [users EXCEPT ![lastUser + 1] = new]
      BY <2>3 DEF InsertUser, Claim, CreateUser, RolledBack
    <3>2. u # lastUser + 1
      BY <2>1 DEF IsAdmin, WellFormed, TypeOK, Ahead
    <3>3. users'[u] = users[u]
      BY <3>1, <3>2 DEF WellFormed, TypeOK
    <3> QED BY <2>1, <3>3 DEF SomeAdmin, IsAdmin, Stored
  <2>4. ASSUME NEW q \in acts, Writes(q), users' # users
        PROVE  SomeAdmin'
    <3>1. Acted(q) /\ q \in Act /\ q.at = "write"
      BY <2>4 DEF Writes, WriteRole, WriteDelete, WriteInvite, WriteRevoke, WriteProject,
         WriteSlug, WriteSwitch, Acted, WellFormed, TypeOK
    <3>2. IsAdmin(q.actor) /\ q.actor \in Ids
      BY <3>1 DEF Acted, Act
    <3>3. CASE WriteRole(q) \/ WriteDelete(q)
      <4>1. PICK row : users' = [users EXCEPT ![q.target] = row]
        BY <3>3 DEF WriteRole, WriteDelete
      <4>2. CASE q.target # q.actor
        <5>1. users'[q.actor] = users[q.actor]
          BY <3>2, <4>1, <4>2 DEF WellFormed, TypeOK
        <5> QED BY <3>2, <5>1 DEF SomeAdmin, IsAdmin, Stored
      <4>3. CASE q.target = q.actor
        <5>1. q.kind = "role" /\ q.role = "admin" /\ WriteRole(q)
          BY <3>1, <3>3, <4>3 DEF NotOneself, Oneself, WriteRole, WriteDelete
        <5>2. users[q.actor] \in User
          BY <3>2 DEF IsAdmin, Stored, WellFormed, TypeOK
        <5>3. users'[q.actor] = [users[q.actor] EXCEPT !.role = "admin"]
          BY <3>2, <4>3, <5>1 DEF WriteRole, WellFormed, TypeOK
        <5>4. users'[q.actor] \in User /\ users'[q.actor].role = "admin"
          BY <5>2, <5>3 DEF User, Roles
        <5> QED BY <3>2, <5>4, ValueAssumption DEF SomeAdmin, IsAdmin, Stored
      <4> QED BY <4>2, <4>3
    <3>4. CASE WriteSwitch(q)
      <4>1. users[q.actor] \in User
        BY <3>2 DEF IsAdmin, Stored, WellFormed, TypeOK
      <4>2. users'[q.actor] = [users[q.actor] EXCEPT !.project = q.target]
        BY <3>2, <3>4 DEF WriteSwitch, WellFormed, TypeOK
      <4>3. q.target \in Projects
        BY <3>4 DEF WriteSwitch, WellFormed, ActOK
      <4>4. users'[q.actor] \in User /\ users'[q.actor].role = users[q.actor].role
        BY <4>1, <4>2, <4>3 DEF User
      <4> QED BY <3>2, <4>4, ValueAssumption DEF SomeAdmin, IsAdmin, Stored
    <3> QED BY <2>4, <3>3, <3>4 DEF Writes, WriteInvite, WriteRevoke, WriteProject, WriteSlug
  <2>5. ASSUME Next, users' # users
        PROVE  \/ \E q \in joins : InsertUser(q) \/ Claim(q)
               \/ \E q \in acts : Writes(q)
    BY <2>5 DEF Next, Joining, Register, Redeem, Expire, Gate, FindInvite, FindEmail, JoinFails,
       Calling, CallRole, CallDelete, CallInvite, CallRevoke, CallProject, CallSlug, CallSwitch,
       Call, Acting, Find, Count, Clash, Refuse, Record, RecordFails, ActFails, ActDies, tables
  <2> QED BY <2>2, <2>3, <2>4, <2>5 DEF vars, tables
<1> HIDE DEF Inv
<1>4. Inv /\ [][Next]_vars => [][Kept]_vars
  BY <1>2, <1>3, PTL
<1> QED BY <1>1, <1>2, <1>4, PTL DEF Spec, AdminRemains
-----------------------------------------------------------------------------
(* Requests have numbers of their own; one has done something just when it *)
(* is waiting for its row, and then is not answered unless without a body. *)
Numbered ==
  /\ \A q \in acts : q.op \leq lastOp
  /\ \A p, q \in acts : p.op = q.op => p = q
  /\ \A op \in done \cup answered : op \leq lastOp
  /\ \A q \in acts : q.at # "audit" => q.op \notin done \cup answered
  /\ \A q \in acts : q.at = "audit" =>
       q.op \in done /\ (q.op \in answered => q.kind \in Bodiless)
Audited == Numbered /\ DoneIsRecorded

LEMMA CallAudited ==
  ASSUME WellFormed, Audited, Calling
  PROVE  Audited'
<1>1. PICK q : /\ q.op = lastOp + 1 /\ q.at # "audit" /\ acts' = acts \cup {q}
               /\ lastOp' = lastOp + 1
               /\ UNCHANGED <<audit, done, answered, unaudited, died>>
  <2>1. ASSUME NEW kind, NEW a, NEW target, NEW role, NEW email, NEW slug,
               Call(kind, a, target, role, email, slug)
        PROVE  \E q : /\ q.op = lastOp + 1 /\ q.at # "audit" /\ acts' = acts \cup {q}
                      /\ lastOp' = lastOp + 1
                      /\ UNCHANGED <<audit, done, answered, unaudited, died>>
    <3> DEFINE q == [op |-> lastOp + 1, kind |-> kind, at |-> Starts(kind), actor |-> a,
                     project |-> users[a].project, target |-> target, role |-> role,
                     email |-> email, slug |-> slug]
    <3>1. q.op = lastOp + 1 /\ q.at # "audit"
      BY DEF Starts
    <3>2. acts' = acts \cup {q} /\ lastOp' = lastOp + 1
          /\ UNCHANGED <<audit, done, answered, unaudited, died>>
      BY <2>1 DEF Call, history
    <3> QED BY <3>1, <3>2
  <2> QED BY <2>1 DEF Calling, CallRole, CallDelete, CallInvite, CallRevoke, CallProject,
             CallSlug, CallSwitch
<1>2. lastOp \in Nat /\ \A p \in acts : p.op \in Nat
  BY DEF WellFormed, TypeOK, Act
<1>3. done \subseteq Nat /\ answered \subseteq Nat
  BY DEF WellFormed, TypeOK
<1>4. \A p \in acts : p.op # q.op
  BY <1>1, <1>2 DEF Audited, Numbered
<1>5. q.op \notin done \cup answered
  BY <1>1, <1>2, <1>3 DEF Audited, Numbered
<1>6. Numbered'
  BY <1>1, <1>2, <1>3, <1>4, <1>5 DEF Audited, Numbered
<1>7. DoneIsRecorded'
  BY <1>1 DEF Audited, DoneIsRecorded, Held, Recorded
<1> QED BY <1>6, <1>7 DEF Audited

(* A call that has done nothing goes on or ends.                           *)
LEMMA IdleAudited ==
  ASSUME WellFormed, Audited, NEW q \in acts, q.at # "audit",
         NEW at \in {"count", "clash", "write"}, EndAct(q) \/ Continue(q, at),
         UNCHANGED <<audit, lastOp, done, answered, unaudited>>, died \subseteq died'
  PROVE  Audited'
<1> DEFINE p == [q EXCEPT !.at = at]
<1>1. p.op = q.op /\ p.at # "audit" /\ q.op \notin done \cup answered
  BY ActMoves DEF WellFormed, TypeOK, Audited, Numbered
<1>2. acts' \subseteq (acts \ {q}) \cup {p} /\ acts \ {q} \subseteq acts'
  BY DEF EndAct, Continue
<1> HIDE DEF p
<1>3. Numbered'
  BY <1>1, <1>2 DEF Audited, Numbered
<1>4. ASSUME NEW op \in done PROVE Held(op)' \/ Recorded(op)'
  <2>1. op # q.op
    BY <1>1, <1>4
  <2>2. Held(op) \/ Recorded(op)
    BY <1>4 DEF Audited, DoneIsRecorded
  <2> QED BY <1>2, <2>1, <2>2 DEF Held, Recorded
<1>5. DoneIsRecorded'
  BY <1>4 DEF Audited, DoneIsRecorded
<1> QED BY <1>3, <1>5 DEF Audited

LEMMA WritesAudited ==
  ASSUME WellFormed, Audited, NEW q \in acts, Writes(q)
  PROVE  Audited'
<1> DEFINE p == [q EXCEPT !.at = "audit"]
           ops == {a.op : a \in audit}
<1>1. Acted(q) /\ q.at = "write"
  BY DEF Writes, WriteRole, WriteDelete, WriteInvite, WriteRevoke, WriteProject, WriteSlug,
     WriteSwitch, Acted
<1>2. {a.op : a \in audit'} = ops
  <2>1. CASE audit' = audit
    BY <2>1
  <2>2. CASE audit' = Forgotten(q.target)
    <3>1. \A a \in audit : [a EXCEPT !.actor = Null].op = a.op
      BY DEF WellFormed, TypeOK
    <3> QED BY <2>2, <3>1 DEF Forgotten
  <2> QED BY <2>1, <2>2 DEF Writes, WriteRole, WriteDelete, WriteInvite, WriteRevoke,
             WriteProject, WriteSlug, WriteSwitch
<1>3. p.op = q.op /\ p.at = "audit" /\ p.kind = q.kind
  BY ActMoves DEF WellFormed, TypeOK
<1>4. acts' = (acts \ {q}) \cup {p} /\ done' = done \cup {q.op} /\ answered' = Answered(q)
      /\ UNCHANGED <<lastOp, unaudited, died>>
  BY <1>1 DEF Acted, Continue
<1>5. q.op \notin done \cup answered
  BY <1>1 DEF Audited, Numbered
<1> HIDE DEF p
<1>6. answered' \subseteq answered \cup {q.op} /\ (q.op \in answered' => q.kind \in Bodiless)
      /\ answered \subseteq answered'
  BY <1>4, <1>5 DEF Answered
<1>7. Numbered'
  BY <1>3, <1>4, <1>5, <1>6 DEF Audited, Numbered
<1>8. ASSUME NEW op \in done' PROVE Held(op)' \/ Recorded(op)'
  <2>1. CASE op = q.op
    BY <1>3, <1>4, <1>6, <2>1 DEF Held
  <2>2. CASE op # q.op
    <3>1. op \in done /\ (op \in answered' => op \in answered)
      BY <1>4, <1>6, <1>8, <2>2
    <3>2. Held(op) \/ Recorded(op)
      BY <3>1 DEF Audited, DoneIsRecorded
    <3>3. CASE Held(op)
      BY <1>4, <2>2, <3>1, <3>3 DEF Held
    <3>4. CASE Recorded(op)
      BY <1>2, <1>4, <3>4 DEF Recorded
    <3> QED BY <3>2, <3>3, <3>4
  <2> QED BY <2>1, <2>2
<1>9. ASSUME NEW a \in audit' PROVE a.op \in done'
  <2>1. PICK b \in audit : b.op = a.op
    BY <1>2
  <2> QED BY <1>4, <2>1 DEF Audited, DoneIsRecorded
<1> QED BY <1>7, <1>8, <1>9 DEF Audited, DoneIsRecorded

LEMMA RecordAudited ==
  ASSUME WellFormed, Audited, NEW q \in acts, Record(q) \/ RecordFails(q)
  PROVE  Audited'
<1>1. q.at = "audit" /\ acts' = acts \ {q} /\ answered' = answered \cup {q.op}
      /\ UNCHANGED <<lastOp, done, died>>
      /\ unaudited \subseteq unaudited' /\ audit \subseteq audit'
  BY DEF Record, RecordFails, EndAct
<1>2. Recorded(q.op)' /\ \A a \in audit' : a \in audit \/ a.op = q.op
  <2> DEFINE row == [op |-> q.op, actor |-> q.actor]
  <2>1. ASSUME Record(q) PROVE audit' = audit \cup {row} /\ row.op = q.op
    BY <2>1 DEF Record
  <2>2. ASSUME RecordFails(q) PROVE audit' = audit /\ q.op \in unaudited'
    BY <2>2 DEF RecordFails
  <2> HIDE DEF row
  <2> QED BY <2>1, <2>2 DEF Recorded
<1>3. q.op \in done /\ \A p \in acts' : p.op # q.op
  BY <1>1 DEF Audited, Numbered
<1>4. Numbered'
  BY <1>1, <1>3 DEF Audited, Numbered
<1>5. ASSUME NEW op \in done' PROVE Held(op)' \/ Recorded(op)'
  <2>1. CASE op = q.op
    BY <1>2, <2>1
  <2>2. CASE op # q.op
    <3>1. Held(op) \/ Recorded(op)
      BY <1>1, <1>5 DEF Audited, DoneIsRecorded
    <3> QED BY <1>1, <2>2, <3>1 DEF Held, Recorded
  <2> QED BY <2>1, <2>2
<1>6. \A a \in audit' : a.op \in done'
  BY <1>1, <1>2, <1>3 DEF Audited, DoneIsRecorded
<1> QED BY <1>4, <1>5, <1>6 DEF Audited, DoneIsRecorded

(* The process dies with a call: what it has done is excused.              *)
LEMMA DiesAudited ==
  ASSUME WellFormed, Audited, NEW q \in acts, ActDies(q)
  PROVE  Audited'
<1>1. acts' = acts \ {q} /\ died' = died \cup {q.op}
      /\ UNCHANGED <<audit, lastOp, done, answered, unaudited>>
  BY DEF ActDies, EndAct
<1>2. Numbered'
  BY <1>1 DEF Audited, Numbered
<1>3. ASSUME NEW op \in done' PROVE Held(op)' \/ Recorded(op)'
  <2>1. Held(op) \/ Recorded(op)
    BY <1>1, <1>3 DEF Audited, DoneIsRecorded
  <2> QED BY <1>1, <2>1 DEF Held, Recorded
<1> QED BY <1>1, <1>2, <1>3 DEF Audited, DoneIsRecorded

(* Who was answered with a body finds the row, and what is recorded was    *)
(* done: DoneIsRecorded.                                                   *)
THEOREM TrailIsComplete == Spec => []DoneIsRecorded
<1> DEFINE Inv == WellFormed /\ Audited
<1>1. Init => Inv
  <2> SUFFICES ASSUME Init PROVE Audited
    BY InitWellFormed
  <2> QED BY DEF Init, Audited, Numbered, DoneIsRecorded
<1>2. Inv /\ [Next]_vars => Inv'
  <2> SUFFICES ASSUME Inv, [Next]_vars PROVE Audited'
    BY StepWellFormed
  <2>1. CASE UNCHANGED <<acts, audit, lastOp, done, answered, unaudited, died>>
    BY <2>1 DEF Audited, Numbered, DoneIsRecorded, Held, Recorded
  <2>2. ASSUME UNCHANGED <<acts, audit, done, answered, unaudited, died>>, lastOp' = lastOp + 1
        PROVE  Audited'
    <3>1. lastOp \in Nat /\ (\A q \in acts : q.op \in Nat)
          /\ done \subseteq Nat /\ answered \subseteq Nat
      BY DEF WellFormed, TypeOK, Act
    <3> QED BY <2>2, <3>1 DEF Audited, Numbered, DoneIsRecorded, Held, Recorded
  <2>3. CASE Joining
    BY <2>1, <2>2, <2>3 DEF Joining, Register, Redeem, Expire, Gate, FindInvite, FindEmail,
       InsertUser, Claim, JoinFails, history
  <2>4. CASE Acting
    <3>1. PICK q \in acts : \/ Find(q) \/ Count(q) \/ Clash(q) \/ Writes(q) \/ Refuse(q)
                            \/ Record(q) \/ RecordFails(q) \/ ActFails(q) \/ ActDies(q)
      BY <2>4 DEF Acting
    <3>2. CASE Find(q)
      <4>1. \E at \in {"count", "clash", "write"} : EndAct(q) \/ Continue(q, at)
        <5>1. q.kind \in {"role", "delete", "slug", "switch"}
          BY <3>2 DEF Find, WellFormed, ActOK
        <5>2. CASE q.kind \in {"role", "delete"}
          BY <3>2, <5>2 DEF Find
        <5>3. CASE q.kind = "slug"
          BY <3>2, <5>3 DEF Find
        <5>4. CASE q.kind = "switch"
          BY <3>2, <5>4 DEF Find
        <5> QED BY <5>1, <5>2, <5>3, <5>4
      <4>2. q.at # "audit" /\ UNCHANGED <<audit, lastOp, done, answered, unaudited, died>>
        BY <3>2 DEF Find, history
      <4> QED BY <4>1, <4>2, IdleAudited
    <3>3. CASE Count(q) \/ Clash(q) \/ Refuse(q) \/ ActFails(q)
      <4>1. q.at # "audit" /\ UNCHANGED <<audit, lastOp, done, answered, unaudited, died>>
            /\ \E at \in {"count", "clash", "write"} : EndAct(q) \/ Continue(q, at)
        BY <3>3 DEF Count, Clash, Refuse, ActFails, history
      <4> QED BY <4>1, IdleAudited
    <3> QED BY <3>1, <3>2, <3>3, WritesAudited, RecordAudited, DiesAudited
  <2> QED BY <2>1, <2>3, <2>4, CallAudited DEF Next, vars, history
<1>3. Inv => DoneIsRecorded
  BY DEF Audited
<1> QED BY <1>1, <1>2, <1>3, PTL DEF Spec
=============================================================================
