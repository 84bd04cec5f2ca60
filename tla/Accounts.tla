------------------------------ MODULE Accounts ------------------------------
(***************************************************************************)
(* Who may use the system: routes/auth.js behind                           *)
(* middleware/registrationGate.js, routes/invites.js, routes/users.js and  *)
(* routes/projects.js, each call of an administrator with the row that     *)
(* middleware/withAudit.js writes about it.                                *)
(*                                                                         *)
(* An action is one statement of a request; the transaction of a redeem is *)
(* a single action, because its first statement locks the invite.  Tokens  *)
(* are named by the user or the invite they were issued for: what a token  *)
(* says about the role is never read (middleware/auth.js reads the row).   *)
(***************************************************************************)
EXTENDS Integers, FiniteSets

CONSTANTS
  Emails, AdminEmails,  \* ADMIN_EMAILS is a part of them
  MaxUsers, MaxInvites, MaxProjects,  \* ids the sequences can hand out
  Slugs,
  GivenRoles,           \* roles that are asked for
  Scenarios,            \* REGISTRATION_MODE, the users the system starts with, and
                        \* how often each kind of event may happen: one is taken
  NoRow                 \* no row has this id

Ids == 1..MaxUsers
Invites == 1..MaxInvites
Projects == 1..MaxProjects
Null == 0
Roles == {"admin", "editor", "viewer"}

User == [email : Emails, role : Roles, project : Projects]
Invite == [email : Emails, role : Roles, project : Projects, by : Ids,
           accepted : BOOLEAN, expired : BOOLEAN]

(* A registration or a redeem: the email of the body or of the invite, the *)
(* token sent, the email of the invite the gate has found.                 *)
Joins == {"register", "redeem"}
Join == [op : Nat, kind : Joins, at : {"gate", "invite", "email", "insert"},
         email : Emails \cup {Null}, token : Invites \cup {Null},
         invitee : Emails \cup {Null}]

(* A call of an administrator: who it was when requireAuth read the row    *)
(* (actor and project), the id in its path and what its body asks for.     *)
Acts == {"role", "delete", "invite", "revoke", "project", "slug", "switch"}
Act == [op : Nat, kind : Acts, at : {"find", "count", "clash", "write", "audit"},
        actor : Ids, project : Projects, target : Nat, role : Roles,
        email : Emails \cup {Null}, slug : Slugs \cup {NoRow}]

(* Each kind is bounded by itself, and "any" bounds their sum.             *)
Events == Acts \cup Joins \cup {"expire", "fault", "crash", "any"}

ASSUME SizeAssumption ==
  MaxUsers \in Nat /\ MaxInvites \in Nat /\ MaxProjects \in Nat \ {0}
ASSUME ValueAssumption ==
  /\ AdminEmails \subseteq Emails /\ Null \notin Emails /\ GivenRoles \subseteq Roles
  /\ NoRow \notin User /\ NoRow \notin Invite /\ NoRow \notin Slugs
ASSUME ScenarioAssumption ==
  \A s \in Scenarios :
    /\ s.mode \in {"open", "invite"}
    /\ s.users \in [Ids -> User \cup {NoRow}]
    /\ \A u \in Ids : s.users[u] # NoRow => \A w \in 1..u : s.users[w] # NoRow
    /\ \A u, w \in Ids : s.users[u] # NoRow /\ s.users[w] # NoRow
         => /\ s.users[u].email = s.users[w].email => u = w
            /\ s.users[u].project = 1
    /\ s.budget \in [Events -> Nat]

VARIABLES
  mode,      \* REGISTRATION_MODE
  users, invites, projects,           \* the tables; of a project its slug
  lastUser, lastInvite, lastProject,  \* their id sequences
  joins, acts,  \* requests that have not ended
  audit,     \* audit_events, by the request they are about: op and actor_id
  lastOp,    \* to tell requests apart
  left,      \* what is left of the budget taken
  done,      \* history: acts that have changed something
  answered,  \* history: acts that were answered with success
  unaudited, \* history: acts whose row could not be written
  granted,   \* history: the accounts made by redeeming an invite
  welcome,   \* history: the emails that may have an account
  died,      \* history: requests whose process died
  outlived   \* history: an act was carried out after its actor lost the power

tables == <<users, invites, projects, lastUser, lastInvite, lastProject>>
history == <<done, answered, unaudited, granted, welcome, died, outlived>>
vars == <<mode, tables, joins, acts, audit, lastOp, left, history>>
-----------------------------------------------------------------------------
Stored(u) == users[u] # NoRow
StoredInvite(i) == invites[i] # NoRow
IsAdmin(u) == Stored(u) /\ users[u].role = "admin"
Taken(email) == \E u \in Ids : Stored(u) /\ users[u].email = email
Slug(slug) == {p \in Projects : projects[p] = slug}

Spend(what) ==
  /\ left[what] > 0 /\ left["any"] > 0
  /\ left' = [e \in Events |-> IF e \in {what, "any"} THEN left[e] - 1 ELSE left[e]]

(* The migrations insert project 1; how its slug reads is all the same.    *)
Init ==
  /\ \E s \in Scenarios : mode = s.mode /\ users = s.users /\ left = s.budget
  /\ lastUser = Cardinality({u \in Ids : users[u] # NoRow})
  /\ invites = [i \in Invites |-> NoRow] /\ lastInvite = 0
  /\ \E slug \in Slugs : projects = [p \in Projects |-> IF p = 1 THEN slug ELSE NoRow]
  /\ lastProject = 1
  /\ joins = {} /\ acts = {} /\ audit = {} /\ lastOp = 0
  /\ done = {} /\ answered = {} /\ unaudited = {}
  /\ granted = [i \in Invites |-> {}] /\ died = {} /\ outlived = FALSE
  /\ welcome = AdminEmails \cup {users[u].email : u \in {w \in Ids : users[w] # NoRow}}

-----------------------------------------------------------------------------
(* Registrations and redeems.                                              *)

Join_(q, at) == joins' = (joins \ {q}) \cup {[q EXCEPT !.at = at]}
EndJoin(q) == joins' = joins \ {q}

(* POST /auth/register, and POST /invites/redeem with a token that was     *)
(* handed out.                                                             *)
Register(email, token) ==
  /\ token \in 0..lastInvite /\ Spend("register")
  /\ lastOp' = lastOp + 1
  /\ joins' = joins \cup {[op |-> lastOp + 1, kind |-> "register", at |-> "gate",
                           email |-> email, token |-> token, invitee |-> Null]}
  /\ UNCHANGED <<mode, tables, acts, audit, history>>

Redeem(token) ==
  /\ token \in 1..lastInvite /\ Spend("redeem")
  /\ lastOp' = lastOp + 1
  /\ joins' = joins \cup {[op |-> lastOp + 1, kind |-> "redeem", at |-> "invite",
                           email |-> Null, token |-> token, invitee |-> Null]}
  /\ UNCHANGED <<mode, tables, acts, audit, history>>

(* registrationGate: nobody is asked for an invite in open mode, while     *)
(* there are no users, or with an email of ADMIN_EMAILS.                   *)
Gate(q) ==
  /\ q.at = "gate"
  /\ IF mode = "open" \/ q.email \in AdminEmails \/ \A u \in Ids : ~Stored(u)
       THEN Join_(q, "email")
       ELSE IF q.token = Null THEN EndJoin(q) ELSE Join_(q, "invite")
  /\ welcome' = IF \A u \in Ids : ~Stored(u) THEN welcome \cup {q.email} ELSE welcome
  /\ UNCHANGED <<mode, tables, acts, audit, lastOp, left, done, answered, unaudited,
                 granted, died, outlived>>

Redeemable(i) == StoredInvite(i) /\ ~invites[i].accepted /\ ~invites[i].expired

(* The invite must be there, not accepted and not expired.                 *)
FindInvite(q) ==
  /\ q.at = "invite"
  /\ IF Redeemable(q.token)
       THEN LET email == invites[q.token].email
            IN  joins' = (joins \ {q}) \cup
                  {IF q.kind = "redeem"
                   THEN [q EXCEPT !.at = "email", !.email = email]
                   ELSE [q EXCEPT !.at = "email", !.invitee = email]}
       ELSE EndJoin(q)
  /\ UNCHANGED <<mode, tables, acts, audit, lastOp, left, history>>

(* Mutant of Suits: whoever has a token may use it.                        *)
SuitsAnyone(q) == TRUE

(* The email of the invite the gate has found, if any.                     *)
Suits(q) == q.invitee \in {Null, q.email}

FindEmail(q) ==
  /\ q.at = "email"
  /\ IF ~Taken(q.email) /\ Suits(q)
       THEN Join_(q, "insert") ELSE EndJoin(q)
  /\ UNCHANGED <<mode, tables, acts, audit, lastOp, left, history>>

CreateUser(email, role, project) ==
  /\ lastUser < MaxUsers
  /\ lastUser' = lastUser + 1
  /\ users' = [users EXCEPT ![lastUser + 1] =
                  [email |-> email, role |-> role, project |-> project]]

(* The unique index on the email decides.  The invite the gate has seen is *)
(* not stamped.                                                            *)
InsertUser(q) ==
  /\ q.at = "insert" /\ q.kind = "register"
  /\ IF Taken(q.email)
       THEN UNCHANGED <<users, lastUser>>
       ELSE CreateUser(q.email, IF q.email \in AdminEmails THEN "admin" ELSE "editor", 1)
  /\ EndJoin(q)
  /\ UNCHANGED <<mode, invites, projects, lastInvite, lastProject, acts, audit, lastOp, left,
                 history>>

(* The condition of the claim, at the time of the claim.                   *)
Claimable(i) == Redeemable(i)

(* Mutant of RolledBack: the claim commits by itself.                      *)
RolledBackNot(i) == invites' = [invites EXCEPT ![i].accepted = TRUE]

(* A collision on the email takes the claim back.                          *)
RolledBack(i) == UNCHANGED invites

(* The transaction of redeem: claim the invite, create the account.        *)
Claim(q) ==
  LET i == q.token
  IN  /\ q.at = "insert" /\ q.kind = "redeem"
      /\ IF ~Claimable(i) THEN UNCHANGED <<users, lastUser, invites, granted>>
         ELSE IF Taken(q.email)
         THEN RolledBack(i) /\ UNCHANGED <<users, lastUser, granted>>
         ELSE /\ CreateUser(q.email, invites[i].role, invites[i].project)
              /\ invites' = [invites EXCEPT ![i].accepted = TRUE]
              /\ granted' = [granted EXCEPT ![i] = @ \cup {lastUser + 1}]
      /\ EndJoin(q)
      /\ UNCHANGED <<mode, projects, lastInvite, lastProject, acts, audit, lastOp, left,
                     done, answered, unaudited, welcome, died, outlived>>

(* A statement fails, or the process dies.                                 *)
JoinFails(q) ==
  /\ Spend("fault")
  /\ EndJoin(q)
  /\ UNCHANGED <<mode, tables, acts, audit, lastOp, history>>

(* INVITE_TTL_DAYS pass.                                                   *)
Expire(i) ==
  /\ StoredInvite(i) /\ ~invites[i].expired /\ Spend("expire")
  /\ invites' = [invites EXCEPT ![i].expired = TRUE]
  /\ UNCHANGED <<mode, users, projects, lastUser, lastInvite, lastProject, joins, acts, audit,
                 lastOp, history>>

-----------------------------------------------------------------------------
(* Calls of administrators.                                                *)

Starts(kind) ==
  IF kind \in {"role", "delete", "slug", "switch"} THEN "find" ELSE "write"

Call(kind, actor, target, role, email, slug) ==
  /\ IsAdmin(actor) /\ Spend(kind)
  /\ lastOp' = lastOp + 1
  /\ acts' = acts \cup
       {[op |-> lastOp + 1, kind |-> kind, at |-> Starts(kind), actor |-> actor,
         project |-> users[actor].project, target |-> target, role |-> role,
         email |-> email, slug |-> slug]}
  /\ UNCHANGED <<mode, tables, joins, audit, history>>

(* PUT /users/:id/role, DELETE /users/:id, POST and DELETE of /invites,    *)
(* POST and PATCH of /projects, POST /projects/:id/switch.                 *)
CallRole(a, u, role) == u \in 1..lastUser /\ Call("role", a, u, role, Null, NoRow)
CallDelete(a, u) == u \in 1..lastUser /\ Call("delete", a, u, "viewer", Null, NoRow)
CallInvite(a, email, role) == Call("invite", a, Null, role, email, NoRow)
CallRevoke(a, i) == i \in 1..lastInvite /\ Call("revoke", a, i, "viewer", Null, NoRow)
CallProject(a, slug) == Call("project", a, Null, "viewer", Null, slug)
CallSlug(a, p, slug) == p \in 1..lastProject /\ Call("slug", a, p, "viewer", Null, slug)
CallSwitch(a, p) == p \in 1..lastProject /\ Call("switch", a, p, "viewer", Null, NoRow)

Continue(q, at) == acts' = (acts \ {q}) \cup {[q EXCEPT !.at = at]}
EndAct(q) == acts' = acts \ {q}

Admins(p) == {u \in Ids : IsAdmin(u) /\ users[u].project = p}

(* Mutant of Allows: administrators may demote themselves.                 *)
AllowsSelf(q) == Stored(q.target) /\ users[q.target].project = q.project

(* The user is one of the caller's project; nobody demotes or deletes      *)
(* themselves.                                                             *)
Allows(q) ==
  /\ Stored(q.target) /\ users[q.target].project = q.project
  /\ q.target = q.actor => q.kind = "role" /\ q.role = "admin"

Find(q) ==
  /\ q.at = "find"
  /\ CASE q.kind \in {"role", "delete"} ->
            IF ~Allows(q) THEN EndAct(q)
            ELSE Continue(q, IF q.kind = "delete" /\ IsAdmin(q.target) THEN "count" ELSE "write")
       [] q.kind = "slug" -> Continue(q, "clash")
       [] q.kind = "switch" -> Continue(q, "write")
  /\ UNCHANGED <<mode, tables, joins, audit, lastOp, left, history>>

(* The last administrator of the project is not deleted.                   *)
Count(q) ==
  /\ q.at = "count"
  /\ IF Cardinality(Admins(q.project)) <= 1 THEN EndAct(q) ELSE Continue(q, "write")
  /\ UNCHANGED <<mode, tables, joins, audit, lastOp, left, history>>

Clash(q) ==
  /\ q.at = "clash"
  /\ IF Slug(q.slug) \subseteq {q.target} THEN Continue(q, "write") ELSE EndAct(q)
  /\ UNCHANGED <<mode, tables, joins, audit, lastOp, left, history>>

(* Mutant of Answered: the answer leaves before the row.                   *)
AnsweredFirst(q) == answered \cup {q.op}

(* What has been answered when the statement is done: a handler that ends  *)
(* on res.status(204).send() answers itself, the others' json is kept back.*)
Bodiless == {"delete", "revoke"}
Answered(q) == IF q.kind \in Bodiless THEN answered \cup {q.op} ELSE answered

(* The statement of the act is carried out; its row comes next.            *)
Acted(q) ==
  /\ q.at = "write"
  /\ Continue(q, "audit")
  /\ done' = done \cup {q.op}
  /\ answered' = Answered(q)
  /\ outlived' = (outlived \/ ~IsAdmin(q.actor))
  /\ UNCHANGED <<mode, joins, lastOp, left, unaudited, granted, died>>

(* UPDATE by id: the role the target has by now is overwritten.            *)
WriteRole(q) ==
  /\ q.kind = "role" /\ Stored(q.target) /\ Acted(q)
  /\ users' = [users EXCEPT ![q.target].role = q.role]
  /\ UNCHANGED <<invites, projects, lastUser, lastInvite, lastProject, audit, welcome>>

(* ON DELETE SET NULL of audit_events.                                     *)
Forgotten(u) == {IF a.actor = u THEN [a EXCEPT !.actor = Null] ELSE a : a \in audit}

(* DELETE by id.  The foreign key of invites holds back who wrote one.     *)
Deletable(u) == Stored(u) /\ \A i \in Invites : StoredInvite(i) => invites[i].by # u

WriteDelete(q) ==
  /\ q.kind = "delete" /\ Deletable(q.target) /\ Acted(q)
  /\ users' = [users EXCEPT ![q.target] = NoRow]
  /\ audit' = Forgotten(q.target)
  /\ UNCHANGED <<invites, projects, lastUser, lastInvite, lastProject, welcome>>

WriteInvite(q) ==
  /\ q.kind = "invite" /\ Stored(q.actor) /\ lastInvite < MaxInvites /\ Acted(q)
  /\ lastInvite' = lastInvite + 1
  /\ invites' = [invites EXCEPT ![lastInvite + 1] =
       [email |-> q.email, role |-> q.role, project |-> q.project, by |-> q.actor,
        accepted |-> FALSE, expired |-> FALSE]]
  /\ welcome' = welcome \cup {q.email}
  /\ UNCHANGED <<users, projects, lastUser, lastProject, audit>>

Revocable(q) == StoredInvite(q.target) /\ invites[q.target].project = q.project

WriteRevoke(q) ==
  /\ q.kind = "revoke" /\ Revocable(q) /\ Acted(q)
  /\ invites' = [invites EXCEPT ![q.target] = NoRow]
  /\ UNCHANGED <<users, projects, lastUser, lastInvite, lastProject, audit, welcome>>

(* The unique index on the slug decides.                                   *)
WriteProject(q) ==
  /\ q.kind = "project" /\ Slug(q.slug) = {} /\ lastProject < MaxProjects /\ Acted(q)
  /\ lastProject' = lastProject + 1
  /\ projects' = [projects EXCEPT ![lastProject + 1] = q.slug]
  /\ UNCHANGED <<users, invites, lastUser, lastInvite, audit, welcome>>

WriteSlug(q) ==
  /\ q.kind = "slug" /\ Slug(q.slug) \subseteq {q.target} /\ Acted(q)
  /\ projects' = [projects EXCEPT ![q.target] = q.slug]
  /\ UNCHANGED <<users, invites, lastUser, lastInvite, lastProject, audit, welcome>>

WriteSwitch(q) ==
  /\ q.kind = "switch" /\ Stored(q.actor) /\ Acted(q)
  /\ users' = [users EXCEPT ![q.actor].project = q.target]
  /\ UNCHANGED <<invites, projects, lastUser, lastInvite, lastProject, audit, welcome>>

Writes(q) ==
  \/ WriteRole(q) \/ WriteDelete(q) \/ WriteInvite(q) \/ WriteRevoke(q)
  \/ WriteProject(q) \/ WriteSlug(q) \/ WriteSwitch(q)

(* The row is gone, is another project's, is held back or collides.        *)
Refuse(q) ==
  /\ q.at = "write"
  /\ CASE q.kind = "role" -> ~Stored(q.target)
       [] q.kind = "delete" -> ~Deletable(q.target)
       [] q.kind = "revoke" -> ~Revocable(q)
       [] q.kind \in {"invite", "switch"} -> ~Stored(q.actor)
       [] q.kind = "project" -> Slug(q.slug) # {}
       [] q.kind = "slug" -> ~(Slug(q.slug) \subseteq {q.target})
  /\ EndAct(q)
  /\ UNCHANGED <<mode, tables, joins, audit, lastOp, left, history>>

(* recordAudit connects the actor, who must still be there.                *)
Record(q) ==
  /\ q.at = "audit" /\ Stored(q.actor)
  /\ audit' = audit \cup {[op |-> q.op, actor |-> q.actor]}
  /\ answered' = answered \cup {q.op}
  /\ EndAct(q)
  /\ UNCHANGED <<mode, tables, joins, lastOp, left, done, unaudited, granted, welcome, died,
                 outlived>>

(* A failure of recordAudit is logged, and the answer is sent all the same.*)
RecordFails(q) ==
  /\ q.at = "audit" /\ (Stored(q.actor) => left["fault"] > 0)
  /\ IF Stored(q.actor) THEN Spend("fault") ELSE UNCHANGED left
  /\ answered' = answered \cup {q.op} /\ unaudited' = unaudited \cup {q.op}
  /\ EndAct(q)
  /\ UNCHANGED <<mode, tables, joins, audit, lastOp, done, granted, welcome, died, outlived>>

(* Any other statement fails: a 500.                                       *)
ActFails(q) ==
  /\ q.at # "audit" /\ Spend("fault")
  /\ EndAct(q)
  /\ UNCHANGED <<mode, tables, joins, audit, lastOp, history>>

(* The process dies with the request.                                      *)
ActDies(q) ==
  /\ Spend("crash")
  /\ EndAct(q)
  /\ died' = died \cup {q.op}
  /\ UNCHANGED <<mode, tables, joins, audit, lastOp, done, answered, unaudited, granted,
                 welcome, outlived>>

-----------------------------------------------------------------------------
Joining ==
  \/ \E email \in Emails, token \in 0..MaxInvites : Register(email, token)
  \/ \E token \in Invites : Redeem(token) \/ Expire(token)
  \/ \E q \in joins : Gate(q) \/ FindInvite(q) \/ FindEmail(q) \/ InsertUser(q)
                        \/ Claim(q) \/ JoinFails(q)

Calling ==
  \E a \in Ids :
    \/ \E u \in Ids, role \in GivenRoles : CallRole(a, u, role)
    \/ \E u \in Ids : CallDelete(a, u)
    \/ \E email \in Emails, role \in GivenRoles : CallInvite(a, email, role)
    \/ \E i \in Invites : CallRevoke(a, i)
    \/ \E slug \in Slugs : CallProject(a, slug)
    \/ \E p \in Projects, slug \in Slugs : CallSlug(a, p, slug)
    \/ \E p \in Projects : CallSwitch(a, p)

Acting ==
  \E q \in acts : Find(q) \/ Count(q) \/ Clash(q) \/ Writes(q) \/ Refuse(q)
                   \/ Record(q) \/ RecordFails(q) \/ ActFails(q) \/ ActDies(q)

Next == Joining \/ Calling \/ Acting

Spec == Init /\ [][Next]_vars

-----------------------------------------------------------------------------
TypeOK ==
  /\ mode \in {"open", "invite"}
  /\ users \in [Ids -> User \cup {NoRow}] /\ lastUser \in 0..MaxUsers
  /\ invites \in [Invites -> Invite \cup {NoRow}] /\ lastInvite \in 0..MaxInvites
  /\ projects \in [Projects -> Slugs \cup {NoRow}] /\ lastProject \in Projects
  /\ joins \subseteq Join /\ acts \subseteq Act
  /\ audit \subseteq [op : Nat, actor : Ids \cup {Null}]
  /\ lastOp \in Nat /\ left \in [Events -> Nat]
  /\ done \subseteq Nat /\ answered \subseteq Nat /\ unaudited \subseteq Nat
  /\ died \subseteq Nat
  /\ granted \in [Invites -> SUBSET Ids] /\ welcome \subseteq Emails
  /\ outlived \in BOOLEAN

(* docs/invites.md: an invite makes one account by being redeemed, however *)
(* the redeems, a revocation, a registration with its email and a deletion *)
(* of the account interleave, and is marked as accepted just when it has:  *)
(* what the requests and the clock do to it are steps of InviteContract.   *)
Standing(i) ==
  IF lastInvite < i THEN "unissued"
  ELSE IF ~StoredInvite(i) THEN "revoked"
  ELSE IF invites[i].accepted THEN "granted"
  ELSE IF invites[i].expired THEN "lapsed" ELSE "open"

Contract == INSTANCE InviteContract WITH
  Accounts <- Ids, standing <- [i \in Invites |-> Standing(i)], made <- granted
KeepsContract == Contract!Spec

(* In invite mode nobody has an account but those the operator named, those*)
(* an administrator has invited, and who came while there was nobody: the  *)
(* token of one is of no use to another.                                   *)
InvitedOnly ==
  mode = "invite" => \A u \in Ids : Stored(u) => users[u].email \in welcome

(* Somebody can always administer: nobody demotes or deletes themselves,   *)
(* and who removes another stays.  Not so once an act is carried out by    *)
(* someone who was removed while it ran.                                   *)
SomeAdmin == \E u \in Ids : IsAdmin(u)
AdminRemains == [][SomeAdmin /\ ~outlived' => SomeAdmin']_vars

(* middleware/withAudit.js: who was answered with a body finds the row.    *)
(* All is recorded in the end, and stays recorded when its actor is        *)
(* deleted, but for what a failing INSERT or a crash has lost; and nothing *)
(* is recorded that was refused or failed.                                 *)
Recorded(op) == op \in unaudited \cup died \cup {a.op : a \in audit}
Held(op) == \E q \in acts : q.op = op /\ (op \in answered => q.kind \in Bodiless)
DoneIsRecorded ==
  /\ \A op \in done : Held(op) \/ Recorded(op)
  /\ \A a \in audit : a.op \in done
=============================================================================
