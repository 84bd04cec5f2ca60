--------------------------- MODULE InviteContract ---------------------------
(***************************************************************************)
(* What docs/invites.md promises of an invite: it is issued, it makes one  *)
(* account or lapses, and may be revoked at any time; neither a lapsed nor *)
(* a revoked nor a used one makes an account.  It says nothing of how      *)
(* requests interleave: Accounts implements it.                            *)
(***************************************************************************)
CONSTANTS Invites, Accounts

VARIABLES
  standing,  \* where each invite stands
  made       \* the accounts each invite has made

Standings == {"unissued", "open", "lapsed", "granted", "revoked"}

Init ==
  /\ standing = [i \in Invites |-> "unissued"]
  /\ made = [i \in Invites |-> {}]

Move(i, from, to) ==
  standing[i] \in from /\ standing' = [standing EXCEPT ![i] = to]

Issue(i) == Move(i, {"unissued"}, "open") /\ UNCHANGED made
Lapse(i) == Move(i, {"open"}, "lapsed") /\ UNCHANGED made
Revoke(i) == Move(i, {"open", "lapsed", "granted"}, "revoked") /\ UNCHANGED made

(* The one step that makes an account.                                     *)
Grant(i, a) ==
  /\ Move(i, {"open"}, "granted")
  /\ \A j \in Invites : a \notin made[j]
  /\ made' = [made EXCEPT ![i] = {a}]

Next ==
  \E i \in Invites : Issue(i) \/ Lapse(i) \/ Revoke(i) \/ \E a \in Accounts : Grant(i, a)

Spec == Init /\ [][Next]_<<standing, made>>
=============================================================================
