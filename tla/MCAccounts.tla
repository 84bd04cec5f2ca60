----------------------------- MODULE MCAccounts -----------------------------
(* Small instances of Accounts for TLC.                                    *)
EXTENDS Accounts, TLC

CONSTANTS ann, bob, s1, s2

Quiet == [e \in Events |-> 0]

Empty == [u \in Ids |-> NoRow]
Ann == [Empty EXCEPT ![1] = [email |-> ann, role |-> "admin", project |-> 1]]
AnnAndBob == [Ann EXCEPT ![2] = [email |-> bob, role |-> "admin", project |-> 1]]

Running(m, table, budget) == [mode |-> m, users |-> table, budget |-> budget]

(* An invite is redeemed twice, expires, is revoked, or used to register.  *)
InviteBudget == [Quiet EXCEPT !.invite = 1, !.redeem = 2, !.register = 1, !.revoke = 1,
                              !.expire = 1, !.delete = 1, !.any = 4]

(* Nobody is there yet.                                                    *)
FirstBudget == [Quiet EXCEPT !.register = 3, !.delete = 1, !.fault = 1, !.any = 4]

(* Administrators remove each other.                                       *)
PowerBudget == [Quiet EXCEPT !.role = 2, !.delete = 2, !.fault = 1, !.crash = 1, !.any = 3]

(* Projects are created, renamed and switched to.                          *)
ProjectBudget == [Quiet EXCEPT !.project = 1, !.slug = 1, !.switch = 1, !.delete = 1,
                               !.invite = 1, !.fault = 1, !.crash = 1, !.any = 3]

MCScenarios ==
  {Running("invite", Ann, InviteBudget), Running("open", Ann, InviteBudget),
   Running("invite", Empty, FirstBudget), Running("invite", AnnAndBob, PowerBudget),
   Running("invite", AnnAndBob, ProjectBudget)}

SlugSymmetry == Permutations(Slugs)
=============================================================================
