---------------------------- MODULE MCDeliveries ----------------------------
(* Small instances of Deliveries for TLC: a behaviour is one of the digest *)
(* or one of the webhooks, and the other stays as it starts.               *)
EXTENDS Deliveries

CONSTANT p1

VARIABLE focus

-----------------------------------------------------------------------------
Quiet == [e \in Events |-> 0]

(* No mail server; one that wants a login; one that wants it after TLS.    *)
NoServer == [configured |-> FALSE, login |-> FALSE, starttls |-> FALSE, plain |-> {}, tls |-> {}]
Plain == [configured |-> TRUE, login |-> TRUE, starttls |-> FALSE, plain |-> {"LOGIN"}, tls |-> {}]
Modern == [configured |-> TRUE, login |-> TRUE, starttls |-> TRUE, plain |-> {},
           tls |-> {"PLAIN", "LOGIN"}]
Lenient == [Modern EXCEPT !.plain = {"PLAIN"}]

(* Two processes race, one has its ticks and requests, or only requests;   *)
(* one goes through the dialogue.                                          *)
RaceBudget == [Quiet EXCEPT !.activity = 1, !.fault = 1, !.crash = 1, !.any = 1]
SoloBudget == [RaceBudget EXCEPT !.manual = 1, !.any = 2]
ManualBudget == [Quiet EXCEPT !.manual = 2, !.activity = 1, !.any = 3]
MailBudget == [Quiet EXCEPT !.refusal = 1, !.silence = 1, !.activity = 1, !.crash = 1, !.any = 2]

MCScenarios ==
  {[server |-> NoServer, enabled |-> Replicas, budget |-> RaceBudget],
   [server |-> NoServer, enabled |-> {p1}, budget |-> SoloBudget],
   [server |-> NoServer, enabled |-> {}, budget |-> ManualBudget]}
  \cup [server : {Plain, Modern, Lenient}, enabled : {{p1}}, budget : {MailBudget}]

FaultScenarios ==
  {[server |-> NoServer, enabled |-> {p1}, budget |-> [Quiet EXCEPT !.fault = 1, !.any = 1]]}

-----------------------------------------------------------------------------
(* Two subscriptions and an event; one that is changed, deleted or tested  *)
(* while it is served; faults, a lost answer, a restart.                   *)
Unused == [create |-> 0, put |-> 0, delete |-> 0, emit |-> 0, test |-> 0, cut |-> 0,
           fault |-> 0, restart |-> 0, any |-> 0]
FanOut == [Unused EXCEPT !.create = 2, !.emit = 1, !.delete = 1, !.fault = 1, !.any = 6]
Edited == [Unused EXCEPT !.create = 1, !.emit = 1, !.test = 1, !.put = 2, !.delete = 1, !.any = 6]
Faulty == [Unused EXCEPT !.create = 1, !.emit = 1, !.test = 1, !.cut = 1, !.fault = 1,
                         !.restart = 1, !.any = 5]

MCBudgets == {FanOut, Edited, Faulty}

-----------------------------------------------------------------------------
MCInit ==
  /\ Init /\ Outgoing!Init
  /\ \/ focus = "digest" /\ hookLeft = FanOut
     \/ focus = "webhooks" /\ server = NoServer /\ enabled = {}

MCNext ==
  \/ focus = "digest" /\ DigestGoesOn /\ UNCHANGED focus
  \/ focus = "webhooks" /\ WebhooksGoOn /\ UNCHANGED focus

(* What does not run has nothing under way to be fair to.                  *)
MCSpec == MCInit /\ [][MCNext]_<<DeliveryVars, focus>> /\ Fairness /\ Outgoing!Fairness
=============================================================================
