----------------------------- MODULE Deliveries -----------------------------
(* What the processes send out by themselves: the digests of Digest and    *)
(* the webhook campaigns of Webhooks.  They share neither tables nor state *)
(* in memory: a step of one leaves the other alone.                        *)
EXTENDS Digest

CONSTANTS Hooks, Retries, MaxOps, Budgets   \* those of Webhooks

ASSUME RetriesAssumption == Retries \in Nat

VARIABLES hooks, deliveries, emitting, campaigns, hookOp, hookLeft, posts, excused

Outgoing == INSTANCE Webhooks WITH lastOp <- hookOp, left <- hookLeft

hookVars == <<hooks, deliveries, emitting, campaigns, hookOp, hookLeft, posts, excused>>
DeliveryVars == <<vars, hookVars>>

DigestGoesOn == Next /\ UNCHANGED hookVars
WebhooksGoOn == Outgoing!Next /\ UNCHANGED vars

DeliverySpec ==
  /\ Init /\ Outgoing!Init
  /\ [][DigestGoesOn \/ WebhooksGoOn]_DeliveryVars
  /\ Fairness /\ Outgoing!Fairness

-----------------------------------------------------------------------------
(* utils/webhooks.js: see Webhooks.                                        *)
AttemptsOnRecord == Outgoing!AttemptsOnRecord
DeletedHookQuiets == Outgoing!DeletedHookQuiets
CampaignSettles == Outgoing!CampaignSettles
=============================================================================
