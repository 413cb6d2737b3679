-------------------------- MODULE ReconciledLedger --------------------------
(***************************************************************************)
(* What the webhook and the stripe-sync cron promise together: the ledger  *)
(* of MembershipLedger, and beside it no more than three things a cron may *)
(* do to a membership.  It applies a checkout of its own making, once for  *)
(* a subscription; it sets a row active again, within the owner's index;   *)
(* it cancels the row of a subscription that Stripe has ended              *)
(* (app/api/cron/stripe-sync/route.ts:82-146, 190-219).                    *)
(***************************************************************************)
EXTENDS MembershipLedger

VARIABLES ended,     \* subscriptions Stripe has ended
          remade     \* those whose checkout the cron has made up

reconciledVars == <<vars, ended, remade>>

ReconciledInit == Init /\ ended = {} /\ remade = {}

End(s) ==
    /\ ended' = ended \cup {s}
    /\ UNCHANGED <<vars, remade>>

Remake(s) ==
    /\ s \notin remade
    /\ remade' = remade \cup {s}
    /\ table' = After(table, Create(s))
    /\ UNCHANGED <<events, recorded, parked, acked, ended>>

Correct(s) ==
    /\ ~Raises(table, Renew(s))
    /\ table' = After(table, Renew(s))
    /\ UNCHANGED <<events, recorded, parked, acked, ended, remade>>

Deactivate(s) ==
    /\ s \in ended /\ table[s] # "none"
    /\ table' = [table EXCEPT ![s] = "cancelled"]
    /\ UNCHANGED <<events, recorded, parked, acked, ended, remade>>

ReconciledNext ==
    \/ Next /\ UNCHANGED <<ended, remade>>
    \/ \E s \in Subs : End(s) \/ Remake(s) \/ Correct(s) \/ Deactivate(s)

ReconciledSpec == ReconciledInit /\ [][ReconciledNext]_reconciledVars
=============================================================================
