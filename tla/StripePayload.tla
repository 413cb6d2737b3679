--------------------------- MODULE StripePayload ---------------------------
(***************************************************************************)
(* buildStripeEventPayload and its helpers (lib/stripe-event-processor.ts):*)
(* the membership op each Stripe event asks for.                           *)
(*                                                                         *)
(* An event is its type, the subscription its object leads to, and the     *)
(* Stripe status a subscription object carries.  The type of the model     *)
(* splits the code's types where the handler does: a refund is full or     *)
(* partial, a subscription.updated has a known or an unknown price id.     *)
(* "unhandled" stands for the default branch and for every early return    *)
(* that finds no subscription in the event.                                *)
(***************************************************************************)
EXTENDS MembershipStore

StripeStatuses == {"active", "trialing", "past_due", "canceled", "unpaid",
                   "incomplete", "incomplete_expired", "paused"}

EventTypes == {"checkout_completed", "invoice_paid", "payment_failed",
               "sub_updated", "sub_updated_unknown_price", "sub_paused",
               "sub_deleted", "refunded", "partially_refunded", "disputed",
               "unhandled"}

Events == [type : EventTypes, sub : Subs, status : StripeStatuses]

\* Mutant: Stripe's own words are stored.
MapStripeStatusRaw(st) == IF st = "trialing" THEN "active" ELSE st

MapStripeStatus(st) ==
    CASE st \in {"active", "trialing"}  -> "active"
      [] st \in {"canceled", "unpaid"}  -> "cancelled"
      [] st = "incomplete_expired"      -> "expired"
      [] OTHER                          -> "past_due"

\* Building the payload of these calls the Stripe API first, and a failure
\* of that call is rethrown.
CallsStripe(event) ==
    event.type \in {"checkout_completed", "invoice_paid", "refunded",
                    "partially_refunded", "disputed"}

\* resolveTierFromPriceId throws on a price id that is in neither variable.
Poison(event) == event.type = "sub_updated_unknown_price"

Payload(event) ==
    CASE event.type = "checkout_completed"               -> Create(event.sub)
      [] event.type = "invoice_paid"                     -> Renew(event.sub)
      [] event.type \in {"sub_updated", "sub_updated_unknown_price"}
                             -> Update(event.sub, MapStripeStatus(event.status))
      [] event.type \in {"sub_deleted", "refunded"}      -> Cancel(event.sub)
      [] event.type = "disputed"         -> Update(event.sub, "disputed")
      [] event.type \in {"payment_failed", "sub_paused"}
                                         -> Update(event.sub, "past_due")
      [] OTHER                           -> Noop(event.sub)
=============================================================================
