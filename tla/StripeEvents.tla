---------------------------- MODULE StripeEvents ----------------------------
(***************************************************************************)
(* Stripe, the two tables it drives, and processStripeEvent                *)
(* (lib/stripe-event-processor.ts) cut at each await, for any process that *)
(* runs it: a webhook request or the stripe-sync cron.                     *)
(*                                                                         *)
(* Stripe is external: a subscription changes status and Stripe records an *)
(* event, which the program is told of later, in any order, any number of  *)
(* times.  MaxEvents bounds how many events Stripe records and MaxFaults   *)
(* how many calls fail; both are bounds of the model.                      *)
(***************************************************************************)
EXTENDS StripePayload, Naturals, Sequences

CONSTANTS Procs,      \* processes that may run processStripeEvent
          EmittedTypes, \* the event types Stripe records in this instance
          MaxEvents, MaxFaults

ASSUME StripeAssumption ==
    /\ EmittedTypes \subseteq EventTypes
    /\ MaxEvents \in Nat /\ MaxFaults \in Nat

VARIABLES
    stripe,   \* status of each subscription at Stripe, "none" before checkout
    events,   \* the events Stripe recorded, oldest first
    row,      \* table memberships
    ledger,   \* table stripe_events: the ids already processed
    pc, job, reply, \* where each process is, on which event id, the RPC's answer
    faults    \* failed calls so far

storeVars == <<row, ledger>>
procVars  == <<pc, job, reply>>
stripeVars == <<stripe, events>>

\* An id is that of a Stripe event or reconcile_<subscription>, the one
\* stripe-sync makes up (app/api/cron/stripe-sync/route.ts:92).
Live(i)      == <<"evt", i>>
Synthetic(s) == <<"reconcile", s>>
NoJob        == <<"none", 0>>
EventIds == {Live(i) : i \in 1..MaxEvents}
Ids      == EventIds \cup {Synthetic(s) : s \in Subs}

Recorded == {Live(i) : i \in DOMAIN events}

EventOf(id) ==
    IF id[1] = "evt" THEN events[id[2]]
    ELSE [type |-> "checkout_completed", sub |-> id[2], status |-> "active"]

OpOf(id) == Payload(EventOf(id))

PcStates == {"idle", "build", "apply", "cancel", "done", "failed", "count", "park"}
Replies  == {"none", "duplicate", "applied", "no_row", "orphan"}

StripeTypeOK ==
    /\ stripe \in [Subs -> StripeStatuses \cup {"none"}]
    /\ events \in Seq(Events) /\ Len(events) <= MaxEvents
    /\ row \in Tables
    /\ ledger \subseteq Ids
    /\ pc \in [Procs -> PcStates]
    /\ job \in [Procs -> Ids \cup {NoJob}]
    /\ reply \in [Procs -> Replies]
    /\ faults \in 0..MaxFaults

StripeInit ==
    /\ stripe = [s \in Subs |-> "none"]
    /\ events = << >>
    /\ row = EmptyTable
    /\ ledger = {}
    /\ pc = [p \in Procs |-> "idle"]
    /\ job = [p \in Procs |-> NoJob]
    /\ reply = [p \in Procs |-> "none"]
    /\ faults = 0

Fault == faults < MaxFaults /\ faults' = faults + 1

-----------------------------------------------------------------------------
(* What happens at Stripe. *)

Ended == {"none", "canceled", "incomplete_expired"}

Emit(type, s, st) ==
    /\ type \in EmittedTypes
    /\ Len(events) < MaxEvents
    /\ events' = Append(events, [type |-> type, sub |-> s, status |-> st])
    /\ stripe' = [stripe EXCEPT ![s] = st]

\* A checkout session of the owner completes; each creates one subscription.
Subscribe(s) == stripe[s] = "none" /\ Emit("checkout_completed", s, "active")

Bill(s) == stripe[s] \notin Ended /\ Emit("invoice_paid", s, "active")

PaymentFails(s) == stripe[s] \notin Ended /\ Emit("payment_failed", s, "past_due")

Pause(s) == stripe[s] \notin Ended /\ Emit("sub_paused", s, "paused")

\* Any other change of the subscription object, including the status dunning
\* ends in.
Change(s) ==
    /\ stripe[s] \notin Ended
    /\ \E st \in {"active", "unpaid"} : Emit("sub_updated", s, st)

ChangePrice(s) ==
    stripe[s] \notin Ended /\ Emit("sub_updated_unknown_price", s, stripe[s])

\* Ended by the customer, by an operator, or by dunning.
Unsubscribe(s) ==
    /\ stripe[s] \notin Ended
    /\ stripe' = [stripe EXCEPT ![s] = "canceled"]
    /\ UNCHANGED events

\* The deletion is an event of its own, recorded some time after.
NotifyDeleted(s) ==
    /\ stripe[s] = "canceled"
    /\ \A i \in DOMAIN events : ~(events[i].type = "sub_deleted" /\ events[i].sub = s)
    /\ Emit("sub_deleted", s, "canceled")

\* Refunds and disputes leave the subscription as it is.
MoneyBack(s) ==
    /\ stripe[s] # "none"
    /\ \E type \in {"refunded", "partially_refunded", "disputed", "unhandled"} :
          Emit(type, s, stripe[s])

StripeStep(s) ==
    \/ Subscribe(s) \/ Bill(s) \/ PaymentFails(s) \/ Pause(s) \/ Change(s)
    \/ ChangePrice(s) \/ Unsubscribe(s) \/ NotifyDeleted(s) \/ MoneyBack(s)

-----------------------------------------------------------------------------
(* processStripeEvent *)

Goto(p, label) == pc' = [pc EXCEPT ![p] = label]

Begin(p, id) ==
    /\ pc[p] = "idle"
    /\ Goto(p, "build")
    /\ job' = [job EXCEPT ![p] = id]
    /\ UNCHANGED reply

\* The process forgets everything: it answered, or it died.
Reset(p) ==
    /\ Goto(p, "idle")
    /\ job' = [job EXCEPT ![p] = NoJob]
    /\ reply' = [reply EXCEPT ![p] = "none"]

BuildPayload(p) ==
    /\ pc[p] = "build"
    /\ Goto(p, IF Poison(EventOf(job[p])) THEN "failed" ELSE "apply")
    /\ UNCHANGED <<stripeVars, storeVars, job, reply, faults>>

RetrieveFails(p) ==
    /\ pc[p] = "build" /\ CallsStripe(EventOf(job[p])) /\ Fault
    /\ Goto(p, "failed")
    /\ UNCHANGED <<stripeVars, storeVars, job, reply>>

\* Mutants: the side effect without the event row, as before the RPC; the event
\* row inserted whether or not it is there already.
CommitUnrecorded(id) ==
    /\ id \notin ledger /\ ~Raises(row, OpOf(id))
    /\ row' = After(row, OpOf(id))
    /\ UNCHANGED ledger

CommitAgain(id) ==
    /\ ~Raises(row, OpOf(id))
    /\ ledger' = ledger \cup {id}
    /\ row' = After(row, OpOf(id))

\* The transaction of the RPC for a fresh id, when it commits.
Commit(id) ==
    /\ id \notin ledger /\ ~Raises(row, OpOf(id))
    /\ ledger' = ledger \cup {id}
    /\ row' = After(row, OpOf(id))

\* Mutant: orphan_subscription_id is not looked at.
ApplyFreshIgnoringOrphan(p) ==
    /\ pc[p] = "apply" /\ Commit(job[p])
    /\ reply' = [reply EXCEPT ![p] = Reply(row, OpOf(job[p]))]
    /\ Goto(p, "done")
    /\ UNCHANGED <<stripeVars, job, faults>>

\* The RPC answers with what it committed.  missed_update, which the
\* processor tests for, is not among the answers of this function.
ApplyFresh(p) ==
    /\ pc[p] = "apply" /\ Commit(job[p])
    /\ LET answer == Reply(row, OpOf(job[p])) IN
         /\ reply' = [reply EXCEPT ![p] = answer]
         /\ Goto(p, IF answer = "orphan" THEN "cancel" ELSE "done")
    /\ UNCHANGED <<stripeVars, job, faults>>

ApplyDuplicate(p) ==
    /\ pc[p] = "apply" /\ job[p] \in ledger
    /\ reply' = [reply EXCEPT ![p] = "duplicate"]
    /\ Goto(p, "done")
    /\ UNCHANGED <<stripeVars, storeVars, job, faults>>

\* unique_violation: the transaction rolls back and the error reaches the caller.
ApplyRaises(p) ==
    /\ pc[p] = "apply" /\ job[p] \notin ledger /\ Raises(row, OpOf(job[p]))
    /\ Goto(p, "failed")
    /\ UNCHANGED <<stripeVars, storeVars, job, reply, faults>>

\* The call fails before the database, or its answer is lost after the commit.
ApplyCallFails(p) ==
    /\ pc[p] = "apply" /\ Fault
    /\ Commit(job[p]) \/ UNCHANGED storeVars
    /\ Goto(p, "failed")
    /\ UNCHANGED <<stripeVars, job, reply>>

\* stripe.subscriptions.cancel; an error, such as "already canceled", is logged.
CancelOrphan(p) ==
    /\ pc[p] = "cancel"
    /\ stripe' = [stripe EXCEPT ![EventOf(job[p]).sub] = "canceled"]
    /\ Goto(p, "done")
    /\ UNCHANGED <<events, storeVars, job, reply, faults>>

CancelOrphanFails(p) ==
    /\ pc[p] = "cancel" /\ Fault
    /\ Goto(p, "done")
    /\ UNCHANGED <<stripeVars, storeVars, job, reply>>

ProcessStep(p) ==
    \/ BuildPayload(p) \/ RetrieveFails(p)
    \/ ApplyFresh(p) \/ ApplyDuplicate(p) \/ ApplyRaises(p) \/ ApplyCallFails(p)
    \/ CancelOrphan(p) \/ CancelOrphanFails(p)

\* The steps of processStripeEvent that need no failure.
ProcessProgress(p) ==
    \/ BuildPayload(p) \/ ApplyFresh(p) \/ ApplyDuplicate(p) \/ ApplyRaises(p)
    \/ CancelOrphan(p)
=============================================================================
