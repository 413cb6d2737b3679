------------------------- MODULE MembershipWebhook -------------------------
(***************************************************************************)
(* POST /api/membership/webhook (app/api/membership/webhook/route.ts):     *)
(* concurrent deliveries of Stripe events, the KV retry counter and the    *)
(* dead letter table, whose entries an operator resolves by hand           *)
(* (app/api/admin/webhook-dlq/route.ts).                                   *)
(*                                                                         *)
(* Stripe delivers an event until a 2xx answer reaches it and may deliver  *)
(* it twice at once; an operator may resend one that was acknowledged.     *)
(***************************************************************************)
EXTENDS StripeEvents

CONSTANT Handlers       \* requests that can be in flight at once

ASSUME HandlersAssumption == Handlers \subseteq Procs

VARIABLES
    kv,         \* webhook-attempt:<event id> counters in the app cache KV
    tries,      \* the local "attempts" of each request
    pending, resolved,  \* event ids in webhook_dlq, by status
    acked       \* events Stripe got a 2xx answer for

hookVars == <<kv, tries, pending, resolved, acked>>
vars == <<stripeVars, storeVars, procVars, faults, hookVars>>

AttemptLimit == 3

WebhookTypeOK ==
    /\ kv \in [EventIds -> 0..AttemptLimit]
    /\ tries \in [Handlers -> 0..AttemptLimit]
    /\ pending \subseteq EventIds /\ resolved \subseteq EventIds
    /\ acked \subseteq EventIds

\* Type invariant of the webhook and everything it drives.
TypeOK == StripeTypeOK /\ WebhookTypeOK

WebhookInit ==
    /\ kv = [id \in EventIds |-> 0]
    /\ tries = [p \in Handlers |-> 0]
    /\ pending = {} /\ resolved = {}
    /\ acked = {}

Init == StripeInit /\ WebhookInit

-----------------------------------------------------------------------------
Deliver(p, id) ==
    /\ id \in Recorded \ acked
    /\ Begin(p, id)
    /\ UNCHANGED <<stripeVars, storeVars, faults, hookVars>>

Resend(p, id) ==
    /\ id \in Recorded \cap acked /\ Fault
    /\ Begin(p, id)
    /\ UNCHANGED <<stripeVars, storeVars, hookVars>>

\* Mutant: a 2xx answer to an event that failed.
RespondRegardless(p) ==
    /\ pc[p] \in {"done", "failed"}
    /\ Reset(p)
    /\ acked' = acked \cup {job[p]}
    /\ tries' = [tries EXCEPT ![p] = 0]
    /\ UNCHANGED <<stripeVars, storeVars, faults, kv, pending, resolved>>

Respond(p) ==
    /\ pc[p] = "done"
    /\ Reset(p)
    /\ acked' = acked \cup {job[p]}
    /\ tries' = [tries EXCEPT ![p] = 0]
    /\ UNCHANGED <<stripeVars, storeVars, faults, kv, pending, resolved>>

\* A non-2xx answer: Stripe keeps the event.
Refuse(p) ==
    /\ Reset(p)
    /\ tries' = [tries EXCEPT ![p] = 0]

\* kv.get: Workers KV is eventually consistent, so a failure of the model may
\* return an older count.  Counts above the limit are not told apart.
ReadAttempts(p) ==
    /\ pc[p] = "failed"
    /\ \E n \in 0..kv[job[p]] :
         /\ IF n = kv[job[p]] THEN UNCHANGED faults ELSE Fault
         /\ tries' = [tries EXCEPT ![p] = IF n < AttemptLimit THEN n + 1 ELSE n]
    /\ Goto(p, "count")
    /\ UNCHANGED <<stripeVars, storeVars, job, reply, kv, pending, resolved, acked>>

\* No binding, or kv.get throws: attempts stays 1 and the answer is a 500.
KvUnavailable(p) ==
    /\ pc[p] = "failed" /\ Fault
    /\ Refuse(p)
    /\ UNCHANGED <<stripeVars, storeVars, kv, pending, resolved, acked>>

\* Mutant: the new count is not stored.
WriteAttemptsNot(p) ==
    /\ pc[p] = "count"
    /\ IF tries[p] >= AttemptLimit
         THEN Goto(p, "park") /\ UNCHANGED <<job, reply, tries>>
         ELSE Refuse(p)
    /\ UNCHANGED <<stripeVars, storeVars, faults, kv, pending, resolved, acked>>

\* kv.put, whose failure is only logged; then give up or answer 500.
WriteAttempts(p) ==
    /\ pc[p] = "count"
    /\ \/ kv' = [kv EXCEPT ![job[p]] = tries[p]] /\ UNCHANGED faults
       \/ Fault /\ UNCHANGED kv
    /\ IF tries[p] >= AttemptLimit
         THEN Goto(p, "park") /\ UNCHANGED <<job, reply, tries>>
         ELSE Refuse(p)
    /\ UNCHANGED <<stripeVars, storeVars, pending, resolved, acked>>

\* writeToDlq upserts on event_id with status 'pending'.
ParkEvent(p) ==
    /\ pc[p] = "park"
    /\ pending' = pending \cup {job[p]}
    /\ resolved' = resolved \ {job[p]}
    /\ Goto(p, "done")
    /\ UNCHANGED <<stripeVars, storeVars, job, reply, faults, kv, tries, acked>>

\* Mutant: the failure of the write is swallowed and the event acknowledged.
ParkSwallowed(p) ==
    /\ pc[p] = "park" /\ Fault
    /\ Goto(p, "done")
    /\ UNCHANGED <<stripeVars, storeVars, job, reply, kv, tries, pending, resolved, acked>>

ParkFails(p) ==
    /\ pc[p] = "park" /\ Fault
    /\ Refuse(p)
    /\ UNCHANGED <<stripeVars, storeVars, kv, pending, resolved, acked>>

\* The isolate is evicted, or the answer is lost on its way to Stripe.
Crash(p) ==
    /\ pc[p] # "idle" /\ Fault
    /\ Refuse(p)
    /\ UNCHANGED <<stripeVars, storeVars, kv, pending, resolved, acked>>

HandlerStep(p) ==
    \/ \E id \in EventIds : Deliver(p, id) \/ Resend(p, id)
    \/ ProcessStep(p) /\ UNCHANGED hookVars
    \/ Respond(p) \/ ReadAttempts(p) \/ KvUnavailable(p) \/ WriteAttempts(p)
    \/ ParkEvent(p) \/ ParkFails(p) \/ Crash(p)

\* PATCH /api/admin/webhook-dlq: marks the entry, replays nothing.
ResolveDlqEntry(id) ==
    /\ id \in pending
    /\ pending' = pending \ {id}
    /\ resolved' = resolved \cup {id}
    /\ UNCHANGED <<stripeVars, storeVars, procVars, faults, kv, tries, acked>>

StripeMoves ==
    \E s \in Subs : StripeStep(s) /\ UNCHANGED <<storeVars, procVars, faults, hookVars>>

Next ==
    \/ StripeMoves
    \/ \E p \in Handlers : HandlerStep(p)
    \/ \E id \in EventIds : ResolveDlqEntry(id)

Spec == Init /\ [][Next]_vars
-----------------------------------------------------------------------------
(* Properties *)

Parked == pending \cup resolved

\* A 2xx answer is given only for an event whose effect is committed or that
\* is kept in the dead letter table, whatever requests race, crash or lose
\* their answers (route.ts:134-150, "do NOT ACK").
AckedIsDurable == acked \subseteq ledger \cup Parked

\* The memberships change only by the payload of one event, in the very step
\* that records its id, so no retry or concurrent delivery applies it twice
\* (stripe-events.ts:85-91).
EffectIsRecorded ==
    [][row' # row =>
        \E id \in Recorded \ ledger :
            ledger' = ledger \cup {id} /\ row' = After(row, OpOf(id))]_vars

\* The subscription the webhook is about to cancel at Stripe as an orphan is
\* never one that has a membership row (stripe-event-processor.ts:70-84).
OrphanHasNoRow ==
    \A p \in Procs : pc[p] = "cancel" => row[EventOf(job[p]).sub] = "none"

\* While nothing fails, a subscription whose checkout was recorded without
\* creating a row is canceled at Stripe or about to be: no customer goes on
\* paying for a membership that was refused as a duplicate.
OrphanIsCancelled ==
    faults = 0 =>
        \A id \in ledger :
            LET s == EventOf(id).sub IN
            EventOf(id).type = "checkout_completed" /\ row[s] = "none" =>
                \/ stripe[s] = "canceled"
                \/ \E p \in Procs : pc[p] = "cancel" /\ job[p] = id

\* No owner ever has two active memberships: the abort of the transaction and
\* the orphan branch between them leave the unique index satisfied.
OneActiveMembership == OneActive(row)

\* The mapping: ids of events stand for the events.
Ledger == INSTANCE MembershipLedger WITH
    table    <- row,
    recorded <- {i \in DOMAIN events : Live(i) \in ledger},
    parked   <- {i \in DOMAIN events : Live(i) \in Parked},
    acked    <- {i \in DOMAIN events : Live(i) \in acked}

\* The webhook implements the ledger, through processes, retries, crashes and lost answers.
ImplementsLedger == Ledger!Spec

\* Requests run to their answer unless they fail, and Stripe delivers an event
\* again and again until it is acknowledged.
HandlerProgress(p) ==
    \/ ProcessProgress(p) /\ UNCHANGED hookVars
    \/ Respond(p) \/ ReadAttempts(p) \/ WriteAttempts(p) \/ ParkEvent(p)

Fairness ==
    /\ \A p \in Handlers : WF_vars(HandlerProgress(p))
    /\ \A id \in EventIds : SF_vars(\E p \in Handlers : Deliver(p, id))

FairSpec == Spec /\ Fairness

\* Every event Stripe records, one that can never be processed included, is
\* in the end applied or parked for an operator: the racing, non-atomic
\* counter cannot keep it below the limit for ever.
EventuallySettled ==
    \A id \in EventIds : id \in Recorded ~> id \in ledger \cup Parked

\* What comments of the code say, and the function now in force does not do.

\* "refuses to flip a 'cancelled'/'disputed' membership back to 'active'"
\* (stripe-event-processor.ts:315-319, 373-377).
HoldIsSticky ==
    [][\A s \in Subs :
        row[s] \in {"cancelled", "disputed"} => row'[s] # "active"]_vars

\* An update that matched no row is captured in the dead letter table before
\* the webhook answers (stripe-event-processor.ts:28-38).
MissIsParked ==
    \A p \in Handlers : pc[p] = "done" /\ reply[p] = "no_row" => job[p] \in Parked
=============================================================================
