----------------------------- MODULE StripeSync -----------------------------
(***************************************************************************)
(* POST /api/cron/stripe-sync (app/api/cron/stripe-sync/route.ts) running  *)
(* beside the webhook on the same tables: phase 1 replays the events of    *)
(* the last 48 hours that are not in the ledger, phase 2 compares Stripe's *)
(* active subscriptions with the memberships, phase 3 (switched on by      *)
(* STRIPE_REVERSE_RECONCILE_ENABLED) compares the active memberships with  *)
(* Stripe.  The cron processes events with processStripeEvent like a       *)
(* request does, as process Cron; any error it does not catch ends the run *)
(* and the next tick starts over.                                          *)
(***************************************************************************)
EXTENDS MembershipWebhook

CONSTANTS Cron,      \* the process of the cron
          Reverse    \* STRIPE_REVERSE_RECONCILE_ENABLED

ASSUME CronAssumption == Cron \in Procs \ Handlers /\ Reverse \in BOOLEAN

VARIABLES
    phase,    \* where the run is
    seen,     \* processedEventIds, read once at the start
    left,     \* what the loop of the phase has still to visit
    cur,      \* the subscription a decision has been taken about
    horizon   \* events up to this one are older than 48 hours

syncVars == <<phase, seen, left, cur, horizon>>
hookState == <<stripeVars, storeVars, procVars, faults, hookVars>>
allVars == <<hookState, syncVars>>

Phases == {"off", "list", "replay", "subs", "correct", "members", "reverse",
           "deactivate"}

SyncTypeOK ==
    /\ TypeOK
    /\ phase \in Phases
    /\ seen \subseteq Ids
    /\ left \subseteq EventIds \cup Subs
    /\ cur \in Subs \cup {NoJob}
    /\ horizon \in 0..MaxEvents

SyncInit ==
    /\ Init
    /\ phase = "off" /\ seen = {} /\ left = {} /\ cur = NoJob
    /\ horizon = 0

\* Time passes: the oldest event leaves the 48 hour window.
Age ==
    /\ horizon < Len(events)
    /\ horizon' = horizon + 1
    /\ UNCHANGED <<hookState, phase, seen, left, cur>>

AtRest == pc[Cron] = "idle"

\* The run is over; nothing it read survives it.
EndRun == phase' = "off" /\ seen' = {} /\ left' = {} /\ cur' = NoJob /\ UNCHANGED horizon

-----------------------------------------------------------------------------
(* Phase 1 *)

ReadLedger ==
    /\ phase = "off"
    /\ phase' = "list" /\ seen' = ledger
    /\ UNCHANGED <<hookState, left, cur, horizon>>

ListEvents ==
    /\ phase = "list"
    /\ phase' = "replay"
    /\ left' = {Live(i) : i \in {j \in DOMAIN events : j > horizon}} \ seen
    /\ UNCHANGED <<hookState, seen, cur, horizon>>

\* stripe.events.list returns the newest event first.
IsNewest(id, ids) == \A other \in ids : other[2] <= id[2]

ReplayEvent ==
    /\ phase = "replay" /\ AtRest
    /\ \E id \in left : IsNewest(id, left) /\ Begin(Cron, id) /\ left' = left \ {id}
    /\ UNCHANGED <<stripeVars, storeVars, faults, hookVars, phase, seen, cur, horizon>>

\* processStripeEvent returned (phases 1 and 2).
EventSynced ==
    /\ pc[Cron] = "done"
    /\ Reset(Cron)
    /\ UNCHANGED <<stripeVars, storeVars, faults, hookVars, syncVars>>

\* processStripeEvent threw: the catch of the route answers 500.
AbortRun ==
    /\ pc[Cron] = "failed"
    /\ Reset(Cron) /\ EndRun
    /\ UNCHANGED <<stripeVars, storeVars, faults, hookVars>>

-----------------------------------------------------------------------------
(* Phase 2 *)

ListActiveSubs ==
    /\ phase = "replay" /\ AtRest /\ left = {}
    /\ phase' = "subs"
    /\ left' = {s \in Subs : stripe[s] = "active"}
    /\ UNCHANGED <<hookState, seen, cur, horizon>>

\* Mutant: a subscription without a row is only reported.
RecreateNothing(s) ==
    /\ phase = "subs" /\ AtRest /\ s \in left
    /\ row[s] = "none"
    /\ left' = left \ {s}
    /\ UNCHANGED <<hookState, phase, seen, cur, horizon>>

\* No row, or the SELECT failed, whose error the code does not look at: replay
\* the checkout session under a made-up event id.
RecreateMembership(s) ==
    /\ phase = "subs" /\ AtRest /\ s \in left
    /\ IF row[s] = "none" THEN UNCHANGED faults ELSE Fault
    /\ Begin(Cron, Synthetic(s))
    /\ left' = left \ {s}
    /\ UNCHANGED <<stripeVars, storeVars, hookVars, phase, seen, cur, horizon>>

Reconcilable == {"past_due", "expired"}

\* Active already, or a status the policy protects.
SkipMembership(s) ==
    /\ phase = "subs" /\ AtRest /\ s \in left
    /\ row[s] \notin Reconcilable \cup {"none"}
    /\ left' = left \ {s}
    /\ UNCHANGED <<hookState, phase, seen, cur, horizon>>

FindStale(s) ==
    /\ phase = "subs" /\ AtRest /\ s \in left
    /\ row[s] \in Reconcilable
    /\ phase' = "correct" /\ cur' = s
    /\ left' = left \ {s}
    /\ UNCHANGED <<hookState, seen, horizon>>

\* UPDATE ... WHERE stripe_subscription_id = s, whatever its status is by now.
\* A unique violation comes back as an error nobody reads.
Corrected(s) == IF Raises(row, Renew(s)) THEN row ELSE After(row, Renew(s))

CorrectStatus ==
    /\ phase = "correct"
    /\ phase' = "subs" /\ cur' = NoJob
    /\ \/ row' = Corrected(cur) /\ UNCHANGED faults
       \/ Fault /\ UNCHANGED row
    /\ UNCHANGED <<stripeVars, ledger, procVars, hookVars, seen, left, horizon>>

SubsDone ==
    /\ phase = "subs" /\ AtRest /\ left = {}
    /\ IF Reverse
         THEN phase' = "members" /\ UNCHANGED <<seen, left, cur, horizon>>
         ELSE EndRun
    /\ UNCHANGED hookState

-----------------------------------------------------------------------------
(* Phase 3 *)

ListMembers ==
    /\ phase = "members"
    /\ phase' = "reverse"
    /\ left' = {s \in Subs : row[s] = "active"}
    /\ UNCHANGED <<hookState, seen, cur, horizon>>

\* The SELECT fails: logged, and the run still ends with success.
ListMembersFails ==
    /\ phase = "members" /\ Fault
    /\ EndRun
    /\ UNCHANGED <<stripeVars, storeVars, procVars, hookVars>>

\* Mutant: the spelling of the memberships table.
TerminalMisspelt == {"cancelled", "incomplete_expired"}

TerminalAtStripe == {"canceled", "incomplete_expired"}

RetrieveSub(s) ==
    /\ phase = "reverse" /\ s \in left
    /\ left' = left \ {s}
    /\ IF stripe[s] \in TerminalAtStripe
         THEN phase' = "deactivate" /\ cur' = s
         ELSE UNCHANGED <<phase, cur>>
    /\ UNCHANGED <<hookState, seen, horizon>>

\* Mutant: a subscription that cannot be retrieved counts as gone.
RetrieveFailsDeactivates(s) ==
    /\ phase = "reverse" /\ s \in left /\ Fault
    /\ left' = left \ {s}
    /\ phase' = "deactivate" /\ cur' = s
    /\ UNCHANGED <<stripeVars, storeVars, procVars, hookVars, seen, horizon>>

\* stripe.subscriptions.retrieve throws: the member is skipped.
RetrieveSubFails(s) ==
    /\ phase = "reverse" /\ s \in left /\ Fault
    /\ left' = left \ {s}
    /\ UNCHANGED <<stripeVars, storeVars, procVars, hookVars, phase, seen, cur, horizon>>

\* Mutant: the spelling of Stripe.
DeactivateMisspelt ==
    /\ phase = "deactivate"
    /\ phase' = "reverse" /\ cur' = NoJob
    /\ row' = [row EXCEPT ![cur] = "canceled"]
    /\ UNCHANGED <<stripeVars, ledger, procVars, faults, hookVars, seen, left, horizon>>

\* UPDATE ... WHERE id = the row's, whatever its status is by now.
Deactivate ==
    /\ phase = "deactivate"
    /\ phase' = "reverse" /\ cur' = NoJob
    /\ \/ row' = [row EXCEPT ![cur] = "cancelled"] /\ UNCHANGED faults
       \/ Fault /\ UNCHANGED row
    /\ UNCHANGED <<stripeVars, ledger, procVars, hookVars, seen, left, horizon>>

MembersDone ==
    /\ phase = "reverse" /\ left = {}
    /\ EndRun
    /\ UNCHANGED hookState

-----------------------------------------------------------------------------
\* The worker is evicted or times out, or a call the loops make throws.
RunDies ==
    /\ phase # "off" /\ Fault
    /\ Reset(Cron) /\ EndRun
    /\ UNCHANGED <<stripeVars, storeVars, hookVars>>

SyncProgress ==
    \/ ReadLedger \/ ListEvents \/ ReplayEvent \/ EventSynced \/ AbortRun
    \/ ProcessProgress(Cron) /\ UNCHANGED <<hookVars, syncVars>>
    \/ ListActiveSubs \/ CorrectStatus \/ SubsDone
    \/ \E s \in Subs : RecreateMembership(s) \/ SkipMembership(s) \/ FindStale(s)
    \/ ListMembers \/ Deactivate \/ MembersDone
    \/ \E s \in Subs : RetrieveSub(s)

SyncStep ==
    \/ SyncProgress
    \/ ProcessStep(Cron) /\ UNCHANGED <<hookVars, syncVars>>
    \/ ListMembersFails \/ RunDies
    \/ \E s \in Subs : RetrieveSubFails(s)

SyncNext ==
    \/ Next /\ UNCHANGED syncVars
    \/ Age
    \/ SyncStep

SyncSpec == SyncInit /\ [][SyncNext]_allVars
-----------------------------------------------------------------------------
(* Properties *)

\* The cron takes an active membership away only when Stripe has said the
\* subscription is over (route.ts:198-201, "NEVER deactivate without a
\* confirmed Stripe response", 221-223), though it asks, waits and then writes.
ReverseOnlyWhenEnded ==
    [][\A s \in Subs :
        row[s] = "active" /\ row'[s] = "cancelled" /\ ledger' = ledger
            => stripe[s] \in TerminalAtStripe]_allVars

\* Nothing but the event it asks for changes a row, the two corrections of the
\* cron excepted: a replay never applies an event a request also applied.
EveryWriteAccounted ==
    [][row' # row =>
        \/ \E id \in Ids \ ledger : ledger' = ledger \cup {id} /\ row' = After(row, OpOf(id))
        \/ phase = "correct" /\ row' = [row EXCEPT ![cur] = "active"]
        \/ phase = "deactivate" /\ row' = [row EXCEPT ![cur] = "cancelled"]]_allVars

\* The mapping: ids of events stand for the events.
Reconciled == INSTANCE ReconciledLedger WITH
    table    <- row,
    recorded <- {i \in DOMAIN events : Live(i) \in ledger},
    parked   <- {i \in DOMAIN events : Live(i) \in Parked},
    acked    <- {i \in DOMAIN events : Live(i) \in acked},
    ended    <- {s \in Subs : stripe[s] \in TerminalAtStripe},
    remade   <- {s \in Subs : Synthetic(s) \in ledger}

\* The webhook and the cron implement the ledger and what a cron may do, though
\* the cron replays what requests are handling and both may be retried.
ImplementsReconciled == Reconciled!ReconciledSpec

\* The one way in which a member's own subscription is cancelled as an orphan
\* (stripe-event-processor.ts:70-84): its checkout has been applied under both of its ids,
\* that of Stripe's event and the one the cron makes up (route.ts:92).
OrphanRowIsRemade ==
    \A p \in Procs :
        LET s == EventOf(job[p]).sub IN
        pc[p] = "cancel" /\ row[s] # "none" =>
            /\ Synthetic(s) \in ledger
            /\ \E i \in DOMAIN events :
                  events[i].type = "checkout_completed" /\ events[i].sub = s /\ Live(i) \in ledger

\* A run that nothing makes fail or die comes to its end, and there is always
\* another: the cron ticks and the window moves on.
SyncFairness == WF_allVars(SyncProgress) /\ WF_allVars(Age)

FairSyncSpec == SyncSpec /\ SyncFairness

\* With the reverse pass, a membership does not stay active for ever after its
\* subscription ended, even if no webhook is ever delivered and however late
\* the checkout is processed (route.ts:151-160).
LeakIsHealed ==
    \A s \in Subs : stripe[s] = "canceled" ~> row[s] # "active"

\* The subscriptions no other one of the owner can keep from the active slot.
Sole == {s \in Subs : \A t \in Subs \ {s} : OwnerOf[t] # OwnerOf[s]}

\* A subscription that goes on being billed gets a row or stops, however old
\* its events are (route.ts:52-54).  Not so one that is refused because of its
\* owner's other one: if the cancellation fails, the id reconcile_<sub> is in
\* the ledger, and phase 2 tries no second time.
MemberIsServed ==
    \A s \in Sole : stripe[s] = "active" ~> row[s] # "none" \/ stripe[s] # "active"

\* "Reactivating those would silently undo a fraud/entitlement hold, so only
\* transient billing states (past_due / expired) are eligible" (route.ts:103-107).
SyncKeepsHold ==
    [][\A s \in Subs :
        row[s] \in {"cancelled", "disputed"} /\ row'[s] = "active"
            => ledger' # ledger]_allVars
=============================================================================
