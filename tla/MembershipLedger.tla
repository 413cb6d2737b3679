-------------------------- MODULE MembershipLedger --------------------------
(***************************************************************************)
(* What the webhook promises, without processes, retries or counters: each *)
(* Stripe event has its effect on the memberships at most once, exactly    *)
(* the effect its payload asks for, in one step with the record of its id, *)
(* and Stripe is told "received" only of events that are recorded or kept  *)
(* for an operator (lib/dal/stripe-events.ts:4-16, 83-91 and               *)
(* lib/dal/webhook-dlq.ts:102-108).                                        *)
(***************************************************************************)
EXTENDS StripePayload, Naturals, Sequences

VARIABLES events,    \* what Stripe recorded
          table,     \* the memberships
          recorded,  \* events that had their effect
          parked,    \* events kept for an operator
          acked      \* events Stripe will not deliver again

vars == <<events, table, recorded, parked, acked>>

Init ==
    /\ events = << >> /\ table = EmptyTable
    /\ recorded = {} /\ parked = {} /\ acked = {}

\* The first conjunct says nothing new: it spares TLC the events where none happens.
Happen ==
    /\ Len(events') > Len(events)
    /\ \E e \in Events : events' = Append(events, e)
    /\ UNCHANGED <<table, recorded, parked, acked>>

Record(i) ==
    /\ i \notin recorded
    /\ ~Raises(table, Payload(events[i]))
    /\ recorded' = recorded \cup {i}
    /\ table' = After(table, Payload(events[i]))
    /\ UNCHANGED <<events, parked, acked>>

Park(i) ==
    /\ parked' = parked \cup {i}
    /\ UNCHANGED <<events, table, recorded, acked>>

Ack(i) ==
    /\ i \in recorded \cup parked
    /\ acked' = acked \cup {i}
    /\ UNCHANGED <<events, table, recorded, parked>>

Next ==
    \/ Happen
    \/ \E i \in DOMAIN events : Record(i) \/ Park(i) \/ Ack(i)

Spec == Init /\ [][Next]_vars
=============================================================================
