--------------------- MODULE MembershipRefinementProofs ---------------------
(***************************************************************************)
(* The webhook, with its concurrent requests, retry counter and dead       *)
(* letters, implements the ledger of MembershipLedger.                     *)
(***************************************************************************)
EXTENDS MembershipWebhookProofs

\* The refinement mapping, by name.
ledgerRecorded == {i \in DOMAIN events : Live(i) \in ledger}
ledgerParked   == {i \in DOMAIN events : Live(i) \in Parked}
ledgerAcked    == {i \in DOMAIN events : Live(i) \in acked}

\* The payload and the transaction mean the same in both specifications.
LEMMA SamePayload ==
  ASSUME NEW e
  PROVE  Ledger!Payload(e) = Payload(e)
BY DEF Ledger!Payload, Payload, Ledger!Create, Create, Ledger!Renew, Renew, Ledger!Update, Update,
       Ledger!Cancel, Cancel, Ledger!Noop, Noop, Ledger!MapStripeStatus, MapStripeStatus

\* The ledger's transaction is the store's.
LEMMA SameTransaction ==
  ASSUME NEW table, NEW op
  PROVE  /\ Ledger!Raises(table, op) = Raises(table, op)
         /\ Ledger!After(table, op) = After(table, op)
BY DEF Ledger!Raises, Raises, Ledger!After, After, Ledger!Writes, Writes, Ledger!Orphans, Orphans,
       Ledger!Updates, Updates, Ledger!SlotTaken, SlotTaken

\* Two events never share an id.
LEMMA LiveInjective == \A i, j : Live(i) = Live(j) => i = j
BY DEF Live

\* Nothing is recorded, parked or acknowledged that Stripe did not record first, the
\* ids the cron makes up excepted.
KnownIds == ledger \cup Parked \cup acked \subseteq Recorded \cup Synthetics

\* A step of a request preserves KnownIds.
LEMMA KnownHandler ==
  ASSUME TypeInv, KnownIds, NEW p \in Handlers, HandlerStep(p)
  PROVE  KnownIds'
<1>1. pc[p] # "idle" => job[p] \in Recorded
  BY Working
<1>2. UNCHANGED events
  BY DEF HandlerStep, Deliver, Resend, Respond, ReadAttempts, KvUnavailable, WriteAttempts,
         ParkEvent, ParkFails, Crash, ProcessStep, BuildPayload, RetrieveFails, ApplyFresh,
         ApplyDuplicate, ApplyRaises, ApplyCallFails, CancelOrphan, CancelOrphanFails, stripeVars
<1>3. ledger' \subseteq ledger \cup {job[p]} /\ (ledger' # ledger => pc[p] # "idle")
  BY DEF HandlerStep, Deliver, Resend, Respond, ReadAttempts, KvUnavailable, WriteAttempts,
         ParkEvent, ParkFails, Crash, ProcessStep, BuildPayload, RetrieveFails, ApplyFresh,
         ApplyDuplicate, ApplyRaises, ApplyCallFails, CancelOrphan, CancelOrphanFails, Commit,
         storeVars
<1>4. CASE Respond(p) \/ ParkEvent(p)
  BY <1>1, <1>2, <1>4 DEF Respond, ParkEvent, KnownIds, Parked, Recorded, Synthetics, Synthetic, storeVars
<1>5. CASE ~(Respond(p) \/ ParkEvent(p))
  <2>1. UNCHANGED <<pending, resolved, acked>>
    BY <1>5 DEF HandlerStep, Deliver, Resend, ReadAttempts, KvUnavailable, WriteAttempts, ParkFails,
                Crash, hookVars
  <2> QED BY <1>1, <1>2, <1>3, <2>1 DEF KnownIds, Parked, Recorded, Synthetics, Synthetic
<1> QED BY <1>4, <1>5

\* Next preserves KnownIds.
LEMMA KnownStep == TypeInv /\ KnownIds /\ [Next]_vars => KnownIds'
<1> SUFFICES ASSUME TypeInv, KnownIds, [Next]_vars PROVE KnownIds'
  OBVIOUS
<1>1. CASE StripeMoves
  <2>1. PICK s \in Subs : StripeStep(s) /\ UNCHANGED <<storeVars, procVars, faults, hookVars>>
    BY <1>1 DEF StripeMoves
  <2>2. Recorded \subseteq Recorded'
    <3>1. CASE UNCHANGED events
      BY <3>1 DEF Recorded
    <3>2. CASE \E e \in Events : events' = Append(events, e)
      BY <3>2, EmitKeeps DEF TypeInv, TypeOK, StripeTypeOK
    <3> QED BY <2>1, <3>1, <3>2, StripeStepEffect
  <2> QED BY <2>1, <2>2 DEF KnownIds, Parked, storeVars, hookVars
<1>2. CASE \E id \in EventIds : ResolveDlqEntry(id)
  BY <1>2 DEF ResolveDlqEntry, KnownIds, Parked, Recorded, stripeVars, storeVars
<1>3. CASE UNCHANGED vars
  BY <1>3 DEF vars, KnownIds, Parked, Recorded, stripeVars, storeVars, hookVars
<1> QED BY <1>1, <1>2, <1>3, KnownHandler DEF Next

\* KnownIds is an invariant of the webhook.
LEMMA KnownInvariant == Spec => []KnownIds
<1>1. Init => KnownIds
  BY DEF Init, StripeInit, WebhookInit, KnownIds, Parked
<1> QED BY <1>1, KnownStep, TypeInvariant, PTL DEF Spec

-----------------------------------------------------------------------------
(* The steps *)

\* A change at Stripe is a new event of the ledger, or nothing.
LEMMA RefineStripe ==
  ASSUME TypeInv, KnownIds, StripeMoves
  PROVE  [Ledger!Next]_Ledger!vars
<1>1. PICK s \in Subs : StripeStep(s) /\ UNCHANGED <<storeVars, procVars, faults, hookVars>>
  BY DEF StripeMoves
<1>2. UNCHANGED <<row, ledger, Parked, acked>>
  BY <1>1 DEF storeVars, hookVars, Parked
<1>3. CASE UNCHANGED events
  BY <1>2, <1>3 DEF Ledger!vars
<1>4. CASE \E e \in Events : events' = Append(events, e)
  <2>1. /\ events \in Seq(Events) /\ events' \in Seq(Events)
        /\ Len(events') = Len(events) + 1
    BY <1>4, EmitKeeps DEF TypeInv, TypeOK, StripeTypeOK
  <2>2. DOMAIN events = 1..Len(events) /\ DOMAIN events' = 1..(Len(events) + 1) /\ Len(events) \in Nat
    BY <2>1
  <2>3. Live(Len(events) + 1) \notin ledger \cup Parked \cup acked
    <3>1. Live(Len(events) + 1) \notin Recorded \cup Synthetics
      BY <2>2 DEF Recorded, Live, Synthetics, Synthetic
    <3> QED BY <3>1 DEF KnownIds
  <2>4. ASSUME NEW S, S \subseteq ledger \cup Parked \cup acked
        PROVE  {i \in DOMAIN events' : Live(i) \in S} = {i \in DOMAIN events : Live(i) \in S}
    BY <2>2, <2>3, <2>4
  <2>5. UNCHANGED <<ledgerRecorded, ledgerParked, ledgerAcked>>
    BY <1>2, <2>4 DEF ledgerRecorded, ledgerParked, ledgerAcked
  <2>6. Ledger!Events = Events
    BY DEF Ledger!Events, Events, Ledger!EventTypes, EventTypes, Ledger!StripeStatuses,
           StripeStatuses
  <2> QED BY <1>2, <1>4, <2>5, <2>6
          DEF Ledger!Next, Ledger!Happen, ledgerRecorded, ledgerParked, ledgerAcked
<1> QED BY <1>1, <1>3, <1>4, StripeStepEffect

\* The step of a request is the record, the parking or the acknowledgement of its
\* event, or nothing the ledger sees.
LEMMA RefineHandler ==
  ASSUME TypeInv, DurableInv, NEW p \in Handlers, HandlerStep(p)
  PROVE  [Ledger!Next]_Ledger!vars
<1>1. UNCHANGED events
  BY DEF HandlerStep, Deliver, Resend, Respond, ReadAttempts, KvUnavailable, WriteAttempts,
         ParkEvent, ParkFails, Crash, ProcessStep, BuildPayload, RetrieveFails, ApplyFresh,
         ApplyDuplicate, ApplyRaises, ApplyCallFails, CancelOrphan, CancelOrphanFails, stripeVars
<1>2. ASSUME pc[p] # "idle"
      PROVE  \E i \in DOMAIN events : job[p] = Live(i) /\ EventOf(job[p]) = events[i]
  <2>1. PICK i \in DOMAIN events : job[p] = Live(i)
    BY <1>2, Working DEF Recorded
  <2> QED BY <2>1 DEF EventOf, Live
<1>3. ASSUME NEW S, NEW i \in DOMAIN events
      PROVE  {k \in DOMAIN events : Live(k) \in S \cup {Live(i)}}
                = {k \in DOMAIN events : Live(k) \in S} \cup {i}
  BY LiveInjective
<1>4. CASE pc[p] = "apply" /\ Commit(job[p]) /\ UNCHANGED hookVars
  <2>1. PICK i \in DOMAIN events : job[p] = Live(i) /\ EventOf(job[p]) = events[i]
    BY <1>2, <1>4
  <2>2. /\ i \notin ledgerRecorded /\ ledgerRecorded' = ledgerRecorded \cup {i}
        /\ UNCHANGED <<ledgerParked, ledgerAcked>>
    BY <1>1, <1>3, <1>4, <2>1 DEF Commit, ledgerRecorded, ledgerParked, ledgerAcked, hookVars, Parked
  <2>3. /\ ~Ledger!Raises(row, Ledger!Payload(events[i]))
        /\ row' = Ledger!After(row, Ledger!Payload(events[i]))
    BY <1>4, <2>1, SamePayload, SameTransaction DEF Commit, OpOf
  <2>4. Ledger!Record(i)
    BY <1>1, <2>2, <2>3 DEF Ledger!Record, ledgerRecorded, ledgerParked, ledgerAcked
  <2> QED BY <2>4 DEF Ledger!Next
<1>5. CASE Respond(p)
  <2>1. PICK i \in DOMAIN events : job[p] = Live(i)
    BY <1>2, <1>5 DEF Respond
  <2>2. i \in ledgerRecorded \cup ledgerParked
    BY <1>5, <2>1 DEF Respond, DurableInv, AnswerIsDurable, ledgerRecorded, ledgerParked
  <2>3. /\ ledgerAcked' = ledgerAcked \cup {i}
        /\ UNCHANGED <<row, ledgerRecorded, ledgerParked>>
    BY <1>1, <1>3, <1>5, <2>1
    DEF Respond, ledgerRecorded, ledgerParked, ledgerAcked, storeVars, Parked
  <2>4. Ledger!Ack(i)
    BY <1>1, <2>2, <2>3 DEF Ledger!Ack, ledgerRecorded, ledgerParked, ledgerAcked
  <2> QED BY <2>4 DEF Ledger!Next
<1>6. CASE ParkEvent(p)
  <2>1. PICK i \in DOMAIN events : job[p] = Live(i)
    BY <1>2, <1>6 DEF ParkEvent
  <2>2. Parked' = Parked \cup {Live(i)}
    BY <1>6, <2>1 DEF ParkEvent, Parked
  <2>3. /\ ledgerParked' = ledgerParked \cup {i}
        /\ UNCHANGED <<row, ledgerRecorded, ledgerAcked>>
    BY <1>1, <1>3, <1>6, <2>2
    DEF ParkEvent, ledgerRecorded, ledgerParked, ledgerAcked, storeVars
  <2>4. Ledger!Park(i)
    BY <1>1, <2>3 DEF Ledger!Park, ledgerRecorded, ledgerParked, ledgerAcked
  <2> QED BY <2>4 DEF Ledger!Next
<1>7. CASE UNCHANGED <<row, ledger, pending, resolved, acked>>
  BY <1>1, <1>7 DEF Ledger!vars, Parked
<1> QED
  BY <1>4, <1>5, <1>6, <1>7
  DEF HandlerStep, Deliver, Resend, ReadAttempts, KvUnavailable, WriteAttempts, ParkFails, Crash,
      ProcessStep, BuildPayload, RetrieveFails, ApplyFresh, ApplyDuplicate, ApplyRaises,
      ApplyCallFails, CancelOrphan, CancelOrphanFails, storeVars, hookVars

\* The webhook implements the ledger: every event takes effect at most once, with
\* the effect its payload asks for, and is acknowledged only when kept.
THEOREM WebhookImplementsLedger == Spec => ImplementsLedger
<1>1. Init => Ledger!Init
  BY DEF Init, StripeInit, WebhookInit, Ledger!Init, EmptyTable, Ledger!EmptyTable
<1>2. TypeInv /\ KnownIds /\ DurableInv /\ [Next]_vars => [Ledger!Next]_Ledger!vars
  <2> SUFFICES ASSUME TypeInv, KnownIds, DurableInv, [Next]_vars
               PROVE  [Ledger!Next]_Ledger!vars
    OBVIOUS
  <2>1. CASE \E id \in EventIds : ResolveDlqEntry(id)
    <3>1. UNCHANGED <<events, row, ledger, acked>> /\ Parked' = Parked
      BY <2>1 DEF ResolveDlqEntry, Parked, stripeVars, storeVars
    <3> QED BY <3>1 DEF Ledger!vars
  <2>2. CASE UNCHANGED vars
    BY <2>2 DEF vars, Ledger!vars, Parked, stripeVars, storeVars, hookVars
  <2> QED BY <2>1, <2>2, RefineStripe, RefineHandler DEF Next
<1> QED BY <1>1, <1>2, TypeInvariant, KnownInvariant, DurableInvariant, PTL
        DEF Spec, ImplementsLedger, Ledger!Spec
=============================================================================
