---------------------- MODULE MembershipWebhookProofs ----------------------
(***************************************************************************)
(* Proofs about MembershipWebhook for every set of subscriptions, owners   *)
(* and handlers and every bound on events and faults.                      *)
(***************************************************************************)
EXTENDS MembershipWebhook, TLAPS

\* The ids the cron makes up.
Synthetics == {Synthetic(s) : s \in Subs}

\* A process works on an event Stripe has recorded; only one that is no request
\* works on a made-up id.
JobsRecorded ==
    \A p \in Procs : pc[p] # "idle" =>
        job[p] \in Recorded \/ (p \notin Handlers /\ job[p] \in Synthetics)

\* Inductive invariant for type correctness.
TypeInv == TypeOK /\ JobsRecorded

USE DEF Goto

-----------------------------------------------------------------------------
(* Events and ids *)

\* The recorded events are the first Len(events) ids.
LEMMA RecordedIds ==
  ASSUME events \in Seq(Events), Len(events) <= MaxEvents
  PROVE  /\ Recorded \subseteq EventIds
         /\ Recorded = {Live(i) : i \in 1..Len(events)}
BY StripeAssumption DEF Recorded, EventIds

\* The id of a recorded event, or a made-up one, leads back to an event.
LEMMA EventOfRecorded ==
  ASSUME events \in Seq(Events), NEW id \in Recorded \cup Synthetics
  PROVE  EventOf(id) \in Events
<1>1. CASE id \in Recorded
  BY <1>1 DEF Recorded, EventOf, Live
<1>2. CASE id \in Synthetics
  BY <1>2 DEF Synthetics, EventOf, Synthetic, Events, EventTypes, StripeStatuses
<1> QED BY <1>1, <1>2

\* Recording one more event leaves the others where they are.
LEMMA EmitKeeps ==
  ASSUME events \in Seq(Events), NEW e \in Events, events' = Append(events, e)
  PROVE  /\ events' \in Seq(Events)
         /\ Len(events') = Len(events) + 1
         /\ Recorded \subseteq Recorded'
         /\ \A i \in DOMAIN events : events'[i] = events[i]
         /\ events'[Len(events')] = e
BY DEF Recorded

\* buildStripeEventPayload yields an op the RPC knows.
LEMMA PayloadIsOp ==
  ASSUME NEW e \in Events
  PROVE  Payload(e) \in Ops
BY DEF Events, EventTypes, StripeStatuses, Payload, Ops, Statuses, Create, Renew,
       Update, Cancel, Noop, MapStripeStatus

\* One transaction of the RPC yields a table of rows.
LEMMA AfterIsTable ==
  ASSUME NEW table \in Tables, NEW op \in Ops
  PROVE  After(table, op) \in Tables
BY DEF After, Tables, Ops

\* The RPC answers "orphan" only where the INSERT violated an index.
LEMMA ReplyIsOrphan ==
  ASSUME NEW table, NEW op
  PROVE  /\ Reply(table, op) \in Replies
         /\ Reply(table, op) = "orphan" => Orphans(table, op)
<1>1. CASE Orphans(table, op)
  BY <1>1, Zenon DEF Reply, Replies
<1>2. CASE ~Orphans(table, op)
  <2>1. Reply(table, op) \in {"no_row", "applied"}
    BY <1>2, Zenon DEF Reply
  <2> QED BY <2>1 DEF Replies
<1> QED BY <1>1, <1>2

-----------------------------------------------------------------------------
(* Type correctness *)

\* The initial states have their types.
LEMMA TypeInit == Init => TypeInv
BY StripeAssumption, HandlersAssumption
   DEF Init, StripeInit, WebhookInit, TypeInv, TypeOK, StripeTypeOK, WebhookTypeOK,
       JobsRecorded, Tables, EmptyTable, PcStates, Replies, AttemptLimit

\* Every change at Stripe is nothing, one more event, or the end of a subscription.
LEMMA StripeStepEffect ==
  ASSUME TypeInv, NEW s \in Subs, StripeStep(s)
  PROVE  /\ stripe' \in [Subs -> StripeStatuses \cup {"none"}]
         /\ \/ UNCHANGED events
            \/ /\ Len(events) < MaxEvents
               /\ \E e \in Events : events' = Append(events, e)
<1>1. ASSUME NEW t \in EventTypes, NEW st \in StripeStatuses, Emit(t, s, st)
      PROVE  /\ stripe' \in [Subs -> StripeStatuses \cup {"none"}]
             /\ Len(events) < MaxEvents
             /\ \E e \in Events : events' = Append(events, e)
  <2> DEFINE e == [type |-> t, sub |-> s, status |-> st]
  <2>1. e \in Events
    BY <1>1 DEF Events
  <2>2. events' = Append(events, e)
    BY <1>1 DEF Emit
  <2> QED BY <1>1, <2>1, <2>2 DEF Emit, TypeInv, TypeOK, StripeTypeOK
<1>2. stripe[s] \in StripeStatuses \cup {"none"}
  BY DEF TypeInv, TypeOK, StripeTypeOK
<1>3. CASE Unsubscribe(s)
  BY <1>3 DEF Unsubscribe, TypeInv, TypeOK, StripeTypeOK, StripeStatuses
<1>4. CASE Subscribe(s) \/ Bill(s) \/ PaymentFails(s) \/ Pause(s) \/ NotifyDeleted(s)
  BY <1>1, <1>4 DEF Subscribe, Bill, PaymentFails, Pause, NotifyDeleted, EventTypes,
                    StripeStatuses
<1>5. CASE Change(s)
  BY <1>1, <1>5 DEF Change, EventTypes, StripeStatuses
<1>6. CASE ChangePrice(s)
  BY <1>1, <1>2, <1>6 DEF ChangePrice, EventTypes, Ended
<1>7. CASE MoneyBack(s)
  BY <1>1, <1>2, <1>7 DEF MoneyBack, EventTypes
<1> QED BY <1>3, <1>4, <1>5, <1>6, <1>7 DEF StripeStep

\* A step at Stripe preserves the types.
LEMMA StripeMovesType ==
  ASSUME TypeInv, StripeMoves
  PROVE  TypeInv'
<1>1. PICK s \in Subs : StripeStep(s) /\ UNCHANGED <<storeVars, procVars, faults, hookVars>>
  BY DEF StripeMoves
<1>2. /\ stripe' \in [Subs -> StripeStatuses \cup {"none"}]
      /\ \/ UNCHANGED events
         \/ /\ Len(events) < MaxEvents
            /\ \E e \in Events : events' = Append(events, e)
  BY <1>1, StripeStepEffect
<1>3. events' \in Seq(Events) /\ Len(events') <= MaxEvents /\ Recorded \subseteq Recorded'
  <2>1. CASE UNCHANGED events
    BY <2>1 DEF TypeInv, TypeOK, StripeTypeOK, Recorded
  <2>2. CASE Len(events) < MaxEvents /\ \E e \in Events : events' = Append(events, e)
    BY <2>2, EmitKeeps, StripeAssumption DEF TypeInv, TypeOK, StripeTypeOK
  <2> QED BY <1>2, <2>1, <2>2
<1> QED
  BY <1>1, <1>2, <1>3
  DEF TypeInv, TypeOK, StripeTypeOK, WebhookTypeOK, JobsRecorded, storeVars, procVars, hookVars

\* What a process that works on an event works on.
LEMMA AtWork ==
  ASSUME TypeInv, NEW p \in Procs, pc[p] # "idle"
  PROVE  /\ job[p] \in Recorded \cup Synthetics
         /\ EventOf(job[p]) \in Events
         /\ OpOf(job[p]) \in Ops
<1>1. job[p] \in Recorded \cup Synthetics
  BY DEF TypeInv, JobsRecorded
<1>2. events \in Seq(Events)
  BY DEF TypeInv, TypeOK, StripeTypeOK
<1> QED BY <1>1, <1>2, EventOfRecorded, PayloadIsOp DEF OpOf

\* What a request that works on an event works on.
LEMMA Working ==
  ASSUME TypeInv, NEW p \in Handlers, pc[p] # "idle"
  PROVE  /\ p \in Procs
         /\ job[p] \in Recorded /\ job[p] \in EventIds
         /\ EventOf(job[p]) \in Events
         /\ OpOf(job[p]) \in Ops
<1>1. p \in Procs /\ job[p] \in Recorded
  BY HandlersAssumption DEF TypeInv, JobsRecorded
<1>2. events \in Seq(Events) /\ Len(events) <= MaxEvents
  BY DEF TypeInv, TypeOK, StripeTypeOK
<1> QED BY <1>1, <1>2, RecordedIds, AtWork

\* The process records keep their type when the process moves on or is reset.
LEMMA ProcsKeepType ==
  ASSUME TypeInv, NEW p \in Procs, UNCHANGED events,
         \/ /\ pc[p] # "idle" /\ job' = job
            /\ \E l \in PcStates : Goto(p, l)
            /\ \E r \in Replies : reply' = [reply EXCEPT ![p] = r]
         \/ Reset(p)
  PROVE  /\ pc' \in [Procs -> PcStates]
         /\ job' \in [Procs -> Ids \cup {NoJob}]
         /\ reply' \in [Procs -> Replies]
         /\ JobsRecorded'
<1>0. /\ pc \in [Procs -> PcStates] /\ job \in [Procs -> Ids \cup {NoJob}]
      /\ reply \in [Procs -> Replies] /\ JobsRecorded
  BY DEF TypeInv, TypeOK, StripeTypeOK
<1>1. Recorded' = Recorded
  BY DEF Recorded
<1>2. CASE /\ pc[p] # "idle" /\ job' = job
           /\ \E l \in PcStates : Goto(p, l)
           /\ \E r \in Replies : reply' = [reply EXCEPT ![p] = r]
  <2>1. \A q \in Procs : pc'[q] # "idle" => pc[q] # "idle"
    BY <1>0, <1>2
  <2>2. JobsRecorded'
    BY <1>0, <1>1, <1>2, <2>1 DEF JobsRecorded
  <2> QED BY <1>0, <1>2, <2>2
<1>3. CASE Reset(p)
  <2>1. \A q \in Procs : pc'[q] # "idle" => pc[q] # "idle" /\ job'[q] = job[q]
    BY <1>0, <1>3 DEF Reset
  <2>2. JobsRecorded'
    BY <1>0, <1>1, <2>1 DEF JobsRecorded
  <2> QED BY <1>0, <1>3, <2>2 DEF Reset, PcStates, Replies
<1> QED BY <1>2, <1>3

\* A commit leaves a table of rows and a ledger of ids.
LEMMA CommitType ==
  ASSUME TypeInv, NEW id \in Recorded \cup Synthetics, Commit(id)
  PROVE  row' \in Tables /\ ledger' \subseteq Ids
<1>1. events \in Seq(Events) /\ Len(events) <= MaxEvents /\ row \in Tables /\ ledger \subseteq Ids
  BY DEF TypeInv, TypeOK, StripeTypeOK
<1>2. OpOf(id) \in Ops /\ id \in Ids
  BY <1>1, RecordedIds, EventOfRecorded, PayloadIsOp DEF OpOf, Ids, Synthetics
<1> QED BY <1>1, <1>2, AfterIsTable DEF Commit

\* So does a step of processStripeEvent, whoever runs it.
LEMMA ProcessType ==
  ASSUME TypeInv, NEW p \in Procs, ProcessStep(p), UNCHANGED hookVars
  PROVE  TypeInv'
<1> USE DEF TypeInv
<1>0. pc[p] # "idle" /\ reply[p] \in Replies
  BY DEF ProcessStep, BuildPayload, RetrieveFails, ApplyFresh, ApplyDuplicate, ApplyRaises,
         ApplyCallFails, CancelOrphan, CancelOrphanFails, TypeOK, StripeTypeOK
<1>1. job[p] \in Recorded \cup Synthetics /\ EventOf(job[p]) \in Events
  BY <1>0, AtWork
<1>2. UNCHANGED events /\ UNCHANGED job
  BY DEF ProcessStep, BuildPayload, RetrieveFails, ApplyFresh, ApplyDuplicate, ApplyRaises,
         ApplyCallFails, CancelOrphan, CancelOrphanFails, stripeVars
<1>3. stripe' \in [Subs -> StripeStatuses \cup {"none"}]
  BY <1>1 DEF ProcessStep, BuildPayload, RetrieveFails, ApplyFresh, ApplyDuplicate, ApplyRaises,
         ApplyCallFails, CancelOrphan, CancelOrphanFails, stripeVars, TypeOK, StripeTypeOK,
         StripeStatuses
<1>4. row' \in Tables /\ ledger' \subseteq Ids
  <2>1. CASE Commit(job[p])
    BY <1>1, <2>1, CommitType
  <2>2. CASE UNCHANGED storeVars
    BY <2>2 DEF storeVars, TypeOK, StripeTypeOK
  <2> QED BY <2>1, <2>2
      DEF ProcessStep, BuildPayload, RetrieveFails, ApplyFresh, ApplyDuplicate, ApplyRaises,
          ApplyCallFails, CancelOrphan, CancelOrphanFails
<1>5. faults' \in 0..MaxFaults
  BY StripeAssumption
     DEF ProcessStep, BuildPayload, RetrieveFails, ApplyFresh, ApplyDuplicate, ApplyRaises,
         ApplyCallFails, CancelOrphan, CancelOrphanFails, Fault, TypeOK, StripeTypeOK
<1>6. /\ \E l \in PcStates : Goto(p, l)
      /\ \E r \in Replies : reply' = [reply EXCEPT ![p] = r]
  <2>1. CASE ApplyFresh(p)
    BY <2>1, ReplyIsOrphan DEF ApplyFresh, PcStates
  <2>2. CASE ApplyDuplicate(p)
    BY <2>2 DEF ApplyDuplicate, PcStates, Replies
  <2>3. CASE UNCHANGED reply
    <3>1. reply' = [reply EXCEPT ![p] = reply[p]]
      BY <2>3 DEF TypeOK, StripeTypeOK
    <3>2. \E l \in PcStates : Goto(p, l)
      BY DEF ProcessStep, BuildPayload, RetrieveFails, ApplyFresh, ApplyDuplicate, ApplyRaises,
             ApplyCallFails, CancelOrphan, CancelOrphanFails, PcStates
    <3> QED BY <1>0, <3>1, <3>2
  <2> QED BY <2>1, <2>2, <2>3
      DEF ProcessStep, BuildPayload, RetrieveFails, ApplyRaises, ApplyCallFails, CancelOrphan,
          CancelOrphanFails
<1>7. /\ pc' \in [Procs -> PcStates]
      /\ job' \in [Procs -> Ids \cup {NoJob}]
      /\ reply' \in [Procs -> Replies]
      /\ JobsRecorded'
  BY <1>0, <1>2, <1>6, ProcsKeepType
<1>8. WebhookTypeOK'
  BY DEF hookVars, TypeOK, WebhookTypeOK
<1> QED BY <1>2, <1>3, <1>4, <1>5, <1>7, <1>8 DEF TypeOK, StripeTypeOK

\* So does every other step of a request.
LEMMA HandlerType ==
  ASSUME TypeInv, NEW p \in Handlers, HandlerStep(p)
  PROVE  TypeInv'
<1> USE DEF TypeInv
<1>0. p \in Procs /\ MaxFaults \in Nat /\ EventIds \subseteq Ids
  BY HandlersAssumption, StripeAssumption DEF Ids
<1>1. Recorded \subseteq EventIds
  BY RecordedIds DEF TypeOK, StripeTypeOK
<1>2. ASSUME NEW id \in EventIds, Deliver(p, id) \/ Resend(p, id)
      PROVE  TypeInv'
  <2>1. /\ id \in Recorded /\ Begin(p, id) /\ faults' \in 0..MaxFaults
        /\ UNCHANGED <<stripeVars, storeVars, hookVars>>
    BY <1>0, <1>2 DEF Deliver, Resend, Fault, TypeOK, StripeTypeOK
  <2>2. Recorded' = Recorded
    BY <2>1 DEF Recorded, stripeVars
  <2>3. JobsRecorded'
    BY <1>0, <2>1, <2>2 DEF Begin, JobsRecorded, TypeOK, StripeTypeOK
  <2>4. StripeTypeOK'
    BY <1>0, <2>1 DEF Begin, TypeOK, StripeTypeOK, PcStates, stripeVars, storeVars
  <2>5. WebhookTypeOK'
    BY <2>1 DEF TypeOK, WebhookTypeOK, hookVars
  <2> QED BY <2>3, <2>4, <2>5 DEF TypeOK
<1>3. ASSUME ProcessStep(p), UNCHANGED hookVars
      PROVE  TypeInv'
  BY <1>0, <1>3, ProcessType
<1>4. CASE Respond(p)
  <2>1. job[p] \in EventIds
    BY <1>4, Working DEF Respond
  <2> QED
    BY <1>0, <1>4, <2>1, ProcsKeepType
    DEF Respond, TypeOK, StripeTypeOK, WebhookTypeOK, stripeVars, storeVars, AttemptLimit
<1>5. ASSUME Refuse(p), faults' \in 0..MaxFaults, kv' \in [EventIds -> 0..AttemptLimit],
             UNCHANGED <<stripeVars, storeVars, pending, resolved, acked>>
      PROVE  TypeInv'
  BY <1>0, <1>5, ProcsKeepType
  DEF Refuse, TypeOK, StripeTypeOK, WebhookTypeOK, stripeVars, storeVars, AttemptLimit
<1>6. CASE ReadAttempts(p)
  <2>1. pc[p] # "idle" /\ job[p] \in EventIds
    BY <1>6, Working DEF ReadAttempts
  <2>2. \E r \in Replies : reply' = [reply EXCEPT ![p] = r]
    BY <1>0, <1>6 DEF ReadAttempts, TypeOK, StripeTypeOK
  <2>3. kv[job[p]] \in 0..AttemptLimit
    BY <2>1 DEF TypeOK, WebhookTypeOK
  <2>4. tries' \in [Handlers -> 0..AttemptLimit] /\ faults' \in 0..MaxFaults
    BY <1>0, <1>6, <2>3
    DEF ReadAttempts, AttemptLimit, Fault, TypeOK, StripeTypeOK, WebhookTypeOK
  <2>5. /\ pc' \in [Procs -> PcStates]
        /\ job' \in [Procs -> Ids \cup {NoJob}]
        /\ reply' \in [Procs -> Replies]
        /\ JobsRecorded'
    BY <1>0, <1>6, <2>1, <2>2, ProcsKeepType DEF ReadAttempts, stripeVars, PcStates
  <2> QED
    BY <1>6, <2>4, <2>5
    DEF ReadAttempts, TypeOK, StripeTypeOK, WebhookTypeOK, stripeVars, storeVars
<1>7. CASE KvUnavailable(p) \/ ParkFails(p) \/ Crash(p)
  BY <1>0, <1>5, <1>7
  DEF KvUnavailable, ParkFails, Crash, Fault, TypeOK, StripeTypeOK, WebhookTypeOK
<1>8. CASE WriteAttempts(p)
  <2>1. pc[p] # "idle" /\ job[p] \in EventIds
    BY <1>8, Working DEF WriteAttempts
  <2>2. kv' \in [EventIds -> 0..AttemptLimit] /\ faults' \in 0..MaxFaults
    BY <1>0, <1>8, <2>1
    DEF WriteAttempts, Fault, TypeOK, StripeTypeOK, WebhookTypeOK
  <2>3. CASE Refuse(p)
    BY <1>5, <1>8, <2>2, <2>3 DEF WriteAttempts
  <2>4. CASE Goto(p, "park") /\ UNCHANGED <<job, reply, tries>>
    <3>1. \E r \in Replies : reply' = [reply EXCEPT ![p] = r]
      BY <1>0, <2>4 DEF TypeOK, StripeTypeOK
    <3>2. /\ pc' \in [Procs -> PcStates]
          /\ job' \in [Procs -> Ids \cup {NoJob}]
          /\ reply' \in [Procs -> Replies]
          /\ JobsRecorded'
      BY <1>0, <1>8, <2>1, <2>4, <3>1, ProcsKeepType DEF WriteAttempts, stripeVars, PcStates
    <3> QED
      BY <1>8, <2>2, <2>4, <3>2
      DEF WriteAttempts, TypeOK, StripeTypeOK, WebhookTypeOK, stripeVars, storeVars
  <2> QED BY <1>8, <2>3, <2>4 DEF WriteAttempts
<1>9. CASE ParkEvent(p)
  <2>1. pc[p] # "idle" /\ job[p] \in EventIds
    BY <1>9, Working DEF ParkEvent
  <2>2. \E r \in Replies : reply' = [reply EXCEPT ![p] = r]
    BY <1>0, <1>9 DEF ParkEvent, TypeOK, StripeTypeOK
  <2>3. /\ pc' \in [Procs -> PcStates]
        /\ job' \in [Procs -> Ids \cup {NoJob}]
        /\ reply' \in [Procs -> Replies]
        /\ JobsRecorded'
    BY <1>0, <1>9, <2>1, <2>2, ProcsKeepType DEF ParkEvent, stripeVars, PcStates
  <2> QED
    BY <1>9, <2>1, <2>3
    DEF ParkEvent, TypeOK, StripeTypeOK, WebhookTypeOK, stripeVars, storeVars
<1> QED BY <1>2, <1>3, <1>4, <1>6, <1>7, <1>8, <1>9 DEF HandlerStep

\* Next preserves the inductive type invariant.
LEMMA TypeStep == TypeInv /\ [Next]_vars => TypeInv'
<1> SUFFICES ASSUME TypeInv, [Next]_vars PROVE TypeInv'
  OBVIOUS
<1>1. ASSUME NEW id \in EventIds, ResolveDlqEntry(id)
      PROVE  TypeInv'
  BY <1>1
  DEF ResolveDlqEntry, TypeInv, TypeOK, StripeTypeOK, WebhookTypeOK, JobsRecorded, Recorded,
      stripeVars, storeVars, procVars
<1>2. CASE UNCHANGED vars
  BY <1>2
  DEF vars, TypeInv, TypeOK, StripeTypeOK, WebhookTypeOK, JobsRecorded, Recorded,
      stripeVars, storeVars, procVars, hookVars
<1> QED BY <1>1, <1>2, StripeMovesType, HandlerType DEF Next

\* Type correctness, in its inductive form.
LEMMA TypeInvariant == Spec => []TypeInv
BY TypeInit, TypeStep, PTL DEF Spec

\* Every variable keeps its type: among others the retry counter stays within
\* its bound and only recorded events are ever acknowledged or parked.
THEOREM TypeCorrect == Spec => []TypeOK
<1>1. TypeInv => TypeOK
  BY DEF TypeInv
<1> QED BY <1>1, TypeInvariant, PTL

-----------------------------------------------------------------------------
(* The memberships change only with the ledger *)

\* A step that changes a membership is the commit of one recorded event.
LEMMA RowChange ==
  ASSUME TypeInv, Next, row' # row
  PROVE  \E id \in Recorded \ ledger :
            ledger' = ledger \cup {id} /\ row' = After(row, OpOf(id))
<1>1. PICK p \in Handlers : HandlerStep(p)
  BY DEF Next, StripeMoves, ResolveDlqEntry, storeVars
<1>2. ProcessStep(p) /\ Commit(job[p]) /\ pc[p] = "apply"
  BY <1>1
  DEF HandlerStep, Deliver, Resend, Respond, ReadAttempts, KvUnavailable, WriteAttempts,
      ParkEvent, ParkFails, Crash, ProcessStep, BuildPayload, RetrieveFails, ApplyFresh,
      ApplyDuplicate, ApplyRaises, ApplyCallFails, CancelOrphan, CancelOrphanFails, storeVars
<1>3. job[p] \in Recorded
  BY <1>2, Working
<1> QED BY <1>2, <1>3 DEF Commit

\* No interleaving of requests, retries and lost answers changes a membership
\* other than by the payload of one recorded event, once for its id.
THEOREM EffectsAreRecorded == Spec => EffectIsRecorded
<1>1. TypeInv /\ [Next]_vars =>
        [row' # row =>
          \E id \in Recorded \ ledger :
            ledger' = ledger \cup {id} /\ row' = After(row, OpOf(id))]_vars
  BY RowChange DEF vars, storeVars
<1> QED BY <1>1, TypeInvariant, PTL DEF Spec, EffectIsRecorded

-----------------------------------------------------------------------------
(* Acknowledged events are durable *)

\* A request that is going to answer 2xx, or that still has an orphan to cancel
\* first, has its event in the ledger or in the dead letter table.
AnswerIsDurable ==
    \A p \in Handlers :
        /\ pc[p] = "cancel" => job[p] \in ledger
        /\ pc[p] = "done"   => job[p] \in ledger \cup Parked

DurableInv == AnswerIsDurable /\ AckedIsDurable

\* A step of a request preserves DurableInv.
LEMMA DurableHandler ==
  ASSUME TypeInv, DurableInv, NEW p \in Handlers, HandlerStep(p)
  PROVE  DurableInv'
<1> USE DEF DurableInv, AnswerIsDurable, AckedIsDurable, Parked
<1>0. pc \in [Procs -> PcStates] /\ job \in [Procs -> Ids \cup {NoJob}] /\ p \in Procs
      /\ Handlers \subseteq Procs
  BY HandlersAssumption DEF TypeInv, TypeOK, StripeTypeOK
<1>1. ASSUME NEW id \in EventIds, Deliver(p, id) \/ Resend(p, id)
      PROVE  DurableInv'
  BY <1>0, <1>1 DEF Deliver, Resend, Begin, storeVars, hookVars
<1>2. ASSUME ProcessStep(p), UNCHANGED hookVars
      PROVE  DurableInv'
  <2>1. CASE ApplyFresh(p)
    BY <1>0, <1>2, <2>1 DEF ApplyFresh, Commit, hookVars
  <2>2. CASE ApplyDuplicate(p)
    BY <1>0, <1>2, <2>2 DEF ApplyDuplicate, storeVars, hookVars
  <2>3. CASE ApplyCallFails(p)
    BY <1>0, <1>2, <2>3 DEF ApplyCallFails, Commit, storeVars, hookVars
  <2>4. CASE CancelOrphan(p) \/ CancelOrphanFails(p)
    BY <1>0, <1>2, <2>4 DEF CancelOrphan, CancelOrphanFails, storeVars, hookVars
  <2>5. CASE BuildPayload(p) \/ RetrieveFails(p) \/ ApplyRaises(p)
    BY <1>0, <1>2, <2>5 DEF BuildPayload, RetrieveFails, ApplyRaises, storeVars, hookVars
  <2> QED BY <1>2, <2>1, <2>2, <2>3, <2>4, <2>5 DEF ProcessStep
<1>3. CASE Respond(p)
  BY <1>0, <1>3 DEF Respond, Reset, storeVars
<1>4. CASE KvUnavailable(p) \/ ParkFails(p) \/ Crash(p)
  BY <1>0, <1>4 DEF KvUnavailable, ParkFails, Crash, Refuse, Reset, storeVars
<1>5. CASE ReadAttempts(p) \/ WriteAttempts(p)
  BY <1>0, <1>5 DEF ReadAttempts, WriteAttempts, Refuse, Reset, storeVars
<1>6. CASE ParkEvent(p)
  BY <1>0, <1>6 DEF ParkEvent, storeVars
<1> QED BY <1>1, <1>2, <1>3, <1>4, <1>5, <1>6 DEF HandlerStep

\* Next preserves DurableInv.
LEMMA DurableStep == TypeInv /\ DurableInv /\ [Next]_vars => DurableInv'
<1> SUFFICES ASSUME TypeInv, DurableInv, [Next]_vars PROVE DurableInv'
  OBVIOUS
<1> USE DEF DurableInv, AnswerIsDurable, AckedIsDurable, Parked
<1>1. CASE StripeMoves
  BY <1>1 DEF StripeMoves, storeVars, procVars, hookVars
<1>2. ASSUME NEW id \in EventIds, ResolveDlqEntry(id)
      PROVE  DurableInv'
  BY <1>2 DEF ResolveDlqEntry, storeVars, procVars
<1>3. CASE UNCHANGED vars
  BY <1>3 DEF vars, storeVars, procVars, hookVars
<1> QED BY <1>1, <1>2, <1>3, DurableHandler DEF Next

\* DurableInv is an invariant of the webhook.
LEMMA DurableInvariant == Spec => []DurableInv
<1>1. Init => DurableInv
  BY HandlersAssumption
     DEF Init, StripeInit, WebhookInit, DurableInv, AnswerIsDurable, AckedIsDurable
<1> QED BY <1>1, DurableStep, TypeInvariant, PTL DEF Spec

\* Stripe gets a 2xx answer only for an event that is applied or kept in the
\* dead letter table.
THEOREM AckedDurable == Spec => []AckedIsDurable
<1>1. DurableInv => AckedIsDurable
  BY DEF DurableInv
<1> QED BY <1>1, DurableInvariant, PTL

-----------------------------------------------------------------------------
(* One active membership for each owner *)

\* A transaction that does not abort leaves one active row per owner.
LEMMA AfterOneActive ==
  ASSUME NEW table \in Tables, NEW op \in Ops, OneActive(table), ~Raises(table, op)
  PROVE  OneActive(After(table, op))
<1>1. CASE ~Writes(table, op) \/ op.status # "active"
  BY <1>1 DEF After, OneActive, Tables, Ops
<1>2. CASE Writes(table, op) /\ op.status = "active"
  <2>1. ~SlotTaken(table, op.sub)
    BY <1>2 DEF Writes, Raises, Orphans
  <2> QED BY <1>2, <2>1 DEF After, OneActive, SlotTaken, Tables, Ops
<1> QED BY <1>1, <1>2

\* Whatever is delivered, in whatever order, an owner has one active membership.
THEOREM OneActiveAlways == Spec => []OneActiveMembership
<1> USE DEF OneActiveMembership
<1>1. Init => OneActive(row)
  BY DEF Init, StripeInit, EmptyTable, OneActive
<1>2. TypeInv /\ OneActive(row) /\ [Next]_vars => OneActive(row)'
  <2> SUFFICES ASSUME TypeInv, OneActive(row), [Next]_vars PROVE OneActive(row)'
    OBVIOUS
  <2>1. CASE row' = row
    BY <2>1 DEF OneActive
  <2>2. CASE row' # row
    <3>1. Next
      BY <2>2 DEF vars, storeVars
    <3>2. PICK p \in Handlers : pc[p] = "apply" /\ Commit(job[p])
      BY <2>2, <3>1
      DEF Next, StripeMoves, ResolveDlqEntry, HandlerStep, Deliver, Resend, Respond,
          ReadAttempts, KvUnavailable, WriteAttempts, ParkEvent, ParkFails, Crash, ProcessStep,
          BuildPayload, RetrieveFails, ApplyFresh, ApplyDuplicate, ApplyRaises, ApplyCallFails,
          CancelOrphan, CancelOrphanFails, storeVars
    <3>3. OpOf(job[p]) \in Ops /\ row \in Tables
      BY <3>2, Working DEF TypeInv, TypeOK, StripeTypeOK
    <3>4. OneActive(After(row, OpOf(job[p])))
      BY <3>2, <3>3, AfterOneActive DEF Commit
    <3> QED BY <3>2, <3>4 DEF Commit, OneActive
  <2> QED BY <2>1, <2>2
<1> QED BY <1>1, <1>2, TypeInvariant, PTL DEF Spec

-----------------------------------------------------------------------------
(* The orphan branch never cancels a member's own subscription *)

IsCheckout(i) == events[i].type = "checkout_completed"

\* Stripe completes one checkout for a subscription, and only at its birth.
CheckoutOnce ==
    /\ \A i \in DOMAIN events : IsCheckout(i) => stripe[events[i].sub] # "none"
    /\ \A i, j \in DOMAIN events :
          IsCheckout(i) /\ IsCheckout(j) /\ events[i].sub = events[j].sub => i = j

\* A row exists only after the subscription's checkout was recorded.
RowHasCheckout ==
    \A s \in Subs : row[s] # "none" =>
        \E i \in DOMAIN events : IsCheckout(i) /\ events[i].sub = s /\ Live(i) \in ledger

\* The orphan to cancel is the subscription of a recorded checkout without a row.
OrphanRefused ==
    \A p \in Procs : pc[p] = "cancel" =>
        /\ job[p] \in ledger
        /\ EventOf(job[p]).type = "checkout_completed"
        /\ row[EventOf(job[p]).sub] = "none"

\* No process but the requests works on events.
OnlyRequests == \A p \in Procs : pc[p] # "idle" => p \in Handlers

OrphanInv == CheckoutOnce /\ RowHasCheckout /\ OrphanRefused /\ OnlyRequests

\* A payload is about its event's subscription, and only checkouts create.
LEMMA PayloadSub ==
  ASSUME NEW e \in Events
  PROVE  /\ Payload(e).sub = e.sub
         /\ Payload(e).kind = "create" => e.type = "checkout_completed"
BY DEF Events, EventTypes, Payload, Create, Renew, Update, Cancel, Noop

\* A transaction touches one row; only a checkout that is no orphan makes one.
LEMMA ApplyOne ==
  ASSUME NEW table \in Tables, NEW op \in Ops
  PROVE  /\ \A s \in Subs \ {op.sub} : After(table, op)[s] = table[s]
         /\ op.kind # "create" /\ table[op.sub] = "none" => After(table, op) = table
         /\ Orphans(table, op) => After(table, op) = table
         /\ table[op.sub] = "none" /\ After(table, op) # table => op.kind = "create"
BY DEF After, Writes, Orphans, Updates, Tables, Ops

\* What happens at Stripe keeps checkouts unique.
LEMMA CheckoutStripe ==
  ASSUME TypeInv, CheckoutOnce, NEW s \in Subs, StripeStep(s)
  PROVE  CheckoutOnce'
<1>0. stripe \in [Subs -> StripeStatuses \cup {"none"}] /\ events \in Seq(Events)
  BY DEF TypeInv, TypeOK, StripeTypeOK
<1>1. ASSUME NEW t, NEW st \in StripeStatuses, Emit(t, s, st),
             t = "checkout_completed" => stripe[s] = "none",
             t \in EventTypes
      PROVE  CheckoutOnce'
  <2> DEFINE e == [type |-> t, sub |-> s, status |-> st]
  <2>1. e \in Events /\ events' = Append(events, e) /\ stripe' = [stripe EXCEPT ![s] = st]
    BY <1>1 DEF Events, Emit
  <2>2. /\ DOMAIN events' = 1..(Len(events) + 1) /\ DOMAIN events = 1..Len(events)
        /\ \A i \in DOMAIN events : events'[i] = events[i] /\ events[i].sub \in Subs
        /\ events'[Len(events) + 1] = e
        /\ Len(events) \in Nat
    <3> HIDE DEF e
    <3>1. /\ events' \in Seq(Events) /\ Len(events') = Len(events) + 1
          /\ events'[Len(events')] = e /\ \A i \in DOMAIN events : events'[i] = events[i]
      BY <1>0, <2>1, EmitKeeps
    <3>2. Len(events) \in Nat /\ DOMAIN events = 1..Len(events)
      BY <1>0
    <3>3. DOMAIN events' = 1..Len(events')
      BY <3>1
    <3>4. \A i \in DOMAIN events : events[i].sub \in Subs
      <4>1. \A i \in DOMAIN events : events[i] \in Events
        BY <1>0
      <4>2. \A x \in Events : x.sub \in Subs
        BY DEF Events
      <4> QED BY <4>1, <4>2
    <3> QED BY <3>1, <3>2, <3>3, <3>4
  <2>3. st # "none" /\ stripe'[s] = st /\ \A x \in Subs \ {s} : stripe'[x] = stripe[x]
    BY <1>0, <2>1 DEF StripeStatuses
  <2>4. \A i \in DOMAIN events' : i # Len(events) + 1 => i \in DOMAIN events
    BY <2>2
  <2>5. \A i \in DOMAIN events' : IsCheckout(i)' => stripe'[events'[i].sub] # "none"
    BY <2>2, <2>3, <2>4 DEF CheckoutOnce, IsCheckout
  <2>6. \A i, j \in DOMAIN events' :
          IsCheckout(i)' /\ IsCheckout(j)' /\ events'[i].sub = events'[j].sub => i = j
    BY <1>1, <2>2, <2>4 DEF CheckoutOnce, IsCheckout
  <2> QED BY <2>5, <2>6 DEF CheckoutOnce
<1>2. stripe[s] # "none" => stripe[s] \in StripeStatuses
  BY <1>0
<1>3. CASE Unsubscribe(s)
  BY <1>0, <1>3 DEF Unsubscribe, CheckoutOnce, IsCheckout
<1>4. CASE Subscribe(s) \/ Bill(s) \/ PaymentFails(s) \/ Pause(s) \/ NotifyDeleted(s)
  BY <1>1, <1>4 DEF Subscribe, Bill, PaymentFails, Pause, NotifyDeleted, EventTypes,
                    StripeStatuses
<1>5. CASE Change(s)
  BY <1>1, <1>5 DEF Change, EventTypes, StripeStatuses
<1>6. CASE ChangePrice(s)
  BY <1>1, <1>2, <1>6 DEF ChangePrice, EventTypes, Ended
<1>7. CASE MoneyBack(s)
  BY <1>1, <1>2, <1>7 DEF MoneyBack, EventTypes
<1> QED BY <1>3, <1>4, <1>5, <1>6, <1>7 DEF StripeStep

\* A step at Stripe preserves OrphanInv.
LEMMA OrphanStripe ==
  ASSUME TypeInv, OrphanInv, StripeMoves
  PROVE  OrphanInv'
<1>1. PICK s \in Subs : StripeStep(s) /\ UNCHANGED <<storeVars, procVars, faults, hookVars>>
  BY DEF StripeMoves
<1>2. CheckoutOnce'
  BY <1>1, CheckoutStripe DEF OrphanInv
<1>3. /\ Recorded \subseteq Recorded' /\ DOMAIN events \subseteq DOMAIN events'
      /\ \A i \in DOMAIN events : events'[i] = events[i]
  <2>1. CASE UNCHANGED events
    BY <2>1 DEF Recorded
  <2>2. CASE \E e \in Events : events' = Append(events, e)
    BY <2>2, EmitKeeps DEF TypeInv, TypeOK, StripeTypeOK
  <2> QED BY <1>1, <2>1, <2>2, StripeStepEffect
<1>4. RowHasCheckout'
  BY <1>1, <1>3 DEF OrphanInv, RowHasCheckout, IsCheckout, storeVars
<1>5. \A p \in Procs : pc[p] = "cancel" => EventOf(job[p])' = EventOf(job[p])
  <2> SUFFICES ASSUME NEW p \in Procs, pc[p] = "cancel"
               PROVE  EventOf(job[p])' = EventOf(job[p])
    OBVIOUS
  <2>1. job' = job
    BY <1>1 DEF procVars
  <2>2. PICK i \in DOMAIN events : job[p] = Live(i)
    BY DEF TypeInv, JobsRecorded, Recorded, OrphanInv, OnlyRequests
  <2> QED BY <1>3, <2>1, <2>2 DEF EventOf, Live
<1>6. OrphanRefused'
  BY <1>1, <1>5 DEF OrphanInv, OrphanRefused, storeVars, procVars
<1>7. OnlyRequests'
  BY <1>1 DEF OrphanInv, OnlyRequests, procVars
<1> QED BY <1>2, <1>4, <1>6, <1>7 DEF OrphanInv

\* A commit in which process p handles its event.
LEMMA OrphanCommit ==
  ASSUME TypeInv, OrphanInv, NEW p \in Handlers, pc[p] = "apply", Commit(job[p]),
         UNCHANGED <<stripeVars, job>>, OnlyRequests',
         \A q \in Procs : pc'[q] = "cancel" =>
            pc[q] = "cancel" \/ (q = p /\ Orphans(row, OpOf(job[p])))
  PROVE  OrphanInv'
<1>0. /\ p \in Procs /\ job[p] \in Recorded /\ EventOf(job[p]) \in Events
      /\ OpOf(job[p]) \in Ops
      /\ row \in Tables
  BY Working DEF TypeInv, TypeOK, StripeTypeOK
<1> DEFINE op == OpOf(job[p])
           e == EventOf(job[p])
<1>1. PICK k \in DOMAIN events : job[p] = Live(k)
  BY <1>0 DEF Recorded
<1>2. e = events[k] /\ op.sub = e.sub /\ (op.kind = "create" => IsCheckout(k)) /\ e.sub \in Subs
  BY <1>0, <1>1, PayloadSub DEF EventOf, Live, OpOf, IsCheckout, Events
<1>3. row' = After(row, op) /\ ledger' = ledger \cup {job[p]} /\ job[p] \notin ledger
  BY DEF Commit
<1>4. UNCHANGED events /\ UNCHANGED stripe /\ job' = job
  BY DEF stripeVars
<1>5. CheckoutOnce'
  BY <1>4 DEF OrphanInv, CheckoutOnce, IsCheckout
<1>6. RowHasCheckout'
  <2> SUFFICES ASSUME NEW s \in Subs, row'[s] # "none"
               PROVE  \E i \in DOMAIN events : IsCheckout(i) /\ events[i].sub = s /\ Live(i) \in ledger'
    BY <1>4 DEF RowHasCheckout, IsCheckout
  <2>1. CASE row[s] # "none"
    BY <1>3, <2>1 DEF OrphanInv, RowHasCheckout
  <2>2. CASE row[s] = "none"
    <3>1. s = op.sub /\ op.kind = "create"
      BY <1>0, <1>3, <2>2, ApplyOne
    <3> QED BY <1>1, <1>2, <1>3, <3>1
  <2> QED BY <2>1, <2>2
<1>7. OrphanRefused'
  <2> SUFFICES ASSUME NEW q \in Procs, pc'[q] = "cancel"
               PROVE  /\ job[q] \in ledger'
                      /\ EventOf(job[q]).type = "checkout_completed"
                      /\ row'[EventOf(job[q]).sub] = "none"
    BY <1>4 DEF OrphanRefused, EventOf
  <2>1. CASE pc[q] = "cancel"
    <3>1. /\ job[q] \in ledger /\ EventOf(job[q]).type = "checkout_completed"
          /\ row[EventOf(job[q]).sub] = "none"
      BY <2>1 DEF OrphanInv, OrphanRefused
    <3>2. job[q] \in Recorded
      BY <2>1 DEF TypeInv, JobsRecorded, OrphanInv, OnlyRequests
    <3>3. PICK i \in DOMAIN events : job[q] = Live(i)
      BY <3>2 DEF Recorded
    <3>4. EventOf(job[q]) = events[i] /\ events[i].sub \in Subs /\ IsCheckout(i)
      BY <3>1, <3>2, <3>3, EventOfRecorded
         DEF EventOf, Live, IsCheckout, TypeInv, TypeOK, StripeTypeOK, Events
    <3>5. events[i].sub = op.sub => op.kind # "create"
      <4> SUFFICES ASSUME events[i].sub = op.sub, op.kind = "create" PROVE FALSE
        OBVIOUS
      <4>1. i = k
        BY <1>2, <3>4 DEF OrphanInv, CheckoutOnce
      <4> QED BY <1>1, <1>3, <3>1, <3>3, <4>1
    <3>6. row'[events[i].sub] = row[events[i].sub]
      BY <1>0, <1>3, <3>1, <3>4, <3>5, ApplyOne
    <3> QED BY <1>3, <3>1, <3>4, <3>6
  <2>2. CASE q = p /\ Orphans(row, op)
    <3>1. row' = row /\ op.kind = "create"
      BY <1>0, <1>3, <2>2, ApplyOne DEF Orphans
    <3>2. row[op.sub] = "none"
      <4> SUFFICES ASSUME row[op.sub] # "none" PROVE FALSE
        OBVIOUS
      <4>1. PICK i \in DOMAIN events : IsCheckout(i) /\ events[i].sub = op.sub /\ Live(i) \in ledger
        BY <1>2 DEF OrphanInv, RowHasCheckout
      <4>2. i = k
        BY <1>2, <3>1, <4>1 DEF OrphanInv, CheckoutOnce
      <4> QED BY <1>1, <1>3, <4>1, <4>2
    <3> QED BY <1>2, <1>3, <2>2, <3>1, <3>2 DEF IsCheckout
  <2> QED BY <2>1, <2>2
<1> QED BY <1>5, <1>6, <1>7 DEF OrphanInv

\* A step of a request preserves OrphanInv.
LEMMA OrphanHandler ==
  ASSUME TypeInv, OrphanInv, NEW p \in Handlers, HandlerStep(p)
  PROVE  OrphanInv'
<1>0. p \in Procs /\ pc \in [Procs -> PcStates] /\ job \in [Procs -> Ids \cup {NoJob}]
  BY HandlersAssumption DEF TypeInv, TypeOK, StripeTypeOK
<1>9. OnlyRequests'
  <2>1. \A q \in Procs \ {p} : pc'[q] = pc[q]
    BY <1>0
    DEF HandlerStep, Deliver, Resend, Respond, ReadAttempts, KvUnavailable, WriteAttempts,
        ParkEvent, ParkFails, Crash, ProcessStep, BuildPayload, RetrieveFails, ApplyFresh,
        ApplyDuplicate, ApplyRaises, ApplyCallFails, CancelOrphan, CancelOrphanFails, Begin,
        Refuse, Reset
  <2> QED BY <2>1 DEF OrphanInv, OnlyRequests
<1>1. ASSUME UNCHANGED <<events, storeVars>>,
             \A s \in Subs : stripe[s] # "none" => stripe'[s] # "none",
             \A q \in Procs : pc'[q] = "cancel" => pc[q] = "cancel" /\ job'[q] = job[q]
      PROVE  OrphanInv'
  <2>1. \A i \in DOMAIN events : events[i].sub \in Subs
    <3>1. \A i \in DOMAIN events : events[i] \in Events
      BY DEF TypeInv, TypeOK, StripeTypeOK
    <3>2. \A x \in Events : x.sub \in Subs
      BY DEF Events
    <3> QED BY <3>1, <3>2
  <2>2. CheckoutOnce'
    BY <1>1, <2>1 DEF OrphanInv, CheckoutOnce, IsCheckout
  <2>3. RowHasCheckout'
    BY <1>1 DEF OrphanInv, RowHasCheckout, IsCheckout, storeVars
  <2>4. OrphanRefused'
    BY <1>1 DEF OrphanInv, OrphanRefused, EventOf, storeVars
  <2> QED BY <1>9, <2>2, <2>3, <2>4 DEF OrphanInv
<1>2. ASSUME NEW id \in EventIds, Deliver(p, id) \/ Resend(p, id)
      PROVE  OrphanInv'
  BY <1>0, <1>1, <1>2 DEF Deliver, Resend, Begin, stripeVars
<1>3. CASE Respond(p) \/ ReadAttempts(p) \/ ParkEvent(p)
  BY <1>0, <1>1, <1>3 DEF Respond, ReadAttempts, ParkEvent, Reset, stripeVars
<1>4. CASE KvUnavailable(p) \/ WriteAttempts(p) \/ ParkFails(p) \/ Crash(p)
  BY <1>0, <1>1, <1>4 DEF KvUnavailable, WriteAttempts, ParkFails, Crash, Refuse, Reset, stripeVars
<1>5. CASE BuildPayload(p) \/ RetrieveFails(p) \/ ApplyDuplicate(p) \/ ApplyRaises(p)
           \/ CancelOrphanFails(p)
  BY <1>0, <1>1, <1>5
  DEF BuildPayload, RetrieveFails, ApplyDuplicate, ApplyRaises, CancelOrphanFails, stripeVars
<1>6. CASE CancelOrphan(p)
  <2>1. stripe \in [Subs -> StripeStatuses \cup {"none"}]
    BY DEF TypeInv, TypeOK, StripeTypeOK
  <2> QED BY <1>0, <1>1, <1>6, <2>1 DEF CancelOrphan
<1>7. CASE ApplyFresh(p)
  <2>1. Reply(row, OpOf(job[p])) = "orphan" => Orphans(row, OpOf(job[p]))
    BY ReplyIsOrphan
  <2>2. \A q \in Procs : pc'[q] = "cancel" =>
            pc[q] = "cancel" \/ (q = p /\ Orphans(row, OpOf(job[p])))
    BY <1>0, <1>7, <2>1 DEF ApplyFresh
  <2> QED BY <1>7, <1>9, <2>2, OrphanCommit DEF ApplyFresh
<1>8. CASE ApplyCallFails(p)
  <2>1. \A q \in Procs : pc'[q] = "cancel" => pc[q] = "cancel"
    BY <1>0, <1>8 DEF ApplyCallFails
  <2>2. CASE Commit(job[p])
    BY <1>8, <1>9, <2>1, <2>2, OrphanCommit DEF ApplyCallFails
  <2>3. CASE UNCHANGED storeVars
    BY <1>1, <1>8, <2>1, <2>3 DEF ApplyCallFails, stripeVars
  <2> QED BY <1>8, <2>2, <2>3 DEF ApplyCallFails
<1> QED BY <1>2, <1>3, <1>4, <1>5, <1>6, <1>7, <1>8 DEF HandlerStep, ProcessStep

\* Next preserves OrphanInv.
LEMMA OrphanStep == TypeInv /\ OrphanInv /\ [Next]_vars => OrphanInv'
<1> SUFFICES ASSUME TypeInv, OrphanInv, [Next]_vars PROVE OrphanInv'
  OBVIOUS
<1>1. ASSUME UNCHANGED <<stripeVars, storeVars, procVars>>
      PROVE  OrphanInv'
  BY <1>1
  DEF OrphanInv, CheckoutOnce, RowHasCheckout, OrphanRefused, OnlyRequests, IsCheckout, EventOf, stripeVars,
      storeVars, procVars
<1>2. CASE \E id \in EventIds : ResolveDlqEntry(id)
  BY <1>1, <1>2 DEF ResolveDlqEntry
<1>3. CASE UNCHANGED vars
  BY <1>1, <1>3 DEF vars
<1> QED BY <1>2, <1>3, OrphanStripe, OrphanHandler DEF Next

\* OrphanInv is an invariant of the webhook.
LEMMA OrphanInvariant == Spec => []OrphanInv
<1>1. Init => OrphanInv
  BY DEF Init, StripeInit, EmptyTable, OrphanInv, CheckoutOnce, RowHasCheckout, OrphanRefused,
         OnlyRequests
<1> QED BY <1>1, OrphanStep, TypeInvariant, PTL DEF Spec

\* Driven by the webhook alone, the orphan branch never cancels the
\* subscription that pays for a membership row.
THEOREM OrphansHaveNoRow == Spec => []OrphanHasNoRow
<1>1. OrphanInv => OrphanHasNoRow
  BY DEF OrphanInv, OrphanRefused, OrphanHasNoRow
<1> QED BY <1>1, OrphanInvariant, PTL
=============================================================================
