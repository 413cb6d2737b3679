-------------------------- MODULE StripeSyncProofs --------------------------
(***************************************************************************)
(* Proofs about StripeSync, the webhook with the cron beside it, for every *)
(* set of subscriptions, owners and handlers and every bound.              *)
(***************************************************************************)
EXTENDS StripeSync, MembershipWebhookProofs

USE DEF Goto

\* The phases whose loop goes over events.
EventPhases == {"off", "list", "replay"}

\* What the run carries from one step to the next: events of Stripe to replay,
\* then subscriptions to compare, and never a deactivation Stripe has not
\* confirmed, though it is written two steps after the answer was read.
RunInv ==
    /\ left \subseteq IF phase \in EventPhases THEN Recorded ELSE Subs
    /\ phase \in {"correct", "deactivate"} => cur \in Subs
    /\ phase = "deactivate" => stripe[cur] \in TerminalAtStripe

\* Inductive invariant for type correctness.
SyncInv == TypeInv /\ SyncTypeOK /\ RunInv

-----------------------------------------------------------------------------
(* The webhook beside the cron *)

\* A step of the webhook leaves the recorded events where they are, and a
\* subscription that has ended stays ended.
LEMMA WebhookKeeps ==
  ASSUME TypeInv, [Next]_vars
  PROVE  /\ Recorded \subseteq Recorded' /\ Len(events) <= Len(events')
         /\ \A id \in Recorded \cup Synthetics : EventOf(id)' = EventOf(id)
         /\ \A s \in Subs : stripe[s] \in TerminalAtStripe => stripe'[s] \in TerminalAtStripe
         /\ \A s \in Subs : stripe[s] = "canceled" => stripe'[s] = "canceled"
<1>0. stripe \in [Subs -> StripeStatuses \cup {"none"}] /\ events \in Seq(Events)
  BY DEF TypeInv, TypeOK, StripeTypeOK
<1>1. CASE UNCHANGED events /\ UNCHANGED stripe
  BY <1>0, <1>1 DEF Recorded, EventOf, Synthetics
<1>2. CASE StripeMoves
  <2>1. PICK s \in Subs : StripeStep(s)
    BY <1>2 DEF StripeMoves
  <2>2. /\ Recorded \subseteq Recorded' /\ Len(events) <= Len(events')
        /\ \A i \in DOMAIN events : events'[i] = events[i]
    <3>1. CASE UNCHANGED events
      BY <1>0, <3>1 DEF Recorded
    <3>2. CASE \E e \in Events : events' = Append(events, e)
      BY <1>0, <3>2, EmitKeeps
    <3> QED BY <2>1, <3>1, <3>2, StripeStepEffect
  <2>3. \A id \in Recorded \cup Synthetics : EventOf(id)' = EventOf(id)
    BY <2>2 DEF Recorded, Synthetics, EventOf, Live, Synthetic
  <2>4. \A t \in Subs \ {s} : stripe'[t] = stripe[t]
    BY <1>0, <2>1
    DEF StripeStep, Subscribe, Bill, PaymentFails, Pause, Change, ChangePrice, Unsubscribe,
        NotifyDeleted, MoneyBack, Emit
  <2>5. stripe[s] \in {"canceled", "incomplete_expired"} => stripe'[s] = stripe[s]
    BY <1>0, <2>1
    DEF StripeStep, Subscribe, Bill, PaymentFails, Pause, Change, ChangePrice, Unsubscribe,
        NotifyDeleted, MoneyBack, Emit, Ended
  <2> QED BY <2>2, <2>3, <2>4, <2>5 DEF TerminalAtStripe
<1>3. ASSUME NEW p \in Handlers, HandlerStep(p)
      PROVE  /\ UNCHANGED events
             /\ UNCHANGED stripe \/ \E s \in Subs : stripe' = [stripe EXCEPT ![s] = "canceled"]
  <2>1. CASE CancelOrphan(p)
    <3>1. EventOf(job[p]).sub \in Subs
      BY <2>1, Working DEF CancelOrphan, Events
    <3> QED BY <2>1, <3>1 DEF CancelOrphan
  <2>2. CASE ~CancelOrphan(p)
    BY <1>3, <2>2
    DEF HandlerStep, Deliver, Resend, Respond, ReadAttempts, KvUnavailable, WriteAttempts,
        ParkEvent, ParkFails, Crash, ProcessStep, BuildPayload, RetrieveFails, ApplyFresh,
        ApplyDuplicate, ApplyRaises, ApplyCallFails, CancelOrphanFails, stripeVars
  <2> QED BY <2>1, <2>2
<1>4. ASSUME NEW p \in Handlers, HandlerStep(p)
      PROVE  /\ UNCHANGED events
             /\ \A s \in Subs : stripe'[s] = stripe[s] \/ stripe'[s] = "canceled"
  BY <1>0, <1>3, <1>4
<1>5. CASE \E p \in Handlers : HandlerStep(p)
  BY <1>0, <1>4, <1>5 DEF Recorded, Synthetics, EventOf, TerminalAtStripe
<1>6. CASE \E id \in EventIds : ResolveDlqEntry(id)
  BY <1>1, <1>6 DEF ResolveDlqEntry, stripeVars
<1>7. CASE UNCHANGED vars
  BY <1>1, <1>7 DEF vars, stripeVars
<1> QED BY <1>2, <1>5, <1>6, <1>7 DEF Next

-----------------------------------------------------------------------------
(* Type correctness *)

\* processStripeEvent, whoever runs it, may end one subscription.
LEMMA ProcessKeeps ==
  ASSUME TypeInv, NEW p \in Procs, ProcessStep(p)
  PROVE  /\ UNCHANGED events
         /\ \A s \in Subs : stripe'[s] = stripe[s] \/ stripe'[s] = "canceled"
<1>0. stripe \in [Subs -> StripeStatuses \cup {"none"}]
  BY DEF TypeInv, TypeOK, StripeTypeOK
<1>1. CASE CancelOrphan(p)
  <2>1. EventOf(job[p]).sub \in Subs
    BY <1>1, AtWork DEF CancelOrphan, Events
  <2> QED BY <1>0, <1>1, <2>1 DEF CancelOrphan
<1>2. CASE ~CancelOrphan(p)
  BY <1>2
  DEF ProcessStep, BuildPayload, RetrieveFails, ApplyFresh, ApplyDuplicate, ApplyRaises,
      ApplyCallFails, CancelOrphanFails, stripeVars
<1> QED BY <1>1, <1>2

\* The types without the run, when the tables change by a correction.
LEMMA HookType ==
  ASSUME TypeInv, UNCHANGED <<stripeVars, ledger, hookVars>>, row' \in Tables,
         faults' \in 0..MaxFaults,
         \/ UNCHANGED procVars
         \/ Reset(Cron)
         \/ \E id \in Recorded \cup Synthetics : Begin(Cron, id)
  PROVE  TypeInv'
<1>0. /\ pc \in [Procs -> PcStates] /\ job \in [Procs -> Ids \cup {NoJob}]
      /\ reply \in [Procs -> Replies] /\ JobsRecorded
      /\ Cron \in Procs /\ Cron \notin Handlers
      /\ Recorded \cup Synthetics \subseteq Ids
  BY RecordedIds, CronAssumption DEF TypeInv, TypeOK, StripeTypeOK, Ids, Synthetics
<1>1. Recorded' = Recorded
  BY DEF Recorded, stripeVars
<1>2. /\ pc' \in [Procs -> PcStates] /\ job' \in [Procs -> Ids \cup {NoJob}]
      /\ reply' \in [Procs -> Replies]
  <2>1. CASE UNCHANGED procVars
    BY <1>0, <2>1 DEF procVars
  <2>2. CASE Reset(Cron)
    BY <1>0, <2>2 DEF Reset, PcStates, Replies
  <2>3. CASE \E id \in Recorded \cup Synthetics : Begin(Cron, id)
    BY <1>0, <2>3 DEF Begin, PcStates
  <2> QED BY <2>1, <2>2, <2>3
<1>3. \A q \in Procs : pc'[q] # "idle" =>
        \/ pc[q] # "idle" /\ job'[q] = job[q]
        \/ q = Cron /\ job'[q] \in Recorded \cup Synthetics
  <2>1. CASE UNCHANGED procVars
    BY <2>1 DEF procVars
  <2>2. CASE Reset(Cron)
    BY <1>0, <2>2 DEF Reset
  <2>3. CASE \E id \in Recorded \cup Synthetics : Begin(Cron, id)
    BY <1>0, <2>3 DEF Begin
  <2> QED BY <2>1, <2>2, <2>3
<1>4. JobsRecorded'
  BY <1>0, <1>1, <1>3 DEF JobsRecorded
<1> QED
  BY <1>2, <1>4
  DEF TypeInv, TypeOK, StripeTypeOK, WebhookTypeOK, stripeVars, hookVars

\* A step of the cron preserves SyncInv.
LEMMA SyncCron ==
  ASSUME SyncInv, SyncStep
  PROVE  SyncInv'
<1> USE DEF SyncInv
<1>0. /\ Cron \in Procs
      /\ row \in Tables /\ faults \in 0..MaxFaults /\ ledger \subseteq Ids
      /\ events \in Seq(Events) /\ Len(events) <= MaxEvents
      /\ stripe \in [Subs -> StripeStatuses \cup {"none"}]
      /\ Recorded \subseteq EventIds /\ Recorded = {Live(i) : i \in 1..Len(events)}
      /\ MaxFaults \in Nat
  BY RecordedIds, CronAssumption, StripeAssumption DEF TypeInv, TypeOK, StripeTypeOK
<1>1. Fault => faults' \in 0..MaxFaults
  BY <1>0 DEF Fault
<1>2. ASSUME TypeInv', UNCHANGED <<stripeVars, hookVars, horizon>>,
             phase' \in Phases, seen' \subseteq Ids,
             left' \subseteq IF phase' \in EventPhases THEN Recorded ELSE Subs,
             cur' \in Subs \cup {NoJob},
             phase' \in {"correct", "deactivate"} => cur' \in Subs,
             phase' = "deactivate" => stripe[cur'] \in TerminalAtStripe
      PROVE  SyncInv'
  BY <1>0, <1>2 DEF SyncTypeOK, RunInv, TypeInv, Recorded, stripeVars
<1>3. UNCHANGED hookState => TypeInv'
  BY <1>0, HookType DEF hookState, storeVars
<1>4. CASE ReadLedger \/ ListMembers \/ SubsDone \/ MembersDone
  BY <1>0, <1>2, <1>3, <1>4
  DEF ReadLedger, ListMembers, SubsDone, MembersDone, EndRun, hookState, SyncTypeOK, RunInv,
      Phases, EventPhases
<1>5. CASE ListEvents
  <2>1. left' \subseteq Recorded
    BY <1>5 DEF ListEvents, Recorded
  <2>2. UNCHANGED <<stripeVars, hookVars, seen, cur, horizon>> /\ phase' = "replay"
    BY <1>5 DEF ListEvents, hookState
  <2> QED BY <1>2, <1>3, <1>5, <2>1, <2>2
      DEF ListEvents, SyncTypeOK, Phases, EventPhases
<1>6. CASE ListActiveSubs
  BY <1>0, <1>2, <1>3, <1>6 DEF ListActiveSubs, hookState, SyncTypeOK, RunInv, Phases,
     EventPhases
<1>7. CASE \E s \in Subs : SkipMembership(s) \/ FindStale(s) \/ RetrieveSub(s)
  <2>1. PICK s \in Subs : SkipMembership(s) \/ FindStale(s) \/ RetrieveSub(s)
    BY <1>7
  <2>2. UNCHANGED <<hookState, seen, horizon>> /\ left' = left \ {s}
    BY <2>1 DEF SkipMembership, FindStale, RetrieveSub
  <2>3. TypeInv' /\ UNCHANGED <<stripeVars, hookVars>>
    BY <1>3, <2>2 DEF hookState
  <2>4. CASE SkipMembership(s)
    BY <1>2, <2>2, <2>3, <2>4 DEF SkipMembership, SyncTypeOK, RunInv, EventPhases
  <2>5. CASE FindStale(s)
    BY <1>2, <2>2, <2>3, <2>5 DEF FindStale, SyncTypeOK, RunInv, Phases, EventPhases
  <2>6. CASE RetrieveSub(s)
    BY <1>2, <2>2, <2>3, <2>6 DEF RetrieveSub, SyncTypeOK, RunInv, Phases, EventPhases
  <2> QED BY <2>1, <2>4, <2>5, <2>6
<1>8. CASE ReplayEvent
  <2>1. PICK id \in left : Begin(Cron, id) /\ left' = left \ {id}
    BY <1>8 DEF ReplayEvent
  <2>2. id \in Recorded
    BY <1>8, <2>1 DEF ReplayEvent, RunInv, EventPhases
  <2>3. TypeInv'
    BY <1>0, <1>8, <2>1, <2>2, HookType DEF ReplayEvent, storeVars
  <2> QED BY <1>2, <1>8, <2>1, <2>3 DEF ReplayEvent, SyncTypeOK, RunInv
<1>9. ASSUME NEW s \in Subs, RecreateMembership(s)
      PROVE  SyncInv'
  <2>1. TypeInv'
    BY <1>0, <1>1, <1>9, HookType DEF RecreateMembership, storeVars, Synthetics
  <2> QED BY <1>2, <1>9, <2>1 DEF RecreateMembership, SyncTypeOK, RunInv, EventPhases
<1>10. CASE EventSynced
  <2>1. TypeInv'
    BY <1>0, <1>10, HookType DEF EventSynced, storeVars
  <2> QED BY <1>2, <1>10, <2>1 DEF EventSynced, syncVars, SyncTypeOK, RunInv
<1>11. CASE AbortRun \/ RunDies \/ ListMembersFails
  <2>1. TypeInv'
    BY <1>0, <1>1, <1>11, HookType DEF AbortRun, RunDies, ListMembersFails, storeVars
  <2> QED BY <1>2, <1>11, <2>1
      DEF AbortRun, RunDies, ListMembersFails, EndRun, SyncTypeOK, RunInv, Phases, EventPhases
<1>12. CASE CorrectStatus
  <2>1. cur \in Subs
    BY <1>12 DEF CorrectStatus, RunInv
  <2>2. row' \in Tables
    BY <1>0, <1>12, <2>1, AfterIsTable DEF CorrectStatus, Corrected, Renew, Ops, Statuses
  <2>3. TypeInv'
    BY <1>0, <1>1, <1>12, <2>2, HookType DEF CorrectStatus
  <2> QED BY <1>2, <1>12, <2>3 DEF CorrectStatus, SyncTypeOK, RunInv, Phases, EventPhases
<1>13. CASE Deactivate
  <2>1. row' \in Tables
    BY <1>0, <1>13 DEF Deactivate, Tables, Statuses
  <2>2. TypeInv'
    BY <1>0, <1>1, <1>13, <2>1, HookType DEF Deactivate
  <2> QED BY <1>2, <1>13, <2>2 DEF Deactivate, SyncTypeOK, RunInv, Phases, EventPhases
<1>14. ASSUME NEW s \in Subs, RetrieveSubFails(s)
       PROVE  SyncInv'
  <2>1. TypeInv'
    BY <1>0, <1>1, <1>14, HookType DEF RetrieveSubFails, storeVars
  <2> QED BY <1>2, <1>14, <2>1 DEF RetrieveSubFails, SyncTypeOK, RunInv, EventPhases
<1>15. CASE ProcessStep(Cron) /\ UNCHANGED <<hookVars, syncVars>>
  <2>1. TypeInv'
    BY <1>0, <1>15, ProcessType
  <2>2. /\ UNCHANGED events
        /\ \A s \in Subs : stripe'[s] = stripe[s] \/ stripe'[s] = "canceled"
    BY <1>0, <1>15, ProcessKeeps
  <2>3. RunInv'
    BY <1>15, <2>2 DEF RunInv, Recorded, syncVars, TerminalAtStripe
  <2> QED BY <1>15, <2>1, <2>3 DEF SyncTypeOK, syncVars, TypeInv
<1>16. ProcessProgress(Cron) => ProcessStep(Cron)
  BY DEF ProcessProgress, ProcessStep
<1> QED
  BY <1>4, <1>5, <1>6, <1>7, <1>8, <1>9, <1>10, <1>11, <1>12, <1>13, <1>14, <1>15, <1>16
  DEF SyncStep, SyncProgress

\* SyncNext preserves SyncInv.
LEMMA SyncInvStep == SyncInv /\ [SyncNext]_allVars => SyncInv'
<1> SUFFICES ASSUME SyncInv, [SyncNext]_allVars PROVE SyncInv'
  OBVIOUS
<1>1. ASSUME [Next]_vars, UNCHANGED syncVars
      PROVE  SyncInv'
  <2>1. TypeInv'
    BY <1>1, TypeStep DEF SyncInv
  <2>2. RunInv'
    BY <1>1, WebhookKeeps DEF SyncInv, RunInv, syncVars
  <2> QED BY <1>1, <2>1, <2>2 DEF SyncInv, SyncTypeOK, syncVars, TypeInv
<1>2. CASE Age
  <2>1. TypeInv'
    BY <1>2, TypeStep DEF Age, SyncInv, hookState, vars
  <2>2. horizon' \in 0..MaxEvents
    BY <1>2, StripeAssumption DEF Age, SyncInv, SyncTypeOK, TypeOK, StripeTypeOK
  <2> QED BY <1>2, <2>1, <2>2
      DEF Age, SyncInv, SyncTypeOK, RunInv, TypeInv, hookState, stripeVars, Recorded
<1>3. CASE UNCHANGED allVars
  BY <1>1, <1>3 DEF allVars, hookState, vars
<1> QED BY <1>1, <1>2, <1>3, SyncCron DEF SyncNext

\* SyncInv is an invariant of the webhook with the cron.
LEMMA SyncInvariant == SyncSpec => []SyncInv
<1>1. SyncInit => SyncInv
  BY TypeInit, StripeAssumption
     DEF SyncInit, SyncInv, SyncTypeOK, RunInv, TypeInv, Phases, EventPhases
<1> QED BY <1>1, SyncInvStep, PTL DEF SyncSpec

\* Every variable of the webhook and of the run keeps its type: among others
\* the loops of the run only ever hold what the phase they are in may visit.
THEOREM SyncTypeCorrect == SyncSpec => []SyncTypeOK
<1>1. SyncInv => SyncTypeOK
  BY DEF SyncInv
<1> QED BY <1>1, SyncInvariant, PTL

-----------------------------------------------------------------------------
(* What may change a membership *)

\* A transaction of the RPC is committed by a process that works on the event.
LEMMA ProcessWrites ==
  ASSUME TypeInv, NEW p \in Procs, ProcessStep(p), row' # row
  PROVE  \E id \in (Recorded \cup Synthetics) \ ledger : Commit(id)
<1>1. Commit(job[p]) /\ pc[p] = "apply"
  BY DEF ProcessStep, BuildPayload, RetrieveFails, ApplyFresh, ApplyDuplicate, ApplyRaises,
         ApplyCallFails, CancelOrphan, CancelOrphanFails, storeVars
<1> QED BY <1>1, AtWork DEF Commit

\* A step that changes a membership commits an event or is one of the two
\* corrections of the cron.
LEMMA SyncRowChange ==
  ASSUME SyncInv, [SyncNext]_allVars, row' # row
  PROVE  \/ \E id \in (Recorded \cup Synthetics) \ ledger : Commit(id)
         \/ /\ phase = "correct" /\ cur \in Subs /\ ledger' = ledger
            /\ ~Raises(row, Renew(cur)) /\ row' = After(row, Renew(cur))
         \/ /\ phase = "deactivate" /\ cur \in Subs /\ ledger' = ledger
            /\ stripe[cur] \in TerminalAtStripe
            /\ row' = [row EXCEPT ![cur] = "cancelled"]
<1>0. TypeInv /\ RunInv
  BY DEF SyncInv
<1>1. CASE Next
  <2>1. PICK p \in Handlers : HandlerStep(p)
    BY <1>1 DEF Next, StripeMoves, ResolveDlqEntry, storeVars
  <2>2. ProcessStep(p) /\ p \in Procs
    BY <2>1, HandlersAssumption
    DEF HandlerStep, Deliver, Resend, Respond, ReadAttempts, KvUnavailable, WriteAttempts,
        ParkEvent, ParkFails, Crash, storeVars
  <2> QED BY <1>0, <2>2, ProcessWrites
<1>2. CASE ProcessStep(Cron)
  BY <1>0, <1>2, CronAssumption, ProcessWrites
<1>3. CASE CorrectStatus \/ Deactivate
  BY <1>0, <1>3 DEF CorrectStatus, Corrected, Deactivate, RunInv
<1>4. CASE SyncStep /\ ~ProcessStep(Cron) /\ ~CorrectStatus /\ ~Deactivate
  BY <1>4
  DEF SyncStep, SyncProgress, ProcessProgress, ProcessStep, ReadLedger, ListEvents,
      ReplayEvent, EventSynced, AbortRun, ListActiveSubs, SubsDone, RecreateMembership,
      SkipMembership, FindStale, ListMembers, MembersDone, RetrieveSub, ListMembersFails,
      RunDies, RetrieveSubFails, hookState, storeVars
<1> QED BY <1>1, <1>2, <1>3, <1>4 DEF SyncNext, Age, allVars, hookState, storeVars

\* With the cron replaying and correcting beside the webhook, a membership
\* still changes only by one event, once, or by a correction of the cron.
THEOREM WritesAccounted == SyncSpec => EveryWriteAccounted
<1>1. ASSUME SyncInv, [SyncNext]_allVars, row' # row
      PROVE  \/ \E id \in Ids \ ledger : ledger' = ledger \cup {id} /\ row' = After(row, OpOf(id))
             \/ phase = "correct" /\ row' = [row EXCEPT ![cur] = "active"]
             \/ phase = "deactivate" /\ row' = [row EXCEPT ![cur] = "cancelled"]
  <2>1. Recorded \cup Synthetics \subseteq Ids
    BY <1>1, RecordedIds DEF SyncInv, TypeInv, TypeOK, StripeTypeOK, Ids, Synthetics
  <2>2. CASE \E id \in (Recorded \cup Synthetics) \ ledger : Commit(id)
    BY <2>1, <2>2 DEF Commit
  <2>3. CASE phase = "correct" /\ row' = After(row, Renew(cur))
    BY <1>1, <2>3 DEF After, Renew
  <2> QED BY <1>1, <2>2, <2>3, SyncRowChange
<1> QED BY <1>1, SyncInvariant, PTL DEF SyncSpec, EveryWriteAccounted

\* The cron takes an active membership away only if the subscription is over,
\* although it asks Stripe, waits, and then writes whatever the row holds.
THEOREM ReverseConfirmed == SyncSpec => ReverseOnlyWhenEnded
<1>1. ASSUME SyncInv, [SyncNext]_allVars
      PROVE  \A s \in Subs :
                row[s] = "active" /\ row'[s] = "cancelled" /\ ledger' = ledger
                    => stripe[s] \in TerminalAtStripe
  <2> SUFFICES ASSUME NEW s \in Subs, row[s] = "active", row'[s] = "cancelled",
                      ledger' = ledger
               PROVE  stripe[s] \in TerminalAtStripe
    OBVIOUS
  <2>1. row' # row /\ row \in Tables
    BY <1>1 DEF SyncInv, TypeInv, TypeOK, StripeTypeOK
  <2>2. CASE \E id \in (Recorded \cup Synthetics) \ ledger : Commit(id)
    BY <2>2 DEF Commit
  <2>3. CASE cur \in Subs /\ row' = After(row, Renew(cur))
    BY <2>1, <2>3 DEF After, Renew, Tables
  <2>4. CASE /\ cur \in Subs /\ stripe[cur] \in TerminalAtStripe
             /\ row' = [row EXCEPT ![cur] = "cancelled"]
    BY <2>1, <2>4 DEF Tables
  <2> QED BY <1>1, <2>1, <2>2, <2>3, <2>4, SyncRowChange
<1> QED BY <1>1, SyncInvariant, PTL DEF SyncSpec, ReverseOnlyWhenEnded

\* The corrections of the cron never give an owner a second active membership.
THEOREM SyncOneActive == SyncSpec => []OneActiveMembership
<1> USE DEF OneActiveMembership
<1>1. SyncInit => OneActive(row)
  BY DEF SyncInit, Init, StripeInit, EmptyTable, OneActive
<1>2. ASSUME SyncInv, OneActive(row), [SyncNext]_allVars
      PROVE  OneActive(row)'
  <2>0. row \in Tables /\ events \in Seq(Events)
    BY <1>2 DEF SyncInv, TypeInv, TypeOK, StripeTypeOK
  <2>1. CASE row' = row
    BY <1>2, <2>1 DEF OneActive
  <2>2. ASSUME NEW id \in Recorded \cup Synthetics, Commit(id)
        PROVE  OneActive(row)'
    <3>1. OpOf(id) \in Ops
      BY <2>0, EventOfRecorded, PayloadIsOp DEF OpOf
    <3>2. OneActive(After(row, OpOf(id)))
      BY <1>2, <2>0, <2>2, <3>1, AfterOneActive DEF Commit
    <3> QED BY <2>2, <3>2 DEF Commit, OneActive
  <2>3. CASE cur \in Subs /\ ~Raises(row, Renew(cur)) /\ row' = After(row, Renew(cur))
    <3>1. Renew(cur) \in Ops
      BY <2>3 DEF Renew, Ops, Statuses
    <3>2. OneActive(After(row, Renew(cur)))
      BY <1>2, <2>0, <2>3, <3>1, AfterOneActive
    <3> QED BY <2>3, <3>2 DEF OneActive
  <2>4. CASE row' = [row EXCEPT ![cur] = "cancelled"]
    BY <1>2, <2>0, <2>4 DEF OneActive, Tables
  <2> QED BY <1>2, <2>1, <2>2, <2>3, <2>4, SyncRowChange
<1> QED BY <1>1, <1>2, SyncInvariant, PTL DEF SyncSpec

-----------------------------------------------------------------------------
(* Whoever is refused as a duplicate is canceled at Stripe *)

\* The events of the ledger are known, so that a commit is never forgotten.
RefusalInv ==
    /\ ledger \subseteq Recorded \cup Synthetics
    /\ OrphanIsCancelled

\* What a process must do with the refusal it has to act on.
KeepsCancelling ==
    \A q \in Procs :
        pc[q] = "cancel" /\ faults' = 0 => pc'[q] = "cancel" /\ job'[q] = job[q]

\* A step that commits nothing, forgets no refusal and brings no subscription
\* back preserves RefusalInv.
LEMMA RefusalKept ==
  ASSUME TypeInv, RefusalInv, UNCHANGED ledger, KeepsCancelling,
         faults' = 0 => faults = 0,
         Recorded \subseteq Recorded',
         \A id \in Recorded \cup Synthetics : EventOf(id)' = EventOf(id),
         \A s \in Subs : row'[s] = "none" => row[s] = "none",
         \A s \in Subs : stripe[s] = "canceled" => stripe'[s] = "canceled"
  PROVE  RefusalInv'
<1>1. ledger' \subseteq Recorded' \cup Synthetics /\ Synthetics' = Synthetics
  BY DEF RefusalInv, Synthetics, Synthetic
<1>2. ASSUME faults' = 0, NEW id \in ledger', EventOf(id)'.type = "checkout_completed",
             row'[EventOf(id)'.sub] = "none"
      PROVE  \/ stripe'[EventOf(id)'.sub] = "canceled"
             \/ \E p \in Procs : pc'[p] = "cancel" /\ job'[p] = id
  <2>1. /\ faults = 0 /\ id \in ledger /\ id \in Recorded \cup Synthetics
        /\ EventOf(id)' = EventOf(id)
    BY <1>2 DEF RefusalInv
  <2>2. EventOf(id).sub \in Subs
    BY <2>1, EventOfRecorded DEF Events, TypeInv, TypeOK, StripeTypeOK
  <2>3. \/ stripe[EventOf(id).sub] = "canceled"
        \/ \E p \in Procs : pc[p] = "cancel" /\ job[p] = id
    BY <1>2, <2>1, <2>2 DEF RefusalInv, OrphanIsCancelled
  <2> QED BY <1>2, <2>1, <2>2, <2>3 DEF KeepsCancelling
<1>3. OrphanIsCancelled'
  BY <1>2 DEF OrphanIsCancelled
<1> QED BY <1>1, <1>3 DEF RefusalInv

\* A transaction leaves the row of its checkout, unless it refuses it.
LEMMA CheckoutLeavesRow ==
  ASSUME NEW table \in Tables, NEW e \in Events, e.type = "checkout_completed",
         ~Orphans(table, Payload(e))
  PROVE  After(table, Payload(e))[e.sub] # "none"
BY DEF Payload, Create, Orphans, Writes, After, Events, Tables

\* No transaction removes a row.
LEMMA RowsStay ==
  ASSUME NEW table \in Tables, NEW op \in Ops, NEW s \in Subs, After(table, op)[s] = "none"
  PROVE  table[s] = "none"
BY DEF After, Tables, Ops, Statuses

\* The transaction says so when it refuses a checkout.
LEMMA RefusalIsAnswered ==
  ASSUME NEW table, NEW op, Orphans(table, op)
  PROVE  Reply(table, op) = "orphan"
<1>1. ~Misses(table, op)
  BY DEF Orphans, Misses, Updates
<1> QED BY <1>1, Zenon DEF Reply

\* processStripeEvent acts on the refusal its transaction reported.
LEMMA RefusalProcess ==
  ASSUME TypeInv, RefusalInv, NEW p \in Procs, ProcessStep(p)
  PROVE  RefusalInv'
<1>0. /\ pc \in [Procs -> PcStates] /\ row \in Tables /\ events \in Seq(Events)
      /\ faults \in 0..MaxFaults /\ MaxFaults \in Nat
      /\ stripe \in [Subs -> StripeStatuses \cup {"none"}]
  BY StripeAssumption DEF TypeInv, TypeOK, StripeTypeOK
<1>1. /\ job[p] \in Recorded \cup Synthetics /\ EventOf(job[p]) \in Events
      /\ OpOf(job[p]) \in Ops
  BY AtWork DEF ProcessStep, BuildPayload, RetrieveFails, ApplyFresh, ApplyDuplicate,
     ApplyRaises, ApplyCallFails, CancelOrphan, CancelOrphanFails
<1>2. UNCHANGED <<events, job>>
  BY DEF ProcessStep, BuildPayload, RetrieveFails, ApplyFresh, ApplyDuplicate, ApplyRaises,
         ApplyCallFails, CancelOrphan, CancelOrphanFails, stripeVars
<1>3. /\ Recorded' = Recorded /\ Synthetics' = Synthetics
      /\ \A id \in Recorded \cup Synthetics : EventOf(id)' = EventOf(id)
  BY <1>2 DEF Recorded, EventOf, Synthetics, Synthetic
<1>4. /\ faults' = 0 => faults = 0
      /\ Fault => faults' # 0
  BY <1>0
  DEF ProcessStep, BuildPayload, RetrieveFails, ApplyFresh, ApplyDuplicate, ApplyRaises,
      ApplyCallFails, CancelOrphan, CancelOrphanFails, Fault
<1>5. CASE BuildPayload(p) \/ RetrieveFails(p) \/ ApplyDuplicate(p) \/ ApplyRaises(p)
           \/ CancelOrphanFails(p)
  <2>1. UNCHANGED <<row, ledger, stripe>>
    BY <1>5 DEF BuildPayload, RetrieveFails, ApplyDuplicate, ApplyRaises, CancelOrphanFails,
       storeVars, stripeVars
  <2>2. KeepsCancelling
    BY <1>0, <1>2, <1>4, <1>5 DEF KeepsCancelling, BuildPayload, RetrieveFails,
       ApplyDuplicate, ApplyRaises, CancelOrphanFails
  <2> QED BY <1>3, <1>4, <2>1, <2>2, RefusalKept
<1>6. CASE ApplyCallFails(p)
  <2>1. faults' # 0 /\ ledger' \subseteq ledger \cup {job[p]}
    BY <1>4, <1>6 DEF ApplyCallFails, Commit, storeVars
  <2> QED BY <1>1, <1>3, <2>1 DEF RefusalInv, OrphanIsCancelled
<1>7. CASE CancelOrphan(p)
  <2> DEFINE own == EventOf(job[p]).sub
  <2>1. own \in Subs
    BY <1>1 DEF Events
  <2>2. ASSUME faults' = 0, NEW id \in ledger', EventOf(id)'.type = "checkout_completed",
               row'[EventOf(id)'.sub] = "none"
        PROVE  \/ stripe'[EventOf(id)'.sub] = "canceled"
               \/ \E q \in Procs : pc'[q] = "cancel" /\ job'[q] = id
    <3>1. id \in ledger /\ id \in Recorded \cup Synthetics /\ row' = row
      BY <1>7, <2>2 DEF CancelOrphan, storeVars, RefusalInv
    <3>2. EventOf(id)' = EventOf(id) /\ EventOf(id).sub \in Subs
      BY <1>0, <1>3, <3>1, EventOfRecorded DEF Events
    <3>3. \/ stripe[EventOf(id).sub] = "canceled"
          \/ \E q \in Procs : pc[q] = "cancel" /\ job[q] = id
      BY <1>4, <2>2, <3>1, <3>2 DEF RefusalInv, OrphanIsCancelled
    <3>4. \A s \in Subs : stripe[s] = "canceled" \/ s = own => stripe'[s] = "canceled"
      BY <1>0, <1>7, <2>1 DEF CancelOrphan
    <3>5. \A q \in Procs \ {p} : pc'[q] = pc[q] /\ job'[q] = job[q]
      BY <1>0, <1>2, <1>7 DEF CancelOrphan
    <3> QED BY <3>2, <3>3, <3>4, <3>5
  <2>3. OrphanIsCancelled'
    BY <2>2 DEF OrphanIsCancelled
  <2> QED BY <1>3, <1>7, <2>3 DEF CancelOrphan, storeVars, RefusalInv
<1>8. CASE ApplyFresh(p)
  <2> DEFINE e == EventOf(job[p])
             op == OpOf(job[p])
  <2>1. /\ ledger' = ledger \cup {job[p]} /\ row' = After(row, op)
        /\ UNCHANGED <<stripe, faults>>
    BY <1>8 DEF ApplyFresh, Commit, stripeVars
  <2>2. ASSUME faults' = 0, NEW id \in ledger', EventOf(id)'.type = "checkout_completed",
               row'[EventOf(id)'.sub] = "none"
        PROVE  \/ stripe'[EventOf(id)'.sub] = "canceled"
               \/ \E q \in Procs : pc'[q] = "cancel" /\ job'[q] = id
    <3>1. id \in Recorded \cup Synthetics
      BY <1>1, <2>1, <2>2 DEF RefusalInv
    <3>2. EventOf(id)' = EventOf(id) /\ EventOf(id).sub \in Subs
      BY <1>0, <1>3, <3>1, EventOfRecorded DEF Events
    <3>3. CASE id \in ledger
      <4>1. row[EventOf(id).sub] = "none"
        BY <1>0, <1>1, <2>1, <2>2, <3>2, RowsStay
      <4>2. \/ stripe[EventOf(id).sub] = "canceled"
            \/ \E q \in Procs : pc[q] = "cancel" /\ job[q] = id
        BY <2>1, <2>2, <3>2, <3>3, <4>1 DEF RefusalInv, OrphanIsCancelled
      <4>3. \A q \in Procs : pc[q] = "cancel" => pc'[q] = "cancel" /\ job'[q] = job[q]
        BY <1>0, <1>2, <1>8 DEF ApplyFresh
      <4> QED BY <2>1, <3>2, <4>2, <4>3
    <3>4. CASE id = job[p]
      <4>1. op = Payload(e) /\ row'[e.sub] = "none" /\ e.type = "checkout_completed"
        BY <2>2, <3>2, <3>4 DEF OpOf
      <4>2. Orphans(row, op)
        BY <1>0, <1>1, <2>1, <4>1, CheckoutLeavesRow
      <4>3. Reply(row, op) = "orphan"
        BY <4>2, RefusalIsAnswered
      <4>4. pc'[p] = "cancel"
        BY <1>0, <1>8, <4>3 DEF ApplyFresh
      <4> QED BY <1>2, <3>4, <4>4
    <3> QED BY <2>1, <2>2, <3>3, <3>4
  <2>3. OrphanIsCancelled'
    BY <2>2 DEF OrphanIsCancelled
  <2> QED BY <1>1, <1>3, <2>1, <2>3 DEF RefusalInv
<1> QED BY <1>5, <1>6, <1>7, <1>8 DEF ProcessStep

\* Every step of the webhook preserves RefusalInv.
LEMMA RefusalStep == TypeInv /\ RefusalInv /\ [Next]_vars => RefusalInv'
<1> SUFFICES ASSUME TypeInv, RefusalInv, [Next]_vars PROVE RefusalInv'
  OBVIOUS
<1>0. /\ pc \in [Procs -> PcStates] /\ faults \in 0..MaxFaults /\ MaxFaults \in Nat
      /\ Handlers \subseteq Procs
  BY StripeAssumption, HandlersAssumption DEF TypeInv, TypeOK, StripeTypeOK
<1>1. ASSUME UNCHANGED storeVars, faults' = 0 => faults = 0, KeepsCancelling
      PROVE  RefusalInv'
  BY <1>1, WebhookKeeps, RefusalKept DEF storeVars
<1>2. CASE StripeMoves
  BY <1>1, <1>2 DEF StripeMoves, procVars, KeepsCancelling
<1>3. CASE \E id \in EventIds : ResolveDlqEntry(id)
  BY <1>1, <1>3 DEF ResolveDlqEntry, procVars, KeepsCancelling
<1>4. CASE UNCHANGED vars
  BY <1>1, <1>4 DEF vars, procVars, KeepsCancelling
<1>5. ASSUME NEW p \in Handlers, HandlerStep(p)
      PROVE  RefusalInv'
  <2>1. CASE ProcessStep(p)
    BY <1>0, <2>1, RefusalProcess
  <2>2. CASE Crash(p)
    <3>1. UNCHANGED storeVars /\ faults' # 0 /\ UNCHANGED events
      BY <1>0, <2>2 DEF Crash, Fault, stripeVars
    <3> QED BY <1>1, <3>1 DEF KeepsCancelling
  <2>3. CASE \/ \E id \in EventIds : Deliver(p, id) \/ Resend(p, id)
             \/ Respond(p) \/ ReadAttempts(p) \/ KvUnavailable(p) \/ WriteAttempts(p)
             \/ ParkEvent(p) \/ ParkFails(p)
    <3>1. UNCHANGED storeVars /\ pc[p] # "cancel" /\ (faults' = 0 => faults = 0)
      BY <1>0, <2>3
      DEF Deliver, Resend, Respond, ReadAttempts, KvUnavailable, WriteAttempts, ParkEvent,
          ParkFails, Begin, Fault
    <3>2. \A q \in Procs \ {p} : pc'[q] = pc[q] /\ job'[q] = job[q]
      BY <1>0, <2>3
      DEF Deliver, Resend, Respond, ReadAttempts, KvUnavailable, WriteAttempts, ParkEvent,
          ParkFails, Begin, Refuse, Reset, TypeInv, TypeOK, StripeTypeOK
    <3> QED BY <1>1, <3>1, <3>2 DEF KeepsCancelling
  <2> QED BY <1>5, <2>1, <2>2, <2>3 DEF HandlerStep
<1> QED BY <1>2, <1>3, <1>4, <1>5 DEF Next

\* So does every step of the cron.
LEMMA RefusalCron ==
  ASSUME SyncInv, RefusalInv, SyncStep
  PROVE  RefusalInv'
<1>0. /\ TypeInv /\ Cron \in Procs
      /\ row \in Tables /\ faults \in 0..MaxFaults /\ MaxFaults \in Nat
      /\ pc \in [Procs -> PcStates] /\ job \in [Procs -> Ids \cup {NoJob}]
  BY StripeAssumption, CronAssumption DEF SyncInv, TypeInv, TypeOK, StripeTypeOK
<1>1. CASE ProcessStep(Cron)
  BY <1>0, <1>1, RefusalProcess
<1>2. ASSUME ~ProcessStep(Cron)
      PROVE  /\ UNCHANGED <<stripe, events, ledger>>
             /\ faults' = 0 => faults = 0
             /\ \A s \in Subs : row'[s] = "none" => row[s] = "none"
             /\ KeepsCancelling
  <2>1. UNCHANGED <<stripe, events, ledger>> /\ (faults' = 0 => faults = 0)
    BY <1>0, <1>2
    DEF SyncStep, SyncProgress, ProcessProgress, ProcessStep, ReadLedger, ListEvents,
        ReplayEvent, EventSynced, AbortRun, ListActiveSubs, SubsDone, RecreateMembership,
        SkipMembership, FindStale, CorrectStatus, ListMembers, Deactivate, MembersDone,
        RetrieveSub, ListMembersFails, RunDies, RetrieveSubFails, Fault, hookState,
        storeVars, stripeVars
  <2>2. \A s \in Subs : row'[s] = "none" => row[s] = "none"
    <3>1. CASE row' = row
      BY <3>1
    <3>2. CASE row' # row
      <4>1. cur \in Subs /\ \/ row' = After(row, Renew(cur))
                            \/ row' = [row EXCEPT ![cur] = "cancelled"]
        <5>1. [SyncNext]_allVars /\ ledger' = ledger
          BY <2>1 DEF SyncNext
        <5> QED BY <3>2, <5>1, SyncRowChange DEF Commit
      <4> QED BY <1>0, <4>1, RowsStay DEF Renew, Ops, Statuses, Tables
    <3> QED BY <3>1, <3>2
  <2>3. CASE RunDies
    <3>1. faults' # 0
      BY <1>0, <2>3 DEF RunDies, Fault
    <3> QED BY <2>1, <2>2, <3>1 DEF KeepsCancelling
  <2>4. CASE ReplayEvent \/ (\E s \in Subs : RecreateMembership(s)) \/ EventSynced \/ AbortRun
    <3>1. pc[Cron] # "cancel" /\ \A q \in Procs \ {Cron} : pc'[q] = pc[q] /\ job'[q] = job[q]
      BY <1>0, <2>4
      DEF ReplayEvent, RecreateMembership, EventSynced, AbortRun, Begin, Reset
    <3> QED BY <2>1, <2>2, <3>1 DEF KeepsCancelling
  <2>5. CASE UNCHANGED procVars
    BY <2>1, <2>2, <2>5 DEF KeepsCancelling, procVars
  <2> QED BY <1>2, <2>3, <2>4, <2>5
      DEF SyncStep, SyncProgress, ProcessProgress, ProcessStep, ReadLedger, ListEvents,
          ListActiveSubs, SubsDone, SkipMembership, FindStale, CorrectStatus, ListMembers,
          Deactivate, MembersDone, RetrieveSub, ListMembersFails, RetrieveSubFails, hookState
<1>3. CASE ~ProcessStep(Cron)
  <2>1. Recorded' = Recorded /\ \A id \in Recorded \cup Synthetics : EventOf(id)' = EventOf(id)
    BY <1>2, <1>3 DEF Recorded, EventOf, Synthetics
  <2> QED BY <1>0, <1>2, <1>3, <2>1, RefusalKept
<1> QED BY <1>1, <1>3

\* Initially the ledger is empty.
LEMMA RefusalInit == Init => RefusalInv
BY DEF Init, StripeInit, RefusalInv, OrphanIsCancelled

\* While no call fails, the webhook leaves no refused customer paying: whatever
\* order events come in, a checkout recorded without a row is canceled.
THEOREM RefusedIsCancelled == Spec => []OrphanIsCancelled
<1>1. Spec => []RefusalInv
  BY RefusalInit, RefusalStep, TypeInvariant, PTL DEF Spec
<1>2. RefusalInv => OrphanIsCancelled
  BY DEF RefusalInv
<1> QED BY <1>1, <1>2, PTL

\* The same with the cron beside the webhook, which replays the checkouts a
\* request may be handling and makes up checkouts of its own.
THEOREM SyncRefusedIsCancelled == SyncSpec => []OrphanIsCancelled
<1>1. SyncInit => RefusalInv
  BY RefusalInit DEF SyncInit
<1>2. SyncInv /\ RefusalInv /\ [SyncNext]_allVars => RefusalInv'
  <2> SUFFICES ASSUME SyncInv, RefusalInv, [SyncNext]_allVars PROVE RefusalInv'
    OBVIOUS
  <2>1. CASE [Next]_vars
    BY <2>1, RefusalStep DEF SyncInv
  <2>2. CASE Age \/ UNCHANGED allVars
    BY <2>1, <2>2 DEF Age, allVars, hookState, vars
  <2> QED BY <2>1, <2>2, RefusalCron DEF SyncNext
<1>3. SyncSpec => []RefusalInv
  BY <1>1, <1>2, SyncInvariant, PTL DEF SyncSpec
<1>4. RefusalInv => OrphanIsCancelled
  BY DEF RefusalInv
<1> QED BY <1>3, <1>4, PTL
=============================================================================
