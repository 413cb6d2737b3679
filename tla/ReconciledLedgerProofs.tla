----------------------- MODULE ReconciledLedgerProofs -----------------------
(***************************************************************************)
(* The webhook with the cron beside it implements ReconciledLedger, and    *)
(* what the cron may do to the promises of the webhook alone.              *)
(***************************************************************************)
EXTENDS StripeSyncProofs, MembershipRefinementProofs

USE DEF Goto

-----------------------------------------------------------------------------
(* What the cron leaves alone *)

\* A step of the cron touches no request, nothing the requests remember of an event
\* and no event; it writes the tables by a transaction or by a correction.
LEMMA CronKeeps ==
  ASSUME SyncInv, SyncStep
  PROVE  /\ UNCHANGED <<events, hookVars>>
         /\ \A q \in Procs \ {Cron} : pc'[q] = pc[q] /\ job'[q] = job[q]
         /\ \/ UNCHANGED storeVars
            \/ \E id \in Recorded \cup Synthetics : Commit(id) /\ UNCHANGED stripe
            \/ CorrectStatus \/ Deactivate
<1>0. TypeInv /\ Cron \in Procs /\ pc \in [Procs -> PcStates]
      /\ job \in [Procs -> Ids \cup {NoJob}]
  BY CronAssumption DEF SyncInv, TypeInv, TypeOK, StripeTypeOK
<1>1. CASE ProcessStep(Cron) /\ UNCHANGED hookVars
  <2>1. /\ pc[Cron] # "idle" /\ UNCHANGED <<events, job>>
        /\ \A q \in Procs \ {Cron} : pc'[q] = pc[q]
    BY <1>0, <1>1
    DEF ProcessStep, BuildPayload, RetrieveFails, ApplyFresh, ApplyDuplicate, ApplyRaises,
        ApplyCallFails, CancelOrphan, CancelOrphanFails, stripeVars
  <2>2. UNCHANGED storeVars \/ (Commit(job[Cron]) /\ UNCHANGED stripe)
    BY <1>1
    DEF ProcessStep, BuildPayload, RetrieveFails, ApplyFresh, ApplyDuplicate, ApplyRaises,
        ApplyCallFails, CancelOrphan, CancelOrphanFails, stripeVars
  <2>3. job[Cron] \in Recorded \cup Synthetics
    BY <1>0, <2>1, AtWork
  <2> QED BY <1>1, <2>1, <2>2, <2>3
<1>2. CASE \/ ReplayEvent \/ EventSynced \/ AbortRun \/ RunDies
           \/ \E s \in Subs : RecreateMembership(s)
  BY <1>0, <1>2
  DEF ReplayEvent, EventSynced, AbortRun, RunDies, RecreateMembership, Begin, Reset, stripeVars
<1>3. CASE CorrectStatus \/ Deactivate
  BY <1>3 DEF CorrectStatus, Deactivate, stripeVars, procVars
<1>4. CASE \/ ReadLedger \/ ListEvents \/ ListActiveSubs \/ SubsDone \/ ListMembers
           \/ ListMembersFails \/ MembersDone
           \/ \E s \in Subs : \/ SkipMembership(s) \/ FindStale(s) \/ RetrieveSub(s)
                              \/ RetrieveSubFails(s)
  BY <1>4
  DEF ReadLedger, ListEvents, ListActiveSubs, SubsDone, ListMembers, ListMembersFails,
      MembersDone, SkipMembership, FindStale, RetrieveSub, RetrieveSubFails, hookState,
      stripeVars, procVars
<1>5. ProcessProgress(Cron) => ProcessStep(Cron)
  BY DEF ProcessProgress, ProcessStep
<1> QED BY <1>1, <1>2, <1>3, <1>4, <1>5 DEF SyncStep, SyncProgress

\* What is acknowledged, and what the ledger knows, with the cron beside the requests.
LedgerInv == DurableInv /\ KnownIds

\* Every step of the webhook and the cron preserves LedgerInv.
LEMMA LedgerStep == SyncInv /\ LedgerInv /\ [SyncNext]_allVars => LedgerInv'
<1> SUFFICES ASSUME SyncInv, LedgerInv, [SyncNext]_allVars PROVE LedgerInv'
  OBVIOUS
<1>1. CASE [Next]_vars
  BY <1>1, DurableStep, KnownStep DEF SyncInv, LedgerInv
<1>2. CASE SyncStep
  <2>1. ledger \subseteq ledger' /\ ledger' \subseteq ledger \cup Recorded \cup Synthetics
    BY <1>2, CronKeeps DEF Commit, CorrectStatus, Deactivate, storeVars
  <2>2. Recorded' = Recorded
    BY <1>2, CronKeeps DEF Recorded
  <2>3. \A q \in Handlers : pc'[q] = pc[q] /\ job'[q] = job[q]
    BY <1>2, CronKeeps, CronAssumption, HandlersAssumption
  <2>4. UNCHANGED <<acked, Parked>>
    BY <1>2, CronKeeps DEF hookVars, Parked
  <2> QED BY <2>1, <2>2, <2>3, <2>4
      DEF LedgerInv, DurableInv, AnswerIsDurable, AckedIsDurable, KnownIds, Synthetics
<1>3. CASE Age \/ UNCHANGED allVars
  BY <1>1, <1>3 DEF Age, allVars, hookState, vars
<1> QED BY <1>1, <1>2, <1>3 DEF SyncNext

\* LedgerInv is an invariant of the webhook with the cron.
LEMMA LedgerInvariant == SyncSpec => []LedgerInv
<1>1. SyncInit => LedgerInv
  BY HandlersAssumption
     DEF SyncInit, Init, StripeInit, WebhookInit, LedgerInv, DurableInv, AnswerIsDurable,
         AckedIsDurable, KnownIds, Parked
<1> QED BY <1>1, LedgerStep, SyncInvariant, PTL DEF SyncSpec

\* A 2xx answer is given only for an event that is applied or kept, though it may be
\* the cron that applied it while the request was under way.
THEOREM SyncAckedDurable == SyncSpec => []AckedIsDurable
<1>1. LedgerInv => AckedIsDurable
  BY DEF LedgerInv, DurableInv
<1> QED BY <1>1, LedgerInvariant, PTL

-----------------------------------------------------------------------------
(* The reverse pass works on rows *)

\* What the reverse pass compares and deactivates is a row; no step removes one.
MembersInv ==
    /\ phase \in {"reverse", "deactivate"} => \A s \in Subs \cap left : row[s] # "none"
    /\ phase = "deactivate" => row[cur] # "none"

\* No step of the webhook or the cron removes a row.
LEMMA RowsRemain ==
  ASSUME SyncInv, [SyncNext]_allVars, NEW s \in Subs, row[s] # "none"
  PROVE  row'[s] # "none"
<1>0. row \in Tables /\ events \in Seq(Events)
  BY DEF SyncInv, TypeInv, TypeOK, StripeTypeOK
<1>1. ASSUME NEW id \in Recorded \cup Synthetics, Commit(id)
      PROVE  row'[s] # "none"
  <2>1. OpOf(id) \in Ops
    BY <1>0, EventOfRecorded, PayloadIsOp DEF OpOf
  <2> QED BY <1>0, <1>1, <2>1, RowsStay DEF Commit
<1>2. ASSUME NEW t \in Subs, row' = After(row, Renew(t))
      PROVE  row'[s] # "none"
  <2>1. Renew(t) \in Ops
    BY DEF Renew, Ops, Statuses
  <2> QED BY <1>0, <1>2, <2>1, RowsStay
<1>3. CASE row' = [row EXCEPT ![cur] = "cancelled"]
  BY <1>0, <1>3 DEF Tables
<1> QED BY <1>1, <1>2, <1>3, SyncRowChange

\* MembersInv is an invariant.
LEMMA MembersStep == SyncInv /\ MembersInv /\ [SyncNext]_allVars => MembersInv'
<1> SUFFICES ASSUME SyncInv, MembersInv, [SyncNext]_allVars PROVE MembersInv'
  OBVIOUS
<1>1. \A s \in Subs : row[s] # "none" => row'[s] # "none"
  BY RowsRemain
<1>2. cur \in Subs \/ phase # "deactivate"
  BY DEF SyncInv, RunInv
<1>3. CASE UNCHANGED syncVars \/ Age
  BY <1>1, <1>2, <1>3 DEF MembersInv, syncVars, Age
<1>4. CASE SyncStep /\ ~UNCHANGED syncVars
  <2>1. CASE phase' \notin {"reverse", "deactivate"}
    BY <2>1 DEF MembersInv
  <2>2. CASE ListMembers
    BY <1>1, <2>2 DEF ListMembers, MembersInv
  <2>3. CASE Deactivate
    BY <1>1, <2>3 DEF Deactivate, MembersInv
  <2>4. ASSUME NEW s \in Subs, RetrieveSub(s) \/ RetrieveSubFails(s)
        PROVE  MembersInv'
    BY <1>1, <2>4 DEF RetrieveSub, RetrieveSubFails, MembersInv
  <2> QED BY <1>4, <2>1, <2>2, <2>3, <2>4
      DEF SyncStep, SyncProgress, ReadLedger, ListEvents, ReplayEvent, EventSynced, AbortRun,
          ListActiveSubs, SubsDone, RecreateMembership, SkipMembership, FindStale,
          CorrectStatus, MembersDone, ListMembersFails, RunDies, EndRun, syncVars
<1> QED BY <1>3, <1>4 DEF SyncNext, allVars, syncVars

-----------------------------------------------------------------------------
(* The member whose own subscription is cancelled *)

\* The ids a checkout of a subscription may be processed under.
CheckoutsOf(s) ==
    {id \in Recorded \cup Synthetics :
        EventOf(id).type = "checkout_completed" /\ EventOf(id).sub = s}

\* A row comes from a checkout in the ledger, and the orphan to cancel has one as
\* well: where it has a row all the same, that row comes from another one.
RowIsBought == \A s \in Subs : row[s] # "none" => ledger \cap CheckoutsOf(s) # {}

OrphanIsBought ==
    \A p \in Procs : pc[p] = "cancel" => \E s \in Subs :
        /\ job[p] \in ledger \cap CheckoutsOf(s)
        /\ row[s] # "none" => \E id \in ledger \cap CheckoutsOf(s) : id # job[p]

RemadeInv == CheckoutOnce /\ RowIsBought /\ OrphanIsBought

\* A subscription has two checkouts at most, that of its event and the made-up one.
LEMMA TwoCheckouts ==
  ASSUME TypeInv, CheckoutOnce, NEW s \in Subs,
         NEW a \in CheckoutsOf(s), NEW b \in CheckoutsOf(s), a # b
  PROVE  /\ Synthetic(s) \in {a, b}
         /\ \E i \in DOMAIN events : IsCheckout(i) /\ events[i].sub = s /\ Live(i) \in {a, b}
<1>1. ASSUME NEW id \in CheckoutsOf(s)
      PROVE  \/ id = Synthetic(s)
             \/ \E i \in DOMAIN events : IsCheckout(i) /\ events[i].sub = s /\ id = Live(i)
  BY <1>1 DEF CheckoutsOf, Recorded, Synthetics, EventOf, Live, Synthetic, IsCheckout
<1>2. CASE a = Synthetic(s)
  BY <1>1, <1>2
<1>3. CASE a # Synthetic(s)
  <2>1. PICK i \in DOMAIN events : IsCheckout(i) /\ events[i].sub = s /\ a = Live(i)
    BY <1>1, <1>3
  <2>2. b = Synthetic(s)
    BY <1>1, <2>1 DEF CheckoutOnce
  <2> QED BY <2>1, <2>2
<1> QED BY <1>2, <1>3

\* A step that makes no row, forgets no event and starts no cancellation.
LEMMA RemadeKept ==
  ASSUME TypeInv, RemadeInv, CheckoutOnce', ledger \subseteq ledger',
         Recorded \subseteq Recorded',
         \A id \in Recorded \cup Synthetics : EventOf(id)' = EventOf(id),
         \A s \in Subs : row'[s] # "none" => row[s] # "none",
         \A q \in Procs : pc'[q] = "cancel" => pc[q] = "cancel" /\ job'[q] = job[q]
  PROVE  RemadeInv'
<1>1. Synthetics' = Synthetics
  BY DEF Synthetics, Synthetic
<1>2. ASSUME NEW s \in Subs, NEW id \in CheckoutsOf(s)
      PROVE  id \in CheckoutsOf(s)'
  BY <1>1, <1>2 DEF CheckoutsOf
<1>3. RowIsBought'
  BY <1>2 DEF RemadeInv, RowIsBought
<1>4. ASSUME NEW q \in Procs, pc'[q] = "cancel"
      PROVE  \E s \in Subs :
                /\ job'[q] \in ledger' \cap CheckoutsOf(s)'
                /\ row'[s] # "none" => \E id \in ledger' \cap CheckoutsOf(s)' : id # job'[q]
  <2>1. pc[q] = "cancel" /\ job'[q] = job[q]
    BY <1>4
  <2>2. PICK s \in Subs :
            /\ job[q] \in ledger \cap CheckoutsOf(s)
            /\ row[s] # "none" => \E id \in ledger \cap CheckoutsOf(s) : id # job[q]
    BY <2>1 DEF RemadeInv, OrphanIsBought
  <2> QED BY <1>2, <2>1, <2>2
<1>5. OrphanIsBought'
  BY <1>4 DEF OrphanIsBought
<1> QED BY <1>3, <1>5 DEF RemadeInv

\* A transaction makes a row for its own checkout only, and refuses one only when
\* another has been applied.
LEMMA RemadeCommit ==
  ASSUME TypeInv, RemadeInv, CheckoutOnce', NEW p \in Procs, pc[p] = "apply",
         Commit(job[p]), UNCHANGED <<events, job>>,
         \A q \in Procs \ {p} : pc'[q] = pc[q],
         pc'[p] = "cancel" => Orphans(row, OpOf(job[p]))
  PROVE  RemadeInv'
<1> DEFINE e  == EventOf(job[p])
           op == OpOf(job[p])
<1>0. /\ job[p] \in Recorded \cup Synthetics /\ e \in Events /\ op \in Ops /\ row \in Tables
      /\ op = Payload(e)
  BY AtWork DEF TypeInv, TypeOK, StripeTypeOK, OpOf
<1>1. op.sub = e.sub /\ (op.kind = "create" => job[p] \in CheckoutsOf(op.sub))
  BY <1>0, PayloadSub DEF CheckoutsOf
<1>2. /\ job[p] \notin ledger /\ ledger' = ledger \cup {job[p]}
      /\ row' = After(row, op)
  BY DEF Commit
<1>3. \A s : CheckoutsOf(s)' = CheckoutsOf(s)
  BY DEF CheckoutsOf, Recorded, Synthetics, EventOf
<1>5. ASSUME NEW s \in Subs, row[s] = "none", row'[s] # "none"
      PROVE  job[p] \in CheckoutsOf(s)
  BY <1>0, <1>1, <1>2, <1>5, ApplyOne
<1>6. RowIsBought'
  BY <1>2, <1>3, <1>5 DEF RemadeInv, RowIsBought
<1>7. ASSUME NEW q \in Procs, pc'[q] = "cancel"
      PROVE  \E s \in Subs :
                /\ job[q] \in ledger' \cap CheckoutsOf(s)
                /\ row'[s] # "none" => \E id \in ledger' \cap CheckoutsOf(s) : id # job[q]
  <2>1. CASE q = p
    <3>1. op.kind = "create" /\ row' = row /\ op.sub \in Subs
      BY <1>0, <1>1, <1>2, <1>7, <2>1, ApplyOne DEF Orphans, Events
    <3>2. row[op.sub] # "none" => ledger \cap CheckoutsOf(op.sub) # {}
      BY <3>1 DEF RemadeInv, RowIsBought
    <3> QED BY <1>1, <1>2, <2>1, <3>1, <3>2
  <2>2. CASE q # p
    <3>1. pc[q] = "cancel"
      BY <1>7, <2>2
    <3>2. PICK s \in Subs :
              /\ job[q] \in ledger \cap CheckoutsOf(s)
              /\ row[s] # "none" => \E id \in ledger \cap CheckoutsOf(s) : id # job[q]
      BY <3>1 DEF RemadeInv, OrphanIsBought
    <3>3. row[s] = "none" /\ row'[s] # "none" => job[p] \in CheckoutsOf(s)
      BY <1>5
    <3> QED BY <1>2, <3>2, <3>3
  <2> QED BY <2>1, <2>2
<1>8. OrphanIsBought'
  BY <1>3, <1>7 DEF OrphanIsBought
<1> QED BY <1>6, <1>8 DEF RemadeInv

\* processStripeEvent, whoever runs it.
LEMMA RemadeProcess ==
  ASSUME TypeInv, RemadeInv, NEW p \in Procs, ProcessStep(p)
  PROVE  RemadeInv'
<1>0. pc \in [Procs -> PcStates] /\ row \in Tables
  BY DEF TypeInv, TypeOK, StripeTypeOK
<1>1. UNCHANGED <<events, job>> /\ \A q \in Procs \ {p} : pc'[q] = pc[q]
  BY <1>0 DEF ProcessStep, BuildPayload, RetrieveFails, ApplyFresh, ApplyDuplicate,
     ApplyRaises, ApplyCallFails, CancelOrphan, CancelOrphanFails, stripeVars
<1>2. CheckoutOnce'
  <2>1. \A i \in DOMAIN events : events[i].sub \in Subs
    <3>1. events \in Seq(Events)
      BY DEF TypeInv, TypeOK, StripeTypeOK
    <3>2. \A i \in DOMAIN events : events[i] \in Events
      BY <3>1
    <3> QED BY <3>2 DEF Events
  <2> QED BY <1>1, <2>1, ProcessKeeps DEF RemadeInv, CheckoutOnce, IsCheckout
<1>3. CASE ~Commit(job[p])
  <2>1. UNCHANGED storeVars /\ pc'[p] # "cancel"
    BY <1>0, <1>3 DEF ProcessStep, BuildPayload, RetrieveFails, ApplyFresh, ApplyDuplicate,
       ApplyRaises, ApplyCallFails, CancelOrphan, CancelOrphanFails
  <2>2. Recorded' = Recorded /\ \A id : EventOf(id)' = EventOf(id)
    BY <1>1 DEF Recorded, EventOf
  <2> QED BY <1>1, <1>2, <2>1, <2>2, RemadeKept DEF storeVars
<1>4. CASE Commit(job[p])
  <2>1. CASE UNCHANGED storeVars
    BY <1>4, <2>1 DEF Commit, storeVars
  <2>2. CASE ~UNCHANGED storeVars
    <3>1. ApplyFresh(p) \/ ApplyCallFails(p)
      BY <2>2 DEF ProcessStep, BuildPayload, RetrieveFails, ApplyDuplicate, ApplyRaises,
         CancelOrphan, CancelOrphanFails
    <3>2. pc[p] = "apply"
      BY <3>1 DEF ApplyFresh, ApplyCallFails
    <3>3. pc'[p] = "cancel" => Orphans(row, OpOf(job[p]))
      BY <1>0, <3>1, ReplyIsOrphan DEF ApplyFresh, ApplyCallFails
    <3> QED BY <1>1, <1>2, <1>4, <3>2, <3>3, RemadeCommit
  <2> QED BY <2>1, <2>2
<1> QED BY <1>3, <1>4

\* Every step of the webhook preserves RemadeInv.
LEMMA RemadeStep == TypeInv /\ RemadeInv /\ [Next]_vars => RemadeInv'
<1> SUFFICES ASSUME TypeInv, RemadeInv, [Next]_vars PROVE RemadeInv'
  OBVIOUS
<1>0. pc \in [Procs -> PcStates] /\ Handlers \subseteq Procs
  BY HandlersAssumption DEF TypeInv, TypeOK, StripeTypeOK
<1>1. ASSUME UNCHANGED storeVars, CheckoutOnce',
             \A q \in Procs : pc'[q] = "cancel" => pc[q] = "cancel" /\ job'[q] = job[q]
      PROVE  RemadeInv'
  BY <1>1, WebhookKeeps, RemadeKept DEF storeVars
<1>2. UNCHANGED stripeVars => CheckoutOnce'
  BY DEF RemadeInv, CheckoutOnce, IsCheckout, stripeVars
<1>3. CASE StripeMoves
  <2>1. CheckoutOnce'
    BY <1>3, CheckoutStripe DEF StripeMoves, RemadeInv
  <2> QED BY <1>1, <1>3, <2>1 DEF StripeMoves, procVars
<1>4. CASE (\E id \in EventIds : ResolveDlqEntry(id)) \/ UNCHANGED vars
  BY <1>1, <1>2, <1>4 DEF ResolveDlqEntry, vars, procVars
<1>5. ASSUME NEW p \in Handlers, HandlerStep(p)
      PROVE  RemadeInv'
  <2>1. CASE ProcessStep(p)
    BY <1>0, <2>1, RemadeProcess
  <2>2. CASE ~ProcessStep(p)
    <3>1. UNCHANGED <<stripeVars, storeVars>> /\ pc'[p] # "cancel"
      BY <1>0, <1>5, <2>2
      DEF HandlerStep, Deliver, Resend, Respond, ReadAttempts, KvUnavailable, WriteAttempts,
          ParkEvent, ParkFails, Crash, Begin, Refuse, Reset
    <3>2. \A q \in Procs \ {p} : pc'[q] = pc[q] /\ job'[q] = job[q]
      BY <1>0, <1>5, <2>2
      DEF HandlerStep, Deliver, Resend, Respond, ReadAttempts, KvUnavailable, WriteAttempts,
          ParkEvent, ParkFails, Crash, Begin, Refuse, Reset, TypeInv, TypeOK, StripeTypeOK
    <3> QED BY <1>1, <1>2, <3>1, <3>2
  <2> QED BY <2>1, <2>2
<1> QED BY <1>3, <1>4, <1>5 DEF Next

\* So does every step of the cron.
LEMMA RemadeCron ==
  ASSUME SyncInv, MembersInv, RemadeInv, SyncStep
  PROVE  RemadeInv'
<1>0. /\ TypeInv /\ Cron \in Procs /\ row \in Tables /\ pc \in [Procs -> PcStates]
      /\ job \in [Procs -> Ids \cup {NoJob}]
  BY CronAssumption DEF SyncInv, TypeInv, TypeOK, StripeTypeOK
<1>1. CASE ProcessStep(Cron)
  BY <1>0, <1>1, RemadeProcess
<1>2. CASE ~ProcessStep(Cron)
  <2>1. UNCHANGED <<stripe, events, ledger>>
    BY <1>2
    DEF SyncStep, SyncProgress, ProcessProgress, ProcessStep, ReadLedger, ListEvents,
        ReplayEvent, EventSynced, AbortRun, ListActiveSubs, SubsDone, RecreateMembership,
        SkipMembership, FindStale, CorrectStatus, ListMembers, Deactivate, MembersDone,
        RetrieveSub, ListMembersFails, RunDies, RetrieveSubFails, hookState, storeVars,
        stripeVars
  <2>2. Recorded' = Recorded /\ (\A id : EventOf(id)' = EventOf(id)) /\ CheckoutOnce'
    BY <2>1 DEF Recorded, EventOf, RemadeInv, CheckoutOnce, IsCheckout
  <2>3. \A q \in Procs : pc'[q] = "cancel" => pc[q] = "cancel" /\ job'[q] = job[q]
    BY <1>0, <1>2
    DEF SyncStep, SyncProgress, ProcessProgress, ProcessStep, ReadLedger, ListEvents,
        ReplayEvent, EventSynced, AbortRun, ListActiveSubs, SubsDone, RecreateMembership,
        SkipMembership, FindStale, CorrectStatus, ListMembers, Deactivate, MembersDone,
        RetrieveSub, ListMembersFails, RunDies, RetrieveSubFails, hookState, procVars,
        Begin, Reset
  <2>4. \A s \in Subs : row'[s] # "none" => row[s] # "none"
    <3>1. CASE row' # row
      <4>1. [SyncNext]_allVars
        BY DEF SyncNext
      <4>2. \/ cur \in Subs /\ row' = After(row, Renew(cur))
            \/ phase = "deactivate" /\ row' = [row EXCEPT ![cur] = "cancelled"]
        BY <2>1, <3>1, <4>1, SyncRowChange DEF Commit
      <4>3. phase = "deactivate" => row[cur] # "none"
        BY DEF MembersInv
      <4> QED BY <1>0, <4>2, <4>3, ApplyOne DEF Renew, Ops, Statuses, Tables
    <3> QED BY <3>1
  <2> QED BY <1>0, <2>1, <2>2, <2>3, <2>4, RemadeKept
<1> QED BY <1>1, <1>2

\* MembersInv and RemadeInv are invariants of the webhook with the cron.
LEMMA RemadeInvariant == SyncSpec => [](MembersInv /\ RemadeInv)
<1>1. SyncInit => MembersInv /\ RemadeInv
  BY DEF SyncInit, Init, StripeInit, MembersInv, RemadeInv, CheckoutOnce, RowIsBought,
         OrphanIsBought, EmptyTable
<1>2. SyncInv /\ MembersInv /\ RemadeInv /\ [SyncNext]_allVars => RemadeInv'
  <2> SUFFICES ASSUME SyncInv, MembersInv, RemadeInv, [SyncNext]_allVars PROVE RemadeInv'
    OBVIOUS
  <2>1. CASE [Next]_vars
    BY <2>1, RemadeStep DEF SyncInv
  <2>2. CASE Age \/ UNCHANGED allVars
    BY <2>1, <2>2 DEF Age, allVars, hookState, vars
  <2> QED BY <2>1, <2>2, RemadeCron DEF SyncNext
<1> QED BY <1>1, <1>2, MembersStep, SyncInvariant, PTL DEF SyncSpec

\* A member loses a subscription as an orphan only when its checkout was applied under
\* both ids, the second one refused by the row the first one made.
THEOREM OrphanRowsAreRemade == SyncSpec => []OrphanRowIsRemade
<1>1. SyncInv /\ RemadeInv => OrphanRowIsRemade
  <2> SUFFICES ASSUME SyncInv, RemadeInv, NEW p \in Procs, pc[p] = "cancel",
                      row[EventOf(job[p]).sub] # "none"
               PROVE  LET s == EventOf(job[p]).sub IN
                      /\ Synthetic(s) \in ledger
                      /\ \E i \in DOMAIN events :
                            /\ events[i].type = "checkout_completed" /\ events[i].sub = s
                            /\ Live(i) \in ledger
    BY DEF OrphanRowIsRemade
  <2>1. PICK s \in Subs :
            /\ job[p] \in ledger \cap CheckoutsOf(s)
            /\ row[s] # "none" => \E id \in ledger \cap CheckoutsOf(s) : id # job[p]
    BY DEF RemadeInv, OrphanIsBought
  <2>2. EventOf(job[p]).sub = s
    BY <2>1 DEF CheckoutsOf
  <2>3. PICK id \in ledger \cap CheckoutsOf(s) : id # job[p]
    BY <2>1, <2>2
  <2>4. /\ Synthetic(s) \in {id, job[p]}
        /\ \E i \in DOMAIN events : IsCheckout(i) /\ events[i].sub = s /\ Live(i) \in {id, job[p]}
    BY <2>1, <2>3, TwoCheckouts DEF RemadeInv, SyncInv
  <2> QED BY <2>1, <2>2, <2>3, <2>4 DEF IsCheckout
<1> QED BY <1>1, RemadeInvariant, SyncInvariant, PTL

-----------------------------------------------------------------------------
(* The refinement *)

\* The other half of the refinement mapping, by name.
ledgerEnded  == {s \in Subs : stripe[s] \in TerminalAtStripe}
ledgerRemade == {s \in Subs : Synthetic(s) \in ledger}

\* The ledger within the reconciled ledger is the webhook's.
LEMMA SameLedger ==
  /\ \A table, op : /\ Reconciled!Raises(table, op) = Raises(table, op)
                    /\ Reconciled!After(table, op) = After(table, op)
  /\ \A e : Reconciled!Payload(e) = Payload(e)
  /\ \A s : Reconciled!Create(s) = Create(s) /\ Reconciled!Renew(s) = Renew(s)
  /\ Ledger!Next => Reconciled!Next
  /\ Ledger!vars = Reconciled!vars
<1>1. \A s : Reconciled!Create(s) = Create(s) /\ Reconciled!Renew(s) = Renew(s)
  BY DEF Reconciled!Create, Create, Reconciled!Renew, Renew
<1>2. \A table, op : /\ Reconciled!Raises(table, op) = Raises(table, op)
                     /\ Reconciled!After(table, op) = After(table, op)
  BY DEF Reconciled!Raises, Raises, Reconciled!After, After, Reconciled!Writes, Writes,
         Reconciled!Orphans, Orphans, Reconciled!Updates, Updates, Reconciled!SlotTaken, SlotTaken
<1>3. \A e : Reconciled!Payload(e) = Payload(e)
  BY DEF Reconciled!Payload, Payload, Reconciled!Create, Create, Reconciled!Renew, Renew,
         Reconciled!Update, Update, Reconciled!Cancel, Cancel, Reconciled!Noop, Noop,
         Reconciled!MapStripeStatus, MapStripeStatus
<1>4. Ledger!vars = Reconciled!vars
  BY DEF Ledger!vars, Reconciled!vars
<1>5. Ledger!Happen => Reconciled!Happen
  <2>1. Ledger!Events = Reconciled!Events
    BY DEF Ledger!Events, Reconciled!Events, Ledger!EventTypes, Reconciled!EventTypes,
           Ledger!StripeStatuses, Reconciled!StripeStatuses
  <2> QED BY <2>1 DEF Ledger!Happen, Reconciled!Happen
<1>6. ASSUME NEW i \in DOMAIN events, Ledger!Record(i)
      PROVE  Reconciled!Record(i)
  <2>1. /\ Ledger!Raises(row, Ledger!Payload(events[i])) = Raises(row, Payload(events[i]))
        /\ Ledger!After(row, Ledger!Payload(events[i])) = After(row, Payload(events[i]))
    BY SamePayload, SameTransaction
  <2>2. /\ Reconciled!Raises(row, Reconciled!Payload(events[i])) = Raises(row, Payload(events[i]))
        /\ Reconciled!After(row, Reconciled!Payload(events[i])) = After(row, Payload(events[i]))
    BY <1>2, <1>3
  <2> QED BY <1>6, <2>1, <2>2 DEF Ledger!Record, Reconciled!Record
<1>7. ASSUME NEW i \in DOMAIN events, Ledger!Park(i) \/ Ledger!Ack(i)
      PROVE  Reconciled!Park(i) \/ Reconciled!Ack(i)
  BY <1>7 DEF Ledger!Park, Reconciled!Park, Ledger!Ack, Reconciled!Ack
<1>8. Ledger!Next => Reconciled!Next
  BY <1>5, <1>6, <1>7 DEF Ledger!Next, Reconciled!Next
<1> QED BY <1>1, <1>2, <1>3, <1>4, <1>8

\* A step of the webhook's ledger that ends and makes up nothing is one of this ledger.
LEMMA LedgerMoves ==
  ASSUME [Ledger!Next]_Ledger!vars, UNCHANGED <<ledgerEnded, ledgerRemade>>
  PROVE  [Reconciled!ReconciledNext]_Reconciled!reconciledVars
<1>1. Reconciled!Next \/ UNCHANGED Reconciled!vars
  BY SameLedger DEF Ledger!vars, Reconciled!vars
<1>2. CASE Reconciled!Next
  BY <1>2 DEF Reconciled!ReconciledNext, ledgerEnded, ledgerRemade
<1>3. CASE UNCHANGED Reconciled!vars
  BY <1>3 DEF Reconciled!reconciledVars, ledgerEnded, ledgerRemade
<1> QED BY <1>1, <1>2, <1>3

\* So is the end of a subscription.
LEMMA Ends ==
  ASSUME NEW s \in Subs, UNCHANGED <<Reconciled!vars, ledgerRemade>>,
         ledgerEnded' = ledgerEnded \cup {s}
  PROVE  [Reconciled!ReconciledNext]_Reconciled!reconciledVars
<1>1. Reconciled!End(s)
  BY DEF Reconciled!End, ledgerEnded, ledgerRemade
<1> QED BY <1>1 DEF Reconciled!ReconciledNext

\* A change at Stripe that ends a subscription is not an event.
LEMMA StripeEnds ==
  ASSUME TypeInv, NEW s \in Subs, StripeStep(s)
  PROVE  \/ ledgerEnded' = ledgerEnded
         \/ UNCHANGED events /\ ledgerEnded' = ledgerEnded \cup {s}
<1>0. stripe \in [Subs -> StripeStatuses \cup {"none"}]
  BY DEF TypeInv, TypeOK, StripeTypeOK
<1>1. CASE Unsubscribe(s)
  BY <1>0, <1>1 DEF Unsubscribe, ledgerEnded, TerminalAtStripe
<1>2. ASSUME NEW t, NEW st, Emit(t, s, st), st \in TerminalAtStripe <=> stripe[s] \in TerminalAtStripe
      PROVE  ledgerEnded' = ledgerEnded
  <2>1. stripe' = [stripe EXCEPT ![s] = st]
    BY <1>2 DEF Emit
  <2>2. \A u \in Subs : stripe'[u] \in TerminalAtStripe <=> stripe[u] \in TerminalAtStripe
    BY <1>0, <1>2, <2>1
  <2> QED BY <2>2 DEF ledgerEnded, TerminalAtStripe
<1>3. CASE Subscribe(s) \/ Bill(s) \/ PaymentFails(s) \/ Pause(s) \/ Change(s)
  <2>1. PICK t, st : Emit(t, s, st) /\ st \in {"active", "past_due", "paused", "unpaid"}
    BY <1>3 DEF Subscribe, Bill, PaymentFails, Pause, Change
  <2>2. stripe[s] \notin TerminalAtStripe
    BY <1>3 DEF Subscribe, Bill, PaymentFails, Pause, Change, Ended, TerminalAtStripe
  <2> QED BY <1>2, <2>1, <2>2 DEF TerminalAtStripe
<1>4. CASE ChangePrice(s) \/ NotifyDeleted(s) \/ MoneyBack(s)
  <2>1. PICK t : Emit(t, s, stripe[s])
    BY <1>4 DEF ChangePrice, NotifyDeleted, MoneyBack
  <2> QED BY <1>2, <2>1
<1> QED BY <1>1, <1>3, <1>4 DEF StripeStep

\* A step at Stripe is an event, the end of a subscription or nothing.
LEMMA RefineSyncStripe ==
  ASSUME TypeInv, KnownIds, StripeMoves
  PROVE  [Reconciled!ReconciledNext]_Reconciled!reconciledVars
<1>1. PICK s \in Subs : StripeStep(s) /\ UNCHANGED <<storeVars, procVars, faults, hookVars>>
  BY DEF StripeMoves
<1>2. ledgerRemade' = ledgerRemade
  BY <1>1 DEF ledgerRemade, storeVars
<1>3. CASE ledgerEnded' = ledgerEnded
  BY <1>2, <1>3, RefineStripe, LedgerMoves
<1>4. CASE UNCHANGED events /\ ledgerEnded' = ledgerEnded \cup {s}
  <2>1. UNCHANGED Reconciled!vars
    BY <1>1, <1>4 DEF Reconciled!vars, storeVars, hookVars, Parked
  <2> QED BY <1>2, <1>4, <2>1, Ends
<1> QED BY <1>1, <1>3, <1>4, StripeEnds

\* So is a step of a request: a step of the ledger, or the end of an orphan.
LEMMA RefineSyncHandler ==
  ASSUME TypeInv, DurableInv, NEW p \in Handlers, HandlerStep(p)
  PROVE  [Reconciled!ReconciledNext]_Reconciled!reconciledVars
<1>0. stripe \in [Subs -> StripeStatuses \cup {"none"}] /\ p \in Procs
  BY HandlersAssumption DEF TypeInv, TypeOK, StripeTypeOK
<1>1. ledgerRemade' = ledgerRemade
  <2>1. ledger' = ledger \/ (ledger' = ledger \cup {job[p]} /\ pc[p] = "apply")
    BY DEF HandlerStep, Deliver, Resend, Respond, ReadAttempts, KvUnavailable, WriteAttempts,
         ParkEvent, ParkFails, Crash, ProcessStep, BuildPayload, RetrieveFails, ApplyFresh,
         ApplyDuplicate, ApplyRaises, ApplyCallFails, CancelOrphan, CancelOrphanFails, Commit,
         storeVars
  <2>2. pc[p] = "apply" => \A s \in Subs : Synthetic(s) # job[p]
    BY Working DEF Recorded, Live, Synthetic
  <2> QED BY <2>1, <2>2 DEF ledgerRemade
<1>2. CASE CancelOrphan(p) /\ UNCHANGED hookVars
  <2> DEFINE s == EventOf(job[p]).sub
  <2>1. s \in Subs
    BY <1>2, Working DEF CancelOrphan, Events
  <2>2. ledgerEnded' = ledgerEnded \cup {s}
    BY <1>0, <1>2, <2>1 DEF CancelOrphan, ledgerEnded, TerminalAtStripe
  <2>3. UNCHANGED Reconciled!vars
    BY <1>2 DEF CancelOrphan, Reconciled!vars, storeVars, hookVars, Parked
  <2> QED BY <1>1, <2>1, <2>2, <2>3, Ends
<1>3. CASE UNCHANGED stripe
  <2>1. ledgerEnded' = ledgerEnded
    BY <1>3 DEF ledgerEnded
  <2> QED BY <1>1, <2>1, RefineHandler, LedgerMoves
<1> QED
  BY <1>2, <1>3
  DEF HandlerStep, Deliver, Resend, Respond, ReadAttempts, KvUnavailable, WriteAttempts,
      ParkEvent, ParkFails, Crash, ProcessStep, BuildPayload, RetrieveFails, ApplyFresh,
      ApplyDuplicate, ApplyRaises, ApplyCallFails, CancelOrphanFails, stripeVars

\* A transaction of the cron is the record of an event, or of a checkout of its own.
LEMMA RefineCommit ==
  ASSUME SyncInv, UNCHANGED <<events, hookVars, stripe>>,
         NEW id \in Recorded \cup Synthetics, Commit(id)
  PROVE  Reconciled!ReconciledNext
<1>1. UNCHANGED <<ledgerParked, ledgerAcked, ledgerEnded>>
  BY DEF ledgerParked, ledgerAcked, ledgerEnded, hookVars, Parked
<1>2. ASSUME NEW i \in DOMAIN events, id = Live(i)
      PROVE  Reconciled!ReconciledNext
  <2>1. /\ i \notin ledgerRecorded /\ ledgerRecorded' = ledgerRecorded \cup {i}
        /\ ledgerRemade' = ledgerRemade
    BY <1>2, LiveInjective DEF Commit, ledgerRecorded, ledgerRemade, Live, Synthetic
  <2>2. OpOf(id) = Payload(events[i])
    BY <1>2 DEF OpOf, EventOf, Live
  <2>3. /\ ~Reconciled!Raises(row, Reconciled!Payload(events[i]))
        /\ row' = Reconciled!After(row, Reconciled!Payload(events[i]))
    BY <2>2, SameLedger DEF Commit
  <2>4. Reconciled!Record(i) /\ UNCHANGED <<ledgerEnded, ledgerRemade>>
    BY <1>1, <2>1, <2>3
    DEF Reconciled!Record, ledgerRecorded, ledgerParked, ledgerAcked
  <2> QED BY <1>2, <2>4 DEF Reconciled!ReconciledNext, Reconciled!Next, ledgerEnded, ledgerRemade
<1>3. ASSUME NEW s \in Subs, id = Synthetic(s)
      PROVE  Reconciled!ReconciledNext
  <2>1. /\ s \notin ledgerRemade /\ ledgerRemade' = ledgerRemade \cup {s}
        /\ ledgerRecorded' = ledgerRecorded
    BY <1>3 DEF Commit, ledgerRecorded, ledgerRemade, Live, Synthetic
  <2>2. OpOf(id) = Create(s)
    BY <1>3 DEF OpOf, EventOf, Synthetic, Payload
  <2>3. row' = Reconciled!After(row, Reconciled!Create(s))
    BY <2>2, SameLedger DEF Commit
  <2>4. Reconciled!Remake(s)
    BY <1>1, <2>1, <2>3
    DEF Reconciled!Remake, ledgerRecorded, ledgerParked, ledgerAcked, ledgerEnded, ledgerRemade
  <2> QED BY <2>4 DEF Reconciled!ReconciledNext
<1> QED BY <1>2, <1>3 DEF Recorded, Synthetics

\* A step of the cron.
LEMMA RefineCron ==
  ASSUME SyncInv, MembersInv, SyncStep
  PROVE  [Reconciled!ReconciledNext]_Reconciled!reconciledVars
<1>0. /\ TypeInv /\ RunInv /\ Cron \in Procs
      /\ stripe \in [Subs -> StripeStatuses \cup {"none"}] /\ row \in Tables
  BY CronAssumption DEF SyncInv, TypeInv, TypeOK, StripeTypeOK
<1>1. UNCHANGED <<events, hookVars>>
  BY CronKeeps
<1>2. ASSUME NEW id \in Recorded \cup Synthetics, Commit(id), UNCHANGED stripe
      PROVE  Reconciled!ReconciledNext
  BY <1>1, <1>2, RefineCommit
<1>3. CASE CorrectStatus \/ Deactivate
  <2>1. /\ UNCHANGED <<stripe, ledger>> /\ cur \in Subs
    BY <1>0, <1>3 DEF CorrectStatus, Deactivate, RunInv, stripeVars
  <2>2. UNCHANGED <<ledgerRecorded, ledgerParked, ledgerAcked, ledgerEnded, ledgerRemade>>
    BY <1>1, <2>1
    DEF ledgerRecorded, ledgerParked, ledgerAcked, ledgerEnded, ledgerRemade, hookVars, Parked
  <2>3. CASE UNCHANGED row
    BY <1>1, <2>2, <2>3
    DEF Reconciled!reconciledVars, Reconciled!vars, ledgerRecorded, ledgerParked, ledgerAcked,
        ledgerEnded, ledgerRemade
  <2>4. CASE CorrectStatus /\ ~Raises(row, Renew(cur)) /\ row' = After(row, Renew(cur))
    <3>1. /\ ~Reconciled!Raises(row, Reconciled!Renew(cur))
          /\ row' = Reconciled!After(row, Reconciled!Renew(cur))
      BY <2>4, SameLedger
    <3>2. Reconciled!Correct(cur)
      BY <1>1, <2>2, <3>1
      DEF Reconciled!Correct, ledgerRecorded, ledgerParked, ledgerAcked, ledgerEnded, ledgerRemade
    <3> QED BY <2>1, <3>2 DEF Reconciled!ReconciledNext
  <2>5. CASE Deactivate /\ row' = [row EXCEPT ![cur] = "cancelled"]
    <3>1. cur \in ledgerEnded /\ row[cur] # "none"
      BY <1>0, <2>1, <2>5 DEF Deactivate, RunInv, MembersInv, ledgerEnded
    <3>2. Reconciled!Deactivate(cur)
      BY <1>1, <2>2, <2>5, <3>1
      DEF Reconciled!Deactivate, ledgerRecorded, ledgerParked, ledgerAcked, ledgerEnded,
          ledgerRemade
    <3> QED BY <2>1, <3>2 DEF Reconciled!ReconciledNext
  <2> QED BY <1>3, <2>3, <2>4, <2>5 DEF CorrectStatus, Corrected, Deactivate
<1>4. CASE UNCHANGED storeVars
  <2>1. UNCHANGED Reconciled!vars /\ ledgerRemade' = ledgerRemade
    BY <1>1, <1>4 DEF Reconciled!vars, ledgerRemade, storeVars, hookVars, Parked
  <2>2. CASE CancelOrphan(Cron)
    <3> DEFINE s == EventOf(job[Cron]).sub
    <3>1. s \in Subs
      BY <1>0, <2>2, AtWork DEF CancelOrphan, Events
    <3>2. ledgerEnded' = ledgerEnded \cup {s}
      BY <1>0, <2>2, <3>1 DEF CancelOrphan, ledgerEnded, TerminalAtStripe
    <3> QED BY <2>1, <3>1, <3>2, Ends
  <2>3. CASE UNCHANGED stripe
    BY <2>1, <2>3 DEF Reconciled!reconciledVars, ledgerRemade
  <2>4. stripe' = stripe \/ CancelOrphan(Cron)
    BY DEF SyncStep, SyncProgress, ProcessProgress, ProcessStep, BuildPayload, RetrieveFails,
       ApplyFresh, ApplyDuplicate, ApplyRaises, ApplyCallFails, CancelOrphanFails, ReadLedger,
       ListEvents, ReplayEvent, EventSynced, AbortRun, ListActiveSubs, SubsDone,
       RecreateMembership, SkipMembership, FindStale, CorrectStatus, ListMembers, Deactivate,
       MembersDone, RetrieveSub, ListMembersFails, RunDies, RetrieveSubFails, hookState,
       stripeVars
  <2> QED BY <2>2, <2>3, <2>4
<1> QED BY <1>2, <1>3, <1>4, CronKeeps

\* The webhook and the cron together implement the reconciled ledger: whatever they
\* replay, retry or lose, an event takes effect at most once, a made-up checkout at
\* most once, and the cron writes a membership in two ways beside that.
THEOREM SyncImplementsLedger == SyncSpec => ImplementsReconciled
<1>1. SyncInit => Reconciled!ReconciledInit
  BY DEF SyncInit, Init, StripeInit, WebhookInit, Reconciled!ReconciledInit, Reconciled!Init,
         EmptyTable, Reconciled!EmptyTable, Parked, TerminalAtStripe
<1>2. SyncInv /\ LedgerInv /\ MembersInv /\ [SyncNext]_allVars
        => [Reconciled!ReconciledNext]_Reconciled!reconciledVars
  <2> SUFFICES ASSUME SyncInv, LedgerInv, MembersInv, [SyncNext]_allVars
               PROVE  [Reconciled!ReconciledNext]_Reconciled!reconciledVars
    OBVIOUS
  <2>0. TypeInv /\ KnownIds /\ DurableInv
    BY DEF SyncInv, LedgerInv
  <2>1. CASE UNCHANGED <<events, row, ledger, stripe, acked, Parked>>
    BY <2>1 DEF Reconciled!reconciledVars, Reconciled!vars
  <2>2. CASE \E id \in EventIds : ResolveDlqEntry(id)
    BY <2>1, <2>2 DEF ResolveDlqEntry, Parked, stripeVars, storeVars
  <2>3. CASE Age \/ UNCHANGED allVars
    BY <2>1, <2>3 DEF Age, allVars, hookState, stripeVars, storeVars, hookVars, Parked
  <2> QED BY <2>0, <2>2, <2>3, RefineSyncStripe, RefineSyncHandler, RefineCron
      DEF SyncNext, Next
<1> QED BY <1>1, <1>2, SyncInvariant, LedgerInvariant, RemadeInvariant, PTL
        DEF SyncSpec, ImplementsReconciled, Reconciled!ReconciledSpec
=============================================================================
