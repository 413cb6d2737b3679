------------------------- MODULE ClickPipelineProofs -------------------------
(***************************************************************************)
(* What ClickPipeline guarantees for every set of clicks and workers, any  *)
(* number of copies, retries and faults, and any threshold of the breaker. *)
(***************************************************************************)
EXTENDS ClickPipeline, FiniteSetTheorems, TLAPS

-----------------------------------------------------------------------------
(* The data of a step *)

\* A body counts, of each click, the messages that are there.
LEMMA MessagesCounted ==
    ASSUME NEW S \in SUBSET Messages
    PROVE  /\ CountOf(S) \in [Clicks -> Nat]
           /\ \A c \in Clicks : CountOf(S)[c] > 0 <=> \E m \in S : m[1] = c
<1>1. IsFiniteSet(Messages)
  <2>1. IsFiniteSet(Clicks) /\ MaxCopies \in Int /\ 1 \in Int
    BY ClicksAssumption
  <2>2. IsFiniteSet(1..MaxCopies)
    BY <2>1, FS_Interval
  <2> QED
    BY <2>1, <2>2, FS_Product DEF Messages
<1>2. ASSUME NEW c \in Clicks
      PROVE  /\ Cardinality({m \in S : m[1] = c}) \in Nat
             /\ Cardinality({m \in S : m[1] = c}) = 0 <=> {m \in S : m[1] = c} = {}
  <2>1. IsFiniteSet({m \in S : m[1] = c})
    BY <1>1, FS_Subset
  <2> QED
    BY <2>1, FS_CardinalityType, FS_EmptySet
<1>3. CountOf(S) \in [Clicks -> Nat]
  BY <1>2 DEF CountOf
<1>4. ASSUME NEW c \in Clicks PROVE CountOf(S)[c] > 0 <=> \E m \in S : m[1] = c
  <2>1. CountOf(S)[c] = Cardinality({m \in S : m[1] = c})
    BY DEF CountOf
  <2>2. {m \in S : m[1] = c} # {} <=> \E m \in S : m[1] = c
    OBVIOUS
  <2> QED
    BY <1>2, <2>1, <2>2
<1> QED
  BY <1>3, <1>4

\* The methods of the breaker keep its state one of a breaker.
LEMMA BreakerTyped ==
    ASSUME NEW b \in Breakers
    PROVE  OnSuccess(b) \in Breakers /\ OnFailure(b) \in Breakers /\ Elapse(b) \in Breakers
BY ThresholdAssumption
   DEF Breakers, CircuitStates, OnSuccess, OnFailure, Elapse, Trips, TransitionTo

\* The rows the operator has fetched are in the table until the replay ends.
SliceIsThere == at[Operator] # "idle" => \A c \in Clicks : slice[c] <= failures[c]

TypeInv == ClicksTypeOK /\ SliceIsThere

LEMMA TypeInit == ClicksInit => TypeInv
<1> SUFFICES ASSUME ClicksInit PROVE TypeInv
  OBVIOUS
<1>1. breaker \in Breakers
  BY ThresholdAssumption DEF ClicksInit, NewBreaker, Breakers, CircuitStates
<1>2. 0 \in 0..MaxRetries /\ 0 \in 0..MaxFaults
  BY ClicksAssumption
<1>3. at[Operator] = "idle"
  BY DEF ClicksInit, Callers
<1> QED
  BY <1>1, <1>2, <1>3
  DEF ClicksInit, TypeInv, ClicksTypeOK, SliceIsThere, PubStates, CallStates, NoClicks

LEMMA BodyTyped ==
    ASSUME ClicksTypeOK, NEW k \in Callers
    PROVE  Body(k) \in [Clicks -> Nat] /\ Rows(k) \in SUBSET Clicks
<1>1. CASE k = Operator
  BY <1>1 DEF ClicksTypeOK, Body, Rows, ClicksOf
<1>2. CASE k # Operator
  <2>1. batch[k] \in SUBSET Messages
    BY <1>2 DEF ClicksTypeOK, Callers
  <2>2. CountOf(batch[k]) \in [Clicks -> Nat]
    BY <2>1, MessagesCounted
  <2> QED
    BY <1>2, <2>2 DEF Body, Rows, ClicksOf
<1> QED
  BY <1>1, <1>2

\* The settling of a batch changes the queues, and nothing that is not typed.
LEMMA SettleTyped ==
    ASSUME TypeInv, NEW k \in Workers, NEW acked \in SUBSET Messages, Settle(k, acked),
           faults' \in 0..MaxFaults
    PROVE  TypeInv'
<1>1. batch[k] \subseteq Messages /\ k # Operator /\ k \in Callers /\ MaxRetries \in Nat
  BY ClicksAssumption DEF TypeInv, ClicksTypeOK, Callers
<1>2. queue' \subseteq Messages /\ dead' \subseteq Messages
  BY DEF Settle, TypeInv, ClicksTypeOK
<1>3. tries' \in [Messages -> 0..MaxRetries]
  <2>1. ASSUME NEW m \in Messages, tries[m] # MaxRetries PROVE tries[m] + 1 \in 0..MaxRetries
    BY <1>1, <2>1 DEF TypeInv, ClicksTypeOK
  <2> QED
    BY <1>1, <2>1 DEF Settle, TypeInv, ClicksTypeOK
<1>4. /\ batch' \in [Workers -> SUBSET Messages] /\ at' \in [Callers -> CallStates]
      /\ at'[Operator] = at[Operator]
  BY <1>1 DEF Settle, TypeInv, ClicksTypeOK, CallStates, Callers
<1>5. UNCHANGED <<pub, slice, tableVars, breaker, worldVars, gone>>
  BY DEF Settle
<1> QED
  BY <1>2, <1>3, <1>4, <1>5 DEF TypeInv, ClicksTypeOK, SliceIsThere, tableVars, worldVars

\* A step that leaves the queues and the operator's replay, and adds to the tables.
LEMMA TablesTyped ==
    ASSUME TypeInv, UNCHANGED <<queueVars, batch, slice>>,
           pub' \in [Clicks -> PubStates], at' \in [Callers -> CallStates],
           at'[Operator] # "idle" => at[Operator] # "idle",
           stored' \subseteq Clicks, spill' \in [Clicks -> Nat],
           failures' \in [Clicks -> Nat],
           at[Operator] # "idle" => \A c \in Clicks : failures[c] <= failures'[c],
           breaker' \in Breakers, deleted' \in BOOLEAN, index' = index,
           gone' \subseteq Clicks, faults' \in 0..MaxFaults
    PROVE  TypeInv'
<1>1. ClicksTypeOK'
  BY DEF TypeInv, ClicksTypeOK, queueVars
<1>2. SliceIsThere'
  BY DEF TypeInv, ClicksTypeOK, SliceIsThere
<1> QED
  BY <1>1, <1>2 DEF TypeInv

LEMMA FaultTyped == ClicksTypeOK /\ Fault => faults' \in 0..MaxFaults
BY ClicksAssumption DEF ClicksTypeOK, Fault

LEMMA TypeStep == TypeInv /\ [ClicksNext]_clickVars => TypeInv'
<1> SUFFICES ASSUME TypeInv, [ClicksNext]_clickVars PROVE TypeInv'
  OBVIOUS
<1> USE DEF callVars, tableVars, worldVars
<1>a. ClicksTypeOK
  BY DEF TypeInv
<1>1. ASSUME NEW c \in Clicks, Publish(c) \/ PublishUnsure(c) PROVE TypeInv'
  <2>1. queue' \subseteq Messages
    BY <1>a, <1>1, ClicksAssumption DEF Publish, PublishUnsure, ClicksTypeOK, Messages
  <2>2. pub' \in [Clicks -> PubStates]
    BY <1>a, <1>1 DEF Publish, PublishUnsure, ClicksTypeOK, PubStates
  <2>3. faults' \in 0..MaxFaults
    BY <1>a, <1>1, FaultTyped DEF Publish, PublishUnsure, ClicksTypeOK
  <2>4. UNCHANGED <<dead, tries, callVars, tableVars, breaker, worldVars, gone>>
    BY <1>1 DEF Publish, PublishUnsure
  <2> QED
    BY <2>1, <2>2, <2>3, <2>4 DEF TypeInv, ClicksTypeOK, SliceIsThere
<1>2. ASSUME NEW c \in Clicks, LogClickFailure(c) \/ LogClickFails(c) PROVE TypeInv'
  <2>1. pub' \in [Clicks -> PubStates] /\ gone' \subseteq Clicks
    BY <1>a, <1>2 DEF LogClickFailure, LogClickFails, ClicksTypeOK, PubStates
  <2>2. failures' \in [Clicks -> Nat] /\ \A x \in Clicks : failures[x] <= failures'[x]
    BY <1>a, <1>2 DEF LogClickFailure, LogClickFails, ClicksTypeOK
  <2> QED
    BY <1>a, <1>2, <2>1, <2>2, TablesTyped DEF LogClickFailure, LogClickFails, ClicksTypeOK
<1>3. ASSUME NEW c \in Clicks, SpillLands(c) \/ SpillFails(c) PROVE TypeInv'
  <2>1. spill' \in [Clicks -> Nat]
    BY <1>a, <1>3 DEF SpillLands, SpillFails, ClicksTypeOK
  <2>2. failures' \in [Clicks -> Nat] /\ \A x \in Clicks : failures[x] <= failures'[x]
    BY <1>a, <1>3 DEF SpillLands, SpillFails, ClicksTypeOK
  <2>3. faults' \in 0..MaxFaults
    BY <1>a, <1>3, FaultTyped DEF SpillLands, SpillFails, ClicksTypeOK
  <2> QED
    BY <1>a, <1>3, <2>1, <2>2, <2>3, TablesTyped DEF SpillLands, SpillFails, ClicksTypeOK
<1>4. ASSUME NEW k \in Workers, DeliverBatch(k) \/ DeliverDead(k) PROVE TypeInv'
  <2>1. /\ batch' \in [Workers -> SUBSET Messages] /\ at' \in [Callers -> CallStates]
        /\ at'[Operator] = at[Operator]
    BY <1>a, <1>4, ClicksAssumption
    DEF DeliverBatch, DeliverDead, Deliver, ClicksTypeOK, Callers, CallStates
  <2>2. UNCHANGED <<pub, queueVars, slice, tableVars, breaker, worldVars, gone, faults>>
    BY <1>4 DEF DeliverBatch, DeliverDead, Deliver
  <2> QED
    BY <2>1, <2>2 DEF TypeInv, ClicksTypeOK, SliceIsThere, queueVars
<1>5. ASSUME NEW k \in Workers, AckByMessage(k) \/ AckUnparsed(k) \/ AckDead(k) \/ RetryAll(k)
      PROVE  TypeInv'
  <2>1. PICK acked \in SUBSET Messages : Settle(k, acked)
    BY <1>a, <1>5 DEF AckByMessage, AckUnparsed, AckDead, RetryAll, ClicksTypeOK
  <2>2. faults' \in 0..MaxFaults
    BY <1>a, <1>5, FaultTyped DEF AckByMessage, AckUnparsed, AckDead, RetryAll, ClicksTypeOK
  <2> QED
    BY <2>1, <2>2, SettleTyped
<1>6. ASSUME NEW k \in Callers, Validate(k) PROVE TypeInv'
  <2>1. spill' \in [Clicks -> Nat]
    <3>1. Body(k) \in [Clicks -> Nat] /\ spill \in [Clicks -> Nat]
      BY <1>a, BodyTyped DEF ClicksTypeOK
    <3>2. spill' = [c \in Clicks |-> spill[c] + IF c \in Oversized THEN Body(k)[c] ELSE 0]
      BY <1>6 DEF Validate
    <3> QED
      BY <3>1, <3>2
  <2>2. at' \in [Callers -> CallStates] /\ (at'[Operator] # "idle" => at[Operator] # "idle")
    <3>1. at[k] # "idle" /\ \E label \in {"ok", "error", "upsert"} : Goto(k, label)
      BY <1>6 DEF Validate
    <3> QED
      BY <1>a, <3>1 DEF Goto, ClicksTypeOK, CallStates
  <2> QED
    BY <1>a, <1>6, <2>1, <2>2, TablesTyped DEF Validate, ClicksTypeOK
<1>7. ASSUME NEW k \in Callers, Upsert(k) \/ UpsertRefused(k) \/ UpsertFails(k) \/ CallLost(k)
      PROVE  TypeInv'
  <2>1. stored' \subseteq Clicks
    BY <1>a, <1>7, BodyTyped DEF Upsert, UpsertRefused, UpsertFails, CallLost, ClicksTypeOK
  <2>2. at' \in [Callers -> CallStates] /\ (at'[Operator] # "idle" => at[Operator] # "idle")
    <3>1. at[k] # "idle" /\ \E label \in {"ok", "error"} : Goto(k, label)
      BY <1>7 DEF Upsert, UpsertRefused, UpsertFails, CallLost
    <3> QED
      BY <1>a, <3>1 DEF Goto, ClicksTypeOK, CallStates
  <2>3. breaker' \in Breakers
    BY <1>a, <1>7, BreakerTyped DEF Upsert, UpsertRefused, UpsertFails, CallLost, ClicksTypeOK
  <2>4. faults' \in 0..MaxFaults
    BY <1>a, <1>7, FaultTyped DEF Upsert, UpsertRefused, UpsertFails, CallLost, ClicksTypeOK
  <2>5. UNCHANGED <<pub, queueVars, batch, slice, failures, spill, worldVars, gone>>
    BY <1>7 DEF Upsert, UpsertRefused, UpsertFails, CallLost
  <2> QED
    BY <1>a, <2>1, <2>2, <2>3, <2>4, <2>5, TablesTyped DEF ClicksTypeOK
<1>8. ASSUME NEW k \in Workers, PersistDead(k) PROVE TypeInv'
  <2>1. Body(k) \in [Clicks -> Nat] /\ k \in Callers
    BY <1>a, BodyTyped DEF Callers
  <2>2. failures' \in [Clicks -> Nat] /\ \A x \in Clicks : failures[x] <= failures'[x]
    BY <1>a, <1>8, <2>1 DEF PersistDead, Plus, ClicksTypeOK
  <2>3. at' \in [Callers -> CallStates] /\ (at'[Operator] # "idle" => at[Operator] # "idle")
    BY <1>a, <1>8, <2>1 DEF PersistDead, Goto, ClicksTypeOK, CallStates
  <2> QED
    BY <1>a, <1>8, <2>2, <2>3, TablesTyped DEF PersistDead, ClicksTypeOK
<1>9. CASE FetchFailures
  <2>1. slice' \in [Clicks -> Nat] /\ \A c \in Clicks : slice'[c] <= failures[c]
    BY <1>a, <1>9 DEF FetchFailures, ClicksTypeOK
  <2>2. at' \in [Callers -> CallStates]
    BY <1>a, <1>9 DEF FetchFailures, Goto, ClicksTypeOK, CallStates
  <2> QED
    BY <1>9, <2>1, <2>2 DEF FetchFailures, TypeInv, ClicksTypeOK, SliceIsThere, queueVars
<1>10. CASE DeleteReplayed \/ DeleteFails \/ ReplayFailed
  <2>1. failures' \in [Clicks -> Nat]
    BY <1>10 DEF DeleteReplayed, DeleteFails, ReplayFailed, TypeInv, ClicksTypeOK, SliceIsThere
  <2>2. EndReplay
    BY <1>10 DEF DeleteReplayed, DeleteFails, ReplayFailed
  <2>3. faults' \in 0..MaxFaults
    BY <1>a, <1>10, FaultTyped DEF DeleteReplayed, DeleteFails, ReplayFailed, ClicksTypeOK
  <2>4. at' \in [Callers -> CallStates] /\ at'[Operator] = "idle" /\ slice' \in [Clicks -> Nat]
    BY <1>a, <2>2 DEF EndReplay, Goto, NoClicks, ClicksTypeOK, CallStates, Callers
  <2> QED
    BY <2>1, <2>2, <2>3, <2>4 DEF EndReplay, TypeInv, ClicksTypeOK, SliceIsThere, queueVars
<1>11. ASSUME NEW c \in Clicks, Purge(c) PROVE TypeInv'
  <2>1. failures' \in [Clicks -> Nat] /\ gone' \subseteq Clicks /\ at[Operator] = "idle"
    BY <1>a, <1>11 DEF Purge, ClicksTypeOK
  <2> QED
    BY <1>a, <1>11, <2>1, TablesTyped DEF Purge, ClicksTypeOK
<1>12. CASE Cool \/ DeleteProducts
  <2>1. breaker' \in Breakers /\ deleted' \in BOOLEAN
    BY <1>a, <1>12, BreakerTyped DEF Cool, DeleteProducts, ClicksTypeOK
  <2> QED
    BY <1>a, <1>12, <2>1, TablesTyped DEF Cool, DeleteProducts, ClicksTypeOK
<1>13. CASE UNCHANGED clickVars
  BY <1>13 DEF clickVars, queueVars, TypeInv, ClicksTypeOK, SliceIsThere
<1> QED
  BY <1>1, <1>2, <1>3, <1>4, <1>5, <1>6, <1>7, <1>8, <1>9, <1>10, <1>11, <1>12, <1>13
  DEF ClicksNext, PublishStep, RouteStep, WorkerStep, OperatorStep

\* Type correctness of the pipeline.
THEOREM ClicksTypeCorrect == ClicksSpec => []ClicksTypeOK
<1>1. TypeInv => ClicksTypeOK
  BY DEF TypeInv
<1> QED
  BY <1>1, TypeInit, TypeStep, PTL DEF ClicksSpec

-----------------------------------------------------------------------------
(* Messages: each is in one queue, with one worker at most *)

BatchesHeld ==
    \A k \in Workers :
        /\ at[k] = "idle" <=> batch[k] = {}
        /\ batch[k] \subseteq queue \/ batch[k] \subseteq dead

OneHolder == \A k, l \in Workers : k # l => batch[k] \cap batch[l] = {}

NothingSentYet == \A c \in Clicks : pub[c] = "new" => \A m \in queue \cup dead : m[1] # c

MessageInv == queue \cap dead = {} /\ BatchesHeld /\ OneHolder /\ NothingSentYet

LEMMA MessageInit == ClicksInit => MessageInv
BY DEF ClicksInit, MessageInv, BatchesHeld, OneHolder, NothingSentYet, Callers

\* What the settling of a batch does to a message.
LEMMA SettleFacts ==
    ASSUME TypeInv, MessageInv, NEW k \in Workers, NEW acked \in SUBSET batch[k],
           Settle(k, acked)
    PROVE  /\ queue' \cup dead' \subseteq queue \cup dead
           /\ \A m \in queue \cup dead : m \notin queue' \cup dead' =>
                m \in acked \/ (m \in dead /\ m \in batch[k] \ acked /\ tries[m] = MaxRetries)
           /\ \A m \in queue' : m \in queue
           /\ \A m \in dead' : \/ tries'[m] = 0
                               \/ m \in dead /\ m \in batch[k] \ acked /\ tries'[m] = tries[m] + 1
                               \/ m \in dead /\ m \notin batch[k] /\ tries'[m] = tries[m]
           /\ at'[k] = "idle" /\ batch'[k] = {}
           /\ \A l \in Callers : l # k => at'[l] = at[l]
           /\ \A l \in Workers : l # k => batch'[l] = batch[l]
<1> DEFINE back == batch[k] \ acked
           spent == {m \in back : tries[m] = MaxRetries}
<1>1. /\ queue' = queue \ (acked \cup spent)
      /\ dead' = (dead \ (acked \cup spent)) \cup (spent \cap queue)
      /\ tries' = [m \in Messages |-> CASE m \in acked \cup spent -> 0
                                       [] m \in back \ spent     -> tries[m] + 1
                                       [] OTHER                   -> tries[m]]
      /\ batch' = [batch EXCEPT ![k] = {}] /\ at' = [at EXCEPT ![k] = "idle"]
  BY DEF Settle
<1>2. k \in Callers /\ at \in [Callers -> CallStates] /\ batch \in [Workers -> SUBSET Messages]
      /\ dead \subseteq Messages /\ queue \subseteq Messages
  BY DEF TypeInv, ClicksTypeOK, Callers
<1>3. queue' \cup dead' \subseteq queue \cup dead /\ \A m \in queue' : m \in queue
  BY <1>1
<1>4. ASSUME NEW m \in queue \cup dead, m \notin queue' \cup dead'
      PROVE  m \in acked \/ (m \in dead /\ m \in batch[k] \ acked /\ tries[m] = MaxRetries)
  BY <1>1, <1>4
<1>5. ASSUME NEW m \in dead'
      PROVE  \/ tries'[m] = 0
             \/ m \in dead /\ m \in batch[k] \ acked /\ tries'[m] = tries[m] + 1
             \/ m \in dead /\ m \notin batch[k] /\ tries'[m] = tries[m]
  <2>1. m \in Messages /\ (m \in acked \cup spent \/ m \in dead)
    BY <1>1, <1>2, <1>5
  <2>2. CASE m \in acked \cup spent
    BY <1>1, <2>1, <2>2
  <2>3. CASE m \notin acked \cup spent /\ m \in back
    BY <1>1, <2>1, <2>3
  <2>4. CASE m \notin acked \cup spent /\ m \notin back
    BY <1>1, <2>1, <2>4
  <2> QED
    BY <2>2, <2>3, <2>4
<1> QED
  BY <1>1, <1>2, <1>3, <1>4, <1>5

LEMMA SettleMessages ==
    ASSUME TypeInv, MessageInv, NEW k \in Workers, NEW acked \in SUBSET batch[k],
           Settle(k, acked)
    PROVE  MessageInv'
<1> DEFINE spent == {m \in batch[k] \ acked : tries[m] = MaxRetries}
<1>1. /\ queue' = queue \ (acked \cup spent)
      /\ dead' = (dead \ (acked \cup spent)) \cup (spent \cap queue) /\ pub' = pub
  BY DEF Settle
<1>2. /\ at'[k] = "idle" /\ batch'[k] = {}
      /\ \A l \in Workers : l # k => batch'[l] = batch[l] /\ at'[l] = at[l]
  BY SettleFacts DEF Callers
<1>3. queue' \cap dead' = {}
  BY <1>1 DEF MessageInv
<1>4. BatchesHeld'
  <2> SUFFICES ASSUME NEW l \in Workers
               PROVE  /\ at'[l] = "idle" <=> batch'[l] = {}
                      /\ batch'[l] \subseteq queue' \/ batch'[l] \subseteq dead'
    BY DEF BatchesHeld
  <2>1. CASE l = k
    BY <1>2, <2>1
  <2>2. CASE l # k
    <3>1. batch'[l] = batch[l] /\ at'[l] = at[l] /\ batch[l] \cap (acked \cup spent) = {}
      BY <1>2, <2>2 DEF MessageInv, OneHolder
    <3> QED
      BY <1>1, <3>1 DEF MessageInv, BatchesHeld
  <2> QED
    BY <2>1, <2>2
<1>5. OneHolder'
  BY <1>2 DEF MessageInv, OneHolder
<1>6. NothingSentYet'
  BY <1>1 DEF MessageInv, NothingSentYet
<1> QED
  BY <1>3, <1>4, <1>5, <1>6 DEF MessageInv

\* A step that leaves the queues alone, and no click unpublished again.
LEMMA QuietMessages ==
    ASSUME MessageInv, UNCHANGED <<queueVars, batch>>,
           \A c \in Clicks : pub'[c] = "new" => pub[c] = "new",
           \A k \in Workers : at'[k] = "idle" <=> at[k] = "idle"
    PROVE  MessageInv'
BY DEF MessageInv, BatchesHeld, OneHolder, NothingSentYet, queueVars

\* A caller goes on with its call.
LEMMA OthersStay ==
    ASSUME ClicksTypeOK, NEW k \in Callers, NEW label \in CallStates, Goto(k, label)
    PROVE  at'[k] = label /\ \A l \in Callers : l # k => at'[l] = at[l]
BY DEF ClicksTypeOK, Goto

\* A call in its course moves from one label to another.
CallGoes(k) ==
    /\ at[k] # "idle"
    /\ \E label \in {"upsert", "ok", "error"} : Goto(k, label)

LEMMA CallsGo ==
    ASSUME NEW k \in Callers, RouteStep(k) \/ (k \in Workers /\ PersistDead(k))
    PROVE  CallGoes(k) /\ UNCHANGED <<queueVars, batch, slice, pub, gone>>
BY DEF RouteStep, Validate, Upsert, UpsertRefused, UpsertFails, CallLost, PersistDead, CallGoes,
       worldVars, tableVars

LEMMA MessageStep == TypeInv /\ MessageInv /\ [ClicksNext]_clickVars => MessageInv'
<1> SUFFICES ASSUME TypeInv, MessageInv, [ClicksNext]_clickVars PROVE MessageInv'
  OBVIOUS
<1> USE DEF callVars, tableVars, worldVars
<1>a. ClicksTypeOK
  BY DEF TypeInv
<1>1. ASSUME NEW c \in Clicks, Publish(c) \/ PublishUnsure(c) PROVE MessageInv'
  <2>1. PICK copies \in SUBSET ({c} \X (1..MaxCopies)) : queue' = queue \cup copies
    <3>1. CASE Publish(c)
      <4>1. {<<c, 1>>} \in SUBSET ({c} \X (1..MaxCopies))
        BY ClicksAssumption
      <4> QED
        BY <3>1, <4>1 DEF Publish
    <3>2. CASE PublishUnsure(c)
      BY <3>2 DEF PublishUnsure
    <3> QED
      BY <1>1, <3>1, <3>2
  <2>2. \A m \in copies : m[1] = c
    BY <2>1
  <2>3. pub[c] = "new" /\ pub'[c] # "new" /\ \A x \in Clicks : x # c => pub'[x] = pub[x]
    BY <1>a, <1>1 DEF Publish, PublishUnsure, ClicksTypeOK
  <2>4. UNCHANGED <<dead, batch, at>>
    BY <1>1 DEF Publish, PublishUnsure
  <2>5. queue' \cap dead' = {}
    BY <2>1, <2>2, <2>3, <2>4 DEF MessageInv, NothingSentYet
  <2>6. BatchesHeld' /\ OneHolder'
    BY <2>1, <2>4 DEF MessageInv, BatchesHeld, OneHolder
  <2>7. NothingSentYet'
    BY <2>1, <2>2, <2>3, <2>4 DEF MessageInv, NothingSentYet
  <2> QED
    BY <2>5, <2>6, <2>7 DEF MessageInv
<1>2. ASSUME NEW c \in Clicks, LogClickFailure(c) \/ LogClickFails(c) PROVE MessageInv'
  BY <1>a, <1>2, QuietMessages DEF LogClickFailure, LogClickFails, ClicksTypeOK
<1>3. ASSUME NEW c \in Clicks, SpillLands(c) \/ SpillFails(c) PROVE MessageInv'
  BY <1>3, QuietMessages DEF SpillLands, SpillFails
<1>4. ASSUME NEW k \in Workers, DeliverBatch(k) \/ DeliverDead(k) PROVE MessageInv'
  <2>1. PICK source \in {queue, dead} : Deliver(k, source)
    BY <1>4 DEF DeliverBatch, DeliverDead
  <2>2. PICK msgs \in (SUBSET (source \ InFlight)) \ {{}} : batch' = [batch EXCEPT ![k] = msgs]
    BY <2>1 DEF Deliver
  <2>3. /\ at'[k] = "sent" /\ batch'[k] = msgs
        /\ \A l \in Workers : l # k => at'[l] = at[l] /\ batch'[l] = batch[l]
    BY <1>a, <2>1, <2>2 DEF Deliver, ClicksTypeOK, Callers
  <2>4. msgs # {} /\ (msgs \subseteq queue \/ msgs \subseteq dead)
        /\ \A l \in Workers : msgs \cap batch[l] = {}
    BY <2>2 DEF InFlight
  <2>5. UNCHANGED <<pub, queue, dead>>
    BY <2>1 DEF Deliver, queueVars
  <2> QED
    BY <2>3, <2>4, <2>5 DEF MessageInv, BatchesHeld, OneHolder, NothingSentYet
<1>5. ASSUME NEW k \in Workers, AckByMessage(k) \/ AckUnparsed(k) \/ AckDead(k) \/ RetryAll(k)
      PROVE  MessageInv'
  <2>1. PICK acked \in SUBSET batch[k] : Settle(k, acked)
    BY <1>5 DEF AckByMessage, AckUnparsed, AckDead, RetryAll
  <2> QED
    BY <2>1, SettleMessages
<1>6. ASSUME NEW k \in Callers, RouteStep(k) \/ (k \in Workers /\ PersistDead(k))
      PROVE  MessageInv'
  <2>1. CallGoes(k) /\ UNCHANGED <<queueVars, batch, pub>>
    BY <1>6, CallsGo
  <2>2. \A l \in Workers : at'[l] = "idle" <=> at[l] = "idle"
    BY <1>a, <2>1, OthersStay DEF CallGoes, CallStates, Callers
  <2> QED
    BY <2>1, <2>2, QuietMessages
<1>7. ASSUME FetchFailures \/ DeleteReplayed \/ DeleteFails \/ ReplayFailed PROVE MessageInv'
  <2>1. \E label \in CallStates : Goto(Operator, label)
    BY <1>7 DEF FetchFailures, DeleteReplayed, DeleteFails, ReplayFailed, EndReplay, CallStates
  <2>2. \A l \in Workers : at'[l] = at[l]
    BY <1>a, <2>1, OthersStay, ClicksAssumption DEF Callers
  <2>3. UNCHANGED <<queueVars, batch, pub>>
    BY <1>7 DEF FetchFailures, DeleteReplayed, DeleteFails, ReplayFailed, EndReplay
  <2> QED
    BY <2>2, <2>3, QuietMessages
<1>8. ASSUME NEW c \in Clicks, Purge(c) PROVE MessageInv'
  BY <1>8, QuietMessages DEF Purge
<1>9. CASE Cool \/ DeleteProducts \/ UNCHANGED clickVars
  BY <1>9, QuietMessages DEF Cool, DeleteProducts, clickVars
<1> QED
  BY <1>1, <1>2, <1>3, <1>4, <1>5, <1>6, <1>7, <1>8, <1>9
  DEF ClicksNext, PublishStep, WorkerStep, OperatorStep, Callers

-----------------------------------------------------------------------------
(* What a step may change *)

\* The tables grow, but for a row that lands, an insert that is lost, and the two
\* commands of the operator.
GrowFact ==
    /\ stored \subseteq stored' /\ gone \subseteq gone' /\ faults <= faults'
    /\ \A c \in Clicks :
        /\ failures[c] <= failures'[c] \/ Purge(c) \/ DeleteReplayed
        /\ spill[c] <= spill'[c] \/ SpillLands(c) \/ SpillFails(c)

LEMMA GrowStep == TypeInv /\ [ClicksNext]_clickVars => GrowFact
<1> SUFFICES ASSUME TypeInv, [ClicksNext]_clickVars PROVE GrowFact
  OBVIOUS
<1> USE DEF callVars, tableVars, worldVars
<1>a. /\ spill \in [Clicks -> Nat] /\ failures \in [Clicks -> Nat] /\ faults \in Nat
      /\ slice \in [Clicks -> Nat]
      /\ \A c \in Clicks : spill[c] <= spill[c] /\ failures[c] <= failures[c]
      /\ faults <= faults /\ (Fault => faults <= faults')
  BY ClicksAssumption DEF TypeInv, ClicksTypeOK, Fault
<1>1. ASSUME NEW c \in Clicks, PublishStep(c) PROVE GrowFact
  BY <1>a, <1>1
  DEF PublishStep, Publish, PublishUnsure, LogClickFailure, LogClickFails, GrowFact
<1>2. ASSUME NEW c \in Clicks, SpillLands(c) \/ SpillFails(c) PROVE GrowFact
  BY <1>a, <1>2 DEF SpillLands, SpillFails, GrowFact
<1>3. ASSUME NEW k \in Workers, DeliverBatch(k) \/ DeliverDead(k) PROVE GrowFact
  BY <1>a, <1>3 DEF DeliverBatch, DeliverDead, Deliver, GrowFact
<1>4. ASSUME NEW k \in Workers, AckByMessage(k) \/ AckUnparsed(k) \/ AckDead(k) \/ RetryAll(k)
      PROVE  GrowFact
  <2>1. UNCHANGED <<stored, failures, spill, gone>> /\ faults <= faults'
    BY <1>a, <1>4 DEF AckByMessage, AckUnparsed, AckDead, RetryAll, Settle
  <2> QED
    BY <1>a, <2>1 DEF GrowFact
<1>5. ASSUME NEW k \in Callers, Validate(k) PROVE GrowFact
  <2>1. Body(k) \in [Clicks -> Nat]
    BY BodyTyped DEF TypeInv
  <2>2. \A c \in Clicks : spill[c] <= spill'[c]
    BY <1>a, <1>5, <2>1 DEF Validate
  <2> QED
    BY <1>a, <1>5, <2>2 DEF Validate, GrowFact
<1>6. ASSUME NEW k \in Callers, Upsert(k) \/ UpsertRefused(k) \/ UpsertFails(k) \/ CallLost(k)
      PROVE  GrowFact
  <2>1. UNCHANGED <<failures, spill, gone>> /\ faults <= faults' /\ stored \subseteq stored'
    BY <1>a, <1>6 DEF Upsert, UpsertRefused, UpsertFails, CallLost
  <2> QED
    BY <1>a, <2>1 DEF GrowFact
<1>7. ASSUME NEW k \in Workers, PersistDead(k) PROVE GrowFact
  <2>1. Body(k) \in [Clicks -> Nat]
    BY BodyTyped DEF TypeInv, Callers
  <2>2. \A c \in Clicks : failures[c] <= failures'[c]
    BY <1>a, <1>7, <2>1 DEF PersistDead, Plus
  <2> QED
    BY <1>a, <1>7, <2>2 DEF PersistDead, GrowFact
<1>8. ASSUME FetchFailures \/ DeleteReplayed \/ DeleteFails \/ ReplayFailed PROVE GrowFact
  BY <1>a, <1>8 DEF FetchFailures, DeleteReplayed, DeleteFails, ReplayFailed, EndReplay, GrowFact
<1>9. ASSUME NEW c \in Clicks, Purge(c) PROVE GrowFact
  BY <1>a, <1>9 DEF Purge, GrowFact
<1>10. CASE Cool \/ DeleteProducts \/ UNCHANGED clickVars
  BY <1>a, <1>10 DEF Cool, DeleteProducts, clickVars, GrowFact
<1> QED
  BY <1>1, <1>2, <1>3, <1>4, <1>5, <1>6, <1>7, <1>8, <1>9, <1>10
  DEF ClicksNext, RouteStep, WorkerStep, OperatorStep

\* How a call comes where it is.
PathFact ==
    \A l \in Callers :
        /\ at'[l] = "upsert" => at[l] = "upsert" \/ Validate(l)
        /\ at'[l] = "ok" =>
             \/ at[l] = "ok" \/ Validate(l) \/ Upsert(l)
             \/ l \in Workers /\ PersistDead(l)
        /\ at'[l] = "error" =>
             \/ at[l] = "error" \/ Validate(l)
             \/ UpsertRefused(l) \/ UpsertFails(l) \/ CallLost(l)

Underway == {"upsert", "ok", "error"}

\* And what it was about is what it is about: a batch stays in its queue.
BatchFact ==
    /\ \A l \in Workers : at'[l] \in Underway =>
        /\ batch'[l] = batch[l] /\ batch[l] # {}
        /\ batch[l] \subseteq queue \/ batch[l] \subseteq dead
        /\ batch'[l] \subseteq queue' <=> batch[l] \subseteq queue
        /\ batch'[l] \subseteq dead' <=> batch[l] \subseteq dead
    /\ at'[Operator] \in Underway => slice' = slice

LEMMA PathStep == TypeInv /\ MessageInv /\ [ClicksNext]_clickVars => PathFact /\ BatchFact
<1> SUFFICES ASSUME TypeInv, MessageInv, [ClicksNext]_clickVars PROVE PathFact /\ BatchFact
  OBVIOUS
<1> USE DEF callVars, worldVars, queueVars
<1>a. ClicksTypeOK /\ Operator \in Callers /\ Operator \notin Workers /\ MessageInv'
  BY MessageStep, ClicksAssumption DEF TypeInv, Callers
<1>b. ASSUME UNCHANGED <<queue, dead, batch, slice>>,
             \A l \in Workers : at'[l] \in Underway => at[l] # "idle"
      PROVE  BatchFact
  BY <1>b DEF BatchFact, MessageInv, BatchesHeld
<1>1. ASSUME NEW c \in Clicks, Publish(c) \/ PublishUnsure(c) PROVE PathFact /\ BatchFact
  <2>1. UNCHANGED <<dead, batch, at, slice>>
    BY <1>1 DEF Publish, PublishUnsure
  <2>2. BatchFact
    BY <1>a, <2>1 DEF BatchFact, MessageInv, BatchesHeld, Underway
  <2> QED
    BY <2>1, <2>2 DEF PathFact
<1>2. ASSUME NEW c \in Clicks, \/ LogClickFailure(c) \/ LogClickFails(c)
                               \/ SpillLands(c) \/ SpillFails(c) \/ Purge(c)
      PROVE  PathFact /\ BatchFact
  <2>1. UNCHANGED <<queue, dead, batch, at, slice>>
    BY <1>2 DEF LogClickFailure, LogClickFails, SpillLands, SpillFails, Purge
  <2> QED
    BY <1>b, <2>1 DEF PathFact, Underway
<1>3. ASSUME NEW k \in Workers, NEW source, Deliver(k, source) PROVE PathFact /\ BatchFact
  <2>1. PICK msgs \in SUBSET source : batch' = [batch EXCEPT ![k] = msgs]
    BY <1>3 DEF Deliver
  <2>2. /\ at'[k] = "sent" /\ \A l \in Callers : l # k => at'[l] = at[l]
        /\ \A l \in Workers : l # k => batch'[l] = batch[l]
        /\ UNCHANGED <<queue, dead, slice>>
    BY <1>a, <1>3, <2>1 DEF Deliver, ClicksTypeOK, Callers
  <2>3. BatchFact
    BY <1>a, <2>2 DEF BatchFact, MessageInv, BatchesHeld, Underway, Callers
  <2> QED
    BY <2>2, <2>3 DEF PathFact
<1>4. ASSUME NEW k \in Workers, AckByMessage(k) \/ AckUnparsed(k) \/ AckDead(k) \/ RetryAll(k)
      PROVE  PathFact /\ BatchFact
  <2>1. PICK acked \in SUBSET batch[k] : Settle(k, acked)
    BY <1>4 DEF AckByMessage, AckUnparsed, AckDead, RetryAll
  <2>2. /\ at'[k] = "idle" /\ batch'[k] = {}
        /\ \A l \in Callers : l # k => at'[l] = at[l]
        /\ \A l \in Workers : l # k => batch'[l] = batch[l]
        /\ queue' \cup dead' \subseteq queue \cup dead /\ queue' \subseteq queue
    BY <2>1, SettleFacts
  <2>3. slice' = slice
    BY <2>1 DEF Settle
  <2>4. BatchFact
    <3> SUFFICES ASSUME NEW l \in Workers, at'[l] \in Underway
                 PROVE  /\ batch'[l] = batch[l] /\ batch[l] # {}
                        /\ batch[l] \subseteq queue \/ batch[l] \subseteq dead
                        /\ batch'[l] \subseteq queue' <=> batch[l] \subseteq queue
                        /\ batch'[l] \subseteq dead' <=> batch[l] \subseteq dead
      BY <2>3 DEF BatchFact
    <3>1. l # k /\ batch'[l] = batch[l] /\ at'[l] = at[l] /\ at[l] # "idle"
      BY <2>2 DEF Underway, Callers
    <3>2. batch[l] # {} /\ (batch[l] \subseteq queue \/ batch[l] \subseteq dead)
      BY <3>1 DEF MessageInv, BatchesHeld
    <3>3. batch'[l] \subseteq queue' \/ batch'[l] \subseteq dead'
      BY <1>a DEF MessageInv, BatchesHeld
    <3>4. queue \cap dead = {} /\ queue' \cap dead' = {}
      BY <1>a DEF MessageInv
    <3>5. PICK m \in batch[l] : TRUE
      BY <3>2
    <3>6. batch[l] \subseteq dead => batch[l] \subseteq dead'
      BY <2>2, <3>1, <3>3, <3>4, <3>5
    <3>7. batch[l] \subseteq queue => batch[l] \subseteq queue'
      <4>1. batch[l] \cap batch[k] = {}
        BY <3>1 DEF MessageInv, OneHolder
      <4> QED
        BY <2>1, <4>1 DEF Settle
    <3> QED
      BY <3>1, <3>2, <3>4, <3>5, <3>6, <3>7
  <2> QED
    BY <2>2, <2>4 DEF PathFact
<1>5. ASSUME NEW k \in Callers, RouteStep(k) \/ (k \in Workers /\ PersistDead(k))
      PROVE  PathFact /\ BatchFact
  <2>1. CallGoes(k) /\ UNCHANGED <<queueVars, batch, slice>>
    BY <1>5, CallsGo
  <2>2. \A l \in Callers : l # k => at'[l] = at[l]
    BY <1>a, <2>1, OthersStay DEF CallGoes, CallStates
  <2>3. BatchFact
    BY <1>b, <2>1, <2>2 DEF CallGoes, Underway, Callers
  <2>4. PathFact
    <3>1. at \in [Callers -> CallStates]
      BY <1>a DEF ClicksTypeOK
    <3>2. /\ at'[k] = "upsert" => at[k] = "upsert" \/ Validate(k)
          /\ at'[k] = "ok" => \/ at[k] = "ok" \/ Validate(k) \/ Upsert(k)
                              \/ k \in Workers /\ PersistDead(k)
          /\ at'[k] = "error" => \/ at[k] = "error" \/ Validate(k)
                                 \/ UpsertRefused(k) \/ UpsertFails(k) \/ CallLost(k)
      BY <1>5, <3>1 DEF RouteStep, Upsert, UpsertRefused, UpsertFails, CallLost, PersistDead, Goto
    <3> QED
      BY <2>2, <3>2 DEF PathFact
  <2> QED
    BY <2>3, <2>4
<1>6. ASSUME FetchFailures \/ DeleteReplayed \/ DeleteFails \/ ReplayFailed
      PROVE  PathFact /\ BatchFact
  <2>1. \E label \in {"sent", "idle"} : Goto(Operator, label)
    BY <1>6 DEF FetchFailures, DeleteReplayed, DeleteFails, ReplayFailed, EndReplay
  <2>2. at'[Operator] \in {"sent", "idle"} /\ \A l \in Workers : at'[l] = at[l]
    BY <1>a, <2>1, OthersStay DEF Callers, CallStates
  <2>3. UNCHANGED <<queue, dead, batch>>
    BY <1>6 DEF FetchFailures, DeleteReplayed, DeleteFails, ReplayFailed, EndReplay
  <2>4. BatchFact
    BY <2>2, <2>3 DEF BatchFact, MessageInv, BatchesHeld, Underway
  <2> QED
    BY <2>2, <2>4 DEF PathFact, Callers
<1>7. CASE Cool \/ DeleteProducts \/ UNCHANGED clickVars
  <2>1. UNCHANGED <<queue, dead, batch, at, slice>>
    BY <1>7 DEF Cool, DeleteProducts, clickVars
  <2> QED
    BY <1>b, <2>1 DEF PathFact, Underway
<1> QED
  BY <1>1, <1>2, <1>3, <1>4, <1>5, <1>6, <1>7
  DEF ClicksNext, PublishStep, WorkerStep, OperatorStep, DeliverBatch, DeliverDead, Callers

-----------------------------------------------------------------------------
(* A published click is kept *)

\* In a table, on its way to one, given up, or hit by more faults than it stands.
Safe(c) == Kept(c) \/ spill[c] > 0 \/ faults > Budget(c)

SpillIsOversized == \A c \in Clicks : spill[c] > 0 => c \in Oversized

\* Only messages of the main queue reach the upsert.
UpsertIsMain == \A k \in Workers : at[k] = "upsert" => batch[k] \subseteq queue

\* What a 2xx says of a batch of either queue.
OkStored ==
    \A k \in Workers : at[k] = "ok" /\ batch[k] \subseteq queue =>
        \A m \in batch[k] : m[1] \in stored \cup Oversized

OkPersisted ==
    \A k \in Workers : at[k] = "ok" /\ batch[k] \subseteq dead =>
        \A m \in batch[k] : Safe(m[1])

\* And of a replay: what is not stored has come back as a new row, or is about to.
ReplayOk ==
    at[Operator] = "ok" => \A c \in Clicks : slice[c] > 0 => c \in stored \cup Oversized

ReplaySpilled ==
    at[Operator] \in {"upsert", "ok"} =>
        \A c \in Oversized : slice[c] > 0 => failures[c] + spill[c] > slice[c] \/ faults > 0

\* A dead letter comes back by faults only.
DeadTries ==
    \A m \in dead :
        /\ tries[m] <= faults
        /\ \A k \in Workers : m \in batch[k] /\ at[k] = "error" => tries[m] < faults

PublishedKept == \A c \in Clicks : pub[c] = "done" => Safe(c) \/ InAQueue(c)

KeepInv ==
    /\ SpillIsOversized /\ UpsertIsMain /\ OkStored /\ OkPersisted
    /\ ReplayOk /\ ReplaySpilled /\ DeadTries /\ PublishedKept

AllInv == TypeInv /\ MessageInv /\ KeepInv

LEMMA KeepInit == ClicksInit => KeepInv
BY DEF ClicksInit, KeepInv, SpillIsOversized, UpsertIsMain, OkStored, OkPersisted, ReplayOk,
       ReplaySpilled, DeadTries, PublishedKept, NoClicks, Callers

\* The numbers that are compared.
LEMMA Numbers ==
    ASSUME TypeInv
    PROVE  /\ faults \in Nat /\ MaxRetries \in Nat
           /\ \A c \in Clicks : /\ Budget(c) \in Nat /\ Budget(c) <= MaxRetries
                                /\ c \in Oversized => Budget(c) = 0
                                /\ failures[c] \in Nat /\ spill[c] \in Nat /\ slice[c] \in Nat
           /\ \A m \in Messages : tries[m] \in Nat
BY ClicksAssumption DEF TypeInv, ClicksTypeOK, Budget

\* What the operator deletes is stored, or there is more of it.
LEMMA DeleteKeeps ==
    ASSUME AllInv, DeleteReplayed, NEW c \in Clicks, failures[c] > 0
    PROVE  \/ failures'[c] > 0 \/ c \in stored
           \/ c \in Oversized /\ (spill[c] > 0 \/ faults > 0)
<1>1. /\ at[Operator] = "ok" /\ failures'[c] = failures[c] - slice[c]
      /\ slice[c] \in Nat /\ failures[c] \in Nat /\ spill[c] \in Nat
  BY Numbers DEF DeleteReplayed, AllInv
<1>2. CASE slice[c] = 0
  BY <1>1, <1>2
<1>3. CASE slice[c] > 0 /\ c \in stored
  BY <1>3
<1>4. CASE slice[c] > 0 /\ c \in Oversized
  BY <1>1, <1>4 DEF AllInv, KeepInv, ReplaySpilled
<1> QED
  BY <1>1, <1>2, <1>3, <1>4 DEF AllInv, KeepInv, ReplayOk

\* What is safe stays safe.
LEMMA SafeStays ==
    ASSUME AllInv, [ClicksNext]_clickVars, NEW c \in Clicks, Safe(c)
    PROVE  Safe(c)'
<1>1. GrowFact /\ TypeInv' /\ TypeInv
  BY GrowStep, TypeStep DEF AllInv
<1>2. /\ faults \in Nat /\ faults' \in Nat /\ faults <= faults' /\ Budget(c) \in Nat
      /\ c \in Oversized => Budget(c) = 0
      /\ failures[c] \in Nat /\ spill[c] \in Nat /\ failures'[c] \in Nat /\ spill'[c] \in Nat
      /\ stored \subseteq stored' /\ gone \subseteq gone'
  BY <1>1, Numbers DEF GrowFact, TypeInv, ClicksTypeOK
<1>3. CASE c \in stored \/ c \in gone \/ faults > Budget(c)
  BY <1>2, <1>3 DEF Safe, Kept, Budget
<1>4. CASE failures[c] > 0
  <2>1. CASE failures[c] <= failures'[c]
    BY <1>2, <1>4, <2>1 DEF Safe, Kept
  <2>2. CASE Purge(c)
    BY <2>2 DEF Purge, Safe, Kept
  <2>3. CASE DeleteReplayed
    <3>1. spill' = spill /\ stored' = stored /\ faults' = faults
      BY <2>3 DEF DeleteReplayed, EndReplay
    <3>2. \/ failures'[c] > 0 \/ c \in stored
          \/ c \in Oversized /\ (spill[c] > 0 \/ faults > 0)
      BY <1>4, <2>3, DeleteKeeps
    <3> QED
      BY <1>2, <3>1, <3>2 DEF Safe, Kept, Budget
  <2> QED
    BY <1>1, <2>1, <2>2, <2>3 DEF GrowFact
<1>5. CASE spill[c] > 0
  <2>1. CASE spill[c] <= spill'[c]
    BY <1>2, <1>5, <2>1 DEF Safe
  <2>2. CASE SpillLands(c)
    <3>1. failures'[c] = failures[c] + 1
      BY <1>1, <2>2 DEF SpillLands, TypeInv, ClicksTypeOK
    <3> QED
      BY <1>2, <3>1 DEF Safe, Kept
  <2>3. CASE SpillFails(c)
    <3>1. faults' = faults + 1 /\ c \in Oversized
      BY <1>5, <2>3 DEF SpillFails, Fault, AllInv, KeepInv, SpillIsOversized
    <3> QED
      BY <1>2, <3>1 DEF Safe, Budget
  <2> QED
    BY <1>1, <2>1, <2>2, <2>3 DEF GrowFact
<1> QED
  BY <1>3, <1>4, <1>5 DEF Safe, Kept

\* The clicks of a worker's batch are those its body counts.
LEMMA BatchBody ==
    ASSUME TypeInv, NEW k \in Workers, NEW m \in batch[k]
    PROVE  /\ m[1] \in Clicks /\ Body(k)[m[1]] > 0 /\ m[1] \in ClicksOf(Body(k))
           /\ FromMain(k) <=> batch[k] \subseteq queue
<1>1. k # Operator /\ batch[k] \in SUBSET Messages /\ m \in Messages /\ m[1] \in Clicks
  BY ClicksAssumption DEF TypeInv, ClicksTypeOK, Messages
<1>2. CountOf(batch[k])[m[1]] > 0
  BY <1>1, MessagesCounted
<1> QED
  BY <1>1, <1>2 DEF Body, ClicksOf, FromMain

LEMMA ValidateOk ==
    ASSUME NEW k \in Callers, ClicksTypeOK, Validate(k), at'[k] = "ok"
    PROVE  ClicksOf(Body(k)) \subseteq Oversized
BY DEF Validate, Goto, ClicksTypeOK

LEMMA OkStoredStep == AllInv /\ [ClicksNext]_clickVars => UpsertIsMain' /\ OkStored'
<1> SUFFICES ASSUME AllInv, [ClicksNext]_clickVars PROVE UpsertIsMain' /\ OkStored'
  OBVIOUS
<1>a. TypeInv /\ ClicksTypeOK /\ GrowFact /\ PathFact /\ BatchFact /\ MessageInv
  BY GrowStep, PathStep DEF AllInv, TypeInv
<1>1. ASSUME NEW k \in Workers, at'[k] = "upsert" PROVE batch'[k] \subseteq queue'
  <2>1. batch[k] # {} /\ (batch'[k] \subseteq queue' <=> batch[k] \subseteq queue) /\ k \in Callers
    BY <1>a, <1>1 DEF BatchFact, Underway, Callers
  <2>2. CASE at[k] = "upsert"
    BY <2>1, <2>2 DEF AllInv, KeepInv, UpsertIsMain
  <2>3. CASE Validate(k)
    BY <1>a, <2>1, <2>3, BatchBody DEF Validate
  <2> QED
    BY <1>a, <1>1, <2>1, <2>2, <2>3 DEF PathFact
<1>2. ASSUME NEW k \in Workers, at'[k] = "ok", batch'[k] \subseteq queue', NEW m \in batch'[k]
      PROVE  m[1] \in stored' \cup Oversized
  <2>1. batch[k] \subseteq queue /\ m \in batch[k] /\ k \in Callers
    BY <1>a, <1>2 DEF BatchFact, Underway, Callers
  <2>2. CASE at[k] = "ok"
    BY <1>a, <2>1, <2>2 DEF AllInv, KeepInv, OkStored, GrowFact
  <2>3. CASE Validate(k)
    BY <1>a, <1>2, <2>1, <2>3, BatchBody, ValidateOk
  <2>4. CASE Upsert(k)
    BY <1>a, <2>1, <2>4, BatchBody DEF Upsert, Rows
  <2>5. CASE PersistDead(k)
    BY <1>a, <2>1, <2>5, BatchBody DEF PersistDead
  <2> QED
    BY <1>a, <1>2, <2>1, <2>2, <2>3, <2>4, <2>5 DEF PathFact
<1> QED
  BY <1>1, <1>2 DEF UpsertIsMain, OkStored

LEMMA OkPersistedStep == AllInv /\ [ClicksNext]_clickVars => OkPersisted'
<1> SUFFICES ASSUME AllInv, [ClicksNext]_clickVars,
                    NEW k \in Workers, at'[k] = "ok", batch'[k] \subseteq dead',
                    NEW m \in batch'[k]
             PROVE  Safe(m[1])'
  BY DEF OkPersisted
<1>a. TypeInv /\ ClicksTypeOK /\ PathFact /\ BatchFact /\ MessageInv
  BY PathStep DEF AllInv, TypeInv
<1>1. batch[k] \subseteq dead /\ m \in batch[k] /\ k \in Callers /\ ~(batch[k] \subseteq queue)
  BY <1>a DEF BatchFact, Underway, Callers, MessageInv
<1>2. m[1] \in Clicks
  BY <1>a, <1>1, BatchBody
<1>3. CASE at[k] = "ok"
  BY <1>1, <1>2, <1>3, SafeStays DEF AllInv, KeepInv, OkPersisted
<1>4. CASE Validate(k)
  BY <1>a, <1>1, <1>4, BatchBody DEF Validate
<1>5. CASE Upsert(k)
  BY <1>1, <1>5 DEF Upsert, AllInv, KeepInv, UpsertIsMain
<1>6. CASE PersistDead(k)
  <2>1. failures'[m[1]] = failures[m[1]] + Body(k)[m[1]]
    BY <1>2, <1>6 DEF PersistDead, Plus
  <2>2. Body(k)[m[1]] > 0 /\ Body(k)[m[1]] \in Nat /\ failures[m[1]] \in Nat
    BY <1>a, <1>1, <1>2, BatchBody, BodyTyped, Numbers
  <2> QED
    BY <2>1, <2>2 DEF Safe, Kept
<1> QED
  BY <1>a, <1>1, <1>3, <1>4, <1>5, <1>6 DEF PathFact

LEMMA SpillStep == AllInv /\ [ClicksNext]_clickVars => SpillIsOversized'
<1> SUFFICES ASSUME AllInv, [ClicksNext]_clickVars, NEW c \in Clicks, spill'[c] > 0,
                    c \notin Oversized
             PROVE  FALSE
  BY DEF SpillIsOversized
<1>a. spill[c] = 0 /\ spill \in [Clicks -> Nat]
  BY Numbers DEF AllInv, KeepInv, SpillIsOversized, TypeInv, ClicksTypeOK
<1> USE DEF tableVars, callVars
<1>1. spill' # spill
  BY <1>a
<1>2. ASSUME NEW k \in Callers, Validate(k) PROVE FALSE
  BY <1>a, <1>2 DEF Validate
<1>3. ASSUME NEW x \in Clicks, SpillLands(x) \/ SpillFails(x) PROVE FALSE
  BY <1>a, <1>3 DEF SpillLands, SpillFails
<1>4. ASSUME NEW k \in Workers, WorkerStep(k) PROVE FALSE
  BY <1>1, <1>4 DEF WorkerStep, DeliverBatch, DeliverDead, Deliver, PersistDead, AckByMessage,
                    AckUnparsed, AckDead, RetryAll, Settle
<1>5. ASSUME NEW k \in Callers, Upsert(k) \/ UpsertRefused(k) \/ UpsertFails(k) \/ CallLost(k)
      PROVE  FALSE
  BY <1>1, <1>5 DEF Upsert, UpsertRefused, UpsertFails, CallLost
<1>6. ASSUME NEW x \in Clicks, PublishStep(x) PROVE FALSE
  BY <1>1, <1>6 DEF PublishStep, Publish, PublishUnsure, LogClickFailure, LogClickFails
<1>7. CASE OperatorStep
  BY <1>1, <1>7 DEF OperatorStep, FetchFailures, DeleteReplayed, DeleteFails, ReplayFailed,
                    Purge, EndReplay
<1>8. CASE Cool \/ DeleteProducts \/ UNCHANGED clickVars
  BY <1>1, <1>8 DEF Cool, DeleteProducts, clickVars
<1> QED
  BY <1>2, <1>3, <1>4, <1>5, <1>6, <1>7, <1>8 DEF ClicksNext, RouteStep

LEMMA ReplayOkStep == AllInv /\ [ClicksNext]_clickVars => ReplayOk'
<1> SUFFICES ASSUME AllInv, [ClicksNext]_clickVars, at'[Operator] = "ok",
                    NEW c \in Clicks, slice'[c] > 0
             PROVE  c \in stored' \cup Oversized
  BY DEF ReplayOk
<1>a. /\ ClicksTypeOK /\ PathFact /\ BatchFact /\ stored \subseteq stored'
      /\ Operator \in Callers /\ Operator \notin Workers
  BY GrowStep, PathStep, ClicksAssumption DEF AllInv, TypeInv, GrowFact, Callers
<1>1. slice' = slice
  BY <1>a DEF BatchFact, Underway
<1>2. CASE at[Operator] = "ok"
  BY <1>a, <1>1, <1>2 DEF AllInv, KeepInv, ReplayOk
<1>3. CASE Validate(Operator)
  BY <1>a, <1>1, <1>3, ValidateOk DEF Body, ClicksOf
<1>4. CASE Upsert(Operator)
  BY <1>1, <1>4 DEF Upsert, Rows, Body, ClicksOf
<1> QED
  BY <1>a, <1>2, <1>3, <1>4 DEF PathFact

\* While a replay is under way, the rows of a rejected click and those on their way
\* do not become fewer together, but for a fault.
LEMMA SumStep ==
    ASSUME AllInv, [ClicksNext]_clickVars, at[Operator] # "idle", at'[Operator] # "idle",
           NEW c \in Clicks
    PROVE  failures[c] + spill[c] <= failures'[c] + spill'[c] \/ faults' > 0
<1>1. GrowFact /\ TypeInv /\ TypeInv'
  BY GrowStep, TypeStep DEF AllInv
<1>2. failures[c] \in Nat /\ spill[c] \in Nat /\ failures'[c] \in Nat /\ spill'[c] \in Nat
      /\ faults \in Nat
  BY <1>1, Numbers DEF TypeInv, ClicksTypeOK
<1>3. failures[c] <= failures'[c]
  <2>1. ~Purge(c)
    BY DEF Purge
  <2>2. ~DeleteReplayed
    BY <1>1, OthersStay DEF DeleteReplayed, EndReplay, TypeInv, CallStates, Callers
  <2> QED
    BY <1>1, <2>1, <2>2 DEF GrowFact
<1>4. CASE spill[c] <= spill'[c]
  BY <1>2, <1>3, <1>4
<1>5. CASE SpillLands(c)
  <2>1. spill'[c] = spill[c] - 1 /\ failures'[c] = failures[c] + 1
    BY <1>1, <1>5 DEF SpillLands, TypeInv, ClicksTypeOK
  <2> QED
    BY <1>2, <2>1
<1>6. CASE SpillFails(c)
  BY <1>2, <1>6 DEF SpillFails, Fault
<1> QED
  BY <1>1, <1>4, <1>5, <1>6 DEF GrowFact

LEMMA ReplaySpilledStep == AllInv /\ [ClicksNext]_clickVars => ReplaySpilled'
<1> SUFFICES ASSUME AllInv, [ClicksNext]_clickVars, at'[Operator] \in {"upsert", "ok"},
                    NEW c \in Oversized, slice'[c] > 0
             PROVE  failures'[c] + spill'[c] > slice'[c] \/ faults' > 0
  BY DEF ReplaySpilled
<1>a. /\ TypeInv /\ ClicksTypeOK /\ PathFact /\ BatchFact /\ TypeInv'
      /\ Operator \in Callers /\ Operator \notin Workers /\ c \in Clicks
  BY TypeStep, PathStep, ClicksAssumption DEF AllInv, TypeInv, Callers
<1>1. slice' = slice
  BY <1>a DEF BatchFact, Underway
<1>2. /\ failures[c] \in Nat /\ spill[c] \in Nat /\ slice[c] \in Nat /\ faults \in Nat
      /\ failures'[c] \in Nat /\ spill'[c] \in Nat
  BY <1>a, Numbers DEF TypeInv, ClicksTypeOK
<1>3. CASE Validate(Operator)
  <2>1. spill'[c] = spill[c] + slice[c] /\ failures' = failures
    BY <1>a, <1>3 DEF Validate, Body
  <2>2. slice[c] <= failures[c]
    BY <1>a, <1>3 DEF Validate, TypeInv, SliceIsThere
  <2> QED
    BY <1>1, <1>2, <2>1, <2>2
<1>4. CASE at[Operator] \in {"upsert", "ok"}
  <2>1. failures[c] + spill[c] <= failures'[c] + spill'[c] \/ faults' > 0
    BY <1>a, <1>4, SumStep
  <2>2. failures[c] + spill[c] > slice[c] \/ faults > 0
    BY <1>1, <1>4 DEF AllInv, KeepInv, ReplaySpilled
  <2>3. faults' \in Nat /\ faults <= faults'
    BY <1>a, GrowStep DEF AllInv, GrowFact, TypeInv, ClicksTypeOK
  <2> QED
    BY <1>1, <1>2, <2>1, <2>2, <2>3
<1> QED
  BY <1>a, <1>3, <1>4 DEF PathFact, Upsert

Settles(k) == AckByMessage(k) \/ AckUnparsed(k) \/ AckDead(k) \/ RetryAll(k)

\* What is acked is safe, and what is returned to the dead letters has tries left.
LEMMA SettlesSafely ==
    ASSUME AllInv, NEW k \in Workers, Settles(k)
    PROVE  \E acked \in SUBSET batch[k] :
             /\ Settle(k, acked)
             /\ \A m \in acked : Safe(m[1]) \/ faults' > Budget(m[1])
             /\ \A m \in (batch[k] \ acked) \cap dead : tries[m] < faults
<1>a. /\ TypeInv /\ queue \cap dead = {} /\ faults \in Nat
      /\ \A m \in batch[k] : m[1] \in Clicks
  BY BatchBody, Numbers DEF AllInv, MessageInv
<1>1. CASE AckByMessage(k)
  <2>1. \A m \in batch[k] \ Refused(batch[k]) : Safe(m[1])
    BY <1>a, <1>1 DEF AckByMessage, AllInv, KeepInv, OkStored, Refused, Safe, Kept
  <2> QED
    BY <1>a, <1>1, <2>1 DEF AckByMessage
<1>2. CASE AckUnparsed(k)
  <2>1. ASSUME NEW m \in batch[k] PROVE Safe(m[1]) \/ faults' > Budget(m[1])
    <3>1. m[1] \in stored \/ m[1] \in Oversized
      BY <1>2 DEF AckUnparsed, AllInv, KeepInv, OkStored
    <3>2. faults' > 0
      BY <1>a, <1>2 DEF AckUnparsed, Fault
    <3> QED
      BY <3>1, <3>2 DEF Safe, Kept, Budget
  <2> QED
    BY <1>a, <1>2, <2>1 DEF AckUnparsed
<1>3. CASE AckDead(k)
  BY <1>3 DEF AckDead, AllInv, KeepInv, OkPersisted
<1>4. CASE RetryAll(k)
  <2>1. \A m \in batch[k] \cap dead : tries[m] < faults
    BY <1>4 DEF RetryAll, AllInv, KeepInv, DeadTries
  <2> QED
    BY <1>4, <2>1 DEF RetryAll
<1> QED
  BY <1>1, <1>2, <1>3, <1>4 DEF Settles

\* The other steps leave the dead letters alone.
LEMMA DeadStays ==
    ASSUME [ClicksNext]_clickVars, \A k \in Workers : ~Settles(k)
    PROVE  dead' = dead /\ tries' = tries /\ queue \subseteq queue'
<1> USE DEF queueVars
<1>1. ASSUME NEW c \in Clicks, PublishStep(c) \/ SpillLands(c) \/ SpillFails(c)
      PROVE  dead' = dead /\ tries' = tries /\ queue \subseteq queue'
  BY <1>1 DEF PublishStep, Publish, PublishUnsure, LogClickFailure, LogClickFails, SpillLands,
              SpillFails
<1>2. ASSUME NEW k \in Callers, RouteStep(k)
      PROVE  dead' = dead /\ tries' = tries /\ queue \subseteq queue'
  BY <1>2 DEF RouteStep, Validate, Upsert, UpsertRefused, UpsertFails, CallLost
<1>3. ASSUME NEW k \in Workers, WorkerStep(k)
      PROVE  dead' = dead /\ tries' = tries /\ queue \subseteq queue'
  BY <1>3 DEF WorkerStep, DeliverBatch, DeliverDead, Deliver, PersistDead, Settles
<1>4. CASE OperatorStep
  BY <1>4 DEF OperatorStep, FetchFailures, DeleteReplayed, DeleteFails, ReplayFailed, Purge,
              EndReplay
<1>5. CASE Cool \/ DeleteProducts \/ UNCHANGED clickVars
  BY <1>5 DEF Cool, DeleteProducts, clickVars
<1> QED
  BY <1>1, <1>2, <1>3, <1>4, <1>5 DEF ClicksNext

LEMMA DeadTriesStep == AllInv /\ [ClicksNext]_clickVars => DeadTries'
<1> SUFFICES ASSUME AllInv, [ClicksNext]_clickVars, NEW m \in dead'
             PROVE  /\ tries'[m] <= faults'
                    /\ \A l \in Workers : m \in batch'[l] /\ at'[l] = "error"
                                            => tries'[m] < faults'
  BY DEF DeadTries
<1>a. /\ TypeInv /\ TypeInv' /\ MessageInv /\ PathFact /\ BatchFact
      /\ faults \in Nat /\ faults' \in Nat /\ faults <= faults'
  BY TypeStep, PathStep, GrowStep, Numbers DEF AllInv, GrowFact, TypeInv, ClicksTypeOK
<1>b. m \in Messages /\ tries[m] \in Nat /\ tries'[m] \in Nat
  BY <1>a DEF TypeInv, ClicksTypeOK
<1>1. ASSUME NEW k \in Workers, Settles(k)
      PROVE  /\ tries'[m] <= faults'
             /\ \A l \in Workers : m \in batch'[l] /\ at'[l] = "error" => tries'[m] < faults'
  <2>1. PICK acked \in SUBSET batch[k] :
             Settle(k, acked) /\ \A x \in (batch[k] \ acked) \cap dead : tries[x] < faults
    BY <1>1, SettlesSafely
  <2>2. /\ \/ tries'[m] = 0
           \/ m \in dead /\ m \in batch[k] \ acked /\ tries'[m] = tries[m] + 1
           \/ m \in dead /\ m \notin batch[k] /\ tries'[m] = tries[m]
        /\ batch'[k] = {}
        /\ \A l \in Callers : l # k => at'[l] = at[l]
        /\ \A l \in Workers : l # k => batch'[l] = batch[l]
    BY <1>a, <2>1, SettleFacts
  <2>3. m \in dead \/ m \in batch[k]
    BY <2>1 DEF Settle
  <2>4. m \in dead => tries[m] <= faults
    BY DEF AllInv, KeepInv, DeadTries
  <2>5. tries'[m] <= faults'
    BY <1>a, <1>b, <2>1, <2>2, <2>4
  <2>6. ASSUME NEW l \in Workers, m \in batch'[l], at'[l] = "error" PROVE tries'[m] < faults'
    <3>1. l # k /\ m \in batch[l] /\ at[l] = "error" /\ m \notin batch[k]
      BY <1>a, <2>2, <2>6 DEF MessageInv, OneHolder, Callers
    <3>2. tries[m] < faults
      BY <2>3, <3>1 DEF AllInv, KeepInv, DeadTries
    <3> QED
      BY <1>a, <1>b, <2>2, <3>1, <3>2
  <2> QED
    BY <2>5, <2>6
<1>2. ASSUME \A k \in Workers : ~Settles(k)
      PROVE  /\ tries'[m] <= faults'
             /\ \A l \in Workers : m \in batch'[l] /\ at'[l] = "error" => tries'[m] < faults'
  <2>1. m \in dead /\ tries'[m] = tries[m] /\ tries[m] <= faults
    BY <1>2, DeadStays DEF AllInv, KeepInv, DeadTries
  <2>2. ASSUME NEW l \in Workers, m \in batch'[l], at'[l] = "error" PROVE tries[m] < faults'
    <3>1. m \in batch[l] /\ ~(batch[l] \subseteq queue) /\ l \in Callers /\ l # Operator
      BY <1>a, <2>1, <2>2, ClicksAssumption DEF BatchFact, Underway, MessageInv, Callers
    <3>2. CASE at[l] = "error"
      BY <1>a, <1>b, <2>1, <3>1, <3>2 DEF AllInv, KeepInv, DeadTries
    <3>3. CASE Validate(l)
      BY <3>1, <3>3 DEF Validate, FromMain
    <3>4. CASE UpsertRefused(l) \/ UpsertFails(l)
      BY <3>1, <3>4 DEF UpsertRefused, UpsertFails, AllInv, KeepInv, UpsertIsMain
    <3>5. CASE CallLost(l)
      BY <1>a, <1>b, <2>1, <3>5 DEF CallLost, Fault
    <3> QED
      BY <1>a, <2>2, <3>1, <3>2, <3>3, <3>4, <3>5 DEF PathFact
  <2> QED
    BY <1>a, <1>b, <2>1, <2>2
<1> QED
  BY <1>1, <1>2

LEMMA PublishedStep == AllInv /\ [ClicksNext]_clickVars => PublishedKept'
<1> SUFFICES ASSUME AllInv, [ClicksNext]_clickVars, NEW c \in Clicks, pub'[c] = "done"
             PROVE  Safe(c)' \/ InAQueue(c)'
  BY DEF PublishedKept
<1>a. TypeInv /\ ClicksTypeOK /\ TypeInv' /\ MessageInv
  BY TypeStep DEF AllInv, TypeInv
<1>1. CASE Safe(c)
  BY <1>1, SafeStays
<1>2. CASE InAQueue(c)
  <2>1. PICK m \in queue \cup dead : m[1] = c
    BY <1>2 DEF InAQueue
  <2>2. CASE m \in queue' \cup dead'
    BY <2>1, <2>2 DEF InAQueue
  <2>3. ASSUME NEW k \in Workers, Settles(k), m \notin queue' \cup dead' PROVE Safe(c)'
    <3>1. PICK acked \in SUBSET batch[k] :
               /\ Settle(k, acked)
               /\ \A x \in acked : Safe(x[1]) \/ faults' > Budget(x[1])
               /\ \A x \in (batch[k] \ acked) \cap dead : tries[x] < faults
      BY <2>3, SettlesSafely
    <3>2. m \in acked \/ (m \in dead /\ m \in batch[k] \ acked /\ tries[m] = MaxRetries)
      BY <1>a, <2>1, <2>3, <3>1, SettleFacts
    <3>3. CASE m \in acked
      BY <2>1, <3>1, <3>3, SafeStays DEF Safe, Budget
    <3>4. CASE m \in dead /\ m \in batch[k] \ acked /\ tries[m] = MaxRetries
      <4>1. faults > MaxRetries
        BY <1>a, <3>1, <3>4, Numbers
      <4>2. faults > Budget(c)
        BY <1>a, <4>1, Numbers
      <4> QED
        BY <4>2, SafeStays DEF Safe
    <3> QED
      BY <3>2, <3>3, <3>4
  <2> QED
    BY <2>1, <2>2, <2>3, DeadStays
<1>3. CASE pub[c] # "done"
  <2>1. Publish(c) \/ PublishUnsure(c) \/ LogClickFailure(c) \/ LogClickFails(c)
    <3>1. ASSUME NEW x \in Clicks, x # c, PublishStep(x) PROVE pub'[c] = pub[c]
      BY <1>a, <3>1 DEF PublishStep, Publish, PublishUnsure, LogClickFailure, LogClickFails,
                        ClicksTypeOK
    <3>2. ASSUME NEW x \in Clicks, SpillLands(x) \/ SpillFails(x) PROVE pub' = pub
      BY <3>2 DEF SpillLands, SpillFails
    <3>3. ASSUME NEW k \in Callers, RouteStep(k) PROVE pub' = pub
      BY <3>3 DEF RouteStep, Validate, Upsert, UpsertRefused, UpsertFails, CallLost
    <3>4. ASSUME NEW k \in Workers, WorkerStep(k) PROVE pub' = pub
      BY <3>4 DEF WorkerStep, DeliverBatch, DeliverDead, Deliver, PersistDead, AckByMessage,
                  AckUnparsed, AckDead, RetryAll, Settle
    <3>5. OperatorStep \/ Cool \/ DeleteProducts \/ UNCHANGED clickVars => pub' = pub
      BY DEF OperatorStep, FetchFailures, DeleteReplayed, DeleteFails, ReplayFailed, Purge,
             EndReplay, Cool, DeleteProducts, clickVars
    <3> QED
      BY <1>3, <3>1, <3>2, <3>3, <3>4, <3>5 DEF ClicksNext, PublishStep
  <2>2. CASE Publish(c)
    <3>1. <<c, 1>> \in queue'
      BY <2>2 DEF Publish
    <3> QED
      BY <3>1 DEF InAQueue
  <2>3. CASE PublishUnsure(c)
    <3>1. PICK copies \in SUBSET ({c} \X (1..MaxCopies)), end \in {"done", "logging"} :
               /\ end = "done" => copies # {}
               /\ pub' = [pub EXCEPT ![c] = end] /\ queue' = queue \cup copies
      BY <2>3 DEF PublishUnsure
    <3>2. PICK m \in copies : TRUE
      BY <1>a, <3>1 DEF ClicksTypeOK
    <3> QED
      BY <3>1, <3>2 DEF InAQueue
  <2>4. CASE LogClickFailure(c)
    <3>1. failures'[c] = failures[c] + 1 /\ failures[c] \in Nat
      BY <1>a, <2>4 DEF LogClickFailure, ClicksTypeOK
    <3> QED
      BY <3>1 DEF Safe, Kept
  <2>5. CASE LogClickFails(c)
    BY <2>5 DEF LogClickFails, Safe, Kept
  <2> QED
    BY <2>1, <2>2, <2>3, <2>4, <2>5
<1> QED
  BY <1>1, <1>2, <1>3 DEF AllInv, KeepInv, PublishedKept

LEMMA AllInit == ClicksInit => AllInv
BY TypeInit, MessageInit, KeepInit DEF AllInv

LEMMA AllStep == AllInv /\ [ClicksNext]_clickVars => AllInv'
<1> SUFFICES ASSUME AllInv, [ClicksNext]_clickVars PROVE AllInv'
  OBVIOUS
<1>1. TypeInv' /\ MessageInv'
  BY TypeStep, MessageStep DEF AllInv
<1>2. KeepInv'
  BY SpillStep, OkStoredStep, OkPersistedStep, ReplayOkStep, ReplaySpilledStep, DeadTriesStep,
     PublishedStep
  DEF KeepInv
<1> QED
  BY <1>1, <1>2 DEF AllInv

\* A click that was published is in a queue or a table or given up, as long as no
\* more calls have failed than the dead letter queue retries.
THEOREM ClicksAreKept == ClicksSpec => []ClickIsKept
<1>1. AllInv => ClickIsKept
  <2> SUFFICES ASSUME AllInv, NEW c \in Clicks, pub[c] = "done", faults <= Budget(c)
               PROVE  Kept(c) \/ InAQueue(c) \/ spill[c] > 0
    BY DEF ClickIsKept
  <2>1. faults \in Nat /\ Budget(c) \in Nat
    BY Numbers DEF AllInv
  <2> QED
    BY <2>1 DEF AllInv, KeepInv, PublishedKept, Safe
<1> QED
  BY <1>1, AllInit, AllStep, PTL DEF ClicksSpec

\* What a replay deletes of a valid click is stored.
THEOREM ReplaysDeleteStored == ClicksSpec => ReplayDeletesStored
<1>1. AllInv /\ [ClicksNext]_clickVars =>
        [\A c \in Clicks \ Oversized :
            failures'[c] < failures[c] => c \in stored \/ c \in gone']_clickVars
  <2> SUFFICES ASSUME AllInv, [ClicksNext]_clickVars, NEW c \in Clicks \ Oversized,
                      failures'[c] < failures[c]
               PROVE  c \in stored \/ c \in gone'
    OBVIOUS
  <2>1. /\ failures[c] \in Nat /\ failures'[c] \in Nat /\ slice[c] \in Nat
        /\ failures[c] <= failures'[c] \/ Purge(c) \/ DeleteReplayed
    BY Numbers, GrowStep, TypeStep DEF AllInv, GrowFact, TypeInv, ClicksTypeOK
  <2>2. CASE Purge(c)
    BY <2>2 DEF Purge
  <2>3. CASE DeleteReplayed
    <3>1. at[Operator] = "ok" /\ failures'[c] = failures[c] - slice[c]
      BY <2>3 DEF DeleteReplayed
    <3>2. slice[c] > 0
      BY <2>1, <3>1
    <3> QED
      BY <3>1, <3>2 DEF AllInv, KeepInv, ReplayOk
  <2> QED
    BY <2>1, <2>2, <2>3
<1> QED
  BY <1>1, AllInit, AllStep, PTL DEF ClicksSpec, ReplayDeletesStored

-----------------------------------------------------------------------------
(* While nothing fails, only what the route rejects is ever a failure *)

Calm == index = "plain" /\ faults = 0 /\ ~deleted

NothingFailed ==
    /\ breaker.state = "CLOSED"
    /\ \A k \in Callers : at[k] # "error"
    /\ \A c \in Clicks \ Oversized : pub[c] # "logging" /\ failures[c] = 0
    /\ \A m \in dead : m[1] \in Oversized

CalmInv == Calm => NothingFailed

LEMMA CalmStep == AllInv /\ CalmInv /\ [ClicksNext]_clickVars => CalmInv'
<1> SUFFICES ASSUME AllInv, CalmInv, [ClicksNext]_clickVars, Calm' PROVE NothingFailed'
  BY DEF CalmInv
<1> USE DEF callVars, tableVars, worldVars, queueVars
<1>a. /\ TypeInv /\ ClicksTypeOK /\ PathFact /\ BatchFact /\ MessageInv
      /\ faults = 0 /\ ~Fault
  <2>1. faults \in Nat /\ faults' = 0 /\ faults <= faults'
    BY Numbers, GrowStep DEF AllInv, GrowFact, Calm
  <2>2. faults = 0 /\ ~Fault
    BY <2>1 DEF Fault
  <2> QED
    BY <2>2, PathStep DEF AllInv, TypeInv
<1>b. Calm
  <2>1. index' = index
    BY DEF ClicksNext, clickVars, PublishStep, RouteStep, WorkerStep, OperatorStep, Publish,
           PublishUnsure, LogClickFailure, LogClickFails, SpillLands, SpillFails, Validate,
           Upsert, UpsertRefused, UpsertFails, CallLost, DeliverBatch, DeliverDead, Deliver,
           PersistDead, AckByMessage, AckUnparsed, AckDead, RetryAll, Settle, FetchFailures,
           DeleteReplayed, DeleteFails, ReplayFailed, EndReplay, Purge, Cool, DeleteProducts
  <2>2. deleted => deleted'
    BY DEF ClicksNext, clickVars, PublishStep, RouteStep, WorkerStep, OperatorStep, Publish,
           PublishUnsure, LogClickFailure, LogClickFails, SpillLands, SpillFails, Validate,
           Upsert, UpsertRefused, UpsertFails, CallLost, DeliverBatch, DeliverDead, Deliver,
           PersistDead, AckByMessage, AckUnparsed, AckDead, RetryAll, Settle, FetchFailures,
           DeleteReplayed, DeleteFails, ReplayFailed, EndReplay, Purge, Cool, DeleteProducts
  <2> QED
    BY <1>a, <2>1, <2>2 DEF Calm
<1>c. NothingFailed
  BY <1>b DEF CalmInv
<1>d. /\ spill \in [Clicks -> Nat] /\ failures \in [Clicks -> Nat] /\ slice \in [Clicks -> Nat]
      /\ \A c \in Clicks \ Oversized : spill[c] = 0
  BY Numbers DEF AllInv, KeepInv, SpillIsOversized, TypeInv, ClicksTypeOK
<1>e. ASSUME NEW k \in Callers, at[k] = "upsert" PROVE Accepts(Rows(k))
  BY <1>b DEF Accepts, Calm
<1>1. \A k \in Callers : at'[k] # "error"
  BY <1>a, <1>c, <1>e DEF PathFact, NothingFailed, Validate, UpsertRefused, UpsertFails, CallLost,
                           Goto, ClicksTypeOK
<1>2. breaker'.state = "CLOSED"
  <2>1. ASSUME NEW k \in Callers, RouteStep(k) PROVE breaker'.state = "CLOSED"
    <3>1. ~UpsertRefused(k) /\ ~UpsertFails(k) /\ ~CallLost(k)
      BY <1>a, <1>e DEF UpsertRefused, UpsertFails, CallLost
    <3>2. breaker' = breaker \/ breaker' = OnSuccess(breaker)
      BY <2>1, <3>1 DEF RouteStep, Validate, Upsert
    <3> QED
      BY <1>c, <3>2 DEF NothingFailed, OnSuccess, TransitionTo
  <2>2. ASSUME NEW c \in Clicks, PublishStep(c) \/ SpillLands(c) \/ SpillFails(c)
        PROVE  breaker' = breaker
    BY <2>2 DEF PublishStep, Publish, PublishUnsure, LogClickFailure, LogClickFails, SpillLands,
                SpillFails
  <2>3. ASSUME NEW k \in Workers, WorkerStep(k) PROVE breaker' = breaker
    BY <2>3 DEF WorkerStep, DeliverBatch, DeliverDead, Deliver, PersistDead, AckByMessage,
                AckUnparsed, AckDead, RetryAll, Settle
  <2>4. OperatorStep \/ Cool \/ DeleteProducts \/ UNCHANGED clickVars => breaker' = breaker
    BY <1>c DEF OperatorStep, FetchFailures, DeleteReplayed, DeleteFails, ReplayFailed, Purge,
                EndReplay, Cool, DeleteProducts, clickVars, NothingFailed
  <2> QED
    BY <1>c, <2>1, <2>2, <2>3, <2>4 DEF ClicksNext, NothingFailed
<1>3. ASSUME NEW c \in Clicks \ Oversized PROVE pub'[c] # "logging" /\ failures'[c] = 0
  <2>1. pub[c] # "logging" /\ failures[c] = 0 /\ spill[c] = 0
    BY <1>c, <1>d DEF NothingFailed
  <2>2. ASSUME NEW x \in Clicks, PublishStep(x) PROVE pub'[c] # "logging" /\ failures'[c] = 0
    BY <1>a, <2>1, <2>2
    DEF PublishStep, Publish, PublishUnsure, LogClickFailure, LogClickFails, ClicksTypeOK
  <2>3. ASSUME NEW x \in Clicks, SpillLands(x) \/ SpillFails(x)
        PROVE  pub'[c] # "logging" /\ failures'[c] = 0
    BY <1>a, <1>d, <2>1, <2>3 DEF SpillLands, SpillFails
  <2>4. ASSUME NEW k \in Callers, RouteStep(k) PROVE pub'[c] # "logging" /\ failures'[c] = 0
    BY <2>1, <2>4 DEF RouteStep, Validate, Upsert, UpsertRefused, UpsertFails, CallLost
  <2>5. ASSUME NEW k \in Workers, PersistDead(k) PROVE pub'[c] # "logging" /\ failures'[c] = 0
    <3>1. batch[k] \subseteq dead /\ batch[k] \in SUBSET Messages /\ k # Operator
      BY <1>a, <2>5, ClicksAssumption
      DEF PersistDead, FromMain, MessageInv, BatchesHeld, ClicksTypeOK
    <3>2. ~ \E m \in batch[k] : m[1] = c
      BY <1>c, <3>1 DEF NothingFailed
    <3>3. Body(k)[c] = 0
      BY <3>1, <3>2, MessagesCounted DEF Body
    <3> QED
      BY <2>1, <2>5, <3>3 DEF PersistDead, Plus
  <2>6. ASSUME NEW k \in Workers, WorkerStep(k), ~PersistDead(k)
        PROVE  pub'[c] # "logging" /\ failures'[c] = 0
    BY <2>1, <2>6 DEF WorkerStep, DeliverBatch, DeliverDead, Deliver, AckByMessage, AckUnparsed,
                      AckDead, RetryAll, Settle
  <2>7. ASSUME FetchFailures \/ DeleteReplayed \/ DeleteFails \/ ReplayFailed
        PROVE  pub'[c] # "logging" /\ failures'[c] = 0
    <3>1. DeleteReplayed => slice[c] = 0
      <4>1. DeleteReplayed => slice[c] <= failures[c] /\ slice[c] \in Nat
        BY <1>d DEF DeleteReplayed, AllInv, TypeInv, SliceIsThere
      <4> QED
        BY <2>1, <4>1
    <3> QED
      BY <2>1, <2>7, <3>1 DEF FetchFailures, DeleteReplayed, DeleteFails, ReplayFailed, EndReplay
  <2>8. ASSUME NEW x \in Clicks, Purge(x) PROVE pub'[c] # "logging" /\ failures'[c] = 0
    BY <1>d, <2>1, <2>8 DEF Purge
  <2>9. CASE Cool \/ DeleteProducts \/ UNCHANGED clickVars
    BY <2>1, <2>9 DEF Cool, DeleteProducts, clickVars
  <2> QED
    BY <2>2, <2>3, <2>4, <2>5, <2>6, <2>7, <2>8, <2>9 DEF ClicksNext, OperatorStep
<1>4. ASSUME NEW m \in dead' PROVE m[1] \in Oversized
  <2>1. CASE m \in dead
    BY <1>c, <2>1 DEF NothingFailed
  <2>2. ASSUME NEW k \in Workers, Settles(k), m \notin dead PROVE m[1] \in Oversized
    <3>1. ~AckUnparsed(k) /\ ~RetryAll(k) /\ at[k] = "ok"
      BY <1>a, <1>c, <2>2 DEF Settles, AckUnparsed, AckByMessage, AckDead, RetryAll, NothingFailed,
                              Callers
    <3>2. CASE AckByMessage(k)
      BY <2>2, <3>2 DEF AckByMessage, Settle, Refused
    <3>3. CASE AckDead(k)
      BY <2>2, <3>3 DEF AckDead, Settle
    <3> QED
      BY <2>2, <3>1, <3>2, <3>3 DEF Settles
  <2> QED
    BY <2>1, <2>2, DeadStays
<1> QED
  BY <1>1, <1>2, <1>3, <1>4 DEF NothingFailed

\* While nothing fails, no valid click is dead or a failure.
THEOREM NeighboursAreSpared == ClicksSpec => []NeighbourIsSpared
<1>1. ClicksInit => CalmInv
  BY DEF ClicksInit, CalmInv, NothingFailed, NewBreaker, NoClicks, Callers
<1>2. AllInv /\ CalmInv => NeighbourIsSpared
  <2> SUFFICES ASSUME NothingFailed, NEW c \in Clicks \ Oversized PROVE ~FailedFor(c)
    BY DEF CalmInv, Calm, NeighbourIsSpared
  <2> QED
    BY DEF NothingFailed, FailedFor
<1>3. ClicksInit => AllInv /\ CalmInv
  BY <1>1, AllInit
<1>4. AllInv /\ CalmInv /\ [ClicksNext]_clickVars => (AllInv /\ CalmInv)'
  BY AllStep, CalmStep
<1> QED
  BY <1>2, <1>3, <1>4, PTL DEF ClicksSpec

-----------------------------------------------------------------------------
(* The pipeline implements ClickLedger *)

\* Before it is published there is nothing of a click.
Untouched ==
    \A c \in Clicks :
        pub[c] = "new" => c \notin stored /\ failures[c] = 0 /\ spill[c] = 0 /\ ~InAQueue(c)

PlaceInv == AllInv /\ Untouched

\* What a step that gives no click up may do to the place of one.
Turns(c) ==
    /\ pub'[c] = "new" => pub[c] = "new"
    /\ \/ PlaceOf(c)' = PlaceOf(c)
       \/ PlaceOf(c) = "new" /\ PlaceOf(c)' = "waiting" /\ pub'[c] # "new"
       \/ PlaceOf(c) = "waiting" /\ PlaceOf(c)' \in {"failed", "nowhere"}
       \/ c \notin Oversized /\ PlaceOf(c) \in {"waiting", "failed"} /\ PlaceOf(c)' = "stored"
       \/ c \in Oversized /\ PlaceOf(c) = "failed" /\ PlaceOf(c)' \in {"waiting", "nowhere"}

\* What a call carries has not left its queue, or its rows the table.
LEMMA BodyIsPlaced ==
    ASSUME TypeInv, MessageInv, NEW k \in Callers, at[k] # "idle",
           NEW c \in Clicks, Body(k)[c] > 0
    PROVE  failures[c] > 0 \/ (k \in Workers /\ InAQueue(c))
<1>1. CASE k = Operator
  <2>1. slice[c] > 0 /\ slice[c] <= failures[c]
    BY <1>1 DEF Body, TypeInv, SliceIsThere
  <2> QED
    BY <2>1, Numbers
<1>2. CASE k # Operator
  <2>1. k \in Workers /\ batch[k] \in SUBSET Messages /\ CountOf(batch[k])[c] > 0
    BY <1>2 DEF Callers, Body, TypeInv, ClicksTypeOK
  <2>2. PICK m \in batch[k] : m[1] = c
    BY <2>1, MessagesCounted
  <2> QED
    BY <2>1, <2>2 DEF MessageInv, BatchesHeld, InAQueue
<1> QED
  BY <1>1, <1>2

\* A click is where its own part of the state says.
LEMMA PlaceStays ==
    ASSUME NEW c \in Clicks, pub'[c] = pub[c], c \in stored' <=> c \in stored,
           failures'[c] = failures[c], spill'[c] = spill[c], InAQueue(c)' <=> InAQueue(c)
    PROVE  PlaceOf(c)' = PlaceOf(c) /\ Turns(c)
BY DEF PlaceOf, Turns

LEMMA ClickTurns ==
    ASSUME PlaceInv, [ClicksNext]_clickVars, NEW c \in Clicks,
           \A x \in Clicks : ~Purge(x) /\ ~LogClickFails(x)
    PROVE  Turns(c)
<1> USE DEF callVars, tableVars, worldVars, queueVars
<1>a. /\ TypeInv /\ ClicksTypeOK /\ MessageInv
      /\ failures[c] \in Nat /\ spill[c] \in Nat /\ slice[c] \in Nat
      /\ failures'[c] \in Nat /\ spill'[c] \in Nat
  BY TypeStep, Numbers DEF PlaceInv, AllInv, TypeInv, ClicksTypeOK
<1>b. pub[c] = "new" => PlaceOf(c) = "new"
  BY DEF PlaceInv, Untouched, PlaceOf
<1>c. ASSUME UNCHANGED <<pub, queue, dead, stored, failures, spill>> PROVE Turns(c)
  BY <1>c, PlaceStays DEF InAQueue
<1>1. ASSUME NEW x \in Clicks, Publish(x) \/ PublishUnsure(x) PROVE Turns(c)
  <2>1. PICK copies \in SUBSET ({x} \X (1..MaxCopies)), end \in {"done", "logging"} :
             /\ end = "done" => copies # {}
             /\ pub[x] = "new" /\ pub' = [pub EXCEPT ![x] = end] /\ queue' = queue \cup copies
    <3>1. CASE Publish(x)
      <4>1. {<<x, 1>>} \in SUBSET ({x} \X (1..MaxCopies))
        BY ClicksAssumption
      <4> QED
        BY <3>1, <4>1 DEF Publish
    <3>2. CASE PublishUnsure(x)
      BY <3>2 DEF PublishUnsure
    <3> QED
      BY <1>1, <3>1, <3>2
  <2>2. UNCHANGED <<dead, stored, failures, spill>>
    BY <1>1 DEF Publish, PublishUnsure
  <2>3. CASE x = c
    <3>1. PlaceOf(c) = "new" /\ pub'[c] = end
      BY <1>a, <1>b, <2>1, <2>3 DEF ClicksTypeOK
    <3>2. end = "done" => InAQueue(c)'
      BY <2>1, <2>3 DEF InAQueue
    <3>3. c \notin stored' /\ failures'[c] = 0
      BY <2>1, <2>2, <2>3 DEF PlaceInv, Untouched
    <3>4. PlaceOf(c)' = "waiting"
      BY <2>1, <3>1, <3>2, <3>3 DEF PlaceOf
    <3> QED
      BY <2>1, <3>1, <3>4 DEF Turns
  <2>4. CASE x # c
    <3>1. pub'[c] = pub[c]
      BY <1>a, <2>1, <2>4 DEF ClicksTypeOK
    <3>2. InAQueue(c)' <=> InAQueue(c)
      BY <2>1, <2>2, <2>4 DEF InAQueue
    <3> QED
      BY <2>2, <3>1, <3>2, PlaceStays
  <2> QED
    BY <2>3, <2>4
<1>2. ASSUME NEW x \in Clicks, LogClickFailure(x) PROVE Turns(c)
  <2>1. UNCHANGED <<stored, spill>> /\ (InAQueue(c)' <=> InAQueue(c))
    BY <1>2 DEF LogClickFailure, InAQueue
  <2>2. CASE x = c
    <3>1. pub[c] = "logging" /\ pub'[c] = "done" /\ failures'[c] = failures[c] + 1
      BY <1>a, <1>2, <2>2 DEF LogClickFailure, ClicksTypeOK
    <3> QED
      BY <1>a, <2>1, <3>1 DEF Turns, PlaceOf
  <2>3. CASE x # c
    <3>1. pub'[c] = pub[c] /\ failures'[c] = failures[c]
      BY <1>a, <1>2, <2>3 DEF LogClickFailure, ClicksTypeOK
    <3> QED
      BY <2>1, <3>1, PlaceStays
  <2> QED
    BY <2>2, <2>3
<1>3. ASSUME NEW x \in Clicks, SpillLands(x) \/ SpillFails(x) PROVE Turns(c)
  <2>1. UNCHANGED <<pub, stored>> /\ (InAQueue(c)' <=> InAQueue(c))
    BY <1>3 DEF SpillLands, SpillFails, InAQueue
  <2>2. CASE x = c
    <3>1. spill[c] > 0 /\ spill'[c] = spill[c] - 1
      BY <1>a, <1>3, <2>2 DEF SpillLands, SpillFails, ClicksTypeOK
    <3>2. failures'[c] \in {failures[c], failures[c] + 1}
      BY <1>a, <1>3, <2>2 DEF SpillLands, SpillFails, ClicksTypeOK
    <3>3. pub[c] # "new"
      BY <3>1 DEF PlaceInv, Untouched
    <3> QED
      BY <1>a, <2>1, <3>1, <3>2, <3>3 DEF Turns, PlaceOf
  <2>3. CASE x # c
    <3>1. spill'[c] = spill[c] /\ failures'[c] = failures[c]
      BY <1>a, <1>3, <2>3 DEF SpillLands, SpillFails, ClicksTypeOK
    <3> QED
      BY <2>1, <3>1, PlaceStays
  <2> QED
    BY <2>2, <2>3
<1>4. ASSUME NEW k \in Workers, DeliverBatch(k) \/ DeliverDead(k) PROVE Turns(c)
  BY <1>4, <1>c DEF DeliverBatch, DeliverDead, Deliver
<1>5. ASSUME NEW k \in Workers, AckByMessage(k) \/ AckUnparsed(k) \/ AckDead(k) \/ RetryAll(k)
      PROVE  Turns(c)
  <2>1. PICK acked \in SUBSET batch[k] : Settle(k, acked)
    BY <1>5 DEF AckByMessage, AckUnparsed, AckDead, RetryAll
  <2>2. queue' \cup dead' \subseteq queue \cup dead
    BY <1>a, <2>1, SettleFacts
  <2>3. InAQueue(c)' => InAQueue(c)
    BY <2>2 DEF InAQueue
  <2>4. UNCHANGED <<pub, stored, failures, spill>>
    BY <2>1 DEF Settle
  <2>5. pub[c] = "new" => ~InAQueue(c)
    BY DEF PlaceInv, Untouched
  <2> QED
    BY <1>a, <2>3, <2>4, <2>5 DEF Turns, PlaceOf
<1>6. ASSUME NEW k \in Callers, Validate(k) PROVE Turns(c)
  <2>1. UNCHANGED <<pub, stored, failures>> /\ (InAQueue(c)' <=> InAQueue(c))
    BY <1>6 DEF Validate, InAQueue
  <2>2. at[k] # "idle" /\ spill'[c] = spill[c] + IF c \in Oversized THEN Body(k)[c] ELSE 0
    BY <1>6 DEF Validate
  <2>3. Body(k)[c] \in Nat
    BY <1>a, BodyTyped
  <2>4. CASE Body(k)[c] = 0 \/ c \notin Oversized
    BY <1>a, <2>1, <2>2, <2>4, PlaceStays
  <2>5. CASE Body(k)[c] > 0
    <3>1. failures[c] > 0 \/ InAQueue(c)
      BY <1>a, <2>2, <2>5, BodyIsPlaced
    <3> QED
      BY <2>1, <3>1 DEF Turns, PlaceOf
  <2> QED
    BY <2>3, <2>4, <2>5
<1>7. ASSUME NEW k \in Callers, Upsert(k) \/ UpsertRefused(k) \/ UpsertFails(k) \/ CallLost(k)
      PROVE  Turns(c)
  <2>1. UNCHANGED <<pub, failures, spill>> /\ (InAQueue(c)' <=> InAQueue(c))
    BY <1>7 DEF Upsert, UpsertRefused, UpsertFails, CallLost, InAQueue
  <2>2. stored' = stored \/ (stored' = stored \cup Rows(k) /\ at[k] = "upsert")
    BY <1>7 DEF Upsert, UpsertRefused, UpsertFails, CallLost
  <2>3. CASE c \in stored' <=> c \in stored
    BY <2>1, <2>3, PlaceStays
  <2>4. CASE ~(c \in stored' <=> c \in stored)
    <3>1. c \in Rows(k) /\ at[k] # "idle" /\ c \notin stored /\ c \in stored'
      BY <2>2, <2>4
    <3>2. c \notin Oversized /\ Body(k)[c] > 0
      BY <3>1 DEF Rows, ClicksOf
    <3>3. failures[c] > 0 \/ InAQueue(c)
      BY <1>a, <3>1, <3>2, BodyIsPlaced
    <3> QED
      BY <2>1, <3>1, <3>2, <3>3 DEF Turns, PlaceOf
  <2> QED
    BY <2>3, <2>4
<1>8. ASSUME NEW k \in Workers, PersistDead(k) PROVE Turns(c)
  <2>1. UNCHANGED <<pub, stored, spill>> /\ (InAQueue(c)' <=> InAQueue(c))
    BY <1>8 DEF PersistDead, InAQueue
  <2>2. /\ at[k] # "idle" /\ failures'[c] = failures[c] + Body(k)[c]
        /\ k \in Callers /\ Body(k)[c] \in Nat
    BY <1>a, <1>8, BodyTyped DEF PersistDead, Plus, Callers
  <2>3. CASE Body(k)[c] = 0
    BY <1>a, <2>1, <2>2, <2>3, PlaceStays
  <2>4. CASE Body(k)[c] > 0
    <3>1. failures[c] > 0 \/ InAQueue(c)
      BY <1>a, <2>2, <2>4, BodyIsPlaced
    <3> QED
      BY <1>a, <2>1, <2>2, <2>4, <3>1 DEF Turns, PlaceOf
  <2> QED
    BY <2>2, <2>3, <2>4
<1>9. CASE FetchFailures \/ DeleteFails \/ ReplayFailed
  BY <1>9, <1>c DEF FetchFailures, DeleteFails, ReplayFailed, EndReplay
<1>10. CASE DeleteReplayed
  <2>1. /\ UNCHANGED <<pub, stored, spill>> /\ (InAQueue(c)' <=> InAQueue(c))
        /\ at[Operator] = "ok" /\ failures'[c] = failures[c] - slice[c]
    BY <1>10 DEF DeleteReplayed, EndReplay, InAQueue
  <2>2. CASE slice[c] = 0
    BY <1>a, <2>1, <2>2, PlaceStays
  <2>3. CASE slice[c] > 0
    <3>1. c \in stored \cup Oversized
      BY <2>1, <2>3 DEF PlaceInv, AllInv, KeepInv, ReplayOk
    <3>2. failures[c] > 0
      BY <1>a, <2>1, <2>3
    <3>3. pub[c] # "new"
      BY <3>2 DEF PlaceInv, Untouched
    <3> QED
      BY <1>a, <2>1, <3>1, <3>2, <3>3 DEF Turns, PlaceOf
  <2> QED
    BY <1>a, <2>2, <2>3
<1>11. CASE Cool \/ DeleteProducts \/ UNCHANGED clickVars
  BY <1>11, <1>c DEF Cool, DeleteProducts, clickVars
<1> QED
  BY <1>1, <1>2, <1>3, <1>4, <1>5, <1>6, <1>7, <1>8, <1>9, <1>10, <1>11
  DEF ClicksNext, PublishStep, RouteStep, WorkerStep, OperatorStep

\* Who is given up is given up alone, and by those two.
LEMMA ClickWrittenOff ==
    ASSUME PlaceInv, [ClicksNext]_clickVars, NEW x \in Clicks, Purge(x) \/ LogClickFails(x)
    PROVE  /\ gone' = gone \cup {x} /\ UNCHANGED faults
           /\ \A c \in Clicks \ {x} : PlaceOf(c)' = PlaceOf(c)
           /\ pub[x] # "new"
           /\ \/ PlaceOf(x)' = PlaceOf(x)
              \/ PlaceOf(x) \in {"waiting", "failed"} /\ PlaceOf(x)' = "nowhere"
              \/ PlaceOf(x) = "failed" /\ PlaceOf(x)' = "waiting"
           /\ \A c \in Clicks : pub'[c] = "new" => pub[c] = "new" /\ PlaceOf(c)' = PlaceOf(c)
<1> USE DEF callVars, tableVars, worldVars, queueVars
<1>a. ClicksTypeOK
  BY DEF PlaceInv, AllInv, TypeInv
<1>1. /\ gone' = gone \cup {x} /\ UNCHANGED <<faults, queue, dead, stored, spill>>
      /\ \A c \in Clicks : InAQueue(c)' <=> InAQueue(c)
  BY DEF Purge, LogClickFails, InAQueue
<1>2. ASSUME NEW c \in Clicks, c # x
      PROVE  pub'[c] = pub[c] /\ PlaceOf(c)' = PlaceOf(c)
  <2>1. pub'[c] = pub[c] /\ failures'[c] = failures[c]
    BY <1>a, <1>2 DEF Purge, LogClickFails, ClicksTypeOK
  <2> QED
    BY <1>1, <2>1, PlaceStays
<1>3. CASE LogClickFails(x)
  <2>1. pub[x] = "logging" /\ pub'[x] = "done" /\ failures' = failures
    BY <1>a, <1>3 DEF LogClickFails, ClicksTypeOK
  <2>2. \/ PlaceOf(x)' = PlaceOf(x)
        \/ PlaceOf(x) \in {"waiting", "failed"} /\ PlaceOf(x)' = "nowhere"
    BY <1>1, <2>1 DEF PlaceOf
  <2> QED
    BY <1>1, <1>2, <2>1, <2>2
<1>4. CASE Purge(x)
  <2>1. pub' = pub /\ failures[x] > 0 /\ failures'[x] = 0
    BY <1>a, <1>4 DEF Purge, ClicksTypeOK
  <2>2. pub[x] # "new"
    BY <2>1 DEF PlaceInv, Untouched
  <2>3. \/ PlaceOf(x)' = PlaceOf(x)
        \/ PlaceOf(x) = "failed" /\ PlaceOf(x)' \in {"waiting", "nowhere"}
    BY <1>1, <2>1, <2>2 DEF PlaceOf
  <2> QED
    BY <1>1, <1>2, <2>1, <2>2, <2>3
<1> QED
  BY <1>3, <1>4

\* Every step is one call at most, and gives up nobody but those.
LEMMA OneCall ==
    ASSUME [ClicksNext]_clickVars
    PROVE  /\ faults' \in {faults, faults + 1}
           /\ gone' = gone \/ \E x \in Clicks : Purge(x) \/ LogClickFails(x)
<1> USE DEF Fault, clickVars
<1>1. ASSUME NEW c \in Clicks, PublishStep(c) \/ SpillLands(c) \/ SpillFails(c)
      PROVE  /\ faults' \in {faults, faults + 1}
             /\ gone' = gone \/ LogClickFails(c)
  BY <1>1 DEF PublishStep, Publish, PublishUnsure, LogClickFailure, LogClickFails,
              SpillLands, SpillFails
<1>2. ASSUME NEW k \in Callers, RouteStep(k)
      PROVE  faults' \in {faults, faults + 1} /\ gone' = gone
  BY <1>2 DEF RouteStep, Validate, Upsert, UpsertRefused, UpsertFails, CallLost
<1>3. ASSUME NEW k \in Workers, WorkerStep(k)
      PROVE  faults' \in {faults, faults + 1} /\ gone' = gone
  BY <1>3 DEF WorkerStep, DeliverBatch, DeliverDead, Deliver, PersistDead, AckByMessage,
              AckUnparsed, AckDead, RetryAll, Settle
<1>4. CASE OperatorStep
  BY <1>4 DEF OperatorStep, FetchFailures, DeleteReplayed, DeleteFails, ReplayFailed, Purge,
              EndReplay
<1>5. CASE Cool \/ DeleteProducts \/ UNCHANGED clickVars
  BY <1>5 DEF Cool, DeleteProducts
<1> QED
  BY <1>1, <1>2, <1>3, <1>4, <1>5 DEF ClicksNext

LEMMA UntouchedStep == PlaceInv /\ [ClicksNext]_clickVars => PlaceInv'
<1> SUFFICES ASSUME PlaceInv, [ClicksNext]_clickVars PROVE PlaceInv'
  OBVIOUS
<1>1. AllInv'
  BY AllStep DEF PlaceInv
<1>2. ASSUME NEW c \in Clicks, pub'[c] = "new"
      PROVE  c \notin stored' /\ failures'[c] = 0 /\ spill'[c] = 0 /\ ~InAQueue(c)'
  <2>1. pub[c] = "new" /\ PlaceOf(c)' = PlaceOf(c)
    <3>1. CASE \E x \in Clicks : Purge(x) \/ LogClickFails(x)
      BY <1>2, <3>1, ClickWrittenOff
    <3>2. CASE \A x \in Clicks : ~Purge(x) /\ ~LogClickFails(x)
      <4>1. Turns(c)
        BY <3>2, ClickTurns
      <4>2. pub[c] = "new" /\ PlaceOf(c) = "new"
        BY <1>2, <4>1 DEF Turns, PlaceInv, Untouched, PlaceOf
      <4> QED
        BY <1>2, <4>1, <4>2 DEF Turns
    <3> QED
      BY <3>1, <3>2
  <2>2. PlaceOf(c)' = "new"
    BY <2>1 DEF PlaceInv, Untouched, PlaceOf
  <2>3. failures'[c] \in Nat /\ spill'[c] \in Nat
    BY <1>1 DEF AllInv, TypeInv, ClicksTypeOK
  <2> QED
    BY <2>2, <2>3 DEF PlaceOf
<1> QED
  BY <1>1, <1>2 DEF PlaceInv, Untouched

\* A click that is nowhere was given up, or more calls have failed than are made up for.
\* It is needed of the state after a step.
LEMMA NowhereIsExcused ==
    ASSUME AllInv', NEW c \in Clicks, PlaceOf(c)' = "nowhere"
    PROVE  Ledger!Excused(c)'
<1>1. /\ pub'[c] = "done" /\ c \notin stored' /\ ~(failures'[c] > 0) /\ ~(spill'[c] > 0)
      /\ ~InAQueue(c)'
  BY DEF PlaceOf, AllInv, TypeInv, ClicksTypeOK, PubStates
<1>2. c \in gone' \/ faults' > Budget(c)
  BY <1>1 DEF AllInv, KeepInv, PublishedKept, Safe, Kept, Budget
<1> QED
  BY <1>2 DEF Ledger!Excused, Budget

LEMMA RefinesLedger ==
    PlaceInv /\ [ClicksNext]_clickVars => [Ledger!LedgerNext]_(Ledger!ledgerVars)
<1> SUFFICES ASSUME PlaceInv, [ClicksNext]_clickVars PROVE Ledger!LedgerNext
  OBVIOUS
<1>a. PlaceInv' /\ AllInv'
  BY UntouchedStep DEF PlaceInv
<1>1. [c \in Clicks |-> PlaceOf(c)]' \in [Clicks -> Ledger!Places]
  BY DEF PlaceOf, Ledger!Places
<1>2. faults' \in {faults, faults + 1}
  BY OneCall
<1>3. ASSUME NEW x \in Clicks, Purge(x) \/ LogClickFails(x)
      PROVE  /\ Ledger!WriteOff(x)
             /\ \A c \in Clicks \ {x} : PlaceOf(c)' = PlaceOf(c)
  BY <1>3, ClickWrittenOff DEF Ledger!WriteOff, Ledger!Goes, Ledger!Waits
<1>4. ASSUME \A x \in Clicks : ~Purge(x) /\ ~LogClickFails(x), NEW c \in Clicks
      PROVE  Ledger!Moves(c)
  <2>1. Turns(c)
    BY <1>4, ClickTurns
  <2>2. PlaceOf(c)' = "nowhere" => Ledger!Excused(c)'
    BY <1>a, NowhereIsExcused
  <2> QED
    BY <2>1, <2>2
    DEF Turns, Ledger!Moves, Ledger!Send, Ledger!Store, Ledger!Fail, Ledger!Lose,
        Ledger!Return, Ledger!Goes, Ledger!Waits
<1>5. CASE \A x \in Clicks : ~Purge(x) /\ ~LogClickFails(x)
  BY <1>1, <1>2, <1>4, <1>5, OneCall DEF Ledger!LedgerNext
<1>6. CASE \E x \in Clicks : Purge(x) \/ LogClickFails(x)
  BY <1>1, <1>2, <1>3, <1>6 DEF Ledger!LedgerNext
<1> QED
  BY <1>5, <1>6

\* Through its queues, calls, replays and failures, the pipeline moves clicks only as the
\* ledger does: nothing that is stored is lost or unstored, nothing comes from nowhere, and
\* nothing goes there without an excuse.
THEOREM PipelineImplementsLedger == ClicksSpec => ImplementsClickLedger
<1>1. ClicksInit => PlaceInv /\ Ledger!LedgerInit
  <2> SUFFICES ASSUME ClicksInit PROVE PlaceInv /\ Ledger!LedgerInit
    OBVIOUS
  <2>1. Untouched
    BY DEF ClicksInit, Untouched, NoClicks, InAQueue
  <2>2. \A c \in Clicks : PlaceOf(c) = "new"
    BY DEF ClicksInit, PlaceOf, NoClicks, InAQueue
  <2> QED
    BY <2>1, <2>2, AllInit DEF PlaceInv, Ledger!LedgerInit, ClicksInit
<1> QED
  BY <1>1, UntouchedStep, RefinesLedger, PTL
  DEF ClicksSpec, ImplementsClickLedger, Ledger!LedgerSpec
=============================================================================
