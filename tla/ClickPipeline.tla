---------------------------- MODULE ClickPipeline ----------------------------
(***************************************************************************)
(* A click from publishClick (lib/click-queue.ts) through the queue        *)
(* click-tracking, its consumer (queue in workers/custom-worker.ts), the   *)
(* route POST /api/queue/clicks and the dead letter queue to the tables    *)
(* affiliate_clicks and click_failures, in production.  A message <<c, n>> *)
(* is the n-th copy of the click c: send may throw after the broker took   *)
(* the message.  The queues deliver at least once, in any order; a message *)
(* retried more than MaxRetries times moves to the dead letter queue, and  *)
(* from there, for want of a queue behind it, nowhere.  A call that fails, *)
(* or whose answer is lost, is a fault.                                    *)
(***************************************************************************)
EXTENDS Naturals, FiniteSets, CircuitBreaker

CONSTANTS
    Clicks,       \* clicks, each with the click_id publishClick draws
    Oversized,    \* those whose affiliate_url is longer than the route accepts
    Linked,       \* those that carry a product_id
    Workers,      \* consumer invocations at one time (max_concurrency)
    Operator,     \* whoever runs scripts/drain-dlq.ts
    MaxCopies,    \* copies of a message the retries of send may leave behind
    MaxRetries,   \* max_retries of both queues
    MaxRows,      \* rows of one click in click_failures at a replay (bound)
    MaxFaults     \* failing calls and lost answers (bound)

ASSUME ClicksAssumption ==
    /\ IsFiniteSet(Clicks) /\ Oversized \subseteq Clicks /\ Linked \subseteq Clicks
    /\ Operator \notin Workers
    /\ MaxCopies \in Nat \ {0}
    /\ {MaxRetries, MaxRows, MaxFaults} \subseteq Nat

Messages == Clicks \X (1..MaxCopies)
Callers == Workers \cup {Operator}
NoClicks == [c \in Clicks |-> 0]

VARIABLES
    pub,        \* where publishClick is with a click
    queue,      \* messages of click-tracking, those handed out included
    dead,       \* messages of click-tracking-dlq, likewise
    tries,      \* failed deliveries of a message from the queue it is in
    batch,      \* the messages a worker has been handed
    at,         \* where a caller of the route is
    slice,      \* rows of click_failures the operator has fetched, by click
    stored,     \* affiliate_clicks, by click_id
    failures,   \* click_failures: rows of each click (the table has no unique key)
    spill,      \* rows of rejected clicks whose unawaited insert is under way
    breaker,    \* supabaseClicksBreaker
    deleted,    \* the products of the linked clicks have been deleted
    index,      \* the unique index on click_id: "plain" (00056), "partial" (00090)
    gone,       \* ghost: clicks given up with an alert, or purged by the operator
    faults

queueVars == <<queue, dead, tries>>
callVars == <<batch, at, slice>>
tableVars == <<stored, failures, spill>>
worldVars == <<deleted, index>>
clickVars == <<pub, queueVars, callVars, tableVars, breaker, worldVars, gone, faults>>

PubStates == {"new", "logging", "done"}
CallStates == {"idle", "sent", "upsert", "ok", "error"}

ClicksTypeOK ==
    /\ pub \in [Clicks -> PubStates]
    /\ queue \subseteq Messages /\ dead \subseteq Messages
    /\ tries \in [Messages -> 0..MaxRetries]
    /\ batch \in [Workers -> SUBSET Messages]
    /\ at \in [Callers -> CallStates]
    /\ slice \in [Clicks -> Nat]
    /\ stored \subseteq Clicks
    /\ failures \in [Clicks -> Nat] /\ spill \in [Clicks -> Nat]
    /\ breaker \in Breakers
    /\ deleted \in BOOLEAN /\ index \in {"plain", "partial"}
    /\ gone \subseteq Clicks /\ faults \in 0..MaxFaults

ClicksInit ==
    /\ pub = [c \in Clicks |-> "new"]
    /\ queue = {} /\ dead = {} /\ tries = [m \in Messages |-> 0]
    /\ batch = [k \in Workers |-> {}] /\ at = [k \in Callers |-> "idle"]
    /\ slice = NoClicks
    /\ stored = {} /\ failures = NoClicks /\ spill = NoClicks
    /\ breaker = NewBreaker
    /\ deleted = FALSE /\ index \in {"plain", "partial"}
    /\ gone = {} /\ faults = 0

Fault == faults < MaxFaults /\ faults' = faults + 1

Plus(f, g) == [c \in Clicks |-> f[c] + g[c]]

\* The clicks of a set of messages, with how many copies of each are in it.
CountOf(msgs) == [c \in Clicks |-> Cardinality({m \in msgs : m[1] = c})]

-----------------------------------------------------------------------------
(* publishClick *)

\* sendWithRetry returned; only the copy of the last attempt is in the queue.
Publish(c) ==
    /\ pub[c] = "new"
    /\ pub' = [pub EXCEPT ![c] = "done"]
    /\ queue' = queue \cup {<<c, 1>>}
    /\ UNCHANGED <<dead, tries, callVars, tableVars, breaker, worldVars, gone, faults>>

\* Attempts threw, after the broker took some of them: copies of one click_id.
\* Either a later attempt returned, or all have failed and the click is logged.
PublishUnsure(c) ==
    /\ pub[c] = "new" /\ Fault
    /\ \E copies \in SUBSET ({c} \X (1..MaxCopies)), end \in {"done", "logging"} :
        /\ end = "done" => copies # {}
        /\ pub' = [pub EXCEPT ![c] = end]
        /\ queue' = queue \cup copies
    /\ UNCHANGED <<dead, tries, callVars, tableVars, breaker, worldVars, gone>>

\* logClickFailure, then alertClickTotalLoss.
LogClickFailure(c) ==
    /\ pub[c] = "logging"
    /\ pub' = [pub EXCEPT ![c] = "done"]
    /\ failures' = [failures EXCEPT ![c] = @ + 1]
    /\ UNCHANGED <<queueVars, callVars, stored, spill, breaker, worldVars, gone, faults>>

\* Nobody looks at its error; the alert says the click was persisted.  The outage
\* that failed the send may fail this too: it is not counted again.
LogClickFails(c) ==
    /\ pub[c] = "logging"
    /\ pub' = [pub EXCEPT ![c] = "done"]
    /\ gone' = gone \cup {c}
    /\ UNCHANGED <<queueVars, callVars, tableVars, breaker, worldVars, faults>>

-----------------------------------------------------------------------------
(* The queues: the broker and the consumer in workers/custom-worker.ts *)

InFlight == UNION {batch[k] : k \in Workers}

\* A batch of one of the queues is handed to a worker, which posts it.
Deliver(k, source) ==
    /\ at[k] = "idle"
    /\ \E msgs \in (SUBSET (source \ InFlight)) \ {{}} : batch' = [batch EXCEPT ![k] = msgs]
    /\ at' = [at EXCEPT ![k] = "sent"]
    /\ UNCHANGED <<pub, queueVars, slice, tableVars, breaker, worldVars, gone, faults>>

DeliverBatch(k) == Deliver(k, queue)
DeliverDead(k) == Deliver(k, dead)

\* Mutant: one retry too many before a message counts as dead.
SettleLate(k, acked) ==
    LET back == batch[k] \ acked
        spent == {m \in back : tries[m] > MaxRetries}
    IN /\ queue' = queue \ (acked \cup spent)
       /\ dead' = (dead \ (acked \cup spent)) \cup (spent \cap queue)
       /\ tries' = [m \in Messages |-> CASE m \in acked \cup spent -> 0
                                        [] m \in back \ spent     -> tries[m] + 1
                                        [] OTHER                   -> tries[m]]
       /\ batch' = [batch EXCEPT ![k] = {}]
       /\ at' = [at EXCEPT ![k] = "idle"]
       /\ UNCHANGED <<pub, slice, tableVars, breaker, worldVars, gone>>

\* ack and retry: the last retry of a queue moves a message to the queue behind it.
Settle(k, acked) ==
    LET back == batch[k] \ acked
        spent == {m \in back : tries[m] = MaxRetries}
    IN /\ queue' = queue \ (acked \cup spent)
       /\ dead' = (dead \ (acked \cup spent)) \cup (spent \cap queue)
       /\ tries' = [m \in Messages |-> CASE m \in acked \cup spent -> 0
                                        [] m \in back \ spent     -> tries[m] + 1
                                        [] OTHER                   -> tries[m]]
       /\ batch' = [batch EXCEPT ![k] = {}]
       /\ at' = [at EXCEPT ![k] = "idle"]
       /\ UNCHANGED <<pub, slice, tableVars, breaker, worldVars, gone>>

Refused(msgs) == {m \in msgs : m[1] \in Oversized}

\* Mutant: one failed message makes the worker retry the whole batch.
AckAllOrNothing(k) ==
    /\ at[k] = "ok" /\ batch[k] \subseteq queue
    /\ Settle(k, IF Refused(batch[k]) = {} THEN batch[k] ELSE {})
    /\ UNCHANGED faults

\* The envelope lists the upserted messages as acked and the rejected as failed.
AckByMessage(k) ==
    /\ at[k] = "ok" /\ batch[k] \subseteq queue
    /\ Settle(k, batch[k] \ Refused(batch[k]))
    /\ UNCHANGED faults

\* A 2xx whose body does not parse: ackAll.
AckUnparsed(k) ==
    /\ at[k] = "ok" /\ batch[k] \subseteq queue /\ Fault
    /\ Settle(k, batch[k])

AckDead(k) ==
    /\ at[k] = "ok" /\ batch[k] \subseteq dead
    /\ Settle(k, batch[k])
    /\ UNCHANGED faults

\* Mutant: a failed post of dead letters is only logged.
RetryAllButDead(k) ==
    /\ at[k] = "error"
    /\ Settle(k, batch[k] \cap dead)
    /\ UNCHANGED faults

\* Any other status, or an exception: retryAll.
RetryAll(k) ==
    /\ at[k] = "error"
    /\ Settle(k, {})
    /\ UNCHANGED faults

-----------------------------------------------------------------------------
(* POST /api/queue/clicks *)

Body(k) == IF k = Operator THEN slice ELSE CountOf(batch[k])
ClicksOf(body) == {c \in Clicks : body[c] > 0}
FromMain(k) == IF k = Operator THEN TRUE ELSE batch[k] \subseteq queue

Goto(k, label) == at' = [at EXCEPT ![k] = label]

\* Validation: the rejected rows are inserted without waiting, and the breaker
\* decides whether the rest is.
Validate(k) ==
    LET body == Body(k)
    IN /\ at[k] = "sent" /\ FromMain(k)
       /\ spill' = [c \in Clicks |-> spill[c] + IF c \in Oversized THEN body[c] ELSE 0]
       /\ \/ ClicksOf(body) \subseteq Oversized /\ Goto(k, "ok")
          \/ ~(ClicksOf(body) \subseteq Oversized) /\ breaker.state = "OPEN" /\ Goto(k, "error")
          \/ ~(ClicksOf(body) \subseteq Oversized) /\ breaker.state # "OPEN" /\ Goto(k, "upsert")
       /\ UNCHANGED <<pub, queueVars, batch, slice, stored, failures, breaker, worldVars,
                      gone, faults>>

\* The unawaited insert of a rejected row.
SpillLands(c) ==
    /\ spill[c] > 0
    /\ spill' = [spill EXCEPT ![c] = @ - 1]
    /\ failures' = [failures EXCEPT ![c] = @ + 1]
    /\ UNCHANGED <<pub, queueVars, callVars, stored, breaker, worldVars, gone, faults>>

SpillFails(c) ==
    /\ spill[c] > 0 /\ Fault
    /\ spill' = [spill EXCEPT ![c] = @ - 1]
    /\ UNCHANGED <<pub, queueVars, callVars, stored, failures, breaker, worldVars, gone>>

\* Mutant: what the validation rejected is upserted all the same.
RowsUnfiltered(k) == ClicksOf(Body(k))

Rows(k) == ClicksOf(Body(k)) \ Oversized

\* Postgres takes the statement as a whole.  Only a plain index can be inferred
\* from ON CONFLICT (click_id); a row that is not a duplicate needs its product.
Accepts(rows) ==
    /\ index = "plain"
    /\ deleted => rows \cap Linked \subseteq stored

Upsert(k) ==
    /\ at[k] = "upsert" /\ Accepts(Rows(k))
    /\ stored' = stored \cup Rows(k)
    /\ breaker' = OnSuccess(breaker)
    /\ Goto(k, "ok")
    /\ UNCHANGED <<pub, queueVars, batch, slice, failures, spill, worldVars, gone, faults>>

\* Mutant: supabase-js reports errors in its result, and it is not looked at.
RefusalSwallowed(k) ==
    /\ at[k] = "upsert" /\ ~Accepts(Rows(k))
    /\ breaker' = OnSuccess(breaker)
    /\ Goto(k, "ok")
    /\ UNCHANGED <<pub, queueVars, batch, slice, tableVars, worldVars, gone, faults>>

UpsertRefused(k) ==
    /\ at[k] = "upsert" /\ ~Accepts(Rows(k))
    /\ breaker' = OnFailure(breaker)
    /\ Goto(k, "error")
    /\ UNCHANGED <<pub, queueVars, batch, slice, tableVars, worldVars, gone, faults>>

\* The call fails, before or after the statement was executed.
UpsertFails(k) ==
    /\ at[k] = "upsert" /\ Fault
    /\ \/ Accepts(Rows(k)) /\ stored' = stored \cup Rows(k)
       \/ UNCHANGED stored
    /\ breaker' = OnFailure(breaker)
    /\ Goto(k, "error")
    /\ UNCHANGED <<pub, queueVars, batch, slice, failures, spill, worldVars, gone>>

\* ?dlq=true
PersistDead(k) ==
    /\ at[k] = "sent" /\ ~FromMain(k)
    /\ failures' = Plus(failures, Body(k))
    /\ Goto(k, "ok")
    /\ UNCHANGED <<pub, queueVars, batch, slice, stored, spill, breaker, worldVars, gone, faults>>

\* The request or the answer is lost, or the caller dies: its handler, if it got
\* that far, has done what it has done.
CallLost(k) ==
    /\ at[k] \in {"sent", "upsert", "ok"} /\ Fault
    /\ Goto(k, "error")
    /\ UNCHANGED <<pub, queueVars, batch, slice, tableVars, breaker, worldVars, gone>>

-----------------------------------------------------------------------------
(* scripts/drain-dlq.ts *)

\* Up to --limit rows, and only those --since.
FetchFailures ==
    /\ at[Operator] = "idle"
    /\ \E fetched \in (SUBSET {c \in Clicks : failures[c] \in 1..(MaxRows - spill[c])}) \ {{}} :
        slice' = [c \in Clicks |-> IF c \in fetched THEN failures[c] ELSE 0]
    /\ Goto(Operator, "sent")
    /\ UNCHANGED <<pub, queueVars, batch, tableVars, breaker, worldVars, gone, faults>>

EndReplay ==
    /\ slice' = NoClicks
    /\ Goto(Operator, "idle")
    /\ UNCHANGED <<pub, queueVars, batch, stored, spill, breaker, worldVars, gone>>

\* A 2xx: the slice is deleted by id.
DeleteReplayed ==
    /\ at[Operator] = "ok"
    /\ failures' = [c \in Clicks |-> failures[c] - slice[c]]
    /\ EndReplay /\ UNCHANGED faults

DeleteFails ==
    /\ at[Operator] = "ok" /\ Fault
    /\ EndReplay /\ UNCHANGED failures

\* Mutant: the slice is deleted whatever the route answered.
DeleteAnyway ==
    /\ at[Operator] = "error"
    /\ failures' = [c \in Clicks |-> failures[c] - slice[c]]
    /\ EndReplay /\ UNCHANGED faults

\* Anything else: the rows stay for the next run.
ReplayFailed ==
    /\ at[Operator] = "error"
    /\ EndReplay /\ UNCHANGED <<failures, faults>>

\* purge --older-than-days
Purge(c) ==
    /\ at[Operator] = "idle"
    /\ failures[c] > 0
    /\ failures' = [failures EXCEPT ![c] = 0]
    /\ gone' = gone \cup {c}
    /\ UNCHANGED <<pub, queueVars, callVars, stored, spill, breaker, worldVars, faults>>

-----------------------------------------------------------------------------
(* The world *)

\* recoveryTimeoutMs pass.
Cool ==
    /\ breaker.state = "OPEN"
    /\ breaker' = Elapse(breaker)
    /\ UNCHANGED <<pub, queueVars, callVars, tableVars, worldVars, gone, faults>>

\* An administrator deletes the products; the product cache still names them.
DeleteProducts ==
    /\ ~deleted /\ deleted' = TRUE
    /\ UNCHANGED <<pub, queueVars, callVars, tableVars, breaker, index, gone, faults>>

-----------------------------------------------------------------------------

PublishStep(c) == Publish(c) \/ PublishUnsure(c) \/ LogClickFailure(c) \/ LogClickFails(c)

RouteStep(k) == Validate(k) \/ Upsert(k) \/ UpsertRefused(k) \/ UpsertFails(k) \/ CallLost(k)

WorkerStep(k) ==
    \/ DeliverBatch(k) \/ DeliverDead(k) \/ PersistDead(k)
    \/ AckByMessage(k) \/ AckUnparsed(k) \/ AckDead(k) \/ RetryAll(k)

OperatorStep ==
    \/ FetchFailures \/ DeleteReplayed \/ DeleteFails \/ ReplayFailed
    \/ \E c \in Clicks : Purge(c)

ClicksNext ==
    \/ \E c \in Clicks : PublishStep(c) \/ SpillLands(c) \/ SpillFails(c)
    \/ \E k \in Callers : RouteStep(k)
    \/ \E k \in Workers : WorkerStep(k)
    \/ OperatorStep
    \/ Cool \/ DeleteProducts

ClicksSpec == ClicksInit /\ [][ClicksNext]_clickVars

\* Publishing ends, a waiting message is delivered, a call returns and is settled.
\* Nothing is assumed of the operator, nor that the breaker recovers.
FairClicksSpec ==
    /\ ClicksSpec
    /\ \A c \in Clicks :
        /\ WF_clickVars(Publish(c) \/ LogClickFailure(c) \/ LogClickFails(c))
        /\ WF_clickVars(SpillLands(c))
    /\ \A k \in Workers : WF_clickVars(Validate(k) \/ Upsert(k) \/ UpsertRefused(k))
                          /\ WF_clickVars(PersistDead(k) \/ AckByMessage(k) \/ AckDead(k)
                                          \/ RetryAll(k))
    /\ WF_clickVars(\E k \in Workers : DeliverBatch(k))
    /\ WF_clickVars(\E k \in Workers : DeliverDead(k))

-----------------------------------------------------------------------------
(* Properties *)

InAQueue(c) == \E m \in queue \cup dead : m[1] = c

\* How many calls may fail before a click is lost: the dead letter queue has no
\* queue behind it, and a rejected click may hang on an insert nobody waits for.
Budget(c) == IF c \in Oversized THEN 0 ELSE MaxRetries

Kept(c) == c \in stored \/ failures[c] > 0 \/ c \in gone

\* A published click is in a queue or a table until somebody gives it up
\* (wrangler.jsonc:138-141, custom-worker.ts:225-228 "cannot vanish silently"),
\* whatever is delivered twice, rejected next to it or replayed, and with as many
\* failing calls as there are retries.
ClickIsKept ==
    \A c \in Clicks :
        pub[c] = "done" /\ faults <= Budget(c) => Kept(c) \/ InAQueue(c) \/ spill[c] > 0

\* "Only delete rows that the route accepted" (drain-dlq.ts:276): a valid click
\* that leaves click_failures is stored, unless the operator purges it.
ReplayDeletesStored ==
    [][\A c \in Clicks \ Oversized :
        failures'[c] < failures[c] => c \in stored \/ c \in gone']_clickVars

FailedFor(c) == failures[c] > 0 \/ \E m \in dead : m[1] = c

\* While nothing fails, a click of the batch that the route rejects does not drag a
\* valid one to the dead letters: "a partial-success outcome no longer requeues
\* already-persisted messages" (custom-worker.ts:315-316).
NeighbourIsSpared ==
    index = "plain" /\ faults = 0 /\ ~deleted
        => \A c \in Clicks \ Oversized : ~FailedFor(c)

\* The same under the indexes the migrations create, the last of which is partial:
\* "so the queue consumer can deduplicate retried messages with ON CONFLICT
\* (click_id) DO NOTHING" (00056_click_id_idempotency.sql:4-5).
HealthyClickIsStored ==
    faults = 0 /\ ~deleted => \A c \in Clicks \ Oversized : ~FailedFor(c)

\* Every click is in the end in one of the two tables or given up, though an
\* upsert may never succeed, as long as no more calls fail than that.
ClickIsSettled ==
    \A c \in Clicks : pub[c] = "new" ~> Kept(c) \/ faults > Budget(c)

\* Where a click is: it is stored before it is anything else, and waits while it travels.
PlaceOf(c) ==
    IF c \in stored THEN "stored"
    ELSE IF failures[c] > 0 THEN "failed"
    ELSE IF pub[c] = "logging" \/ spill[c] > 0 \/ InAQueue(c) THEN "waiting"
    ELSE IF pub[c] = "new" THEN "new" ELSE "nowhere"

Ledger == INSTANCE ClickLedger
    WITH place <- [c \in Clicks |-> PlaceOf(c)], writtenOff <- gone, down <- faults

\* The pipeline implements the ledger of clicks: a stored click stays stored whatever copies
\* of it are still about (route.ts:431), a valid one leaves the failures only to be stored,
\* none turns up that was not published, and none is nowhere without an excuse.
ImplementsClickLedger == Ledger!LedgerSpec
=============================================================================
