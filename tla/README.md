# Specifications of affilite-mix

TLA+ specifications of the multi-tenant affiliate platform in this repository,
checked with TLC and, where it matters most, proved with TLAPS. The code is a
Next.js application on Cloudflare Workers over Postgres (Supabase), with KV,
Queues, Durable Objects and cron triggers: many short-lived processes, no
memory that outlives them, and several stores that are not transactional with
one another. What is worth specifying is therefore what happens *between* the
awaits.

Four parts are modelled. Membership billing: the Stripe webhook and the cron
that reconciles it, driven by an outside system that reorders and repeats its
messages, over four stores (Stripe, Postgres, KV, the dead letter table). The
click pipeline: every click is revenue, and travels through two queues that
deliver at least once, a consumer that acknowledges message by message, and a
table of failures an operator replays. The automation control plane: machines
that change the catalogue by themselves, within a policy, with human approvals
and rollbacks beside them. Content publishing: drafts written by a machine become
pages, while the review queue, an editor and a cron write the same table.

## 1. Inventory

| Component | State | Operations | What is hard | What makes it correct | Status |
|---|---|---|---|---|---|
| Membership webhook (`app/api/membership/webhook/route.ts`, `lib/stripe-event-processor.ts`, `lib/dal/stripe-events.ts`, `lib/dal/webhook-dlq.ts`, `app/api/admin/webhook-dlq/route.ts`, function `apply_stripe_membership_event`) | `memberships`, `stripe_events`, `webhook_dlq`, KV retry counters, Stripe's subscriptions | process one delivery, count failures, park, resolve | duplicate, concurrent and reordered deliveries; crash between commit and answer; the non-atomic counter; cancelling an orphan after the commit | one effect per event, never acknowledged before it is durable, one active row per owner, orphans and only orphans cancelled | modelled, proved |
| Stripe reconciliation (`app/api/cron/stripe-sync/route.ts`, `lib/stripe-reconciliation-policy.ts`) | what a run has read; the tables above | replay, recreate, correct, deactivate | reads made stale by the webhook; aborted runs; made-up event ids | never undoes a hold, never deactivates what Stripe has not ended, heals what was missed | modelled, proved |
| Click pipeline (`lib/click-queue.ts`, `workers/custom-worker.ts`, `app/api/queue/clicks`, `scripts/drain-dlq.ts`) | queue, dead letter queue, `affiliate_clicks`, `click_failures` | publish, consume, ack or retry, dead-letter, replay, purge | at-least-once delivery, partial batches, lost answers, an insert nobody waits for | each click ends in a table, once per id; nothing leaves the failures unstored | modelled, proved |
| Automation control plane (`lib/automation/*`, `lib/dal/automation-actions.ts`, its admin routes) | `automation_actions` rows, `products` | guarded mutation, approve, reject, roll back | idempotency key race, crash after execution, racing decisions, other writers | a key executes once, only legal transitions, nothing gated executes, a rollback restores what was replaced | partly: not the runs and reports; proved |
| Circuit breakers, singleflight (`lib/ai/circuit-breaker.ts`, `lib/supabase-circuit-breaker.ts`, `lib/singleflight.ts`) | state, failures, fleet flag in KV; map of flights | execute; do | concurrent callers across awaits, late results | calls are admitted again after recovery | partly: one breaker's state, inside the click pipeline |
| Membership checkout (`app/api/membership/checkout/route.ts`) | KV lock with TTL | create a session | get-then-put lock, delete after expiry | nothing relies on it: the database decides | not modelled |
| Cron infrastructure (`lib/cron-lock.ts`, `lib/cron-liveness.ts`, `workers/heavy-crons.ts`) | KV locks with TTL, last-run stamps | acquire, release, record, check | get-then-put, release by another run | best-effort: one user, the ai-generate cron | not modelled |
| Content publishing (`lib/automation/publish-draft.ts`, `app/api/admin/ai-content`, `app/api/admin/content`, `app/api/cron/publish`, `lib/dal/content.ts`, `lib/dal/ai-drafts.ts`) | `content`, `ai_drafts`, what each request has read | publish a draft, approve, edit, clone, delete, publish what is due | lookup then insert, three writes in a row, four kinds of writers, a page selected and then withdrawn | nobody else's page replaced, marked means written, the approved text is published, what is due is published | partly: not links, authors and shares; proved |
| Auth and sessions (`lib/auth.ts`, `lib/jwt-revocation*.ts`, `lib/totp.ts`) | tokens, revocations, lockout counters | log in, revoke, step up | eventually consistent revocation | no session outlives its revocation | later |
| Rate limiting and quotas (`lib/rate-limit.ts`, `workers/rate-limiter-do.ts`, `lib/quotas.ts`) | counters | check, increment | KV fallback loses increments | limit per window | not planned: atomic in the Durable Object, approximate by intent elsewhere |
| Catalogue (`lib/dal/products.ts`, `app/api/admin/products`) | `products` with a version | update, delete | writers beside the executors; deletion under a queued click | no lost update where a version is given | partly: as the other side of the two models |
| Presentations, commissions, media, newsletter, AI generation, middleware, authorisation, retention | rows and objects | single calls | external I/O | – | not modelled |

How they interact: the webhook and the cron call the same `processStripeEvent`
and share the two tables and Stripe; the checkout route creates what Stripe
later reports; `publishClick`, the worker and the queue route form a pipeline over
two queues, closed by the operator's script, and share a circuit breaker; requests of
the automation API, human decisions, the admin form and the publish cron write the
same products, whose deletion a queued click meets at its foreign key; the automation API, the
ai-generate cron, the review queue, the editor and the publish cron write the same pages.
`PROJECT.json` lists every component with its files, and under `hazards` the
lines where this code is hard to test.

## 2. Modules

    MembershipStore        the tables and the Postgres function      (operators)
      StripePayload        event -> op                               (operators)
        StripeEvents       Stripe; processStripeEvent per process    (actions)
          MembershipWebhook   requests, KV, dead letters             (Spec, FairSpec)
            StripeSync        the cron beside the requests           (SyncSpec, FairSyncSpec)
        MembershipLedger   what the webhook promises                 (abstract Spec)
          ReconciledLedger and what the cron may do beside it        (abstract ReconciledSpec)
    CircuitBreaker         the state of one breaker                  (operators)
      ClickPipeline        clicks, queues, consumer, route, replay   (ClicksSpec, FairClicksSpec)
        ClickLedger        what the pipeline promises of a click     (abstract LedgerSpec)
    AutomationActions      guarded mutations, decisions, rollback    (AutomationSpec)
      ActionLedger         what the automation API promises          (abstract ActionSpec)
    ContentPublishing      drafts, pages, reviewers, editor, cron    (PublishingSpec, FairPublishingSpec)
      PageLedger           what publishing promises of a page        (abstract PageSpec)
    MCMembershipWebhook, MCStripeSync, MCClickPipeline,
    MCAutomationActions, MCContentPublishing                         instances for TLC
    MembershipWebhookProofs, MembershipRefinementProofs, StripeSyncProofs,
    ReconciledLedgerProofs, ClickPipelineProofs, AutomationProofs,
    ActionLedgerProofs, ContentPublishingProofs                      theorems

**MembershipStore** models the function `apply_stripe_membership_event` as its
*last* `CREATE OR REPLACE` in the migrations defines it
(`2026062501_orphan_subscription_handling.sql`). A transaction is four
questions about an op and a table: does it raise (`Raises`: an UPDATE that
violates the unique index on active `(email, site_id)`), is the purchase an
orphan (`Orphans`: the INSERT violates *either* unique index), does it match no
row (`Misses`), and what does it commit (`After`).

**StripePayload** is `buildStripeEventPayload`: which op each event type asks
for, which types call Stripe first (and so can fail), and which event cannot be
processed at all (a price id in neither variable, `resolveTierFromPriceId`).

**StripeEvents** has the state. `stripe` and `events` are Stripe's, external:
a subscription is bought once, is billed, fails, pauses, is changed, ends, is
refunded or disputed, and each leaves an event. `row` and `ledger` are the tables
`memberships` and `stripe_events`. `pc`, `job` and `reply` say where each process
is in `processStripeEvent`, which is cut at each await: build the payload
(`BuildPayload`, `RetrieveFails`), the RPC (`ApplyFresh`, `ApplyDuplicate`,
`ApplyRaises`, `ApplyCallFails`), the cancellation of an orphan (`CancelOrphan`,
`CancelOrphanFails`).

**MembershipWebhook** adds the route: `Deliver` and `Resend` start a request for
an event Stripe recorded, `Respond` is the 2xx, `Refuse` the 500; a failure goes
through the counter (`ReadAttempts`, `WriteAttempts`, `KvUnavailable`) and, at the
third attempt, to the dead letter table (`ParkEvent`, `ParkFails`). `Crash` loses a
request, or its answer, at any point. An operator resolves entries
(`ResolveDlqEntry`, which replays nothing).

**StripeSync** adds the cron as one more process of `processStripeEvent`, with the
three phases of the route in `phase` and what each loop has left in `left`. What
the run has read (`seen`, `cur`) is kept apart from what is true when it acts.
`Age` moves the 48 hour window. Any error the route does not catch ends the run
(`AbortRun`, `RunDies`), as its `catch` does.

**MembershipLedger** is the abstract promise: an event is recorded with its effect
in one step, at most once; it may be parked; Stripe hears "received" only of
recorded or parked events. `ImplementsLedger` maps the webhook to it by forgetting
processes, counters and answers.

**ReconciledLedger** extends it by what the cron may do, and by no more: apply a checkout
of its own making (`Remake`, once for a subscription), set a row active within the owner's
index (`Correct`), and cancel the row of a subscription that Stripe has ended
(`Deactivate`). `ImplementsReconciled` maps `StripeSync` to it: `remade` are the made-up
ids in `stripe_events`, and what the cron read and when is forgotten, so a correction that
rests on a stale read must still be one the ledger allows *when it is written*.

**CircuitBreaker** is what the methods of `lib/ai/circuit-breaker.ts` do to the local
state; a result is applied to the state the breaker has *when the call returns*.

**ClickPipeline** follows a click. `Publish` and `PublishUnsure` are the up to three
attempts of `sendWithRetry`; an attempt that threw may have left a copy, so a message is a
click and the number of its copy. `queue`, `dead` and `tries` are the broker's: `Deliver`
hands any part of a queue to a free consumer, and `Settle` is its bookkeeping for what the
consumer acknowledges and retries, with the dead letter queue behind the one and nothing
behind the other. The consumer (`AckByMessage`, `AckUnparsed`, `AckDead`, `RetryAll`) and
the operator's script are two callers of one route, whose handler is cut at its awaits:
`Validate` (which starts the insert of the rejected rows without waiting for it, `spill`),
then the upsert (`Upsert`, `UpsertRefused`, `UpsertFails`), or `PersistDead`. A 2xx to the
operator deletes the slice (`DeleteReplayed`). `CallLost` loses a request or an answer at
any point of the call. `index` tells the two unique indexes apart that the migrations
create on `click_id`, and `DeleteProducts` lets the foreign key bite.

**ClickLedger** has one place for each click: it waits, and then it is stored or among the
failures; it is nowhere only if somebody gave it up or more calls failed than the retries
make up for. `ImplementsClickLedger` maps the queues, copies, calls and tables to it
(`PlaceOf`): a click that is stored *is* stored, whatever copies of it still travel; else
its rows in `click_failures` count, else its messages, an insert under way or a log that is
being written.

**AutomationActions** has a process for every request under way, of a machine or of an
administrator. A machine looks its key up (`Receive`), reads policy and count
(`Decide`), inserts its row (`Insert`: the unique constraint decides between two of one
key) and, if allowed, runs the executor: read, conditional write, final status, each with
the failure the handler's `catch` meets. An administrator approves, rejects or rolls back;
an approval runs the same executor. `rows` holds status, decision and the snapshots, which
record value and version of the product. `EditProduct` and `ArchiveExpired` are the other
writers.

**ActionLedger** has one verdict for each key, at most one execution of it, what the
execution replaced, and undo. `ImplementsActionLedger` maps the rows to it: a row's
decision, approval and status come to a verdict (`Verdict`), and what an action replaced is
known from its row, or from the handler that is about to write it (`KnownBefore`); when
that write fails the ledger forgets it (`Forget`), and the action cannot be undone.

**ContentPublishing** has the tables `content` (`page`) and `ai_drafts` (`draft`) of one
site. A publication (`publishDraft`) reads its draft (`ReadDraft`), tries slugs
(`ChooseSlug`, one lookup a step), looks the slug up again after linking products
(`Recheck`), and then writes: `Insert`, or `Overwrite` of the page it found, by id and
without a condition. A request of the review queue approves (`Approve`, which returns the
text), looks once (`LookUpSlug`) and inserts. Both end with `MarkPublished`. `GiveUp` is a
failed call, a lost answer or a crash at any of these places: what has been written stays.
The editor creates, saves, clones and deletes pages; `SavePage` writes the whole form by id,
because `validateUpdateContent` drops the `updated_at` that the lock would need. The cron
selects (`SelectDue`, with the review gate), and then publishes what is still scheduled
(`PublishDue`). Every write of the table goes through `Put`, which also keeps, for each
publication, the pages whose slug has not changed since it began (`old`).

**PageLedger** has the status, gate and text of each page, the latest version of each draft,
which drafts have been on a page and which count as published, and how much humans have asked
for. A text comes on a page as a version of a draft (`Publish`) or because a human asks for it
(`Save`); a page becomes public in these two ways or because it was scheduled and waits for no
review (`Release`); no save ends the wait for a review, no deleted page comes back, and only a
draft that has been on a page is marked. `ImplementsPageLedger` maps the tables to it by
forgetting slugs, dates, requests and runs, and the requests spent (`edits`) to `asked`: without
that count, a run of the cron that published a withdrawn page would pass for an editor's save.

### Abstractions

- A membership row is its status. Tier, customer, billing period, timestamps and
  the audit trail are left out (`update_status` ignores the tier it is sent anyway).
- Signature verification (400), missing configuration (503) and authorisation (401)
  are not modelled: a delivery of the model is one that passed them.
- An event type with several outcomes is split (`refunded` and
  `partially_refunded`; `sub_updated` and `sub_updated_unknown_price`); every early
  return without a subscription is `unhandled`.
- The branch on `missed_update` of the processor is not modelled because the
  function in force never returns it (finding 2).
- Every subscription has a checkout session, so the empty `sessions.list` of phase
  2 does not occur. One cron run at a time: the route takes no lock, so two runs may
  overlap in production, and that is listed as a hazard, not modelled.
- The retry counter saturates at 3, where the code stops looking at it. Its TTL
  (4 days) is longer than Stripe's three days of retries and is not modelled; nor
  is the deletion of `stripe_events` after 90 days.
- KV may return any older value, and every call may fail; both are faults and are
  bounded by `MaxFaults`.
- Clicks: production only (a development server writes directly). The insert of the
  log after a failed send may fail without being counted as a fault: what broke the send
  may break it too. Rows of one rejected insert land or fail one by one. When a request is
  lost its handler is not followed further: what it could still do, the next delivery does
  again. One isolate's breaker and no fleet signal: another isolate's trip is the same as
  `breaker` being open, which any failed upserts bring about. A consumer without token or
  host retries like one whose call failed. Of the tables' retention (365 days), the
  deduplicating key of the endpoint and the batch of an unknown queue nothing is modelled.
  `Purge` takes all rows of a click; the rows of one click are bounded where a replay
  starts (`MaxRows`).
- Automation: one service account, one day, one product and one of its fields; the site's
  override may be any mode at any time. The limit per run and the cap on items per action
  are left out (a mutation has one item). Answers are left out: a replay or a conflict
  changes nothing. `updateAutomationAction` reads the row, checks the transition and
  writes; the two are one step, because a row that is running is written by its owner
  alone and the other updates are conditional on the status. Product deletion, the target
  check (which only reads) and `content.publish` are not modelled here. The executor's steps
  are written for an approval as well, but no approval reaches them (finding 6).

- Publishing: all drafts ask for one slug, because only a contended slug has anything to
  decide; slug 0 is any other. Titles, bodies and metadata are one versioned text, and a
  save of the form counts as the human's text whatever it changed. The overrides of the
  automation API (another title, slug or body for one publication) are left out. The
  date is kept of scheduled pages only; review and archived are the same as draft. A draft is
  open, published or deleted: pending, approved and rejected are one, because `publishDraft`
  and the review queue look at none of them. Reading
  the body for `body_previous` before an update, linking products and the audit trail
  change nothing the properties speak of. The model starts with at most one page, scheduled
  under the drafts' slug, and with open drafts; generating them is external.

## 3. Runs

| Run | Instance | Question |
|---|---|---|
| `webhook_order` | 2 subscriptions of 1 owner, 2 requests, 4 events, no faults | do order and concurrency alone break the webhook? |
| `webhook_faults` | 1 subscription, 2 requests, all 11 event types, 2 events, 2 faults, fair | do crashes and failures lose or repeat an event? |
| `sync_heals` | 1 subscription, 1 request and the cron, reverse pass on, 2 events, 1 fault, the cron fair and the webhook not | what may the cron write, and does it repair what the webhook never did? |
| `clicks` | 2 clicks, one of them oversized and one with a product, 2 consumers and the operator, 1 retry per queue, 1 fault, both indexes, fair | can a click be lost, and does every click come to rest? |
| `automation` | 3 keys, 2 machine and 2 human requests, a daily limit of 1, 1 edit, 1 fault | does a key execute once, within the policy, and can it be undone? |
| `publishing` | 2 drafts of one slug, 1 publication, 1 request of the review queue, 1 run of the cron, 3 pages, 2 suffixes, 1 edit, 1 fault, the cron fair | can a publication destroy a page, lie about a draft, or publish what nobody approved? |
| `webhook_hold`, `webhook_missed`, `sync_orphan`, `sync_hold`, `clicks_index`, `automation_approve` | the smallest that show it | the six findings |

Properties, by what they say of the code:

- `AckedIsDurable`: a 2xx is given only for a recorded or parked event.
- `EffectIsRecorded` and `EveryWriteAccounted`: the table changes only by one
  unrecorded event's payload together with its id (and, with the cron, by its two
  corrections): no double effect and no effect without a record.
- `OneActiveMembership`: no owner has two active rows, though an UPDATE can be asked to.
- `OrphanHasNoRow`: what is about to be cancelled at Stripe as an orphan has no
  membership. True of the webhook alone (run and proof), false with the cron (finding 3).
- `OrphanIsCancelled`: while nothing fails, a refused purchase is cancelled.
  With a fault between the commit and the cancellation it is not, and no retry
  comes back to it: the code says so and asks for manual follow-up, so the property
  is stated for `faults = 0`.
- `ImplementsLedger`: refinement of the abstract specification.
- `ImplementsReconciled`: the same with the cron. Stronger than `EveryWriteAccounted`: each
  correction is within the index, a made-up checkout is applied once for a subscription,
  and only what Stripe has ended is deactivated, at the moment of the write.
- `OrphanRowIsRemade`: a member's own subscription is cancelled as an orphan in one way
  only: its checkout has been applied under the id of Stripe's event and under the made-up
  one. It says that finding 3 is the whole of the matter.
- `EventuallySettled`: every event is in the end recorded or parked. The counter is
  a separate get and put, so two requests may write the same count; it rises all the
  same because a request writes one more than it read, and stale reads are finite.
- `ReverseOnlyWhenEnded`: phase 3 cancels only what Stripe has ended, though it asks,
  waits and writes without rechecking. It holds because an ended subscription stays
  ended.
- `LeakIsHealed`, `MemberIsServed`: with the reverse pass on, and with no webhook at
  all, the cron in the end takes an ended subscription's membership away and gives a
  billed one its row. The second is claimed for an owner's only subscription: one that
  is refused because of another may stay billed without a row, if its cancellation fails.
- `ClickIsKept`: a click whose publishing has ended is in a queue, a table, or the insert
  of a rejected row, until it is given up; with as many failing calls as there are
  retries. Redelivery, copies, crashes between commit and answer, neighbours that are
  rejected and replays beside deliveries do not lose it. For a click the route rejects no
  failing call is allowed, because its one insert is not awaited.
- `ReplayDeletesStored`: a valid click leaves `click_failures` only stored or purged.
- `NeighbourIsSpared`: while nothing fails, under the plain index, a rejected click of the
  batch does not make a dead letter of a valid one.
- `ImplementsClickLedger`: refinement. What is stored stays stored, a click that is
  nowhere does not come back, none turns up that was not published, one that the
  route rejects is never stored, and a valid one leaves the failures only to be stored or
  when it is purged.
- `ClickIsSettled`: every click ends in a table or given up, even if the upsert is refused
  for ever.
- `KeyExecutesOnce`, `GateHolds`: the executor changes the product at most once for a key,
  and never for an action that was denied or waits for an approval.
- `HistoryIsLegal`: racing decisions and a `catch` after a lost answer move a row only
  along `TRANSITIONS`.
- `SnapshotsAdjacent`, `RollbackRestores`: no other write lies between the two snapshots of
  an action, and a rollback replaces the action's own value by the one it found.
- `ImplementsActionLedger`: refinement. It puts the execution, its snapshots, the rollback
  and the edits together: between them they account for every version of the product.
- `BudgetOvershoot`: concurrent requests pass the daily limit by less than their number,
  and no sequence of them does worse.
- `FailedChangedNothing`, `RunningIsOwned`: while nothing fails, a failed action changed
  nothing and a running one has somebody at work on it. With one fault both are false,
  as the hazards at `guarded-mutation.ts:164` and `:175` say, so they are stated for
  `faults = 0`.

- `MarkedWasWritten`: a draft counts as published only if it was put on a page, though the
  page may be deleted or renamed, or its slug taken, between the lookup and the write.
- `OldPagesStand`: what a publication overwrites came to the slug after it began. This is
  what makes the overwriting at `publish-draft.ts:132` harmless to older pages; of two
  drafts that race, the second may overwrite the first's page, and that is not excluded.
- `ApprovedTextOnly`: a request of the review queue publishes the text that it approved,
  whatever happens to the draft meanwhile and whatever other requests approve.
- `CronWaits`, `DueIsPublished`: the cron publishes nothing that was withdrawn after it was
  selected or that waits for a review, and yet every page that is due is published or
  rescheduled, though another page is stuck at the gate for ever.
- `ImplementsPageLedger`: refinement. Whatever a request or a run has read before, at its
  write the page gets a text somebody wrote, no save ends the wait for a review, and what was
  deleted in between stays deleted.

### Bounds and why they are enough

Two subscriptions of one owner are needed for every violation of the owner's index
and suffice for it: the index relates pairs. Two requests suffice for duplicates and
for the counter's race, which need one overwrite. Four events hold a purchase of each
subscription with a dispute and a renewal, or a deletion between two renewals. Two
faults hold a crash after a commit and the failure of its recovery. Three failed
attempts of one event, the limit, need no faults: the unknown price and the raising
renewal fail by themselves. `sync_heals` has one subscription and one fault, because it
checks liveness on the same graph; that two subscriptions of an owner with the cron keep one
active row, and that refused ones are cancelled, is proved (section 4) and run without it.
Two clicks make a batch with one that is rejected and one that is not; two consumers and
the operator put three calls behind one breaker, of threshold 2; with one retry per queue
a click goes through both queues, and one failing call is the budget of a click that is
accepted. Copies of a message arise from redelivery; `PublishUnsure` with more than one
copy is left to the proofs, which hold for any number. Three keys against a limit of one
and two requests make the overshoot happen and bound it; two administrators race two
decisions or two rollbacks. Three pages are one that was there, one an editor or a rival
inserts and one more; two suffixes let a publication move on and give up; publications by
more than two requests are left to the proofs. Symmetry is used where only safety is checked and the
members are interchangeable.

`CHECK_DEADLOCK FALSE` everywhere: a system whose events are all acknowledged, or whose
queues are empty, has nothing to do, and the bounds on what may still happen are the model's.

### Fairness

`FairSpec` makes each request's next step weakly fair (an isolate runs its request
unless it crashes, and crashes are faults) and each event's delivery strongly fair:
Stripe delivers an event again until it is acknowledged, while the request slots,
which are a bound of the model, may be taken by others. Stripe in fact stops after three
days; the counter reaches the limit at the third failure, long before.
`FairSyncSpec` makes the cron weakly fair (the trigger fires every time) and lets time
pass, and assumes nothing of the webhook. `FairClicksSpec` makes publishing, each
consumer's call and its settlement, the pending inserts, and the delivery from each queue
weakly fair: the broker hands a waiting message out, and the bindings answer. It assumes
nothing of the operator, nor that the breaker recovers or the product comes back.
`FairPublishingSpec` makes the two steps of a run of the publish cron weakly fair: the
trigger fires every five minutes. It assumes nothing of publications, reviewers or the editor. None
assumes that faults happen or stop: they are bounded by `MaxFaults`.

### What was found

1. **A hold does not survive a renewal** (`webhook_hold`). Comments in the processor
   say the function refuses to flip a cancelled or disputed membership back to
   active. Migration 2026062202 did that; 2026062501 replaced the function and lost it.
2. **An update that matches no row is lost** (`webhook_missed`). The processor parks
   it when the function reports `missed_update`; the function in force does not
   report it, so the id is recorded, Stripe is told "received", and nothing is kept.
3. **A member's own subscription can be cancelled as an orphan** (`sync_orphan`).
   The made-up checkout of phase 2 has another id than the real one, and the exception
   branch does not distinguish the index on the subscription from the one on the owner.
   The same happens when the SELECT of phase 2 fails, because its error is not read.
4. **The cron can overwrite a hold** (`sync_hold`). Phase 2 checks the policy on a
   status it read earlier and updates without a condition on it.
5. **The upsert of clicks cannot infer its index** (`clicks_index`). Migration 00090 made
   the unique index on `click_id` partial; `ON CONFLICT (click_id)` without a predicate
   does not match it, so Postgres refuses every batch and every click becomes a dead
   letter, from where a replay brings it to the same refusal.
6. **An approval never executes** (`automation_approve`). The route moves an action from
   approved to running, which the transition table does not have; the update throws, the
   answer is 409, and the action stays approved with nobody to take it further. The test
   of the route mocks the data layer, where the check is.

## 4. Proofs

For every set of subscriptions, owners, processes and requests, every `OwnerOf`, and
every bound on events and faults, under the named assumptions `OwnerOfAssumption`
(every subscription has an owner), `StripeAssumption` (the bounds are naturals, the
emitted types are event types) and `HandlersAssumption` (requests are processes):

| Theorem | Statement |
|---|---|
| `TypeCorrect` | `Spec => []TypeOK` |
| `EffectsAreRecorded` | `Spec => EffectIsRecorded` |
| `AckedDurable` | `Spec => []AckedIsDurable` |
| `OneActiveAlways` | `Spec => []OneActiveMembership` |
| `OrphansHaveNoRow` | `Spec => []OrphanHasNoRow` |
| `WebhookImplementsLedger` | `Spec => ImplementsLedger` |

The argument. `TypeOK` is not inductive: the step that processes `job[p]` looks up
`events`, so `TypeInv` adds `JobsRecorded`: a busy process is a request and its job is
an event Stripe recorded. `EffectIsRecorded` then follows from `RowChange`: the only
steps that touch `row` are those that commit. `AckedIsDurable` needs what a request
knows before it answers, `AnswerIsDurable`: at "done" its event is in the ledger or
parked. `OneActiveMembership` is inductive with the types: `AfterOneActive` shows that
a transaction that does not raise keeps one active row.

`OrphanHasNoRow` needs the most. `OrphanInv` says that Stripe completes one checkout
for a subscription (`CheckoutOnce`), that a row exists only if that checkout is in the
ledger (`RowHasCheckout`), and that the event of an orphan to be cancelled is in
the ledger, is a checkout, and its subscription has no row (`OrphanRefused`). A commit cannot
then create the row while the cancellation is pending: it would be the commit of
another checkout of the same subscription, or of the same one again. With the cron a
made-up checkout exists beside the real one, `CheckoutOnce` fails, and so does the
property: finding 3 is exactly the missing hypothesis.

The refinement uses `KnownIds` (recorded, parked and acknowledged ids are events of
Stripe's), `DurableInv` and `TypeInv`: the commits are `Record`, `ParkEvent` is `Park`,
`Respond` is `Ack`, an event Stripe emits is `Happen`, and every other step stutters.

### The cron beside the webhook

For every set of subscriptions, owners and requests, every bound, and with or without the
reverse pass, under `CronAssumption` (the cron is a process and not a request) and the
assumptions above:

| Theorem | Statement |
|---|---|
| `SyncTypeCorrect` | `SyncSpec => []SyncTypeOK` |
| `WritesAccounted`, `ReverseConfirmed` | `SyncSpec => EveryWriteAccounted`, `SyncSpec => ReverseOnlyWhenEnded` |
| `SyncOneActive` | `SyncSpec => []OneActiveMembership` |
| `RefusedIsCancelled`, `SyncRefusedIsCancelled` | `Spec => []OrphanIsCancelled`, `SyncSpec => []OrphanIsCancelled` |

`RunInv` adds to the types what each phase has in hand: ids that Stripe recorded while it
replays, subscriptions afterwards, and, about to deactivate, a subscription that *is* over:
an ended subscription stays ended, which is why the cron need not look again. `SyncRowChange` is
the only place where the steps that write a membership are counted. For the refusals,
`RefusalInv` says that whatever is in the ledger is an event or a made-up checkout, so that a
commit is never mistaken for an older one, and that without a fault a refused purchase is
canceled or some process is about to cancel it.

The refinement of `ReconciledLedger` and what a refusal may mean, in a module of their own:

| Theorem | Statement |
|---|---|
| `SyncAckedDurable` | `SyncSpec => []AckedIsDurable` |
| `OrphanRowsAreRemade` | `SyncSpec => []OrphanRowIsRemade` |
| `SyncImplementsLedger` | `SyncSpec => ImplementsReconciled` |

The cron answers nobody, but it processes the events that requests answer for, so
`AckedIsDurable` has to be proved again, with `KnownIds` for the requests alone.
`OrphanRowIsRemade` rests on `RemadeInv`: Stripe completes one checkout for a subscription
(`CheckoutOnce`), a row exists only if a checkout of its subscription is in the ledger
(`RowIsBought`), and so is what is about to be cancelled, a checkout whose commit did not
make the row (`OrphanIsBought`). Then two different checkouts of the subscription are in the
ledger, and there are no more than two (`TwoCheckouts`): Stripe's and the made-up one.

The refinement is proved action by action: a commit is `Record` or, for a made-up id,
`Remake`; phase 2 is `Correct`, phase 3 `Deactivate`. For that, `RunInv` knows that the
subscription has ended and `MembersInv` that it still has a row, though the phase listed
its rows long before: no step of the webhook or the cron removes one (`RowsRemain`).

### Clicks

For every finite set of clicks, any consumers, copies, retries, rows and faults, under
`ClicksAssumption` (the oversized and the linked clicks are clicks, the operator is not a
consumer, the bounds are naturals) and `ThresholdAssumption`:

| Theorem | Statement |
|---|---|
| `ClicksTypeCorrect` | `ClicksSpec => []ClicksTypeOK` |
| `ClicksAreKept` | `ClicksSpec => []ClickIsKept` |
| `ReplaysDeleteStored` | `ClicksSpec => ReplayDeletesStored` |
| `NeighboursAreSpared` | `ClicksSpec => []NeighbourIsSpared` |
| `PipelineImplementsLedger` | `ClicksSpec => ImplementsClickLedger` |

`TypeInv` adds to the types that the slice the operator holds is still in the table: the
operator alone deletes. `MessageInv` says who may act on a message: it is in one queue,
handed to one consumer, and what a consumer holds is in a queue. `KeepInv` is the argument
for keeping: a call that is at its upsert comes from the main queue (`UpsertIsMain`); a
call that has its 2xx has stored what it carried, or persisted it (`OkStored`,
`OkPersisted`, `ReplayOk`); a rejected row of a replay is on its way back or back
(`ReplaySpilled`); and a dead letter has used no more tries than there were failing calls
(`DeadTries`), which is where the budget of `ClickIsKept` comes from: only the last retry
of the dead letter queue loses a message, and each of them is a fault. `PublishedKept` is
then inductive. For the neighbours, `CalmInv`: without a fault, under the plain index and
with the products in place, no call that carries a valid click fails, and so the breaker
stays closed.

The refinement rests on `KeepInv` and on `Untouched` (of a click that is not published
there is nothing). `ClickTurns` is its heart: it goes through the steps once, for one
click, and says how its place may change. A call can store or fail only what
it carries, and what it carries has not left its queue or the table (`BodyIsPlaced`), so
nothing comes from nowhere; a replay deletes only what is stored or was rejected (`ReplayOk`);
and whatever is nowhere after a step is excused, which is `PublishedKept` again.

### Automation

For any keys, requests, administrators, values and bounds, under `AutomationAssumption`:

| Theorem | Statement |
|---|---|
| `AutomationTypeCorrect` | `AutomationSpec => []AutomationTypeOK` |
| `KeysExecuteOnce`, `GateAlwaysHolds` | `[]KeyExecutesOnce`, `[]GateHolds` |
| `HistoryIsAlwaysLegal` | `HistoryIsLegal` |
| `SnapshotsAreAdjacent`, `RollbacksRestore` | `[]SnapshotsAdjacent`, `RollbackRestores` |
| `RunningRowsAreOwned`, `FailuresChangeNothing` | `[]RunningIsOwned`, `[]FailedChangedNothing` |
| `BudgetOvershootBounded` | `[]BudgetOvershoot` |
| `ApprovalsNeverExecute` | `[](\A k \in Keys : rows[k].decision # "allow" => writes[k] = 0)` |
| `HandlersImplementLedger` | `ImplementsActionLedger` |

`OwnInv` says that a handler in its executor has a row that is running (`WorkerHasRow`), that
no two are at work on one key (`OneWorker`), and how often the key can have been written at
each place (`WritesAllowed`): together they make "once" inductive, across the race of two
inserts, which the unique constraint decides. `AdjacentInv` follows the snapshots from the
conditional write to the row; `RestoreInv` what a rollback has read, and that the version
it will test still has that value; `CalmInv` what is true before the first fault. For the
budget, `BudgetInv` bounds the allowed rows together with the requests that were told to
go ahead and have not inserted yet: a request adds to either only when the count it read
was below the limit.

`ApprovalsNeverExecute` is finding 6 without the bounds of its run: nothing but what the
policy allowed at once changes the product, however many approvals there are. `GateHolds`,
which the docs promise, leaves approvals free to execute; the ledger does too.

For the refinement, `WriteInv` says what a handler about to write has read: a version the
product has had, and the product itself if the version is still the same. The
conditional write then replaces exactly the value that it records. The
product moves in three ways only, by `WriteProduct`, `Restore` and the edits, which are
`Execute`, `Undo` and `EditField`; for `Undo`, the value put back must be one that `found`
knows, which `RestoreInv` gives.

### Publishing

For any drafts, publications, reviewers, runs of the cron, pages and bounds, under
`PublishingAssumption` (nobody is publication and reviewer at once, the bounds are naturals,
there is room for a suffix):

| Theorem | Statement |
|---|---|
| `PublishingTypeCorrect` | `PublishingSpec => []PublishingTypeOK` |
| `PublishedWasWritten` | `PublishingSpec => []MarkedWasWritten` |
| `OldPagesAreSafe` | `PublishingSpec => []OldPagesStand` |
| `ReviewedIsPublished` | `PublishingSpec => ApprovedTextOnly` |
| `CronPublishesScheduled` | `PublishingSpec => CronWaits` |
| `PublishingImplementsLedger` | `PublishingSpec => ImplementsPageLedger` |

`JobInv` adds to the types what a request has in hand at each place. `MarkInv` says that
whoever is about to mark a draft has written it. `OldInv` is the argument for the pages: once a
slug has been found free, it belongs to no page of `old`, because a page leaves `old` when its
slug changes; the page found by the second lookup bears that slug, so it is not of `old`, and
`old` only shrinks. It needs that a page that does not exist has no slug (`Filed`, kept by
`CleanStep`, the one place where the writes of the table are listed). `ClearedInv` follows the
approved text to the insert. `PickedInv` needs that no row ever begins to wait for a review:
`CleanStep` again.
The refinement needs, beside `PickedInv` and `MarkInv`, that the text a request carries is a
version its draft has had (`TextInv`; versions only grow, `TextsGrow`). Each kind of write has
a lemma (`PublishRefines`, `SaveRefines`, `ReleaseRefines`, `MarkRefines`), and what writes
neither table is a stutter.

Only model-checked: the liveness properties `EventuallySettled`, `LeakIsHealed`,
`MemberIsServed`, `ClickIsSettled` and `DueIsPublished`, which are outside this prover.

## 5. Not modelled, and the plan

The repository is large (1900 files) and most of it is pages, forms, seed data, generated
types, prompts and single calls to a store: nothing happens between two awaits that a
state machine would tell apart, and the share of the lines these modules cover is small
for that reason. What has state and concurrency and is not modelled, in the order in
which it is worth doing:

1. The breaker's fleet signal in KV, with several isolates, and the coalescing of lookups.
2. Session revocation (`lib/jwt-revocation*.ts`): an eventually consistent list beside the
   refresh of a token.
3. The lost update of the content form as a violated property (the hazard at
   `content/route.ts:254`), and the overrides of a publication.

Left out for good: the locks of the crons and of the checkout (best-effort over a store
without an atomic operation, as their comments say, and relied on by nothing that is
modelled), rate limits (atomic in their Durable Object, approximate elsewhere by intent),
and the calls of one request to one store: presentations, commissions, media, newsletter,
AI generation, site resolution, authorisation, retention.
