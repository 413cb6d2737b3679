-------------------------- MODULE AutomationActions --------------------------
(***************************************************************************)
(* The mutations of the automation API: runGuardedMutation                 *)
(* (lib/automation/guarded-mutation.ts) with the table automation_actions, *)
(* the product executors (lib/automation/executors/products.ts), and the   *)
(* decisions a human takes on an action: the routes approve, reject and    *)
(* rollback under app/api/admin/automation/actions/[id].  One service      *)
(* account, one day, one product, of which one field is written; beside    *)
(* them the admin form and the publish cron write the same product.  A     *)
(* step is what happens between two awaits; a call that fails, whose       *)
(* answer is lost, or whose isolate dies is a fault.                       *)
(***************************************************************************)
EXTENDS Naturals, FiniteSets

CONSTANTS
    Keys,         \* idempotency keys
    Requests,     \* requests under way at one time, those of the cron included
    Admins,       \* requests of human administrators
    Values,       \* values of the field the actions write: the status
    Targets,      \* those a lifecycle action sets it to
    MaxPerDay,    \* max_actions_per_day
    MaxEdits,     \* writes of the form and the publish cron (bound)
    MaxFaults     \* failing calls, lost answers and crashes (bound)

ASSUME AutomationAssumption ==
    /\ IsFiniteSet(Keys) /\ IsFiniteSet(Requests)
    /\ Requests \cap Admins = {}
    /\ Targets \subseteq Values /\ {"active", "archived"} \subseteq Values
    /\ {MaxPerDay, MaxEdits, MaxFaults} \subseteq Nat

Callers == Requests \cup Admins

Modes == {"allow", "approval_required", "deny"}

\* TRANSITIONS of action-state.ts.
Transitions ==
    [ proposed |-> {"approved", "policy_allowed", "manual_attention", "cancelled", "failed"},
      approved |-> {"queued", "cancelled"},
      policy_allowed |-> {"queued", "running", "cancelled"},
      queued |-> {"running", "cancelled"},
      running |-> {"verifying", "succeeded", "retry_wait", "failed", "manual_attention"},
      verifying |-> {"succeeded", "rolled_back", "failed", "manual_attention"},
      succeeded |-> {"rolled_back"},
      retry_wait |-> {"running", "failed", "cancelled"},
      failed |-> {"manual_attention"},
      manual_attention |-> {"approved", "queued", "cancelled"},
      rolled_back |-> {},
      cancelled |-> {} ]

ActionStates == DOMAIN Transitions

CanTransition(from, to) == from \in ActionStates /\ to \in Transitions[from]

\* A product as a snapshot keeps it: products_increment_version raises the
\* version on every UPDATE.
Products == [value : Values, version : Nat]
NoProduct == [value |-> "none", version |-> 0]
Written(p, v) == [value |-> v, version |-> p.version + 1]

Rows ==
    [status : ActionStates, decision : Modes, value : Targets, approved : BOOLEAN,
     before : Products \cup {NoProduct}, after : Products \cup {NoProduct}]

NoRow ==
    [status |-> "none", decision |-> "none", value |-> "none", approved |-> FALSE,
     before |-> NoProduct, after |-> NoProduct]

VARIABLES
    rows,       \* automation_actions, by (service_account_id, idempotency_key)
    product,    \* the row of products
    at,         \* where a caller is in its handler
    job,        \* what it has read and decided so far
    writes,     \* ghost: how often the executor has changed the product for a key
    edits, faults

autoVars == <<rows, product, at, job, writes, edits, faults>>

Places == {"idle", "policy", "insert", "read", "write", "succeed", "fail",
           "approve", "start", "reject", "compare", "restore", "mark"}

\* expect is the status an update is conditional on.
Jobs ==
    [key : Keys, value : Targets, mode : Modes \cup {"none"},
     expect : ActionStates \cup {"none"},
     before : Products \cup {NoProduct}, after : Products \cup {NoProduct}]

NoJob == [key |-> "none"]

NewJob(k, v, status) ==
    [key |-> k, value |-> v, mode |-> "none", expect |-> status,
     before |-> NoProduct, after |-> NoProduct]

AutomationTypeOK ==
    /\ rows \in [Keys -> Rows \cup {NoRow}]
    /\ product \in Products
    /\ at \in [Callers -> Places]
    /\ job \in [Callers -> Jobs \cup {NoJob}]
    /\ \A p \in Callers : at[p] # "idle" => job[p] \in Jobs
    /\ writes \in [Keys -> Nat]
    /\ edits \in 0..MaxEdits /\ faults \in 0..MaxFaults

AutomationInit ==
    /\ rows = [k \in Keys |-> NoRow]
    /\ product \in [value : Values, version : {1}]
    /\ at = [p \in Callers |-> "idle"] /\ job = [p \in Callers |-> NoJob]
    /\ writes = [k \in Keys |-> 0]
    /\ edits = 0 /\ faults = 0

Fault == faults < MaxFaults /\ faults' = faults + 1

Goto(p, place) == at' = [at EXCEPT ![p] = place] /\ UNCHANGED job

\* The handler has answered, or is dead; what it read is gone.
Leave(p) == at' = [at EXCEPT ![p] = "idle"] /\ job' = [job EXCEPT ![p] = NoJob]

RowOf(p) == rows[job[p].key]

SetRow(p, row) == rows' = [rows EXCEPT ![job[p].key] = row]

-----------------------------------------------------------------------------
(* runGuardedMutation *)

\* The lookup by key finds no row.  With a row the request is a replay or a
\* conflict, and is answered at once.
Receive(p, k, v) ==
    /\ at[p] = "idle"
    /\ rows[k] = NoRow
    /\ at' = [at EXCEPT ![p] = "policy"]
    /\ job' = [job EXCEPT ![p] = NewJob(k, v, "none")]
    /\ UNCHANGED <<rows, product, writes, edits, faults>>

\* Mutant: the limit itself is still allowed.
EvaluateOffByOne(count, mode) == IF count > MaxPerDay THEN "deny" ELSE mode

\* evaluatePolicy: the daily limit, then the mode of the site's override or of
\* the default matrix, which the owner may change at any time.
Evaluate(count, mode) == IF count >= MaxPerDay THEN "deny" ELSE mode

CountActions == Cardinality({k \in Keys : rows[k] # NoRow})

Decide(p) ==
    /\ at[p] = "policy"
    /\ \E mode \in Modes :
        job' = [job EXCEPT ![p].mode = Evaluate(CountActions, mode)]
    /\ at' = [at EXCEPT ![p] = "insert"]
    /\ UNCHANGED <<rows, product, writes, edits, faults>>

\* Mutant: a status the CHECK of the table does not know.
FirstStatusDenied ==
    [allow |-> "running", approval_required |-> "manual_attention", deny |-> "denied"]

FirstStatus ==
    [allow |-> "running", approval_required |-> "manual_attention", deny |-> "failed"]

FirstRow(j) ==
    [NoRow EXCEPT !.status = FirstStatus[j.mode], !.decision = j.mode, !.value = j.value]

\* Mutant: ON CONFLICT DO UPDATE in place of a violation.
InsertOrUpdate(p) ==
    /\ at[p] = "insert"
    /\ SetRow(p, FirstRow(job[p]))
    /\ IF job[p].mode = "allow" THEN Goto(p, "read") ELSE Leave(p)
    /\ UNCHANGED <<product, writes, edits, faults>>

\* Mutant: the return after the row of an action to be approved is missing.
InsertFallsThrough(p) ==
    /\ at[p] = "insert"
    /\ IF RowOf(p) = NoRow
         THEN /\ SetRow(p, FirstRow(job[p]))
              /\ IF job[p].mode # "deny" THEN Goto(p, "read") ELSE Leave(p)
         ELSE UNCHANGED rows /\ Leave(p)
    /\ UNCHANGED <<product, writes, edits, faults>>

\* createAutomationAction.  A row that got there first makes the insert raise
\* (automation_actions_idem_unique), and the request ends with 500.
Insert(p) ==
    /\ at[p] = "insert"
    /\ IF RowOf(p) = NoRow
         THEN /\ SetRow(p, FirstRow(job[p]))
              /\ IF job[p].mode = "allow" THEN Goto(p, "read") ELSE Leave(p)
         ELSE UNCHANGED rows /\ Leave(p)
    /\ UNCHANGED <<product, writes, edits, faults>>

-----------------------------------------------------------------------------
(* An executor, called by a request or by an approval *)

ReadProduct(p) ==
    /\ at[p] = "read"
    /\ job' = [job EXCEPT ![p].before = product]
    /\ at' = [at EXCEPT ![p] = "write"]
    /\ UNCHANGED <<rows, product, writes, edits, faults>>

ReadFails(p) ==
    /\ at[p] = "read" /\ Fault
    /\ Goto(p, "fail")
    /\ UNCHANGED <<rows, product, writes, edits>>

\* The write of updateProduct and the row it returns.
Write(p, v) ==
    /\ product' = Written(product, v)
    /\ writes' = [writes EXCEPT ![job[p].key] = @ + 1]

\* Mutant: no version in the filter.
WriteBlindly(p) ==
    /\ at[p] = "write"
    /\ Write(p, job[p].value)
    /\ at' = [at EXCEPT ![p] = "succeed"]
    /\ job' = [job EXCEPT ![p].after = product']
    /\ UNCHANGED <<rows, edits, faults>>

WriteProduct(p) ==
    /\ at[p] = "write"
    /\ product.version = job[p].before.version
    /\ Write(p, job[p].value)
    /\ at' = [at EXCEPT ![p] = "succeed"]
    /\ job' = [job EXCEPT ![p].after = product']
    /\ UNCHANGED <<rows, edits, faults>>

\* Mutant: the conflict is answered, and the row forgotten.
WriteConflictForgotten(p) ==
    /\ at[p] = "write"
    /\ product.version # job[p].before.version
    /\ Leave(p)
    /\ UNCHANGED <<rows, product, writes, edits, faults>>

\* Mutant: the version is compared after the write.
WriteThenCompare(p) ==
    /\ at[p] = "write"
    /\ product.version # job[p].before.version
    /\ Write(p, job[p].value)
    /\ Goto(p, "fail")
    /\ UNCHANGED <<rows, edits, faults>>

\* The filter on the version matches nothing: ConflictError.
WriteConflict(p) ==
    /\ at[p] = "write"
    /\ product.version # job[p].before.version
    /\ Goto(p, "fail")
    /\ UNCHANGED <<rows, product, writes, edits, faults>>

\* The call fails, before or after the database committed.
WriteUnsure(p) ==
    /\ at[p] = "write" /\ Fault
    /\ \/ product.version = job[p].before.version /\ Write(p, job[p].value)
       \/ UNCHANGED <<product, writes>>
    /\ Goto(p, "fail")
    /\ UNCHANGED <<rows, edits>>

-----------------------------------------------------------------------------
(* updateAutomationAction after the executor *)

\* The row with the new status, and what else the patch holds.
Succeeded(p) ==
    [RowOf(p) EXCEPT !.status = "succeeded", !.before = job[p].before, !.after = job[p].after]

Succeed(p) ==
    /\ at[p] = "succeed"
    /\ CanTransition(RowOf(p).status, "succeeded")
    /\ SetRow(p, Succeeded(p))
    /\ Leave(p)
    /\ UNCHANGED <<product, writes, edits, faults>>

\* The update fails, before or after the commit: the catch takes over.
SucceedUnsure(p) ==
    /\ at[p] = "succeed" /\ Fault
    /\ \/ CanTransition(RowOf(p).status, "succeeded") /\ SetRow(p, Succeeded(p))
       \/ UNCHANGED rows
    /\ Goto(p, "fail")
    /\ UNCHANGED <<product, writes, edits>>

\* Mutant: the status is written without a look at the one it replaces.
FailBlindly(p) ==
    /\ at[p] = "fail"
    /\ SetRow(p, [RowOf(p) EXCEPT !.status = "failed"])
    /\ Leave(p)
    /\ UNCHANGED <<product, writes, edits, faults>>

\* The catch of the handler.  If the row did become "succeeded" the transition is
\* illegal and throws out of the catch.
Fail(p) ==
    /\ at[p] = "fail"
    /\ IF CanTransition(RowOf(p).status, "failed")
         THEN SetRow(p, [RowOf(p) EXCEPT !.status = "failed"])
         ELSE UNCHANGED rows
    /\ Leave(p)
    /\ UNCHANGED <<product, writes, edits, faults>>

-----------------------------------------------------------------------------
(* approve and reject *)

Decidable == {"manual_attention", "proposed"}

\* The read of the route and its early return.
OpenDecision(p, k) ==
    /\ at[p] = "idle"
    /\ rows[k].status \in Decidable
    /\ \E place \in {"approve", "reject"} : at' = [at EXCEPT ![p] = place]
    /\ job' = [job EXCEPT ![p] = NewJob(k, rows[k].value, rows[k].status)]
    /\ UNCHANGED <<rows, product, writes, edits, faults>>

\* updateAutomationAction with an expected status: assertTransition and a
\* conditional UPDATE; either of them answers 409 when the row has moved on.
Approve(p) ==
    /\ at[p] = "approve"
    /\ IF RowOf(p).status = job[p].expect /\ CanTransition(RowOf(p).status, "approved")
         THEN /\ SetRow(p, [RowOf(p) EXCEPT !.status = "approved", !.approved = TRUE])
              /\ Goto(p, "start")
         ELSE UNCHANGED rows /\ Leave(p)
    /\ UNCHANGED <<product, writes, edits, faults>>

\* The second update, approved to running; then the executor.
Start(p) ==
    /\ at[p] = "start"
    /\ IF RowOf(p).status = "approved" /\ CanTransition("approved", "running")
         THEN /\ SetRow(p, [RowOf(p) EXCEPT !.status = "running"])
              /\ Goto(p, "read")
         ELSE UNCHANGED rows /\ Leave(p)
    /\ UNCHANGED <<product, writes, edits, faults>>

Reject(p) ==
    /\ at[p] = "reject"
    /\ IF RowOf(p).status = job[p].expect /\ CanTransition(RowOf(p).status, "cancelled")
         THEN SetRow(p, [RowOf(p) EXCEPT !.status = "cancelled"])
         ELSE UNCHANGED rows
    /\ Leave(p)
    /\ UNCHANGED <<product, writes, edits, faults>>

-----------------------------------------------------------------------------
(* rollback *)

OpenRollback(p, k) ==
    /\ at[p] = "idle"
    /\ rows[k].status = "succeeded"
    /\ at' = [at EXCEPT ![p] = "compare"]
    /\ job' = [job EXCEPT ![p] = NewJob(k, rows[k].value, "succeeded")]
    /\ UNCHANGED <<rows, product, writes, edits, faults>>

\* rollbackProductLifecycle reads the product; assertCurrentMatchesAfter.
Compare(p) ==
    /\ at[p] = "compare"
    /\ IF product.value = RowOf(p).after.value
         THEN /\ job' = [job EXCEPT ![p].before = product]
              /\ at' = [at EXCEPT ![p] = "restore"]
         ELSE Leave(p)
    /\ UNCHANGED <<rows, product, writes, edits, faults>>

\* Mutant: no version in the filter.
RestoreBlindly(p) ==
    /\ at[p] = "restore"
    /\ product' = Written(product, RowOf(p).before.value)
    /\ Goto(p, "mark")
    /\ UNCHANGED <<rows, writes, edits, faults>>

Restore(p) ==
    /\ at[p] = "restore"
    /\ IF product.version = job[p].before.version
         THEN product' = Written(product, RowOf(p).before.value) /\ Goto(p, "mark")
         ELSE UNCHANGED product /\ Leave(p)
    /\ UNCHANGED <<rows, writes, edits, faults>>

\* The call fails, before or after the commit: 422, and the row stays as it was.
RestoreUnsure(p) ==
    /\ at[p] = "restore" /\ Fault
    /\ product.version = job[p].before.version
    /\ product' = Written(product, RowOf(p).before.value)
    /\ Leave(p)
    /\ UNCHANGED <<rows, writes, edits>>

MarkRolledBack(p) ==
    /\ at[p] = "mark"
    /\ IF RowOf(p).status = "succeeded"
         THEN SetRow(p, [RowOf(p) EXCEPT !.status = "rolled_back"])
         ELSE UNCHANGED rows
    /\ Leave(p)
    /\ UNCHANGED <<product, writes, edits, faults>>

-----------------------------------------------------------------------------
(* The others *)

Edit(v) ==
    /\ edits < MaxEdits /\ edits' = edits + 1
    /\ product' = Written(product, v)
    /\ UNCHANGED <<rows, at, job, writes, faults>>

\* PATCH /api/admin/products: the version filter is optional and, when it is
\* there, the form has read the product at some time before.
EditProduct == \E v \in Values : Edit(v)

\* The publish cron archives what is active and expired, in one UPDATE.
ArchiveExpired == product.value = "active" /\ Edit("archived")

\* The isolate dies, or a call fails that ends the handler: nothing is undone.
Crash(p) ==
    /\ at[p] # "idle" /\ Fault
    /\ Leave(p)
    /\ UNCHANGED <<rows, product, writes, edits>>

-----------------------------------------------------------------------------
ExecutorStep(p) ==
    \/ ReadProduct(p) \/ WriteProduct(p) \/ WriteConflict(p) \/ Succeed(p) \/ Fail(p)

RequestStep(p) == Decide(p) \/ Insert(p) \/ ExecutorStep(p)

AdminStep(p) ==
    \/ Approve(p) \/ Start(p) \/ Reject(p)
    \/ Compare(p) \/ Restore(p) \/ MarkRolledBack(p)
    \/ ExecutorStep(p)

FailureStep(p) ==
    ReadFails(p) \/ WriteUnsure(p) \/ SucceedUnsure(p) \/ RestoreUnsure(p) \/ Crash(p)

AutomationNext ==
    \/ \E p \in Requests :
        \/ \E k \in Keys, v \in Targets : Receive(p, k, v)
        \/ RequestStep(p)
    \/ \E p \in Admins :
        \/ \E k \in Keys : OpenDecision(p, k) \/ OpenRollback(p, k)
        \/ AdminStep(p)
    \/ \E p \in Callers : FailureStep(p)
    \/ EditProduct \/ ArchiveExpired

AutomationSpec == AutomationInit /\ [][AutomationNext]_autoVars
-----------------------------------------------------------------------------
(* Properties *)

\* However often a client repeats a key, and whatever fails in between, the
\* product is changed for it at most once: "never executes the mutation again"
\* (docs/automation-api.md:462); the lookup (guarded-mutation.ts:82) is not
\* atomic with the insert, and what decides is the unique constraint.
KeyExecutesOnce == \A k \in Keys : writes[k] <= 1

\* What needs an approval, or was denied, does not change the product unless a
\* human approved it (docs/automation-api.md:469, guarded-mutation.ts:131-154).
GateHolds ==
    \A k \in Keys : writes[k] > 0 => rows[k].decision = "allow" \/ rows[k].approved

\* A row changes its status along TRANSITIONS only, though two deciders, or a
\* catch after a lost answer, act on a status they read before
\* (action-state.ts:30, lib/dal/automation-actions.ts:190-215).
HistoryIsLegal ==
    [][\A k \in Keys : rows'[k].status # rows[k].status =>
        \/ rows[k] = NoRow /\ rows'[k].status \in {"running", "manual_attention", "failed"}
        \/ CanTransition(rows[k].status, rows'[k].status)]_autoVars

\* The two snapshots of an action are consecutive versions of the product: no
\* write of another came between what a rollback will restore and what the
\* action wrote (executors/products.ts:59-71, 94-118).
SnapshotsAdjacent ==
    \A k \in Keys : rows[k].status \in {"succeeded", "rolled_back"} =>
        /\ rows[k].after.version = rows[k].before.version + 1
        /\ rows[k].after.value = rows[k].value

\* A rollback replaces the value its action wrote by the one it found, never a
\* later edit: "compare-and-set, not blind restoration"
\* (docs/automation-api.md:581-585), though it reads and then writes.
RollbackRestores ==
    [][\A p \in Admins :
        at[p] = "restore" /\ at'[p] # "restore" /\ product' # product =>
            /\ product.value = RowOf(p).after.value
            /\ product'.value = RowOf(p).before.value]_autoVars

Verdict(row) ==
    IF row = NoRow THEN "none"
    ELSE IF row.decision = "allow" \/ row.approved THEN "granted"
    ELSE IF row.status \in Decidable THEN "waiting" ELSE "refused"

\* What an action replaced is known to its row, or to the request about to write it.
KnownBefore(k, v) ==
    \/ rows[k].status \in {"succeeded", "rolled_back"} /\ rows[k].before.value = v
    \/ \E p \in Callers : at[p] = "succeed" /\ job[p].key = k /\ job[p].before.value = v

\* The mapping: a verdict is what the row of a key comes to.
Actions == INSTANCE ActionLedger WITH
    verdict  <- [k \in Keys |-> Verdict(rows[k])],
    wish     <- [k \in Keys |-> rows[k].value],
    executed <- {k \in Keys : writes[k] > 0},
    found    <- {f \in Keys \X Values : KnownBefore(f[1], f[2])}

\* The handlers implement the ledger of actions: whatever two requests with one key,
\* two deciders, a lost answer or an edit do to one another, the product changes by an
\* edit, by the one execution of a granted action, or by an undo of it.
ImplementsActionLedger == Actions!ActionSpec

Allowed == {k \in Keys : rows[k].decision = "allow"}

\* The daily count is read before the insert (guarded-mutation.ts:102-118,156):
\* requests at the same time may pass the limit together, but by no more than
\* one each (policy.ts:139).
BudgetOvershoot ==
    Allowed # {} => Cardinality(Allowed) < MaxPerDay + Cardinality(Requests)

\* While nothing fails, an action that did not go through left the product alone
\* (guarded-mutation.ts:172-183).  A fault between the two writes breaks it.
FailedChangedNothing ==
    faults = 0 =>
        \A k \in Keys : rows[k].status \in {"failed", "cancelled", "manual_attention"} =>
            writes[k] = 0

WorksOn(p, k) == at[p] \in {"read", "write", "succeed", "fail"} /\ job[p].key = k

\* While nothing fails, somebody is at work on every row that says "running":
\* nothing else would ever take it out of that state.
RunningIsOwned ==
    faults = 0 =>
        \A k \in Keys : rows[k].status = "running" => \E p \in Callers : WorksOn(p, k)

\* "approves and immediately executes" (docs/automation-api.md:570): while
\* nothing fails, a row says "approved" only until its approval starts it.
ApprovalGoesOn ==
    faults = 0 =>
        \A k \in Keys : rows[k].status = "approved" =>
            \E p \in Admins : at[p] = "start" /\ job[p].key = k
=============================================================================
