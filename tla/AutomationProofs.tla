-------------------------- MODULE AutomationProofs --------------------------
(***************************************************************************)
(* What AutomationActions guarantees for every set of keys, requests and   *)
(* administrators, every daily limit, and however many edits and faults.   *)
(***************************************************************************)
EXTENDS AutomationActions, FiniteSetTheorems, TLAPS

-----------------------------------------------------------------------------
(* The table of transitions *)

\* The states of action-state.ts:11-26.
LEMMA StatesKnown ==
    ActionStates = {"proposed", "approved", "policy_allowed", "queued", "running",
                    "verifying", "succeeded", "rolled_back", "retry_wait", "failed",
                    "manual_attention", "cancelled"}
BY DEF ActionStates, Transitions

\* What may precede each status the handlers write; and an approved action may
\* not start (action-state.ts:30-43).
LEMMA Moves ==
    /\ \A s : CanTransition(s, "succeeded") => s \in {"running", "verifying"}
    /\ \A s : CanTransition(s, "approved") => s \in {"proposed", "manual_attention"}
    /\ \A s : CanTransition(s, "cancelled") =>
          s \in ActionStates \ {"running", "succeeded", "failed", "rolled_back", "cancelled"}
    /\ \A s : CanTransition(s, "failed") =>
          s \in {"proposed", "running", "verifying", "retry_wait"}
    /\ CanTransition("running", "succeeded") /\ CanTransition("running", "failed")
    /\ CanTransition("succeeded", "rolled_back")
    /\ ~CanTransition("approved", "running")
BY DEF CanTransition, Transitions, ActionStates

\* A new row is running, waits for a human, or has failed.
LEMMA FirstStatuses ==
    /\ \A m \in Modes : FirstStatus[m] \in {"running", "manual_attention", "failed"}
    /\ \A m \in Modes : FirstStatus[m] = "running" <=> m = "allow"
BY DEF FirstStatus, Modes

-----------------------------------------------------------------------------
(* The pieces of a step *)

\* An UPDATE of a product gives a product, of the next version.
LEMMA WrittenTyped ==
    ASSUME NEW q \in Products, NEW v \in Values
    PROVE  /\ Written(q, v) \in Products
           /\ Written(q, v).version = q.version + 1 /\ Written(q, v).value = v
BY DEF Written, Products

\* A row with a status of the table is a row.
LEMMA RowIsRow == \A r \in Rows \cup {NoRow} : r.status \in ActionStates => r \in Rows
BY StatesKnown DEF NoRow

LEMMA JobOf ==
    ASSUME AutomationTypeOK, NEW p \in Callers, at[p] # "idle"
    PROVE  /\ job[p] \in Jobs /\ job[p].key \in Keys /\ job[p].value \in Targets
           /\ job[p].before \in Products \cup {NoProduct}
           /\ job[p].mode \in Modes \cup {"none"}
           /\ RowOf(p) \in Rows \cup {NoRow} /\ RowOf(p) = rows[job[p].key]
BY DEF AutomationTypeOK, Jobs, RowOf

LEMMA RowSet ==
    ASSUME AutomationTypeOK, NEW p \in Callers, job[p].key \in Keys,
           NEW r \in Rows, SetRow(p, r)
    PROVE  /\ rows' \in [Keys -> Rows \cup {NoRow}]
           /\ rows'[job[p].key] = r
           /\ \A k \in Keys : k # job[p].key => rows'[k] = rows[k]
BY DEF AutomationTypeOK, SetRow

\* The other callers stay where they are; what p knows is a job if it goes on.
OnlyMoves(p, place) ==
    /\ at' \in [Callers -> Places] /\ job' \in [Callers -> Jobs \cup {NoJob}]
    /\ at'[p] = place
    /\ \A q \in Callers : q # p => at'[q] = at[q] /\ job'[q] = job[q]
    /\ \A q \in Callers : at'[q] # "idle" => job'[q] \in Jobs

LEMMA Left ==
    ASSUME AutomationTypeOK, NEW p \in Callers, Leave(p)
    PROVE  OnlyMoves(p, "idle")
BY DEF AutomationTypeOK, Leave, Places, OnlyMoves

LEMMA Moved ==
    ASSUME AutomationTypeOK, NEW p \in Callers, at[p] # "idle",
           NEW place \in Places, Goto(p, place)
    PROVE  OnlyMoves(p, place) /\ job' = job
BY DEF AutomationTypeOK, Goto, Places, OnlyMoves

\* p goes on with a job of its own.
LEMMA Working ==
    ASSUME AutomationTypeOK, NEW p \in Callers, NEW j \in Jobs, NEW place \in Places,
           at' = [at EXCEPT ![p] = place], job' = [job EXCEPT ![p] = j]
    PROVE  OnlyMoves(p, place) /\ job'[p] = j
BY DEF AutomationTypeOK, Places, OnlyMoves

-----------------------------------------------------------------------------
(* Types *)

Rolling == {"compare", "restore", "mark"}
Done == {"succeeded", "rolled_back"}

\* What a caller has already read where it needs it.
JobsOK ==
    \A p \in Callers :
        /\ at[p] = "insert" => job[p].mode \in Modes
        /\ at[p] \in {"write", "restore"} => job[p].before \in Products
        /\ at[p] = "succeed" => job[p].before \in Products /\ job[p].after \in Products
        /\ at[p] \in Rolling => rows[job[p].key].status \in Done

\* An action that succeeded has both snapshots.
SnapshotsTyped ==
    \A k \in Keys : rows[k].status \in Done =>
        rows[k].before \in Products /\ rows[k].after \in Products

TypeInv == AutomationTypeOK /\ JobsOK /\ SnapshotsTyped

LEMMA TypeInit == AutomationInit => TypeInv
BY AutomationAssumption
   DEF AutomationInit, TypeInv, AutomationTypeOK, JobsOK, SnapshotsTyped, Products,
       Places, NoRow, NoJob, Done, Callers, Rolling

\* A step that leaves the rows alone and moves one caller, for the worse at most
\* to a place where nothing is asked of its job.
LEMMA QuietTyped ==
    ASSUME TypeInv, NEW p \in Callers, NEW place \in Places, OnlyMoves(p, place),
           product' \in Products, writes' \in [Keys -> Nat],
           edits' \in 0..MaxEdits, faults' \in 0..MaxFaults, UNCHANGED rows,
           place = "insert" => job'[p].mode \in Modes,
           place \in {"write", "restore"} => job'[p].before \in Products,
           place = "succeed" => job'[p].before \in Products /\ job'[p].after \in Products,
           place \in Rolling => rows[job'[p].key].status \in Done
    PROVE  TypeInv'
BY DEF TypeInv, AutomationTypeOK, JobsOK, SnapshotsTyped, OnlyMoves, Rolling

\* A step that writes one row and moves its caller.
LEMMA RowTyped ==
    ASSUME TypeInv, NEW p \in Callers, NEW place \in {"idle", "read", "start", "fail"},
           at[p] # "idle", OnlyMoves(p, place), NEW r \in Rows, SetRow(p, r),
           r.status \in Done => r.before \in Products /\ r.after \in Products,
           RowOf(p).status \in Done => r.status \in Done,
           faults' \in 0..MaxFaults, UNCHANGED <<product, writes, edits>>
    PROVE  TypeInv'
<1>1. AutomationTypeOK /\ job[p].key \in Keys /\ RowOf(p) = rows[job[p].key]
  BY JobOf DEF TypeInv
<1>2. AutomationTypeOK'
  BY <1>1, RowSet DEF AutomationTypeOK, OnlyMoves
<1>3. JobsOK'
  BY <1>1, RowSet DEF TypeInv, JobsOK, OnlyMoves, Rolling, AutomationTypeOK, Jobs
<1>4. SnapshotsTyped'
  BY <1>1, RowSet DEF TypeInv, SnapshotsTyped
<1> QED
  BY <1>2, <1>3, <1>4 DEF TypeInv

\* The bounds of the counters, and the faults a fault leaves.
LEMMA Counters ==
    TypeInv => /\ edits \in 0..MaxEdits /\ faults \in 0..MaxFaults
               /\ (Fault => faults' \in 0..MaxFaults /\ faults' # 0)
               /\ product \in Products /\ writes \in [Keys -> Nat]
               /\ rows \in [Keys -> Rows \cup {NoRow}]
BY AutomationAssumption DEF TypeInv, AutomationTypeOK, Fault

\* The write of an executor.
LEMMA WriteTyped ==
    ASSUME TypeInv, NEW p \in Callers, at[p] # "idle", Write(p, job[p].value)
    PROVE  /\ product' \in Products /\ writes' \in [Keys -> Nat]
           /\ product'.version = product.version + 1 /\ product'.value = job[p].value
           /\ writes'[job[p].key] = writes[job[p].key] + 1
           /\ \A k \in Keys : k # job[p].key => writes'[k] = writes[k]
<1>1. job[p].key \in Keys /\ job[p].value \in Values /\ product \in Products
      /\ writes \in [Keys -> Nat]
  BY JobOf, Counters, AutomationAssumption DEF TypeInv
<1> QED
  BY <1>1, WrittenTyped DEF Write

\* The restoring write of a rollback.
LEMMA RestoreTyped ==
    ASSUME TypeInv, NEW p \in Callers, at[p] = "restore",
           product' = Written(product, RowOf(p).before.value)
    PROVE  product' \in Products /\ product'.version = product.version + 1
           /\ product'.value = RowOf(p).before.value
<1>1. RowOf(p).before \in Products /\ product \in Products
  BY JobOf, Counters DEF TypeInv, JobsOK, SnapshotsTyped, Rolling
<1> QED
  BY <1>1, WrittenTyped DEF Products

LEMMA TypeStep == TypeInv /\ [AutomationNext]_autoVars => TypeInv'
<1> SUFFICES ASSUME TypeInv, [AutomationNext]_autoVars PROVE TypeInv'
  OBVIOUS
<1> USE DEF Places
<1>a. AutomationTypeOK
  BY DEF TypeInv
<1>1. ASSUME NEW p \in Requests, NEW k \in Keys, NEW v \in Targets, Receive(p, k, v)
      PROVE  TypeInv'
  <2>1. p \in Callers /\ NewJob(k, v, "none") \in Jobs
    BY DEF Callers, NewJob, Jobs
  <2> QED
    BY <1>1, <1>a, <2>1, Working, QuietTyped, Counters DEF Receive, Rolling
<1>2. ASSUME NEW p \in Requests, Decide(p) PROVE TypeInv'
  <2>1. p \in Callers /\ job[p] \in Jobs
    BY <1>2, <1>a, JobOf DEF Callers, Decide
  <2>2. PICK mode \in Modes : job' = [job EXCEPT ![p].mode = Evaluate(CountActions, mode)]
    BY <1>2 DEF Decide
  <2>3. Evaluate(CountActions, mode) \in Modes
    BY DEF Evaluate, Modes
  <2> DEFINE j == [job[p] EXCEPT !.mode = Evaluate(CountActions, mode)]
  <2>4. j \in Jobs /\ j.mode \in Modes /\ job' = [job EXCEPT ![p] = j]
    BY <1>a, <2>1, <2>2, <2>3 DEF Jobs, AutomationTypeOK
  <2> QED
    BY <1>2, <1>a, <2>1, <2>4, Working, QuietTyped, Counters DEF Decide, Rolling
<1>3. ASSUME NEW p \in Requests, Insert(p) PROVE TypeInv'
  <2>1. p \in Callers /\ at[p] # "idle" /\ job[p].value \in Targets /\ job[p].mode \in Modes
    BY <1>3, <1>a, JobOf DEF Callers, Insert, TypeInv, JobsOK
  <2>2. /\ FirstRow(job[p]) \in Rows
        /\ FirstRow(job[p]).status \in {"running", "manual_attention", "failed"}
    BY <2>1, FirstStatuses, StatesKnown DEF FirstRow, NoRow, Rows
  <2>3. CASE RowOf(p) = NoRow
    <3>1. RowOf(p).status \notin Done
      BY <2>3 DEF NoRow, Done
    <3>2. PICK place \in {"idle", "read"} : OnlyMoves(p, place)
      BY <1>3, <2>1, <2>3, <1>a, Left, Moved DEF Insert
    <3> QED
      BY <1>3, <2>1, <2>2, <2>3, <3>1, <3>2, RowTyped, Counters DEF Insert, Done
  <2>4. CASE RowOf(p) # NoRow
    BY <1>3, <1>a, <2>1, <2>4, Left, QuietTyped, Counters DEF Insert, Rolling
  <2> QED
    BY <2>3, <2>4
<1>4. ASSUME NEW p \in Callers, ReadProduct(p) PROVE TypeInv'
  <2>1. job[p] \in Jobs /\ product \in Products
    BY <1>4, <1>a, JobOf, Counters DEF ReadProduct
  <2> DEFINE j == [job[p] EXCEPT !.before = product]
  <2>2. j \in Jobs /\ j.before \in Products /\ job' = [job EXCEPT ![p] = j]
    BY <1>4, <1>a, <2>1 DEF Jobs, AutomationTypeOK, ReadProduct
  <2> QED
    BY <1>4, <1>a, <2>2, Working, QuietTyped, Counters DEF ReadProduct, Rolling
<1>5. ASSUME NEW p \in Callers, ReadFails(p) PROVE TypeInv'
  BY <1>5, <1>a, Moved, QuietTyped, Counters DEF ReadFails, Rolling
<1>6. ASSUME NEW p \in Callers, WriteProduct(p) PROVE TypeInv'
  <2>1. job[p] \in Jobs /\ job[p].before \in Products /\ product' \in Products
        /\ writes' \in [Keys -> Nat]
    BY <1>6, <1>a, JobOf, WriteTyped DEF WriteProduct, TypeInv, JobsOK
  <2> DEFINE j == [job[p] EXCEPT !.after = product']
  <2>2. j \in Jobs /\ j.before \in Products /\ j.after \in Products
        /\ job' = [job EXCEPT ![p] = j]
    BY <1>6, <1>a, <2>1 DEF Jobs, AutomationTypeOK, WriteProduct
  <2> QED
    BY <1>6, <1>a, <2>1, <2>2, Working, QuietTyped, Counters DEF WriteProduct, Rolling
<1>7. ASSUME NEW p \in Callers, WriteConflict(p) PROVE TypeInv'
  BY <1>7, <1>a, Moved, QuietTyped, Counters DEF WriteConflict, Rolling
<1>8. ASSUME NEW p \in Callers, WriteUnsure(p) PROVE TypeInv'
  <2>1. product' \in Products /\ writes' \in [Keys -> Nat]
    BY <1>8, WriteTyped, Counters DEF WriteUnsure
  <2> QED
    BY <1>8, <1>a, <2>1, Moved, QuietTyped, Counters DEF WriteUnsure, Rolling
<1>9. ASSUME NEW p \in Callers, at[p] = "succeed", CanTransition(RowOf(p).status, "succeeded")
      PROVE  /\ Succeeded(p) \in Rows
             /\ Succeeded(p).before \in Products /\ Succeeded(p).after \in Products
             /\ Succeeded(p).status \in Done
  <2>1. RowOf(p) \in Rows
    BY <1>9, <1>a, JobOf, RowIsRow DEF CanTransition
  <2> QED
    BY <1>9, <2>1, StatesKnown DEF Succeeded, Rows, TypeInv, JobsOK, Done
<1>10. ASSUME NEW p \in Callers, Succeed(p) PROVE TypeInv'
  BY <1>10, <1>a, <1>9, Left, RowTyped, Counters DEF Succeed
<1>11. ASSUME NEW p \in Callers, SucceedUnsure(p) PROVE TypeInv'
  <2>1. OnlyMoves(p, "fail") /\ faults' \in 0..MaxFaults /\ at[p] # "idle"
    BY <1>11, <1>a, Moved, Counters DEF SucceedUnsure
  <2>2. CASE CanTransition(RowOf(p).status, "succeeded") /\ SetRow(p, Succeeded(p))
    BY <1>11, <1>9, <2>1, <2>2, RowTyped DEF SucceedUnsure
  <2>3. CASE UNCHANGED rows
    BY <1>11, <2>1, <2>3, QuietTyped, Counters DEF SucceedUnsure, Rolling
  <2> QED
    BY <1>11, <2>2, <2>3 DEF SucceedUnsure
<1>12. ASSUME NEW p \in Callers, NEW s \in {"failed", "approved", "cancelled"},
              at[p] # "idle", CanTransition(RowOf(p).status, s)
       PROVE  /\ [RowOf(p) EXCEPT !.status = s] \in Rows
              /\ [RowOf(p) EXCEPT !.status = s, !.approved = TRUE] \in Rows
              /\ RowOf(p).status \notin Done /\ s \notin Done
  <2>1. RowOf(p) \in Rows
    BY <1>12, <1>a, JobOf, RowIsRow DEF CanTransition
  <2>2. RowOf(p).status \notin Done
    BY <1>12, Moves DEF Done
  <2> QED
    BY <1>12, <2>1, <2>2, StatesKnown DEF Rows, Done
<1>13. ASSUME NEW p \in Callers, Fail(p) PROVE TypeInv'
  <2>1. OnlyMoves(p, "idle") /\ at[p] # "idle"
    BY <1>13, <1>a, Left DEF Fail
  <2>2. CASE CanTransition(RowOf(p).status, "failed")
    <3> DEFINE r == [RowOf(p) EXCEPT !.status = "failed"]
    <3>1. r \in Rows /\ r.status \notin Done /\ RowOf(p).status \notin Done
      BY <1>12, <2>1, <2>2, Zenon DEF Rows
    <3> QED
      BY <1>13, <2>1, <2>2, <3>1, RowTyped, Counters DEF Fail
  <2>3. CASE ~CanTransition(RowOf(p).status, "failed")
    BY <1>13, <2>1, <2>3, QuietTyped, Counters DEF Fail, Rolling
  <2> QED
    BY <2>2, <2>3
<1>14. ASSUME NEW p \in Admins, NEW k \in Keys, OpenDecision(p, k) PROVE TypeInv'
  <2>1. p \in Callers /\ rows[k] \in Rows
    BY <1>14, RowIsRow, StatesKnown, Counters DEF Callers, OpenDecision, Decidable
  <2>2. NewJob(k, rows[k].value, rows[k].status) \in Jobs
    BY <2>1 DEF NewJob, Jobs, Rows
  <2>3. PICK place \in {"approve", "reject"} : at' = [at EXCEPT ![p] = place]
    BY <1>14 DEF OpenDecision
  <2> QED
    BY <1>14, <1>a, <2>1, <2>2, <2>3, Working, QuietTyped, Counters DEF OpenDecision, Rolling
<1>15. ASSUME NEW p \in Admins, NEW k \in Keys, OpenRollback(p, k) PROVE TypeInv'
  <2>1. p \in Callers /\ rows[k] \in Rows
    BY <1>15, RowIsRow, StatesKnown, Counters DEF Callers, OpenRollback
  <2>2. NewJob(k, rows[k].value, "succeeded") \in Jobs
        /\ NewJob(k, rows[k].value, "succeeded").key = k
    BY <2>1, StatesKnown DEF NewJob, Jobs, Rows
  <2>3. OnlyMoves(p, "compare") /\ job'[p].key = k
    BY <1>15, <1>a, <2>1, <2>2, Working DEF OpenRollback
  <2>4. rows[job'[p].key].status \in Done
    BY <1>15, <2>3 DEF OpenRollback, Done
  <2> QED
    BY <1>15, <2>1, <2>3, <2>4, QuietTyped, Counters DEF OpenRollback
<1>16. ASSUME NEW p \in Callers, Approve(p) PROVE TypeInv'
  <2>1. CASE RowOf(p).status = job[p].expect /\ CanTransition(RowOf(p).status, "approved")
    <3> DEFINE r == [RowOf(p) EXCEPT !.status = "approved", !.approved = TRUE]
    <3>1. r \in Rows /\ r.status \notin Done /\ RowOf(p).status \notin Done
      BY <1>12, <1>16, <2>1, Zenon DEF Rows, Approve
    <3> QED
      BY <1>16, <1>a, <2>1, <3>1, Moved, RowTyped, Counters DEF Approve
  <2>2. CASE ~(RowOf(p).status = job[p].expect /\ CanTransition(RowOf(p).status, "approved"))
    BY <1>16, <1>a, <2>2, Left, QuietTyped, Counters DEF Approve, Rolling
  <2> QED
    BY <2>1, <2>2
<1>17. ASSUME NEW p \in Callers, Start(p) PROVE TypeInv'
  BY <1>17, <1>a, Moves, Left, QuietTyped, Counters DEF Start, Rolling
<1>18. ASSUME NEW p \in Callers, Reject(p) PROVE TypeInv'
  <2>1. OnlyMoves(p, "idle") /\ at[p] # "idle"
    BY <1>18, <1>a, Left DEF Reject
  <2>2. CASE RowOf(p).status = job[p].expect /\ CanTransition(RowOf(p).status, "cancelled")
    <3> DEFINE r == [RowOf(p) EXCEPT !.status = "cancelled"]
    <3>1. r \in Rows /\ r.status \notin Done /\ RowOf(p).status \notin Done
      BY <1>12, <2>1, <2>2, Zenon DEF Rows
    <3> QED
      BY <1>18, <2>1, <2>2, <3>1, RowTyped, Counters DEF Reject
  <2>3. CASE ~(RowOf(p).status = job[p].expect /\ CanTransition(RowOf(p).status, "cancelled"))
    BY <1>18, <2>1, <2>3, QuietTyped, Counters DEF Reject, Rolling
  <2> QED
    BY <2>2, <2>3
<1>19. ASSUME NEW p \in Callers, Compare(p) PROVE TypeInv'
  <2>1. job[p] \in Jobs /\ product \in Products /\ rows[job[p].key].status \in Done
    BY <1>19, <1>a, JobOf, Counters DEF Compare, TypeInv, JobsOK, Rolling
  <2>2. CASE product.value = RowOf(p).after.value
    <3> DEFINE j == [job[p] EXCEPT !.before = product]
    <3>1. j \in Jobs /\ j.before \in Products /\ j.key = job[p].key
          /\ job' = [job EXCEPT ![p] = j]
      BY <1>19, <1>a, <2>1, <2>2 DEF Jobs, AutomationTypeOK, Compare
    <3> QED
      BY <1>19, <1>a, <2>1, <2>2, <3>1, Working, QuietTyped, Counters DEF Compare
  <2>3. CASE product.value # RowOf(p).after.value
    BY <1>19, <1>a, <2>3, Left, QuietTyped, Counters DEF Compare, Rolling
  <2> QED
    BY <2>2, <2>3
<1>20. ASSUME NEW p \in Callers, Restore(p) PROVE TypeInv'
  <2>1. at[p] # "idle" /\ rows[job[p].key].status \in Done
    BY <1>20 DEF Restore, TypeInv, JobsOK, Rolling
  <2>2. CASE product.version = job[p].before.version
    BY <1>20, <1>a, <2>1, <2>2, RestoreTyped, Moved, QuietTyped, Counters DEF Restore
  <2>3. CASE product.version # job[p].before.version
    BY <1>20, <1>a, <2>3, Left, QuietTyped, Counters DEF Restore, Rolling
  <2> QED
    BY <2>2, <2>3
<1>21. ASSUME NEW p \in Callers, RestoreUnsure(p) PROVE TypeInv'
  BY <1>21, <1>a, RestoreTyped, Left, QuietTyped, Counters DEF RestoreUnsure, Rolling
<1>22. ASSUME NEW p \in Callers, MarkRolledBack(p) PROVE TypeInv'
  <2>1. OnlyMoves(p, "idle") /\ at[p] # "idle" /\ RowOf(p) \in Rows \cup {NoRow}
    BY <1>22, <1>a, Left, JobOf DEF MarkRolledBack
  <2>2. CASE RowOf(p).status = "succeeded"
    <3> DEFINE r == [RowOf(p) EXCEPT !.status = "rolled_back"]
    <3>1. RowOf(p) \in Rows /\ RowOf(p).before \in Products /\ RowOf(p).after \in Products
      BY <1>a, <2>1, <2>2, RowIsRow, StatesKnown, JobOf DEF TypeInv, SnapshotsTyped, Done
    <3>2. r \in Rows /\ r.status \in Done /\ r.before \in Products /\ r.after \in Products
      BY <3>1, StatesKnown DEF Rows, Done
    <3> QED
      BY <1>22, <2>1, <2>2, <3>2, RowTyped, Counters DEF MarkRolledBack
  <2>3. CASE RowOf(p).status # "succeeded"
    BY <1>22, <2>1, <2>3, QuietTyped, Counters DEF MarkRolledBack, Rolling
  <2> QED
    BY <2>2, <2>3
<1>23. ASSUME NEW v \in Values, Edit(v) PROVE TypeInv'
  <2>1. product' \in Products /\ edits' \in 0..MaxEdits
    BY <1>23, WrittenTyped, Counters, AutomationAssumption DEF Edit
  <2> QED
    BY <1>23, <2>1 DEF TypeInv, AutomationTypeOK, JobsOK, SnapshotsTyped, Edit
<1>24. ASSUME NEW p \in Callers, Crash(p) PROVE TypeInv'
  BY <1>24, <1>a, Left, QuietTyped, Counters DEF Crash, Rolling
<1>25. CASE UNCHANGED autoVars
  BY <1>25 DEF autoVars, TypeInv, AutomationTypeOK, JobsOK, SnapshotsTyped
<1> QED
  BY <1>1, <1>2, <1>3, <1>4, <1>5, <1>6, <1>7, <1>8, <1>10, <1>11, <1>13, <1>14, <1>15,
     <1>16, <1>17, <1>18, <1>19, <1>20, <1>21, <1>22, <1>23, <1>24, <1>25,
     AutomationAssumption
  DEF AutomationNext, RequestStep, AdminStep, ExecutorStep, FailureStep, EditProduct,
      ArchiveExpired, Callers

\* The types, with what the steps need of them.
THEOREM AutomationTypeCorrect == AutomationSpec => []AutomationTypeOK
<1>1. AutomationSpec => []TypeInv
  BY TypeInit, TypeStep, PTL DEF AutomationSpec
<1>2. TypeInv => AutomationTypeOK
  BY DEF TypeInv
<1> QED
  BY <1>1, <1>2, PTL
-----------------------------------------------------------------------------
(* Ownership: one caller works on a key, and it has not written yet *)

Executing == {"read", "write", "succeed", "fail"}

\* A caller in an executor, or after it, has the row it inserted.
WorkerHasRow ==
    \A p \in Callers : at[p] \in Executing =>
        LET row == rows[job[p].key]
        IN  /\ row.decision = "allow" /\ row.value = job[p].value
            /\ row.status \in {"running", "succeeded", "rolled_back"}
            /\ at[p] # "fail" => row.status = "running"
            /\ at[p] \in {"read", "write"} => writes[job[p].key] = 0

OneWorker ==
    \A p, q \in Callers :
        at[p] \in Executing /\ at[q] \in Executing /\ job[p].key = job[q].key => p = q

WritesAllowed == \A k \in Keys : writes[k] > 0 => rows[k].decision = "allow"

OwnInv == WorkerHasRow /\ OneWorker /\ WritesAllowed /\ KeyExecutesOnce

LEMMA OwnInit == AutomationInit => OwnInv
BY DEF AutomationInit, OwnInv, WorkerHasRow, OneWorker, WritesAllowed, KeyExecutesOnce,
       Executing

\* p, and nobody else, has moved, with the key and the value it had if it works.
\* (No fact about its place is asked when it does not.)
Steps(p, place) ==
    /\ at' = [at EXCEPT ![p] = place]
    /\ \A q \in Callers : q # p => job'[q] = job[q]
    /\ place \in Executing => job'[p].key = job[p].key /\ job'[p].value = job[p].value

LEMMA StepsOf ==
    ASSUME TypeInv, NEW p \in Callers
    PROVE  /\ Leave(p) => Steps(p, "idle")
           /\ \A place \in Places : Goto(p, place) => Steps(p, place)
           /\ ReadProduct(p) => Steps(p, "write")
           /\ WriteProduct(p) => Steps(p, "succeed")
<1>1. at[p] # "idle" => job[p] \in Jobs
  BY JobOf DEF TypeInv
<1>2. job \in [Callers -> Jobs \cup {NoJob}] /\ at \in [Callers -> Places]
  BY DEF TypeInv, AutomationTypeOK
<1>3. Leave(p) => Steps(p, "idle")
  BY <1>2 DEF Leave, Steps, Executing
<1>4. \A place \in Places : Goto(p, place) => Steps(p, place)
  BY DEF Goto, Steps
<1>5. ReadProduct(p) => Steps(p, "write")
  BY <1>1, <1>2 DEF ReadProduct, Steps, Jobs
<1>6. WriteProduct(p) => Steps(p, "succeed")
  BY <1>1, <1>2 DEF WriteProduct, Steps, Jobs
<1> QED
  BY <1>3, <1>4, <1>5, <1>6

LEMMA QuietOwn ==
    ASSUME TypeInv, OwnInv, NEW p \in Callers, NEW place, Steps(p, place),
           UNCHANGED <<rows, writes>>,
           \/ place \notin Executing
           \/ at[p] = "read" /\ place = "write"
           \/ at[p] \in Executing /\ place = "fail"
    PROVE  OwnInv'
BY DEF TypeInv, AutomationTypeOK, OwnInv, WorkerHasRow, OneWorker, WritesAllowed,
       KeyExecutesOnce, Executing, Steps

\* A row that nobody works on, or the worker that leaves its own, or a status
\* a worker in its catch may find.
LEMMA RowOwn ==
    ASSUME TypeInv, OwnInv, NEW p \in Callers, NEW place \in {"idle", "start", "fail"},
           at[p] # "idle", Steps(p, place), NEW r \in Rows, SetRow(p, r), UNCHANGED writes,
           r.decision = RowOf(p).decision, r.value = RowOf(p).value,
           \/ place # "fail" /\ RowOf(p).status \notin {"running", "succeeded", "rolled_back"}
           \/ place # "fail" /\ r.status \in {"succeeded", "rolled_back"} /\ RowOf(p).status = "succeeded"
           \/ at[p] \in Executing /\ place = "idle"
           \/ at[p] \in Executing /\ place = "fail" /\ r.status = "succeeded"
    PROVE  OwnInv'
<1>1. AutomationTypeOK /\ job[p].key \in Keys /\ RowOf(p) = rows[job[p].key]
  BY JobOf DEF TypeInv
<1>2. /\ rows'[job[p].key] = r
      /\ \A k \in Keys : k # job[p].key => rows'[k] = rows[k]
  BY <1>1, RowSet
<1>3. \A q \in Callers : at[q] \in Executing => job[q].key \in Keys
  BY JobOf DEF TypeInv, Executing
<1>4. at'[p] = place /\ \A q \in Callers : q # p => at'[q] = at[q] /\ job'[q] = job[q]
  BY DEF TypeInv, AutomationTypeOK, Steps
<1>5. OneWorker'
  BY <1>4 DEF OwnInv, OneWorker, Executing, Steps
<1>6. WritesAllowed' /\ KeyExecutesOnce'
  BY <1>1, <1>2 DEF OwnInv, WritesAllowed, KeyExecutesOnce
<1>7. WorkerHasRow'
  <2> SUFFICES ASSUME NEW q \in Callers, at'[q] \in Executing
               PROVE  LET row == rows'[job'[q].key]
                      IN  /\ row.decision = "allow" /\ row.value = job'[q].value
                          /\ row.status \in {"running", "succeeded", "rolled_back"}
                          /\ at'[q] # "fail" => row.status = "running"
                          /\ at'[q] \in {"read", "write"} => writes'[job'[q].key] = 0
    BY DEF WorkerHasRow
  <2>1. CASE q = p
    BY <1>1, <1>2, <1>3, <1>4, <2>1 DEF OwnInv, WorkerHasRow, Executing, Steps
  <2>2. CASE q # p
    BY <1>1, <1>2, <1>3, <1>4, <2>2 DEF OwnInv, WorkerHasRow, OneWorker, Executing
  <2> QED
    BY <2>1, <2>2
<1> QED
  BY <1>5, <1>6, <1>7 DEF OwnInv

\* The insert: a key without a row has no worker and no write.
LEMMA InsertOwn ==
    ASSUME TypeInv, OwnInv, NEW p \in Callers, Insert(p)
    PROVE  OwnInv'
<1>1. /\ AutomationTypeOK /\ job[p] \in Jobs /\ job[p].key \in Keys /\ job[p].mode \in Modes
      /\ RowOf(p) = rows[job[p].key] /\ at[p] = "insert"
  BY JobOf DEF TypeInv, JobsOK, Insert
<1>2. CASE RowOf(p) # NoRow
  BY <1>2, StepsOf, QuietOwn DEF Insert, Executing
<1>3. CASE RowOf(p) = NoRow
  <2> DEFINE r == FirstRow(job[p])
  <2>1. r.decision = job[p].mode /\ r.value = job[p].value /\ r.status = FirstStatus[job[p].mode]
    BY DEF FirstRow, NoRow
  <2>2. rows' = [rows EXCEPT ![job[p].key] = r] /\ rows \in [Keys -> Rows \cup {NoRow}]
        /\ writes' = writes /\ writes \in [Keys -> Nat]
    BY <1>1, <1>3, Counters DEF Insert, SetRow
  <2>3. \A q \in Callers : at[q] \in Executing => job[q].key \in Keys /\ job[q].key # job[p].key
    BY <1>1, <1>3, JobOf DEF OwnInv, WorkerHasRow, NoRow, Executing
  <2>4. writes[job[p].key] = 0
    <3>1. rows[job[p].key].decision # "allow"
      BY <1>1, <1>3 DEF NoRow
    <3>2. writes[job[p].key] \in Nat
      BY <1>1, <2>2
    <3> QED
      BY <1>1, <3>1, <3>2 DEF OwnInv, WritesAllowed
  <2>5. PICK place \in {"idle", "read"} :
          /\ Steps(p, place) /\ (place = "read" => job[p].mode = "allow" /\ job' = job)
    BY <1>1, <1>3, StepsOf DEF Insert, Goto, Places
  <2>6. at' = [at EXCEPT ![p] = place] /\ at \in [Callers -> Places]
        /\ \A q \in Callers : q # p => job'[q] = job[q]
    BY <1>1, <2>5 DEF Steps, AutomationTypeOK
  <2>7. OneWorker'
    BY <2>3, <2>5, <2>6 DEF OwnInv, OneWorker, Executing
  <2>8. WritesAllowed' /\ KeyExecutesOnce'
    BY <2>2, <2>4 DEF OwnInv, WritesAllowed, KeyExecutesOnce
  <2>9. FirstStatus["allow"] = "running"
    BY DEF FirstStatus
  <2>10. WorkerHasRow'
    BY <1>1, <2>1, <2>2, <2>3, <2>4, <2>5, <2>6, <2>9 DEF OwnInv, WorkerHasRow, Executing
  <2> QED
    BY <2>7, <2>8, <2>10 DEF OwnInv
<1> QED
  BY <1>2, <1>3

\* The write of an executor: the first for its key.
LEMMA WriteOwn ==
    ASSUME TypeInv, OwnInv, NEW p \in Callers, at[p] = "write",
           NEW place \in {"succeed", "fail"}, Steps(p, place),
           Write(p, job[p].value), UNCHANGED rows
    PROVE  OwnInv'
<1>1. job[p].key \in Keys
  BY JobOf DEF TypeInv
<1>2. /\ writes \in [Keys -> Nat] /\ writes' \in [Keys -> Nat]
      /\ writes'[job[p].key] = writes[job[p].key] + 1
      /\ \A k \in Keys : k # job[p].key => writes'[k] = writes[k]
  BY WriteTyped, Counters
<1>3. at'[p] = place /\ (\A q \in Callers : q # p => at'[q] = at[q] /\ job'[q] = job[q])
      /\ job'[p].key = job[p].key /\ job'[p].value = job[p].value
  BY DEF TypeInv, AutomationTypeOK, Steps, Executing
<1>4. \A q \in Callers : at[q] \in Executing => job[q].key \in Keys
  BY JobOf DEF TypeInv, Executing
<1>5. OneWorker'
  BY <1>3 DEF OwnInv, OneWorker, Executing
<1>6. WritesAllowed' /\ KeyExecutesOnce'
  BY <1>1, <1>2 DEF OwnInv, WritesAllowed, KeyExecutesOnce, WorkerHasRow, Executing
<1>7. WorkerHasRow'
  BY <1>2, <1>3, <1>4 DEF OwnInv, WorkerHasRow, OneWorker, Executing
<1> QED
  BY <1>5, <1>6, <1>7 DEF OwnInv

\* What the handlers make of a row they may change.
LEMMA RowChanged ==
    ASSUME TypeInv, NEW p \in Callers, at[p] # "idle", NEW s \in ActionStates,
           CanTransition(RowOf(p).status, s)
    PROVE  /\ RowOf(p) \in Rows
           /\ [RowOf(p) EXCEPT !.status = s] \in Rows
           /\ [RowOf(p) EXCEPT !.status = s, !.approved = TRUE] \in Rows
           /\ [RowOf(p) EXCEPT !.status = s].status = s
           /\ [RowOf(p) EXCEPT !.status = s].decision = RowOf(p).decision
           /\ [RowOf(p) EXCEPT !.status = s].value = RowOf(p).value
           /\ [RowOf(p) EXCEPT !.status = s, !.approved = TRUE].status = s
           /\ [RowOf(p) EXCEPT !.status = s, !.approved = TRUE].decision = RowOf(p).decision
           /\ [RowOf(p) EXCEPT !.status = s, !.approved = TRUE].value = RowOf(p).value
<1>1. RowOf(p) \in Rows
  BY JobOf, RowIsRow DEF TypeInv, CanTransition
<1> QED
  BY <1>1 DEF Rows

LEMMA RowExists ==
    ASSUME TypeInv, NEW p \in Callers, at[p] # "idle", RowOf(p).status \in ActionStates
    PROVE  RowOf(p) \in Rows
BY JobOf, RowIsRow DEF TypeInv

\* The row of an action that succeeds.
LEMMA RowSucceeds ==
    ASSUME TypeInv, NEW p \in Callers, at[p] = "succeed",
           CanTransition(RowOf(p).status, "succeeded")
    PROVE  /\ Succeeded(p) \in Rows /\ Succeeded(p).status = "succeeded"
           /\ Succeeded(p).decision = RowOf(p).decision
           /\ Succeeded(p).value = RowOf(p).value
           /\ Succeeded(p).before = job[p].before /\ Succeeded(p).after = job[p].after
<1>1. RowOf(p) \in Rows
  BY JobOf, RowIsRow DEF TypeInv, CanTransition
<1>2. job[p].before \in Products /\ job[p].after \in Products
  BY DEF TypeInv, JobsOK
<1> QED
  BY <1>1, <1>2, StatesKnown DEF Succeeded, Rows

LEMMA OwnStep == TypeInv /\ OwnInv /\ [AutomationNext]_autoVars => OwnInv'
<1> SUFFICES ASSUME TypeInv, OwnInv, [AutomationNext]_autoVars PROVE OwnInv'
  OBVIOUS
<1> USE StepsOf DEF Executing, Places
<1>1. ASSUME NEW p \in Callers, NEW k \in Keys, NEW v \in Targets, Receive(p, k, v)
      PROVE  OwnInv'
  <2>1. Steps(p, "policy")
    BY <1>1 DEF Receive, Steps, TypeInv, AutomationTypeOK
  <2> QED
    BY <1>1, <2>1, QuietOwn DEF Receive
<1>2. ASSUME NEW p \in Callers, Decide(p) PROVE OwnInv'
  <2>1. Steps(p, "insert")
    BY <1>2 DEF Decide, Steps, TypeInv, AutomationTypeOK
  <2> QED
    BY <1>2, <2>1, QuietOwn DEF Decide
<1>3. ASSUME NEW p \in Callers, ReadProduct(p) PROVE OwnInv'
  BY <1>3, QuietOwn DEF ReadProduct
<1>4. ASSUME NEW p \in Callers, ReadFails(p) PROVE OwnInv'
  BY <1>4, QuietOwn DEF ReadFails
<1>5. ASSUME NEW p \in Callers, WriteProduct(p) PROVE OwnInv'
  BY <1>5, WriteOwn DEF WriteProduct
<1>6. ASSUME NEW p \in Callers, WriteConflict(p) PROVE OwnInv'
  BY <1>6, QuietOwn DEF WriteConflict
<1>7. ASSUME NEW p \in Callers, WriteUnsure(p) PROVE OwnInv'
  BY <1>7, WriteOwn, QuietOwn DEF WriteUnsure
<1>8. ASSUME NEW p \in Callers, Succeed(p) PROVE OwnInv'
  BY <1>8, RowSucceeds, RowOwn DEF Succeed
<1>9. ASSUME NEW p \in Callers, SucceedUnsure(p) PROVE OwnInv'
  BY <1>9, RowSucceeds, RowOwn, QuietOwn DEF SucceedUnsure
<1>10. ASSUME NEW p \in Callers, Fail(p) PROVE OwnInv'
  <2>1. Steps(p, "idle") /\ at[p] = "fail" /\ writes' = writes
    BY <1>10, StepsOf DEF Fail
  <2>2. CASE CanTransition(RowOf(p).status, "failed")
    <3> DEFINE r == [RowOf(p) EXCEPT !.status = "failed"]
    <3>1. RowOf(p) \in Rows /\ "failed" \in ActionStates
      BY <2>1, <2>2, RowExists, StatesKnown DEF CanTransition
    <3>2. r \in Rows /\ r.decision = RowOf(p).decision /\ r.value = RowOf(p).value
      BY <3>1 DEF Rows
    <3>3. SetRow(p, r)
      BY <1>10, <2>2 DEF Fail
    <3> QED
      BY <2>1, <3>2, <3>3, RowOwn DEF Executing
  <2>3. CASE ~CanTransition(RowOf(p).status, "failed")
    BY <1>10, <2>1, <2>3, QuietOwn DEF Fail, Executing
  <2> QED
    BY <2>2, <2>3
<1>11. ASSUME NEW p \in Callers, NEW k \in Keys, OpenDecision(p, k) PROVE OwnInv'
  <2>1. PICK place \in {"approve", "reject"} : Steps(p, place)
    BY <1>11 DEF OpenDecision, Steps, TypeInv, AutomationTypeOK
  <2> QED
    BY <1>11, <2>1, QuietOwn DEF OpenDecision
<1>12. ASSUME NEW p \in Callers, NEW k \in Keys, OpenRollback(p, k) PROVE OwnInv'
  <2>1. Steps(p, "compare")
    BY <1>12 DEF OpenRollback, Steps, TypeInv, AutomationTypeOK
  <2> QED
    BY <1>12, <2>1, QuietOwn DEF OpenRollback
<1>13. ASSUME NEW p \in Callers, Approve(p) PROVE OwnInv'
  <2>1. CASE RowOf(p).status = job[p].expect /\ CanTransition(RowOf(p).status, "approved")
    <3> DEFINE r == [RowOf(p) EXCEPT !.status = "approved", !.approved = TRUE]
    <3>a. RowOf(p) \in Rows /\ "approved" \in ActionStates
      BY <1>13, <2>1, RowExists, StatesKnown DEF Approve, CanTransition
    <3>1. r \in Rows /\ r.decision = RowOf(p).decision /\ r.value = RowOf(p).value
      BY <3>a DEF Rows
    <3>2. SetRow(p, r) /\ Steps(p, "start") /\ at[p] # "idle" /\ writes' = writes
      BY <1>13, <2>1 DEF Approve
    <3>3. RowOf(p).status \notin {"running", "succeeded", "rolled_back"}
      BY <2>1, Moves
    <3> QED
      BY <3>1, <3>2, <3>3, RowOwn
  <2>2. CASE ~(RowOf(p).status = job[p].expect /\ CanTransition(RowOf(p).status, "approved"))
    BY <1>13, <2>2, QuietOwn DEF Approve
  <2> QED
    BY <2>1, <2>2
<1>14. ASSUME NEW p \in Callers, Start(p) PROVE OwnInv'
  BY <1>14, Moves, QuietOwn DEF Start
<1>15. ASSUME NEW p \in Callers, Reject(p) PROVE OwnInv'
  <2>1. CASE RowOf(p).status = job[p].expect /\ CanTransition(RowOf(p).status, "cancelled")
    <3> DEFINE r == [RowOf(p) EXCEPT !.status = "cancelled"]
    <3>a. RowOf(p) \in Rows /\ "cancelled" \in ActionStates
      BY <1>15, <2>1, RowExists, StatesKnown DEF Reject, CanTransition
    <3>1. r \in Rows /\ r.decision = RowOf(p).decision /\ r.value = RowOf(p).value
      BY <3>a DEF Rows
    <3>2. SetRow(p, r) /\ Steps(p, "idle") /\ at[p] # "idle" /\ writes' = writes
      BY <1>15, <2>1 DEF Reject
    <3>3. RowOf(p).status \notin {"running", "succeeded", "rolled_back"}
      BY <2>1, Moves
    <3> QED
      BY <3>1, <3>2, <3>3, RowOwn
  <2>2. CASE ~(RowOf(p).status = job[p].expect /\ CanTransition(RowOf(p).status, "cancelled"))
    BY <1>15, <2>2, QuietOwn DEF Reject
  <2> QED
    BY <2>1, <2>2
<1>16. ASSUME NEW p \in Callers, Compare(p) PROVE OwnInv'
  <2>1. Steps(p, "restore") \/ Steps(p, "idle")
    BY <1>16 DEF Compare, Steps, TypeInv, AutomationTypeOK
  <2> QED
    BY <1>16, <2>1, QuietOwn DEF Compare
<1>17. ASSUME NEW p \in Callers, Restore(p) PROVE OwnInv'
  BY <1>17, QuietOwn DEF Restore
<1>18. ASSUME NEW p \in Callers, RestoreUnsure(p) PROVE OwnInv'
  BY <1>18, QuietOwn DEF RestoreUnsure
<1>19. ASSUME NEW p \in Callers, MarkRolledBack(p) PROVE OwnInv'
  <2>1. CASE RowOf(p).status = "succeeded"
    <3> DEFINE r == [RowOf(p) EXCEPT !.status = "rolled_back"]
    <3>0. CanTransition(RowOf(p).status, "rolled_back") /\ at[p] # "idle"
          /\ "rolled_back" \in ActionStates
      BY <1>19, <2>1, Moves, StatesKnown DEF MarkRolledBack
    <3>1. r \in Rows /\ r.decision = RowOf(p).decision /\ r.value = RowOf(p).value
          /\ r.status = "rolled_back"
      BY <3>0, RowChanged, Zenon
    <3>2. SetRow(p, r) /\ Steps(p, "idle") /\ at[p] # "idle" /\ writes' = writes
      BY <1>19, <2>1 DEF MarkRolledBack
    <3> QED
      BY <2>1, <3>1, <3>2, RowOwn
  <2>2. CASE ~(RowOf(p).status = "succeeded")
    BY <1>19, <2>2, QuietOwn DEF MarkRolledBack
  <2> QED
    BY <2>1, <2>2
<1>20. ASSUME NEW p \in Callers, Crash(p) PROVE OwnInv'
  BY <1>20, QuietOwn DEF Crash
<1>21. ASSUME NEW v \in Values, Edit(v) PROVE OwnInv'
  BY <1>21 DEF Edit, OwnInv, WorkerHasRow, OneWorker, WritesAllowed, KeyExecutesOnce
<1>22. CASE UNCHANGED autoVars
  BY <1>22 DEF autoVars, OwnInv, WorkerHasRow, OneWorker, WritesAllowed, KeyExecutesOnce
<1> QED
  BY <1>1, <1>2, <1>3, <1>4, <1>5, <1>6, <1>7, <1>8, <1>9, <1>10, <1>11, <1>12, <1>13,
     <1>14, <1>15, <1>16, <1>17, <1>18, <1>19, <1>20, <1>21, <1>22, InsertOwn,
     AutomationAssumption
  DEF AutomationNext, RequestStep, AdminStep, ExecutorStep, FailureStep, EditProduct,
      ArchiveExpired, Callers

LEMMA Invariants == AutomationSpec => [](TypeInv /\ OwnInv)
BY TypeInit, TypeStep, OwnInit, OwnStep, PTL DEF AutomationSpec

\* The product is changed at most once for a key.
THEOREM KeysExecuteOnce == AutomationSpec => []KeyExecutesOnce
<1>1. OwnInv => KeyExecutesOnce
  BY DEF OwnInv
<1> QED
  BY <1>1, Invariants, PTL

\* And only for a request the policy allowed.
THEOREM GateAlwaysHolds == AutomationSpec => []GateHolds
<1>1. OwnInv => GateHolds
  BY DEF OwnInv, WritesAllowed, GateHolds
<1> QED
  BY <1>1, Invariants, PTL

\* What no run of the instance shows by itself: an approval never comes to execute. What
\* changes the product was allowed by the policy at once (action-state.ts:32).
THEOREM ApprovalsNeverExecute ==
    AutomationSpec => [](\A k \in Keys : rows[k].decision # "allow" => writes[k] = 0)
<1>1. AutomationTypeOK /\ OwnInv
        => \A k \in Keys : rows[k].decision # "allow" => writes[k] = 0
  BY DEF OwnInv, WritesAllowed, AutomationTypeOK
<1>2. AutomationSpec => []AutomationTypeOK
  BY AutomationTypeCorrect
<1> QED
  BY <1>1, <1>2, Invariants, PTL
-----------------------------------------------------------------------------
(* What a step may change *)

\* p writes its row: a first one, or along the table, with the snapshots of its
\* job when it succeeds and else those the row had.
RowStep(p, r) ==
    /\ at[p] # "idle" /\ SetRow(p, r)
    /\ \/ /\ p \in Requests /\ Insert(p)
          /\ RowOf(p) = NoRow /\ r.decision = job[p].mode
          /\ r.status \in {"running", "manual_attention", "failed"}
       \/ /\ CanTransition(RowOf(p).status, r.status)
          /\ r.status # "verifying"
          /\ r.value = RowOf(p).value /\ r.decision = RowOf(p).decision
          /\ \/ /\ at[p] = "succeed" /\ r.status = "succeeded"
                /\ r.before = job[p].before /\ r.after = job[p].after
             \/ r.status # "succeeded" /\ r.before = RowOf(p).before /\ r.after = RowOf(p).after

RowFact == rows' = rows \/ \E p \in Callers : \E r \in Rows : RowStep(p, r)

\* The status of a row changed by a handler, and the rest of it.
LEMMA StatusStep ==
    ASSUME TypeInv, NEW p \in Callers, at[p] # "idle", NEW s \in ActionStates \ {"succeeded", "verifying"},
           CanTransition(RowOf(p).status, s),
           NEW r \in {[RowOf(p) EXCEPT !.status = s],
                      [RowOf(p) EXCEPT !.status = s, !.approved = TRUE]},
           SetRow(p, r)
    PROVE  RowFact
<1>1. RowOf(p) \in Rows
  BY RowChanged, Zenon
<1>2. r \in Rows /\ r.status = s /\ r.value = RowOf(p).value /\ r.decision = RowOf(p).decision
      /\ r.before = RowOf(p).before /\ r.after = RowOf(p).after
  BY <1>1 DEF Rows
<1>3. RowStep(p, r)
  BY <1>2 DEF RowStep
<1> QED
  BY <1>2, <1>3 DEF RowFact

LEMMA SucceedStep ==
    ASSUME TypeInv, NEW p \in Callers, at[p] = "succeed",
           CanTransition(RowOf(p).status, "succeeded"), SetRow(p, Succeeded(p))
    PROVE  RowFact
<1>1. RowStep(p, Succeeded(p)) /\ Succeeded(p) \in Rows
  BY RowSucceeds DEF RowStep
<1> QED
  BY <1>1 DEF RowFact

LEMMA InsertStep ==
    ASSUME TypeInv, NEW p \in Requests, Insert(p)
    PROVE  RowFact
<1> p \in Callers
  BY DEF Callers
<1>1. CASE RowOf(p) = NoRow
  <2> DEFINE r == FirstRow(job[p])
  <2>1. job[p].value \in Targets /\ job[p].mode \in Modes
    BY JobOf DEF Insert, TypeInv, JobsOK
  <2>2. r \in Rows /\ r.status \in {"running", "manual_attention", "failed"}
        /\ r.decision = job[p].mode
    BY <2>1, FirstStatuses, StatesKnown DEF FirstRow, NoRow, Rows
  <2>3. RowStep(p, r)
    BY <1>1, <2>2 DEF Insert, RowStep
  <2> QED
    BY <2>2, <2>3 DEF RowFact
<1>2. CASE RowOf(p) # NoRow
  BY <1>2 DEF Insert, RowFact
<1> QED
  BY <1>1, <1>2

LEMMA RowsStep == TypeInv /\ [AutomationNext]_autoVars => RowFact
<1> SUFFICES ASSUME TypeInv, [AutomationNext]_autoVars PROVE RowFact
  OBVIOUS
<1>1. ASSUME NEW p \in Callers, NEW k \in Keys, NEW v \in Targets, Receive(p, k, v)
      PROVE  RowFact
  BY <1>1 DEF Receive, RowFact
<1>2. ASSUME NEW p \in Callers, NEW k \in Keys, OpenDecision(p, k) \/ OpenRollback(p, k)
      PROVE  RowFact
  BY <1>2 DEF OpenDecision, OpenRollback, RowFact
<1>3. ASSUME NEW p \in Callers,
             \/ Decide(p) \/ ReadProduct(p) \/ ReadFails(p) \/ WriteProduct(p)
             \/ WriteConflict(p) \/ WriteUnsure(p)
             \/ Compare(p) \/ Restore(p) \/ RestoreUnsure(p) \/ Crash(p)
      PROVE  RowFact
  BY <1>3 DEF Decide, ReadProduct, ReadFails, WriteProduct, WriteConflict, WriteUnsure,
              Compare, Restore, RestoreUnsure, Crash, RowFact
<1>4. ASSUME NEW p \in Callers, Succeed(p) \/ SucceedUnsure(p) PROVE RowFact
  BY <1>4, SucceedStep DEF Succeed, SucceedUnsure, RowFact
<1>5. ASSUME NEW p \in Callers, Fail(p) PROVE RowFact
  BY <1>5, StatusStep, StatesKnown, Zenon DEF Fail, RowFact
<1>6. ASSUME NEW p \in Callers, Approve(p) PROVE RowFact
  BY <1>6, StatusStep, StatesKnown, Zenon DEF Approve, RowFact
<1>7. ASSUME NEW p \in Callers, Start(p) PROVE RowFact
  BY <1>7, Moves DEF Start, RowFact
<1>8. ASSUME NEW p \in Callers, Reject(p) PROVE RowFact
  BY <1>8, StatusStep, StatesKnown, Zenon DEF Reject, RowFact
<1>9. ASSUME NEW p \in Callers, MarkRolledBack(p) PROVE RowFact
  BY <1>9, StatusStep, StatesKnown, Moves, Zenon DEF MarkRolledBack, RowFact
<1>10. ASSUME NEW v \in Values, Edit(v) PROVE RowFact
  BY <1>10 DEF Edit, RowFact
<1>11. CASE UNCHANGED autoVars
  BY <1>11 DEF autoVars, RowFact
<1> QED
  BY <1>1, <1>2, <1>3, <1>4, <1>5, <1>6, <1>7, <1>8, <1>9, <1>10, <1>11, InsertStep,
     AutomationAssumption
  DEF AutomationNext, RequestStep, AdminStep, ExecutorStep, FailureStep, EditProduct,
      ArchiveExpired, Callers

\* Nobody comes to the insert but from the policy, to the write of an executor but by
\* its read, to its end but by the write, to the restoring write but by the comparison;
\* and that is left by itself, or with the product as it is.
PlaceFact ==
    \A q \in Callers :
        /\ at'[q] = "insert" => (at[q] = "insert" /\ job'[q] = job[q]) \/ Decide(q)
        /\ at'[q] = "write" => (at[q] = "write" /\ job'[q] = job[q]) \/ ReadProduct(q)
        /\ at'[q] = "succeed" => (at[q] = "succeed" /\ job'[q] = job[q]) \/ WriteProduct(q)
        /\ at'[q] = "restore" => (at[q] = "restore" /\ job'[q] = job[q]) \/ Compare(q)
        /\ at[q] = "restore" /\ at'[q] # "restore" =>
              product' = product \/ Restore(q) \/ RestoreUnsure(q)

LEMMA PlaceFrom ==
    ASSUME TypeInv, NEW p \in Callers, NEW place, Steps(p, place),
           place = "insert" => Decide(p),
           place = "write" => ReadProduct(p),
           place = "succeed" => WriteProduct(p),
           place = "restore" => Compare(p),
           at[p] = "restore" => product' = product \/ Restore(p) \/ RestoreUnsure(p)
    PROVE  PlaceFact
<1>1. at'[p] = place /\ \A q \in Callers : q # p => at'[q] = at[q] /\ job'[q] = job[q]
  BY DEF Steps, TypeInv, AutomationTypeOK
<1> QED
  BY <1>1 DEF PlaceFact

LEMMA PlacesStep == TypeInv /\ [AutomationNext]_autoVars => PlaceFact
<1> SUFFICES ASSUME TypeInv, [AutomationNext]_autoVars PROVE PlaceFact
  OBVIOUS
<1>1. ASSUME NEW p \in Callers, NEW k \in Keys, NEW v \in Targets, Receive(p, k, v)
      PROVE  PlaceFact
  <2>1. Steps(p, "policy") /\ at[p] = "idle"
    BY <1>1 DEF Receive, Steps, Executing, TypeInv, AutomationTypeOK
  <2> QED
    BY <2>1, PlaceFrom
<1>2. ASSUME NEW p \in Callers, NEW k \in Keys, OpenDecision(p, k) \/ OpenRollback(p, k)
      PROVE  PlaceFact
  <2>1. at[p] = "idle" /\ \E place \in {"approve", "reject", "compare"} : Steps(p, place)
    BY <1>2 DEF OpenDecision, OpenRollback, Steps, Executing, TypeInv, AutomationTypeOK
  <2> QED
    BY <2>1, PlaceFrom
<1>3. ASSUME NEW p \in Callers, Decide(p) PROVE PlaceFact
  <2>1. Steps(p, "insert") /\ at[p] = "policy"
    BY <1>3 DEF Decide, Steps, Executing, TypeInv, AutomationTypeOK
  <2> QED
    BY <1>3, <2>1, PlaceFrom
<1>4. ASSUME NEW p \in Callers, ReadProduct(p) PROVE PlaceFact
  <2>1. Steps(p, "write") /\ at[p] = "read"
    BY <1>4, StepsOf DEF ReadProduct
  <2> QED
    BY <1>4, <2>1, PlaceFrom
<1>5. ASSUME NEW p \in Callers, WriteProduct(p) PROVE PlaceFact
  <2>1. Steps(p, "succeed") /\ at[p] = "write"
    BY <1>5, StepsOf DEF WriteProduct
  <2> QED
    BY <1>5, <2>1, PlaceFrom
<1>6. ASSUME NEW p \in Callers, Compare(p) PROVE PlaceFact
  <2>1. at[p] = "compare" /\ (Steps(p, "restore") \/ Steps(p, "idle"))
    BY <1>6 DEF Compare, Leave, Steps, Executing, TypeInv, AutomationTypeOK
  <2> QED
    BY <1>6, <2>1, PlaceFrom
<1>7. ASSUME NEW p \in Callers,
             \/ Leave(p) \/ \E place \in {"read", "fail", "start", "mark"} : Goto(p, place),
             at[p] = "restore" => product' = product \/ Restore(p) \/ RestoreUnsure(p)
      PROVE  PlaceFact
  <2>1. \E place \in {"idle", "read", "fail", "start", "mark"} : Steps(p, place)
    BY <1>7, StepsOf DEF Places
  <2> QED
    BY <1>7, <2>1, PlaceFrom
<1>8. ASSUME NEW p \in Callers,
             \/ Insert(p) \/ ReadFails(p) \/ WriteConflict(p) \/ WriteUnsure(p)
             \/ Succeed(p) \/ SucceedUnsure(p) \/ Fail(p)
      PROVE  PlaceFact
  BY <1>7, <1>8 DEF Insert, ReadFails, WriteConflict, WriteUnsure, Succeed, SucceedUnsure, Fail
<1>9. ASSUME NEW p \in Callers, Approve(p) \/ Start(p) \/ Reject(p) \/ MarkRolledBack(p)
      PROVE  PlaceFact
  BY <1>7, <1>9 DEF Approve, Start, Reject, MarkRolledBack
<1>10. ASSUME NEW p \in Callers, Restore(p) PROVE PlaceFact
  <2>1. Leave(p) \/ Goto(p, "mark")
    BY <1>10 DEF Restore
  <2> QED
    BY <1>7, <1>10, <2>1
<1>11. ASSUME NEW p \in Callers, RestoreUnsure(p) PROVE PlaceFact
  <2>1. Leave(p)
    BY <1>11 DEF RestoreUnsure
  <2> QED
    BY <1>7, <1>11, <2>1
<1>12. ASSUME NEW p \in Callers, Crash(p) PROVE PlaceFact
  <2>1. Leave(p) /\ product' = product
    BY <1>12 DEF Crash
  <2> QED
    BY <1>7, <2>1
<1>13. ASSUME NEW v \in Values, Edit(v) PROVE PlaceFact
  BY <1>13 DEF Edit, PlaceFact
<1>14. CASE UNCHANGED autoVars
  BY <1>14 DEF autoVars, PlaceFact
<1> QED
  BY <1>1, <1>2, <1>3, <1>4, <1>5, <1>6, <1>8, <1>9, <1>10, <1>11, <1>12, <1>13, <1>14,
     AutomationAssumption
  DEF AutomationNext, RequestStep, AdminStep, ExecutorStep, FailureStep, EditProduct,
      ArchiveExpired, Callers

\* A write makes the next version of the product.
ProductFact ==
    product' = product \/ (product' \in Products /\ product'.version = product.version + 1)

LEMMA ProductStep == TypeInv /\ [AutomationNext]_autoVars => ProductFact
<1> SUFFICES ASSUME TypeInv, [AutomationNext]_autoVars PROVE ProductFact
  OBVIOUS
<1>1. ASSUME NEW p \in Callers, WriteProduct(p) \/ WriteUnsure(p) PROVE ProductFact
  BY <1>1, WriteTyped DEF WriteProduct, WriteUnsure, ProductFact
<1>2. ASSUME NEW p \in Callers, Restore(p) \/ RestoreUnsure(p) PROVE ProductFact
  BY <1>2, RestoreTyped DEF Restore, RestoreUnsure, ProductFact
<1>3. ASSUME NEW v \in Values, Edit(v) PROVE ProductFact
  BY <1>3, Counters, WrittenTyped DEF Edit, ProductFact
<1>4. ASSUME NEW p \in Callers,
             \/ \E k \in Keys : OpenDecision(p, k) \/ OpenRollback(p, k)
             \/ \E k \in Keys, v \in Targets : Receive(p, k, v)
             \/ Decide(p) \/ Insert(p) \/ ReadProduct(p) \/ ReadFails(p)
             \/ WriteConflict(p) \/ Succeed(p) \/ SucceedUnsure(p) \/ Fail(p)
             \/ Approve(p) \/ Start(p) \/ Reject(p) \/ Compare(p) \/ MarkRolledBack(p)
             \/ Crash(p)
      PROVE  ProductFact
  BY <1>4 DEF OpenDecision, OpenRollback, Receive, Decide, Insert, ReadProduct, ReadFails,
              WriteConflict, Succeed, SucceedUnsure, Fail, Approve, Start, Reject, Compare,
              MarkRolledBack, Crash, ProductFact
<1>5. CASE UNCHANGED autoVars
  BY <1>5 DEF autoVars, ProductFact
<1> QED
  BY <1>1, <1>2, <1>3, <1>4, <1>5, AutomationAssumption
  DEF AutomationNext, RequestStep, AdminStep, ExecutorStep, FailureStep, EditProduct,
      ArchiveExpired, Callers

-----------------------------------------------------------------------------
(* What follows for the history, the snapshots and the rollback *)

\* A row moves along the table of transitions, in every step.
THEOREM HistoryIsAlwaysLegal == AutomationSpec => HistoryIsLegal
<1> DEFINE Legal(k) ==
      rows'[k].status # rows[k].status =>
        \/ rows[k] = NoRow /\ rows'[k].status \in {"running", "manual_attention", "failed"}
        \/ CanTransition(rows[k].status, rows'[k].status)
<1>1. ASSUME TypeInv, RowFact, NEW k \in Keys PROVE Legal(k)
  <2>1. CASE rows' = rows
    BY <2>1
  <2>2. ASSUME NEW p \in Callers, NEW r \in Rows, RowStep(p, r) PROVE Legal(k)
    <3>1. AutomationTypeOK /\ job[p].key \in Keys /\ RowOf(p) = rows[job[p].key]
      BY <1>1, <2>2, JobOf DEF TypeInv, RowStep
    <3>2. rows'[job[p].key] = r /\ (k # job[p].key => rows'[k] = rows[k])
      BY <2>2, <3>1, RowSet DEF RowStep
    <3> QED
      BY <2>2, <3>1, <3>2 DEF RowStep
  <2> QED
    BY <1>1, <2>1, <2>2 DEF RowFact
<1>2. TypeInv /\ [AutomationNext]_autoVars => [\A k \in Keys : Legal(k)]_autoVars
  BY <1>1, RowsStep
<1> QED
  BY <1>2, TypeInit, TypeStep, PTL DEF AutomationSpec, HistoryIsLegal

\* What a caller carries to its row is the pair of snapshots its write made.
JobAdjacent ==
    \A p \in Callers : at[p] = "succeed" =>
        /\ job[p].after.version = job[p].before.version + 1
        /\ job[p].after.value = job[p].value

\* No handler writes "verifying", from which the table also leads to "rolled_back".
NeverVerifying == \A k \in Keys : rows[k].status # "verifying"

AdjacentInv == JobAdjacent /\ NeverVerifying /\ SnapshotsAdjacent

LEMMA AdjacentInit == AutomationInit => AdjacentInv
BY DEF AutomationInit, AdjacentInv, JobAdjacent, NeverVerifying, SnapshotsAdjacent, NoRow

LEMMA AdjacentStep ==
    TypeInv /\ OwnInv /\ AdjacentInv /\ [AutomationNext]_autoVars => AdjacentInv'
<1> SUFFICES ASSUME TypeInv, OwnInv, AdjacentInv, [AutomationNext]_autoVars
             PROVE  AdjacentInv'
  OBVIOUS
<1>1. RowFact /\ PlaceFact
  BY RowsStep, PlacesStep
<1>2. JobAdjacent'
  <2> SUFFICES ASSUME NEW p \in Callers, at'[p] = "succeed"
               PROVE  /\ job'[p].after.version = job'[p].before.version + 1
                      /\ job'[p].after.value = job'[p].value
    BY DEF JobAdjacent
  <2>1. CASE at[p] = "succeed" /\ job'[p] = job[p]
    BY <2>1 DEF AdjacentInv, JobAdjacent
  <2>2. CASE WriteProduct(p)
    <3>1. at[p] # "idle" /\ Write(p, job[p].value) /\ product.version = job[p].before.version
      BY <2>2 DEF WriteProduct
    <3>2. product'.version = product.version + 1 /\ product'.value = job[p].value
      BY <3>1, WriteTyped
    <3>3. job[p] \in Jobs /\ job' = [job EXCEPT ![p].after = product']
          /\ job \in [Callers -> Jobs \cup {NoJob}]
      BY <2>2, <3>1, JobOf DEF WriteProduct, TypeInv, AutomationTypeOK
    <3>4. job'[p].after = product' /\ job'[p].before = job[p].before
          /\ job'[p].value = job[p].value
      BY <3>3 DEF Jobs
    <3> QED
      BY <3>1, <3>2, <3>4
  <2> QED
    BY <1>1, <2>1, <2>2 DEF PlaceFact
<1>3. NeverVerifying' /\ SnapshotsAdjacent'
  <2>1. CASE rows' = rows
    BY <2>1 DEF AdjacentInv, NeverVerifying, SnapshotsAdjacent
  <2>2. ASSUME NEW p \in Callers, NEW r \in Rows, RowStep(p, r)
        PROVE  NeverVerifying' /\ SnapshotsAdjacent'
    <3>1. AutomationTypeOK /\ job[p].key \in Keys /\ RowOf(p) = rows[job[p].key]
      BY <2>2, JobOf DEF TypeInv, RowStep
    <3>2. rows'[job[p].key] = r /\ \A k \in Keys : k # job[p].key => rows'[k] = rows[k]
      BY <2>2, <3>1, RowSet DEF RowStep
    <3>3. r.status \in {"succeeded", "rolled_back"} =>
            r.after.version = r.before.version + 1 /\ r.after.value = r.value
      <4>1. CASE RowOf(p) = NoRow /\ r.status \in {"running", "manual_attention", "failed"}
        BY <4>1
      <4>2. CASE at[p] = "succeed" /\ r.value = RowOf(p).value
                 /\ r.before = job[p].before /\ r.after = job[p].after
        BY <3>1, <4>2 DEF AdjacentInv, JobAdjacent, OwnInv, WorkerHasRow, Executing
      <4>3. CASE /\ CanTransition(RowOf(p).status, r.status) /\ r.status # "succeeded"
                 /\ r.value = RowOf(p).value
                 /\ r.before = RowOf(p).before /\ r.after = RowOf(p).after
        <5>1. r.status = "rolled_back" => RowOf(p).status \in {"succeeded", "verifying"}
          BY <4>3 DEF CanTransition, Transitions, ActionStates
        <5> QED
          BY <3>1, <4>3, <5>1 DEF AdjacentInv, NeverVerifying, SnapshotsAdjacent
      <4> QED
        BY <2>2, <4>1, <4>2, <4>3 DEF RowStep
    <3>4. r.status # "verifying"
      BY <2>2 DEF RowStep
    <3> QED
      BY <3>1, <3>2, <3>3, <3>4 DEF AdjacentInv, NeverVerifying, SnapshotsAdjacent
  <2> QED
    BY <1>1, <2>1, <2>2 DEF RowFact
<1> QED
  BY <1>2, <1>3 DEF AdjacentInv

LEMMA AdjacentAlways == AutomationSpec => [](TypeInv /\ OwnInv /\ AdjacentInv)
BY TypeInit, TypeStep, OwnInit, OwnStep, AdjacentInit, AdjacentStep, PTL DEF AutomationSpec

\* The snapshots of an action are consecutive versions of the product.
THEOREM SnapshotsAreAdjacent == AutomationSpec => []SnapshotsAdjacent
<1>1. AdjacentInv => SnapshotsAdjacent
  BY DEF AdjacentInv
<1> QED
  BY <1>1, AdjacentAlways, PTL

\* The snapshot a finished action keeps is never written again.
LEMMA AfterStays ==
    ASSUME TypeInv, RowFact, NEW k \in Keys, rows[k].status \in Done
    PROVE  rows'[k].after = rows[k].after /\ rows'[k].before = rows[k].before
<1>1. CASE rows' = rows
  BY <1>1
<1>2. ASSUME NEW p \in Callers, NEW r \in Rows, RowStep(p, r)
      PROVE  rows'[k].after = rows[k].after /\ rows'[k].before = rows[k].before
  <2>1. AutomationTypeOK /\ job[p].key \in Keys /\ RowOf(p) = rows[job[p].key]
    BY <1>2, JobOf DEF TypeInv, RowStep
  <2>2. rows'[job[p].key] = r /\ (k # job[p].key => rows'[k] = rows[k])
    BY <1>2, <2>1, RowSet DEF RowStep
  <2>3. CASE k # job[p].key
    BY <2>2, <2>3
  <2>4. CASE k = job[p].key
    <3>1. RowOf(p).status \in Done
      BY <2>1, <2>4
    <3>2. RowOf(p) # NoRow /\ ~CanTransition(RowOf(p).status, "succeeded")
      BY <3>1, Moves DEF NoRow, Done
    <3> QED
      BY <1>2, <2>1, <2>2, <2>4, <3>2 DEF RowStep
  <2> QED
    BY <2>3, <2>4
<1> QED
  BY <1>1, <1>2 DEF RowFact

\* A rollback past its comparison: the product it read has the value its action
\* wrote, and is the product still if the version is the same.
RestoreInv ==
    \A p \in Callers : at[p] = "restore" =>
        /\ job[p].before.value = rows[job[p].key].after.value
        /\ job[p].before.version <= product.version
        /\ job[p].before.version = product.version => job[p].before = product

LEMMA RestoreStep == TypeInv /\ RestoreInv /\ [AutomationNext]_autoVars => RestoreInv'
<1> SUFFICES ASSUME TypeInv, RestoreInv, [AutomationNext]_autoVars,
                    NEW p \in Callers, at'[p] = "restore"
             PROVE  /\ job'[p].before.value = rows'[job'[p].key].after.value
                    /\ job'[p].before.version <= product'.version
                    /\ job'[p].before.version = product'.version => job'[p].before = product'
  BY DEF RestoreInv
<1>1. RowFact /\ PlaceFact /\ ProductFact /\ product \in Products
  BY RowsStep, PlacesStep, ProductStep, Counters
<1>2. CASE at[p] = "restore" /\ job'[p] = job[p]
  <2>1. job[p].key \in Keys /\ job[p].before \in Products
        /\ rows[job[p].key].status \in Done
    BY <1>2, JobOf DEF TypeInv, JobsOK, Rolling
  <2>2. rows'[job[p].key].after = rows[job[p].key].after
    BY <1>1, <2>1, AfterStays
  <2>3. job[p].before.version \in Nat /\ product.version \in Nat
    BY <1>1, <2>1 DEF Products
  <2>4. product' = product \/ product'.version = product.version + 1
    BY <1>1 DEF ProductFact
  <2> QED
    BY <1>2, <2>2, <2>3, <2>4 DEF RestoreInv
<1>3. CASE Compare(p)
  <2>1. job[p] \in Jobs /\ RowOf(p) = rows[job[p].key] /\ at[p] = "compare"
        /\ job \in [Callers -> Jobs \cup {NoJob}] /\ at \in [Callers -> Places]
    BY <1>3, JobOf DEF Compare, TypeInv, AutomationTypeOK
  <2>2. product.value = RowOf(p).after.value /\ job' = [job EXCEPT ![p].before = product]
    BY <1>3, <2>1 DEF Compare, Leave
  <2>3. job'[p].before = product /\ job'[p].key = job[p].key
    BY <2>1, <2>2 DEF Jobs
  <2>4. rows' = rows /\ product' = product /\ product.version <= product.version
    BY <1>1, <1>3 DEF Compare, Products
  <2> QED
    BY <2>1, <2>2, <2>3, <2>4
<1> QED
  BY <1>1, <1>2, <1>3 DEF PlaceFact

\* A rollback puts its snapshot in the place of the value its action wrote.
THEOREM RollbacksRestore == AutomationSpec => RollbackRestores
<1> DEFINE Restores(p) ==
      at[p] = "restore" /\ at'[p] # "restore" /\ product' # product =>
        /\ product.value = RowOf(p).after.value
        /\ product'.value = RowOf(p).before.value
<1>1. AutomationInit => RestoreInv
  BY DEF AutomationInit, RestoreInv
<1>2. ASSUME TypeInv, RestoreInv, [AutomationNext]_autoVars, NEW p \in Admins
      PROVE  Restores(p)
  <2> SUFFICES ASSUME at[p] = "restore", at'[p] # "restore", product' # product
               PROVE  /\ product.value = RowOf(p).after.value
                      /\ product'.value = RowOf(p).before.value
    OBVIOUS
  <2>1. p \in Callers
    BY DEF Callers
  <2>2. Restore(p) \/ RestoreUnsure(p)
    BY <1>2, <2>1, PlacesStep DEF PlaceFact
  <2>3. product.version = job[p].before.version /\ product' = Written(product, RowOf(p).before.value)
    BY <2>2 DEF Restore, RestoreUnsure
  <2>4. product'.value = RowOf(p).before.value
    BY <1>2, <2>1, <2>3, RestoreTyped
  <2>5. product = job[p].before /\ RowOf(p) = rows[job[p].key]
    BY <1>2, <2>1, <2>3, JobOf DEF RestoreInv, TypeInv
  <2> QED
    BY <1>2, <2>1, <2>4, <2>5 DEF RestoreInv
<1>3. TypeInv /\ RestoreInv /\ [AutomationNext]_autoVars
        => [\A p \in Admins : Restores(p)]_autoVars
  BY <1>2
<1> QED
  BY <1>1, <1>3, TypeInit, TypeStep, RestoreStep, PTL DEF AutomationSpec, RollbackRestores

-----------------------------------------------------------------------------
(* While nothing fails *)

\* A caller in its catch has the row it inserted, and has not written.
FailHasRow ==
    \A p \in Callers : at[p] = "fail" =>
        rows[job[p].key].status = "running" /\ writes[job[p].key] = 0

\* The action that has written goes on, or went through.
WritesGoThrough ==
    \A k \in Keys : writes[k] > 0 => rows[k].status \in {"running", "succeeded", "rolled_back"}

Owned == \A k \in Keys : rows[k].status = "running" => \E p \in Callers : WorksOn(p, k)

Calm == FailHasRow /\ WritesGoThrough /\ Owned

CalmInv == faults = 0 => Calm

LEMMA CalmInit == AutomationInit => CalmInv
BY DEF AutomationInit, CalmInv, Calm, FailHasRow, WritesGoThrough, Owned, NoRow

\* A step that leaves rows and writes alone, and in which no worker goes.
LEMMA QuietCalm ==
    ASSUME TypeInv, OwnInv, Calm, NEW p \in Callers, NEW place, Steps(p, place),
           rows' = rows, writes' = writes,
           at[p] \in Executing => place \in Executing,
           place = "fail" => at[p] = "write"
    PROVE  Calm'
<1>1. at'[p] = place /\ \A q \in Callers : q # p => at'[q] = at[q] /\ job'[q] = job[q]
  BY DEF Steps, TypeInv, AutomationTypeOK
<1>2. place \in Executing => job'[p].key = job[p].key
  BY DEF Steps
<1>3. FailHasRow'
  BY <1>1, <1>2 DEF Calm, FailHasRow, OwnInv, WorkerHasRow, Executing
<1>4. Owned'
  BY <1>1, <1>2 DEF Calm, Owned, WorksOn, Executing
<1> QED
  BY <1>3, <1>4 DEF Calm, WritesGoThrough

\* The write of an executor, whose row is running.
LEMMA WriteCalm ==
    ASSUME TypeInv, OwnInv, Calm, NEW p \in Callers, WriteProduct(p)
    PROVE  Calm'
<1>1. /\ Steps(p, "succeed") /\ at[p] = "write" /\ rows' = rows
      /\ Write(p, job[p].value) /\ job[p].key \in Keys
  BY StepsOf, JobOf DEF WriteProduct, TypeInv
<1>2. /\ rows[job[p].key].status = "running"
      /\ \A k \in Keys : k # job[p].key => writes'[k] = writes[k]
  BY <1>1, WriteTyped DEF OwnInv, WorkerHasRow, Executing
<1>3. at'[p] = "succeed" /\ \A q \in Callers : q # p => at'[q] = at[q] /\ job'[q] = job[q]
  BY <1>1 DEF Steps, TypeInv, AutomationTypeOK
<1>4. job'[p].key = job[p].key
  BY <1>1 DEF Steps, Executing
<1>5. \A q \in Callers : q # p /\ at[q] = "fail" => job[q].key \in Keys /\ job[q].key # job[p].key
  BY <1>1, JobOf DEF OwnInv, OneWorker, Executing, TypeInv
<1>6. FailHasRow'
  BY <1>1, <1>2, <1>3, <1>5 DEF Calm, FailHasRow
<1>7. WritesGoThrough'
  BY <1>1, <1>2 DEF Calm, WritesGoThrough
<1>8. Owned'
  BY <1>1, <1>3, <1>4 DEF Calm, Owned, WorksOn
<1> QED
  BY <1>6, <1>7, <1>8 DEF Calm

\* A step that writes a row: one nobody works on, or the worker its own.
LEMMA RowCalm ==
    ASSUME TypeInv, OwnInv, Calm, NEW p \in Callers, NEW place \in {"idle", "read", "start"},
           at[p] # "idle", Steps(p, place), NEW r \in Rows, SetRow(p, r), writes' = writes,
           r.status = "running" => place = "read",
           r.status \notin {"running", "succeeded", "rolled_back"} => writes[job[p].key] = 0,
           RowOf(p).status = "running" => at[p] \in Executing
    PROVE  Calm'
<1>1. AutomationTypeOK /\ job[p].key \in Keys /\ RowOf(p) = rows[job[p].key]
  BY JobOf DEF TypeInv
<1>2. rows'[job[p].key] = r /\ \A k \in Keys : k # job[p].key => rows'[k] = rows[k]
  BY <1>1, RowSet
<1>3. at'[p] = place /\ \A q \in Callers : q # p => at'[q] = at[q] /\ job'[q] = job[q]
  BY DEF Steps, TypeInv, AutomationTypeOK
<1>4. place = "read" => job'[p].key = job[p].key
  BY DEF Steps, Executing
<1>5. \A q \in Callers : q # p /\ at[q] = "fail" => job[q].key \in Keys /\ job[q].key # job[p].key
  BY <1>1, JobOf DEF OwnInv, OneWorker, Executing, TypeInv, Calm, FailHasRow
<1>6. FailHasRow'
  BY <1>2, <1>3, <1>5 DEF Calm, FailHasRow
<1>7. writes[job[p].key] \in Nat
  BY <1>1, Counters
<1>8. WritesGoThrough'
  BY <1>1, <1>2, <1>7 DEF Calm, WritesGoThrough
<1>9. Owned'
  <2> SUFFICES ASSUME NEW k \in Keys, rows'[k].status = "running"
               PROVE  \E q \in Callers : WorksOn(q, k)'
    BY DEF Owned
  <2>1. CASE k = job[p].key
    BY <1>2, <1>3, <1>4, <2>1 DEF WorksOn
  <2>2. CASE k # job[p].key
    <3>1. PICK q \in Callers : WorksOn(q, k)
      BY <1>2, <2>2 DEF Calm, Owned
    <3> QED
      BY <1>3, <2>2, <3>1 DEF WorksOn
  <2> QED
    BY <2>1, <2>2
<1> QED
  BY <1>6, <1>8, <1>9 DEF Calm

LEMMA CalmStep == TypeInv /\ OwnInv /\ CalmInv /\ [AutomationNext]_autoVars => CalmInv'
<1> SUFFICES ASSUME TypeInv, OwnInv, CalmInv, [AutomationNext]_autoVars, faults' = 0
             PROVE  Calm'
  BY DEF CalmInv
<1>a. faults' = faults => Calm
  BY DEF CalmInv
<1>b. ~Fault
  BY Counters
<1>1. ASSUME NEW p \in Callers, NEW k \in Keys, NEW v \in Targets, Receive(p, k, v)
      PROVE  Calm'
  <2>1. Steps(p, "policy") /\ at[p] = "idle"
    BY <1>1 DEF Receive, Steps, Executing, TypeInv, AutomationTypeOK
  <2> QED
    BY <1>a, <1>1, <2>1, QuietCalm DEF Receive, Executing
<1>2. ASSUME NEW p \in Callers, NEW k \in Keys, OpenDecision(p, k) \/ OpenRollback(p, k)
      PROVE  Calm'
  <2>1. at[p] = "idle" /\ \E place \in {"approve", "reject", "compare"} : Steps(p, place)
    BY <1>2 DEF OpenDecision, OpenRollback, Steps, Executing, TypeInv, AutomationTypeOK
  <2>2. rows' = rows /\ writes' = writes /\ faults' = faults
    BY <1>2 DEF OpenDecision, OpenRollback
  <2> QED
    BY <1>a, <2>1, <2>2, QuietCalm DEF Executing
<1>3. ASSUME NEW p \in Callers, Decide(p) PROVE Calm'
  <2>1. Steps(p, "insert") /\ at[p] = "policy"
    BY <1>3 DEF Decide, Steps, Executing, TypeInv, AutomationTypeOK
  <2> QED
    BY <1>a, <1>3, <2>1, QuietCalm DEF Decide, Executing
<1>4. ASSUME NEW p \in Callers, Insert(p) PROVE Calm'
  <2>0. /\ at[p] = "insert" /\ Calm /\ writes' = writes /\ RowOf(p) = rows[job[p].key]
        /\ job[p].key \in Keys /\ job[p].mode \in Modes /\ job[p].value \in Targets
        /\ writes \in [Keys -> Nat]
    BY <1>a, <1>4, JobOf, Counters DEF Insert, TypeInv, JobsOK
  <2>1. CASE RowOf(p) = NoRow
    <3> DEFINE r == FirstRow(job[p])
    <3>1. r \in Rows /\ r.status = FirstStatus[job[p].mode]
      BY <2>0, FirstStatuses, StatesKnown DEF FirstRow, NoRow, Rows
    <3>2. SetRow(p, r) /\ IF job[p].mode = "allow" THEN Steps(p, "read") ELSE Steps(p, "idle")
      BY <1>4, <2>1, StepsOf DEF Insert, Places
    <3>3. r.status = "running" <=> job[p].mode = "allow"
      BY <2>0, <3>1, FirstStatuses
    <3>4. writes[job[p].key] = 0
      <4>1. rows[job[p].key].decision # "allow"
        BY <2>0, <2>1 DEF NoRow
      <4>2. writes[job[p].key] \in Nat
        BY <2>0
      <4> QED
        BY <2>0, <4>1, <4>2 DEF OwnInv, WritesAllowed
    <3>5. RowOf(p).status # "running"
      BY <2>1 DEF NoRow
    <3> QED
      BY <2>0, <3>1, <3>2, <3>3, <3>4, <3>5, RowCalm
  <2>2. CASE RowOf(p) # NoRow
    <3>1. Steps(p, "idle") /\ rows' = rows
      BY <1>4, <2>2, StepsOf DEF Insert
    <3> QED
      BY <2>0, <3>1, QuietCalm DEF Executing
  <2> QED
    BY <2>1, <2>2
<1>5. ASSUME NEW p \in Callers, ReadProduct(p) PROVE Calm'
  <2>1. Steps(p, "write") /\ at[p] = "read"
    BY <1>5, StepsOf DEF ReadProduct
  <2> QED
    BY <1>a, <1>5, <2>1, QuietCalm DEF ReadProduct, Executing
<1>6. ASSUME NEW p \in Callers, WriteProduct(p) PROVE Calm'
  BY <1>a, <1>6, WriteCalm DEF WriteProduct
<1>7. ASSUME NEW p \in Callers, WriteConflict(p) PROVE Calm'
  <2>1. Steps(p, "fail") /\ at[p] = "write"
    BY <1>7, StepsOf DEF WriteConflict, Places
  <2> QED
    BY <1>a, <1>7, <2>1, QuietCalm DEF WriteConflict, Executing
<1>8. ASSUME NEW p \in Callers, Succeed(p) PROVE Calm'
  <2>1. Steps(p, "idle") /\ at[p] = "succeed" /\ Calm /\ writes' = writes
    BY <1>a, <1>8, StepsOf DEF Succeed
  <2>2. Succeeded(p) \in Rows /\ Succeeded(p).status = "succeeded" /\ SetRow(p, Succeeded(p))
    BY <1>8, RowSucceeds DEF Succeed
  <2> QED
    BY <2>1, <2>2, RowCalm DEF Executing
<1>9. ASSUME NEW p \in Callers, Fail(p) PROVE Calm'
  <2> DEFINE r == [RowOf(p) EXCEPT !.status = "failed"]
  <2>1. Steps(p, "idle") /\ at[p] = "fail" /\ Calm /\ writes' = writes
    BY <1>a, <1>9, StepsOf DEF Fail
  <2>2. RowOf(p).status = "running" /\ writes[job[p].key] = 0
    BY <2>1 DEF Calm, FailHasRow, RowOf
  <2>3. CanTransition(RowOf(p).status, "failed") /\ "failed" \in ActionStates
    BY <2>2, Moves, StatesKnown
  <2>4. r \in Rows /\ r.status = "failed"
    BY <2>1, <2>3, RowChanged, Zenon
  <2>5. SetRow(p, r)
    BY <1>9, <2>3 DEF Fail
  <2> QED
    BY <2>1, <2>2, <2>4, <2>5, RowCalm DEF Executing
<1>10. ASSUME NEW p \in Callers, Approve(p) PROVE Calm'
  <2> DEFINE r == [RowOf(p) EXCEPT !.status = "approved", !.approved = TRUE]
  <2>1. at[p] = "approve" /\ Calm /\ writes' = writes
    BY <1>a, <1>10 DEF Approve
  <2>2. CASE RowOf(p).status = job[p].expect /\ CanTransition(RowOf(p).status, "approved")
    <3>1. Steps(p, "start") /\ SetRow(p, r)
      BY <1>10, <2>2, StepsOf DEF Approve, Places
    <3>a. RowOf(p) \in Rows /\ "approved" \in ActionStates
      BY <2>1, <2>2, RowExists, StatesKnown DEF CanTransition
    <3>2. r \in Rows /\ r.status = "approved"
      BY <3>a DEF Rows
    <3>3. RowOf(p).status \in {"proposed", "manual_attention"}
      BY <2>2, Moves
    <3>4. writes[job[p].key] = 0
      BY <2>1, <3>3, JobOf, Counters DEF Calm, WritesGoThrough, TypeInv
    <3> QED
      BY <2>1, <3>1, <3>2, <3>3, <3>4, RowCalm
  <2>3. CASE ~(RowOf(p).status = job[p].expect /\ CanTransition(RowOf(p).status, "approved"))
    <3>1. Steps(p, "idle") /\ rows' = rows
      BY <1>10, <2>3, StepsOf DEF Approve
    <3> QED
      BY <2>1, <3>1, QuietCalm DEF Executing
  <2> QED
    BY <2>2, <2>3
<1>11. ASSUME NEW p \in Callers, Start(p) PROVE Calm'
  <2>1. Steps(p, "idle") /\ at[p] = "start" /\ rows' = rows
    BY <1>11, Moves, StepsOf DEF Start
  <2> QED
    BY <1>a, <1>11, <2>1, QuietCalm DEF Start, Executing
<1>12. ASSUME NEW p \in Callers, Reject(p) PROVE Calm'
  <2> DEFINE r == [RowOf(p) EXCEPT !.status = "cancelled"]
  <2>1. at[p] = "reject" /\ Calm /\ writes' = writes /\ Steps(p, "idle")
    BY <1>a, <1>12, StepsOf DEF Reject
  <2>2. CASE RowOf(p).status = job[p].expect /\ CanTransition(RowOf(p).status, "cancelled")
    <3>1. SetRow(p, r)
      BY <1>12, <2>2 DEF Reject
    <3>a. RowOf(p) \in Rows /\ "cancelled" \in ActionStates
      BY <2>1, <2>2, RowExists, StatesKnown DEF CanTransition
    <3>2. r \in Rows /\ r.status = "cancelled"
      BY <3>a DEF Rows
    <3>3. RowOf(p).status \notin {"running", "succeeded", "rolled_back"}
      BY <2>2, Moves
    <3>4. writes[job[p].key] = 0
      BY <2>1, <3>3, JobOf, Counters DEF Calm, WritesGoThrough, TypeInv
    <3> QED
      BY <2>1, <3>1, <3>2, <3>3, <3>4, RowCalm
  <2>3. CASE ~(RowOf(p).status = job[p].expect /\ CanTransition(RowOf(p).status, "cancelled"))
    <3>1. rows' = rows
      BY <1>12, <2>3 DEF Reject
    <3> QED
      BY <2>1, <3>1, QuietCalm DEF Executing
  <2> QED
    BY <2>2, <2>3
<1>13. ASSUME NEW p \in Callers, Compare(p) PROVE Calm'
  <2>1. Steps(p, "restore") \/ Steps(p, "idle")
    BY <1>13 DEF Compare, Leave, Steps, Executing, TypeInv, AutomationTypeOK
  <2>2. at[p] = "compare" /\ rows' = rows /\ writes' = writes /\ faults' = faults
    BY <1>13 DEF Compare
  <2> QED
    BY <1>a, <2>1, <2>2, QuietCalm DEF Executing
<1>14. ASSUME NEW p \in Callers, Restore(p) PROVE Calm'
  <2>1. Steps(p, "mark") \/ Steps(p, "idle")
    BY <1>14, StepsOf DEF Restore, Places
  <2>2. at[p] = "restore" /\ rows' = rows /\ writes' = writes /\ faults' = faults
    BY <1>14 DEF Restore
  <2> QED
    BY <1>a, <2>1, <2>2, QuietCalm DEF Executing
<1>15. ASSUME NEW p \in Callers, MarkRolledBack(p) PROVE Calm'
  <2> DEFINE r == [RowOf(p) EXCEPT !.status = "rolled_back"]
  <2>1. at[p] = "mark" /\ Calm /\ writes' = writes /\ Steps(p, "idle")
    BY <1>a, <1>15, StepsOf DEF MarkRolledBack
  <2>2. CASE RowOf(p).status = "succeeded"
    <3>1. CanTransition(RowOf(p).status, "rolled_back") /\ "rolled_back" \in ActionStates
      BY <2>2, Moves, StatesKnown
    <3>2. r \in Rows /\ r.status = "rolled_back"
      BY <2>1, <3>1, RowChanged, Zenon
    <3>3. SetRow(p, r)
      BY <1>15, <2>2 DEF MarkRolledBack
    <3> QED
      BY <2>1, <2>2, <3>2, <3>3, RowCalm
  <2>3. CASE RowOf(p).status # "succeeded"
    <3>1. rows' = rows
      BY <1>15, <2>3 DEF MarkRolledBack
    <3> QED
      BY <2>1, <3>1, QuietCalm DEF Executing
  <2> QED
    BY <2>2, <2>3
<1>16. ASSUME NEW p \in Callers, FailureStep(p) PROVE FALSE
  BY <1>b, <1>16 DEF FailureStep, ReadFails, WriteUnsure, SucceedUnsure, RestoreUnsure, Crash
<1>17. ASSUME NEW v \in Values, Edit(v) PROVE Calm'
  BY <1>a, <1>17 DEF Edit, Calm, FailHasRow, WritesGoThrough, Owned, WorksOn
<1>18. CASE UNCHANGED autoVars
  BY <1>a, <1>18 DEF autoVars, Calm, FailHasRow, WritesGoThrough, Owned, WorksOn
<1> QED
  BY <1>1, <1>2, <1>3, <1>4, <1>5, <1>6, <1>7, <1>8, <1>9, <1>10, <1>11, <1>12, <1>13,
     <1>14, <1>15, <1>16, <1>17, <1>18, AutomationAssumption
  DEF AutomationNext, RequestStep, AdminStep, ExecutorStep, EditProduct, ArchiveExpired, Callers

LEMMA CalmAlways == AutomationSpec => [](TypeInv /\ OwnInv /\ CalmInv)
BY TypeInit, TypeStep, OwnInit, OwnStep, CalmInit, CalmStep, PTL DEF AutomationSpec

\* While nothing fails, a row that says "running" has its worker.
THEOREM RunningRowsAreOwned == AutomationSpec => []RunningIsOwned
<1>1. CalmInv => RunningIsOwned
  BY DEF CalmInv, Calm, Owned, RunningIsOwned
<1> QED
  BY <1>1, CalmAlways, PTL

\* And an action that did not go through has left the product alone.
THEOREM FailuresChangeNothing == AutomationSpec => []FailedChangedNothing
<1>1. TypeInv /\ CalmInv => FailedChangedNothing
  BY Counters DEF CalmInv, Calm, WritesGoThrough, FailedChangedNothing
<1> QED
  BY <1>1, CalmAlways, PTL

-----------------------------------------------------------------------------
(* The daily limit *)

\* The requests that passed the policy and have not inserted their row.
Pending == {p \in Requests : at[p] = "insert" /\ job[p].mode = "allow"}

\* Whoever passed the limit last found fewer rows than it, and at most one
\* request each has passed since.
Within(A, P) ==
    A # {} \/ P # {} => Cardinality(A) + Cardinality(P) < MaxPerDay + Cardinality(Requests)

BudgetInv == Within(Allowed, Pending)

LEMMA Countable ==
    ASSUME NEW A \in SUBSET Keys, NEW P \in SUBSET Requests
    PROVE  /\ IsFiniteSet(Keys) /\ IsFiniteSet(A) /\ IsFiniteSet(P) /\ IsFiniteSet(Requests)
           /\ Cardinality(A) \in Nat /\ Cardinality(P) \in Nat
           /\ Cardinality(Requests) \in Nat /\ Cardinality(P) <= Cardinality(Requests)
           /\ MaxPerDay \in Nat
<1>1. IsFiniteSet(Keys) /\ IsFiniteSet(Requests) /\ MaxPerDay \in Nat
  BY AutomationAssumption
<1>2. IsFiniteSet(A) /\ IsFiniteSet(P) /\ Cardinality(P) <= Cardinality(Requests)
  BY <1>1, FS_Subset
<1> QED
  BY <1>1, <1>2, FS_CardinalityType

\* A request that leaves before its insert makes room.
LEMMA WithinLeaves ==
    ASSUME NEW A \in SUBSET Keys, NEW P \in SUBSET Requests, NEW Q \in SUBSET P, Within(A, P)
    PROVE  Within(A, Q)
<1>1. Q \in SUBSET Requests
  OBVIOUS
<1>2. Cardinality(Q) <= Cardinality(P) /\ (Q # {} => P # {})
  BY Countable, FS_Subset
<1> QED
  BY <1>1, <1>2, Countable DEF Within

\* One that inserts takes the place it had.
LEMMA WithinInserts ==
    ASSUME NEW A \in SUBSET Keys, NEW P \in SUBSET Requests, NEW k \in Keys, NEW p \in P,
           Within(A, P)
    PROVE  Within(A \cup {k}, P \ {p})
<1>1. A \cup {k} \in SUBSET Keys /\ P \ {p} \in SUBSET Requests
  OBVIOUS
<1>2. Cardinality(P \ {p}) = Cardinality(P) - 1
  BY Countable, FS_RemoveElement
<1>3. Cardinality(A \cup {k}) <= Cardinality(A) + 1
  <2>1. IsFiniteSet(A) /\ Cardinality(A) \in Nat
    BY Countable
  <2> QED
    BY <2>1, FS_AddElement
<1> QED
  BY <1>1, <1>2, <1>3, Countable DEF Within

\* The decision of a request: if it may go on, it has counted fewer than the limit.
LEMMA DecideBudget ==
    ASSUME TypeInv, BudgetInv, NEW p \in Requests, Decide(p)
    PROVE  BudgetInv'
<1>1. Allowed' = Allowed /\ Allowed \in SUBSET Keys /\ Pending' \in SUBSET Requests
      /\ Pending \in SUBSET Requests
  BY DEF Decide, Allowed, Pending
<1>2. PICK mode \in Modes : job' = [job EXCEPT ![p].mode = Evaluate(CountActions, mode)]
  BY DEF Decide
<1>3. p \in Callers /\ at \in [Callers -> Places] /\ job \in [Callers -> Jobs \cup {NoJob}]
      /\ at[p] = "policy" /\ at' = [at EXCEPT ![p] = "insert"] /\ job[p] \in Jobs
  BY JobOf DEF Decide, Callers, TypeInv, AutomationTypeOK
<1>4. job'[p].mode = Evaluate(CountActions, mode)
      /\ \A q \in Callers : q # p => job'[q] = job[q] /\ at'[q] = at[q]
  BY <1>2, <1>3 DEF Jobs
<1>5. CASE CountActions >= MaxPerDay
  <2>1. job'[p].mode = "deny"
    BY <1>4, <1>5 DEF Evaluate
  <2>2. Pending' \subseteq Pending
    BY <1>3, <1>4, <2>1 DEF Pending, Callers
  <2> QED
    BY <1>1, <2>2, WithinLeaves DEF BudgetInv
<1>6. CASE ~(CountActions >= MaxPerDay)
  <2> DEFINE Here == {k \in Keys : rows[k] # NoRow}
  <2>1. Here \in SUBSET Keys /\ CountActions = Cardinality(Here) /\ Allowed \in SUBSET Here
    BY DEF CountActions, Allowed, NoRow
  <2>2. Cardinality(Allowed) <= Cardinality(Here)
    BY <1>1, <2>1, Countable, FS_Subset
  <2>3. Cardinality(Allowed) < MaxPerDay
    BY <1>1, <1>6, <2>1, <2>2, Countable
  <2> QED
    BY <1>1, <2>3, Countable DEF BudgetInv, Within
<1> QED
  BY <1>5, <1>6

LEMMA BudgetStep == TypeInv /\ BudgetInv /\ [AutomationNext]_autoVars => BudgetInv'
<1> SUFFICES ASSUME TypeInv, BudgetInv, [AutomationNext]_autoVars PROVE BudgetInv'
  OBVIOUS
<1>1. RowFact /\ PlaceFact
  BY RowsStep, PlacesStep
<1>2. CASE \E p \in Requests : Decide(p)
  BY <1>2, DecideBudget
<1>3. CASE ~\E p \in Requests : Decide(p)
  <2>1. Pending' \subseteq Pending
    BY <1>1, <1>3 DEF PlaceFact, Pending, Callers
  <2>2. Allowed \in SUBSET Keys /\ Pending \in SUBSET Requests /\ Pending' \in SUBSET Pending
    BY <2>1 DEF Allowed, Pending
  <2>3. CASE Allowed' = Allowed
    BY <2>2, <2>3, WithinLeaves DEF BudgetInv
  <2>4. CASE rows' = rows
    BY <2>3, <2>4 DEF Allowed
  <2>5. ASSUME NEW p \in Callers, NEW r \in Rows, RowStep(p, r) PROVE BudgetInv'
    <3>1. AutomationTypeOK /\ job[p].key \in Keys /\ RowOf(p) = rows[job[p].key]
      BY <2>5, JobOf DEF TypeInv, RowStep
    <3>2. rows'[job[p].key] = r /\ \A k \in Keys : k # job[p].key => rows'[k] = rows[k]
      BY <2>5, <3>1, RowSet DEF RowStep
    <3>3. CASE r.decision = RowOf(p).decision
      BY <2>3, <3>1, <3>2, <3>3 DEF Allowed
    <3>4. CASE r.decision # "allow" /\ RowOf(p) = NoRow
      <4>1. rows[job[p].key].decision # "allow"
        BY <3>1, <3>4 DEF NoRow
      <4>2. Allowed' = Allowed
        BY <3>1, <3>2, <3>4, <4>1 DEF Allowed
      <4> QED
        BY <2>3, <4>2
    <3>5. CASE p \in Requests /\ Insert(p) /\ job[p].mode = "allow" /\ r.decision = "allow"
      <4>1. Allowed' = Allowed \cup {job[p].key}
        BY <3>1, <3>2, <3>5 DEF Allowed
      <4>2. p \in Pending /\ at'[p] # "insert"
        BY <2>5, <3>1, <3>5 DEF Pending, Insert, Goto, Leave, AutomationTypeOK
      <4>3. Pending' \in SUBSET (Pending \ {p}) /\ p \notin Pending'
        BY <2>1, <4>2 DEF Pending
      <4>4. Within(Allowed', Pending \ {p})
        BY <2>2, <3>1, <4>1, <4>2, WithinInserts DEF BudgetInv
      <4>5. Allowed' \in SUBSET Keys /\ Pending \ {p} \in SUBSET Requests
        BY <2>2, <3>1, <4>1
      <4> QED
        BY <4>3, <4>4, <4>5, WithinLeaves DEF BudgetInv
    <3> QED
      BY <2>5, <3>3, <3>4, <3>5 DEF RowStep
  <2> QED
    BY <1>1, <2>4, <2>5 DEF RowFact
<1> QED
  BY <1>2, <1>3

\* Requests at the same time pass the daily limit by less than one each.
THEOREM BudgetOvershootBounded == AutomationSpec => []BudgetOvershoot
<1>1. AutomationInit => BudgetInv
  <2> SUFFICES ASSUME AutomationInit PROVE Allowed = {} /\ Pending = {}
    BY DEF BudgetInv, Within
  <2>1. \A k \in Keys : rows[k].decision # "allow"
    BY DEF AutomationInit, NoRow
  <2>2. \A p \in Requests : at[p] # "insert"
    BY DEF AutomationInit, Callers
  <2> QED
    BY <2>1, <2>2 DEF Allowed, Pending
<1>2. BudgetInv => BudgetOvershoot
  <2>1. Allowed \in SUBSET Keys /\ Pending \in SUBSET Requests
    BY DEF Allowed, Pending
  <2> QED
    BY <2>1, Countable DEF BudgetInv, Within, BudgetOvershoot
<1> QED
  BY <1>1, <1>2, TypeInit, TypeStep, BudgetStep, PTL DEF AutomationSpec
=============================================================================
