------------------------- MODULE ActionLedgerProofs -------------------------
(***************************************************************************)
(* The handlers of the automation API implement ActionLedger, for every    *)
(* set of keys, requests and administrators, every daily limit, and        *)
(* however many edits and faults.                                          *)
(***************************************************************************)
EXTENDS AutomationProofs

-----------------------------------------------------------------------------
(* What an executor is about to write over *)

\* An executor past its read: the product it read is the product still if the
\* version is the same.
WriteInv ==
    \A p \in Callers : at[p] = "write" =>
        /\ job[p].before.version <= product.version
        /\ job[p].before.version = product.version => job[p].before = product

LEMMA WriteStep == TypeInv /\ WriteInv /\ [AutomationNext]_autoVars => WriteInv'
<1> SUFFICES ASSUME TypeInv, WriteInv, [AutomationNext]_autoVars,
                    NEW p \in Callers, at'[p] = "write"
             PROVE  /\ job'[p].before.version <= product'.version
                    /\ job'[p].before.version = product'.version => job'[p].before = product'
  BY DEF WriteInv
<1>1. PlaceFact /\ ProductFact /\ product \in Products
  BY PlacesStep, ProductStep, Counters
<1>2. CASE at[p] = "write" /\ job'[p] = job[p]
  <2>1. job[p].before.version \in Nat /\ product.version \in Nat
    BY <1>1, <1>2 DEF TypeInv, JobsOK, Products
  <2> QED
    BY <1>1, <1>2, <2>1 DEF WriteInv, ProductFact
<1>3. CASE ReadProduct(p)
  <2>1. job[p] \in Jobs /\ job \in [Callers -> Jobs \cup {NoJob}]
    BY <1>3, JobOf DEF ReadProduct, TypeInv, AutomationTypeOK
  <2>2. job'[p].before = product /\ product' = product
    BY <1>3, <2>1 DEF ReadProduct, Jobs
  <2> QED
    BY <1>1, <2>2 DEF Products
<1> QED
  BY <1>1, <1>2, <1>3 DEF PlaceFact

\* All the refinement needs to know of a state.
LedgerInv == TypeInv /\ OwnInv /\ AdjacentInv /\ RestoreInv /\ WriteInv

LEMMA LedgerAlways == AutomationSpec => []LedgerInv
<1>1. AutomationInit => RestoreInv /\ WriteInv
  BY DEF AutomationInit, RestoreInv, WriteInv
<1> QED
  BY <1>1, AdjacentAlways, RestoreStep, WriteStep, PTL DEF AutomationSpec, LedgerInv

-----------------------------------------------------------------------------
(* The refinement mapping, by name *)

ledgerVerdict  == [k \in Keys |-> Verdict(rows[k])]
ledgerWish     == [k \in Keys |-> rows[k].value]
ledgerExecuted == {k \in Keys : writes[k] > 0}
ledgerFound    == {f \in Keys \X Values : KnownBefore(f[1], f[2])}

ledgerVars == <<product, edits, ledgerVerdict, ledgerWish, ledgerExecuted, ledgerFound>>

LEMMA LedgerVars == UNCHANGED ledgerVars => UNCHANGED Actions!actionVars
BY DEF ledgerVars, ledgerVerdict, ledgerWish, ledgerExecuted, ledgerFound, Actions!actionVars

\* What the rows give the ledger, kept by a step that keeps the rows.
LEMMA RowsGive ==
    ASSUME UNCHANGED rows
    PROVE  UNCHANGED <<ledgerVerdict, ledgerWish>>
BY DEF ledgerVerdict, ledgerWish, Verdict

\* What they give it when a step writes one row.
LEMMA RowGives ==
    ASSUME TypeInv, NEW p \in Callers, at[p] # "idle", NEW r \in Rows, SetRow(p, r)
    PROVE  /\ job[p].key \in Keys
           /\ ledgerVerdict[job[p].key] = Verdict(RowOf(p))
           /\ ledgerVerdict' = [ledgerVerdict EXCEPT ![job[p].key] = Verdict(r)]
           /\ ledgerWish' = [ledgerWish EXCEPT ![job[p].key] = r.value]
           /\ Verdict(r) = Verdict(RowOf(p)) => UNCHANGED ledgerVerdict
           /\ r.value = RowOf(p).value => UNCHANGED ledgerWish
<1>1. job[p].key \in Keys /\ RowOf(p) = rows[job[p].key] /\ AutomationTypeOK
  BY JobOf DEF TypeInv
<1>2. rows'[job[p].key] = r /\ \A k \in Keys : k # job[p].key => rows'[k] = rows[k]
  BY <1>1, RowSet
<1>3. ledgerWish' = [ledgerWish EXCEPT ![job[p].key] = r.value]
  BY <1>1, <1>2 DEF ledgerWish
<1>4. ledgerVerdict' = [k \in Keys |-> Verdict(rows'[k])]
  BY DEF ledgerVerdict, Verdict
<1>5. ledgerVerdict' = [ledgerVerdict EXCEPT ![job[p].key] = Verdict(r)]
  BY <1>1, <1>2, <1>4 DEF ledgerVerdict
<1>6. ledgerVerdict[job[p].key] = Verdict(RowOf(p))
  BY <1>1 DEF ledgerVerdict
<1>7. Verdict(r) = Verdict(RowOf(p)) => UNCHANGED ledgerVerdict
  BY <1>5, <1>6 DEF ledgerVerdict
<1>8. r.value = RowOf(p).value => UNCHANGED ledgerWish
  BY <1>1, <1>3 DEF ledgerWish
<1> QED
  BY <1>1, <1>3, <1>5, <1>6, <1>7, <1>8

\* The verdict of a row that is there.
LEMMA VerdictOf ==
    ASSUME NEW r \in Rows
    PROVE  /\ r # NoRow /\ Verdict(r) \in {"waiting", "granted", "refused"}
           /\ r.decision = "allow" \/ r.approved => Verdict(r) = "granted"
           /\ r.status \notin Decidable => Verdict(r) # "waiting"
           /\ r.status \in Decidable => Verdict(r) # "refused"
BY DEF Rows, NoRow, Verdict, Modes

\* A step of a caller that has not got to the end of an executor and does not get
\* there, and finishes no action.
LEMMA FoundKept ==
    ASSUME TypeInv, NEW p \in Callers, NEW place, Steps(p, place),
           at[p] # "succeed", place # "succeed",
           \A k \in Keys : /\ rows'[k].status \in Done <=> rows[k].status \in Done
                           /\ rows'[k].status \in Done => rows'[k].before = rows[k].before
    PROVE  UNCHANGED ledgerFound
<1>1. at'[p] = place /\ \A q \in Callers : q # p => at'[q] = at[q] /\ job'[q] = job[q]
  BY DEF Steps, TypeInv, AutomationTypeOK
<1>2. \A k \in Keys, v \in Values : KnownBefore(k, v)' <=> KnownBefore(k, v)
  BY <1>1 DEF KnownBefore, Done
<1> QED
  BY <1>2 DEF ledgerFound

\* Most steps tell the ledger nothing.
LEMMA Unnoticed ==
    ASSUME TypeInv, NEW p \in Callers, NEW place, Steps(p, place),
           at[p] # "succeed", place # "succeed",
           UNCHANGED <<rows, product, writes, edits>>
    PROVE  UNCHANGED Actions!actionVars
<1>1. UNCHANGED ledgerFound
  BY FoundKept
<1> QED
  BY <1>1, RowsGive, LedgerVars DEF ledgerVars, ledgerExecuted

-----------------------------------------------------------------------------
(* The steps *)

\* A first row is a verdict.
LEMMA RefineInsert ==
    ASSUME LedgerInv, NEW p \in Requests, Insert(p)
    PROVE  [Actions!ActionNext]_Actions!actionVars
<1> DEFINE k == job[p].key
           r == FirstRow(job[p])
<1>1. /\ TypeInv /\ p \in Callers /\ at[p] = "insert"
      /\ k \in Keys /\ RowOf(p) = rows[k] /\ job[p].value \in Targets /\ job[p].mode \in Modes
  BY JobOf DEF LedgerInv, TypeInv, JobsOK, Insert, Callers
<1>2. CASE RowOf(p) # NoRow
  <2>1. Steps(p, "idle") /\ UNCHANGED <<rows, product, writes, edits>>
    BY <1>1, <1>2, StepsOf DEF Insert
  <2> QED
    BY <1>1, <2>1, Unnoticed
<1>3. CASE RowOf(p) = NoRow
  <2>1. /\ r \in Rows /\ r.value = job[p].value
        /\ r.status \in {"running", "manual_attention", "failed"}
    BY <1>1, FirstStatuses, StatesKnown DEF FirstRow, NoRow, Rows
  <2>2. SetRow(p, r) /\ UNCHANGED <<product, writes, edits>>
    BY <1>3 DEF Insert
  <2>3. PICK place \in {"idle", "read"} : Steps(p, place)
    BY <1>1, <1>3, StepsOf DEF Insert, Places
  <2>4. rows'[k] = r /\ \A l \in Keys : l # k => rows'[l] = rows[l]
    BY <1>1, <2>1, <2>2, RowSet DEF TypeInv
  <2>5. UNCHANGED ledgerFound
    <3>1. rows[k].status \notin Done /\ rows'[k].status \notin Done
      BY <1>1, <1>3, <2>1, <2>4 DEF NoRow, Done
    <3> QED
      BY <1>1, <2>3, <2>4, <3>1, FoundKept
  <2>6. ledgerVerdict[k] = "none"
    BY <1>1, <1>3, <2>1, <2>2, RowGives DEF Verdict
  <2>7. PICK d \in {"waiting", "granted", "refused"} :
            ledgerVerdict' = [ledgerVerdict EXCEPT ![k] = d]
    BY <1>1, <2>1, <2>2, RowGives, VerdictOf
  <2>8. r.value \in Values /\ ledgerWish' = [ledgerWish EXCEPT ![k] = r.value]
    BY <1>1, <2>1, <2>2, RowGives, AutomationAssumption
  <2>9. \E l \in Keys : Actions!Judge(l)
    BY <1>1, <2>2, <2>5, <2>6, <2>7, <2>8
    DEF Actions!Judge, ledgerVerdict, ledgerWish, ledgerExecuted, ledgerFound
  <2> QED
    BY <2>9 DEF Actions!ActionNext
<1> QED
  BY <1>2, <1>3

\* A decision on a row that waits is its verdict; other changes of a status are none.
LEMMA RefineStatus ==
    ASSUME LedgerInv, NEW p \in Callers, at[p] # "idle", at[p] # "succeed",
           NEW place \in {"idle", "start"}, Steps(p, place),
           NEW r \in Rows, SetRow(p, r), UNCHANGED <<product, writes, edits>>,
           r.value = RowOf(p).value, r.before = RowOf(p).before,
           r.status \in Done <=> RowOf(p).status \in Done,
           \/ Verdict(r) = Verdict(RowOf(p))
           \/ Verdict(RowOf(p)) = "waiting" /\ Verdict(r) \in {"granted", "refused"}
    PROVE  [Actions!ActionNext]_Actions!actionVars
<1> DEFINE k == job[p].key
<1>1. TypeInv /\ k \in Keys /\ RowOf(p) = rows[k]
  BY JobOf DEF LedgerInv, TypeInv
<1>2. rows'[k] = r /\ \A l \in Keys : l # k => rows'[l] = rows[l]
  BY <1>1, RowSet DEF TypeInv
<1>3. UNCHANGED ledgerFound /\ UNCHANGED ledgerWish /\ UNCHANGED ledgerExecuted
  BY <1>1, <1>2, FoundKept, RowGives DEF ledgerExecuted
<1>4. CASE Verdict(r) = Verdict(RowOf(p))
  <2>1. UNCHANGED ledgerVerdict
    BY <1>1, <1>4, RowGives
  <2> QED
    BY <1>3, <2>1, LedgerVars DEF ledgerVars
<1>5. CASE Verdict(RowOf(p)) = "waiting" /\ Verdict(r) \in {"granted", "refused"}
  <2>1. /\ ledgerVerdict[k] = "waiting"
        /\ ledgerVerdict' = [ledgerVerdict EXCEPT ![k] = Verdict(r)]
    BY <1>1, <1>5, RowGives
  <2>2. Actions!Resolve(k)
    BY <1>3, <1>5, <2>1
    DEF Actions!Resolve, ledgerVerdict, ledgerWish, ledgerExecuted, ledgerFound
  <2> QED
    BY <1>1, <2>2 DEF Actions!ActionNext
<1> QED
  BY <1>4, <1>5

\* The catch, the two decisions and the end of a rollback.
LEMMA RefineDecision ==
    ASSUME LedgerInv, NEW p \in Callers,
           Fail(p) \/ Approve(p) \/ Reject(p) \/ MarkRolledBack(p)
    PROVE  [Actions!ActionNext]_Actions!actionVars
<1>0. /\ TypeInv /\ at[p] \notin {"idle", "succeed"} /\ UNCHANGED <<product, writes, edits>>
      /\ job[p].key \in Keys /\ RowOf(p) = rows[job[p].key]
  BY JobOf DEF LedgerInv, TypeInv, Fail, Approve, Reject, MarkRolledBack
<1>1. CASE UNCHANGED rows
  <2>1. Steps(p, "idle") \/ Steps(p, "start")
    BY <1>0, StepsOf DEF Fail, Approve, Reject, MarkRolledBack, Places
  <2> QED
    BY <1>0, <1>1, <2>1, Unnoticed
<1>2. CASE Fail(p) /\ ~UNCHANGED rows
  <2> DEFINE r == [RowOf(p) EXCEPT !.status = "failed"]
  <2>1. SetRow(p, r) /\ Steps(p, "idle") /\ CanTransition(RowOf(p).status, "failed")
    BY <1>0, <1>2, StepsOf DEF Fail
  <2>2. RowOf(p) \in Rows /\ RowOf(p).status \notin Done
    BY <1>0, <2>1, Moves, RowExists DEF CanTransition, Done
  <2>3. RowOf(p).decision = "allow"
    BY <1>0, <1>2 DEF Fail, LedgerInv, OwnInv, WorkerHasRow, Executing
  <2>4. /\ r \in Rows /\ r.decision = "allow" /\ r.status \notin Done
        /\ r.value = RowOf(p).value /\ r.before = RowOf(p).before
    BY <2>2, <2>3, StatesKnown DEF Rows, Done
  <2>5. Verdict(r) = Verdict(RowOf(p))
    BY <2>2, <2>3, <2>4, VerdictOf
  <2> HIDE DEF r
  <2> QED
    BY <1>0, <2>1, <2>2, <2>4, <2>5, RefineStatus
<1>3. CASE Approve(p) /\ ~UNCHANGED rows
  <2> DEFINE r == [RowOf(p) EXCEPT !.status = "approved", !.approved = TRUE]
  <2>1. SetRow(p, r) /\ Steps(p, "start") /\ CanTransition(RowOf(p).status, "approved")
    BY <1>0, <1>3, StepsOf DEF Approve, Places
  <2>2. RowOf(p) \in Rows /\ RowOf(p).status \in Decidable
    BY <1>0, <2>1, Moves, RowExists DEF CanTransition, Decidable
  <2>3. /\ r \in Rows /\ r.approved /\ r.status \notin Done /\ RowOf(p).status \notin Done
        /\ r.value = RowOf(p).value /\ r.before = RowOf(p).before
    BY <2>2, StatesKnown DEF Rows, Done, Decidable
  <2>4. Verdict(r) = "granted" /\ Verdict(RowOf(p)) \in {"granted", "waiting"}
    BY <2>2, <2>3, VerdictOf
  <2> HIDE DEF r
  <2> QED
    BY <1>0, <2>1, <2>3, <2>4, RefineStatus
<1>4. CASE Reject(p) /\ ~UNCHANGED rows
  <2> DEFINE r == [RowOf(p) EXCEPT !.status = "cancelled"]
  <2>1. SetRow(p, r) /\ Steps(p, "idle") /\ CanTransition(RowOf(p).status, "cancelled")
    BY <1>0, <1>4, StepsOf DEF Reject
  <2>2. RowOf(p) \in Rows /\ RowOf(p).status \notin Done
    BY <1>0, <2>1, Moves, RowExists DEF CanTransition, Done
  <2>3. /\ r \in Rows /\ r.status = "cancelled" /\ r.status \notin Done \cup Decidable
        /\ r.decision = RowOf(p).decision /\ r.approved = RowOf(p).approved
        /\ r.value = RowOf(p).value /\ r.before = RowOf(p).before
    BY <2>2, StatesKnown DEF Rows, Done, Decidable
  <2>4. \/ Verdict(r) = Verdict(RowOf(p))
        \/ Verdict(RowOf(p)) = "waiting" /\ Verdict(r) \in {"granted", "refused"}
    BY <2>2, <2>3, VerdictOf DEF Verdict
  <2> HIDE DEF r
  <2> QED
    BY <1>0, <2>1, <2>2, <2>3, <2>4, RefineStatus
<1>5. CASE MarkRolledBack(p) /\ ~UNCHANGED rows
  <2> DEFINE r == [RowOf(p) EXCEPT !.status = "rolled_back"]
  <2>1. SetRow(p, r) /\ Steps(p, "idle") /\ RowOf(p).status = "succeeded"
    BY <1>0, <1>5, StepsOf DEF MarkRolledBack
  <2>2. RowOf(p) \in Rows
    BY <1>0, <2>1, StatesKnown, RowExists
  <2>3. /\ r \in Rows /\ r.status = "rolled_back"
        /\ r.decision = RowOf(p).decision /\ r.approved = RowOf(p).approved
        /\ r.value = RowOf(p).value /\ r.before = RowOf(p).before
    BY <2>2, StatesKnown DEF Rows
  <2>4. Verdict(r) = Verdict(RowOf(p))
    BY <2>1, <2>2, <2>3, VerdictOf DEF Verdict, Decidable
  <2> HIDE DEF r
  <2> QED
    BY <1>0, <2>1, <2>3, <2>4, RefineStatus DEF Done
<1> QED
  BY <1>1, <1>2, <1>3, <1>4, <1>5

\* The write of an executor is the execution of its key, and remembers what it replaced
\* unless its answer is lost.
LEMMA RefineWrite ==
    ASSUME LedgerInv, NEW p \in Callers, at[p] = "write",
           product.version = job[p].before.version, Write(p, job[p].value),
           UNCHANGED <<rows, edits>>,
           \/ Steps(p, "fail")
           \/ Steps(p, "succeed") /\ job'[p].before = job[p].before
    PROVE  [Actions!ActionNext]_Actions!actionVars
<1> DEFINE k == job[p].key
<1>1. /\ TypeInv /\ k \in Keys /\ RowOf(p) = rows[k] /\ product \in Products
      /\ at \in [Callers -> Places]
  BY JobOf, Counters DEF LedgerInv, TypeInv, AutomationTypeOK
<1>2. /\ rows[k].decision = "allow" /\ rows[k].value = job[p].value
      /\ rows[k].status = "running" /\ writes[k] = 0
  BY DEF LedgerInv, OwnInv, WorkerHasRow, Executing
<1>3. product = job[p].before /\ product.value \in Values
  BY <1>1 DEF LedgerInv, WriteInv, Products
<1>4. UNCHANGED <<ledgerVerdict, ledgerWish>>
  BY RowsGive
<1>5. ledgerVerdict[k] = "granted" /\ ledgerWish[k] = job[p].value
  <2>1. rows[k] # NoRow
    BY <1>2 DEF NoRow
  <2> QED
    BY <1>1, <1>2, <2>1 DEF ledgerVerdict, ledgerWish, Verdict
<1>6. k \notin ledgerExecuted /\ ledgerExecuted' = ledgerExecuted \cup {k}
  <2>1. /\ writes \in [Keys -> Nat] /\ writes'[k] = writes[k] + 1
        /\ \A l \in Keys : l # k => writes'[l] = writes[l]
    BY <1>1, WriteTyped, Counters
  <2> QED
    BY <1>1, <1>2, <2>1 DEF ledgerExecuted
<1>7. Actions!Put(ledgerWish[k])
  BY <1>5 DEF Write, Written, Actions!Put
<1>8. /\ \A q \in Callers : q # p => at'[q] = at[q] /\ job'[q] = job[q]
      /\ at'[p] \in {"succeed", "fail"}
      /\ at'[p] = "succeed" => job'[p].key = k /\ job'[p].before = product
  BY <1>1, <1>3 DEF Steps, Executing
<1>9. ledgerFound' = ledgerFound \/ ledgerFound' = ledgerFound \cup {<<k, product.value>>}
  <2>1. CASE at'[p] = "fail"
    <3>1. \A l \in Keys, v \in Values : KnownBefore(l, v)' <=> KnownBefore(l, v)
      BY <1>8, <2>1 DEF KnownBefore
    <3> QED
      BY <3>1 DEF ledgerFound
  <2>2. CASE at'[p] = "succeed"
    <3>1. \A l \in Keys, v \in Values :
             KnownBefore(l, v)' <=> KnownBefore(l, v) \/ (l = k /\ v = product.value)
      BY <1>8, <2>2 DEF KnownBefore
    <3>2. \A l \in Keys, v \in Values :
             <<l, v>> \in ledgerFound' <=> <<l, v>> \in ledgerFound \cup {<<k, product.value>>}
      BY <3>1 DEF ledgerFound
    <3>3. <<k, product.value>> \in Keys \X Values
      BY <1>1, <1>3
    <3> QED
      BY <3>2, <3>3 DEF ledgerFound
  <2> QED
    BY <1>8, <2>1, <2>2
<1>10. \E l \in Keys : Actions!Execute(l)
  BY <1>1, <1>4, <1>5, <1>6, <1>7, <1>9
  DEF Actions!Execute, ledgerVerdict, ledgerWish, ledgerExecuted, ledgerFound
<1> QED
  BY <1>10 DEF Actions!ActionNext

\* After it the row takes over what the executor remembers, or it is forgotten.
LEMMA RefineEnd ==
    ASSUME LedgerInv, NEW p \in Callers, at[p] = "succeed", UNCHANGED <<product, writes, edits>>,
           Steps(p, "idle") \/ Steps(p, "fail"),
           \/ UNCHANGED rows
           \/ CanTransition(RowOf(p).status, "succeeded") /\ SetRow(p, Succeeded(p))
    PROVE  [Actions!ActionNext]_Actions!actionVars
<1> DEFINE k == job[p].key
           r == Succeeded(p)
<1>1. TypeInv /\ k \in Keys /\ RowOf(p) = rows[k] /\ at \in [Callers -> Places]
  BY JobOf DEF LedgerInv, TypeInv, AutomationTypeOK
<1>2. rows[k].status = "running"
  BY DEF LedgerInv, OwnInv, WorkerHasRow, Executing
<1>3. \A q \in Callers : at[q] = "succeed" /\ job[q].key = k => q = p
  BY DEF LedgerInv, OwnInv, OneWorker, Executing
<1>4. /\ \A q \in Callers : q # p => at'[q] = at[q] /\ job'[q] = job[q]
      /\ at'[p] # "succeed"
  BY <1>1 DEF Steps
<1>5. UNCHANGED ledgerExecuted
  BY DEF ledgerExecuted
<1>6. CASE UNCHANGED rows
  <2>1. \A l \in Keys, v \in Values : KnownBefore(l, v)' <=> KnownBefore(l, v) /\ l # k
    BY <1>2, <1>3, <1>4, <1>6 DEF KnownBefore
  <2>2. ledgerFound' = {f \in ledgerFound : f[1] # k}
    BY <2>1 DEF ledgerFound
  <2>3. UNCHANGED <<ledgerVerdict, ledgerWish>>
    BY <1>6, RowsGive
  <2>4. \E l \in Keys : Actions!Forget(l)
    BY <1>1, <1>5, <2>2, <2>3
    DEF Actions!Forget, ledgerVerdict, ledgerWish, ledgerExecuted, ledgerFound
  <2> QED
    BY <2>4 DEF Actions!ActionNext
<1>7. CASE CanTransition(RowOf(p).status, "succeeded") /\ SetRow(p, r)
  <2>1. /\ r \in Rows /\ r.status = "succeeded" /\ r.decision = RowOf(p).decision
        /\ r.value = RowOf(p).value /\ r.before = job[p].before
    BY <1>1, <1>7, RowSucceeds
  <2>2. rows'[k] = r /\ \A l \in Keys : l # k => rows'[l] = rows[l]
    BY <1>1, <1>7, <2>1, RowSet DEF TypeInv
  <2>3. RowOf(p) \in Rows /\ RowOf(p).decision = "allow"
    BY <1>1, <1>2, RowExists, StatesKnown DEF LedgerInv, OwnInv, WorkerHasRow, Executing
  <2>4. Verdict(r) = "granted" /\ Verdict(RowOf(p)) = "granted"
    BY <2>1, <2>3, VerdictOf
  <2>5. UNCHANGED <<ledgerVerdict, ledgerWish>>
    BY <1>1, <1>7, <2>1, <2>4, RowGives
  <2>6. \A l \in Keys, v \in Values : KnownBefore(l, v)' <=> KnownBefore(l, v)
    <3>1. ASSUME NEW l \in Keys, NEW v \in Values, l # k
          PROVE  KnownBefore(l, v)' <=> KnownBefore(l, v)
      BY <1>4, <2>2, <3>1 DEF KnownBefore
    <3>2. ASSUME NEW v \in Values
          PROVE  KnownBefore(k, v) <=> job[p].before.value = v
      BY <1>1, <1>2, <1>3 DEF KnownBefore
    <3>3. ASSUME NEW l \in Keys, l = k, NEW v \in Values
          PROVE  KnownBefore(l, v)' <=> job[p].before.value = v
      BY <1>3, <1>4, <2>1, <2>2, <3>3 DEF KnownBefore
    <3> QED
      BY <3>1, <3>2, <3>3
  <2>7. UNCHANGED ledgerFound
    BY <2>6 DEF ledgerFound
  <2> QED
    BY <1>5, <2>5, <2>7, LedgerVars DEF ledgerVars
<1> QED
  BY <1>6, <1>7

\* The restoring write of a rollback is an undo of what the product still holds.
LEMMA RefineUndo ==
    ASSUME LedgerInv, NEW p \in Callers, at[p] = "restore",
           product.version = job[p].before.version,
           product' = Written(product, RowOf(p).before.value),
           Steps(p, "idle") \/ Steps(p, "mark"), UNCHANGED <<rows, writes, edits>>
    PROVE  [Actions!ActionNext]_Actions!actionVars
<1> DEFINE k == job[p].key
           v == rows[k].before.value
<1>1. /\ TypeInv /\ k \in Keys /\ RowOf(p) = rows[k]
      /\ rows[k].status \in Done
  BY JobOf DEF LedgerInv, TypeInv, JobsOK, Rolling
<1>2. v \in Values
  BY <1>1 DEF TypeInv, SnapshotsTyped, Products
<1>3. product.value = ledgerWish[k]
  <2>1. job[p].before = product
    BY DEF LedgerInv, RestoreInv
  <2>2. product.value = rows[k].after.value
    BY <2>1 DEF LedgerInv, RestoreInv
  <2>3. rows[k].after.value = rows[k].value
    BY <1>1 DEF LedgerInv, AdjacentInv, SnapshotsAdjacent, Done
  <2> QED
    BY <1>1, <2>2, <2>3 DEF ledgerWish
<1>4. <<k, v>> \in ledgerFound
  BY <1>1, <1>2 DEF ledgerFound, KnownBefore, Done
<1>5. Actions!Put(v)
  BY <1>1 DEF Written, Actions!Put
<1>6. UNCHANGED <<ledgerVerdict, ledgerWish, ledgerExecuted, ledgerFound>>
  <2>1. UNCHANGED ledgerFound
    BY <1>1, FoundKept
  <2> QED
    BY <2>1, RowsGive DEF ledgerExecuted
<1>7. \E l \in Keys : Actions!Undo(l)
  BY <1>1, <1>2, <1>3, <1>4, <1>5, <1>6
  DEF Actions!Undo, ledgerVerdict, ledgerWish, ledgerExecuted, ledgerFound
<1> QED
  BY <1>7 DEF Actions!ActionNext

\* The form and the publish cron edit the field.
LEMMA RefineEdit ==
    ASSUME NEW v \in Values, Edit(v)
    PROVE  [Actions!ActionNext]_Actions!actionVars
<1>1. UNCHANGED <<ledgerVerdict, ledgerWish, ledgerExecuted, ledgerFound>>
  <2>1. \A k \in Keys, w \in Values : KnownBefore(k, w)' <=> KnownBefore(k, w)
    BY DEF Edit, KnownBefore
  <2> QED
    BY <2>1, RowsGive DEF Edit, ledgerExecuted, ledgerFound
<1>2. Actions!EditField
  BY <1>1
  DEF Edit, Written, Actions!EditField, Actions!Put, ledgerVerdict, ledgerWish,
      ledgerExecuted, ledgerFound
<1> QED
  BY <1>2 DEF Actions!ActionNext

\* Every step of the handlers is a step of the ledger.
LEMMA RefineStep ==
    LedgerInv /\ [AutomationNext]_autoVars => [Actions!ActionNext]_Actions!actionVars
<1> SUFFICES ASSUME LedgerInv, [AutomationNext]_autoVars
             PROVE  [Actions!ActionNext]_Actions!actionVars
  OBVIOUS
<1>0. TypeInv /\ at \in [Callers -> Places]
  BY DEF LedgerInv, TypeInv, AutomationTypeOK
<1>1. ASSUME NEW p \in Callers,
             \/ \E k \in Keys, v \in Targets : Receive(p, k, v)
             \/ \E k \in Keys : OpenDecision(p, k) \/ OpenRollback(p, k)
             \/ Decide(p) \/ Compare(p)
      PROVE  [Actions!ActionNext]_Actions!actionVars
  <2>1. /\ UNCHANGED <<rows, product, writes, edits>> /\ at[p] # "succeed"
        /\ \E place \in {"policy", "insert", "approve", "reject", "compare", "restore", "idle"} :
              Steps(p, place)
    BY <1>0, <1>1
    DEF Receive, OpenDecision, OpenRollback, Decide, Compare, Leave, Steps, Executing,
        TypeInv, AutomationTypeOK
  <2> QED
    BY <1>0, <2>1, Unnoticed
<1>2. ASSUME NEW p \in Callers, ReadProduct(p) \/ ReadFails(p) \/ WriteConflict(p) \/ Start(p)
      PROVE  [Actions!ActionNext]_Actions!actionVars
  <2>1. /\ UNCHANGED <<rows, product, writes, edits>> /\ at[p] # "succeed"
        /\ \E place \in {"write", "fail", "idle"} : Steps(p, place)
    BY <1>0, <1>2, StepsOf, Moves DEF ReadProduct, ReadFails, WriteConflict, Start, Places
  <2> QED
    BY <1>0, <2>1, Unnoticed
<1>3. ASSUME NEW p \in Callers, WriteProduct(p)
      PROVE  [Actions!ActionNext]_Actions!actionVars
  <2>1. job[p] \in Jobs /\ job' = [job EXCEPT ![p].after = product']
        /\ job \in [Callers -> Jobs \cup {NoJob}]
    BY <1>0, <1>3, JobOf DEF WriteProduct, TypeInv, AutomationTypeOK
  <2>2. job'[p].before = job[p].before
    BY <2>1 DEF Jobs
  <2> QED
    BY <1>0, <1>3, <2>2, StepsOf, RefineWrite DEF WriteProduct
<1>4. ASSUME NEW p \in Callers, WriteUnsure(p)
      PROVE  [Actions!ActionNext]_Actions!actionVars
  <2>1. Steps(p, "fail") /\ at[p] = "write"
    BY <1>0, <1>4, StepsOf DEF WriteUnsure, Places
  <2>2. CASE UNCHANGED <<product, writes>>
    BY <1>0, <1>4, <2>1, <2>2, Unnoticed DEF WriteUnsure
  <2>3. CASE product.version = job[p].before.version /\ Write(p, job[p].value)
    BY <1>4, <2>1, <2>3, RefineWrite DEF WriteUnsure
  <2> QED
    BY <1>4, <2>2, <2>3 DEF WriteUnsure
<1>5. ASSUME NEW p \in Callers, Succeed(p) \/ SucceedUnsure(p)
      PROVE  [Actions!ActionNext]_Actions!actionVars
  BY <1>0, <1>5, StepsOf, RefineEnd DEF Succeed, SucceedUnsure, Places
<1>6. ASSUME NEW p \in Callers, Crash(p)
      PROVE  [Actions!ActionNext]_Actions!actionVars
  <2>1. Steps(p, "idle") /\ UNCHANGED <<rows, product, writes, edits>>
    BY <1>0, <1>6, StepsOf DEF Crash
  <2> QED
    BY <1>0, <2>1, Unnoticed, RefineEnd
<1>7. ASSUME NEW p \in Callers, Restore(p) \/ RestoreUnsure(p)
      PROVE  [Actions!ActionNext]_Actions!actionVars
  <2>1. /\ at[p] = "restore" /\ (Steps(p, "idle") \/ Steps(p, "mark"))
        /\ UNCHANGED <<rows, writes, edits>>
    BY <1>0, <1>7, StepsOf DEF Restore, RestoreUnsure, Places
  <2>2. \/ UNCHANGED product
        \/ /\ product.version = job[p].before.version
           /\ product' = Written(product, RowOf(p).before.value)
    BY <1>7 DEF Restore, RestoreUnsure
  <2> QED
    BY <1>0, <2>1, <2>2, Unnoticed, RefineUndo
<1>8. CASE UNCHANGED autoVars
  <2>1. \A k \in Keys, v \in Values : KnownBefore(k, v)' <=> KnownBefore(k, v)
    BY <1>8 DEF autoVars, KnownBefore
  <2> QED
    BY <1>8, <2>1, RowsGive, LedgerVars DEF autoVars, ledgerVars, ledgerExecuted, ledgerFound
<1> QED
  BY <1>1, <1>2, <1>3, <1>4, <1>5, <1>6, <1>7, <1>8, RefineInsert, RefineDecision, RefineEdit,
     AutomationAssumption
  DEF AutomationNext, RequestStep, AdminStep, ExecutorStep, FailureStep, EditProduct,
      ArchiveExpired, Callers

\* Whatever requests with one key, deciders, lost answers, crashes and edits do to one
\* another, the product changes by an edit, by the one execution of a granted action, or
\* by an undo that finds the value the action wrote and puts back the one it replaced.
THEOREM HandlersImplementLedger == AutomationSpec => ImplementsActionLedger
<1>1. AutomationInit => Actions!ActionInit
  <2> SUFFICES ASSUME AutomationInit PROVE Actions!ActionInit
    OBVIOUS
  <2>1. ledgerVerdict = [k \in Keys |-> "none"] /\ ledgerWish = [k \in Keys |-> "none"]
    BY DEF AutomationInit, ledgerVerdict, ledgerWish, Verdict, NoRow
  <2>2. ledgerExecuted = {}
    BY DEF AutomationInit, ledgerExecuted
  <2>3. \A k \in Keys, v \in Values : ~KnownBefore(k, v)
    BY DEF AutomationInit, KnownBefore, NoRow
  <2>4. ledgerFound = {}
    BY <2>3 DEF ledgerFound
  <2> QED
    BY <2>1, <2>2, <2>4
    DEF AutomationInit, Actions!ActionInit, ledgerVerdict, ledgerWish, ledgerExecuted,
        ledgerFound
<1> QED
  BY <1>1, RefineStep, LedgerAlways, PTL
  DEF AutomationSpec, ImplementsActionLedger, Actions!ActionSpec
=============================================================================
