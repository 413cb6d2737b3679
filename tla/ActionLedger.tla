---------------------------- MODULE ActionLedger ----------------------------
(***************************************************************************)
(* What the automation API promises, without requests, retries or faults:  *)
(* each idempotency key gets one verdict, a product changes for it at most *)
(* once and only when granted, and an undo puts back what that change      *)
(* replaced, unless the product has a value of somebody else's by then     *)
(* (docs/automation-api.md:462-469, 570-585).  What a change replaced may  *)
(* be forgotten, when the call that should record it is lost.              *)
(***************************************************************************)
EXTENDS Naturals

CONSTANTS Keys, Values

VARIABLES product,   \* the value of the field and the version of the row
          edits,     \* writes by the form and the publish cron
          verdict,   \* on each key: none, waiting, granted or refused
          wish,      \* what each action sets the field to
          executed,  \* keys that changed the product
          found      \* pairs of a key and the value it replaced

actionVars == <<product, edits, verdict, wish, executed, found>>

ActionInit ==
    /\ product \in [value : Values, version : {1}] /\ edits = 0
    /\ verdict = [k \in Keys |-> "none"] /\ wish = [k \in Keys |-> "none"]
    /\ executed = {} /\ found = {}

Put(v) == product' = [value |-> v, version |-> product.version + 1]

Judge(k) ==
    /\ verdict[k] = "none"
    /\ \E v \in Values : wish' = [wish EXCEPT ![k] = v]
    /\ \E d \in {"waiting", "granted", "refused"} : verdict' = [verdict EXCEPT ![k] = d]
    /\ UNCHANGED <<product, edits, executed, found>>

Resolve(k) ==
    /\ verdict[k] = "waiting"
    /\ \E d \in {"granted", "refused"} : verdict' = [verdict EXCEPT ![k] = d]
    /\ UNCHANGED <<product, edits, wish, executed, found>>

Execute(k) ==
    /\ verdict[k] = "granted" /\ k \notin executed
    /\ Put(wish[k])
    /\ executed' = executed \cup {k}
    /\ found' = found \/ found' = found \cup {<<k, product.value>>}
    /\ UNCHANGED <<edits, verdict, wish>>

Forget(k) ==
    /\ found' = {f \in found : f[1] # k}
    /\ UNCHANGED <<product, edits, verdict, wish, executed>>

Undo(k) ==
    /\ product.value = wish[k]
    /\ \E v \in Values : <<k, v>> \in found /\ Put(v)
    /\ UNCHANGED <<edits, verdict, wish, executed, found>>

EditField ==
    /\ \E v \in Values : Put(v)
    /\ edits' = edits + 1
    /\ UNCHANGED <<verdict, wish, executed, found>>

ActionNext ==
    \/ \E k \in Keys : Judge(k) \/ Resolve(k) \/ Execute(k) \/ Forget(k) \/ Undo(k)
    \/ EditField

ActionSpec == ActionInit /\ [][ActionNext]_actionVars
=============================================================================
