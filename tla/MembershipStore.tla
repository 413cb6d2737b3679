-------------------------- MODULE MembershipStore --------------------------
(***************************************************************************)
(* The memberships table and what the Postgres function                    *)
(* apply_stripe_membership_event does to it                                *)
(* (supabase/migrations/2026062501_orphan_subscription_handling.sql, the   *)
(* last CREATE OR REPLACE of that function).                               *)
(*                                                                         *)
(* A row is identified by its stripe_subscription_id, which a partial      *)
(* unique index makes unique; "none" is the absence of a row.  An owner is *)
(* a pair (email, site_id): a second partial unique index allows one       *)
(* active row for each.  Tier, customer and billing period are data no     *)
(* property here depends on.                                               *)
(***************************************************************************)
CONSTANTS Subs,      \* Stripe subscription ids
          Owners,    \* (email, site_id) pairs
          OwnerOf    \* the owner that subscribed

ASSUME OwnerOfAssumption == OwnerOf \in [Subs -> Owners]

\* The CHECK constraint of the status column.
Statuses == {"active", "cancelled", "expired", "past_due", "disputed"}

Tables == [Subs -> Statuses \cup {"none"}]

EmptyTable == [s \in Subs |-> "none"]

(***************************************************************************)
(* The op a Stripe event is translated to: "status" is the value the op    *)
(* writes, the column default "active" for an insert.                      *)
(***************************************************************************)
Ops == [kind : {"create", "renew", "update", "cancel", "noop"},
        sub : Subs, status : Statuses]

Create(s)     == [kind |-> "create", sub |-> s, status |-> "active"]
Renew(s)      == [kind |-> "renew",  sub |-> s, status |-> "active"]
Update(s, st) == [kind |-> "update", sub |-> s, status |-> st]
Cancel(s)     == [kind |-> "cancel", sub |-> s, status |-> "cancelled"]
Noop(s)       == [kind |-> "noop",   sub |-> s, status |-> "active"]

Updates(op) == op.kind \in {"renew", "update", "cancel"}

\* Another subscription of the same owner holds the owner's active slot
\* (unique index idx_memberships_email_site).
SlotTaken(table, s) ==
    \E t \in Subs \ {s} : OwnerOf[t] = OwnerOf[s] /\ table[t] = "active"

(***************************************************************************)
(* The INSERT of create_membership trips over either unique index, and the *)
(* sub-block catches both: the email-site index, and the one on            *)
(* stripe_subscription_id.  The subscription is then returned as an orphan *)
(* and no row is written.                                                  *)
(***************************************************************************)
Orphans(table, op) ==
    op.kind = "create" /\ (table[op.sub] # "none" \/ SlotTaken(table, op.sub))

\* Mutant: no unique index on (email, site_id).
RaisesNever(table, op) == FALSE

\* An UPDATE that makes a second row of the owner active violates the index
\* outside any sub-block: the whole transaction, event row included, aborts.
Raises(table, op) ==
    /\ Updates(op) /\ table[op.sub] # "none"
    /\ op.status = "active" /\ SlotTaken(table, op.sub)

\* The UPDATE matches no row; the function commits all the same.
Misses(table, op) == Updates(op) /\ table[op.sub] = "none"

Writes(table, op) ==
    \/ op.kind = "create" /\ ~Orphans(table, op)
    \/ Updates(op) /\ table[op.sub] # "none"

\* The table the transaction commits.
After(table, op) ==
    IF Writes(table, op) THEN [table EXCEPT ![op.sub] = op.status] ELSE table

\* What the function returns for a fresh event id.
Reply(table, op) ==
    CASE Orphans(table, op) -> "orphan"
      [] Misses(table, op)  -> "no_row"
      [] OTHER              -> "applied"

\* No owner has two active memberships.
OneActive(table) ==
    \A s, t \in Subs :
        table[s] = "active" /\ table[t] = "active" /\ OwnerOf[s] = OwnerOf[t] => s = t
=============================================================================
