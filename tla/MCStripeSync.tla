---------------------------- MODULE MCStripeSync ----------------------------
(* Small instances of StripeSync. *)
EXTENDS StripeSync

CONSTANTS s1, s2, h1, sync, ann

MCOwnerOf == [s \in Subs |-> ann]

MCSyncTypes == {"checkout_completed", "payment_failed", "disputed", "sub_deleted"}

\* With an event that can never be processed, and so ends every run that meets it.
MCCronTypes == MCSyncTypes \cup {"sub_updated_unknown_price"}
=============================================================================
