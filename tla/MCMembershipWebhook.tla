------------------------ MODULE MCMembershipWebhook ------------------------
(* Small instances of MembershipWebhook: one owner who subscribes twice. *)
EXTENDS MembershipWebhook, TLC

CONSTANTS s1, s2, h1, h2, ann

MCOwnerOf == [s \in Subs |-> ann]

MCSymmetry == Permutations(Handlers) \cup Permutations(Subs)

\* Purchase, renewal, dispute, deletion.
MCLifeTypes == {"checkout_completed", "invoice_paid", "disputed", "sub_deleted"}

\* What fails to process: a raising renewal, an unknown price.
MCHardTypes == {"checkout_completed", "invoice_paid", "sub_updated_unknown_price"}

MCAllTypes == EventTypes
=============================================================================
