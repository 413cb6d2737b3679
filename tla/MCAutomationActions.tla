------------------------- MODULE MCAutomationActions -------------------------
(* Small instances of AutomationActions. *)
EXTENDS AutomationActions, TLC

CONSTANTS k1, k2, k3, r1, r2, a1, a2

MCSymmetry == Permutations(Requests) \cup Permutations(Admins) \cup Permutations(Keys)
=============================================================================
