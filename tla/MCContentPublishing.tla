------------------------ MODULE MCContentPublishing ------------------------
(* Small instances of ContentPublishing. *)
EXTENDS ContentPublishing

CONSTANTS d1, d2, p1, p2, r1, c1, human
=============================================================================
