-------------------------- MODULE MCClickPipeline --------------------------
(* Small instances of ClickPipeline. *)
EXTENDS ClickPipeline

CONSTANTS c1, c2, w1, w2, op
=============================================================================
