------------------------- MODULE MCFrameCadenceAdapter -------------------------
(* The instance of FrameCadenceAdapter for TLC; the configuration gives the   *)
(* values.                                                                    *)
EXTENDS FrameCadenceAdapter
=============================================================================
