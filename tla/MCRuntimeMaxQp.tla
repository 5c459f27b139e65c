---------------------------- MODULE MCRuntimeMaxQp ----------------------------
(* The instance of RuntimeMaxQp for TLC; the configurations give the values.  *)
EXTENDS RuntimeMaxQp
=============================================================================
