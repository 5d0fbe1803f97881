---------------------------- MODULE MCMicKeeper -----------------------------
(***************************************************************************)
(* MicKeeper for TLC: two captures, each one call.  The run has a liveness *)
(* property, so their symmetry is not used.                                *)
(***************************************************************************)
EXTENDS MicKeeper
=============================================================================
