-------------------------- MODULE MCModelDownload --------------------------
(* ModelDownload for TLC: a file of two chunks, two requests, one control.  *)
EXTENDS ModelDownload, TLC

AllKinds == {"ggml", "fw"}

\* Requests are alike.
Symmetry == Permutations(Requests)
=============================================================================
