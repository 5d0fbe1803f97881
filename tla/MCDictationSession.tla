------------------------- MODULE MCDictationSession -------------------------
(***************************************************************************)
(* DictationSession for TLC.  Each .cfg names the threads, the operations  *)
(* the environment uses, the ways a run may end early, and the bounds.     *)
(***************************************************************************)
EXTENDS DictationSession, TLC

\* Window threads are interchangeable, and so are double-tap tasks.
Symmetry == Permutations(Ui) \cup Permutations(Timers)
=============================================================================
