--------------------------- MODULE MCSpeechEngine ---------------------------
(***************************************************************************)
(* SpeechEngine for TLC: a dictation, the prewarm and the checks of both,  *)
(* over two sessions of the app.                                           *)
(***************************************************************************)
EXTENDS SpeechEngine
=============================================================================
