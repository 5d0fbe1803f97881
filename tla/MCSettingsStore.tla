-------------------------- MODULE MCSettingsStore --------------------------
(* The settings with every command that writes them. *)
EXTENDS SettingsStore
=============================================================================
