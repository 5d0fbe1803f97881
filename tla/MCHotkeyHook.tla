---------------------------- MODULE MCHotkeyHook ----------------------------
(***************************************************************************)
(* HotkeyHook for TLC: the keys the combos need, the shortcuts a user may  *)
(* pick, and the default one.                                              *)
(***************************************************************************)
EXTENDS HotkeyHook, TLC

MCKeys == {"ctrl", "alt", "win", "x", "f9"}
MCKind == "ctrl" :> "Ctrl" @@ "alt" :> "Alt" @@ "win" :> "Windows"
          @@ "x" :> "letter" @@ "f9" :> "plain"

CtrlWindows == [mods |-> {"Ctrl", "Windows"}, main |-> "none"]
F9 == [mods |-> {}, main |-> "f9"]

MCChoices == {CtrlWindows, F9}
=============================================================================
