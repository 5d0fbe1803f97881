--------------------------- MODULE SettingsStore ---------------------------
(***************************************************************************)
(* The settings in memory and on disk, and the commands of state.rs that   *)
(* write them: a window's copy (update_settings and the setters that go    *)
(* through it), a new shortcut (update_hotkey_config), and the active      *)
(* model or the diagnostics switch (set_active_model,                      *)
(* set_diagnostics_opt_in).  The first two hold the settings lock over     *)
(* their save; the others take it only to read and to store.               *)
(***************************************************************************)
EXTENDS Naturals

CONSTANTS
  Commands,      \* commands that may be in flight
  Writers,       \* the kinds of them: "copy", "rebind", "model"
  Free,          \* nobody holds the settings lock
  MaxWrites      \* bound on commands

VARIABLES
  settings,  \* the settings in memory: the shortcut, the model, the rest
  disk,      \* settings.json
  owner,     \* holder of the settings lock
  spc,       \* where each command is
  mine,      \* the settings each command is writing
  bound,     \* (history) the shortcut the user recorded last
  writes     \* commands so far

settingsVars == <<settings, disk, owner, spc, mine, bound, writes>>

Default == [shortcut |-> 0, model |-> 0, rest |-> 0]

SettingsInit ==
  /\ settings = Default /\ disk = Default /\ owner = Free
  /\ spc = [c \in Commands |-> "idle"] /\ mine = [c \in Commands |-> Default]
  /\ bound = 0 /\ writes = 0

Goes(c, from, to) == spc[c] = from /\ spc' = [spc EXCEPT ![c] = to]
Writes(c, s) == mine' = [mine EXCEPT ![c] = s]
Counted(kind) == kind \in Writers /\ writes < MaxWrites /\ writes' = writes + 1

\* The window, or a setter, copies the settings and changes something.
CopySettings(c) ==
  /\ Counted("copy") /\ Goes(c, "idle", "update") /\ owner = Free
  /\ Writes(c, [settings EXCEPT !.rest = writes'])
  /\ UNCHANGED <<settings, disk, owner, bound>>

\* update_settings: the shortcuts have one writer, which is not this one.
Update(c) ==
  /\ Goes(c, "update", "store") /\ owner = Free /\ owner' = c
  /\ Writes(c, [mine[c] EXCEPT !.shortcut = settings.shortcut])
  /\ disk' = mine'[c]
  /\ UNCHANGED <<settings, bound, writes>>

Rebind(c) ==
  /\ Counted("rebind") /\ Goes(c, "idle", "store") /\ owner = Free /\ owner' = c
  /\ Writes(c, [settings EXCEPT !.shortcut = writes'])
  /\ disk' = mine'[c] /\ bound' = writes'
  /\ UNCHANGED settings

\* The end of the critical section.
StoreLocked(c) ==
  /\ Goes(c, "store", "idle") /\ owner = c /\ owner' = Free
  /\ settings' = mine[c]
  /\ UNCHANGED <<disk, mine, bound, writes>>

\* set_active_model, set_diagnostics_opt_in: a clone, a save, and a store.
CloneForModel(c) ==
  /\ Counted("model") /\ Goes(c, "idle", "saveModel") /\ owner = Free
  /\ Writes(c, [settings EXCEPT !.model = writes'])
  /\ UNCHANGED <<settings, disk, owner, bound>>

SaveModel(c) ==
  /\ Goes(c, "saveModel", "storeModel") /\ disk' = mine[c]
  /\ UNCHANGED <<settings, owner, mine, bound, writes>>

StoreModel(c) ==
  /\ Goes(c, "storeModel", "idle") /\ owner = Free
  /\ settings' = mine[c]
  /\ UNCHANGED <<disk, owner, mine, bound, writes>>

SettingsNext ==
  \E c \in Commands :
    \/ CopySettings(c) \/ Update(c) \/ Rebind(c) \/ StoreLocked(c)
    \/ CloneForModel(c) \/ SaveModel(c) \/ StoreModel(c)

SettingsSpec == SettingsInit /\ [][SettingsNext]_settingsVars

-----------------------------------------------------------------------------

\* "A UI settings copy that predates a rebind can never revert it."
RebindSticks ==
  (\A c \in Commands : spc[c] = "idle") => settings.shortcut = bound

=============================================================================
