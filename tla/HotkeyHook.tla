----------------------------- MODULE HotkeyHook -----------------------------
(***************************************************************************)
(* The global keyboard hook: the edge tracker that turns keys into         *)
(* dictation signals and decides which keys other programs get to see, the *)
(* Settings recorder's capture mode, the start of the hook, and the        *)
(* rebinding of hold-to-talk while it runs.                                *)
(*                                                                         *)
(* A keyboard event runs under the hook's dispatch mutex and is one        *)
(* action; a rebind takes the settings, the manager and the runtime lock   *)
(* one after the other and is three.  Windows calls the hook for every     *)
(* event while it runs, and VoiceWave's own injected keys pass untouched   *)
(* (they are no action here).                                              *)
(***************************************************************************)
EXTENDS Naturals, FiniteSets

CONSTANTS
  Keys,       \* the physical keys but Escape
  Kind,       \* Kind[k]: the modifier a key is, or "letter", "typing", "plain"
  Escape,     \* the Escape key
  NoKey,      \* the main key of a combo of modifiers only
  ToggleKey,  \* the main key of the fixed hands-free combo
  Choices,    \* the hold-to-talk combos the user picks from
  Default,    \* the hold-to-talk combo the settings start with
  Rebinders,  \* concurrent update_hotkey_config commands
  Recorders,  \* whether Settings may record a shortcut: a set of BOOLEAN
  MaxHeld,    \* bound: keys held at once
  Monitor,    \* the task that starts the hook
  Free        \* the runtime lock's value when nobody holds it

Modifiers == {"Ctrl", "Alt", "Shift", "Windows"}
AllCombos == [mods : SUBSET Modifiers, main : Keys \cup {NoKey}]

\* LOCKED_TOGGLE_HOTKEY: Ctrl+Alt+X.
Toggle == [mods |-> {"Ctrl", "Alt"}, main |-> ToggleKey]

\* What check_usable and the conflict check let through.
Usable(c) ==
  LET bare == c.mods \cap {"Ctrl", "Alt", "Windows"} = {} IN
  /\ c # Toggle
  /\ IF c.main = NoKey
     THEN Cardinality(c.mods) >= 2 /\ "Windows" \in c.mods
     ELSE LET typing == Kind[c.main] \in {"letter", "typing"} IN
          /\ Kind[c.main] \notin Modifiers
          /\ ~ (typing /\ bare)
          /\ ~ (Kind[c.main] = "letter" /\ c.mods = {"Ctrl"})
          /\ ~ (typing /\ "Windows" \in c.mods)
          /\ ~ ("Alt" \in c.mods /\ c.mods \cap {"Ctrl", "Windows"} = {})

ASSUME KeyAssumption ==
  /\ Kind \in [Keys -> Modifiers \cup {"letter", "typing", "plain"}]
  /\ ToggleKey \in Keys /\ Kind[ToggleKey] = "letter"
  /\ Escape \notin Keys /\ NoKey \notin Keys \cup {Escape}
ASSUME ComboAssumption ==
  /\ Choices \subseteq AllCombos
  /\ Default \in Choices
  /\ \A c \in Choices : Usable(c)
ASSUME RebinderAssumption ==
  Monitor \notin Rebinders /\ Free # Monitor /\ Recorders \subseteq BOOLEAN /\ MaxHeld \in Nat

VARIABLES
  held,        \* the keys the user holds down, Escape included
  apps,        \* apps[k]: what other programs were last told of key k
  running,     \* the hook is installed and its runtime is in the slot
  push,        \* tracker.push_to_talk
  keysDown,    \* tracker.keys_down
  swallowed,   \* tracker.swallowed
  escapeDown,  \* tracker.escape_down
  escapeOwned, \* tracker.escape_owned
  capture,     \* tracker.capture_until lies in the future
  dictating,   \* dictation_active
  talking,     \* the last push-to-talk edge sent was a press
  settings,    \* settings.push_to_talk_hotkey
  manager,     \* hotkey_manager's config
  slot,        \* the hotkey_runtime lock: Free or its holder
  pc,          \* where each rebind, and the monitor, is
  want         \* the combo each of them works with

keyVars == <<keysDown, swallowed, escapeDown, escapeOwned>>
worldVars == <<running, push, capture, dictating>>
bindVars == <<settings, manager, slot, pc, want>>
vars == <<held, apps, talking, keyVars, worldVars, bindVars>>

Tasks == Rebinders \cup {Monitor}

TypeOK ==
  /\ held \subseteq Keys \cup {Escape}
  /\ apps \in [Keys \cup {Escape} -> {"up", "down", "old", "stray"}]
  /\ running \in BOOLEAN
  /\ push \in Choices
  /\ keysDown \subseteq Keys
  /\ swallowed \subseteq keysDown
  /\ escapeDown \in BOOLEAN
  /\ escapeOwned \in BOOLEAN /\ (escapeOwned => escapeDown)
  /\ capture \in BOOLEAN
  /\ dictating \in BOOLEAN
  /\ talking \in BOOLEAN
  /\ settings \in Choices
  /\ manager \in Choices
  /\ slot \in {Free, Monitor}
  /\ pc \in [Tasks -> {"idle", "manager", "runtime", "start"}]
  /\ want \in [Tasks -> Choices]

Init ==
  /\ held = {}
  /\ apps = [k \in Keys \cup {Escape} |-> "up"]
  /\ running = FALSE
  /\ push = Default
  /\ keysDown = {} /\ swallowed = {}
  /\ escapeDown = FALSE /\ escapeOwned = FALSE
  /\ capture = FALSE /\ dictating = FALSE
  /\ talking = FALSE
  /\ settings = Default /\ manager = Default
  /\ slot = Free
  /\ pc = [t \in Tasks |-> "idle"]
  /\ want = [t \in Tasks |-> Default]

-----------------------------------------------------------------------------
(* Combos and what other programs see. *)

HeldMods(down) == {Kind[k] : k \in down} \cap Modifiers

IsActive(c, down) ==
  c.mods = HeldMods(down) /\ (c.main = NoKey \/ c.main \in down)

SwallowsMain(c) == c.main # NoKey /\ "Windows" \notin c.mods

\* Slip: A further modifier does not end push-to-talk, but keeps it from starting.
PushEdgeUneven(down) ==
  LET was == IsActive(push, keysDown)
      is == IsActive(push, down) IN
  (IF ~ was /\ is THEN {"pressed"} ELSE {}) \cup
  (IF was /\ ~ (push.mods \subseteq HeldMods(down)) THEN {"released"} ELSE {})

\* The edge of the push combo when the tracked keys become down.
PushEdge(down) ==
  LET was == IsActive(push, keysDown)
      is == IsActive(push, down) IN
  (IF ~ was /\ is THEN {"pressed"} ELSE {}) \cup
  (IF was /\ ~ is THEN {"released"} ELSE {})

\* What an event puts in the hook's channel: push-to-talk edges "pressed" and
\* "released", "toggle" and "cancel", or "capture" for the recorder.  They are
\* DictationSession's inputs; here only the last edge is kept.
Send(signals) ==
  talking' = ("pressed" \in signals \/ (talking /\ "released" \notin signals))

\* A press, or the repeat of one, reaches other programs unless consumed.  A
\* key that was down before the hook ran is "old" until they see it go up.
TellPress(k, consume) ==
  apps' = IF consume \/ apps[k] # "up" THEN apps ELSE [apps EXCEPT ![k] = "down"]

\* So does a release; one of a key they never saw go down is "stray".
TellRelease(k, consume) ==
  apps' = IF consume THEN apps
          ELSE [apps EXCEPT ![k] = IF apps[k] = "up" THEN "stray" ELSE "up"]

-----------------------------------------------------------------------------
(* Keyboard events.  While the lease runs, an event goes to the recorder   *)
(* (the Capture actions) if a VoiceWave window is in front when it happens, *)
(* and that may change from one event to the next.                         *)

\* The bound on the keys held at once.
Room(k) == k \in held \/ Cardinality(held) < MaxHeld

\* A key event while no hook is installed: other programs get it.
KeyWithoutHook(k) ==
  /\ ~ running /\ Room(k)
  /\ held' = IF k \in held THEN held \ {k} ELSE held \cup {k}
  /\ apps' = [apps EXCEPT ![k] = IF k \in held THEN "up" ELSE "old"]
  /\ UNCHANGED <<talking, keyVars, worldVars, bindVars>>

\* The auto-repeat of a tracked key sends nothing and goes where its press went.
Repeat(k) ==
  /\ running /\ k \in held \cap keysDown
  /\ TellPress(k, k \in swallowed)
  /\ Send({})
  /\ UNCHANGED <<held, keyVars, worldVars, bindVars>>

\* handle_key_event, a press that is news to the tracker: the user's, or the
\* first repeat of a key that was down before the hook ran.
Press(k) ==
  LET down == keysDown \cup {k}
      toggles == k = Toggle.main /\ IsActive(Toggle, down)
      consume == \/ toggles /\ SwallowsMain(Toggle)
                 \/ k = push.main /\ IsActive(push, down) /\ SwallowsMain(push) IN
  /\ running /\ k \notin keysDown /\ Room(k)
  /\ held' = held \cup {k}
  /\ keysDown' = down
  /\ swallowed' = IF consume THEN swallowed \cup {k} ELSE swallowed
  /\ TellPress(k, consume)
  /\ Send((IF toggles THEN {"toggle"} ELSE {}) \cup PushEdge(down))
  /\ UNCHANGED <<escapeDown, escapeOwned, worldVars, bindVars>>

\* Slip: A release is swallowed by the combo of the moment, not by its press.
ReleaseByCombo(k) ==
  /\ running /\ k \in held
  /\ held' = held \ {k}
  /\ keysDown' = keysDown \ {k}
  /\ swallowed' = swallowed \ {k}
  /\ TellRelease(k, k = push.main /\ IsActive(push, keysDown) /\ SwallowsMain(push))
  /\ Send(PushEdge(keysDown \ {k}))
  /\ UNCHANGED <<escapeDown, escapeOwned, worldVars, bindVars>>

\* handle_key_event, a release: it goes where its press went.
Release(k) ==
  /\ running /\ k \in held
  /\ held' = held \ {k}
  /\ keysDown' = keysDown \ {k}
  /\ swallowed' = swallowed \ {k}
  /\ TellRelease(k, k \in swallowed)
  /\ Send(PushEdge(keysDown \ {k}))
  /\ UNCHANGED <<escapeDown, escapeOwned, worldVars, bindVars>>

\* capture_key_event, a press that is news: swallowed and reported.
CapturePress(k) ==
  /\ running /\ capture /\ k \notin keysDown /\ Room(k)
  /\ held' = held \cup {k}
  /\ keysDown' = keysDown \cup {k}
  /\ swallowed' = swallowed \cup {k}
  /\ TellPress(k, TRUE)
  /\ Send({"capture"})
  /\ UNCHANGED <<escapeDown, escapeOwned, worldVars, bindVars>>

\* Slip: The recorder's releases leave the tracked keys alone.
CaptureReleaseForgets(k) ==
  /\ running /\ capture /\ k \in held
  /\ held' = held \ {k}
  /\ UNCHANGED <<keysDown, swallowed>>
  /\ TellRelease(k, k \in swallowed)
  /\ Send(IF k \in keysDown THEN {"capture"} ELSE {})
  /\ UNCHANGED <<escapeDown, escapeOwned, worldVars, bindVars>>

\* capture_key_event, a release: reported if its press was tracked.
CaptureRelease(k) ==
  /\ running /\ capture /\ k \in held
  /\ held' = held \ {k}
  /\ keysDown' = keysDown \ {k}
  /\ swallowed' = swallowed \ {k}
  /\ TellRelease(k, k \in swallowed)
  /\ Send(IF k \in keysDown THEN {"capture"} ELSE {})
  /\ UNCHANGED <<escapeDown, escapeOwned, worldVars, bindVars>>

\* Escape goes down, or repeats: the press decides who owns it till it is up.
PressEscape(recording) ==
  LET owned == IF escapeDown THEN escapeOwned ELSE recording \/ dictating IN
  /\ running /\ (recording => capture) /\ Room(Escape)
  /\ held' = held \cup {Escape}
  /\ escapeDown' = TRUE
  /\ escapeOwned' = owned
  /\ TellPress(Escape, owned)
  /\ Send(IF escapeDown \/ ~ owned THEN {}
          ELSE IF recording THEN {"capture"} ELSE {"cancel"})
  /\ UNCHANGED <<keysDown, swallowed, worldVars, bindVars>>

ReleaseEscape ==
  /\ running /\ Escape \in held
  /\ held' = held \ {Escape}
  /\ escapeDown' = FALSE
  /\ escapeOwned' = FALSE
  /\ TellRelease(Escape, escapeOwned)
  /\ Send({})
  /\ UNCHANGED <<keysDown, swallowed, worldVars, bindVars>>

Keyboard ==
  \/ \E recording \in BOOLEAN : PressEscape(recording)
  \/ ReleaseEscape
  \/ \E k \in Keys : Repeat(k) \/ Press(k) \/ Release(k)
                     \/ CapturePress(k) \/ CaptureRelease(k)
  \/ \E k \in Keys \cup {Escape} : KeyWithoutHook(k)

-----------------------------------------------------------------------------
(* What the rest of VoiceWave, and the desktop, do meanwhile. *)

\* set_hotkey_capture; set_capture reaches a running hook only.
SetCapture(on) ==
  /\ slot = Free /\ running
  /\ capture' = on
  /\ UNCHANGED <<held, apps, talking, keyVars, running, push, dictating, bindVars>>

\* CAPTURE_LEASE runs out.
LeaseLapses ==
  /\ capture
  /\ capture' = FALSE
  /\ UNCHANGED <<held, apps, talking, keyVars, running, push, dictating, bindVars>>

\* set_hotkey_dictation_active, from every change of the dictation's state.
SetDictationActive(on) ==
  /\ slot = Free /\ running
  /\ dictating' = on
  /\ UNCHANGED <<held, apps, talking, keyVars, running, push, capture, bindVars>>

\* A task is through, and forgets what it worked with.
Done(t) ==
  /\ pc' = [pc EXCEPT ![t] = "idle"]
  /\ want' = [want EXCEPT ![t] = Default]

\* ensure_hotkey_runtime_monitor takes the slot and reads the manager.
StartBegins ==
  /\ slot = Free /\ ~ running /\ pc[Monitor] = "idle"
  /\ slot' = Monitor
  /\ want' = [want EXCEPT ![Monitor] = manager]
  /\ pc' = [pc EXCEPT ![Monitor] = "start"]
  /\ UNCHANGED <<held, apps, talking, keyVars, worldVars, settings, manager>>

\* HotkeyRuntime::start installed the hook; its tracker is new.
HookStarts ==
  /\ pc[Monitor] = "start"
  /\ running' = TRUE
  /\ push' = want[Monitor]
  /\ slot' = Free
  /\ Done(Monitor)
  /\ UNCHANGED <<held, apps, talking, keyVars, capture, dictating, settings, manager>>

\* It could not; a later call may try again.
HookFails ==
  /\ pc[Monitor] = "start"
  /\ slot' = Free
  /\ Done(Monitor)
  /\ UNCHANGED <<held, apps, talking, keyVars, worldVars, settings, manager>>

\* update_hotkey_config: the combo is usable and the settings are saved (a
\* failed save changes nothing and ends the command).
RebindSaves(r) ==
  /\ pc[r] = "idle"
  /\ \E c \in Choices :
       /\ settings' = c
       /\ want' = [want EXCEPT ![r] = c]
  /\ pc' = [pc EXCEPT ![r] = "manager"]
  /\ UNCHANGED <<held, apps, talking, keyVars, worldVars, manager, slot>>

RebindManager(r) ==
  /\ pc[r] = "manager"
  /\ manager' = want[r]
  /\ pc' = [pc EXCEPT ![r] = "runtime"]
  /\ UNCHANGED <<held, apps, talking, keyVars, worldVars, settings, slot, want>>

\* Slip: The hook's combo is swapped without waiting for its start to finish.
RebindHookUnlocked(r) ==
  /\ pc[r] = "runtime"
  /\ push' = IF running THEN want[r] ELSE push
  /\ Done(r)
  /\ UNCHANGED <<held, apps, talking, keyVars, running, capture, dictating,
                 settings, manager, slot>>

\* The running hook's combo is swapped; what it tracks of the keys stays.
RebindHook(r) ==
  /\ pc[r] = "runtime"
  /\ slot = Free
  /\ push' = IF running THEN want[r] ELSE push
  /\ Done(r)
  /\ UNCHANGED <<held, apps, talking, keyVars, running, capture, dictating,
                 settings, manager, slot>>

Next ==
  \/ Keyboard
  \/ \E on \in Recorders : SetCapture(on)
  \/ LeaseLapses
  \/ \E on \in BOOLEAN : SetDictationActive(on)
  \/ StartBegins \/ HookStarts \/ HookFails
  \/ \E r \in Rebinders : RebindSaves(r) \/ RebindManager(r) \/ RebindHook(r)

Spec == Init /\ [][Next]_vars

-----------------------------------------------------------------------------
(* Properties. *)

\* The tracker never believes a key down that is up, however capture, rebinds
\* and the hook's own start fall between its press and its release: a ghost
\* modifier would keep every shortcut from firing again (exact match in
\* parsed_is_active).
NoGhostKeys ==
  keysDown \subseteq held /\ (escapeDown => Escape \in held)

\* Other programs are told of the release of a key exactly when they were told
\* of its press, although capture, the combos and Escape's owner may all have
\* changed between the two: no key is left stuck and none goes up unpressed.
NothingStuckInApps ==
  \A k \in Keys \cup {Escape} :
    apps[k] # "stray" /\ (apps[k] = "down" => k \in held)

\* While the combo stays and no recorder has the keyboard, the push-to-talk
\* edges sent to the controller follow the keys: once in step with the combo,
\* always in step, in whatever order its keys and others come and go.
EdgesFollowKeys ==
  [][(/\ running /\ push' = push /\ ~ capture
      /\ talking = IsActive(push, keysDown))
       => talking' = IsActive(push', keysDown')]_vars

\* Once no rebind is under way the settings, the manager and the running hook
\* name the same combo, wherever the start of the hook fell among them.
RebindSettles ==
  (slot = Free /\ \A r \in Rebinders : pc[r] = "idle")
    => manager = settings /\ (running => push = settings)

=============================================================================
