-------------------------- MODULE DictationSession --------------------------
(***************************************************************************)
(* The life of a dictation in VoiceWaveController: start admission, the    *)
(* hold-to-talk / hands-free controls, finish, cancel, the flow task of    *)
(* each session with its phases, and its cleanup.  Commands arrive on      *)
(* concurrent threads: the hotkey dispatcher (one task, one event at a     *)
(* time), the Tauri commands of the windows, and the tasks that wait out   *)
(* the double-tap window.  Each accepted dictation runs as a task of its   *)
(* own, which may outlive its session.                                     *)
(*                                                                         *)
(* An action is one critical section of the code: what a thread does       *)
(* between two points at which another thread may get in.  The lifecycle   *)
(* gate is a variable because start admission holds it over several of     *)
(* them; cancel, a run's HUD update and flow cleanup take and release it   *)
(* within one action.                                                      *)
(***************************************************************************)
EXTENDS Naturals, FiniteSets

CONSTANTS
  MaxSession,  \* bound: session ids are 1..MaxSession (session_counter)
  MaxInputs,   \* bound: commands and key events the environment issues
  Hotkey,      \* the hotkey dispatcher task
  Ui,          \* threads serving window commands
  Timers,      \* bound: double-tap windows that can be open at once
  Free,        \* the lifecycle gate's value when nobody holds it
  Ops,         \* operations the environment uses (a subset of AllOps)
  Faults,      \* ways a run may end early (a subset of AllFaults)
  Spoken       \* what a decode may yield (a subset of AllSpoken)

AllOps == {"press", "release", "toggle", "escape",
           "start", "fixture", "retry", "stop", "cancel", "undo", "check"}
AllFaults == {"missingModel", "micError", "noSpeech", "cap", "engine",
              "tooShort", "decodeError", "timeout", "empty", "unheard",
              "clipboardOnly", "insertFailed", "insertError", "enterFailed"}
AllSpoken == {"text", "textEnter", "enter"}

Callers == {Hotkey} \cup Ui \cup Timers

\* An input starts at most one session, so every start finds an id.
ASSUME BoundAssumption ==
  MaxSession \in Nat /\ MaxInputs \in Nat /\ MaxInputs <= MaxSession
ASSUME CallerAssumption ==
  /\ Hotkey \notin Ui \cup Timers
  /\ Ui \cap Timers = {}
  /\ Free \notin Callers
ASSUME ScopeAssumption ==
  Ops \subseteq AllOps /\ Faults \subseteq AllFaults /\ Spoken \subseteq AllSpoken

Sid == 1 .. MaxSession

\* 0 stands for "no session" in every slot: ids start at 1.
SidOrNone == 0 .. MaxSession

States == {"Idle", "Listening", "ReleasePending", "Transcribing", "Inserted", "Error"}
Huds == {"Idle", "Listening", "Transcribing", "Inserted", "Error"}
Triggers == {"Manual", "HandsFreeHotkey", "PushToTalk"}
Modes == {"HoldToTalk", "HandsFree"}
Kinds == {"Mic", "Fixture", "Retry"}

VARIABLES
  gate,       \* lifecycle_gate: Free, or the caller whose admission holds it
  active,     \* active_session (sid = 0: None)
  counter,    \* session_counter
  tokenSlot,  \* cancel_token: the session whose token is in the slot, or 0
  cancelled,  \* the sessions whose token is cancelled
  stopSlot,   \* stop_flag: the session whose flag is in the slot, or 0
  stopped,    \* the sessions whose stop flag is set
  hud,        \* snapshot.state
  esc,        \* the hook's dictation_active: Escape is swallowed and cancels
  submit,     \* submit_pending_session
  retained,   \* retained_capture: bound to sid, recorded by session clip
  pc,         \* pc[s]: where the flow task of session s is
  kind,       \* kind[s]: Mic, Fixture or Retry
  clip,       \* clip[s]: the session that recorded the audio s works on, or 0
  enter,      \* enter[s]: the transcript ended in a spoken "press enter"
  landed,     \* landed[s]: what became of the text of s
  failed,     \* the sessions whose flow returned Err
  pressed,    \* the sessions that pressed Enter
  cut,        \* cut[s]: how far s was when a cancel or a new session hit it
  cpc,        \* cpc[c]: where caller c is
  cs,         \* cs[c]: the session (or clip) caller c works on
  keyDown,    \* the hold-to-talk key is physically down
  inputs      \* commands issued so far

session == <<active, counter, cancelled, stopped, tokenSlot, stopSlot>>
surface == <<hud, esc, submit>>
flow == <<pc, kind, clip, enter, landed, failed, pressed, cut>>
env == <<cpc, cs, keyDown, inputs>>
vars == <<gate, session, surface, retained, flow, env>>

Sessions == [sid: SidOrNone, trigger: Triggers, mode: Modes, state: States,
             pending: BOOLEAN, old: BOOLEAN]
NoSession == [sid |-> 0, trigger |-> "Manual", mode |-> "HoldToTalk",
              state |-> "Idle", pending |-> FALSE, old |-> FALSE]
KeptAudio == [sid: SidOrNone, clip: SidOrNone]
NoAudio == [sid |-> 0, clip |-> 0]

RunPcs == {"none", "admitted", "spawned", "showFixture", "preflight", "micOpen",
           "recording", "captured", "keep", "engine", "enterTranscribing",
           "showTranscribing", "decode", "command", "enterAlone", "format",
           "insertCheck", "insert", "showInsert", "errorState", "delay",
           "pressEnter", "enterDone", "enterInserted", "showEnter",
           "markInserted", "endIdle", "showIdle", "cleanup", "done"}
CallerPcs == {"idle", "admitPush", "admitHandsFree", "admitRetry", "arm", "flag",
              "announce", "wait", "finish", "stop", "paint", "lockPaint",
              "checkShow", "checkEnd"}
Landings == {"no", "inserted", "clipboardOnly", "insertFailed", "insertError"}
Cuts == {"no", "beforeText", "beforeEnter", "late"}

TypeOK ==
  /\ gate \in Callers \cup {Free}
  /\ active \in Sessions
  /\ counter \in SidOrNone
  /\ tokenSlot \in SidOrNone /\ stopSlot \in SidOrNone
  /\ cancelled \subseteq Sid /\ stopped \subseteq Sid
  /\ hud \in Huds /\ esc \in BOOLEAN /\ submit \in SidOrNone
  /\ retained \in KeptAudio
  /\ pc \in [Sid -> RunPcs] /\ kind \in [Sid -> Kinds]
  /\ clip \in [Sid -> SidOrNone] /\ enter \in [Sid -> BOOLEAN]
  /\ landed \in [Sid -> Landings]
  /\ failed \subseteq Sid /\ pressed \subseteq Sid
  /\ cut \in [Sid -> Cuts]
  /\ cpc \in [Callers -> CallerPcs] /\ cs \in [Callers -> SidOrNone]
  /\ keyDown \in BOOLEAN /\ inputs \in 0 .. MaxInputs

Init ==
  /\ gate = Free
  /\ active = NoSession
  /\ counter = 0
  /\ tokenSlot = 0 /\ cancelled = {}
  /\ stopSlot = 0 /\ stopped = {}
  /\ hud = "Idle" /\ esc = FALSE /\ submit = 0
  /\ retained = NoAudio
  /\ pc = [s \in Sid |-> "none"]
  /\ kind = [s \in Sid |-> "Mic"]
  /\ clip = [s \in Sid |-> 0]
  /\ enter = [s \in Sid |-> FALSE]
  /\ landed = [s \in Sid |-> "no"]
  /\ failed = {} /\ pressed = {}
  /\ cut = [s \in Sid |-> "no"]
  /\ cpc = [c \in Callers |-> "idle"]
  /\ cs = [c \in Callers |-> 0]
  /\ keyDown = FALSE /\ inputs = 0

-----------------------------------------------------------------------------
(* The decision functions of state.rs. *)

Terminal == {"Idle", "Inserted", "Error"}

\* live_cancel_token_is_stale: the token outlived its session.
TokenIsStale == active.sid = 0 \/ active.state \in Terminal

PressDecision ==
  IF TokenIsStale THEN "Start"
  ELSE IF active.state # "Listening" THEN "Ignore"
  ELSE IF active.mode = "HandsFree" THEN "FinishHandsFree"
  ELSE IF active.pending THEN "LockHandsFree" ELSE "Ignore"

ToggleDecision ==
  IF TokenIsStale THEN "Start"
  ELSE IF active.mode = "HandsFree" THEN "Finish" ELSE "IgnoreHoldToTalk"

\* old: the session is older than HANDS_FREE_DOUBLE_TAP_MAX_HOLD.
ReleaseDecision(old) ==
  IF \/ active.sid = 0 \/ active.state # "Listening" \/ active.pending
     \/ active.trigger # "PushToTalk" \/ active.mode # "HoldToTalk"
  THEN "Ignore"
  ELSE IF old THEN "Stop" ELSE "DeferForDoubleTap"

-----------------------------------------------------------------------------
(* Shared helpers. *)

\* update_state: the HUD changes, and Idle, Error, and an Inserted with no
\* spoken Enter pending give Escape back.
Publish(h) ==
  /\ hud' = h
  /\ esc' = IF h \in {"Idle", "Error"} \/ (h = "Inserted" /\ submit = 0)
            THEN FALSE ELSE esc

\* Slip: no ownership check, and no cancel check.
PublishRunUnowned(s, h) ==
  gate = Free /\ Publish(h)
\* update_run_state: under the gate, by a run; dropped when the run was
\* replaced, or was cancelled and would reopen the pill.
PublishRun(s, h) ==
  /\ gate = Free
  /\ IF active.sid = s /\ (h \in Terminal \/ s \notin cancelled)
     THEN Publish(h) ELSE UNCHANGED <<hud, esc>>

Owns(s) == active.sid = s

\* set_session_state: by session id only, whatever became of the token.
SetState(s, st) ==
  active' = IF active.sid = s THEN [active EXCEPT !.state = st] ELSE active

\* Slip: a cancelled run still counts as current.
IsCurrentById(s) == Owns(s)
IsCurrent(s) == s \notin cancelled /\ Owns(s)

\* The stages of a run before its text, or its Enter, was let through.
BeforeText == {"admitted", "spawned", "showFixture", "preflight", "micOpen",
               "recording", "captured", "keep", "engine", "enterTranscribing",
               "showTranscribing", "decode", "command", "enterAlone", "format",
               "insertCheck", "endIdle", "showIdle"}
BeforeEnter == {"insert", "showInsert", "errorState", "delay"}

\* History: the stage at which a run lost its session for good.
CutNow(s) ==
  cut' = [cut EXCEPT ![s] =
            IF @ # "no" \/ pc[s] = "done" THEN @
            ELSE IF pc[s] \in BeforeText THEN "beforeText"
            ELSE IF pc[s] \in BeforeEnter THEN "beforeEnter" ELSE "late"]

Input(op) == op \in Ops /\ inputs < MaxInputs /\ inputs' = inputs + 1

Step(c, at) == cpc' = [cpc EXCEPT ![c] = at]
Run(s, at) == pc' = [pc EXCEPT ![s] = at]

-----------------------------------------------------------------------------
(* Start admission: start_dictation_with_trigger up to the spawn.  The     *)
(* gate is held from Admit to Announce.                                    *)

\* Slip: the token is overwritten without being cancelled, or an empty slot's
\* token is cancelled.
RetireForgotten(live) == cancelled
\* What happens to a token found in the slot by a start that goes ahead.
RetireToken(live) == IF live THEN cancelled \cup {tokenSlot} ELSE cancelled

TokenIsLive == tokenSlot # 0 /\ tokenSlot \notin cancelled

\* AlreadyRunning: the token and its session are both live.
AdmitRefused(c) ==
  /\ TokenIsLive /\ ~TokenIsStale
  /\ Step(c, "idle")
  /\ UNCHANGED <<gate, session, flow, cs>>

AdmitAccepted(c, knd, trig, mode, audio) ==
  LET new == counter + 1 IN
  /\ ~TokenIsLive \/ TokenIsStale
  /\ counter < MaxSession
  /\ gate' = c
  /\ cancelled' = RetireToken(TokenIsLive)
  /\ tokenSlot' = new
  /\ counter' = new
  /\ active' = [sid |-> new, trigger |-> trig, mode |-> mode,
                state |-> IF knd = "Retry" THEN "Transcribing" ELSE "Listening",
                pending |-> FALSE, old |-> FALSE]
  /\ kind' = [kind EXCEPT ![new] = knd]
  /\ clip' = [clip EXCEPT ![new] = audio]
  /\ Run(new, "admitted")
  /\ IF active.sid # 0 THEN CutNow(active.sid) ELSE cut' = cut
  /\ Step(c, "arm")
  /\ cs' = [cs EXCEPT ![c] = new]
  /\ UNCHANGED <<stopSlot, stopped, enter, landed, failed, pressed>>

\* Reads the session, then the token.
Admit(c, knd, trig, mode, audio) ==
  /\ gate = Free
  /\ AdmitRefused(c) \/ AdmitAccepted(c, knd, trig, mode, audio)
  /\ UNCHANGED <<surface, retained, keyDown>>

StartCommand(c) ==
  /\ c \in Ui /\ cpc[c] = "idle"
  /\ \/ Input("start") /\ \E m \in Modes : Admit(c, "Mic", "Manual", m, 0)
     \/ Input("fixture") /\ Admit(c, "Fixture", "Manual", "HoldToTalk", 0)

\* retry_last_dictation clones the kept audio before it takes the gate.
RetryCommand(c) ==
  /\ c \in Ui /\ cpc[c] = "idle"
  /\ Input("retry")
  /\ retained.sid # 0
  /\ Step(c, "admitRetry")
  /\ cs' = [cs EXCEPT ![c] = retained.clip]
  /\ UNCHANGED <<gate, session, surface, retained, flow, keyDown>>

AdmitDecided(c) ==
  /\ \/ cpc[c] = "admitPush" /\ Admit(c, "Mic", "PushToTalk", "HoldToTalk", 0)
     \/ cpc[c] = "admitHandsFree" /\ Admit(c, "Mic", "HandsFreeHotkey", "HandsFree", 0)
     \/ cpc[c] = "admitRetry" /\ Admit(c, "Retry", "Manual", "HoldToTalk", cs[c])
  /\ UNCHANGED inputs

\* Slip: the audio stays bound to the session that recorded it.
RebindForgotten(s) == retained

\* The kept audio of a retry belongs to the retry from here on.
Rebind(s) == IF kind[s] = "Retry" THEN [sid |-> s, clip |-> clip[s]] ELSE retained

\* Re-binds a retry's audio to the new session, and takes Escape.
Arm(c) ==
  /\ cpc[c] = "arm"
  /\ retained' = Rebind(cs[c])
  /\ esc' = TRUE
  /\ Step(c, "flag")
  /\ UNCHANGED <<gate, session, hud, submit, flow, cs, keyDown, inputs>>

NewStopFlag(c) ==
  /\ cpc[c] = "flag"
  /\ stopSlot' = cs[c]
  /\ Step(c, "announce")
  /\ UNCHANGED <<gate, active, counter, cancelled, stopped, tokenSlot, surface,
                 retained, flow, cs, keyDown, inputs>>

\* The pill, then the gate is dropped and the flow task spawned.
Announce(c) ==
  /\ cpc[c] = "announce"
  /\ hud' = CASE kind[cs[c]] = "Retry" -> "Transcribing"
              [] kind[cs[c]] = "Mic"   -> "Listening"
              [] OTHER                 -> hud
  /\ gate' = Free
  /\ Run(cs[c], "spawned")
  /\ Step(c, "idle")
  /\ UNCHANGED <<session, esc, submit, retained, kind, clip, enter, landed, failed,
                 pressed, cut, cs, keyDown, inputs>>

-----------------------------------------------------------------------------
(* The hotkey dispatcher: trigger_hotkey_action, one event at a time.      *)

\* claim_push_to_talk_press under the session lock, then its outcome.
Press ==
  /\ cpc[Hotkey] = "idle" /\ ~keyDown
  /\ Input("press")
  /\ keyDown' = TRUE
  /\ active' = IF PressDecision = "LockHandsFree"
               THEN [active EXCEPT !.pending = FALSE, !.mode = "HandsFree"]
               ELSE active
  /\ Step(Hotkey, CASE PressDecision = "Start"            -> "admitPush"
                    [] PressDecision = "LockHandsFree"    -> "lockPaint"
                    [] PressDecision = "FinishHandsFree"  -> "finish"
                    [] OTHER                              -> "idle")
  /\ UNCHANGED <<gate, counter, cancelled, stopped, tokenSlot, stopSlot, surface,
                 retained, flow, cs>>

\* The double-tap lock announces itself, outside the gate.
LockPaint ==
  /\ cpc[Hotkey] = "lockPaint"
  /\ Publish("Listening")
  /\ Step(Hotkey, "idle")
  /\ UNCHANGED <<gate, session, submit, retained, flow, cs, keyDown, inputs>>

\* claim_push_to_talk_release: a short tap leaves the capture open for the
\* double-tap window, in a task of its own.
Release ==
  /\ cpc[Hotkey] = "idle" /\ keyDown
  /\ Input("release")
  /\ keyDown' = FALSE
  /\ \E old \in BOOLEAN :
       /\ active.old => old
       /\ \/ /\ ReleaseDecision(old) = "Ignore"
             /\ UNCHANGED <<active, cpc, cs>>
          \/ /\ ReleaseDecision(old) = "Stop"
             /\ active' = [active EXCEPT !.old = old]
             /\ Step(Hotkey, "finish")
             /\ UNCHANGED cs
          \/ /\ ReleaseDecision(old) = "DeferForDoubleTap"
             /\ active' = [active EXCEPT !.old = old, !.pending = TRUE]
             /\ \E t \in Timers :
                  /\ cpc[t] = "idle"
                  /\ Step(t, "wait")
                  /\ cs' = [cs EXCEPT ![t] = active.sid]
  /\ UNCHANGED <<gate, counter, cancelled, stopped, tokenSlot, stopSlot, surface,
                 retained, flow>>

\* The double-tap window closes: finish_deferred_push_release.
TimerFires(t) ==
  /\ cpc[t] = "wait"
  /\ IF /\ active.sid = cs[t] /\ active.state = "Listening"
        /\ active.mode = "HoldToTalk" /\ active.pending
     THEN active' = [active EXCEPT !.pending = FALSE] /\ Step(t, "finish")
     ELSE active' = active /\ Step(t, "idle")
  /\ UNCHANGED <<gate, counter, cancelled, stopped, tokenSlot, stopSlot, surface,
                 retained, flow, cs, keyDown, inputs>>

Toggle ==
  /\ cpc[Hotkey] = "idle"
  /\ Input("toggle")
  /\ Step(Hotkey, CASE ToggleDecision = "Start"  -> "admitHandsFree"
                    [] ToggleDecision = "Finish" -> "finish"
                    [] OTHER                     -> "idle")
  /\ UNCHANGED <<gate, session, surface, retained, flow, cs, keyDown>>

-----------------------------------------------------------------------------
(* request_finish_dictation: never under the gate.                         *)

StopCommand(c) ==
  /\ c \in Ui /\ cpc[c] = "idle"
  /\ Input("stop")
  /\ Step(c, "finish")
  /\ UNCHANGED <<gate, session, surface, retained, flow, cs, keyDown>>

FinishClaim(c) ==
  /\ cpc[c] = "finish"
  /\ IF active.sid # 0 /\ active.state = "Listening"
     THEN /\ active' = [active EXCEPT !.state = "ReleasePending"]
          /\ cs' = [cs EXCEPT ![c] = active.sid]
          /\ Step(c, "stop")
     ELSE /\ Step(c, "idle")
          /\ UNCHANGED <<active, cs>>
  /\ UNCHANGED <<gate, counter, cancelled, stopped, tokenSlot, stopSlot, surface,
                 retained, flow, keyDown, inputs>>

\* Sets whichever flag is in the slot by now.
FinishStop(c) ==
  /\ cpc[c] = "stop"
  /\ stopped' = stopped \cup ({stopSlot} \ {0})
  /\ Step(c, "paint")
  /\ UNCHANGED <<gate, active, counter, cancelled, tokenSlot, stopSlot, surface,
                 retained, flow, cs, keyDown, inputs>>

FinishPaint(c) ==
  /\ cpc[c] = "paint"
  /\ Publish("Transcribing")
  /\ Step(c, "idle")
  /\ UNCHANGED <<gate, session, submit, retained, flow, cs, keyDown, inputs>>

-----------------------------------------------------------------------------
(* cancel_dictation: all of it under the gate; the teardown runs whether   *)
(* or not a session could be claimed.                                      *)
Cancel(c) ==
  LET claimed == active.sid # 0 /\ active.state \notin Terminal IN
  /\ cpc[c] = "idle"
  /\ \/ c = Hotkey /\ Input("escape")
     \/ c \in Ui /\ Input("cancel")
  /\ gate = Free
  /\ active' = IF claimed THEN [active EXCEPT !.state = "Idle"] ELSE active
  /\ submit' = 0
  /\ cancelled' = cancelled \cup ({tokenSlot} \ {0})
  /\ stopped' = stopped \cup ({stopSlot} \ {0})
  /\ esc' = FALSE
  /\ hud' = IF claimed THEN "Idle" ELSE hud
  /\ IF active.sid # 0 THEN CutNow(active.sid) ELSE cut' = cut
  /\ UNCHANGED <<gate, counter, tokenSlot, stopSlot, retained, pc, kind, clip, enter,
                 landed, failed, pressed, cpc, cs, keyDown>>

-----------------------------------------------------------------------------
(* Window commands that repaint the pill without being a dictation.        *)

\* undo_last_insertion.
Undo(c) ==
  /\ c \in Ui /\ cpc[c] = "idle"
  /\ Input("undo")
  /\ \E h \in {"Inserted", "Error"} : Publish(h)
  /\ UNCHANGED <<gate, session, submit, retained, flow, cpc, cs, keyDown>>

\* run_audio_quality_diagnostic: refused while the pill shows a dictation,
\* then it records for seconds on its own.
Check(c) ==
  /\ c \in Ui /\ cpc[c] = "idle"
  /\ Input("check")
  /\ hud \notin {"Listening", "Transcribing"}
  /\ Step(c, "checkShow")
  /\ UNCHANGED <<gate, session, surface, retained, flow, cs, keyDown>>

CheckShow(c) ==
  /\ cpc[c] = "checkShow"
  /\ Publish("Listening")
  /\ Step(c, "checkEnd")
  /\ UNCHANGED <<gate, session, submit, retained, flow, cs, keyDown, inputs>>

CheckEnd(c) ==
  /\ cpc[c] = "checkEnd"
  /\ Publish("Idle")
  /\ Step(c, "idle")
  /\ UNCHANGED <<gate, session, submit, retained, flow, cs, keyDown, inputs>>

Command(c) ==
  \/ StartCommand(c) \/ RetryCommand(c) \/ StopCommand(c)
  \/ Cancel(c) \/ Undo(c) \/ Check(c)

CallerStep(c) ==
  \/ AdmitDecided(c) \/ Arm(c) \/ NewStopFlag(c) \/ Announce(c)
  \/ FinishClaim(c) \/ FinishStop(c) \/ FinishPaint(c)
  \/ CheckShow(c) \/ CheckEnd(c)

-----------------------------------------------------------------------------
(* The flow task of session s: run_dictation_flow and its phases.          *)

\* What no run touches before its cleanup.
RunFrame == UNCHANGED <<gate, counter, tokenSlot, stopSlot, stopped, env, kind, clip, cut>>

\* A step that only moves on.
Goto(s, at) ==
  /\ Run(s, at)
  /\ RunFrame
  /\ UNCHANGED <<active, cancelled, surface, retained, enter, landed, failed, pressed>>

\* Slip: a failed phase is tried again, without a limit.
FailRetries(s) == Goto(s, "engine")

\* A phase that returned Err.
Fail(s) ==
  /\ Run(s, "cleanup")
  /\ failed' = failed \cup {s}
  /\ RunFrame
  /\ UNCHANGED <<active, surface, retained, enter, landed, pressed>>

\* A session state change and nothing else.
Move(s, st, at) ==
  /\ SetState(s, st)
  /\ Run(s, at)
  /\ RunFrame
  /\ UNCHANGED <<cancelled, surface, retained, enter, landed, failed, pressed>>

\* A HUD update and nothing else.
Show(s, h, at) ==
  /\ PublishRun(s, h)
  /\ Run(s, at)
  /\ RunFrame
  /\ UNCHANGED <<active, cancelled, submit, retained, enter, landed, failed, pressed>>

FlowBegin(s) ==
  /\ pc[s] = "spawned"
  /\ \/ kind[s] = "Mic" /\ Move(s, "Listening", "preflight")
     \/ kind[s] = "Fixture" /\ Move(s, "Listening", "showFixture")
     \/ kind[s] = "Retry" /\ Goto(s, "preflight")

ShowFixture(s) == pc[s] = "showFixture" /\ Show(s, "Listening", "preflight")

\* A live dictation needs an installed model; a fixture run does not.
Preflight(s) ==
  /\ pc[s] = "preflight"
  /\ \/ /\ "missingModel" \in Faults /\ kind[s] # "Fixture"
        /\ Fail(s) /\ UNCHANGED cancelled
     \/ kind[s] = "Mic" /\ Goto(s, "micOpen")
     \/ kind[s] # "Mic" /\ Goto(s, "captured")

\* The stream opened, or capture ended before it could say so.
MicOpen(s) ==
  /\ pc[s] = "micOpen"
  /\ \/ Show(s, "Listening", "recording")
     \/ /\ s \in cancelled \/ "micError" \in Faults
        /\ Goto(s, "recording")

\* Capture ends on its stop flag, its token, a cap, or silence.
RecordingEnds(s) ==
  /\ pc[s] = "recording"
  /\ \/ /\ s \in stopped \/ "cap" \in Faults
        /\ Goto(s, "captured")
     \/ s \in cancelled /\ Goto(s, "cleanup")
     \/ "noSpeech" \in Faults /\ Goto(s, "endIdle")
     \/ "micError" \in Faults /\ Fail(s) /\ UNCHANGED cancelled

\* capture_audio after the recording: the cancel check, then what was heard.
Captured(s) ==
  /\ pc[s] = "captured"
  /\ \/ s \in cancelled /\ Goto(s, "cleanup")
     \/ /\ s \notin cancelled
        /\ \/ kind[s] = "Mic" /\ Goto(s, "keep")
           \/ kind[s] = "Mic" /\ "noSpeech" \in Faults /\ Goto(s, "endIdle")
           \/ kind[s] # "Mic" /\ Goto(s, "engine")

\* After the quality assessment: the audio is kept in case a step fails.
KeepAudio(s) ==
  /\ pc[s] = "keep"
  /\ retained' = [sid |-> s, clip |-> s]
  /\ Run(s, "engine")
  /\ RunFrame
  /\ UNCHANGED <<active, cancelled, surface, enter, landed, failed, pressed>>

\* select_decode_mode, the engine wait, and the worker.
EngineReady(s) ==
  /\ pc[s] = "engine"
  /\ \/ Goto(s, "enterTranscribing")
     \/ "engine" \in Faults /\ Fail(s) /\ UNCHANGED cancelled

EnterTranscribing(s) ==
  pc[s] = "enterTranscribing" /\ Move(s, "Transcribing", "showTranscribing")

ShowTranscribing(s) == pc[s] = "showTranscribing" /\ Show(s, "Transcribing", "decode")

\* A timed-out decode cancels its own token, then fails.
Decode(s) ==
  /\ pc[s] = "decode"
  /\ \/ \E w \in Spoken :
          /\ enter' = [enter EXCEPT ![s] = (w # "text")]
          /\ Run(s, IF w = "enter" THEN "command" ELSE "format")
          /\ RunFrame
          /\ UNCHANGED <<active, cancelled, surface, retained, landed, failed, pressed>>
     \/ "tooShort" \in Faults /\ kind[s] # "Fixture" /\ Goto(s, "endIdle")
     \/ s \in cancelled /\ Goto(s, "endIdle")
     \/ "decodeError" \in Faults /\ Fail(s) /\ UNCHANGED cancelled
     \/ "timeout" \in Faults /\ Fail(s) /\ cancelled' = cancelled \cup {s}

\* "press enter" on its own: apply_submit_command.
EnterCommand(s) ==
  /\ pc[s] = "command"
  /\ \/ Goto(s, "enterAlone")
     \/ "unheard" \in Faults /\ kind[s] # "Fixture" /\ Goto(s, "enterInserted")

EnterCheck(s) ==
  /\ pc[s] = "enterAlone"
  /\ Goto(s, IF IsCurrent(s) THEN "pressEnter" ELSE "cleanup")

\* The Enter itself; the command branch and the text branch share the engine.
PressEnter(s) ==
  /\ pc[s] = "pressEnter"
  /\ \/ /\ landed[s] \in {"no", "inserted"}
        /\ pressed' = pressed \cup {s}
     \/ /\ landed[s] \notin {"no", "inserted"} \/ "enterFailed" \in Faults
        /\ pressed' = pressed
  /\ Run(s, IF landed[s] = "no" THEN "enterInserted" ELSE "enterDone")
  /\ RunFrame
  /\ UNCHANGED <<active, cancelled, surface, retained, enter, landed, failed>>

EnterInserted(s) == pc[s] = "enterInserted" /\ Move(s, "Inserted", "showEnter")

ShowEnter(s) ==
  /\ pc[s] = "showEnter"
  /\ Show(s, IF s \in pressed THEN "Inserted" ELSE "Idle", "cleanup")

\* format_transcript: an empty result is an error unless the user cancelled.
Format(s) ==
  /\ pc[s] = "format"
  /\ \/ Goto(s, "insertCheck")
     \/ "empty" \in Faults /\ s \in cancelled /\ Goto(s, "cleanup")
     \/ "empty" \in Faults /\ s \notin cancelled /\ Fail(s) /\ UNCHANGED cancelled
     \/ "unheard" \in Faults /\ kind[s] # "Fixture" /\ Goto(s, "endIdle")

\* Under the session lock: the last cancel check before the text goes in,
\* and the pending-Enter marker.
InsertCheck(s) ==
  /\ pc[s] = "insertCheck"
  /\ Run(s, IF IsCurrent(s) THEN "insert" ELSE "cleanup")
  /\ submit' = IF IsCurrent(s) /\ enter[s] THEN s ELSE submit
  /\ RunFrame
  /\ UNCHANGED <<active, cancelled, hud, esc, retained, enter, landed, failed, pressed>>

\* insert_text_with_polish_meta, and the HUD update that follows it.
Insert(s) ==
  /\ pc[s] = "insert"
  /\ \E how \in {"inserted"} \cup (Faults \cap Landings) :
       landed' = [landed EXCEPT ![s] = how]
  /\ Run(s, "showInsert")
  /\ RunFrame
  /\ UNCHANGED <<active, cancelled, surface, retained, enter, failed, pressed>>

AfterInsert(s) == IF enter[s] THEN "delay" ELSE "markInserted"

ShowInsert(s) ==
  /\ pc[s] = "showInsert"
  /\ Show(s, CASE landed[s] = "inserted"      -> "Inserted"
               [] landed[s] = "clipboardOnly" -> "Idle"
               [] OTHER                       -> "Error",
          IF landed[s] = "insertError" THEN "errorState" ELSE AfterInsert(s))

ErrorState(s) == pc[s] = "errorState" /\ Move(s, "Error", AfterInsert(s))

\* compare_exchange: a run only ever clears its own marker.
ClearOwnMarker(s) == submit' = IF submit = s THEN 0 ELSE submit

\* The paste-to-Enter delay, then the last cancel check.
EnterDelay(s) ==
  /\ pc[s] = "delay"
  /\ IF IsCurrent(s) THEN Run(s, "pressEnter") /\ submit' = submit
     ELSE Run(s, "cleanup") /\ ClearOwnMarker(s)
  /\ RunFrame
  /\ UNCHANGED <<active, cancelled, hud, esc, retained, enter, landed, failed, pressed>>

EnterDone(s) ==
  /\ pc[s] = "enterDone"
  /\ ClearOwnMarker(s)
  /\ esc' = IF IsCurrent(s) THEN FALSE ELSE esc
  /\ Run(s, "markInserted")
  /\ RunFrame
  /\ UNCHANGED <<active, cancelled, hud, retained, enter, landed, failed, pressed>>

MarkInserted(s) == pc[s] = "markInserted" /\ Move(s, "Inserted", "cleanup")

\* Nothing heard, too short, or cancelled in the decode: the session ends Idle.
EndIdle(s) == pc[s] = "endIdle" /\ Move(s, "Idle", "showIdle")

ShowIdle(s) == pc[s] = "showIdle" /\ Show(s, "Idle", "cleanup")

\* Captured audio stays only while its session's transcription has failed.
KeptAfter(s) == IF s \notin failed \/ retained.sid # s THEN NoAudio ELSE retained

\* Slip: the stop flag stays in its slot.
FreeTokenOnly == tokenSlot' = 0 /\ UNCHANGED stopSlot

FreeSlots == tokenSlot' = 0 /\ stopSlot' = 0

\* The spawned task after the flow returned, under the gate.  A run that no
\* longer owns the session leaves everything to the newer one.
Cleanup(s) ==
  /\ pc[s] = "cleanup"
  /\ gate = Free
  /\ Run(s, "done")
  /\ IF Owns(s)
     THEN /\ active' = NoSession
          /\ FreeSlots
          /\ submit' = 0
          /\ retained' = KeptAfter(s)
          /\ esc' = FALSE
          /\ hud' = IF s \in failed THEN "Error" ELSE hud
     ELSE UNCHANGED <<active, tokenSlot, stopSlot, surface, retained>>
  /\ UNCHANGED <<gate, counter, cancelled, stopped, env, kind, clip, enter, landed,
                 failed, pressed, cut>>

RunStep(s) ==
  \/ FlowBegin(s) \/ ShowFixture(s) \/ Preflight(s) \/ MicOpen(s)
  \/ RecordingEnds(s) \/ Captured(s) \/ KeepAudio(s) \/ EngineReady(s)
  \/ EnterTranscribing(s) \/ ShowTranscribing(s) \/ Decode(s)
  \/ EnterCommand(s) \/ EnterCheck(s) \/ PressEnter(s) \/ EnterInserted(s)
  \/ ShowEnter(s) \/ Format(s) \/ InsertCheck(s) \/ Insert(s) \/ ShowInsert(s)
  \/ ErrorState(s) \/ EnterDelay(s) \/ EnterDone(s) \/ MarkInserted(s)
  \/ EndIdle(s) \/ ShowIdle(s) \/ Cleanup(s)

-----------------------------------------------------------------------------
Quiescent ==
  /\ \A s \in Sid : pc[s] \in {"none", "done"}
  /\ \A c \in Callers : cpc[c] = "idle"

\* Everything is over and the user leaves it at that.
Rest == Quiescent /\ UNCHANGED vars

Next ==
  \/ Press \/ Release \/ Toggle \/ LockPaint
  \/ \E c \in Callers : Command(c) \/ CallerStep(c)
  \/ \E t \in Timers : TimerFires(t)
  \/ \E s \in Sid : RunStep(s)
  \/ Rest

\* Every task that has something to do gets to do it; the user need not act,
\* and a capture need not hit its cap.
Fairness ==
  /\ \A c \in Callers : WF_vars(CallerStep(c))
  /\ \A t \in Timers : WF_vars(TimerFires(t))
  /\ WF_vars(LockPaint)
  /\ \A s \in Sid : WF_vars(RunStep(s))

Spec == Init /\ [][Next]_vars
FairSpec == Spec /\ Fairness

-----------------------------------------------------------------------------
(* What should never go wrong. *)

\* Every run that was not told to stop is the run of the session in the slot,
\* and its token is the one a cancel would find.  So at most one run can still
\* deliver, and a cancel always reaches it (start_dictation_with_trigger,
\* cancel_dictation, the cleanup).
ReplacedRunsAreCancelled ==
  \A s \in Sid : pc[s] \notin {"none", "done"} /\ s \notin cancelled
                   => active.sid = s /\ tokenSlot = s

\* A cancel, or a new session, that hits a run before its last check keeps its
\* text, or its Enter, from ever being delivered (end_if_cancelled,
\* insert_transcript, apply_submit_command).
CancelledNeverDelivers ==
  \A s \in Sid :
    /\ cut[s] = "beforeText" => landed[s] = "no"
    /\ cut[s] \in {"beforeText", "beforeEnter"} => s \notin pressed

\* A run that lost the session to a newer one, or to none, changes neither the
\* session, nor its token or stop flag, nor the pill, nor Escape, nor another
\* run's pending Enter (update_run_state, the cleanup, insert_transcript).
StaleRunsLeaveTheSessionAlone ==
  [][\A s \in Sid :
       pc[s] # "none" /\ pc'[s] # pc[s] /\ active.sid # s =>
         /\ UNCHANGED <<active, tokenSlot, stopSlot, stopped, hud, esc>>
         /\ cancelled' \subseteq cancelled \cup {s}
         /\ submit' # submit => submit = s /\ submit' = 0]_vars

\* Once everything is over nothing is left behind: no session, no token or stop
\* flag in a slot, no pending Enter, nobody at the gate, and Escape belongs to
\* other programs (the cleanup, start_dictation_with_trigger, update_state).
RestIsClean ==
  Quiescent => /\ active = NoSession
               /\ tokenSlot = 0 /\ stopSlot = 0 /\ submit = 0
               /\ ~esc /\ gate = Free

\* A retry that fails still has the recording it was asked to transcribe.
FailedRetryKeepsItsRecording ==
  [][\A s \in Sid :
       /\ kind[s] = "Retry" /\ pc[s] = "cleanup" /\ pc'[s] = "done"
       /\ s \in failed /\ active.sid = s
       => retained' = [sid |-> s, clip |-> clip[s]]]_vars

-----------------------------------------------------------------------------
(* What should eventually happen. *)

\* Every accepted dictation ends and is cleaned up, and sooner or later the pill
\* shows none in progress, where nobody stops a recording by hand
\* (update_run_state, the cleanup).
EveryDictationEnds ==
  \A s \in Sid :
    pc[s] = "spawned" ~> pc[s] = "done" /\ hud \notin {"Listening", "Transcribing"}

=============================================================================
