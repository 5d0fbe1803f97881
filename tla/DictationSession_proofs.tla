---------------------- MODULE DictationSession_proofs ----------------------
(***************************************************************************)
(* What DictationSession guarantees for every number of sessions, inputs   *)
(* and threads.                                                            *)
(***************************************************************************)
EXTENDS DictationSession, TLAPS

-----------------------------------------------------------------------------
(* Types of the shared helpers. *)

\* No active session is a value of the session slot.
LEMMA NoSessionType == NoSession \in Sessions
  BY BoundAssumption DEF NoSession, Sessions, SidOrNone, Triggers, Modes, States

\* No kept audio is a value of the retained capture.
LEMMA NoAudioType == NoAudio \in KeptAudio
  BY BoundAssumption DEF NoAudio, KeptAudio, SidOrNone

\* A session whose state is replaced is still a session.
LEMMA StateUpdate ==
  ASSUME active \in Sessions, NEW st \in States
  PROVE  [active EXCEPT !.state = st] \in Sessions
  BY DEF Sessions

\* A session whose deferred stop is set or cleared is still a session.
LEMMA PendingUpdate ==
  ASSUME active \in Sessions, NEW p \in BOOLEAN
  PROVE  [active EXCEPT !.pending = p] \in Sessions
  BY DEF Sessions

\* A session that outgrew the double-tap limit is still a session.
LEMMA AgeUpdate ==
  ASSUME active \in Sessions, NEW o \in BOOLEAN
  PROVE  [active EXCEPT !.old = o] \in Sessions
  BY DEF Sessions

\* A session whose release was deferred is still a session.
LEMMA DeferUpdate ==
  ASSUME active \in Sessions, NEW o \in BOOLEAN
  PROVE  [active EXCEPT !.old = o, !.pending = TRUE] \in Sessions
  BY DEF Sessions

\* set_session_state leaves a session, or none, in the slot.
LEMMA SetStateType ==
  ASSUME active \in Sessions, NEW s, NEW st \in States, SetState(s, st)
  PROVE  active' \in Sessions
  BY StateUpdate DEF SetState

\* update_state leaves a pill state and a flag for Escape.
LEMMA PublishType ==
  ASSUME esc \in BOOLEAN, NEW h \in Huds, Publish(h)
  PROVE  hud' \in Huds /\ esc' \in BOOLEAN
  <1>1. hud' \in Huds
    BY DEF Publish
  <1>2. esc' \in BOOLEAN
    BY Zenon DEF Publish
  <1> QED
    BY <1>1, <1>2

\* update_run_state does too, whether or not it publishes.
LEMMA PublishRunType ==
  ASSUME hud \in Huds, esc \in BOOLEAN, NEW s, NEW h \in Huds, PublishRun(s, h)
  PROVE  hud' \in Huds /\ esc' \in BOOLEAN
  BY PublishType, Zenon DEF PublishRun

\* Clearing the pending-Enter marker leaves a session id or 0.
LEMMA ClearOwnMarkerType ==
  ASSUME submit \in SidOrNone, NEW s, ClearOwnMarker(s)
  PROVE  submit' \in SidOrNone
  BY BoundAssumption DEF ClearOwnMarker, SidOrNone

\* Recording where a run was cut keeps the history well typed.
LEMMA CutType ==
  ASSUME cut \in [Sid -> Cuts], NEW s, CutNow(s)
  PROVE  cut' \in [Sid -> Cuts]
  <1> DEFINE v == IF cut[s] # "no" \/ pc[s] = "done" THEN cut[s]
                  ELSE IF pc[s] \in BeforeText THEN "beforeText"
                  ELSE IF pc[s] \in BeforeEnter THEN "beforeEnter" ELSE "late"
  <1>1. cut' = [cut EXCEPT ![s] = v]
    BY DEF CutNow
  <1>2. s \in Sid => v \in Cuts
    BY DEF Cuts
  <1> HIDE DEF v
  <1> QED
    BY <1>1, <1>2

\* The controller starts well typed.
LEMMA TypeInit == Init => TypeOK
  <1> SUFFICES ASSUME Init PROVE TypeOK
    OBVIOUS
  <1> USE BoundAssumption DEF Init, Sid, SidOrNone
  <1>1. active \in Sessions /\ retained \in KeptAudio
    BY NoSessionType, NoAudioType
  <1>2. pc \in [Sid -> RunPcs] /\ kind \in [Sid -> Kinds] /\ landed \in [Sid -> Landings]
        /\ cut \in [Sid -> Cuts] /\ cpc \in [Callers -> CallerPcs]
    BY DEF RunPcs, Kinds, Landings, Cuts, CallerPcs
  <1>3. clip \in [Sid -> SidOrNone] /\ enter \in [Sid -> BOOLEAN]
        /\ cs \in [Callers -> SidOrNone]
    OBVIOUS
  <1>4. gate \in Callers \cup {Free} /\ hud \in Huds /\ esc \in BOOLEAN
    BY DEF Huds
  <1>5. /\ counter \in SidOrNone /\ tokenSlot \in SidOrNone /\ stopSlot \in SidOrNone
        /\ submit \in SidOrNone /\ inputs \in 0 .. MaxInputs
    OBVIOUS
  <1>6. /\ cancelled \subseteq Sid /\ stopped \subseteq Sid
        /\ failed \subseteq Sid /\ pressed \subseteq Sid /\ keyDown \in BOOLEAN
    BY Zenon
  <1> HIDE DEF Init, Sid, SidOrNone
  <1> QED
    BY <1>1, <1>2, <1>3, <1>4, <1>5, <1>6 DEF TypeOK

-----------------------------------------------------------------------------
(* Types are preserved by the steps of a run. *)

\* A phase step that only moves on keeps the types.
LEMMA GotoType ==
  ASSUME TypeOK, NEW s \in Sid, NEW at \in RunPcs, Goto(s, at)
  PROVE  TypeOK'
  BY DEF TypeOK, Goto, Run, RunFrame, surface, env

\* A phase that fails keeps the types.
LEMMA FailType ==
  ASSUME TypeOK, NEW s \in Sid, Fail(s), cancelled' \subseteq Sid
  PROVE  TypeOK'
  BY DEF TypeOK, Fail, Run, RunFrame, surface, env, RunPcs

\* A phase step that changes the session state keeps the types.
LEMMA MoveType ==
  ASSUME TypeOK, NEW s \in Sid, NEW st \in States, NEW at \in RunPcs, Move(s, st, at)
  PROVE  TypeOK'
  <1>1. active' \in Sessions
    BY SetStateType DEF TypeOK, Move
  <1> QED
    BY <1>1 DEF TypeOK, Move, Run, RunFrame, surface, env

\* A phase step that updates the HUD keeps the types.
LEMMA ShowType ==
  ASSUME TypeOK, NEW s \in Sid, NEW h \in Huds, NEW at \in RunPcs, Show(s, h, at)
  PROVE  TypeOK'
  <1>1. hud' \in Huds /\ esc' \in BOOLEAN
    BY PublishRunType DEF TypeOK, Show
  <1> QED
    BY <1>1 DEF TypeOK, Show, Run, RunFrame, env

\* Every step of a flow task keeps the types.
LEMMA TypeRun ==
  ASSUME TypeOK, NEW s \in Sid, RunStep(s)
  PROVE  TypeOK'
  <1> USE DEF RunPcs, States, Huds
  <1>1. CASE FlowBegin(s)
    BY <1>1, MoveType, GotoType DEF FlowBegin
  <1>2. CASE ShowFixture(s) \/ ShowTranscribing(s) \/ ShowEnter(s) \/ ShowIdle(s)
    BY <1>2, ShowType DEF ShowFixture, ShowTranscribing, ShowEnter, ShowIdle
  <1>3. CASE Preflight(s)
    BY <1>3, FailType, GotoType DEF Preflight, TypeOK
  <1>4. CASE MicOpen(s)
    BY <1>4, ShowType, GotoType DEF MicOpen
  <1>5. CASE RecordingEnds(s) \/ Captured(s) \/ EngineReady(s)
    BY <1>5, FailType, GotoType DEF RecordingEnds, Captured, EngineReady, TypeOK
  <1>6. CASE KeepAudio(s)
    <2>1. retained' \in KeptAudio
      BY <1>6, BoundAssumption DEF KeepAudio, KeptAudio, Sid, SidOrNone
    <2> QED
      BY <1>6, <2>1 DEF KeepAudio, TypeOK, Run, RunFrame, surface, env
  <1>7. CASE EnterTranscribing(s) \/ EnterInserted(s) \/ MarkInserted(s) \/ EndIdle(s)
    BY <1>7, MoveType DEF EnterTranscribing, EnterInserted, MarkInserted, EndIdle
  <1>8. CASE Decode(s)
    <2>1. CASE \E w \in Spoken :
                 /\ enter' = [enter EXCEPT ![s] = (w # "text")]
                 /\ Run(s, IF w = "enter" THEN "command" ELSE "format")
                 /\ RunFrame
                 /\ UNCHANGED <<active, cancelled, surface, retained, landed, failed, pressed>>
      <3>1. enter' \in [Sid -> BOOLEAN]
        BY <2>1 DEF TypeOK
      <3>2. pc' \in [Sid -> RunPcs]
        BY <2>1 DEF TypeOK, Run
      <3> QED
        BY <2>1, <3>1, <3>2 DEF TypeOK, RunFrame, surface, env
    <2>2. CASE Fail(s) /\ cancelled' \subseteq Sid
      BY <2>2, FailType
    <2>3. CASE Goto(s, "endIdle")
      BY <2>3, GotoType
    <2> QED
      BY <1>8, <2>1, <2>2, <2>3 DEF Decode, TypeOK
  <1>9. CASE EnterCommand(s) \/ EnterCheck(s)
    BY <1>9, GotoType DEF EnterCommand, EnterCheck
  <1>10. CASE PressEnter(s)
    BY <1>10 DEF PressEnter, TypeOK, Run, RunFrame, surface, env
  <1>11. CASE Format(s)
    BY <1>11, FailType, GotoType DEF Format, TypeOK
  <1>12. CASE InsertCheck(s)
    BY <1>12, BoundAssumption DEF InsertCheck, TypeOK, Run, RunFrame, surface, env, Sid, SidOrNone
  <1>13. CASE Insert(s)
    BY <1>13 DEF Insert, TypeOK, Run, RunFrame, surface, env, Landings
  <1>14. CASE ShowInsert(s)
    BY <1>14, ShowType DEF ShowInsert, AfterInsert
  <1>15. CASE ErrorState(s)
    BY <1>15, MoveType DEF ErrorState, AfterInsert
  <1>16. CASE EnterDelay(s)
    <2>1. submit' \in SidOrNone
      BY <1>16, ClearOwnMarkerType DEF EnterDelay, TypeOK
    <2>2. pc' \in [Sid -> RunPcs]
      BY <1>16 DEF EnterDelay, TypeOK, Run
    <2> QED
      BY <1>16, <2>1, <2>2 DEF EnterDelay, TypeOK, RunFrame, env
  <1>17. CASE EnterDone(s)
    <2>1. esc' \in BOOLEAN
      BY <1>17, Zenon DEF EnterDone, TypeOK
    <2>2. submit' \in SidOrNone
      BY <1>17, ClearOwnMarkerType DEF EnterDone, TypeOK
    <2>3. pc' \in [Sid -> RunPcs]
      BY <1>17 DEF EnterDone, TypeOK, Run
    <2>4. UNCHANGED <<gate, counter, tokenSlot, stopSlot, stopped, cpc, cs, keyDown, inputs,
                      kind, clip, cut, active, cancelled, hud, retained, enter, landed,
                      failed, pressed>>
      BY <1>17 DEF EnterDone, RunFrame, env
    <2> QED
      BY <2>1, <2>2, <2>3, <2>4 DEF TypeOK
  <1>18. CASE Cleanup(s)
    <2>1. active' \in Sessions /\ retained' \in KeptAudio
      BY <1>18, NoSessionType, NoAudioType DEF Cleanup, KeptAfter, TypeOK
    <2>2. hud' \in Huds /\ esc' \in BOOLEAN
      BY <1>18, Zenon DEF Cleanup, TypeOK, surface
    <2> QED
      BY <1>18, <2>1, <2>2, BoundAssumption DEF Cleanup, FreeSlots, TypeOK, Run, surface, env, SidOrNone
  <1> QED
    BY <1>1, <1>2, <1>3, <1>4, <1>5, <1>6, <1>7, <1>8, <1>9, <1>10, <1>11, <1>12,
       <1>13, <1>14, <1>15, <1>16, <1>17, <1>18 DEF RunStep

-----------------------------------------------------------------------------
(* The inductive invariant of the session's lifecycle.                     *)

\* A start in progress holds the gate, and its session is in the slot.
AdmissionInv ==
  \A c \in Callers : cpc[c] \in {"arm", "flag", "announce"} =>
    /\ gate = c
    /\ cs[c] \in Sid /\ active.sid = cs[c] /\ pc[cs[c]] = "admitted"

\* Session ids are handed out in order; a session in the slot has its task.
IdInv ==
  /\ \A s \in Sid : s > counter => pc[s] = "none"
  /\ active.sid # 0 => pc[active.sid] \notin {"none", "done"}

LifecycleInv == TypeOK /\ AdmissionInv /\ IdInv /\ ReplacedRunsAreCancelled

-----------------------------------------------------------------------------
(* Types are preserved by the steps of the callers. *)

\* A start, accepted or refused, keeps the types.
LEMMA TypeAdmit ==
  ASSUME TypeOK, NEW c \in Callers, NEW knd \in Kinds, NEW trig \in Triggers,
         NEW m \in Modes, NEW audio \in SidOrNone, Admit(c, knd, trig, m, audio),
         inputs' \in 0 .. MaxInputs
  PROVE  TypeOK'
  <1>1. CASE AdmitRefused(c)
    BY <1>1 DEF Admit, AdmitRefused, TypeOK, Step, session, flow, surface, CallerPcs
  <1>2. CASE AdmitAccepted(c, knd, trig, m, audio)
    <2> DEFINE new == counter + 1
    <2>1. new \in Sid /\ new \in SidOrNone
      BY <1>2, BoundAssumption DEF AdmitAccepted, TypeOK, Sid, SidOrNone
    <2>2. active' \in Sessions
      BY <1>2, <2>1 DEF AdmitAccepted, Sessions, States
    <2>3. cancelled' \subseteq Sid
      BY <1>2 DEF AdmitAccepted, TypeOK, RetireToken, TokenIsLive, Sid, SidOrNone
    <2>4. cut' \in [Sid -> Cuts]
      BY <1>2, CutType DEF AdmitAccepted, TypeOK
    <2> HIDE DEF new
    <2>5. /\ pc' \in [Sid -> RunPcs] /\ kind' \in [Sid -> Kinds] /\ clip' \in [Sid -> SidOrNone]
          /\ cpc' \in [Callers -> CallerPcs] /\ cs' \in [Callers -> SidOrNone]
      BY <1>2, <2>1 DEF AdmitAccepted, TypeOK, Run, Step, RunPcs, CallerPcs, new
    <2>6. /\ gate' \in Callers \cup {Free} /\ counter' \in SidOrNone /\ tokenSlot' \in SidOrNone
          /\ UNCHANGED <<stopSlot, stopped, enter, landed, failed, pressed, surface, retained, keyDown>>
      BY <1>2, <2>1 DEF Admit, AdmitAccepted, new
    <2> QED
      BY <2>2, <2>3, <2>4, <2>5, <2>6 DEF TypeOK, surface
  <1> QED
    BY <1>1, <1>2 DEF Admit

\* Every command and every later step of its thread keeps the types.
LEMMA TypeCaller ==
  ASSUME TypeOK, AdmissionInv, NEW c \in Callers, Command(c) \/ CallerStep(c)
  PROVE  TypeOK'
  <1> USE DEF CallerPcs
  <1>1. CASE FinishClaim(c)
    <2>1. active' \in Sessions
      BY <1>1, StateUpdate DEF FinishClaim, TypeOK, States
    <2>2. cs' \in [Callers -> SidOrNone]
      BY <1>1 DEF FinishClaim, TypeOK, Sessions
    <2> QED
      BY <1>1, <2>1, <2>2 DEF FinishClaim, Step, TypeOK, surface, flow
  <1>2. CASE FinishStop(c)
    BY <1>2 DEF FinishStop, Step, TypeOK, surface, flow, Sid, SidOrNone
  <1>3. CASE FinishPaint(c)
    BY <1>3, PublishType DEF FinishPaint, Step, TypeOK, session, flow, Huds
  <1>4. CASE Arm(c)
    <2>1. retained' \in KeptAudio
      BY <1>4, BoundAssumption DEF Arm, AdmissionInv, Rebind, TypeOK, KeptAudio, Sid, SidOrNone
    <2> QED
      BY <1>4, <2>1 DEF Arm, Step, TypeOK, session, flow
  <1>5. CASE NewStopFlag(c)
    BY <1>5 DEF NewStopFlag, Step, TypeOK, surface, flow
  <1>6. CASE Announce(c)
    BY <1>6 DEF Announce, Step, Run, TypeOK, session, RunPcs, Huds
  <1>7. CASE CheckShow(c) \/ CheckEnd(c)
    BY <1>7, PublishType DEF CheckShow, CheckEnd, Step, TypeOK, session, flow, Huds
  <1>8. CASE AdmitDecided(c)
    <2> USE TypeAdmit, BoundAssumption DEF Kinds, Triggers, Modes
    <2>1. inputs' \in 0 .. MaxInputs /\ cs[c] \in SidOrNone /\ 0 \in SidOrNone
      BY <1>8 DEF AdmitDecided, TypeOK, SidOrNone
    <2>2. CASE Admit(c, "Mic", "PushToTalk", "HoldToTalk", 0)
      BY <2>1, <2>2
    <2>3. CASE Admit(c, "Mic", "HandsFreeHotkey", "HandsFree", 0)
      BY <2>1, <2>3
    <2>4. CASE Admit(c, "Retry", "Manual", "HoldToTalk", cs[c])
      BY <2>1, <2>4
    <2> QED
      BY <1>8, <2>2, <2>3, <2>4 DEF AdmitDecided
  <1>9. CASE StartCommand(c)
    BY <1>9, TypeAdmit, BoundAssumption DEF StartCommand, Input, TypeOK, Kinds, Triggers, Modes, SidOrNone
  <1>10. CASE RetryCommand(c)
    <2>1. cs' \in [Callers -> SidOrNone]
      BY <1>10 DEF RetryCommand, TypeOK, KeptAudio
    <2> QED
      BY <1>10, <2>1, BoundAssumption DEF RetryCommand, Input, Step, TypeOK, session, surface, flow
  <1>11. CASE StopCommand(c)
    BY <1>11, BoundAssumption DEF StopCommand, Input, Step, TypeOK, session, surface, flow
  <1>12. CASE Cancel(c)
    <2>1. active' \in Sessions
      BY <1>12, StateUpdate DEF Cancel, TypeOK, States
    <2>2. cut' \in [Sid -> Cuts]
      BY <1>12, CutType DEF Cancel, TypeOK
    <2>3. hud' \in Huds /\ esc' \in BOOLEAN
      BY <1>12, Zenon DEF Cancel, TypeOK, Huds
    <2>4. cancelled' \subseteq Sid /\ stopped' \subseteq Sid
      BY <1>12 DEF Cancel, TypeOK, Sid, SidOrNone
    <2>5. submit' \in SidOrNone /\ inputs' \in 0 .. MaxInputs
      BY <1>12, BoundAssumption DEF Cancel, Input, TypeOK, SidOrNone
    <2> QED
      BY <1>12, <2>1, <2>2, <2>3, <2>4, <2>5 DEF Cancel, TypeOK
  <1>13. CASE Undo(c)
    <2>1. hud' \in Huds /\ esc' \in BOOLEAN
      BY <1>13, PublishType DEF Undo, TypeOK, Huds
    <2> QED
      BY <1>13, <2>1, BoundAssumption DEF Undo, Input, TypeOK, session, flow
  <1>14. CASE Check(c)
    BY <1>14, BoundAssumption DEF Check, Input, Step, TypeOK, session, surface, flow
  <1> QED
    BY <1>1, <1>2, <1>3, <1>4, <1>5, <1>6, <1>7, <1>8, <1>9, <1>10, <1>11, <1>12,
       <1>13, <1>14 DEF Command, CallerStep

\* The hotkey events and the double-tap windows keep the types.
LEMMA TypeKeys ==
  ASSUME TypeOK, Press \/ Release \/ Toggle \/ LockPaint \/ \E t \in Timers : TimerFires(t)
  PROVE  TypeOK'
  <1> USE BoundAssumption, CallerAssumption DEF CallerPcs, Callers
  <1>1. CASE Press
    <2>1. active' \in Sessions
      BY <1>1 DEF Press, TypeOK, Sessions, Modes
    <2> QED
      BY <1>1, <2>1 DEF Press, Input, Step, TypeOK, surface, flow
  <1>2. CASE Release
    <2>1. PICK old \in BOOLEAN :
            \/ UNCHANGED <<active, cpc, cs>>
            \/ /\ active' = [active EXCEPT !.old = old]
               /\ Step(Hotkey, "finish") /\ UNCHANGED cs
            \/ /\ active' = [active EXCEPT !.old = old, !.pending = TRUE]
               /\ \E t \in Timers : Step(t, "wait") /\ cs' = [cs EXCEPT ![t] = active.sid]
      BY <1>2 DEF Release
    <2>2. active' \in Sessions
      <3>1. active \in Sessions
        BY DEF TypeOK
      <3> QED
        BY <2>1, <3>1, AgeUpdate, DeferUpdate, Zenon
    <2>3. cpc' \in [Callers -> CallerPcs]
      BY <2>1 DEF Step, TypeOK
    <2>4. cs' \in [Callers -> SidOrNone]
      BY <2>1 DEF TypeOK, Sessions
    <2>5. keyDown' \in BOOLEAN
      BY <1>2, Zenon DEF Release
    <2>6. inputs' \in 0 .. MaxInputs
      <3>1. Input("release")
        BY <1>2, Zenon DEF Release
      <3> QED
        BY <3>1 DEF Input, TypeOK
    <2>7. UNCHANGED <<gate, counter, cancelled, stopped, tokenSlot, stopSlot, surface,
                      retained, flow>>
      BY <1>2, Zenon DEF Release
    <2>8. UNCHANGED <<gate, counter, cancelled, stopped, tokenSlot, stopSlot, hud, esc, submit,
                      retained, pc, kind, clip, enter, landed, failed, pressed, cut>>
      BY <2>7 DEF surface, flow
    <2> HIDE DEF Callers, CallerPcs
    <2> QED
      BY <2>2, <2>3, <2>4, <2>5, <2>6, <2>8, Zenon DEF TypeOK
  <1>3. CASE Toggle
    BY <1>3 DEF Toggle, Input, Step, TypeOK, session, surface, flow
  <1>4. CASE LockPaint
    BY <1>4, PublishType DEF LockPaint, Step, TypeOK, session, flow, Huds
  <1>5. CASE \E t \in Timers : TimerFires(t)
    <2>1. active' \in Sessions
      BY <1>5, PendingUpdate DEF TimerFires, TypeOK
    <2> QED
      BY <1>5, <2>1 DEF TimerFires, Step, TypeOK, surface, flow
  <1> QED
    BY <1>1, <1>2, <1>3, <1>4, <1>5

-----------------------------------------------------------------------------
(* What a step of a flow task before its cleanup does to the session.      *)

\* The stages a flow task moves to by itself.
FlowPcs == RunPcs \ {"none", "admitted", "done"}

\* A flow task at work: it leaves the session's identity, the gate, the token
\* slot and the other tasks alone, and never takes a cancel back.
Progress(s) ==
  /\ pc[s] \in FlowPcs \ {"cleanup"}
  /\ \E at \in FlowPcs : Run(s, at)
  /\ RunFrame
  /\ active'.sid = active.sid
  /\ cancelled \subseteq cancelled'

\* A phase's session state change keeps the session's id.
LEMMA SetStateSid ==
  ASSUME active \in Sessions, NEW s, NEW st, SetState(s, st)
  PROVE  active'.sid = active.sid
  BY DEF SetState, Sessions

\* The four kinds of phase step are progress.
LEMMA GotoProgress ==
  ASSUME NEW s, pc[s] \in FlowPcs \ {"cleanup"}, NEW at \in FlowPcs, Goto(s, at)
  PROVE  Progress(s)
  BY DEF Progress, Goto

\* A phase that fails is progress: its cleanup is still to come.
LEMMA FailProgress ==
  ASSUME NEW s, pc[s] \in FlowPcs \ {"cleanup"}, Fail(s), cancelled \subseteq cancelled'
  PROVE  Progress(s)
  BY DEF Progress, Fail, FlowPcs, RunPcs

\* A phase step that changes the session state is progress.
LEMMA MoveProgress ==
  ASSUME active \in Sessions, NEW s, pc[s] \in FlowPcs \ {"cleanup"},
         NEW at \in FlowPcs, NEW st, Move(s, st, at)
  PROVE  Progress(s)
  BY SetStateSid DEF Progress, Move

\* A phase step that updates the HUD is progress.
LEMMA ShowProgress ==
  ASSUME NEW s, pc[s] \in FlowPcs \ {"cleanup"}, NEW at \in FlowPcs, NEW h, Show(s, h, at)
  PROVE  Progress(s)
  BY DEF Progress, Show

\* Every step of a flow task is its cleanup or progress.
LEMMA RunIsProgress ==
  ASSUME TypeOK, NEW s \in Sid, RunStep(s), ~Cleanup(s)
  PROVE  Progress(s)
  <1>t. active \in Sessions
    BY DEF TypeOK
  <1> USE DEF FlowPcs, RunPcs
  <1>1. CASE FlowBegin(s)
    BY <1>1, <1>t, MoveProgress, GotoProgress DEF FlowBegin
  <1>2. CASE ShowFixture(s) \/ ShowTranscribing(s) \/ ShowEnter(s) \/ ShowIdle(s)
    BY <1>2, ShowProgress DEF ShowFixture, ShowTranscribing, ShowEnter, ShowIdle
  <1>3. CASE Preflight(s)
    BY <1>3, FailProgress, GotoProgress DEF Preflight
  <1>4. CASE MicOpen(s)
    BY <1>4, ShowProgress, GotoProgress DEF MicOpen
  <1>5. CASE RecordingEnds(s) \/ Captured(s) \/ EngineReady(s)
    BY <1>5, FailProgress, GotoProgress DEF RecordingEnds, Captured, EngineReady
  <1>6. CASE KeepAudio(s)
    BY <1>6 DEF KeepAudio, Progress
  <1>7. CASE EnterTranscribing(s) \/ EnterInserted(s) \/ MarkInserted(s) \/ EndIdle(s)
    BY <1>7, <1>t, MoveProgress DEF EnterTranscribing, EnterInserted, MarkInserted, EndIdle
  <1>8. CASE Decode(s)
    <2>1. CASE \E w \in Spoken :
                 /\ Run(s, IF w = "enter" THEN "command" ELSE "format")
                 /\ RunFrame
                 /\ UNCHANGED <<active, cancelled>>
      BY <1>8, <2>1 DEF Decode, Progress
    <2>2. CASE Fail(s) /\ cancelled \subseteq cancelled'
      BY <1>8, <2>2, FailProgress DEF Decode
    <2>3. CASE Goto(s, "endIdle")
      BY <1>8, <2>3, GotoProgress DEF Decode
    <2> QED
      BY <1>8, <2>1, <2>2, <2>3 DEF Decode
  <1>9. CASE EnterCommand(s) \/ EnterCheck(s)
    BY <1>9, GotoProgress DEF EnterCommand, EnterCheck
  <1>10. CASE PressEnter(s)
    BY <1>10 DEF PressEnter, Progress
  <1>11. CASE Format(s)
    BY <1>11, FailProgress, GotoProgress DEF Format
  <1>12. CASE InsertCheck(s)
    BY <1>12 DEF InsertCheck, Progress
  <1>13. CASE Insert(s)
    BY <1>13 DEF Insert, Progress
  <1>14. CASE ShowInsert(s)
    BY <1>14, ShowProgress DEF ShowInsert, AfterInsert
  <1>15. CASE ErrorState(s)
    BY <1>15, <1>t, MoveProgress DEF ErrorState, AfterInsert
  <1>16. CASE EnterDelay(s)
    BY <1>16 DEF EnterDelay, Progress
  <1>17. CASE EnterDone(s)
    BY <1>17 DEF EnterDone, Progress
  <1> QED
    BY <1>1, <1>2, <1>3, <1>4, <1>5, <1>6, <1>7, <1>8, <1>9, <1>10, <1>11, <1>12,
       <1>13, <1>14, <1>15, <1>16, <1>17 DEF RunStep

-----------------------------------------------------------------------------
(* The lifecycle invariant is preserved.                                   *)

\* The controller starts with no admission, no session and no run.
LEMMA LifecycleInit == Init => LifecycleInv
  <1> SUFFICES ASSUME Init PROVE LifecycleInv
    OBVIOUS
  <1>1. AdmissionInv
    BY DEF Init, AdmissionInv
  <1>2. IdInv /\ ReplacedRunsAreCancelled
    BY DEF Init, IdInv, NoSession, ReplacedRunsAreCancelled, Sid
  <1> QED
    BY <1>1, <1>2, TypeInit DEF LifecycleInv

\* A flow task before its cleanup.
LEMMA LifecycleProgress ==
  ASSUME LifecycleInv, NEW s \in Sid, Progress(s), TypeOK'
  PROVE  LifecycleInv'
  <1>1. PICK at \in FlowPcs : pc' = [pc EXCEPT ![s] = at]
    BY DEF Progress, Run
  <1>2. pc \in [Sid -> RunPcs] /\ counter \in SidOrNone
    BY DEF LifecycleInv, TypeOK
  <1>3. /\ pc[s] \notin {"none", "admitted", "done"}
        /\ at \notin {"none", "admitted", "done"}
        /\ \A r \in Sid : pc'[r] = IF r = s THEN at ELSE pc[r]
    BY <1>1, <1>2 DEF Progress, FlowPcs
  <1>4. /\ gate' = gate /\ counter' = counter /\ tokenSlot' = tokenSlot
        /\ cpc' = cpc /\ cs' = cs
        /\ active'.sid = active.sid /\ cancelled \subseteq cancelled'
    BY DEF Progress, RunFrame, env
  <1>5. AdmissionInv'
    BY <1>3, <1>4 DEF LifecycleInv, AdmissionInv
  <1>6. IdInv'
    <2>1. active.sid \in SidOrNone
      BY DEF LifecycleInv, TypeOK, Sessions
    <2> QED
      BY <1>3, <1>4, <2>1 DEF LifecycleInv, IdInv, Sid, SidOrNone
  <1>7. ReplacedRunsAreCancelled'
    BY <1>3, <1>4 DEF LifecycleInv, ReplacedRunsAreCancelled
  <1> QED
    BY <1>5, <1>6, <1>7 DEF LifecycleInv

\* A flow task's cleanup frees the slots only when it owns the session, and
\* then no other run is left to cancel.
LEMMA LifecycleCleanup ==
  ASSUME LifecycleInv, NEW s \in Sid, Cleanup(s), TypeOK'
  PROVE  LifecycleInv'
  <1>1. pc \in [Sid -> RunPcs] /\ counter \in SidOrNone /\ active.sid \in SidOrNone
    BY DEF LifecycleInv, TypeOK, Sessions
  <1>2. /\ pc[s] = "cleanup"
        /\ \A r \in Sid : pc'[r] = IF r = s THEN "done" ELSE pc[r]
    BY <1>1 DEF Cleanup, Run
  <1>3. /\ gate = Free /\ gate' = gate /\ counter' = counter
        /\ cpc' = cpc /\ cs' = cs /\ cancelled' = cancelled
    BY DEF Cleanup, env
  <1>4. IF active.sid = s THEN active'.sid = 0
        ELSE active' = active /\ tokenSlot' = tokenSlot
    BY DEF Cleanup, Owns, NoSession
  <1>5. AdmissionInv'
    BY <1>3, CallerAssumption DEF LifecycleInv, AdmissionInv
  <1>6. IdInv'
    BY <1>1, <1>2, <1>3, <1>4 DEF LifecycleInv, IdInv, Sid, SidOrNone
  <1>7. ReplacedRunsAreCancelled'
    BY <1>2, <1>3, <1>4 DEF LifecycleInv, ReplacedRunsAreCancelled
  <1> QED
    BY <1>5, <1>6, <1>7 DEF LifecycleInv

\* What a caller's step leaves alone when it neither admits nor announces.
CallerFrame(c) ==
  /\ \A d \in Callers \ {c} : cpc'[d] = cpc[d] /\ cs'[d] = cs[d]
  /\ cpc'[c] \in {"arm", "flag", "announce"} =>
       cpc[c] \in {"arm", "flag", "announce"} /\ cs'[c] = cs[c]
  /\ gate' = gate /\ pc' = pc /\ counter' = counter /\ tokenSlot' = tokenSlot
  /\ active'.sid = active.sid /\ cancelled \subseteq cancelled'

\* A caller step that leaves the gate, the slots and the runs alone keeps the
\* invariant: at most it cancels more tokens.
LEMMA LifecycleFrame ==
  ASSUME LifecycleInv, NEW c \in Callers, CallerFrame(c), TypeOK'
  PROVE  LifecycleInv'
  <1>1. AdmissionInv'
    BY DEF LifecycleInv, AdmissionInv, CallerFrame
  <1>2. IdInv' /\ ReplacedRunsAreCancelled'
    BY DEF LifecycleInv, IdInv, ReplacedRunsAreCancelled, CallerFrame
  <1> QED
    BY <1>1, <1>2 DEF LifecycleInv

\* A start that goes ahead cancels the one run that could still deliver, and
\* takes both the session slot and the token slot.
LEMMA LifecycleAdmit ==
  ASSUME LifecycleInv, NEW c \in Callers, NEW knd, NEW trig, NEW m, NEW audio,
         Admit(c, knd, trig, m, audio), cpc[c] \notin {"arm", "flag", "announce"}, TypeOK'
  PROVE  LifecycleInv'
  <1>1. CASE AdmitRefused(c)
    <2>1. CallerFrame(c)
      BY <1>1 DEF AdmitRefused, CallerFrame, Step, session, flow, LifecycleInv, TypeOK
    <2> QED
      BY <2>1, LifecycleFrame
  <1>2. CASE AdmitAccepted(c, knd, trig, m, audio)
    <2> DEFINE new == counter + 1
    <2>1. /\ pc \in [Sid -> RunPcs] /\ counter \in SidOrNone /\ active.sid \in SidOrNone
          /\ cpc \in [Callers -> CallerPcs] /\ cs \in [Callers -> SidOrNone]
      BY DEF LifecycleInv, TypeOK, Sessions
    <2>2. new \in Sid /\ new > counter /\ new # 0
      BY <1>2, <2>1, BoundAssumption DEF AdmitAccepted, Sid, SidOrNone
    <2>3. \A r \in Sid : pc'[r] = IF r = new THEN "admitted" ELSE pc[r]
      BY <1>2, <2>1 DEF AdmitAccepted, Run
    <2>4. \A d \in Callers : /\ cpc'[d] = IF d = c THEN "arm" ELSE cpc[d]
                             /\ cs'[d] = IF d = c THEN new ELSE cs[d]
      BY <1>2, <2>1 DEF AdmitAccepted, Step
    <2>5. /\ gate = Free /\ gate' = c /\ active'.sid = new /\ tokenSlot' = new
          /\ counter' = new /\ cancelled \subseteq cancelled'
      BY <1>2 DEF Admit, AdmitAccepted, RetireToken
    <2>6. tokenSlot \in Sid /\ tokenSlot \notin cancelled => tokenSlot \in cancelled'
      BY <1>2 DEF AdmitAccepted, RetireToken, TokenIsLive, Sid
    <2>7. AdmissionInv'
      <3>1. \A d \in Callers : cpc[d] \notin {"arm", "flag", "announce"}
        BY <2>5, CallerAssumption DEF LifecycleInv, AdmissionInv
      <3> QED
        BY <3>1, <2>2, <2>3, <2>4, <2>5 DEF AdmissionInv
    <2>8. IdInv'
      BY <2>1, <2>2, <2>3, <2>5 DEF LifecycleInv, IdInv, Sid, SidOrNone
    <2>9. ReplacedRunsAreCancelled'
      <3> SUFFICES ASSUME NEW r \in Sid, pc'[r] \notin {"none", "done"}, r \notin cancelled'
                   PROVE  r = new
        BY <2>5 DEF ReplacedRunsAreCancelled
      <3>1. CASE r # new
        <4>1. tokenSlot = r /\ r \notin cancelled
          BY <2>3, <2>5, <3>1 DEF LifecycleInv, ReplacedRunsAreCancelled
        <4> QED
          BY <2>6, <4>1
      <3> QED
        BY <3>1
    <2> QED
      BY <2>7, <2>8, <2>9 DEF LifecycleInv
  <1> QED
    BY <1>1, <1>2 DEF Admit

\* The end of an admission gives the gate back and lets the task begin.
LEMMA LifecycleAnnounce ==
  ASSUME LifecycleInv, NEW c \in Callers, Announce(c), TypeOK'
  PROVE  LifecycleInv'
  <1> DEFINE s == cs[c]
  <1>1. /\ cpc[c] = "announce" /\ gate = c
        /\ s \in Sid /\ active.sid = s /\ pc[s] = "admitted"
    BY DEF Announce, LifecycleInv, AdmissionInv
  <1>2. /\ \A r \in Sid : pc'[r] = IF r = s THEN "spawned" ELSE pc[r]
        /\ \A d \in Callers : cpc'[d] = IF d = c THEN "idle" ELSE cpc[d]
    BY DEF Announce, Run, Step, LifecycleInv, TypeOK
  <1>3. /\ cs' = cs /\ active' = active /\ counter' = counter
        /\ tokenSlot' = tokenSlot /\ cancelled' = cancelled
    BY DEF Announce, session
  <1> HIDE DEF s
  <1>4. AdmissionInv'
    <2>1. \A d \in Callers \ {c} : cpc[d] \notin {"arm", "flag", "announce"}
      BY <1>1 DEF LifecycleInv, AdmissionInv
    <2> QED
      BY <1>2, <2>1 DEF AdmissionInv
  <1>5. IdInv' /\ ReplacedRunsAreCancelled'
    <2>1. s \in Nat /\ active.sid \in Nat /\ counter \in Nat
      BY <1>1, BoundAssumption DEF Sid, LifecycleInv, TypeOK, SidOrNone
    <2> QED
      BY <1>1, <1>2, <1>3, <2>1 DEF LifecycleInv, IdInv, ReplacedRunsAreCancelled
  <1> QED
    BY <1>4, <1>5 DEF LifecycleInv

\* Every command and every later step of its thread keeps the invariant.
LEMMA LifecycleCaller ==
  ASSUME LifecycleInv, NEW c \in Callers, Command(c) \/ CallerStep(c), TypeOK'
  PROVE  LifecycleInv'
  <1>t. /\ cpc \in [Callers -> CallerPcs] /\ cs \in [Callers -> SidOrNone]
        /\ active \in Sessions
    BY DEF LifecycleInv, TypeOK
  <1> USE LifecycleAdmit, LifecycleFrame
  <1>1. CASE StartCommand(c)
    BY <1>1 DEF StartCommand
  <1>2. CASE AdmitDecided(c)
    BY <1>2 DEF AdmitDecided
  <1>3. CASE Announce(c)
    BY <1>3, LifecycleAnnounce
  <1>4. CASE FinishClaim(c)
    <2>1. active'.sid = active.sid
      BY <1>4, <1>t DEF FinishClaim, Sessions
    <2>2. CallerFrame(c)
      BY <1>4, <1>t, <2>1 DEF FinishClaim, CallerFrame, Step, flow
    <2> QED
      BY <2>2
  <1>5. CASE Cancel(c)
    <2>1. active'.sid = active.sid
      BY <1>5, <1>t DEF Cancel, Sessions
    <2>2. CallerFrame(c)
      BY <1>5, <2>1 DEF Cancel, CallerFrame
    <2> QED
      BY <2>2
  <1>6. CASE Arm(c) \/ NewStopFlag(c)
    <2>1. CallerFrame(c)
      BY <1>6, <1>t DEF Arm, NewStopFlag, CallerFrame, Step, session, flow
    <2> QED
      BY <2>1
  <1>7. CASE \/ RetryCommand(c) \/ StopCommand(c) \/ Undo(c) \/ Check(c)
             \/ FinishStop(c) \/ FinishPaint(c) \/ CheckShow(c) \/ CheckEnd(c)
    <2>1. CallerFrame(c)
      BY <1>7, <1>t DEF RetryCommand, StopCommand, Undo, Check, FinishStop, FinishPaint,
                        CheckShow, CheckEnd, CallerFrame, Step, session, flow
    <2> QED
      BY <2>1
  <1> QED
    BY <1>1, <1>2, <1>3, <1>4, <1>5, <1>6, <1>7 DEF Command, CallerStep

\* The hotkey events and the double-tap windows keep the invariant.
LEMMA LifecycleKeys ==
  ASSUME LifecycleInv, TypeOK',
         Press \/ Release \/ Toggle \/ LockPaint \/ \E t \in Timers : TimerFires(t)
  PROVE  LifecycleInv'
  <1>t. /\ cpc \in [Callers -> CallerPcs] /\ cs \in [Callers -> SidOrNone]
        /\ active \in Sessions
    BY DEF LifecycleInv, TypeOK
  <1>c. Hotkey \in Callers /\ Timers \subseteq Callers
    BY DEF Callers
  <1>1. CASE Press
    <2>1. active'.sid = active.sid
      BY <1>1, <1>t DEF Press, Sessions
    <2>2. CallerFrame(Hotkey)
      BY <1>1, <1>t, <1>c, <2>1 DEF Press, CallerFrame, Step, flow
    <2> QED
      BY <1>c, <2>2, LifecycleFrame
  <1>2. CASE Release
    <2>1. PICK old \in BOOLEAN :
            \/ UNCHANGED <<active, cpc, cs>>
            \/ /\ active' = [active EXCEPT !.old = old]
               /\ Step(Hotkey, "finish") /\ UNCHANGED cs
            \/ /\ active' = [active EXCEPT !.old = old, !.pending = TRUE]
               /\ \E t \in Timers : Step(t, "wait") /\ cs' = [cs EXCEPT ![t] = active.sid]
      BY <1>2 DEF Release
    <2>2. active'.sid = active.sid
      BY <1>t, <2>1 DEF Sessions
    <2>3. /\ gate' = gate /\ pc' = pc /\ counter' = counter
          /\ tokenSlot' = tokenSlot /\ cancelled' = cancelled
      BY <1>2 DEF Release, flow
    <2>4. \E c \in Callers : CallerFrame(c)
      BY <1>t, <1>c, <2>1, <2>2, <2>3 DEF CallerFrame, Step
    <2> QED
      BY <2>4, LifecycleFrame
  <1>3. CASE Toggle \/ LockPaint
    <2>1. CallerFrame(Hotkey)
      BY <1>3, <1>t, <1>c DEF Toggle, LockPaint, CallerFrame, Step, session, flow
    <2> QED
      BY <1>c, <2>1, LifecycleFrame
  <1>4. CASE \E t \in Timers : TimerFires(t)
    <2>1. PICK t \in Timers : TimerFires(t)
      BY <1>4
    <2>2. active'.sid = active.sid
      BY <1>t, <2>1 DEF TimerFires, Sessions
    <2>3. CallerFrame(t)
      BY <1>t, <1>c, <2>1, <2>2 DEF TimerFires, CallerFrame, Step, flow
    <2> QED
      BY <1>c, <2>3, LifecycleFrame
  <1> QED
    BY <1>1, <1>2, <1>3, <1>4

\* A step that changes nothing keeps the invariant.
LEMMA LifecycleStutter ==
  ASSUME LifecycleInv, UNCHANGED vars
  PROVE  LifecycleInv'
  BY DEF LifecycleInv, TypeOK, AdmissionInv, IdInv, ReplacedRunsAreCancelled, vars,
         session, surface, flow, env

\* Every step of the controller keeps the invariant.
LEMMA LifecycleStep ==
  ASSUME LifecycleInv, [Next]_vars
  PROVE  LifecycleInv'
  <1> USE DEF LifecycleInv
  <1>1. CASE Press \/ Release \/ Toggle \/ LockPaint \/ \E t \in Timers : TimerFires(t)
    BY <1>1, TypeKeys, LifecycleKeys
  <1>2. CASE \E c \in Callers : Command(c) \/ CallerStep(c)
    BY <1>2, TypeCaller, LifecycleCaller
  <1>3. CASE \E s \in Sid : RunStep(s)
    BY <1>3, TypeRun, RunIsProgress, LifecycleProgress, LifecycleCleanup
  <1>4. CASE Rest \/ UNCHANGED vars
    BY <1>4, LifecycleStutter DEF Rest
  <1> QED
    BY <1>1, <1>2, <1>3, <1>4 DEF Next

-----------------------------------------------------------------------------
(* What a step of a flow task does to its text and its Enter.              *)

\* The stages before a text went in, and those before an Enter.
Unsent == BeforeText \cup {"none", "insert"}
Unpressed == BeforeText \cup BeforeEnter \cup {"none"}

\* A step of s touches no other run's text or Enter, sends its own text and
\* presses its own Enter only at the stage for it, reaches either stage only as
\* the current run, never falls back to an earlier stage, and makes no run current.
Delivery(s) ==
  /\ cut' = cut
  /\ \A r \in Sid \ {s} : /\ pc'[r] = pc[r] /\ landed'[r] = landed[r]
                          /\ r \in pressed' <=> r \in pressed
  /\ pc[s] # "none" /\ pc'[s] # "none"
  /\ landed'[s] # landed[s] => pc[s] = "insert"
  /\ s \in pressed' /\ s \notin pressed => pc[s] = "pressEnter"
  /\ pc'[s] \in Unsent => pc[s] \in BeforeText
  /\ pc'[s] \in Unpressed => pc[s] \in Unpressed
  /\ pc'[s] \in {"insert", "pressEnter"} => IsCurrent(s)
  /\ \A r \in Sid : IsCurrent(r)' => IsCurrent(r)

\* A phase step that neither sends nor presses anything.
LEMMA QuietDelivery ==
  ASSUME TypeOK, NEW s \in Sid, NEW at \in FlowPcs, Run(s, at), RunFrame,
         UNCHANGED <<landed, pressed>>, active'.sid = active.sid, cancelled \subseteq cancelled',
         pc[s] # "none",
         at \in Unsent => pc[s] \in BeforeText,
         at \in Unpressed => pc[s] \in Unpressed,
         at \in {"insert", "pressEnter"} => IsCurrent(s)
  PROVE  Delivery(s)
  <1>1. \A r \in Sid : pc'[r] = IF r = s THEN at ELSE pc[r]
    BY DEF TypeOK, Run
  <1>2. at # "none"
    BY DEF FlowPcs
  <1>3. cut' = cut
    BY DEF RunFrame
  <1>4. \A r \in Sid : IsCurrent(r)' => IsCurrent(r)
    BY DEF IsCurrent, Owns
  <1> QED
    BY <1>1, <1>2, <1>3, <1>4 DEF Delivery

\* A phase that only moves on.
LEMMA GotoDelivery ==
  ASSUME TypeOK, NEW s \in Sid, NEW at \in FlowPcs, Goto(s, at), pc[s] # "none",
         at \in Unsent => pc[s] \in BeforeText,
         at \in Unpressed => pc[s] \in Unpressed,
         at \in {"insert", "pressEnter"} => IsCurrent(s)
  PROVE  Delivery(s)
  BY QuietDelivery DEF Goto

\* A phase that fails.
LEMMA FailDelivery ==
  ASSUME TypeOK, NEW s \in Sid, Fail(s), pc[s] # "none", cancelled \subseteq cancelled'
  PROVE  Delivery(s)
  <1>1. "cleanup" \in FlowPcs /\ "cleanup" \notin Unsent \cup Unpressed
    BY DEF FlowPcs, RunPcs, Unsent, Unpressed, BeforeText, BeforeEnter
  <1> QED
    BY <1>1, QuietDelivery DEF Fail

\* A phase that changes the session's state.
LEMMA MoveDelivery ==
  ASSUME TypeOK, NEW s \in Sid, NEW st, NEW at \in FlowPcs, Move(s, st, at), pc[s] # "none",
         at \in Unsent => pc[s] \in BeforeText,
         at \in Unpressed => pc[s] \in Unpressed,
         at \notin {"insert", "pressEnter"}
  PROVE  Delivery(s)
  <1>1. active'.sid = active.sid
    BY SetStateSid DEF TypeOK, Move
  <1> QED
    BY <1>1, QuietDelivery DEF Move

\* A phase that updates the pill.
LEMMA ShowDelivery ==
  ASSUME TypeOK, NEW s \in Sid, NEW h, NEW at \in FlowPcs, Show(s, h, at), pc[s] # "none",
         at \in Unsent => pc[s] \in BeforeText,
         at \in Unpressed => pc[s] \in Unpressed,
         at \notin {"insert", "pressEnter"}
  PROVE  Delivery(s)
  BY QuietDelivery DEF Show

\* Every step of a flow task delivers as Delivery says.
LEMMA RunDelivery ==
  ASSUME TypeOK, NEW s \in Sid, RunStep(s)
  PROVE  Delivery(s)
  <1> USE DEF FlowPcs, RunPcs, Unsent, Unpressed, BeforeText, BeforeEnter
  <1>1. CASE FlowBegin(s)
    BY <1>1, MoveDelivery, GotoDelivery DEF FlowBegin
  <1>2. CASE ShowFixture(s) \/ ShowTranscribing(s) \/ ShowEnter(s) \/ ShowIdle(s)
    BY <1>2, ShowDelivery DEF ShowFixture, ShowTranscribing, ShowEnter, ShowIdle
  <1>3. CASE Preflight(s)
    BY <1>3, FailDelivery, GotoDelivery DEF Preflight
  <1>4. CASE MicOpen(s)
    BY <1>4, ShowDelivery, GotoDelivery DEF MicOpen
  <1>5. CASE RecordingEnds(s) \/ Captured(s) \/ EngineReady(s)
    BY <1>5, FailDelivery, GotoDelivery DEF RecordingEnds, Captured, EngineReady
  <1>6. CASE KeepAudio(s)
    BY <1>6, QuietDelivery DEF KeepAudio
  <1>7. CASE EnterTranscribing(s) \/ EnterInserted(s) \/ MarkInserted(s) \/ EndIdle(s)
    BY <1>7, MoveDelivery DEF EnterTranscribing, EnterInserted, MarkInserted, EndIdle
  <1>8. CASE Decode(s)
    <2>1. CASE \E w \in Spoken :
                 /\ Run(s, IF w = "enter" THEN "command" ELSE "format")
                 /\ RunFrame
                 /\ UNCHANGED <<active, cancelled, landed, pressed>>
      BY <1>8, <2>1, QuietDelivery DEF Decode
    <2>2. CASE Fail(s) /\ cancelled \subseteq cancelled'
      BY <1>8, <2>2, FailDelivery DEF Decode
    <2>3. CASE Goto(s, "endIdle")
      BY <1>8, <2>3, GotoDelivery DEF Decode
    <2> QED
      BY <1>8, <2>1, <2>2, <2>3 DEF Decode
  <1>9. CASE EnterCommand(s) \/ EnterCheck(s)
    BY <1>9, GotoDelivery DEF EnterCommand, EnterCheck
  <1>10. CASE PressEnter(s)
    <2>1. PICK at \in {"enterInserted", "enterDone"} : pc' = [pc EXCEPT ![s] = at]
      BY <1>10 DEF PressEnter, Run
    <2>2. \A r \in Sid : pc'[r] = IF r = s THEN at ELSE pc[r]
      BY <2>1 DEF TypeOK
    <2>3. /\ pc[s] = "pressEnter" /\ landed' = landed /\ cut' = cut
          /\ pressed' = pressed \/ pressed' = pressed \cup {s}
          /\ active' = active /\ cancelled' = cancelled
      BY <1>10 DEF PressEnter, RunFrame
    <2>4. \A r \in Sid : IsCurrent(r)' => IsCurrent(r)
      BY <2>3 DEF IsCurrent, Owns
    <2> QED
      BY <2>1, <2>2, <2>3, <2>4 DEF Delivery
  <1>11. CASE Format(s)
    BY <1>11, FailDelivery, GotoDelivery DEF Format
  <1>12. CASE InsertCheck(s)
    BY <1>12, QuietDelivery DEF InsertCheck
  <1>13. CASE Insert(s)
    <2>1. PICK how : landed' = [landed EXCEPT ![s] = how]
      BY <1>13 DEF Insert
    <2>2. \A r \in Sid \ {s} : landed'[r] = landed[r]
      BY <2>1 DEF TypeOK
    <2>3. \A r \in Sid : pc'[r] = IF r = s THEN "showInsert" ELSE pc[r]
      BY <1>13 DEF Insert, Run, TypeOK
    <2>4. /\ pc[s] = "insert" /\ pressed' = pressed /\ cut' = cut
          /\ active' = active /\ cancelled' = cancelled
      BY <1>13 DEF Insert, RunFrame
    <2>5. \A r \in Sid : IsCurrent(r)' => IsCurrent(r)
      BY <2>4 DEF IsCurrent, Owns
    <2> QED
      BY <2>2, <2>3, <2>4, <2>5 DEF Delivery
  <1>14. CASE ShowInsert(s)
    BY <1>14, ShowDelivery DEF ShowInsert, AfterInsert
  <1>15. CASE ErrorState(s)
    BY <1>15, MoveDelivery DEF ErrorState, AfterInsert
  <1>16. CASE EnterDelay(s)
    BY <1>16, QuietDelivery DEF EnterDelay
  <1>17. CASE EnterDone(s)
    BY <1>17, QuietDelivery DEF EnterDone
  <1>18. CASE Cleanup(s)
    <2>1. \A r \in Sid : pc'[r] = IF r = s THEN "done" ELSE pc[r]
      BY <1>18 DEF Cleanup, Run, TypeOK
    <2>2. /\ pc[s] = "cleanup" /\ landed' = landed /\ pressed' = pressed /\ cut' = cut
          /\ cancelled' = cancelled
      BY <1>18 DEF Cleanup
    <2>3. active'.sid = 0 \/ active' = active
      BY <1>18 DEF Cleanup, NoSession
    <2>4. \A r \in Sid : IsCurrent(r)' => IsCurrent(r)
      BY <2>2, <2>3 DEF IsCurrent, Owns, Sid
    <2> QED
      BY <2>1, <2>2, <2>4 DEF Delivery
  <1> QED
    BY <1>1, <1>2, <1>3, <1>4, <1>5, <1>6, <1>7, <1>8, <1>9, <1>10, <1>11, <1>12,
       <1>13, <1>14, <1>15, <1>16, <1>17, <1>18 DEF RunStep

-----------------------------------------------------------------------------
(* What a step of a caller does to the runs' texts and Enters.             *)

\* A caller sends and presses nothing, lets at most a waiting task begin, makes
\* no run current that had begun, and cuts only runs that lose the session.
CallerDelivery ==
  /\ landed' = landed /\ pressed' = pressed
  /\ \A r \in Sid : \/ pc'[r] = pc[r]
                    \/ pc[r] \in {"none", "admitted"} /\ pc'[r] \in {"admitted", "spawned"}
  /\ \A r \in Sid : pc[r] # "none" /\ IsCurrent(r)' => IsCurrent(r)
  /\ \A r \in Sid : \/ cut'[r] = cut[r]
                    \/ /\ pc[r] # "none" /\ ~IsCurrent(r)'
                       /\ cut'[r] = "beforeText" => pc[r] \in BeforeText
                       /\ cut'[r] = "beforeEnter" => pc[r] \in BeforeEnter

\* A step that keeps the runs, their session and the history is of that kind.
LEMMA FrameDelivery ==
  ASSUME pc' = pc, cut' = cut, landed' = landed, pressed' = pressed,
         active'.sid = active.sid, cancelled \subseteq cancelled'
  PROVE  CallerDelivery
  BY DEF CallerDelivery, IsCurrent, Owns

\* The history records the stage of the one run that is cut.
LEMMA CutStage ==
  ASSUME TypeOK, NEW s \in Sid, CutNow(s), NEW r \in Sid, cut'[r] # cut[r]
  PROVE  /\ r = s
         /\ cut'[r] = "beforeText" => pc[r] \in BeforeText
         /\ cut'[r] = "beforeEnter" => pc[r] \in BeforeEnter
         /\ pc[r] # "done"
  <1> DEFINE v == IF cut[s] # "no" \/ pc[s] = "done" THEN cut[s]
                  ELSE IF pc[s] \in BeforeText THEN "beforeText"
                  ELSE IF pc[s] \in BeforeEnter THEN "beforeEnter" ELSE "late"
  <1>1. cut' = [cut EXCEPT ![s] = v]
    BY DEF CutNow
  <1>2. v # cut[s] => /\ v = "beforeText" => pc[s] \in BeforeText
                      /\ v = "beforeEnter" => pc[s] \in BeforeEnter
                      /\ pc[s] # "done"
    OBVIOUS
  <1> HIDE DEF v
  <1>3. cut'[r] = IF r = s THEN v ELSE cut[r]
    BY <1>1 DEF TypeOK
  <1> QED
    BY <1>2, <1>3

\* A start cuts the run of the session it replaces.
LEMMA AdmitDelivery ==
  ASSUME LifecycleInv, NEW c \in Callers, NEW knd, NEW trig, NEW m, NEW audio,
         Admit(c, knd, trig, m, audio)
  PROVE  CallerDelivery
  <1>t. TypeOK
    BY DEF LifecycleInv
  <1>1. CASE AdmitRefused(c)
    BY <1>1, FrameDelivery DEF AdmitRefused, session, flow
  <1>2. CASE AdmitAccepted(c, knd, trig, m, audio)
    <2> DEFINE new == counter + 1
    <2>1. /\ pc \in [Sid -> RunPcs] /\ counter \in SidOrNone /\ active.sid \in SidOrNone
      BY <1>t DEF TypeOK, Sessions
    <2>2. new \in Sid /\ new > counter /\ pc[new] = "none"
      BY <1>2, <2>1, BoundAssumption DEF AdmitAccepted, Sid, SidOrNone, LifecycleInv, IdInv
    <2>3. \A r \in Sid : pc'[r] = IF r = new THEN "admitted" ELSE pc[r]
      BY <1>2, <2>1, <2>2 DEF AdmitAccepted, Run
    <2>4. /\ active'.sid = new /\ cancelled \subseteq cancelled'
          /\ landed' = landed /\ pressed' = pressed
      BY <1>2 DEF AdmitAccepted, RetireToken
    <2>5. \A r \in Sid : cut'[r] = cut[r] \/ /\ r = active.sid /\ CutNow(r)
      <3>1. CASE active.sid = 0
        BY <1>2, <3>1 DEF AdmitAccepted
      <3>2. CASE active.sid # 0
        <4>1. active.sid \in Sid /\ CutNow(active.sid)
          BY <1>2, <2>1, <3>2 DEF AdmitAccepted, Sid, SidOrNone
        <4> QED
          BY <4>1, <1>t, CutStage
      <3> QED
        BY <3>1, <3>2
    <2> HIDE DEF new
    <2>6. \A r \in Sid : pc[r] # "none" => ~IsCurrent(r)'
      BY <2>2, <2>4 DEF IsCurrent, Owns
    <2>7. \A r \in Sid : r = active.sid => pc[r] # "none"
      BY DEF LifecycleInv, IdInv, Sid
    <2>8. \A r \in Sid : \/ cut'[r] = cut[r]
                         \/ /\ pc[r] # "none" /\ ~IsCurrent(r)'
                            /\ cut'[r] = "beforeText" => pc[r] \in BeforeText
                            /\ cut'[r] = "beforeEnter" => pc[r] \in BeforeEnter
      BY <1>t, <2>5, <2>6, <2>7, CutStage
    <2> QED
      BY <2>2, <2>3, <2>4, <2>6, <2>8 DEF CallerDelivery
  <1> QED
    BY <1>1, <1>2 DEF Admit

\* A cancel cuts the run of the session in the slot, and no other run was live.
LEMMA CancelDelivery ==
  ASSUME LifecycleInv, NEW c, Cancel(c)
  PROVE  CallerDelivery
  <1>t. TypeOK /\ active \in Sessions /\ active.sid \in SidOrNone /\ tokenSlot \in SidOrNone
    BY DEF LifecycleInv, TypeOK, Sessions
  <1>1. /\ pc' = pc /\ landed' = landed /\ pressed' = pressed
        /\ cancelled' = cancelled \cup ({tokenSlot} \ {0})
    BY DEF Cancel
  <1>2. active'.sid = active.sid
    BY <1>t DEF Cancel, Sessions
  <1>3. \A r \in Sid : pc[r] \notin {"none", "done"} => ~IsCurrent(r)'
    <2> SUFFICES ASSUME NEW r \in Sid, pc[r] \notin {"none", "done"}, r \notin cancelled'
                 PROVE  FALSE
      BY DEF IsCurrent
    <2>1. tokenSlot = r
      BY <1>1 DEF LifecycleInv, ReplacedRunsAreCancelled
    <2> QED
      BY <1>1, <2>1 DEF Sid
  <1>4. CASE active.sid = 0
    BY <1>1, <1>2, <1>4, FrameDelivery DEF Cancel
  <1>5. CASE active.sid # 0
    <2>1. active.sid \in Sid /\ CutNow(active.sid) /\ pc[active.sid] \notin {"none", "done"}
      BY <1>t, <1>5 DEF Cancel, Sid, SidOrNone, LifecycleInv, IdInv
    <2>2. \A r \in Sid : \/ cut'[r] = cut[r]
                         \/ /\ pc[r] # "none" /\ ~IsCurrent(r)'
                            /\ cut'[r] = "beforeText" => pc[r] \in BeforeText
                            /\ cut'[r] = "beforeEnter" => pc[r] \in BeforeEnter
      BY <1>t, <1>3, <2>1, CutStage
    <2>3. \A r \in Sid : IsCurrent(r)' => IsCurrent(r)
      BY <1>1, <1>2 DEF IsCurrent, Owns
    <2> QED
      BY <1>1, <2>2, <2>3 DEF CallerDelivery
  <1> QED
    BY <1>4, <1>5

\* The end of an admission lets the waiting task begin.
LEMMA AnnounceDelivery ==
  ASSUME LifecycleInv, NEW c \in Callers, Announce(c)
  PROVE  CallerDelivery
  <1>1. cs[c] \in Sid /\ pc[cs[c]] = "admitted"
    BY DEF Announce, LifecycleInv, AdmissionInv
  <1>2. \A r \in Sid : pc'[r] = IF r = cs[c] THEN "spawned" ELSE pc[r]
    BY <1>1 DEF Announce, Run, LifecycleInv, TypeOK
  <1>3. /\ active' = active /\ cancelled' = cancelled
        /\ landed' = landed /\ pressed' = pressed /\ cut' = cut
    BY DEF Announce, session
  <1>4. \A r \in Sid : IsCurrent(r)' => IsCurrent(r)
    BY <1>3 DEF IsCurrent, Owns
  <1> QED
    BY <1>1, <1>2, <1>3, <1>4 DEF CallerDelivery

\* Every step that is not a flow task's delivers as CallerDelivery says.
LEMMA CallersDeliver ==
  ASSUME LifecycleInv,
         \/ Press \/ Release \/ Toggle \/ LockPaint
         \/ \E c \in Callers : Command(c) \/ CallerStep(c)
         \/ \E t \in Timers : TimerFires(t)
         \/ UNCHANGED vars
  PROVE  CallerDelivery
  <1>t. active \in Sessions
    BY DEF LifecycleInv, TypeOK
  <1> USE FrameDelivery
  <1>1. CASE Press \/ Toggle \/ LockPaint
    <2>1. active'.sid = active.sid
      BY <1>1, <1>t DEF Press, Toggle, LockPaint, session, Sessions
    <2> QED
      BY <1>1, <2>1 DEF Press, Toggle, LockPaint, session, flow
  <1>2. CASE Release
    <2>1. PICK old \in BOOLEAN :
            \/ active' = active
            \/ active' = [active EXCEPT !.old = old]
            \/ active' = [active EXCEPT !.old = old, !.pending = TRUE]
      BY <1>2 DEF Release
    <2>2. active'.sid = active.sid
      BY <1>t, <2>1 DEF Sessions
    <2>3. UNCHANGED <<pc, cut, landed, pressed, cancelled>>
      BY <1>2 DEF Release, flow
    <2> QED
      BY <2>2, <2>3
  <1>3. CASE \E t \in Timers : TimerFires(t)
    <2>1. active'.sid = active.sid
      BY <1>3, <1>t DEF TimerFires, Sessions
    <2> QED
      BY <1>3, <2>1 DEF TimerFires, flow
  <1>4. CASE \E c \in Callers : Command(c) \/ CallerStep(c)
    <2>1. PICK c \in Callers : Command(c) \/ CallerStep(c)
      BY <1>4
    <2>2. CASE StartCommand(c) \/ AdmitDecided(c)
      BY <2>2, AdmitDelivery DEF StartCommand, AdmitDecided
    <2>3. CASE Cancel(c)
      BY <2>3, CancelDelivery
    <2>4. CASE Announce(c)
      BY <2>4, AnnounceDelivery
    <2>5. CASE FinishClaim(c)
      <3>1. active'.sid = active.sid
        BY <2>5, <1>t DEF FinishClaim, Sessions
      <3> QED
        BY <2>5, <3>1 DEF FinishClaim, flow
    <2>6. CASE \/ RetryCommand(c) \/ StopCommand(c) \/ Undo(c) \/ Check(c) \/ Arm(c)
               \/ NewStopFlag(c) \/ FinishStop(c) \/ FinishPaint(c) \/ CheckShow(c)
               \/ CheckEnd(c)
      BY <2>6 DEF RetryCommand, StopCommand, Undo, Check, Arm, NewStopFlag, FinishStop,
                  FinishPaint, CheckShow, CheckEnd, session, flow
    <2> QED
      BY <2>1, <2>2, <2>3, <2>4, <2>5, <2>6 DEF Command, CallerStep
  <1>5. CASE UNCHANGED vars
    BY <1>5 DEF vars, session, flow
  <1> QED
    BY <1>1, <1>2, <1>3, <1>4, <1>5

-----------------------------------------------------------------------------
(* The inductive invariant of delivery.                                    *)

\* A text is sent and an Enter pressed only past the stages for them, and a run
\* that was cut is never current again, so it does not get past its next check.
DeliveryInv ==
  \A s \in Sid :
    /\ pc[s] \in Unsent => landed[s] = "no"
    /\ pc[s] \in Unpressed => s \notin pressed
    /\ cut[s] # "no" => pc[s] # "none" /\ ~IsCurrent(s)
    /\ cut[s] = "beforeText" => landed[s] = "no" /\ pc[s] # "insert"
    /\ cut[s] \in {"beforeText", "beforeEnter"} => s \notin pressed /\ pc[s] # "pressEnter"

\* Nothing was sent, pressed or cut at the start.
LEMMA DeliveryInit == Init => DeliveryInv
  BY DEF Init, DeliveryInv

\* A flow task's step keeps the invariant of delivery.
LEMMA DeliveryRun ==
  ASSUME DeliveryInv, NEW s \in Sid, Delivery(s)
  PROVE  DeliveryInv'
  <1> SUFFICES ASSUME NEW r \in Sid
               PROVE  /\ pc'[r] \in Unsent => landed'[r] = "no"
                      /\ pc'[r] \in Unpressed => r \notin pressed'
                      /\ cut'[r] # "no" => pc'[r] # "none" /\ ~IsCurrent(r)'
                      /\ cut'[r] = "beforeText" => landed'[r] = "no" /\ pc'[r] # "insert"
                      /\ cut'[r] \in {"beforeText", "beforeEnter"}
                           => r \notin pressed' /\ pc'[r] # "pressEnter"
    BY DEF DeliveryInv, Unsent, Unpressed, BeforeText, BeforeEnter
  <1>1. CASE r # s
    BY <1>1 DEF DeliveryInv, Delivery
  <1>2. CASE r = s
    BY <1>2 DEF DeliveryInv, Delivery, Unsent, Unpressed, BeforeText, BeforeEnter
  <1> QED
    BY <1>1, <1>2

\* A caller's step keeps it.
LEMMA DeliveryCaller ==
  ASSUME DeliveryInv, CallerDelivery
  PROVE  DeliveryInv'
  <1> SUFFICES ASSUME NEW r \in Sid
               PROVE  /\ pc'[r] \in Unsent => landed'[r] = "no"
                      /\ pc'[r] \in Unpressed => r \notin pressed'
                      /\ cut'[r] # "no" => pc'[r] # "none" /\ ~IsCurrent(r)'
                      /\ cut'[r] = "beforeText" => landed'[r] = "no" /\ pc'[r] # "insert"
                      /\ cut'[r] \in {"beforeText", "beforeEnter"}
                           => r \notin pressed' /\ pc'[r] # "pressEnter"
    BY DEF DeliveryInv, Unsent, Unpressed, BeforeText, BeforeEnter
  <1> QED
    BY DEF DeliveryInv, CallerDelivery, Unsent, Unpressed, BeforeText, BeforeEnter

\* Every step of the controller keeps the invariant of delivery.
LEMMA DeliveryStep ==
  ASSUME LifecycleInv, DeliveryInv, [Next]_vars
  PROVE  DeliveryInv'
  <1>1. CASE \E s \in Sid : RunStep(s)
    BY <1>1, RunDelivery, DeliveryRun DEF LifecycleInv
  <1>2. CASE ~ \E s \in Sid : RunStep(s)
    BY <1>2, CallersDeliver, DeliveryCaller DEF Next, Rest
  <1> QED
    BY <1>1, <1>2

-----------------------------------------------------------------------------
(* A run without a session leaves the session alone.                       *)

\* A step that changes at most its own run, its own token and its own marker.
Aside(s) ==
  /\ UNCHANGED <<active, tokenSlot, stopSlot, stopped, hud, esc>>
  /\ cancelled' \subseteq cancelled \cup {s}
  /\ submit' # submit => submit = s /\ submit' = 0

\* A phase that only moves on.
LEMMA GotoAside ==
  ASSUME NEW s, NEW at, Goto(s, at)
  PROVE  Aside(s)
  BY DEF Goto, RunFrame, surface, Aside

\* A phase that fails.
LEMMA FailAside ==
  ASSUME NEW s, Fail(s), cancelled' \subseteq cancelled \cup {s}
  PROVE  Aside(s)
  BY DEF Fail, RunFrame, surface, Aside

\* set_session_state by a run without a session.
LEMMA MoveAside ==
  ASSUME NEW s, NEW st, NEW at, Move(s, st, at), active.sid # s
  PROVE  Aside(s)
  BY DEF Move, SetState, RunFrame, surface, Aside

\* update_run_state by a run without a session.
LEMMA ShowAside ==
  ASSUME NEW s, NEW h, NEW at, Show(s, h, at), active.sid # s
  PROVE  Aside(s)
  BY DEF Show, PublishRun, RunFrame, Aside

\* Every step of a flow task without a session, its cleanup included.
LEMMA RunAside ==
  ASSUME NEW s, RunStep(s), active.sid # s
  PROVE  Aside(s)
  <1> USE GotoAside, FailAside, MoveAside, ShowAside
  <1>1. CASE FlowBegin(s) \/ ShowFixture(s) \/ Preflight(s) \/ MicOpen(s)
    BY <1>1 DEF FlowBegin, ShowFixture, Preflight, MicOpen
  <1>2. CASE RecordingEnds(s) \/ Captured(s) \/ EngineReady(s) \/ EnterTranscribing(s)
             \/ ShowTranscribing(s)
    BY <1>2 DEF RecordingEnds, Captured, EngineReady, EnterTranscribing, ShowTranscribing
  <1>3. CASE KeepAudio(s) \/ PressEnter(s) \/ Insert(s)
    BY <1>3 DEF KeepAudio, PressEnter, Insert, RunFrame, surface, Aside
  <1>4. CASE Decode(s)
    <2>1. CASE RunFrame /\ UNCHANGED <<active, cancelled, surface>>
      BY <2>1 DEF RunFrame, surface, Aside
    <2> QED
      BY <1>4, <2>1 DEF Decode
  <1>5. CASE EnterCommand(s) \/ EnterCheck(s) \/ EnterInserted(s) \/ ShowEnter(s)
    BY <1>5 DEF EnterCommand, EnterCheck, EnterInserted, ShowEnter
  <1>6. CASE Format(s)
    BY <1>6 DEF Format
  <1>7. CASE InsertCheck(s)
    BY <1>7 DEF InsertCheck, IsCurrent, Owns, RunFrame, Aside
  <1>8. CASE ShowInsert(s) \/ ErrorState(s) \/ MarkInserted(s) \/ EndIdle(s) \/ ShowIdle(s)
    BY <1>8 DEF ShowInsert, ErrorState, MarkInserted, EndIdle, ShowIdle
  <1>9. CASE EnterDelay(s) \/ EnterDone(s)
    BY <1>9 DEF EnterDelay, EnterDone, IsCurrent, Owns, ClearOwnMarker, RunFrame, Aside
  <1>10. CASE Cleanup(s)
    BY <1>10 DEF Cleanup, Owns, surface, Aside
  <1> QED
    BY <1>1, <1>2, <1>3, <1>4, <1>5, <1>6, <1>7, <1>8, <1>9, <1>10 DEF RunStep

\* Whichever step moves a task that began, it leaves the session alone if that
\* task has lost it: an admission moves only the task of its own session.
LEMMA StaleStep ==
  ASSUME LifecycleInv, [Next]_vars, NEW s \in Sid,
         pc[s] # "none", pc'[s] # pc[s], active.sid # s
  PROVE  Aside(s)
  <1>t. pc \in [Sid -> RunPcs]
    BY DEF LifecycleInv, TypeOK
  <1>1. CASE \E r \in Sid : RunStep(r)
    <2>1. PICK r \in Sid : RunStep(r)
      BY <1>1
    <2>2. Delivery(r)
      BY <2>1, RunDelivery DEF LifecycleInv
    <2>3. r = s
      BY <2>2 DEF Delivery
    <2> QED
      BY <2>1, <2>3, RunAside
  <1>2. CASE \E c \in Callers : Command(c) \/ CallerStep(c)
    <2>1. PICK c \in Callers : Command(c) \/ CallerStep(c)
      BY <1>2
    <2>2. CASE StartCommand(c) \/ AdmitDecided(c)
      <3>1. PICK knd, trig, m, audio : AdmitAccepted(c, knd, trig, m, audio) \/ AdmitRefused(c)
        BY <2>2 DEF StartCommand, AdmitDecided, Admit
      <3>2. CASE AdmitAccepted(c, knd, trig, m, audio)
        <4>1. counter \in SidOrNone /\ counter + 1 \in Sid
          BY <3>2, BoundAssumption DEF LifecycleInv, TypeOK, AdmitAccepted, Sid, SidOrNone
        <4>2. pc[counter + 1] = "none"
          BY <4>1 DEF LifecycleInv, IdInv, SidOrNone
        <4>3. s = counter + 1
          BY <1>t, <3>2, <4>1 DEF AdmitAccepted, Run
        <4> QED
          BY <4>2, <4>3
      <3>3. CASE AdmitRefused(c)
        BY <3>3 DEF AdmitRefused, flow
      <3> QED
        BY <3>1, <3>2, <3>3
    <2>3. CASE Announce(c)
      <3>1. cs[c] \in Sid /\ active.sid = cs[c]
        BY <2>3 DEF Announce, LifecycleInv, AdmissionInv
      <3> QED
        BY <1>t, <2>3, <3>1 DEF Announce, Run
    <2>4. CASE \/ RetryCommand(c) \/ StopCommand(c) \/ Undo(c) \/ Check(c) \/ Arm(c)
               \/ NewStopFlag(c) \/ FinishStop(c) \/ FinishPaint(c) \/ CheckShow(c)
               \/ CheckEnd(c) \/ FinishClaim(c) \/ Cancel(c)
      BY <2>4 DEF RetryCommand, StopCommand, Undo, Check, Arm, NewStopFlag, FinishStop,
                  FinishPaint, CheckShow, CheckEnd, FinishClaim, Cancel, flow
    <2> QED
      BY <2>1, <2>2, <2>3, <2>4 DEF Command, CallerStep
  <1>3. CASE Press \/ Release \/ Toggle \/ LockPaint \/ \E t \in Timers : TimerFires(t)
    BY <1>3 DEF Press, Release, Toggle, LockPaint, TimerFires, flow
  <1>4. CASE Rest \/ UNCHANGED vars
    BY <1>4 DEF Rest, vars, flow
  <1> QED
    BY <1>1, <1>2, <1>3, <1>4 DEF Next

-----------------------------------------------------------------------------
(* Nothing is left in the slots.                                           *)

\* The slots are empty.
Vacant == active = NoSession /\ tokenSlot = 0 /\ stopSlot = 0 /\ submit = 0 /\ ~esc

\* Whoever holds the gate is in an admission, and without a session every slot
\* is empty.
SlotsInv ==
  /\ gate # Free => cpc[gate] \in {"arm", "flag", "announce"}
  /\ active.sid = 0 => Vacant

\* The slots start empty.
LEMMA SlotsInit == Init => SlotsInv
  BY DEF Init, SlotsInv, Vacant

\* update_state gives Escape back or leaves it, and never takes it.
LEMMA PublishGives ==
  ASSUME NEW h, Publish(h), ~esc
  PROVE  ~esc'
  BY DEF Publish

\* A flow task's step: one without the session leaves the slots alone, one with it
\* keeps it, and its cleanup empties them all.
LEMMA SlotsRun ==
  ASSUME LifecycleInv, SlotsInv, NEW s \in Sid, RunStep(s)
  PROVE  SlotsInv'
  <1>1. gate' = gate /\ cpc' = cpc
    <2>1. CASE Cleanup(s)
      BY <2>1 DEF Cleanup, env
    <2>2. CASE Progress(s)
      BY <2>2 DEF Progress, RunFrame, env
    <2> QED
      BY <2>1, <2>2, RunIsProgress DEF LifecycleInv
  <1>2. CASE active.sid # s
    <2>1. Aside(s)
      BY <1>2, RunAside
    <2> QED
      BY <1>1, <2>1 DEF SlotsInv, Vacant, Aside, Sid
  <1>3. CASE active.sid = s /\ Cleanup(s)
    BY <1>1, <1>3 DEF Cleanup, Owns, FreeSlots, SlotsInv, Vacant
  <1>4. CASE active.sid = s /\ ~Cleanup(s)
    <2>1. active'.sid # 0
      BY <1>4, RunIsProgress DEF LifecycleInv, Progress, Sid
    <2> QED
      BY <1>1, <2>1 DEF SlotsInv
  <1> QED
    BY <1>2, <1>3, <1>4

\* What keeps the slots: a caller that does not hold the gate leaves it alone,
\* and puts nothing into the slots while there is no session.
SlotsFrame(c) ==
  /\ gate' = gate
  /\ \A d \in Callers \ {c} : cpc'[d] = cpc[d]
  /\ cpc[c] \in {"arm", "flag", "announce"} => cpc'[c] \in {"arm", "flag", "announce"}
  /\ active.sid = 0 => Vacant' \/ active'.sid # 0
  /\ active.sid # 0 => active'.sid # 0

\* Such a step keeps the invariant of the slots.
LEMMA SlotsKept ==
  ASSUME LifecycleInv, SlotsInv, NEW c \in Callers, SlotsFrame(c)
  PROVE  SlotsInv'
  <1>1. gate \in Callers \cup {Free}
    BY DEF LifecycleInv, TypeOK
  <1>2. gate' # Free => cpc'[gate'] \in {"arm", "flag", "announce"}
    BY <1>1 DEF SlotsInv, SlotsFrame
  <1>3. active'.sid = 0 => Vacant'
    BY DEF SlotsInv, SlotsFrame
  <1> QED
    BY <1>2, <1>3 DEF SlotsInv

\* A start fills the slots and takes the gate, or leaves both alone.
LEMMA SlotsAdmit ==
  ASSUME LifecycleInv, SlotsInv, NEW c \in Callers, NEW knd, NEW trig, NEW m, NEW audio,
         cpc[c] \notin {"arm", "flag", "announce"}, Admit(c, knd, trig, m, audio)
  PROVE  SlotsInv'
  <1>1. CASE AdmitRefused(c)
    <2>1. \A d \in Callers \ {c} : cpc'[d] = cpc[d]
      BY <1>1 DEF AdmitRefused, Step, LifecycleInv, TypeOK
    <2>2. UNCHANGED <<gate, active, tokenSlot, stopSlot, submit, esc>>
      BY <1>1 DEF Admit, AdmitRefused, session, surface
    <2>3. SlotsFrame(c)
      BY <2>1, <2>2 DEF SlotsFrame, SlotsInv, Vacant
    <2> QED
      BY <2>3, SlotsKept
  <1>2. CASE AdmitAccepted(c, knd, trig, m, audio)
    <2>1. gate' = c /\ cpc'[c] = "arm"
      BY <1>2 DEF AdmitAccepted, Step, LifecycleInv, TypeOK
    <2>2. active'.sid # 0
      BY <1>2, BoundAssumption DEF AdmitAccepted, LifecycleInv, TypeOK, SidOrNone
    <2> QED
      BY <2>1, <2>2 DEF SlotsInv
  <1> QED
    BY <1>1, <1>2 DEF Admit

\* Every step that is not a flow task's keeps the invariant of the slots.
LEMMA SlotsCallers ==
  ASSUME LifecycleInv, SlotsInv,
         \/ Press \/ Release \/ Toggle \/ LockPaint
         \/ \E c \in Callers : Command(c) \/ CallerStep(c)
         \/ \E t \in Timers : TimerFires(t)
         \/ UNCHANGED vars
  PROVE  SlotsInv'
  <1>t. active \in Sessions /\ cpc \in [Callers -> CallerPcs]
    BY DEF LifecycleInv, TypeOK
  <1>c. Hotkey \in Callers /\ Timers \subseteq Callers
    BY DEF Callers
  <1>n. NoSession.sid = 0 /\ NoSession.state = "Idle"
    BY DEF NoSession
  <1>v. active.sid = 0 => active = NoSession /\ Vacant
    BY DEF SlotsInv, Vacant
  <1> USE SlotsKept
  <1>1. CASE Press
    <2>1. active'.sid = active.sid
      BY <1>1, <1>t DEF Press, Sessions
    <2>2. active.sid = 0 => active' = active
      BY <1>1 DEF Press, PressDecision, TokenIsStale
    <2>3. SlotsFrame(Hotkey)
      BY <1>1, <1>t, <1>v, <2>1, <2>2 DEF Press, Step, surface, SlotsFrame, Vacant
    <2> QED
      BY <1>c, <2>3
  <1>2. CASE Release
    <2>1. PICK old \in BOOLEAN :
            \/ UNCHANGED <<active, cpc>>
            \/ /\ active.sid # 0
               /\ active' = [active EXCEPT !.old = old]
               /\ Step(Hotkey, "finish")
            \/ /\ active.sid # 0
               /\ active' = [active EXCEPT !.old = old, !.pending = TRUE]
               /\ \E t \in Timers : Step(t, "wait") /\ cpc[t] = "idle"
      BY <1>2 DEF Release, ReleaseDecision
    <2>2. active'.sid = active.sid /\ (active.sid = 0 => active' = active)
      BY <1>t, <2>1 DEF Sessions
    <2>3. UNCHANGED <<gate, tokenSlot, stopSlot, submit, esc>> /\ cpc[Hotkey] = "idle"
      BY <1>2 DEF Release, surface
    <2>4. \E c \in Callers : SlotsFrame(c)
      BY <1>t, <1>v, <1>c, <2>1, <2>2, <2>3 DEF SlotsFrame, Vacant, Step
    <2> QED
      BY <2>4
  <1>3. CASE Toggle \/ LockPaint
    <2>1. SlotsFrame(Hotkey)
      BY <1>3, <1>t, <1>v, PublishGives DEF Toggle, LockPaint, Step, session, surface, SlotsFrame, Vacant
    <2> QED
      BY <1>c, <2>1
  <1>4. CASE \E t \in Timers : TimerFires(t)
    <2>1. PICK t \in Timers : TimerFires(t)
      BY <1>4
    <2>2. active'.sid = active.sid /\ (active.sid = 0 => active' = active)
      BY <1>t, <1>n, <1>v, <2>1 DEF TimerFires, Sessions
    <2>3. SlotsFrame(t)
      BY <1>t, <1>v, <1>c, <2>1, <2>2 DEF TimerFires, Step, surface, SlotsFrame, Vacant
    <2> QED
      BY <1>c, <2>3
  <1>5. CASE \E c \in Callers : Command(c) \/ CallerStep(c)
    <2>1. PICK c \in Callers : Command(c) \/ CallerStep(c)
      BY <1>5
    <2>2. CASE StartCommand(c) \/ AdmitDecided(c)
      BY <2>2, SlotsAdmit DEF StartCommand, AdmitDecided
    <2>3. CASE Arm(c) \/ NewStopFlag(c)
      <3>1. active.sid # 0 /\ active' = active /\ gate' = gate
        BY <2>3 DEF Arm, NewStopFlag, session, LifecycleInv, AdmissionInv, Sid
      <3>2. SlotsFrame(c)
        BY <1>t, <2>3, <3>1 DEF Arm, NewStopFlag, Step, SlotsFrame
      <3> QED
        BY <3>2
    <2>4. CASE Announce(c)
      BY <2>4 DEF Announce, session, SlotsInv, Vacant
    <2>5. CASE FinishClaim(c) \/ Cancel(c)
      <3>1. active'.sid = active.sid /\ (active.sid = 0 => active' = active)
        BY <1>t, <2>5 DEF FinishClaim, Cancel, Sessions
      <3>2. /\ gate' = gate /\ tokenSlot' = tokenSlot /\ stopSlot' = stopSlot
            /\ submit' \in {submit, 0} /\ (~esc => ~esc')
        BY <2>5 DEF FinishClaim, Cancel, surface
      <3>3. /\ \A d \in Callers \ {c} : cpc'[d] = cpc[d]
            /\ cpc[c] \notin {"arm", "flag", "announce"}
        BY <1>t, <2>5 DEF FinishClaim, Cancel, Step
      <3>4. SlotsFrame(c)
        BY <1>v, <3>1, <3>2, <3>3 DEF SlotsFrame, Vacant
      <3> QED
        BY <3>4
    <2>6. CASE Undo(c) \/ FinishPaint(c) \/ CheckShow(c) \/ CheckEnd(c)
      <3>1. SlotsFrame(c)
        BY <1>t, <1>v, <2>6, PublishGives DEF Undo, FinishPaint, CheckShow, CheckEnd, Step, session, SlotsFrame, Vacant
      <3> QED
        BY <3>1
    <2>7. CASE RetryCommand(c) \/ StopCommand(c) \/ Check(c) \/ FinishStop(c)
      <3>1. SlotsFrame(c)
        BY <1>t, <1>v, <2>7 DEF RetryCommand, StopCommand, Check, FinishStop, Step, session, surface,
                                 SlotsFrame, Vacant
      <3> QED
        BY <3>1
    <2> QED
      BY <2>1, <2>2, <2>3, <2>4, <2>5, <2>6, <2>7 DEF Command, CallerStep
  <1>6. CASE UNCHANGED vars
    BY <1>6 DEF vars, session, surface, env, SlotsInv, Vacant
  <1> QED
    BY <1>1, <1>2, <1>3, <1>4, <1>5, <1>6

\* Every step of the controller keeps the invariant of the slots.
LEMMA SlotsStep ==
  ASSUME LifecycleInv, SlotsInv, [Next]_vars
  PROVE  SlotsInv'
  <1>1. CASE \E s \in Sid : RunStep(s)
    BY <1>1, SlotsRun
  <1>2. CASE ~ \E s \in Sid : RunStep(s)
    BY <1>2, SlotsCallers DEF Next, Rest
  <1> QED
    BY <1>1, <1>2

-----------------------------------------------------------------------------
(* The theorems.                                                           *)

\* The lifecycle invariant holds in every reachable state: the types, what an
\* admission under the gate may rely on, the order of the ids, and the one run
\* that was not told to stop.
THEOREM LifecycleHolds == Spec => []LifecycleInv
  BY LifecycleInit, LifecycleStep, PTL DEF Spec

\* Every variable keeps its type.
THEOREM TypeCorrect == Spec => []TypeOK
  <1>1. LifecycleInv => TypeOK
    BY DEF LifecycleInv
  <1> QED
    BY <1>1, LifecycleHolds, PTL

\* However many threads start, finish and cancel dictations, a run that was
\* not told to stop is the run of the session in the slot, with its token in
\* the token slot: one run at most can deliver, and a cancel reaches it.
THEOREM OneLiveRun == Spec => []ReplacedRunsAreCancelled
  <1>1. LifecycleInv => ReplacedRunsAreCancelled
    BY DEF LifecycleInv
  <1> QED
    BY <1>1, LifecycleHolds, PTL
\* A cancel or a new session that hits a run before its last check keeps its
\* text, or its Enter, from ever being delivered, however many threads and
\* sessions there are.
THEOREM CancelIsFinal == Spec => []CancelledNeverDelivers
  <1>1. DeliveryInv => CancelledNeverDelivers
    BY DEF DeliveryInv, CancelledNeverDelivers
  <1>2. Spec => []DeliveryInv
    BY DeliveryInit, DeliveryStep, LifecycleHolds, PTL DEF Spec
  <1> QED
    BY <1>1, <1>2, PTL
\* A run that lost the session to a newer one, or to none, changes neither the
\* session, nor its token or stop flag, nor the pill, nor Escape, nor another
\* run's pending Enter, whichever of its steps it is at.
THEOREM StaleRunsKeepOut == Spec => StaleRunsLeaveTheSessionAlone
  <1>1. LifecycleInv /\ [Next]_vars =>
          [\A s \in Sid :
             pc[s] # "none" /\ pc'[s] # pc[s] /\ active.sid # s =>
               /\ UNCHANGED <<active, tokenSlot, stopSlot, stopped, hud, esc>>
               /\ cancelled' \subseteq cancelled \cup {s}
               /\ submit' # submit => submit = s /\ submit' = 0]_vars
    BY StaleStep DEF Aside
  <1> QED
    BY <1>1, LifecycleHolds, PTL DEF Spec, StaleRunsLeaveTheSessionAlone

\* Once every task is done the slots and the gate are free, no Enter is pending
\* and Escape is given back, whatever was started, finished or cancelled.
THEOREM SlotsAreFreed == Spec => []RestIsClean
  <1>1. LifecycleInv /\ SlotsInv => RestIsClean
    <2> SUFFICES ASSUME LifecycleInv, SlotsInv, Quiescent
                 PROVE  active = NoSession /\ tokenSlot = 0 /\ stopSlot = 0 /\ submit = 0
                        /\ ~esc /\ gate = Free
      BY DEF RestIsClean
    <2>1. gate = Free
      BY DEF LifecycleInv, TypeOK, SlotsInv, Quiescent
    <2>2. active.sid = 0
      BY DEF LifecycleInv, TypeOK, Sessions, IdInv, Quiescent, Sid, SidOrNone
    <2> QED
      BY <2>1, <2>2 DEF SlotsInv, Vacant
  <1>2. Spec => []SlotsInv
    BY SlotsInit, SlotsStep, LifecycleHolds, PTL DEF Spec
  <1> QED
    BY <1>1, <1>2, LifecycleHolds, PTL
=============================================================================
