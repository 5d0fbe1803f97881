------------------------------ MODULE MicNotices ------------------------------
(***************************************************************************)
(* What a dictation says about its microphone: the guard of the system's   *)
(* input volume (audio/input_volume.rs), which runs beside the capture and *)
(* may outlive it, and the judgement of the captured audio                 *)
(* (state/dictation/capture.rs).  Volumes are tenths; other programs and   *)
(* the user change them, mute a microphone or make another the default at  *)
(* any moment.                                                             *)
(***************************************************************************)
EXTENDS Naturals, Sequences, SequencesExt

CONSTANTS
  Takes,     \* the dictations
  Mics,      \* the capture endpoints
  Volumes,   \* the volumes that others set, of 0 .. 10
  Cooldown,  \* NOTICE_WARN_COOLDOWN
  LastHour,  \* bound on the clock
  MaxMeddling  \* bound on what others change

ASSUME VolumesAssumption ==
  Volumes \subseteq 0 .. 10 /\ Cooldown \in Nat /\ Cooldown > 0

NoHour == 0
LowVolume == 7   \* LOW_INPUT_VOLUME_THRESHOLD
FullVolume == 10 \* RESTORE_TARGET_SCALAR

VARIABLES
  volume, muted, front,  \* of each microphone, and the default one
  meddling,
  guardMode,    \* settings.mic_volume_guard, as each dictation took it
  guard,        \* each dictation's guard: where it is, the microphone, its reading
  judged,       \* dictations whose capture was judged
  warnedAt,     \* mic_guard_last_warned_at
  poorAt,       \* poor_audio_notice_last_at
  headsetTold,  \* mic_profile_notice_sent
  notices,      \* (history) each notice and its hour
  hour

micVars == <<volume, muted, front, meddling, guardMode, guard, judged, warnedAt, poorAt, headsetTold,
             notices, hour>>
mics == <<volume, muted, front, meddling>>
clocks == <<warnedAt, poorAt, headsetTold>>

NewGuard == [at |-> "new", mic |-> 0, volume |-> 0]
GuardOver == [at |-> "over", mic |-> 0, volume |-> 0]

MicInit ==
  /\ volume = [m \in Mics |-> FullVolume] /\ muted = [m \in Mics |-> FALSE] /\ front \in Mics
  /\ meddling = 0 /\ guardMode \in [Takes -> {"off", "warn", "restore"}]
  /\ guard = [d \in Takes |-> NewGuard] /\ judged = {}
  /\ warnedAt = NoHour /\ poorAt = NoHour /\ headsetTold = FALSE /\ notices = <<>> /\ hour = 1

Ends(d) == guard' = [guard EXCEPT ![d] = GuardOver]
Notify(kind) == notices' = Append(notices, [kind |-> kind, hour |-> hour])

\* take_notice_cooldown
Rested(last) == last = NoHour \/ hour - last >= Cooldown

\* Slip: only a low volume starts the clock.
WarnLowOnly(kind) ==
  IF Rested(warnedAt)
  THEN warnedAt' = (IF kind = "low" THEN hour ELSE warnedAt) /\ Notify(kind)
  ELSE UNCHANGED <<warnedAt, notices>>

\* A notice of the guard, under the clock that the guards share.
Warn(kind) ==
  IF Rested(warnedAt) THEN warnedAt' = hour /\ Notify(kind) ELSE UNCHANGED <<warnedAt, notices>>

-----------------------------------------------------------------------------
(* spawn_mic_volume_guard *)

\* read_default_input_volume opens the default microphone, if COM lets it, ...
ReadVolume(d) ==
  /\ guard[d].at = "new"
  /\ \/ guard' = [guard EXCEPT ![d] = [at |-> "mute", mic |-> front, volume |-> volume[front]]]
     \/ Ends(d)
  /\ UNCHANGED <<mics, guardMode, judged, clocks, notices, hour>>

\* plan_mic_guard
Plan(m, v, mute) ==
  CASE m = "off" -> "silent"
    [] m # "off" /\ mute -> "muted"
    [] m # "off" /\ ~ mute /\ v >= LowVolume -> "silent"
    [] m = "warn" /\ ~ mute /\ v < LowVolume -> "low"
    [] OTHER -> "restore"

\* ... then asks whether it is muted, and the plan is made.
ReadMute(d) ==
  /\ guard[d].at = "mute"
  /\ LET plan == Plan(guardMode[d], guard[d].volume, muted[guard[d].mic]) IN
       CASE plan = "silent" -> Ends(d) /\ UNCHANGED <<warnedAt, notices>>
         [] plan \in {"muted", "low"} -> Ends(d) /\ Warn(plan)
         [] plan = "restore" -> guard' = [guard EXCEPT ![d].at = "restore"] /\ UNCHANGED <<warnedAt, notices>>
  /\ UNCHANGED <<mics, guardMode, judged, poorAt, headsetTold, hour>>

\* restore_default_input_volume opens the default microphone anew.
Restore(d) ==
  /\ guard[d].at = "restore" /\ Ends(d)
  /\ \/ /\ volume' = [volume EXCEPT ![front] = FullVolume]
        /\ Notify("restored") /\ UNCHANGED warnedAt
     \/ Warn("low") /\ UNCHANGED volume
  /\ UNCHANGED <<muted, front, meddling, guardMode, judged, poorAt, headsetTold, hour>>

-----------------------------------------------------------------------------
(* assess_capture *)

\* What analyze_captured_segments measures, by the limits it compares with.
\* Clipped audio is neither quiet nor low.
Measures ==
  {m \in [loud : 0 .. 2, clipped : 0 .. 2, weak : 0 .. 2, noisy : 0 .. 2, low : BOOLEAN] :
     m.clipped > 0 => m.loud = 2 /\ ~ m.low}

Score(m) ==
  100 - <<40, 22, 0>>[m.loud + 1] - <<0, 14, 28>>[m.clipped + 1] - <<0, 12, 24>>[m.weak + 1]
      - <<0, 12, 30>>[m.noisy + 1] - (IF m.low THEN 10 ELSE 0)

Quality(m) == IF Score(m) >= 75 THEN "good" ELSE IF Score(m) >= 50 THEN "fair" ELSE "poor"

Judge(d) ==
  /\ d \notin judged /\ judged' = judged \cup {d}
  /\ \E quality \in {Quality(m) : m \in Measures}, headset \in BOOLEAN :
       LET poor == quality = "poor" /\ Rested(poorAt)
           first == headset /\ ~ headsetTold
       IN /\ poorAt' = IF poor THEN hour ELSE poorAt
          /\ headsetTold' = (headset \/ headsetTold)
          /\ notices' = notices \o (IF poor THEN <<[kind |-> "poor", hour |-> hour]>> ELSE <<>>)
                                \o (IF first THEN <<[kind |-> "headset", hour |-> hour]>> ELSE <<>>)
  /\ UNCHANGED <<mics, guardMode, guard, warnedAt, hour>>

-----------------------------------------------------------------------------
(* Others *)

Meddle(m) ==
  /\ meddling < MaxMeddling /\ meddling' = meddling + 1
  /\ \/ \E v \in Volumes : volume' = [volume EXCEPT ![m] = v] /\ UNCHANGED <<muted, front>>
     \/ muted' = [muted EXCEPT ![m] = ~ @] /\ UNCHANGED <<volume, front>>
     \/ front # m /\ front' = m /\ UNCHANGED <<volume, muted>>
  /\ UNCHANGED <<guardMode, guard, judged, clocks, notices, hour>>

HourPasses ==
  /\ hour < LastHour /\ hour' = hour + 1
  /\ UNCHANGED <<mics, guardMode, guard, judged, clocks, notices>>

MicNext ==
  \/ \E d \in Takes : ReadVolume(d) \/ ReadMute(d) \/ Restore(d) \/ Judge(d)
  \/ \E m \in Mics : Meddle(m)
  \/ HourPasses

MicSpec == MicInit /\ [][MicNext]_micVars

-----------------------------------------------------------------------------
(* Properties *)

\* However many guards overlap and whatever others do to the microphones, two
\* warnings of one clock are a cooldown apart: the muted, the low and the failed
\* restore share one (state.rs:350), poor audio has its own, and the headset is
\* told once.
NoticesAreSpaced ==
  \A i, j \in DOMAIN notices :
    i < j =>
      /\ {notices[i].kind, notices[j].kind} \subseteq {"muted", "low"}
           => notices[j].hour - notices[i].hour >= Cooldown
      /\ notices[i].kind = "poor" /\ notices[j].kind = "poor"
           => notices[j].hour - notices[i].hour >= Cooldown
      /\ ~ (notices[i].kind = "headset" /\ notices[j].kind = "headset")
=============================================================================
