---------------------------- MODULE CaptureLoop ----------------------------
(***************************************************************************)
(* One recording: the loop that takes the microphone's audio in until the  *)
(* user's release, a silence, a limit, a cancel or an error ends it, and   *)
(* what it then hands on (audio/mod.rs).  A chunk is one frame, and a pass *)
(* of the loop takes one tick.  A frame is "loud" (over the threshold of   *)
(* the voice detector), "soft" (over the lower one that the first moments  *)
(* are judged by) or "still".                                              *)
(***************************************************************************)
EXTENDS Naturals, Sequences, SequencesExt

CONSTANTS
  MinSpeech, MaxSilence,  \* frames: VadConfig
  PreRoll,                \* VAD_PRE_ROLL_FRAMES
  EdgePad,                \* HEAD_PAD_FRAMES, TAIL_PAD_FRAMES
  Fallback,               \* frames of the fallback, three seconds of them
  Warmup,                 \* ticks: vad_warmup_duration
  Debounce,               \* STOP_SIGNAL_DEBOUNCE_MS
  ReleaseTail, MinWait, FastExit, Confirm, PreReleasePad,  \* of a release
  MaxHold, MaxHandsFree,  \* max_capture_duration of each mode
  FirstSpeech, Trailing, HandsFreeSilence  \* silences that end a capture

Never == 1000

ASSUME DurationsAssumption ==
  /\ {MinSpeech, MaxSilence, PreRoll, EdgePad, Fallback, Warmup, Debounce, FirstSpeech, Trailing,
      HandsFreeSilence} \subseteq Nat
  /\ MinSpeech > 0 /\ MaxSilence > 0 /\ PreRoll > 0
ASSUME ReleaseAssumption ==
  /\ ReleaseTail \in Nat /\ MinWait \in Nat /\ FastExit \in Nat
  /\ Confirm \in Nat /\ PreReleasePad \in Nat
ASSUME LimitsAssumption == MaxHold \in 0 .. Never - 1 /\ MaxHandsFree \in 0 .. Never - 1

VARIABLES
  option,    \* [ends: "byHand" or "onSilence", whole: preserve_full_capture]
  handsFree, \* the hands-free switch
  stop,      \* the stop flag
  cancelled, \* the cancel token
  clock,     \* ticks since the start
  heard,     \* the frames: level, the time each came
  vad,       \* VadSegmenter
  kept,      \* the segments, of indices into heard
  voiced,    \* voiced_frame_count
  lastVoice, \* last_voice_at, or Never
  released,  \* stop_requested_at, or Never
  quietly,   \* released_after_silence
  afterward, \* post_release_last_voiced_at, or Never
  pass,      \* "top" of the loop, or what its receive got: "frame" or "timeout"
  outcome    \* "running", how it ended, and what it gave

captureVars == <<option, handsFree, stop, cancelled, clock, heard, vad, kept, voiced, lastVoice,
                 released, quietly, afterward, pass, outcome>>

CaptureInit ==
  /\ option \in [ends : {"byHand", "onSilence"}, whole : BOOLEAN]
  /\ handsFree = FALSE /\ stop = FALSE /\ cancelled = FALSE /\ clock = 0 /\ heard = <<>>
  /\ vad = [buffer |-> <<>>, before |-> <<>>, voiced |-> 0, silent |-> 0, speaking |-> FALSE]
  /\ kept = <<>> /\ voiced = 0 /\ lastVoice = Never
  /\ released = Never /\ quietly = FALSE /\ afterward = Never
  /\ pass = "top" /\ outcome = [how |-> "running", gives |-> <<>>]

Running == outcome.how = "running"
AtTop == Running /\ pass = "top"

-----------------------------------------------------------------------------
(* The voice detector *)

\* Slip: a still frame ends what is said.
PushImpatient(v, i, loud) ==
  IF loud THEN [v EXCEPT !.buffer = @ \o <<i>>, !.speaking = TRUE]
  ELSE [v EXCEPT !.buffer = <<>>, !.speaking = FALSE]

\* VadSegmenter::push_frame, but for the segment that it returns.
Push(v, i, loud) ==
  IF loud
  THEN [buffer |-> (IF ~ v.speaking /\ v.voiced = 0 /\ v.buffer = <<>> THEN v.before
                    ELSE v.buffer) \o <<i>>,
        before |-> <<>>, voiced |-> v.voiced + 1, silent |-> 0,
        speaking |-> v.speaking \/ v.voiced + 1 >= MinSpeech]
  ELSE IF v.speaking THEN [v EXCEPT !.buffer = Append(@, i), !.silent = @ + 1]
  ELSE [v EXCEPT !.buffer = <<>>,
                 !.before = Append(IF Len(@) >= PreRoll THEN Tail(@) ELSE @, i)]

Finished(v) == v.speaking /\ v.silent >= MaxSilence

Reset == [buffer |-> <<>>, before |-> <<>>, voiced |-> 0, silent |-> 0, speaking |-> FALSE]

-----------------------------------------------------------------------------
(* The end *)

Flushed == IF vad.buffer = <<>> THEN kept ELSE Append(kept, vad.buffer)

\* trim_capture_edges; its threshold follows the volume, and is below the
\* detector's (adaptive_preserve_threshold).
Trimmed(softCounts) ==
  LET loud == {i \in DOMAIN heard : heard[i].level = "loud"
                                    \/ (softCounts /\ heard[i].level = "soft")}
      first == CHOOSE i \in loud : \A j \in loud : i <= j
      last == CHOOSE i \in loud : \A j \in loud : j <= i
      from == IF first > EdgePad THEN first - EdgePad ELSE 1
      to == IF last + EdgePad < Len(heard) THEN last + EdgePad ELSE Len(heard)
  IN  IF loud = {} THEN [i \in DOMAIN heard |-> i]
      ELSE [i \in 1 .. to - from + 1 |-> from + i - 1]

\* The last moments, when the detector found nothing in them: whether they are
\* loud enough on the whole is left open.
Rest == LET from == IF Len(heard) > Fallback THEN Len(heard) - Fallback ELSE 0
        IN  [i \in 1 .. Len(heard) - from |-> from + i]

\* What collect_segments_from_stream hands on.
Gives ==
  IF voiced < MinSpeech THEN {<<>>}
  ELSE IF option.whole THEN {<<Trimmed(b)>> : b \in BOOLEAN}
  ELSE IF Flushed = <<>> THEN {<<>>, <<Rest>>} ELSE {Flushed}

End(how) == \E g \in Gives : outcome' = [how |-> how, gives |-> g]

Fail(how) == outcome' = [how |-> how, gives |-> <<>>]

-----------------------------------------------------------------------------
(* A pass of the loop *)

InTime == clock <= (IF handsFree THEN MaxHandsFree ELSE MaxHold)

Since(t) == clock - t

Still == UNCHANGED <<option, handsFree, stop, cancelled>>
Heard == UNCHANGED <<heard, vad, kept, voiced, lastVoice, afterward>>
Release == UNCHANGED <<released, quietly>>
Stays == UNCHANGED <<clock, pass>> /\ Still /\ Heard /\ Release

TooLong == AtTop /\ ~ InTime /\ End("limit") /\ Stays

SeeCancel == AtTop /\ InTime /\ cancelled /\ Fail("cancelled") /\ Stays

GoesOn == AtTop /\ InTime /\ ~ cancelled

\* A stop in the first moments is looked at again, and nothing is taken in.
NotYet ==
  /\ GoesOn /\ stop /\ released = Never /\ clock < Debounce
  /\ clock' = clock + 1 /\ UNCHANGED <<pass, outcome>> /\ Still /\ Heard /\ Release

SeeStop ==
  /\ GoesOn /\ stop /\ released = Never /\ clock >= Debounce
  /\ released' = clock
  /\ quietly' = (lastVoice = Never \/ Since(lastVoice) >= PreReleasePad)
  /\ IF ReleaseTail = 0 THEN End("release") ELSE UNCHANGED outcome
  /\ UNCHANGED <<clock, pass>> /\ Still /\ Heard

AtMost(a, b) == IF a < b THEN a ELSE b

\* Slip: a release after a pause ends soon, whatever is said after it.
TailOverQuick ==
  released # Never /\ (Since(released) >= ReleaseTail \/ (quietly /\ Since(released) >= FastExit))

\* A word that is still being said when the user lets go is let finish.
TailOver ==
  /\ released # Never
  /\ \/ Since(released) >= ReleaseTail
     \/ /\ Since(released) >=
             AtMost(ReleaseTail, IF quietly /\ afterward = Never THEN FastExit ELSE MinWait)
        /\ ~ (afterward # Never /\ Since(afterward) <= Confirm)

LetGo == GoesOn /\ TailOver /\ End("release") /\ Stays

\* The loop goes on to its receive.
Receives == GoesOn /\ (stop => released # Never) /\ ~ TailOver

StreamFails == Receives /\ Fail("error") /\ Stays

StreamEnds == Receives /\ End("gone") /\ Stays

TakeIn(level) ==
  LET isVoiced == level = "loud" \/ (level = "soft" /\ clock < Warmup)
      v == Push(vad, Len(heard) + 1, level = "loud")
  IN  /\ Receives /\ pass' = "frame" /\ clock' = clock + 1
      /\ heard' = Append(heard, [level |-> level, time |-> clock])
      /\ vad' = IF Finished(v) THEN Reset ELSE v
      /\ kept' = IF Finished(v) THEN Append(kept, v.buffer) ELSE kept
      /\ voiced' = IF isVoiced THEN voiced + 1 ELSE voiced
      /\ lastVoice' = IF isVoiced THEN clock ELSE lastVoice
      /\ afterward' = IF isVoiced /\ released # Never THEN clock ELSE afterward
      /\ UNCHANGED outcome /\ Still /\ Release

\* No chunk within the receive's time limit.
TakeNothing ==
  /\ Receives /\ pass' = "timeout" /\ clock' = clock + 1
  /\ UNCHANGED outcome /\ Still /\ Heard /\ Release

\* The silence that ends a recording.  A held key waits for its release, and
\* for a first word only while no frames come.
SilenceOver ==
  /\ released = Never
  /\ pass = "timeout" \/ handsFree \/ option.ends = "onSilence"
  /\ IF voiced < MinSpeech
     THEN clock >= (IF handsFree THEN HandsFreeSilence ELSE FirstSpeech)
     ELSE /\ handsFree \/ option.ends = "onSilence"
          /\ lastVoice # Never
          /\ Since(lastVoice) >= (IF handsFree THEN HandsFreeSilence ELSE Trailing)

FallSilent ==
  /\ Running /\ pass # "top"
  /\ IF SilenceOver THEN End("silence") ELSE UNCHANGED outcome
  /\ pass' = "top" /\ UNCHANGED clock /\ Still /\ Heard /\ Release

-----------------------------------------------------------------------------
(* The user *)

LetKeyGo == Running /\ ~ stop /\ stop' = TRUE
            /\ UNCHANGED <<option, handsFree, cancelled, clock, pass, outcome>> /\ Heard /\ Release

\* A double tap locks a session that is being held.
Lock == Running /\ option.ends = "byHand" /\ ~ handsFree /\ handsFree' = TRUE
        /\ UNCHANGED <<option, stop, cancelled, clock, pass, outcome>> /\ Heard /\ Release

CancelCapture == Running /\ ~ cancelled /\ cancelled' = TRUE
          /\ UNCHANGED <<option, handsFree, stop, clock, pass, outcome>> /\ Heard /\ Release

CaptureNext ==
  \/ TooLong \/ SeeCancel \/ NotYet \/ SeeStop \/ LetGo \/ StreamFails \/ StreamEnds
  \/ \E level \in {"loud", "soft", "still"} : TakeIn(level)
  \/ TakeNothing \/ FallSilent \/ LetKeyGo \/ Lock \/ CancelCapture

CaptureSpec == CaptureInit /\ [][CaptureNext]_captureVars

-----------------------------------------------------------------------------

Ended == outcome.how \in {"limit", "release", "gone", "silence"}

\* Everything that was said is in what a recording hands on, once, in order and
\* unbroken, however it ended: each run of loud frames long enough to be speech
\* is within one segment (push_frame, flush, trim_capture_edges).
SpeechIsKept ==
  Ended =>
    /\ \A a, b \in DOMAIN heard :
         /\ b >= a + MinSpeech - 1
         /\ \A i \in a .. b : heard[i].level = "loud"
         => \E n \in DOMAIN outcome.gives : a .. b \subseteq ToSet(outcome.gives[n])
    /\ \A n, m \in DOMAIN outcome.gives :
         \A i \in DOMAIN outcome.gives[n], j \in DOMAIN outcome.gives[m] :
           n < m \/ (n = m /\ i < j) => outcome.gives[n][i] < outcome.gives[m][j]

\* A release never cuts a word off: a recording that it ends goes on for its
\* whole tail, or else until nothing loud has come for the confirmation's time;
\* and a word said just before or after it gets its full pad (the fast exit).
ReleaseLetsWordsEnd ==
  outcome.how = "release" =>
    \/ Since(released) >= ReleaseTail
    \/ \A i \in DOMAIN heard :
         heard[i].level = "loud" /\ heard[i].time + PreReleasePad > released =>
           /\ Since(released) >= AtMost(ReleaseTail, MinWait)
           /\ heard[i].time >= released => Since(heard[i].time) > Confirm
=============================================================================
