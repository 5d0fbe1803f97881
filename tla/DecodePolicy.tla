---------------------------- MODULE DecodePolicy ----------------------------
(***************************************************************************)
(* How the next recording is decoded: the mode, which the latency and the  *)
(* failures of the last decodes choose (inference/policy.rs), above the    *)
(* floors of transcribe.rs; and the conditioning of the audio, where three *)
(* hard failures in a row of the second version bring back the first for a *)
(* few passes (inference/audio_pipeline.rs).  A dictation makes one pass,  *)
(* or another for each engine it steps down to.  The environment's         *)
(* switches have their defaults.                                           *)
(***************************************************************************)
EXTENDS Naturals, Sequences, FiniteSets, SequencesExt, FiniteSetsExt

CONSTANTS
  Window,       \* WINDOW_SIZE
  SpeedWindow,  \* SPEED_WINDOW_UTTERANCES
  Threshold,    \* fallback_failure_threshold
  Budget,       \* fallback_utterance_budget
  MaxPasses     \* bound on the passes of one dictation

\* The defaults are 2 and 3; the environment may set others (audio_pipeline.rs:135).
ASSUME BudgetAssumption ==
  Budget \in Nat /\ Threshold \in Nat /\ Budget < Threshold /\ 1 < Threshold

\* Latencies, by the limits they pass: none, LATENCY_RETURN_BALANCED_MS,
\* LATENCY_ENTER_SPEED_MS, LATENCY_SEVERE_MS.
Latencies == 0 .. 3
Modes == <<"Fast", "Balanced", "Quality">>

VARIABLES
  recent,    \* the samples, the last first; of more than a window's none is read
  speeding,  \* speed_window_remaining
  setting,   \* settings.decode_mode
  mode,      \* the mode of the dictation under way
  failures,  \* V2_CONSECUTIVE_HARD_FAILURES
  owed,      \* V1_FALLBACK_UTTERANCES_REMAINING
  passes,    \* passes of the dictation; 0 while there is none
  inARow     \* (history) passes of the first version since one of the second

policyVars == <<recent, speeding, setting, mode, failures, owed, passes, inARow>>

PolicyInit ==
  /\ recent = <<>> /\ speeding = 0 /\ setting \in {"Fast", "Balanced"} /\ mode = setting
  /\ failures = 0 /\ owed = 0 /\ passes = 0 /\ inARow = 0

-----------------------------------------------------------------------------
(* RuntimeDecodePolicy *)

\* The 95th percentile of a window this small is its slowest.
Slowest == Max({recent[i].latency : i \in DOMAIN recent} \cup {0})
FailedOf == Cardinality({i \in DOMAIN recent : recent[i].failed})
Full == Len(recent) >= Window

\* More than a quarter of the last decodes failed.
Failing == 4 * FailedOf > Len(recent)

Entering == speeding = 0 /\ Full /\ Slowest >= 2 /\ 5 * FailedOf <= Len(recent)

Recovered == Full /\ Slowest = 0

\* The window's rest after select_mode, and the mode.
Selected(long) ==
  IF Failing THEN [left |-> 0, mode |-> "Balanced"]
  ELSE LET left == IF Entering THEN SpeedWindow ELSE speeding IN
    IF left > 0 /\ Recovered THEN [left |-> 0, mode |-> "Balanced"]
    ELSE IF left = 0 \/ (long /\ Slowest < 3) THEN [left |-> left, mode |-> "Balanced"]
    ELSE [left |-> left - 1, mode |-> "Fast"]

Rank(m) == CHOOSE i \in DOMAIN Modes : Modes[i] = m

\* floor_decode_mode
Floored(m, floor) == IF Rank(floor) > Rank(m) THEN floor ELSE m

PushSample(latency, failed) ==
  recent' = SubSeq(<<[latency |-> latency, failed |-> failed]>> \o recent, 1,
                   IF Len(recent) < Window THEN Len(recent) + 1 ELSE Window)

-----------------------------------------------------------------------------
(* The conditioning *)

\* select_primary_pipeline_for_faster_whisper
Pass ==
  IF owed > 0 THEN owed' = owed - 1 /\ inARow' = inARow + 1
  ELSE inARow' = 0 /\ UNCHANGED owed

\* Slip: the failures that brought it on still count.
EngageAgain == owed' = Budget /\ failures' = failures + 1

Engage == owed' = Budget /\ failures' = 0

\* note_decode_hard_failure, which is told of the second version whatever ran
HardFailure ==
  IF failures + 1 >= Threshold /\ owed = 0 THEN Engage
  ELSE failures' = (IF failures < Threshold THEN failures + 1 ELSE failures) /\ UNCHANGED owed

-----------------------------------------------------------------------------
(* A dictation *)

Decode ==
  /\ passes = 0 /\ passes' = 1 /\ Pass
  /\ \E long \in BOOLEAN, floor \in {"Fast", "Balanced", "Quality"} :
       /\ speeding' = Selected(long).left
       /\ mode' = Floored(Floored(Selected(long).mode, floor), setting)
  /\ UNCHANGED <<recent, setting, failures>>

StepDown ==
  /\ passes \in 1 .. MaxPasses - 1 /\ passes' = passes + 1 /\ Pass
  /\ UNCHANGED <<recent, speeding, setting, mode, failures>>

\* Text that is rejected as no speech is told to the conditioning only.
Succeeds ==
  /\ passes > 0 /\ passes' = 0 /\ failures' = 0
  /\ \/ \E latency \in Latencies : PushSample(latency, FALSE)
     \/ UNCHANGED recent
  /\ UNCHANGED <<speeding, setting, mode, owed, inARow>>

\* An empty text is a success first and then a hard failure.
SaysNothing ==
  /\ passes > 0 /\ passes' = 0 /\ failures' = 1
  /\ \E latency \in Latencies : PushSample(latency, TRUE)
  /\ UNCHANGED <<speeding, setting, mode, owed, inARow>>

FailsHard ==
  /\ passes > 0 /\ passes' = 0 /\ HardFailure
  /\ \E latency \in Latencies : PushSample(latency, TRUE)
  /\ UNCHANGED <<speeding, setting, mode, inARow>>

\* Cancelled, or the engine was not set up.
ComesToNothing ==
  /\ passes > 0 /\ passes' = 0
  /\ UNCHANGED <<recent, speeding, setting, mode, failures, owed, inARow>>

ChangeSetting ==
  /\ passes = 0 /\ setting' \in {"Fast", "Balanced", "Quality"} \ {setting}
  /\ UNCHANGED <<recent, speeding, mode, failures, owed, passes, inARow>>

PolicyNext ==
  Decode \/ StepDown \/ Succeeds \/ SaysNothing \/ FailsHard \/ ComesToNothing \/ ChangeSetting

PolicySpec == PolicyInit /\ [][PolicyNext]_policyVars

-----------------------------------------------------------------------------

\* The second version is tried again after the budget of passes with the first
\* one, although their failures are counted against the second, and a
\* dictation that steps down spends several (note_decode_hard_failure).
SecondVersionReturns == inARow <= Budget
=============================================================================
