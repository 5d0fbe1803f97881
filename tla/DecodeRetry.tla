---------------------------- MODULE DecodeRetry ----------------------------
(***************************************************************************)
(* One pass of a recording through the Whisper pipeline (inference/mod.rs, *)
(* from transcribe_with_whisper_pipeline down): the audio is decoded, and  *)
(* where the text looks wrong decoded once more, and the better of the two *)
(* texts is given. A text is a sequence of words; PunctuationOnly is one   *)
(* that holds no letter. The engine's measures are in thousandths, the     *)
(* logarithm of its probability without its sign. The environment's        *)
(* switches have their defaults, so there is neither a fast first decode   *)
(* nor a shadow candidate.                                                 *)
(***************************************************************************)
EXTENDS Integers, Sequences, FiniteSets, SequencesExt

CONSTANTS
  Texts,            \* what a decode may say
  PunctuationOnly,  \* a word of no letters
  Letters,          \* words of one letter
  CommonWords,      \* the list of fw_decode_looks_common_substitution
  Losses, NoSpeeches, Compressions,  \* what the engine may measure
  Durations         \* of the audio, in milliseconds

ASSUME MeasureAssumption ==
  /\ Losses \subseteq Int /\ NoSpeeches \subseteq Int /\ Compressions \subseteq Int
  /\ \A t \in Texts : Len(t) \in Nat

VARIABLES
  duration,
  parakeet,   \* whether the model is Parakeet's
  stage,      \* "begin", "primary", "retry", "decoded" or "over"
  cancelToken,  \* the cancel token
  primary, retry,  \* what the decodes gave, or NoDecode
  chosen,     \* final_decode
  gives       \* the pass's result

retryVars == <<duration, parakeet, stage, cancelToken, primary, retry, chosen, gives>>

NoDecode == [text |-> <<>>, loss |-> 0, noSpeech |-> 0, compression |-> 0]
Decodes ==
  [text : Texts, loss : Losses, noSpeech : NoSpeeches, compression : Compressions]

RetryInit ==
  /\ duration \in Durations /\ parakeet \in BOOLEAN /\ stage = "begin" /\ cancelToken = FALSE
  /\ primary = NoDecode /\ retry = NoDecode /\ chosen = NoDecode /\ gives = "nothing"

-----------------------------------------------------------------------------
(* What is thought of a decode *)

Min2(a, b) == IF a < b THEN a ELSE b
Max2(a, b) == IF a < b THEN b ELSE a

WordCount(d) == Len(d.text)
TokenizedWords(d) == SelectSeq(d.text, LAMBDA w : w # PunctuationOnly)
Among(ts, words) == Cardinality({i \in DOMAIN ts : ts[i] \in words})

\* Pairs that occurred before, of all pairs of neighbours.
RepeatedBigrams(ts) ==
  Cardinality({i \in 1 .. Len(ts) - 1 :
                 \E j \in 1 .. i - 1 : ts[i] = ts[j] /\ ts[i + 1] = ts[j + 1]})

CommonSubstitution(d) ==
  LET ts == TokenizedWords(d) IN
    /\ ts # <<>> /\ Len(ts) <= 4 /\ duration >= 700
    /\ 10 * Among(ts, CommonWords) >= 8 * Len(ts) /\ d.loss > 550

AcceptShort(d) ==
  /\ duration <= 3200 /\ WordCount(d) >= 1 /\ d.loss < 840 /\ d.noSpeech < 620
  /\ d.compression < 2400 /\ ~ CommonSubstitution(d)

NeedsRetry(d) ==
  \/ WordCount(d) = 0
  \/ /\ ~ AcceptShort(d)
     /\ \/ d.noSpeech > 760 /\ WordCount(d) <= 8
        \/ d.loss > 1200 \/ d.compression > 2350 \/ CommonSubstitution(d)
        \/ duration >= 2600 /\ WordCount(d) <= 2 /\ d.loss > 720
        \/ duration >= 5000 /\ WordCount(d) <= 6

\* Diversity and the shares of repetitions and letters are of the tokens; fewer
\* than four of them repeat nothing.
LowCoherence(d) ==
  LET ts == TokenizedWords(d)
      pairs == Len(ts) - 1
      repeats == IF Len(ts) < 4 THEN 0 ELSE RepeatedBigrams(ts)
      different == Cardinality(ToSet(ts))
      sound == /\ Len(ts) >= 6 /\ 100 * different > 72 * Len(ts) /\ 100 * repeats < 16 * pairs
               /\ d.loss < 800 /\ d.noSpeech < 350
  IN \/ ts = <<>>
     \/ /\ ~ sound
        /\ \/ d.compression >= 2700 \/ (pairs > 0 /\ 10 * repeats >= 4 * pairs)
           \/ duration >= 2400 /\ Len(ts) <= 3 /\ d.loss > 900
           \/ /\ d.loss > 1100 /\ d.noSpeech > 500
              /\ 100 * different < 48 * Len(ts) \/ 100 * Among(ts, Letters) >= 45 * Len(ts)

Retries(d) ==
  /\ ~ parakeet
  /\ \/ NeedsRetry(d)
     \/ LowCoherence(d) /\ (d.loss > 820 \/ CommonSubstitution(d))

\* fw_confidence_score, of 20 to the thousandth
Confidence(d) ==
  -20 * d.loss - 25 * d.noSpeech + 500 * Min2(WordCount(d), 24) - 7 * Max2(d.compression - 2100, 0)

\* Slip: an empty retry is scored like any other.
BeatsByScore(p, r) == Confidence(r) > Confidence(p) + 800

\* fw_retry_beats_primary
Beats(p, r) ==
  IF WordCount(p) = 0 THEN WordCount(r) > 0
  ELSE /\ WordCount(r) > 0
       /\ \/ Confidence(r) > Confidence(p) + 800
          \/ /\ duration >= 2200 /\ WordCount(r) >= WordCount(p) + 3
             /\ r.noSpeech <= p.noSpeech + 80 /\ r.loss <= p.loss + 150
             /\ r.compression <= 2200

-----------------------------------------------------------------------------
(* The pass *)

Over(result) == stage' = "over" /\ gives' = result

\* A conditioning that leaves no audio is an error too.
Begin ==
  /\ stage = "begin"
  /\ \/ cancelToken /\ Over("cancelled")
     \/ ~ cancelToken /\ (Over("error") \/ (stage' = "primary" /\ UNCHANGED gives))
  /\ UNCHANGED <<duration, parakeet, cancelToken, primary, retry, chosen>>

\* The engine's failure, or its own answer to the cancel, ends the pass.
EngineFails ==
  /\ stage \in {"primary", "retry"} /\ Over(IF cancelToken THEN "cancelled" ELSE "error")
  /\ UNCHANGED <<duration, parakeet, cancelToken, primary, retry, chosen>>

DecodePrimary ==
  /\ stage = "primary" /\ primary' \in Decodes /\ chosen' = primary'
  /\ IF cancelToken THEN Over("cancelled")
     ELSE stage' = (IF Retries(primary') THEN "retry" ELSE "decoded") /\ UNCHANGED gives
  /\ UNCHANGED <<duration, parakeet, cancelToken, retry>>

DecodeOnceMore ==
  /\ stage = "retry" /\ retry' \in Decodes
  /\ IF cancelToken THEN Over("cancelled") /\ UNCHANGED chosen
     ELSE /\ chosen' = IF Beats(primary, retry') THEN retry' ELSE primary
          /\ stage' = "decoded" /\ UNCHANGED gives
  /\ UNCHANGED <<duration, parakeet, cancelToken, primary>>

\* transcribe_segment
Give ==
  /\ stage = "decoded"
  /\ Over(IF WordCount(chosen) = 0 \/ cancelToken THEN "silence" ELSE "words")
  /\ UNCHANGED <<duration, parakeet, cancelToken, primary, retry, chosen>>

CancelDecode ==
  /\ ~ cancelToken /\ stage # "over" /\ cancelToken' = TRUE
  /\ UNCHANGED <<duration, parakeet, stage, primary, retry, chosen, gives>>

RetryNext ==
  Begin \/ EngineFails \/ DecodePrimary \/ DecodeOnceMore \/ Give \/ CancelDecode

RetrySpec == RetryInit /\ [][RetryNext]_retryVars

-----------------------------------------------------------------------------

NoWorse(d, e) ==
  /\ WordCount(d) >= WordCount(e) /\ d.loss <= e.loss
  /\ d.noSpeech <= e.noSpeech /\ d.compression <= e.compression

\* Of two decodes the pass gives the better: words are never traded for silence,
\* a text that is as good in everything is never given up for the other, and one
\* that is much better in everything is never passed over
\* (fw_retry_beats_primary).
BetterOfTwo ==
  gives \in {"words", "silence"} /\ retry # NoDecode =>
    LET other == IF chosen = primary THEN retry ELSE primary IN
      /\ WordCount(chosen) = 0 => WordCount(other) = 0
      /\ chosen = retry /\ retry # primary /\ WordCount(primary) > 0 => ~ NoWorse(primary, retry)
      /\ chosen = primary /\ WordCount(retry) > 0 =>
           ~ (NoWorse(retry, primary) /\ retry.loss + 40 < primary.loss)
=============================================================================
