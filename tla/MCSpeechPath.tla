---------------------------- MODULE MCSpeechPath ----------------------------
(* The modules on the way from the microphone to a text, the cues and the   *)
(* notices that go with it, and the choice of a graphics card.  They share  *)
(* no state, so each behaviour looks at one of them and leaves the others   *)
(* where they are.                                                          *)
EXTENDS FwWorker, CaptureLoop, CuePlayer, DecodePolicy, DecodeRetry, GpuSelect, MicNotices

VARIABLE part

MCTexts ==
  {<<>>, <<"...">>, <<"the">>, <<"a", "b", "the", "c">>,
   <<"go", "the", "go", "the", "go", "the", "go">>,
   <<"river", "bends", "the", "north", "of", "town", "slowly">>}

MCKind == "rtx" :> "discrete" @@ "arc" :> "discrete" @@ "apu" :> "integrated"
MCMemory == "rtx" :> 2 @@ "arc" :> 1 @@ "apu" :> 3

\* The graphics card has three parts: cooldowns and driver disables, the
\* accepted upgrade, and the status.
Parts == {"worker", "capture", "cues", "policy", "retry", "strikes", "upgrade", "status", "notices"}
Gpu == {"strikes", "upgrade", "status"}

Init ==
  /\ FwInit /\ CaptureInit /\ CueInit /\ PolicyInit /\ RetryInit
  /\ GpuInit /\ MicInit
  /\ part \in Parts
  /\ part # "capture" => option = [ends |-> "byHand", whole |-> FALSE]
  /\ part # "cues" => default = CHOOSE d \in Devices : TRUE
  /\ part # "policy" => setting = "Fast"
  /\ part # "retry" => ~ parakeet /\ duration = CHOOSE d \in Durations : TRUE
  /\ part \notin {"upgrade", "status"} => mem.pending = None
  /\ part \notin Gpu => active = FwModel
  /\ installed = IF part = "status" THEN {"turbo"} ELSE Models
  /\ part # "strikes" => plugged = {"rtx"}
  /\ part # "notices" => front = CHOOSE m \in Mics : TRUE
  /\ part # "notices" => guardMode = [d \in Takes |-> "off"]

Aside(p) ==
  /\ p # "worker" => UNCHANGED fwVars
  /\ p # "capture" => UNCHANGED captureVars
  /\ p # "cues" => UNCHANGED cueVars
  /\ p # "policy" => UNCHANGED policyVars
  /\ p # "retry" => UNCHANGED retryVars
  /\ p \notin Gpu => UNCHANGED gpuVars
  /\ p # "notices" => UNCHANGED micVars

Next ==
  /\ UNCHANGED part
  /\ \/ part = "worker" /\ FwNext
     \/ part = "capture" /\ CaptureNext
     \/ part = "cues" /\ CueNext
     \/ part = "policy" /\ PolicyNext
     \/ part = "retry" /\ RetryNext
     \/ part = "strikes" /\ UNCHANGED <<status, active, enabled, removing>> /\ GpuNext
     \/ part = "upgrade" /\ UNCHANGED <<status, enabled, cooldown, day, plugged, driver>> /\ GpuNext
     \/ part = "status" /\ UNCHANGED <<day, plugged, driver, boot, installed, removing>> /\ GpuNext
     \/ part = "notices" /\ MicNext
  /\ Aside(part)

Spec == Init /\ [][Next]_<<part, fwVars, captureVars, cueVars, policyVars, retryVars,
                      gpuVars, micVars>>
=============================================================================
