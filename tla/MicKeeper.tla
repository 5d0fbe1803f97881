----------------------------- MODULE MicKeeper ------------------------------
(***************************************************************************)
(* The microphone keeper: one thread owns the capture stream, keeps it     *)
(* open between dictations for a warm window or for as long as "Keep mic   *)
(* ready" is on, and hands each capture what a short ring held from before *)
(* its press.  It talks to captures, Settings and the stream's callbacks   *)
(* through one command channel and one lock over the ring and the tap.     *)
(*                                                                         *)
(* The keeper handles one command, or one timeout, at a time: an action.   *)
(* Callbacks and captures run beside it.  Clocks are choices: a stream may *)
(* be found stalled or on the wrong device, and a retry due, whenever the  *)
(* code looks.                                                             *)
(***************************************************************************)
EXTENDS Naturals, Sequences, FiniteSets

CONSTANTS
  Captures,    \* calls of MicKeeper::capture
  Devices,     \* input devices a user may choose
  Headsets,    \* those among them that are hands-free headsets
  None,        \* no device, stream, capture or id
  RingSize,    \* PREROLL_SAMPLES, in chunks
  MaxChunks,   \* bound: chunks the streams deliver
  MaxOpens,    \* bound: streams opened
  MaxErrors,   \* bound: streams that report an error
  MaxConfigs   \* bound: changes of Settings

ASSUME MicAssumption ==
  /\ None \notin Captures \cup Devices \cup Nat
  /\ Devices # {} /\ Headsets \subseteq Devices
  /\ RingSize \in Nat /\ MaxChunks \in Nat /\ MaxOpens \in Nat
  /\ MaxErrors \in Nat /\ MaxConfigs \in Nat

VARIABLES
  mic,      \* the Keeper, with the state it shares with the callbacks
  queue,    \* the command channel
  pc,       \* pc[c]: where the call of capture c is
  reply,    \* reply[c]: what the keeper answered it
  id,       \* id[c]: the capture_id it was given
  heard,    \* heard[c]: the chunks put in its audio channel, till it is dropped
  chunk,    \* chunks delivered so far
  errors,   \* the streams that reported an error, by generation
  chosen,   \* settings.input_device
  configs   \* changes of Settings so far

callVars == <<pc, reply, id>>
vars == <<mic, queue, pc, reply, id, heard, chunk, errors, chosen, configs>>

NoStream == [requested |-> None, generation |-> 0, failed |-> FALSE]

Begin(c, d) == [kind |-> "begin", capture |-> c, device |-> d]
End(n) == [kind |-> "end", id |-> n]
Configure(d, keep) == [kind |-> "configure", device |-> d, keep |-> keep]
StreamFailed(g) == [kind |-> "failed", generation |-> g]

-----------------------------------------------------------------------------
(* The keeper's helpers.  Each takes the keeper and yields it, or the set  *)
(* of what it may have become.                                             *)

Wants(m) == m.keep \/ m.warm = "on"

Close(m) ==
  IF m.open = NoStream THEN m
  ELSE [m EXCEPT !.open = NoStream, !.ring = << >>, !.tap = None]

\* open: on success the ring starts anew and the retry is forgotten.  What the
\* prepared device saves is time only, and is left out; a stream that failed
\* to start is not given a generation here, since nothing comes from it.
Opened(m) ==
  IF m.generation = MaxOpens THEN {}
  ELSE {[m EXCEPT !.open = [requested |-> m.device, generation |-> m.generation + 1,
                            failed |-> FALSE],
                  !.generation = @ + 1, !.ring = << >>, !.retry = "none"]}

OpenFailed(m) == [m EXCEPT !.ring = << >>, !.retry = "later"]

\* stale_reason: the device choice changed, the stream failed, or it stalled
\* or is no longer the right device, which the clock and the desktop decide.
CloseStale(m) ==
  IF m.open = NoStream THEN {m}
  ELSE IF m.open.requested # m.device \/ m.open.failed THEN {Close(m)}
  ELSE {m, Close(m)}

CloseUnwanted(m) == IF Wants(m) THEN m ELSE Close(m)

Reopen(m) ==
  IF m.open # NoStream \/ ~ Wants(m) THEN {m}
  ELSE Opened(m) \cup {OpenFailed(m)} \cup (IF m.retry = "later" THEN {m} ELSE {})

\* settle: never touches a running capture.
Settled(m) ==
  IF m.capturing # None THEN {m}
  ELSE UNION {Reopen(CloseUnwanted(n)) : n \in CloseStale(m)}

\* Slip: an End stops whatever capture runs.
EndedAny(m, n) ==
  Settled([m EXCEPT !.capturing = None, !.tap = None, !.warm = "on"])

\* end: only the running capture's; a hands-free headset gets no warm window.
Ended(m, n) ==
  IF m.capturing # n THEN {m}
  ELSE Settled([m EXCEPT !.capturing = None, !.tap = None,
                         !.warm = IF m.open.requested \in Headsets /\ ~ m.keep THEN "none" ELSE "on"])

\* configure: unchanged values are a no-op; turning "Keep mic ready" off
\* releases the mic now, unless a capture runs.
Configured(m, d, keep) ==
  LET off == m.keep /\ ~ keep
      set == [m EXCEPT !.device = d, !.keep = keep, !.retry = "none",
                       !.warm = IF off THEN "none" ELSE @] IN
  IF d = m.device /\ keep = m.keep THEN {m}
  ELSE Settled(IF off /\ m.capturing = None THEN Close(set) ELSE set)

\* StreamFailed: of the open stream only, by generation.
Failed(m, g) ==
  Settled(IF m.open # NoStream /\ m.open.generation = g
          THEN [m EXCEPT !.open.failed = TRUE] ELSE m)

\* ensure_open_for_press, apart from the failure to open.
OpenForPress(m) ==
  UNION {IF n.open = NoStream THEN Opened(n) ELSE {n} : n \in CloseStale(m)}

-----------------------------------------------------------------------------
(* The keeper thread. *)

Init ==
  /\ chosen \in Devices
  /\ \E k \in BOOLEAN :
       mic \in Settled([device |-> chosen, keep |-> k, open |-> NoStream, generation |-> 0,
                        nextId |-> 0, capturing |-> None, warm |-> "none",
                        retry |-> "none", ring |-> << >>, tap |-> None])
  /\ queue = << >>
  /\ pc = [c \in Captures |-> "idle"]
  /\ reply = [c \in Captures |-> "none"]
  /\ id = [c \in Captures |-> None]
  /\ heard = [c \in Captures |-> << >>]
  /\ chunk = 0 /\ errors = {} /\ configs = 0

Take(kind) ==
  /\ queue # << >> /\ Head(queue).kind = kind
  /\ queue' = Tail(queue)

HandleConfigure ==
  /\ Take("configure")
  /\ mic' \in Configured(mic, Head(queue).device, Head(queue).keep)
  /\ UNCHANGED <<callVars, heard, chunk, errors, chosen, configs>>

HandleEnd ==
  /\ Take("end")
  /\ mic' \in Ended(mic, Head(queue).id)
  /\ UNCHANGED <<callVars, heard, chunk, errors, chosen, configs>>

HandleFailed ==
  /\ Take("failed")
  /\ mic' \in Failed(mic, Head(queue).generation)
  /\ UNCHANGED <<callVars, heard, chunk, errors, chosen, configs>>

\* The press has not dropped its end of the reply channel.
Listens(c) == pc[c] \in {"waiting", "givingUp"}

\* Slip: the pre-roll is copied and stays in the ring.
TappedCopy(m, c) == [m EXCEPT !.tap = c, !.capturing = m.nextId + 1, !.nextId = @ + 1]

\* begin, once the stream is open: the ring is queued ahead of any live chunk
\* and the tap replaces that of a capture still winding down.
Tapped(m, c) ==
  [m EXCEPT !.tap = c, !.ring = << >>, !.capturing = m.nextId + 1, !.nextId = @ + 1]

HandleBegin ==
  /\ Take("begin")
  /\ LET c == Head(queue).capture
         asked == [mic EXCEPT !.device = Head(queue).device] IN
     \E m \in OpenForPress(asked) :
       LET begun == Tapped(m, c) IN
       IF Listens(c)
       THEN /\ mic' = begun
            /\ id' = [id EXCEPT ![c] = begun.capturing]
            /\ heard' = [heard EXCEPT ![c] = m.ring]
            /\ reply' = [reply EXCEPT ![c] = "ok"]
       ELSE /\ mic' \in Ended(begun, begun.capturing)
            /\ UNCHANGED <<id, heard, reply>>
  /\ UNCHANGED <<pc, chunk, errors, chosen, configs>>

\* The stream does not open: the press fails, and the warm window keeps trying.
HandleBeginFails ==
  /\ Take("begin")
  /\ LET c == Head(queue).capture
         asked == [mic EXCEPT !.device = Head(queue).device] IN
     /\ \E m \in {n \in CloseStale(asked) : n.open = NoStream} : mic' = OpenFailed(m)
     /\ reply' = IF Listens(c) THEN [reply EXCEPT ![c] = "error"] ELSE reply
  /\ UNCHANGED <<pc, id, heard, chunk, errors, chosen, configs>>

\* Slip: a stream nobody wants any more sets no wake-up.
WakeWhileWanted ==
  /\ queue = << >>
  /\ mic.capturing = None /\ Wants(mic)
  /\ mic.open # NoStream \/ mic.retry = "later"
  /\ mic' \in Settled(mic)
  /\ UNCHANGED <<queue, callVars, heard, chunk, errors, chosen, configs>>

\* next_wake runs out: the warm window's end, a health tick or a retry.
Wake ==
  /\ queue = << >>
  /\ mic.capturing = None
  /\ mic.open # NoStream \/ (Wants(mic) /\ mic.retry = "later")
  /\ mic' \in Settled(mic)
  /\ UNCHANGED <<queue, callVars, heard, chunk, errors, chosen, configs>>

\* WARM_WINDOW passes.
WarmLapses ==
  /\ mic.warm = "on"
  /\ mic' = [mic EXCEPT !.warm = "over"]
  /\ UNCHANGED <<queue, callVars, heard, chunk, errors, chosen, configs>>

-----------------------------------------------------------------------------
(* The stream's callbacks. *)

\* The receiving end of a capture's audio channel exists: in the reply that
\* waits for it, or in its loop.
Hears(c) == c # None /\ reply[c] = "ok" /\ pc[c] \in {"waiting", "givingUp", "recording"}

Latest(ring, n) ==
  LET all == Append(ring, n)
      excess == IF Len(all) > RingSize THEN Len(all) - RingSize ELSE 0 IN
  SubSeq(all, excess + 1, Len(all))

\* Shared::push: to the tap if its capture still listens, else to the ring.
Push ==
  /\ mic.open # NoStream /\ chunk < MaxChunks
  /\ chunk' = chunk + 1
  /\ IF Hears(mic.tap)
     THEN heard' = [heard EXCEPT ![mic.tap] = Append(@, chunk')] /\ UNCHANGED mic
     ELSE mic' = [mic EXCEPT !.tap = None, !.ring = Latest(@, chunk')] /\ UNCHANGED heard
  /\ UNCHANGED <<queue, callVars, errors, chosen, configs>>

\* The error callback; the capture hears of it too and ends (Stop).
StreamError ==
  /\ mic.open # NoStream /\ Cardinality(errors) < MaxErrors
  /\ errors' = errors \cup {mic.open.generation}
  /\ queue' = Append(queue, StreamFailed(mic.open.generation))
  /\ UNCHANGED <<mic, callVars, heard, chunk, chosen, configs>>

-----------------------------------------------------------------------------
(* Captures and Settings. *)

\* capture, with the input device of the settings the dictation began with.
Ask(c) ==
  /\ pc[c] = "idle"
  /\ pc' = [pc EXCEPT ![c] = "waiting"]
  /\ queue' = Append(queue, Begin(c, chosen))
  /\ UNCHANGED <<mic, reply, id, heard, chunk, errors, chosen, configs>>

Answered(c) ==
  /\ pc[c] = "waiting" /\ reply[c] # "none"
  /\ pc' = [pc EXCEPT ![c] = IF reply[c] = "ok" THEN "recording" ELSE "done"]
  /\ UNCHANGED <<mic, queue, reply, id, heard, chunk, errors, chosen, configs>>

\* BEGIN_TIMEOUT: recv_timeout found nothing.  The receiver lives until the
\* call has returned.
GiveUp(c) ==
  /\ pc[c] = "waiting" /\ reply[c] = "none"
  /\ pc' = [pc EXCEPT ![c] = "givingUp"]
  /\ UNCHANGED <<mic, queue, reply, id, heard, chunk, errors, chosen, configs>>

Leave(c) ==
  /\ pc[c] = "givingUp"
  /\ pc' = [pc EXCEPT ![c] = "gone"]
  /\ heard' = [heard EXCEPT ![c] = << >>]
  /\ UNCHANGED <<mic, queue, reply, id, chunk, errors, chosen, configs>>

\* The capture loop ends (stop, cancel, cap, error, or its tap was taken) and
\* drops its receiver.
Stop(c) ==
  /\ pc[c] = "recording"
  /\ pc' = [pc EXCEPT ![c] = "ending"]
  /\ heard' = [heard EXCEPT ![c] = << >>]
  /\ UNCHANGED <<mic, queue, reply, id, chunk, errors, chosen, configs>>

\* EndOnDrop.
SendEnd(c) ==
  /\ pc[c] = "ending"
  /\ pc' = [pc EXCEPT ![c] = "done"]
  /\ queue' = Append(queue, End(id[c]))
  /\ id' = [id EXCEPT ![c] = None]
  /\ UNCHANGED <<mic, reply, heard, chunk, errors, chosen, configs>>

\* update_settings: the settings, then a Configure command.
ChangeSettings ==
  /\ configs < MaxConfigs
  /\ configs' = configs + 1
  /\ \E d \in Devices, k \in BOOLEAN :
       chosen' = d /\ queue' = Append(queue, Configure(d, k))
  /\ UNCHANGED <<mic, callVars, heard, chunk, errors>>

KeeperStep == HandleConfigure \/ HandleEnd \/ HandleFailed \/ HandleBegin
              \/ HandleBeginFails \/ Wake

CallStep(c) == Answered(c) \/ Leave(c) \/ Stop(c) \/ SendEnd(c)

Next ==
  \/ KeeperStep \/ WarmLapses \/ Push \/ StreamError \/ ChangeSettings
  \/ \E c \in Captures : Ask(c) \/ GiveUp(c) \/ CallStep(c)

Spec == Init /\ [][Next]_vars

\* The keeper thread and the capture tasks run; the warm window passes.
FairSpec ==
  /\ Spec
  /\ WF_vars(KeeperStep) /\ WF_vars(WarmLapses)
  /\ \A c \in Captures : WF_vars(CallStep(c))

-----------------------------------------------------------------------------
(* Properties. *)

\* The newest capture keeps the keeper and its tap for as long as it records:
\* neither the End of a capture it replaced, nor Settings, nor a late stream
\* error takes the microphone away from it.  Only the tap can go, and only to a
\* later press that closed the stream and could not open another.
TapServesCapture ==
  \A c \in Captures :
    pc[c] = "recording" /\ id[c] = mic.nextId =>
      /\ mic.capturing = id[c]
      /\ mic.tap = c \/ \E d \in Captures \ {c} : reply[d] = "error" \/ pc[d] = "gone"

\* A capture hears a gapless stretch of one stream, pre-roll first: nothing is
\* lost or doubled at the seam between the ring and the tap.
RecordingIsContiguous ==
  \A c \in Captures : \A i \in 1 .. Len(heard[c]) - 1 :
    heard[c][i + 1] = heard[c][i] + 1

\* "A capture always ends with an End command": the running capture's caller is
\* still on its way to send it, or it waits in the channel.
CaptureHasEnd ==
  mic.capturing # None =>
    \/ \E i \in DOMAIN queue : queue[i] = End(mic.capturing)
    \/ \E c \in Captures : id[c] = mic.capturing /\ pc[c] \in {"waiting", "recording", "ending"}

\* Once nothing is dictated and "Keep mic ready" is off the mic is released,
\* unless a capture was begun that nobody will end.
MicIsReleased ==
  LET quiet == /\ ~ mic.keep /\ queue = << >> /\ CaptureHasEnd
               /\ \A c \in Captures : pc[c] \in {"idle", "gone", "done"} IN
  quiet ~> (~ quiet \/ mic.open = NoStream)
=============================================================================
