----------------------------- MODULE CuePlayer -----------------------------
(***************************************************************************)
(* The sounds of a press and a release (cue.rs).  A supervisor, behind a   *)
(* lock, keeps one worker: a thread with an output stream on the default   *)
(* device.  A play makes sure of the worker, sends it the cue and waits a  *)
(* moment for it to be accepted; if it is not, the worker is replaced and  *)
(* the cue sent once more.  Streams fail, devices change, and a driver may *)
(* take longer than anybody waits for it.                                  *)
(***************************************************************************)
EXTENDS Naturals, Sequences, FiniteSets, SequencesExt

CONSTANTS
  Workers,   \* threads that may be started
  Devices,   \* output devices
  Nothing,   \* no device, no worker, no reply, no cue
  MaxCalls   \* bound on plays and prewarms

ASSUME CallsAssumption == MaxCalls \in Nat /\ Nothing \notin Workers

VARIABLES
  default,   \* the default output device, or Nothing while it is switched
  thread,    \* of each worker: "unborn", "opening", "runs", "pushes" or "gone"
  on,        \* the device of its stream
  healthy,   \* its flag
  orders,    \* its channel
  voices,    \* the cues it mixes
  keeps,     \* the supervisor's worker
  call,      \* the call under the lock: its place, cue, attempt and worker
  reply,     \* what the call was told: Nothing, "ok" or "error"
  outcomes   \* of each call, in order

cueVars == <<default, thread, on, healthy, orders, voices, keeps, call, reply, outcomes>>

Shutdown == MaxCalls + 1  \* among the cues, which are numbered by their calls
NoCall == [at |-> "none", cue |-> 0, attempt |-> 1, recovers |-> FALSE, with |-> Nothing]
Prewarm == 0  \* the cue of a call that plays none

CueInit ==
  /\ default \in Devices /\ thread = [w \in Workers |-> "unborn"]
  /\ on = [w \in Workers |-> Nothing] /\ healthy = [w \in Workers |-> FALSE]
  /\ orders = [w \in Workers |-> <<>>] /\ voices = [w \in Workers |-> {}]
  /\ keeps = Nothing /\ call = NoCall /\ reply = Nothing /\ outcomes = <<>>

At(place) == call.at = place
MoveTo(place) == call' = [call EXCEPT !.at = place]
Return(result) == call' = NoCall /\ reply' = Nothing /\ outcomes' = Append(outcomes, result)
Unsent == UNCHANGED <<orders, reply, outcomes>>
CueThreads == UNCHANGED <<thread, on, voices>>

-----------------------------------------------------------------------------
(* The supervisor *)

\* prewarm and play, by whoever gets the lock
BeginCall ==
  /\ At("none") /\ Len(outcomes) < MaxCalls
  /\ \E cue \in {Prewarm, Len(outcomes) + 1} :
       call' = [NoCall EXCEPT !.at = "ensure", !.cue = cue]
  /\ UNCHANGED <<default, healthy, keeps>> /\ CueThreads /\ Unsent

Healthy == keeps # Nothing /\ healthy[keeps]

\* A stream that works is kept while the device is being switched.
Reusable == Healthy /\ default \in {Nothing, on[keeps]}

EnsureWorker ==
  /\ At("ensure")
  /\ \/ Reusable /\ MoveTo(IF call.cue = Prewarm THEN "done" ELSE "send")
        /\ UNCHANGED <<reply, outcomes>>
     \/ ~ Reusable /\ default = Nothing /\ Return("error")
     \/ ~ Reusable /\ default # Nothing /\ MoveTo("retire") /\ UNCHANGED <<reply, outcomes>>
  /\ UNCHANGED <<default, healthy, keeps, orders>> /\ CueThreads

PrewarmDone ==
  /\ At("done") /\ Return("ok") /\ UNCHANGED <<default, healthy, keeps, orders>> /\ CueThreads

\* Slip: the thread is told to end, and not waited for.
JoinedAtOnce(w) == TRUE

Joined(w) == thread[w] = "gone"

\* retire_worker: the thread is told to end, and joined.
Retire ==
  /\ At("retire")
  /\ IF keeps = Nothing THEN MoveTo("spawn") /\ UNCHANGED <<healthy, orders>>
     ELSE /\ healthy' = [healthy EXCEPT ![keeps] = FALSE]
          /\ orders' = [orders EXCEPT ![keeps] = Append(@, Shutdown)] /\ MoveTo("join")
  /\ UNCHANGED <<default, keeps, reply, outcomes>> /\ CueThreads

\* After a cue that was not accepted the worker is made sure of anew.
Join ==
  /\ At("join") /\ Joined(keeps) /\ keeps' = Nothing
  /\ call' = [call EXCEPT !.at = IF call.recovers THEN "ensure" ELSE "spawn", !.recovers = FALSE]
  /\ UNCHANGED <<default, healthy>> /\ CueThreads /\ Unsent

\* A prewarm soon after a failed start is put off.
Backoff ==
  /\ At("spawn") /\ call.cue = Prewarm /\ "error" \in ToSet(outcomes) /\ Return("error")
  /\ UNCHANGED <<default, healthy, keeps, orders>> /\ CueThreads

Spawn ==
  /\ At("spawn")
  /\ \E w \in Workers : thread[w] = "unborn"
  /\ LET w == CHOOSE v \in Workers : thread[v] = "unborn" IN
       /\ thread' = [thread EXCEPT ![w] = "opening"]
       /\ call' = [call EXCEPT !.at = "ready", !.with = w]
  /\ UNCHANGED <<default, on, healthy, voices, keeps>> /\ Unsent

\* The worker tells whether it could open a stream.
Ready ==
  /\ At("ready") /\ reply # Nothing
  /\ IF reply = "error" THEN Return("error") /\ UNCHANGED keeps
     ELSE /\ keeps' = call.with /\ reply' = Nothing /\ UNCHANGED outcomes
          /\ MoveTo(IF call.cue = Prewarm THEN "done" ELSE "send")
  /\ UNCHANGED <<default, healthy, orders>> /\ CueThreads

\* WORKER_READY_TIMEOUT.  The late thread ends when it comes to its orders.
NotReady ==
  /\ At("ready") /\ reply = Nothing /\ Return("error")
  /\ orders' = [orders EXCEPT ![call.with] = Append(@, Shutdown)]
  /\ UNCHANGED <<default, healthy, keeps>> /\ CueThreads

Failed ==
  IF call.attempt = 1
  THEN /\ call' = [call EXCEPT !.at = "retire", !.attempt = 2, !.recovers = TRUE]
       /\ reply' = Nothing /\ UNCHANGED outcomes
  ELSE Return("error")

SendCue ==
  /\ At("send")
  /\ IF healthy[keeps] /\ thread[keeps] # "gone"
     THEN /\ orders' = [orders EXCEPT ![keeps] = Append(@, call.cue)]
          /\ MoveTo("await") /\ UNCHANGED <<reply, outcomes>>
     ELSE Failed /\ UNCHANGED orders
  /\ UNCHANGED <<default, healthy, keeps>> /\ CueThreads

\* CUE_ACCEPT_TIMEOUT may end the wait at any moment.
Await ==
  /\ At("await")
  /\ IF reply = "ok" THEN Return("ok") ELSE Failed
  /\ UNCHANGED <<default, healthy, keeps, orders>> /\ CueThreads

-----------------------------------------------------------------------------
(* The workers, and the devices *)

Supervisor == UNCHANGED <<keeps, outcomes, call>>

\* A reply that nobody waits for is lost.
Tell(waits, answer) == reply' = IF waits /\ reply = Nothing THEN answer ELSE reply

AwaitsReady(w) == At("ready") /\ call.with = w

AwaitsCue(w) == At("await") /\ keeps = w /\ call.cue = Head(orders[w])

Open(w) ==
  /\ thread[w] = "opening"
  /\ \/ /\ default # Nothing /\ thread' = [thread EXCEPT ![w] = "runs"]
        /\ on' = [on EXCEPT ![w] = default] /\ healthy' = [healthy EXCEPT ![w] = TRUE]
        /\ Tell(AwaitsReady(w), "ok")
     \/ /\ thread' = [thread EXCEPT ![w] = "gone"] /\ Tell(AwaitsReady(w), "error")
        /\ UNCHANGED <<on, healthy>>
  /\ UNCHANGED <<default, orders, voices>> /\ Supervisor

\* An end of the thread drops its stream and what it was playing.
EndThread(w) ==
  /\ thread' = [thread EXCEPT ![w] = "gone"] /\ healthy' = [healthy EXCEPT ![w] = FALSE]
  /\ voices' = [voices EXCEPT ![w] = {}]

Obey(w) ==
  /\ thread[w] = "runs" /\ orders[w] # <<>>
  /\ IF Head(orders[w]) # Shutdown /\ healthy[w]
     THEN /\ thread' = [thread EXCEPT ![w] = "pushes"] /\ UNCHANGED <<orders, voices, healthy, reply>>
     ELSE /\ EndThread(w) /\ orders' = [orders EXCEPT ![w] = Tail(@)]
          /\ IF Head(orders[w]) = Shutdown THEN UNCHANGED reply ELSE Tell(AwaitsCue(w), "error")
  /\ UNCHANGED <<default, on>> /\ Supervisor

\* The worker's health was read before this.
PushVoice(w) ==
  /\ thread[w] = "pushes" /\ thread' = [thread EXCEPT ![w] = "runs"]
  /\ voices' = [voices EXCEPT ![w] = @ \cup {Head(orders[w])}]
  /\ orders' = [orders EXCEPT ![w] = Tail(@)] /\ Tell(AwaitsCue(w), "ok")
  /\ UNCHANGED <<default, on, healthy>> /\ Supervisor

PlayedOut(w) ==
  /\ \E c \in voices[w] : voices' = [voices EXCEPT ![w] = @ \ {c}]
  /\ UNCHANGED <<default, thread, on, healthy, orders, reply>> /\ Supervisor

OutputFails(w) ==
  /\ thread[w] \in {"runs", "pushes"} /\ healthy[w]
  /\ healthy' = [healthy EXCEPT ![w] = FALSE]
  /\ UNCHANGED <<default, orders, reply>> /\ CueThreads /\ Supervisor

SwitchDevice ==
  /\ default' \in (Devices \cup {Nothing}) \ {default}
  /\ UNCHANGED <<healthy, orders, reply>> /\ CueThreads /\ Supervisor

CueNext ==
  \/ BeginCall \/ EnsureWorker \/ PrewarmDone \/ Retire \/ Join \/ Backoff
  \/ Spawn \/ Ready \/ NotReady \/ SendCue \/ Await
  \/ \E w \in Workers : Open(w) \/ Obey(w) \/ PushVoice(w) \/ PlayedOut(w) \/ OutputFails(w)
  \/ SwitchDevice

CueSpec == CueInit /\ [][CueNext]_cueVars

-----------------------------------------------------------------------------

\* No two streams ever play: a cue that is sent again after a wait that was too
\* short does not sound twice at once, and a worker that came too late, or was
\* replaced, has no cue (CueSupervisor::play, retire_worker, CpalCueWorker::spawn).
OneStreamPlays ==
  /\ Cardinality({w \in Workers : voices[w] # {}}) <= 1
  /\ \A w \in Workers : thread[w] \in {"runs", "pushes"} /\ w # keeps => voices[w] = {}
=============================================================================
