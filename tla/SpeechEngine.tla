---------------------------- MODULE SpeechEngine ----------------------------
(***************************************************************************)
(* Decoding with the whisper.cpp speech workers: one slot per rung (the    *)
(* Vulkan worker, the CPU worker), each behind a lock; the one-time check  *)
(* of the graphics card (qualification); the counters that turn the GPU    *)
(* off for a while, or for its driver; and the ladder a dictation climbs   *)
(* down: GPU, a fresh GPU worker, the CPU rung.                            *)
(*                                                                         *)
(* Threads: the decode task of each dictation, the check each dictation    *)
(* may spawn, and the prewarm, which runs a check of its own.  An action   *)
(* is what one of them does between two points at which another gets in;   *)
(* the reads of primary_rung_blocking count as one.  Which worker a slot   *)
(* holds, its model, and a cancel acknowledgement left unread in its pipe  *)
(* are the worker's state; audio, text and times are not kept.             *)
(***************************************************************************)
EXTENDS Naturals, FiniteSets

CONSTANTS
  Dictations,  \* dictations, each with its decode task and the check it spawns
  Prewarm,     \* the background task that loads the active model
  Models,      \* installed GGML models
  Fallbacks,   \* whether a faster-whisper model may be installed (of BOOLEAN)
  None,        \* no model, no checker
  MaxRetries,  \* QUALIFY_MAX_RETRIES
  FailLimit,   \* SESSION_GPU_FAILURE_LIMIT
  MaxBoots,    \* bound: app sessions
  MaxEvents,   \* bound: prewarms, settings changes and idle worker deaths
  Faults,      \* what a worker request may fail with (a subset of AllFaults)
  Verdicts     \* what a check may find (a subset of AllVerdicts)

\* A "hang" is a missed deadline: of class Backend, like a crash.
AllFaults == {"artifact", "resource", "backend", "hang", "protocol"}
AllVerdicts == {"passed", "failed", "retry", "inconclusive"}
Users == Dictations \cup {Prewarm}
Rungs == {"gpu", "cpu"}

ASSUME NamesAssumption == Prewarm \notin Dictations /\ None \notin Models \cup Users
ASSUME ScopeAssumption ==
  Fallbacks \subseteq BOOLEAN /\ Faults \subseteq AllFaults /\ Verdicts \subseteq AllVerdicts
ASSUME LimitAssumption ==
  /\ MaxRetries \in Nat \ {0} /\ FailLimit \in Nat \ {0} /\ MaxBoots \in Nat \ {0}
  /\ MaxEvents \in Nat

VARIABLES
  enabled,     \* GPU_ENABLED
  failures,    \* Session.gpu_failures
  cooldown,    \* Session.gpu_cooldown_until lies ahead
  qualifying,  \* Session.qualifying: the model being checked, or None
  retryNext,   \* Session.retry_next_session
  verdict,     \* the newest pass or fail in the store, per model
  retries,     \* counted Retry records since then, per model
  strikes,     \* sessions with a backend failure on this driver, in the store
  driverOff,   \* the driver is disabled, in the store
  worker,      \* worker[r]: what slot r holds
  holder,      \* holder[r]: who has slot r locked
  heavy,       \* who holds HEAVY_LOAD
  pc,          \* pc[u]: where the decode of u, or the prewarm, is
  model,       \* model[u]: what u decodes with or loads
  fw,          \* fw[d]: a faster-whisper model is the CPU rung of d
  attempt,     \* attempt[d]: the rung d is on
  down,        \* down[d]: the step-down its first rung carries
  result,      \* result[d]: how the last attempt of d ended
  retrying,    \* dictations whose attempt has text and decodes once more
  cancelled,   \* dictations whose token is cancelled
  qpc,         \* qpc[u]: where the check of u is
  target,      \* target[u]: the model the check of u is about
  finding,     \* finding[u]: what the check of u found
  boot,        \* the app session
  events,      \* what the environment did so far, of the MaxEvents
  proven       \* history: models that passed a check

store == <<verdict, retries, strikes, driverOff>>
sess == <<failures, cooldown, qualifying, retryNext>>
slots == <<worker, holder>>
task == <<pc, model, fw, attempt, down, result, retrying>>
check == <<qpc, target, finding, heavy>>
history == <<boot, events, proven>>
vars == <<enabled, sess, store, slots, task, cancelled, check, history>>

NoWorker == [up |-> FALSE, model |-> None, ack |-> FALSE]
Workers == [up : BOOLEAN, model : Models \cup {None}, ack : BOOLEAN]
Free == <<"free", None>>

Pcs == {"idle", "choose", "wait", "slot", "load", "decode", "fw", "after",
        "release", "qualify", "again"}
InitSession ==
  /\ failures = 0 /\ cooldown = FALSE /\ qualifying = None /\ retryNext = {}
  /\ worker = [r \in Rungs |-> NoWorker] /\ holder = [r \in Rungs |-> Free]
  /\ heavy = None
  /\ qpc = [u \in Users |-> "none"] /\ finding = [u \in Users |-> "none"]
  /\ target = [u \in Users |-> None]

\* GPU_ENABLED starts TRUE; SetGpu is the setting, which a restart applies again.
Init ==
  /\ enabled = TRUE
  /\ InitSession
  /\ verdict = [m \in Models |-> "none"] /\ retries = [m \in Models |-> 0]
  /\ strikes = {} /\ driverOff = FALSE
  /\ pc = [u \in Users |-> "idle"] /\ model = [u \in Users |-> None]
  /\ fw = [d \in Dictations |-> FALSE]
  /\ attempt = [d \in Dictations |-> "cpu"]
  /\ down = [d \in Dictations |-> "none"] /\ result = [d \in Dictations |-> "none"]
  /\ cancelled = {} /\ retrying = {}
  /\ boot = 1 /\ events = 0 /\ proven = {}

-----------------------------------------------------------------------------
(* Where the next dictation decodes first. *)

\* Slip: a model counts as ready once its check has any result.
ReadinessOfAnyResult(m) ==
  IF qualifying = m THEN "preparing"
  ELSE IF verdict[m] # "none" THEN "ready" ELSE "preparing"

\* gpu_readiness
Readiness(m) ==
  IF qualifying = m THEN "preparing"
  ELSE IF m \in retryNext THEN "unavailable"
  ELSE CASE verdict[m] = "passed" -> "ready"
         [] verdict[m] = "failed" -> "unavailable"
         [] OTHER                 -> "preparing"

\* primary_rung_blocking: "ready" is the GPU, anything else the CPU rung.
Primary(m) ==
  IF ~enabled THEN "none"
  ELSE IF cooldown \/ driverOff THEN "unavailable" ELSE Readiness(m)

\* release_idle_rung: a locked slot is left alone.
Released(r) == IF holder[r] = Free THEN [worker EXCEPT ![r] = NoWorker] ELSE worker

\* A GPU worker that was busy when GPU acceleration went Off goes here.
PrimaryDrops == worker' = IF enabled THEN worker ELSE Released("gpu")

-----------------------------------------------------------------------------
(* Bookkeeping of a failed GPU operation. *)

Counted(f) == f \in {"backend", "hang"}

\* record_backend_failure: the second session with a cooldown disables the
\* driver and starts its list afresh.
Strike ==
  LET all == strikes \cup {boot} IN
  IF Cardinality(all) >= 2 THEN strikes' = {} /\ driverOff' = TRUE
  ELSE strikes' = all /\ UNCHANGED driverOff

\* note_gpu_fault: only backend faults count, and only a second one in a row
\* starts a cooldown and is held against the driver.
NoteGpuFault(f) ==
  IF ~Counted(f) THEN UNCHANGED <<failures, cooldown, strikes, driverOff>>
  ELSE IF failures + 1 < FailLimit
       THEN failures' = failures + 1 /\ UNCHANGED <<cooldown, strikes, driverOff>>
       ELSE failures' = 0 /\ cooldown' = TRUE /\ Strike

NoFault == UNCHANGED <<failures, cooldown, strikes, driverOff>>

-----------------------------------------------------------------------------
(* One request to the worker in a slot: with_worker around request. *)

Ready(m, ack) == [up |-> TRUE, model |-> m, ack |-> ack]

\* The replies one request may get, and whether the acknowledgement of its
\* cancel is left behind it in the pipe: the worker's reader acknowledges a
\* cancel on its own, so the answer of a decode may come first.  A line left
\* by an earlier request does not carry this one's id.
Replies(w, m, stop) ==
  IF w.ack THEN [res : {"protocol"}, ack : {FALSE}]
  ELSE [res : {"ok"} \cup Faults, ack : {FALSE}]
         \cup (IF stop THEN [res : {"ok", "cancelled"}, ack : BOOLEAN] ELSE {})

\* Any failure but a user cancel kills the worker.
AfterReply(m, reply) ==
  IF reply.res \in {"ok", "cancelled"} THEN Ready(m, reply.ack) ELSE NoWorker

Take(r, who) == holder[r] = Free /\ holder' = [holder EXCEPT ![r] = who]
Drop(r) == holder' = [holder EXCEPT ![r] = Free]
Put(r, w) == worker' = [worker EXCEPT ![r] = w]

Go(u, at) == pc' = [pc EXCEPT ![u] = at]
Answer(d, res) ==
  /\ result' = [result EXCEPT ![d] = res] /\ retrying' = retrying \ {d}
  /\ Go(d, "after")

-----------------------------------------------------------------------------
(* A dictation: transcribe_with_asr_worker. *)

RungOf(d) == IF attempt[d] \in {"gpu", "fresh"} THEN "gpu" ELSE "cpu"

\* The CPU rung is faster-whisper where one is installed.
EngineOf(d, at) == IF at \in {"cpu", "fallback"} /\ fw[d] THEN "fw" ELSE "slot"

Attempt(d, at) ==
  /\ attempt' = [attempt EXCEPT ![d] = at]
  /\ Go(d, EngineOf(d, at))

\* Decodes follow one another; one begins when those before it have ended or
\* were cancelled, so a replaced one may still be running.
Begin(d) ==
  /\ pc[d] = "idle"
  /\ \A e \in Dictations : pc[e] = "idle" \/ e \in cancelled
  /\ \E m \in Models : model' = [model EXCEPT ![d] = m]
  /\ \E b \in Fallbacks : fw' = [fw EXCEPT ![d] = b]
  /\ Go(d, "choose")
  /\ UNCHANGED <<enabled, sess, store, slots, attempt, down, result, retrying, cancelled,
                 check, history>>

CheckRuns(u) == qpc[u] # "none"

\* spawn_qualification.  A check u spawned before and that still runs makes
\* a second one return at once: one of the two is turned away by the mark.
SpawnCheck(u) ==
  IF CheckRuns(u) THEN UNCHANGED <<qpc, target>>
  ELSE /\ qpc' = [qpc EXCEPT ![u] = "ask"]
       /\ target' = [target EXCEPT ![u] = model[u]]

\* The first rung is chosen; a GPU that still needs its check gets one.
Settle(d, p) ==
  /\ down' = [down EXCEPT ![d] = IF p \in {"preparing", "unavailable"} THEN p ELSE "none"]
  /\ Attempt(d, IF p = "ready" THEN "gpu" ELSE "cpu")

Choose(d) ==
  /\ pc[d] = "choose"
  /\ PrimaryDrops
  /\ LET p == Primary(model[d]) IN
       IF p = "preparing"
       THEN IF fw[d]
            THEN Settle(d, p) /\ SpawnCheck(d)
            ELSE Go(d, "wait") /\ UNCHANGED <<attempt, down, qpc, target>>
       ELSE Settle(d, p) /\ UNCHANGED <<qpc, target>>
  /\ UNCHANGED <<enabled, sess, store, holder, model, fw, result, retrying, cancelled, finding,
                 heavy, history>>

\* wait_for_gpu_check: until the check is over, or a cancel, or GPU_CHECK_WAIT.
WaitOver(d) ==
  /\ pc[d] = "wait"
  /\ Settle(d, Primary(model[d]))
  /\ PrimaryDrops
  /\ UNCHANGED <<enabled, sess, store, holder, model, fw, result, retrying, cancelled, check,
                 history>>

\* Nobody checks, and the check this wait spawned has ended: spawn another.
WaitSpawns(d) ==
  /\ pc[d] = "wait" /\ Primary(model[d]) = "preparing" /\ d \notin cancelled
  /\ qualifying = None /\ ~CheckRuns(d)
  /\ SpawnCheck(d)
  /\ UNCHANGED <<enabled, sess, store, slots, task, cancelled, finding, heavy, history>>

\* The pipeline and transcribe look at the token before anything else.
CancelBeforeSlot(d) ==
  /\ pc[d] \in {"slot", "fw"} /\ d \in cancelled
  /\ Answer(d, "cancelled")
  /\ UNCHANGED <<enabled, sess, store, slots, model, fw, attempt, down, cancelled, check, history>>

\* lock_slot, and the token again once it is held.
TakeSlot(d) ==
  /\ pc[d] = "slot" /\ d \notin cancelled
  /\ Take(RungOf(d), <<"decode", d>>)
  /\ Go(d, "load")
  /\ UNCHANGED <<enabled, sess, store, worker, model, fw, attempt, down, result, retrying,
                 cancelled, check, history>>

SlotStaysBusy(d) ==
  /\ pc[d] = "slot" /\ holder[RungOf(d)] # Free
  /\ Answer(d, "notReady")
  /\ UNCHANGED <<enabled, sess, store, slots, model, fw, attempt, down, cancelled, check, history>>

\* A failed attempt: the worker is dropped, the lock freed, the fault noted.
AttemptFails(d, f) ==
  /\ Put(RungOf(d), NoWorker) /\ Drop(RungOf(d))
  /\ IF RungOf(d) = "gpu" THEN NoteGpuFault(f) ELSE NoFault
  /\ Answer(d, f)

\* ensure_loaded: nothing to do, or a start and a load, which no cancel stops.
Load(d) ==
  LET r == RungOf(d)
      w == worker[r] IN
  /\ pc[d] = "load"
  /\ IF w.up /\ w.model = model[d]
     THEN Go(d, "decode") /\ NoFault /\ UNCHANGED <<slots, result, retrying>>
     ELSE \/ \E f \in Faults \cap {"backend", "hang"} :
               ~w.up /\ AttemptFails(d, f)            \* it never came up
          \/ \E reply \in Replies(w, model[d], FALSE) :
               IF reply.res = "ok"
               THEN /\ Put(r, Ready(model[d], reply.ack))
                    /\ Go(d, "decode") /\ NoFault /\ UNCHANGED <<holder, result, retrying>>
               ELSE AttemptFails(d, reply.res)
  /\ UNCHANGED <<enabled, qualifying, retryNext, verdict, retries, model, fw, attempt, down,
                 cancelled, check, boot, events, proven>>

\* run_whisper_decode_with_conditioned: a text of low confidence is decoded once
\* more, and what the second decode ends with is what the attempt ends with.
DecodeAgain(d) ==
  /\ d \notin retrying /\ retrying' = retrying \cup {d}
  /\ Go(d, "slot") /\ UNCHANGED result

\* The transcribe request; a success on the GPU ends its run of failures.
Decode(d) ==
  LET r == RungOf(d) IN
  /\ pc[d] = "decode"
  /\ \E reply \in Replies(worker[r], model[d], d \in cancelled) :
       IF reply.res \in {"ok", "cancelled"}
       THEN /\ Put(r, AfterReply(model[d], reply)) /\ Drop(r)
            /\ failures' = IF r = "gpu" /\ reply.res = "ok" THEN 0 ELSE failures
            /\ \/ Answer(d, IF d \in cancelled THEN "cancelled" ELSE reply.res)
               \/ reply.res = "ok" /\ d \notin cancelled /\ DecodeAgain(d)
            /\ UNCHANGED <<cooldown, strikes, driverOff>>
       ELSE AttemptFails(d, reply.res)
  /\ UNCHANGED <<enabled, qualifying, retryNext, verdict, retries, model, fw, attempt, down,
                 cancelled, check, boot, events, proven>>

\* The faster-whisper rung, seen from here: text, an error, or the cancel.
FwDecode(d) ==
  /\ pc[d] = "fw"
  /\ \E res \in {"ok", "fwError"} :
       Answer(d, IF d \in cancelled THEN "cancelled" ELSE res)
  /\ UNCHANGED <<enabled, sess, store, slots, model, fw, attempt, down, cancelled, check, history>>

\* The rung whose idle worker a success makes superfluous, or "none".
Superfluous(d) ==
  CASE attempt[d] = "gpu"                                 -> "cpu"
    [] attempt[d] = "cpu" /\ down[d] = "unavailable"      -> "gpu"
    [] OTHER                                              -> "none"

\* The decode returns: what it kept is dropped.
Return(d) ==
  /\ Go(d, "idle")
  /\ model' = [model EXCEPT ![d] = None]
  /\ fw' = [fw EXCEPT ![d] = FALSE]
  /\ attempt' = [attempt EXCEPT ![d] = "cpu"]
  /\ down' = [down EXCEPT ![d] = "none"]
  /\ result' = [result EXCEPT ![d] = "none"]
  /\ cancelled' = cancelled \ {d}

NextAttempt(d, at) ==
  Attempt(d, at) /\ UNCHANGED <<model, fw, down, result, cancelled>>

\* Slip: a fault of the fresh worker ends the dictation.
AfterFaultNoFallback(d) ==
  IF attempt[d] = "gpu" /\ Counted(result[d]) THEN NextAttempt(d, "fresh") ELSE Return(d)

\* Slip: every fault of a GPU worker is worth a fresh one.
AfterFaultFreshAgain(d) ==
  IF RungOf(d) = "gpu" /\ Counted(result[d]) THEN NextAttempt(d, "fresh")
  ELSE IF RungOf(d) = "gpu" THEN NextAttempt(d, "fallback") ELSE Return(d)

\* A failed attempt climbs down: a fresh GPU worker after a device fault, then
\* the CPU rung.  A damaged file fails the CPU worker the same way.
AfterFault(d) ==
  CASE attempt[d] \in {"gpu", "cpu"} /\ result[d] = "artifact"
          /\ (attempt[d] = "cpu" \/ ~fw[d]) ->
         Return(d)
    [] attempt[d] = "gpu" /\ Counted(result[d]) -> NextAttempt(d, "fresh")
    [] attempt[d] \in {"gpu", "fresh"}          -> NextAttempt(d, "fallback")
    [] OTHER                                    -> Return(d)

After(d) ==
  /\ pc[d] = "after"
  /\ CASE result[d] = "ok" /\ Superfluous(d) # "none" ->
            Go(d, "release") /\ UNCHANGED <<model, fw, attempt, down, result, cancelled>>
       [] result[d] \in {"ok", "cancelled"} \/ d \in cancelled -> Return(d)
       [] OTHER                                               -> AfterFault(d)
  /\ UNCHANGED <<enabled, sess, store, slots, retrying, check, history>>

ReleaseOther(d) ==
  /\ pc[d] = "release"
  /\ worker' = Released(Superfluous(d))
  /\ Return(d)
  /\ UNCHANGED <<enabled, sess, store, holder, retrying, check, history>>

DictationStep(d) ==
  \/ Choose(d) \/ WaitSpawns(d) \/ CancelBeforeSlot(d) \/ TakeSlot(d) \/ SlotStaysBusy(d)
  \/ Load(d) \/ Decode(d) \/ FwDecode(d) \/ After(d) \/ ReleaseOther(d)

-----------------------------------------------------------------------------
(* The check: qualify. *)

GoCheck(u, at) == qpc' = [qpc EXCEPT ![u] = at]

\* Only the prewarm waits for what its check returns.
ReturnCheck(u, f) ==
  /\ GoCheck(u, IF u = Prewarm THEN "done" ELSE "none")
  /\ target' = [target EXCEPT ![u] = None]
  /\ finding' = [finding EXCEPT ![u] = IF u = Prewarm THEN f ELSE "none"]

\* GPU off, or a cached result: nothing to check.
AskCheck(u) ==
  /\ qpc[u] = "ask"
  /\ IF enabled /\ verdict[target[u]] = "none"
     THEN GoCheck(u, "mark") /\ UNCHANGED <<target, finding>>
     ELSE ReturnCheck(u, IF enabled THEN verdict[target[u]] ELSE "none")
  /\ UNCHANGED <<enabled, sess, store, slots, task, cancelled, heavy, history>>

MayMark(u) == qualifying = None /\ target[u] \notin retryNext

\* Under the session lock: one check at a time, none again this session.
MarkCheck(u) ==
  /\ qpc[u] = "mark"
  /\ IF MayMark(u)
     THEN /\ qualifying' = target[u]
          /\ GoCheck(u, "heavy") /\ UNCHANGED <<target, finding>>
     ELSE ReturnCheck(u, "none") /\ UNCHANGED qualifying
  /\ UNCHANGED <<enabled, failures, cooldown, retryNext, store, slots, task, cancelled,
                 heavy, history>>

TakeHeavy(u) ==
  /\ qpc[u] = "heavy" /\ heavy = None
  /\ heavy' = u
  /\ \/ GoCheck(u, "slot") /\ UNCHANGED finding
     \/ /\ "inconclusive" \in Verdicts                  \* a clip is missing
        /\ GoCheck(u, "record")
        /\ finding' = [finding EXCEPT ![u] = "inconclusive"]
  /\ UNCHANGED <<enabled, sess, store, slots, task, cancelled, target, history>>

\* The check starts on a fresh worker.
CheckTakesSlot(u) ==
  /\ qpc[u] = "slot"
  /\ Take("gpu", <<"check", u>>)
  /\ Put("gpu", NoWorker)
  /\ GoCheck(u, "load")
  /\ UNCHANGED <<enabled, sess, store, task, cancelled, target, finding, heavy, history>>

\* fault_verdict
VerdictOf(f, loading) ==
  CASE f = "hang" /\ loading -> "retry"
    [] Counted(f)            -> "failed"
    [] f = "resource"        -> "inconclusive"
    [] OTHER                 -> "retry"

Found(u, v) ==
  /\ v \in Verdicts
  /\ finding' = [finding EXCEPT ![u] = v]

CheckLoads(u) ==
  /\ qpc[u] = "load"
  /\ \/ /\ Put("gpu", Ready(target[u], FALSE))
        /\ GoCheck(u, "clips") /\ UNCHANGED <<finding, holder>>
     \/ \E f \in Faults :
          /\ Found(u, VerdictOf(f, TRUE))
          /\ Drop("gpu") /\ Put("gpu", NoWorker) /\ GoCheck(u, "record")
  /\ UNCHANGED <<enabled, sess, store, task, cancelled, target, heavy, history>>

\* The clips: a fault, a wrong or slow transcript, or a pass.  The slot is
\* free from here on, and the worker stays in it unless it failed.
CheckDecodes(u) ==
  /\ qpc[u] = "clips"
  /\ \/ \E v \in {"passed", "failed", "retry"} :
          /\ Found(u, v) /\ UNCHANGED worker
          /\ \/ GoCheck(u, "record")
             \/ v = "passed" /\ TRUE \in Fallbacks /\ GoCheck(u, "baseline")
     \/ \E f \in Faults :
          Found(u, VerdictOf(f, FALSE)) /\ Put("gpu", NoWorker) /\ GoCheck(u, "record")
  /\ Drop("gpu")
  /\ UNCHANGED <<enabled, sess, store, task, cancelled, target, heavy, history>>

\* faster_whisper_baseline: a GPU slower than the processor did not pass.
CheckCompares(u) ==
  /\ qpc[u] = "baseline"
  /\ \/ UNCHANGED finding
     \/ Found(u, "retry")
  /\ GoCheck(u, "record")
  /\ UNCHANGED <<enabled, sess, store, slots, task, cancelled, target, heavy, history>>

\* The last of MaxRetries in a row is recorded as a fail.
Outcome(u) ==
  IF finding[u] = "retry" /\ retries[target[u]] + 1 >= MaxRetries THEN "failed" ELSE finding[u]

\* record_qualification, and the memory of a GPU that did not pass is freed.
RecordCheck(u) ==
  LET m == target[u]
      o == Outcome(u) IN
  /\ qpc[u] = "record"
  /\ finding' = [finding EXCEPT ![u] = o]
  /\ IF o \in {"passed", "failed"}
     THEN verdict' = [verdict EXCEPT ![m] = o] /\ retries' = [retries EXCEPT ![m] = 0]
     ELSE verdict' = verdict /\ retries' = [retries EXCEPT ![m] = IF o = "retry" THEN @ + 1 ELSE @]
  /\ proven' = IF o = "passed" THEN proven \cup {m} ELSE proven
  /\ worker' = IF o = "passed" THEN worker ELSE Released("gpu")
  /\ GoCheck(u, "clear")
  /\ UNCHANGED <<enabled, sess, strikes, driverOff, holder, task, cancelled, target, heavy,
                 boot, events>>

MarkAfter(u) == None

\* The mark goes, and a retry waits for the next session; HEAVY_LOAD is freed.
ClearCheck(u) ==
  /\ qpc[u] = "clear"
  /\ qualifying' = MarkAfter(u)
  /\ IF finding[u] \in {"retry", "inconclusive"}
     THEN retryNext' = retryNext \cup {target[u]}
     ELSE UNCHANGED retryNext
  /\ heavy' = None
  /\ ReturnCheck(u, finding[u])
  /\ UNCHANGED <<enabled, failures, cooldown, store, slots, task, cancelled,
                 boot, events, proven>>

CheckStep(u) ==
  \/ AskCheck(u) \/ MarkCheck(u) \/ TakeHeavy(u) \/ CheckTakesSlot(u) \/ CheckLoads(u)
  \/ CheckDecodes(u) \/ CheckCompares(u) \/ RecordCheck(u) \/ ClearCheck(u)

-----------------------------------------------------------------------------
(* The prewarm: prewarm_asr_worker. *)

Event == events < MaxEvents /\ events' = events + 1

EndPrewarm ==
  /\ Go(Prewarm, "idle")
  /\ model' = [model EXCEPT ![Prewarm] = None]

StartPrewarm ==
  /\ pc[Prewarm] = "idle" /\ Event
  /\ \E m \in Models : model' = [model EXCEPT ![Prewarm] = m]
  /\ Go(Prewarm, "choose")
  /\ UNCHANGED <<enabled, sess, store, slots, fw, attempt, down, result, retrying, cancelled,
                 check, boot, proven>>

\* A busy slot is left alone: a load or a decode is under way.
PrewarmChooses ==
  LET p == Primary(model[Prewarm])
      r == IF p = "ready" THEN "gpu" ELSE "cpu" IN
  /\ pc[Prewarm] \in {"choose", "again"}
  /\ PrimaryDrops
  /\ IF p = "preparing"
     THEN /\ IF pc[Prewarm] = "choose"
             THEN Go(Prewarm, "qualify") /\ SpawnCheck(Prewarm) /\ UNCHANGED model
             ELSE EndPrewarm /\ UNCHANGED <<qpc, target>>
          /\ UNCHANGED holder
     ELSE /\ UNCHANGED <<qpc, target>>
          /\ \/ Take(r, <<"decode", Prewarm>>) /\ Go(Prewarm, "load") /\ UNCHANGED model
             \/ holder[r] # Free /\ UNCHANGED holder /\ EndPrewarm
  /\ UNCHANGED <<enabled, sess, store, fw, attempt, down, result, retrying, cancelled, finding,
                 heavy, history>>

\* A load off the dictation path that ran out of time is not counted.
PrewarmFails(r, f) ==
  /\ Put(r, NoWorker)
  /\ IF r = "gpu" /\ f # "hang" THEN NoteGpuFault(f) ELSE NoFault

PrewarmLoads ==
  \E r \in Rungs :
    /\ pc[Prewarm] = "load" /\ holder[r] = <<"decode", Prewarm>>
    /\ IF worker[r].up /\ worker[r].model = model[Prewarm]
       THEN NoFault /\ UNCHANGED worker
       ELSE \E reply \in Replies(worker[r], model[Prewarm], FALSE) :
              IF reply.res = "ok" THEN Put(r, Ready(model[Prewarm], reply.ack)) /\ NoFault
              ELSE PrewarmFails(r, reply.res)
    /\ Drop(r)
    /\ EndPrewarm
    /\ UNCHANGED <<enabled, qualifying, retryNext, verdict, retries, fw, attempt, down, result,
                   retrying, cancelled, check, boot, events, proven>>

\* Not passed: the CPU rung is warmed instead.
PrewarmChecked ==
  /\ pc[Prewarm] = "qualify" /\ qpc[Prewarm] = "done"
  /\ IF finding[Prewarm] = "passed" THEN EndPrewarm
     ELSE Go(Prewarm, "again") /\ UNCHANGED model
  /\ qpc' = [qpc EXCEPT ![Prewarm] = "none"]
  /\ finding' = [finding EXCEPT ![Prewarm] = "none"]
  /\ UNCHANGED <<enabled, sess, store, slots, fw, attempt, down, result, retrying, cancelled,
                 target, heavy, history>>

PrewarmStep == PrewarmChooses \/ PrewarmLoads \/ PrewarmChecked

-----------------------------------------------------------------------------
(* The rest of the world. *)

Cancel(d) ==
  /\ pc[d] # "idle" /\ d \notin cancelled
  /\ cancelled' = cancelled \cup {d}
  /\ UNCHANGED <<enabled, sess, store, slots, task, check, history>>

\* set_gpu_acceleration: Off drops an idle GPU worker.
SetGpu ==
  /\ Event
  /\ enabled' = ~enabled
  /\ worker' = IF enabled THEN Released("gpu") ELSE worker
  /\ UNCHANGED <<sess, store, holder, task, cancelled, check, boot, proven>>

CooldownEnds ==
  /\ cooldown /\ cooldown' = FALSE
  /\ UNCHANGED <<enabled, failures, qualifying, retryNext, store, slots, task, cancelled,
                 check, history>>

\* A worker dies while idle (sleep, driver reset): found and restarted lazily.
WorkerDies(r) ==
  /\ holder[r] = Free /\ worker[r].up /\ Event
  /\ Put(r, NoWorker)
  /\ UNCHANGED <<enabled, sess, store, holder, task, cancelled, check, boot, proven>>

\* The app ends, its workers with it, and starts again.
Restart ==
  /\ boot < MaxBoots
  /\ boot' = boot + 1
  /\ failures' = 0 /\ cooldown' = FALSE /\ qualifying' = None /\ retryNext' = {}
  /\ worker' = [r \in Rungs |-> NoWorker] /\ holder' = [r \in Rungs |-> Free]
  /\ heavy' = None
  /\ qpc' = [u \in Users |-> "none"] /\ finding' = [u \in Users |-> "none"]
  /\ target' = [u \in Users |-> None]
  /\ pc' = [u \in Users |-> "idle"]
  /\ attempt' = [d \in Dictations |-> "cpu"]
  /\ down' = [d \in Dictations |-> "none"] /\ result' = [d \in Dictations |-> "none"]
  /\ model' = [u \in Users |-> None] /\ fw' = [d \in Dictations |-> FALSE]
  /\ cancelled' = {} /\ retrying' = {}
  /\ UNCHANGED <<enabled, store, events, proven>>

Next ==
  \/ \E d \in Dictations : Begin(d) \/ WaitOver(d) \/ DictationStep(d) \/ Cancel(d)
  \/ \E u \in Users : CheckStep(u)
  \/ StartPrewarm \/ PrewarmStep
  \/ SetGpu \/ CooldownEnds \/ Restart
  \/ \E r \in Rungs : WorkerDies(r)

\* Every request runs under a deadline and every task is scheduled; the wait
\* for a check has a limit of its own.
Fairness ==
  /\ \A d \in Dictations : WF_vars(DictationStep(d)) /\ WF_vars(WaitOver(d))
  /\ \A u \in Users : WF_vars(CheckStep(u))
  /\ WF_vars(PrewarmStep)

Spec == Init /\ [][Next]_vars
FairSpec == Spec /\ Fairness

-----------------------------------------------------------------------------
(* What should never go wrong. *)

\* A dictation is tried on the GPU only with a model that passed a check on
\* this driver (primary_rung_blocking, transcribe_with_asr_worker).
OnlyCheckedModelsOnGpu ==
  \A d \in Dictations :
    pc[d] \in {"slot", "load", "decode"} /\ RungOf(d) = "gpu" => model[d] \in proven

\* GPU trouble alone never loses a dictation: one that failed has had its
\* audio tried on its CPU rung too (transcribe_with_asr_worker).
GpuTroubleLosesNothing ==
  [][\A d \in Dictations :
       /\ pc[d] = "after" /\ pc'[d] = "idle" /\ boot' = boot
       /\ result[d] \notin {"ok", "cancelled", "artifact"} /\ d \notin cancelled
       => attempt[d] \in {"cpu", "fallback"}]_vars

-----------------------------------------------------------------------------
(* What should eventually happen. *)

\* Every dictation that asks for a decode gets text, an error, or its cancel,
\* whatever the workers and checks do.
EveryDecodeEnds == \A d \in Dictations : pc[d] = "choose" ~> pc[d] = "idle"
=============================================================================
