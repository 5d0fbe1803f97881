------------------------------ MODULE FwWorker ------------------------------
(***************************************************************************)
(* The faster-whisper workers (inference/faster_whisper.rs).  Requests of  *)
(* the app go one at a time through one shared worker, a process with a    *)
(* copy of the speech model: WORKER_REQUEST_GATE orders them, and a        *)
(* request takes the worker out of its slot for as long as it lasts.  A    *)
(* download of a model has a worker of its own, which a cancel kills by    *)
(* its process id.  An exit kills all of them.                             *)
(***************************************************************************)
EXTENDS Naturals, Sequences, FiniteSets

CONSTANTS
  Speech,    \* threads that transcribe or warm the worker up
  Loads,     \* threads that load a model into it, the reload among them
  Reload,    \* the reload thread, voicewave-fw-reload
  Readiers,  \* callers of ensure_faster_whisper_ready
  Download,  \* the thread of a model's download
  Pids,      \* processes that may be started
  Nobody,
  MaxAsked   \* bound on the requests

ASSUME ReloadAssumption == Reload \in Loads

Requests == Speech \cup Loads
Threads == Requests \cup Readiers \cup {Download}

ASSUME ThreadsAssumption ==
  Download \notin Requests \cup Readiers /\ Nobody \notin Pids \cup Threads

VARIABLES
  gate,      \* who holds WORKER_REQUEST_GATE
  slot,      \* WORKER: a process or Nobody
  procs,     \* the processes: stage, the request each works on, its unread lines
  at,        \* where each thread is
  mine,      \* the process a thread has in its hands
  asked,     \* the id of its request
  ids,       \* NEXT_REQUEST_ID
  live,      \* LIVE_WORKER_PIDS
  loading,   \* DOWNLOAD_WORKER_PIDS
  reloading, \* WORKER_RELOAD_IN_FLIGHT
  token,     \* the cancel token of the download
  cancel,    \* of cancel_model_download: "no", "token" or "swept"
  quit       \* of kill_worker_processes: "no", "slot" or "swept"

fwVars == <<gate, slot, procs, at, mine, asked, ids, live, loading, reloading, token,
            cancel, quit>>

NoLine == 0
Unborn == [stage |-> "unborn", todo |-> NoLine, out |-> <<>>]

FwInit ==
  /\ gate = Nobody /\ slot = Nobody /\ procs = [p \in Pids |-> Unborn]
  /\ at = [t \in Threads |-> "idle"] /\ mine = [t \in Threads |-> Nobody]
  /\ asked = [t \in Threads |-> 0] /\ ids = 0
  /\ live = {} /\ loading = {} /\ reloading = FALSE
  /\ token = FALSE /\ cancel = "no" /\ quit = "no"

Alive(p) == procs[p].stage \in {"starting", "up"}
Dead(p) == [procs[p] EXCEPT !.stage = "dead", !.todo = NoLine]
Go(t, where) == at' = [at EXCEPT ![t] = where]

\* Dropping a process's handle kills it and forgets its id.
Dropped(p) == procs' = [procs EXCEPT ![p] = Dead(p)] /\ live' = live \ {p}

-----------------------------------------------------------------------------
(* The gate *)

Send(t) ==
  /\ t \in Requests /\ at[t] = "idle" /\ ids < MaxAsked
  /\ t = Reload => reloading
  /\ ids' = ids + 1 /\ asked' = [asked EXCEPT ![t] = ids']
  /\ Go(t, "gate")
  /\ UNCHANGED <<gate, slot, procs, mine, live, loading, reloading, token, cancel, quit>>

Enter(t) ==
  /\ at[t] = "gate" /\ gate = Nobody /\ gate' = t /\ Go(t, "slot")
  /\ UNCHANGED <<slot, procs, mine, asked, ids, live, loading, reloading, token, cancel, quit>>

\* WORKER_GATE_MAX_WAIT is over: the engine is busy.
GiveUp(t) ==
  /\ at[t] = "gate" /\ gate # Nobody /\ Go(t, "idle")
  /\ reloading' = (reloading /\ t # Reload)
  /\ UNCHANGED <<gate, slot, procs, mine, asked, ids, live, loading, token, cancel, quit>>

\* Slip: whoever finds the slot empty starts a worker, whatever is under way.
GetReadyAnyway(t) ==
  /\ t \in Readiers /\ at[t] = "idle" /\ Go(t, "slot")
  /\ UNCHANGED <<gate, slot, procs, mine, asked, ids, live, loading, reloading, token, cancel,
                 quit>>

\* ensure_worker_ready_blocking does nothing while a request is in flight.
GetReady(t) ==
  /\ t \in Readiers /\ at[t] = "idle" /\ gate = Nobody /\ gate' = t /\ Go(t, "slot")
  /\ UNCHANGED <<slot, procs, mine, asked, ids, live, loading, reloading, token, cancel, quit>>

Leave(t) == gate' = IF gate = t THEN Nobody ELSE gate

-----------------------------------------------------------------------------
(* Starting a worker *)

\* A worker that lives is used.
Checkout(t) ==
  /\ at[t] = "slot" /\ slot # Nobody /\ Alive(slot)
  /\ IF t \in Readiers
     THEN Go(t, "idle") /\ Leave(t) /\ UNCHANGED <<slot, mine>>
     ELSE /\ Go(t, "ask") /\ mine' = [mine EXCEPT ![t] = slot] /\ slot' = Nobody
          /\ UNCHANGED gate
  /\ UNCHANGED <<procs, asked, ids, live, loading, reloading, token, cancel, quit>>

\* A thread holds the lock of the slot while it starts a worker for it.
SlotLocked == \E t \in Threads \ {Download} : at[t] = "starting"

\* A download begins once the cancel of the one before has returned.
Start(t) ==
  /\ \/ at[t] = "slot" /\ (slot # Nobody => ~ Alive(slot)) /\ ~ SlotLocked
     \/ t = Download /\ at[t] = "idle" /\ cancel # "token" /\ ids < MaxAsked
  /\ \E q \in Pids : procs[q].stage = "unborn"
  /\ LET p == CHOOSE q \in Pids : procs[q].stage = "unborn" IN
       /\ procs' = [procs EXCEPT ![p].stage = "starting"]
       /\ mine' = [mine EXCEPT ![t] = p] /\ live' = live \cup {p}
  /\ Go(t, "starting")
  /\ IF t = Download
     THEN /\ ids' = ids + 1 /\ asked' = [asked EXCEPT ![t] = ids']
          /\ token' = FALSE /\ cancel' = "no"
     ELSE UNCHANGED <<asked, ids, token, cancel>>
  /\ UNCHANGED <<gate, slot, loading, reloading, quit>>

\* The ready line has come.
Started(t) ==
  /\ at[t] = "starting" /\ procs[mine[t]].stage = "starting"
  /\ procs' = [procs EXCEPT ![mine[t]].stage = "up"]
  /\ IF t \in Readiers
     THEN /\ slot' = mine[t] /\ mine' = [mine EXCEPT ![t] = Nobody]
          /\ Go(t, "idle") /\ Leave(t)
     ELSE /\ Go(t, IF t = Download THEN "started" ELSE "ask")
          /\ slot' = (IF t = Download THEN slot ELSE Nobody) /\ UNCHANGED <<mine, gate>>
  /\ UNCHANGED <<asked, ids, live, loading, reloading, token, cancel, quit>>

\* It did not: the process is killed, and no reload is scheduled.
StartFails(t) ==
  /\ at[t] = "starting"
  /\ Dropped(mine[t]) /\ mine' = [mine EXCEPT ![t] = Nobody]
  /\ Go(t, "idle") /\ Leave(t) /\ reloading' = (reloading /\ t # Reload)
  /\ UNCHANGED <<slot, asked, ids, loading, token, cancel, quit>>

-----------------------------------------------------------------------------
(* Asking it *)

\* Complete lines that are left in the reader's buffer are thrown away; others
\* may still be in the pipe.
Ask(t) ==
  /\ at[t] = "ask"
  /\ LET p == mine[t]
         rest == {SubSeq(procs[p].out, n, Len(procs[p].out)) : n \in 1 .. Len(procs[p].out) + 1}
     IN  \E out \in rest :
           procs' = [procs EXCEPT ![p].out = out,
                       ![p].todo = IF Alive(p) THEN asked[t] ELSE NoLine]
  /\ Go(t, "wait")
  /\ UNCHANGED <<gate, slot, mine, asked, ids, live, loading, reloading, token, cancel, quit>>

\* The worker's answer to the request, or its account of a failure.
Answer(p) ==
  /\ procs[p].todo # NoLine
  /\ \E ok \in BOOLEAN :
       procs' = [procs EXCEPT ![p].out = Append(@, [id |-> procs[p].todo, ok |-> ok]),
                              ![p].todo = NoLine]
  /\ UNCHANGED <<gate, slot, at, mine, asked, ids, live, loading, reloading, token, cancel,
                 quit>>

Done(t) == Go(t, "idle") /\ Leave(t) /\ mine' = [mine EXCEPT ![t] = Nobody]

\* Every failure but an answered one leaves the worker dead, and it is reloaded
\* in the background, unless this was a load.
Lost(t) ==
  /\ Done(t) /\ Dropped(mine[t])
  /\ reloading' = IF t \in Speech THEN TRUE ELSE reloading /\ t # Reload
  /\ loading' = (IF t = Download THEN loading \ {mine[t]} ELSE loading)
  /\ UNCHANGED <<slot, asked, ids, token, cancel, quit>>

\* A line that says ok must say the request's id; any other failure is taken
\* for the request's.
Read(t) ==
  /\ at[t] = "wait" /\ procs[mine[t]].out # <<>>
  /\ LET line == Head(procs[mine[t]].out)
         p == mine[t]
     IN  IF line.ok /\ line.id # asked[t] THEN Lost(t)
         ELSE /\ Done(t)
              /\ IF t = Download \/ slot # Nobody
                 THEN Dropped(p) /\ loading' = loading \ {p} /\ UNCHANGED slot
                 ELSE /\ procs' = [procs EXCEPT ![p].out = Tail(@)] /\ slot' = p
                      /\ UNCHANGED <<live, loading>>
              /\ reloading' = (reloading /\ t # Reload)
              /\ UNCHANGED <<asked, ids, token, cancel, quit>>

\* The deadline has passed: the worker is wedged, and killed.
TimesOut(t) == at[t] = "wait" /\ procs[mine[t]].todo # NoLine /\ Lost(t)

Hangup(t) == at[t] = "wait" /\ ~ Alive(mine[t]) /\ procs[mine[t]].out = <<>> /\ Lost(t)

Crash(p) ==
  /\ Alive(p) /\ procs' = [procs EXCEPT ![p] = Dead(p)]
  /\ UNCHANGED <<gate, slot, at, mine, asked, ids, live, loading, reloading, token, cancel,
                 quit>>

-----------------------------------------------------------------------------
(* A download, its cancel, and the exit *)

Idle == UNCHANGED <<gate, slot, asked, ids, reloading, cancel, quit>>

Register ==
  /\ at[Download] = "started" /\ Go(Download, "check")
  /\ loading' = loading \cup {mine[Download]}
  /\ UNCHANGED <<procs, mine, live, token>> /\ Idle

\* Slip: only the registry stops a download.
AskAtOnce ==
  /\ at[Download] = "check" /\ Go(Download, "ask")
  /\ UNCHANGED <<procs, mine, live, loading, token>> /\ Idle

\* A cancel that came while the worker started found nothing to kill.
CheckToken ==
  /\ at[Download] = "check"
  /\ IF token
     THEN /\ Go(Download, "idle") /\ Dropped(mine[Download])
          /\ mine' = [mine EXCEPT ![Download] = Nobody]
          /\ loading' = loading \ {mine[Download]}
     ELSE Go(Download, "ask") /\ UNCHANGED <<procs, mine, live, loading>>
  /\ UNCHANGED token /\ Idle

\* cancel_model_download of the controller, then that of the workers.
CancelDownload ==
  /\ at[Download] # "idle" /\ cancel = "no" /\ token' = TRUE /\ cancel' = "token"
  /\ UNCHANGED <<gate, slot, procs, at, mine, asked, ids, live, loading, reloading, quit>>

Kill(ps) == procs' = [p \in Pids |-> IF p \in ps THEN Dead(p) ELSE procs[p]]

SweepDownload ==
  /\ cancel = "token" /\ cancel' = "swept" /\ Kill(loading) /\ loading' = {}
  /\ UNCHANGED <<gate, slot, at, mine, asked, ids, live, reloading, token, quit>>

\* The slot is left alone while a worker is being started for it.
QuitSlot ==
  /\ quit = "no" /\ quit' = "slot"
  /\ IF slot # Nobody /\ ~ SlotLocked
     THEN Dropped(slot) /\ slot' = Nobody ELSE UNCHANGED <<procs, live, slot>>
  /\ UNCHANGED <<gate, at, mine, asked, ids, loading, reloading, token, cancel>>

QuitSweep ==
  /\ quit = "slot" /\ quit' = "swept" /\ Kill(live) /\ live' = {}
  /\ UNCHANGED <<gate, slot, at, mine, asked, ids, loading, reloading, token, cancel>>

FwNext ==
  \/ \E t \in Threads :
       \/ Send(t) \/ Enter(t) \/ GiveUp(t) \/ GetReady(t)
       \/ Checkout(t) \/ Start(t) \/ Started(t) \/ StartFails(t)
       \/ Ask(t) \/ Read(t) \/ TimesOut(t) \/ Hangup(t)
  \/ \E p \in Pids : Answer(p) \/ Crash(p)
  \/ Register \/ CheckToken \/ CancelDownload \/ SweepDownload \/ QuitSlot \/ QuitSweep

FwSpec == FwInit /\ [][FwNext]_fwVars

-----------------------------------------------------------------------------

\* There is never a second copy of the model in memory: besides a download's own
\* worker at most one process lives, whoever asks, gives up, times out or makes
\* ready meanwhile (WORKER_REQUEST_GATE).
OneSharedWorker ==
  Cardinality({p \in Pids : Alive(p) /\ p # mine[Download]}) <= 1

\* Once a cancel has done its part the download does no more work, whenever it
\* came: its worker is dead, or has not been and will not be asked to download
\* (download_model, cancel_model_download).
CancelledDownloadStops ==
  cancel = "swept" /\ at[Download] \in {"ask", "wait"} => ~ Alive(mine[Download])
=============================================================================
