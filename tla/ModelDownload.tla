--------------------------- MODULE ModelDownload ---------------------------
(***************************************************************************)
(* Downloading, verifying and installing one speech model, as the          *)
(* controller and the model manager do it together.  A GGML model is       *)
(* streamed into a partial file that survives pauses, failures and         *)
(* restarts, and is renamed into place once its hash matches; a            *)
(* faster-whisper model is fetched by its own worker into a cache that the *)
(* manager adopts.  Requests are calls of download_model, Controls are     *)
(* calls of cancel, pause and remove; each may run beside the others, and  *)
(* gives way wherever the code awaits a lock.                              *)
(*                                                                         *)
(* A file is the sequence of its chunks, each good or not; the manager's   *)
(* two index files are written whole (AtomicFile) or fail to be.  Texts,   *)
(* percentages and the model's manifest, which never changes here, are     *)
(* left out.  Which model is active is SettingsStore's.                    *)
(***************************************************************************)
EXTENDS Naturals, Sequences

CONSTANTS
  Kinds,     \* the kinds of model looked at: a subset of {"ggml", "fw"}
  Requests,  \* calls of download_model
  Controls,  \* calls of cancel_model_download, pause_model_download, remove_model
  None,      \* nobody
  Size,      \* chunks of the model file
  Budget,    \* the length of RETRY_BACKOFF
  MaxCalls,  \* bound: calls of either sort
  MaxBoots   \* bound: runs of the app

ASSUME KindsAssumption == Kinds \subseteq {"ggml", "fw"}
ASSUME NamesAssumption == None \notin Requests \cup Controls /\ Requests \cap Controls = {}
ASSUME SizesAssumption == Size \in Nat \ {0} /\ Budget \in Nat /\ MaxCalls \in Nat /\ MaxBoots \in Nat

VARIABLES
  kind,       \* which kind of model this is; never changes
  partial,    \* the partial file: one BOOLEAN per chunk, good or not
  synced,     \* how many of its chunks are known to have reached the disk
  final,      \* the model file, or the snapshot: "none", "good", "bad"
  index,      \* models.json lists the model
  ckptDisk,   \* the model's row of model-downloads.json
  installed,  \* ModelManager.installed lists it
  ckpt,       \* its row of ModelManager.downloads
  mgr,        \* who holds the model_manager lock from one step to the next
  statuses,   \* its entry of model_statuses
  shown,      \* the last status event sent to the interface
  token,      \* whose entry of model_download_cancels it is, or None
  cancelled,  \* requests whose cancel token is cancelled
  pause,      \* its model_download_pauses flag
  pc,         \* pc[r]: where request r is
  bytes,      \* bytes[r]: downloaded_bytes of its plan
  from,       \* from[r]: resumed_from of the pass it is in
  row,        \* row[r]: failed_in_a_row
  furthest,   \* furthest[r]
  restarted,  \* restarted[r]: restarted_from_zero
  hash,       \* hash[r]: every chunk its hasher took was good
  end,        \* end[r]: how it ended
  poller,     \* requests whose progress poller runs
  ctl,        \* ctl[c]: where control c is
  seen,       \* seen[c]: the status it will store
  calls, boot,\* bounded counters
  torn        \* history: a removal failed half-way in this run of the app

disk == <<partial, synced, final, index, ckptDisk>>
manager == <<installed, ckpt, mgr>>
flags == <<token, cancelled, pause>>
plan == <<bytes, from, row, furthest, restarted, hash>>
status == <<statuses, shown>>
control == <<ctl, seen>>
vars == <<kind, disk, manager, status, flags, pc, plan, end, poller, control, calls, boot, torn>>

States == {"Idle", "Downloading", "Paused", "Cancelled", "Failed", "Installed"}
NoRow == [state |-> "none", bytes |-> 0]
Pcs == {"idle", "pauses", "begin", "pass", "transfer", "wait", "finish", "index", "row",
        "announce", "runtime", "prefetch", "join", "unregister", "install", "store"}
Ends == {"none", "Verified", "Installed", "Paused", "Cancelled", "Failed"}

Init ==
  /\ kind \in Kinds
  /\ partial = <<>> /\ synced = 0 /\ final = "none" /\ index = FALSE /\ ckptDisk = NoRow
  /\ installed = FALSE /\ ckpt = NoRow /\ mgr = None
  /\ statuses = "none" /\ shown = "none"
  /\ token = None /\ cancelled = {} /\ pause = FALSE
  /\ pc = [r \in Requests |-> "idle"] /\ end = [r \in Requests |-> "none"]
  /\ bytes = [r \in Requests |-> 0] /\ from = bytes /\ row = bytes /\ furthest = bytes
  /\ restarted = [r \in Requests |-> FALSE] /\ hash = [r \in Requests |-> TRUE]
  /\ poller = {}
  /\ ctl = [c \in Controls |-> "idle"] /\ seen = [c \in Controls |-> "none"]
  /\ calls = 0 /\ boot = 1 /\ torn = FALSE

Free == mgr = None
Goto(r, p) == pc' = [pc EXCEPT ![r] = p]
EndAs(r, e) == end' = [end EXCEPT ![r] = e]
AllGood(file) == \A i \in DOMAIN file : file[i]
Tell(s) == statuses' = s /\ shown' = s

\* A progress callback: try_lock may miss the map, the event always goes out.
Progress == shown' = "Downloading" /\ statuses' \in {statuses, "Downloading"}

\* persist_downloads and persist_installed keep the old file when they fail.
SaveRow(ok) == ckptDisk' = IF ok THEN ckpt' ELSE ckptDisk
SaveIndex(ok) == index' = IF ok THEN installed' ELSE index

-----------------------------------------------------------------------------
(* A request and its registration: one download of a model at a time. *)

\* download_model; a request that finds the model registered only reports.
Register(r) ==
  /\ calls < MaxCalls /\ pc[r] = "idle" /\ token = None
  /\ token' = r /\ cancelled' = cancelled \ {r} /\ calls' = calls + 1
  /\ Goto(r, IF kind = "ggml" THEN "pauses" ELSE "announce")
  /\ UNCHANGED <<kind, disk, manager, status, pause, plan, end, poller, control, boot, torn>>

\* resume_model_download clears the flag before it calls download_model.
Resume ==
  /\ calls < MaxCalls /\ kind = "ggml" /\ pause
  /\ pause' = FALSE
  /\ UNCHANGED <<kind, disk, manager, status, token, cancelled, pc, plan, end, poller, control,
                 calls, boot, torn>>

ResetPause(r) ==
  /\ pc[r] = "pauses" /\ pause' = FALSE /\ Goto(r, "begin")
  /\ UNCHANGED <<kind, disk, manager, status, token, cancelled, plan, end, poller, control,
                 calls, boot, torn>>

\* begin_download: what reached the disk is the resume point.  It may fail
\* before its checkpoint, or when the checkpoint cannot be saved.
Begin(r) ==
  /\ pc[r] = "begin" /\ Free
  /\ \/ /\ ckpt' = [state |-> "Downloading", bytes |-> Len(partial)] /\ SaveRow(TRUE)
        /\ bytes' = [bytes EXCEPT ![r] = Len(partial)]
        /\ furthest' = [furthest EXCEPT ![r] = Len(partial)]
        /\ Goto(r, "pass") /\ UNCHANGED end
     \/ /\ ckpt' \in {ckpt, [state |-> "Downloading", bytes |-> Len(partial)]}
        /\ EndAs(r, "Failed") /\ Goto(r, "unregister")
        /\ UNCHANGED <<ckptDisk, bytes, furthest>>
  /\ UNCHANGED <<kind, partial, synced, final, index, installed, mgr, status, flags, from, row,
                 restarted, hash, poller, control, calls, boot, torn>>

-----------------------------------------------------------------------------
(* The transfer: passes of fetch, retries, pauses and cancels. *)

StopRequested(r) == r \in cancelled \/ pause

\* The file is cut to the bytes of the plan, which are hashed again.
Kept(r) == SubSeq(partial, 1, bytes[r])

Cut(file) == partial' = file /\ synced' = IF synced > Len(file) THEN Len(file) ELSE synced

\* fetch, up to an open source that goes on where the file ends.
OpenPass(r) ==
  /\ pc[r] = "pass"
  /\ Cut(Kept(r))
  /\ from' = [from EXCEPT ![r] = bytes[r]] /\ hash' = [hash EXCEPT ![r] = AllGood(Kept(r))]
  /\ Goto(r, "transfer")
  /\ UNCHANGED <<kind, final, index, ckptDisk, manager, status, flags, bytes, row, furthest,
                 restarted, end, poller, control, calls, boot, torn>>

\* open_source: a server that ignores Range sends the file from its first byte.
IgnoreRange(r) ==
  /\ pc[r] = "pass" /\ bytes[r] \in 1 .. Size - 1
  /\ Cut(<<>>)
  /\ from' = [from EXCEPT ![r] = bytes[r]] /\ hash' = [hash EXCEPT ![r] = TRUE]
  /\ bytes' = [bytes EXCEPT ![r] = 0] /\ Goto(r, "transfer")
  /\ UNCHANGED <<kind, final, index, ckptDisk, manager, status, flags, row, furthest, restarted,
                 end, poller, control, calls, boot, torn>>

\* A write at the request's own place in the file; a hole is not good.
Chunk(r) ==
  /\ pc[r] = "transfer" /\ bytes[r] < Size /\ ~StopRequested(r)
  /\ \E good \in BOOLEAN :
       /\ LET last == IF Len(partial) > bytes[r] THEN Len(partial) ELSE bytes[r] + 1
          IN partial' = [i \in 1 .. last |-> IF i = bytes[r] + 1 THEN good
                                             ELSE i <= Len(partial) /\ partial[i]]
       /\ hash' = [hash EXCEPT ![r] = @ /\ good]
  /\ synced' = IF synced > bytes[r] THEN bytes[r] ELSE synced
  /\ bytes' = [bytes EXCEPT ![r] = @ + 1] /\ Progress
  /\ UNCHANGED <<kind, final, index, ckptDisk, manager, flags, pc, from, row, furthest,
                 restarted, end, poller, control, calls, boot, torn>>

\* stop_requested, asked before every chunk and all through a wait.
Stop(r) ==
  /\ \/ pc[r] = "transfer" /\ bytes[r] < Size
     \/ pc[r] = "wait"
  /\ StopRequested(r)
  /\ EndAs(r, IF r \in cancelled THEN "Cancelled" ELSE "Paused")
  /\ shown' = end'[r] /\ statuses' \in {statuses, end'[r]}
  /\ Goto(r, "finish")
  /\ UNCHANGED <<kind, disk, manager, flags, plan, poller, control, calls, boot, torn>>

\* failed_in_a_row: only passing the furthest byte so far refills the budget.
Row(r) == IF bytes[r] > furthest[r] THEN 0 ELSE row[r]

\* A transient error, of the request or of the body: again, while there is budget.
Interrupted(r) ==
  /\ pc[r] \in {"pass", "transfer"} /\ bytes[r] < Size
  /\ furthest' = [furthest EXCEPT ![r] = IF bytes[r] > @ THEN bytes[r] ELSE @]
  /\ IF Row(r) < Budget
     THEN /\ row' = [row EXCEPT ![r] = Row(r) + 1]
          /\ Goto(r, "wait") /\ Progress /\ UNCHANGED end
     ELSE EndAs(r, "Failed") /\ Goto(r, "finish") /\ UNCHANGED <<row, status>>
  /\ from' = [from EXCEPT ![r] = IF pc[r] = "pass" THEN bytes[r] ELSE @]
  /\ UNCHANGED <<kind, disk, manager, flags, bytes, restarted, hash, poller, control, calls,
                 boot, torn>>

WaitOver(r) ==
  /\ pc[r] = "wait" /\ ~StopRequested(r) /\ Goto(r, "pass")
  /\ UNCHANGED <<kind, disk, manager, status, flags, plan, end, poller, control, calls, boot, torn>>

\* Any other error: the file, the disk, a refusal of the server.
Broken(r) ==
  /\ pc[r] \in {"pass", "transfer"} /\ EndAs(r, "Failed") /\ Goto(r, "finish")
  /\ UNCHANGED <<kind, disk, manager, status, flags, plan, poller, control, calls, boot, torn>>

\* Slip: the file is verified and published without being flushed.
VerifyUnsynced(r) ==
  /\ pc[r] = "transfer" /\ bytes[r] = Size /\ hash[r]
  /\ EndAs(r, "Verified") /\ Goto(r, "finish")
  /\ UNCHANGED <<kind, disk, manager, status, flags, plan, poller, control, calls, boot, torn>>

\* sync_all, and the hash is the manifest's.
Verify(r) ==
  /\ pc[r] = "transfer" /\ bytes[r] = Size /\ hash[r]
  /\ synced' = Len(partial) /\ EndAs(r, "Verified") /\ Goto(r, "finish")
  /\ UNCHANGED <<kind, partial, final, index, ckptDisk, manager, status, flags, plan, poller,
                 control, calls, boot, torn>>

\* Resumed bytes that do not verify cost one restart; then they are quarantined.
Mismatch(r) ==
  /\ pc[r] = "transfer" /\ bytes[r] = Size /\ ~hash[r]
  /\ Cut(<<>>) /\ bytes' = [bytes EXCEPT ![r] = 0]
  /\ IF from[r] > 0 /\ ~restarted[r]
     THEN /\ restarted' = [restarted EXCEPT ![r] = TRUE]
          /\ furthest' = [furthest EXCEPT ![r] = 0]
          /\ Progress /\ Goto(r, "pass") /\ UNCHANGED end
     ELSE /\ EndAs(r, "Failed") /\ Goto(r, "finish")
          /\ UNCHANGED <<restarted, furthest, status>>
  /\ UNCHANGED <<kind, final, index, ckptDisk, manager, flags, from, row, hash, poller, control,
                 calls, boot, torn>>

-----------------------------------------------------------------------------
(* Recording the result, under the manager's lock. *)

\* finish_download consumes the plan.
DropPlan(r) ==
  /\ bytes' = [bytes EXCEPT ![r] = 0] /\ from' = [from EXCEPT ![r] = 0]
  /\ row' = [row EXCEPT ![r] = 0] /\ furthest' = [furthest EXCEPT ![r] = 0]
  /\ restarted' = [restarted EXCEPT ![r] = FALSE] /\ hash' = [hash EXCEPT ![r] = TRUE]

\* finish_download of a download that stopped or failed: its row is saved.
FinishStopped(r) ==
  /\ pc[r] = "finish" /\ Free /\ end[r] # "Verified"
  /\ ckpt' = [state |-> end[r], bytes |-> bytes[r]]
  /\ \E ok \in BOOLEAN : SaveRow(ok) /\ IF ok THEN UNCHANGED end ELSE EndAs(r, "Failed")
  /\ Goto(r, "unregister") /\ DropPlan(r)
  /\ UNCHANGED <<kind, partial, synced, final, index, installed, mgr, status, flags,
                 poller, control, calls, boot, torn>>

\* The move into place failed: the verified partial stays for the next try.
FinishUnmoved(r) ==
  /\ pc[r] = "finish" /\ Free /\ end[r] = "Verified"
  /\ ckpt' = [state |-> "Failed", bytes |-> bytes[r]]
  /\ \E ok \in BOOLEAN : SaveRow(ok)
  /\ EndAs(r, "Failed") /\ Goto(r, "unregister")
  /\ DropPlan(r)
  /\ UNCHANGED <<kind, partial, synced, final, index, installed, mgr, status, flags,
                 poller, control, calls, boot, torn>>

\* What power loss can spoil is a file not known to be on the disk.
Move(r) ==
  /\ pc[r] = "finish" /\ Free /\ end[r] = "Verified"
  /\ final' = IF AllGood(partial) /\ synced = Len(partial) THEN "good" ELSE "bad"
  /\ partial' = <<>> /\ synced' = 0
  /\ mgr' = r /\ Goto(r, "index") /\ DropPlan(r)
  /\ UNCHANGED <<kind, index, ckptDisk, installed, ckpt, status, flags, end, poller,
                 control, calls, boot, torn>>

List(r) ==
  /\ pc[r] = "index" /\ installed' = TRUE
  /\ \E ok \in BOOLEAN :
       /\ SaveIndex(ok)
       /\ IF ok THEN Goto(r, "row") /\ UNCHANGED <<mgr, end>>
                ELSE Goto(r, "unregister") /\ EndAs(r, "Failed") /\ mgr' = None
  /\ UNCHANGED <<kind, partial, synced, final, ckptDisk, ckpt, status, flags, plan, poller,
                 control, calls, boot, torn>>

DropRow(r) ==
  /\ pc[r] = "row" /\ ckpt' = NoRow
  /\ \E ok \in BOOLEAN :
       SaveRow(ok) /\ EndAs(r, IF ok THEN "Installed" ELSE "Failed")
  /\ mgr' = None /\ Goto(r, "unregister")
  /\ UNCHANGED <<kind, partial, synced, final, index, installed, status, flags, plan, poller,
                 control, calls, boot, torn>>

\* Every path out of download_model; the adoption of a snapshot comes after it.
Unregister(r) ==
  /\ pc[r] = "unregister" /\ token' = None
  /\ Goto(r, IF end[r] = "Verified" THEN "install" ELSE "store")
  /\ UNCHANGED <<kind, disk, manager, status, cancelled, pause, plan, end, poller, control, calls,
                 boot, torn>>

Store(r) ==
  /\ pc[r] = "store" /\ Tell(end[r]) /\ Goto(r, "idle")
  /\ cancelled' = cancelled \ {r} /\ end' = [end EXCEPT ![r] = "none"]
  /\ UNCHANGED <<kind, disk, manager, token, pause, plan, poller, control, calls, boot, torn>>

-----------------------------------------------------------------------------
(* The faster-whisper path: the worker downloads, a poller tells. *)

Announce(r) ==
  /\ pc[r] = "announce" /\ Tell("Downloading") /\ Goto(r, "runtime")
  /\ UNCHANGED <<kind, disk, manager, flags, plan, end, poller, control, calls, boot, torn>>

Given(r) == EndAs(r, IF r \in cancelled THEN "Cancelled" ELSE "Failed")

\* The runtime fails, or a cancel came while it was prepared.
NoPrefetch(r) ==
  /\ pc[r] = "runtime" /\ Given(r) /\ Goto(r, "unregister")
  /\ UNCHANGED <<kind, disk, manager, status, flags, plan, poller, control, calls, boot, torn>>

Prefetch(r) ==
  /\ pc[r] = "runtime" /\ r \notin cancelled
  /\ poller' = poller \cup {r} /\ Goto(r, "prefetch")
  /\ UNCHANGED <<kind, disk, manager, status, flags, plan, end, control, calls, boot, torn>>

\* The poller's tick: it sends events and stores nothing.
Poll(r) ==
  /\ r \in poller /\ shown' = "Downloading"
  /\ UNCHANGED <<kind, disk, manager, statuses, flags, pc, plan, end, poller, control, calls,
                 boot, torn>>

\* The download worker answers, after a load that need not prove every file;
\* a cancel kills it, if it comes in time.
PrefetchDone(r) ==
  /\ pc[r] = "prefetch" /\ final' \in {"good", IF final = "none" THEN "bad" ELSE final}
  /\ EndAs(r, "Verified") /\ Goto(r, "join")
  /\ UNCHANGED <<kind, partial, synced, index, ckptDisk, manager, status, flags, plan, poller,
                 control, calls, boot, torn>>

PrefetchFails(r) ==
  /\ pc[r] = "prefetch" /\ final' \in {final, IF final = "none" THEN "bad" ELSE final}
  /\ EndAs(r, "Failed") /\ Goto(r, "join")
  /\ UNCHANGED <<kind, partial, synced, index, ckptDisk, manager, status, flags, plan, poller,
                 control, calls, boot, torn>>

\* Slip: the poller is told to stop and not waited for.
LeavePoller(r) ==
  /\ pc[r] = "join"
  /\ IF end[r] = "Verified" THEN UNCHANGED end ELSE Given(r)
  /\ Goto(r, "unregister")
  /\ UNCHANGED <<kind, disk, manager, status, flags, plan, poller, control, calls, boot, torn>>

JoinPoller(r) ==
  /\ pc[r] = "join" /\ poller' = poller \ {r}
  /\ IF end[r] = "Verified" THEN UNCHANGED end ELSE Given(r)
  /\ Goto(r, "unregister")
  /\ UNCHANGED <<kind, disk, manager, status, flags, plan, control, calls, boot, torn>>

\* install_faster_whisper_model takes a complete snapshot only.
Install(r) ==
  /\ pc[r] = "install" /\ Free
  /\ installed' = (installed \/ final = "good")
  /\ \E ok \in BOOLEAN :
       /\ SaveIndex(ok /\ final = "good")
       /\ EndAs(r, IF ok /\ final = "good" THEN "Installed" ELSE "Failed")
  /\ Goto(r, "store")
  /\ UNCHANGED <<kind, partial, synced, final, ckptDisk, ckpt, mgr, status, flags, plan, poller,
                 control, calls, boot, torn>>

-----------------------------------------------------------------------------
(* Cancel, pause and remove. *)

At(c, p) == ctl' = [ctl EXCEPT ![c] = p]
Sees(c, s) == seen' = [seen EXCEPT ![c] = s]

\* get_download_status
Known == IF installed THEN "Installed"
         ELSE IF ckpt.state # "none" THEN ckpt.state ELSE "Idle"

\* cancel_model_download; the faster-whisper branch needs a token to do more
\* than report.
Cancel(c) ==
  /\ calls < MaxCalls /\ ctl[c] = "idle" /\ calls' = calls + 1
  /\ cancelled' = cancelled \cup ({token} \ {None})
  /\ IF kind = "ggml" THEN At(c, "unpause") /\ Sees(c, "Cancelled")
     ELSE IF token # None THEN At(c, "store") /\ Sees(c, "Cancelled")
     ELSE At(c, "read") /\ UNCHANGED seen
  /\ UNCHANGED <<kind, disk, manager, status, token, pause, pc, plan, end, poller, boot, torn>>

Unpause(c) ==
  /\ ctl[c] = "unpause" /\ pause' = FALSE /\ At(c, "read")
  /\ UNCHANGED <<kind, disk, manager, status, token, cancelled, pc, plan, end, poller, seen,
                 calls, boot, torn>>

\* pause_model_download
Pause(c) ==
  /\ calls < MaxCalls /\ ctl[c] = "idle" /\ calls' = calls + 1 /\ At(c, "read")
  /\ IF kind = "ggml" THEN pause' = TRUE /\ Sees(c, "Paused") ELSE UNCHANGED <<pause, seen>>
  /\ UNCHANGED <<kind, disk, manager, status, token, cancelled, pc, plan, end, poller, boot, torn>>

\* The manager's status; a GGML cancel or pause overwrites its state.
Read(c) ==
  /\ ctl[c] = "read" /\ Free /\ At(c, "store")
  /\ IF seen[c] = "none" THEN Sees(c, Known) ELSE UNCHANGED seen
  /\ UNCHANGED <<kind, disk, manager, status, flags, pc, plan, end, poller, calls, boot, torn>>

StoreSeen(c) ==
  /\ ctl[c] = "store" /\ Tell(seen[c]) /\ At(c, "idle") /\ Sees(c, "none")
  /\ UNCHANGED <<kind, disk, manager, flags, pc, plan, end, poller, calls, boot, torn>>

\* remove_model, offered for installed models; deleting a cache directory may
\* fail half-way, and then the model stays listed.
Remove(c) ==
  /\ calls < MaxCalls /\ ctl[c] = "idle" /\ installed /\ Free /\ calls' = calls + 1
  /\ \/ final' = "none" /\ mgr' = c /\ At(c, "unlist") /\ UNCHANGED torn
     \/ /\ final' \in {final} \cup (IF kind = "fw" THEN {"bad"} ELSE {})
        /\ torn' = (torn \/ final' # final)
        /\ UNCHANGED <<mgr, ctl>>
  /\ UNCHANGED <<kind, partial, synced, index, ckptDisk, installed, ckpt, status, flags, pc, plan,
                 end, poller, seen, boot>>

Unlist(c) ==
  /\ ctl[c] = "unlist" /\ installed' = FALSE /\ mgr' = None /\ At(c, "idle")
  /\ \E ok \in BOOLEAN :
       /\ SaveIndex(ok)
       /\ IF ok THEN /\ statuses' = "none"
                     /\ shown' = IF ckpt.state # "none" THEN ckpt.state ELSE "Idle"
                ELSE UNCHANGED status
  /\ UNCHANGED <<kind, partial, synced, final, ckptDisk, ckpt, flags, pc, plan, end, poller, seen,
                 calls, boot, torn>>

-----------------------------------------------------------------------------
(* The app ends at any moment, losing power or not, and starts again. *)

\* What was not synced may be zeros after a power loss.
After(zeroed) == [i \in DOMAIN partial |-> partial[i] /\ ~(zeroed /\ i > synced)]

\* load_installed, reconcile_installed: a listed model needs its file, a
\* snapshot all of its files.
Reconciled == index /\ final # "none" /\ (kind = "fw" => final = "good")

\* reconcile_downloads_after_restart
RestoredRow ==
  IF ckptDisk.state = "none" THEN NoRow
  ELSE IF partial = <<>> /\ ckptDisk.bytes > 0 THEN [state |-> "Idle", bytes |-> 0]
  ELSE [state |-> IF ckptDisk.state = "Downloading" THEN "Paused" ELSE ckptDisk.state,
        bytes |-> Len(partial)]

Restart ==
  /\ boot < MaxBoots /\ boot' = boot + 1
  /\ \E zeroed \in BOOLEAN : partial' = After(zeroed)
  /\ synced' = Len(partial)
  /\ installed' = Reconciled /\ index' = Reconciled
  /\ ckpt' = RestoredRow /\ ckptDisk' = RestoredRow
  /\ mgr' = None /\ statuses' = "none" /\ shown' = "none"
  /\ token' = None /\ cancelled' = {} /\ pause' = FALSE
  /\ pc' = [r \in Requests |-> "idle"] /\ end' = [r \in Requests |-> "none"]
  /\ bytes' = [r \in Requests |-> 0] /\ from' = bytes' /\ row' = bytes' /\ furthest' = bytes'
  /\ restarted' = [r \in Requests |-> FALSE] /\ hash' = [r \in Requests |-> TRUE]
  /\ poller' = {}
  /\ ctl' = [c \in Controls |-> "idle"] /\ seen' = [c \in Controls |-> "none"]
  /\ torn' = FALSE
  /\ UNCHANGED <<kind, final, calls>>

Transfer(r) ==
  \/ ResetPause(r) \/ Begin(r) \/ OpenPass(r) \/ IgnoreRange(r) \/ Chunk(r) \/ Stop(r)
  \/ Interrupted(r) \/ WaitOver(r) \/ Broken(r) \/ Verify(r) \/ Mismatch(r)
  \/ FinishStopped(r) \/ FinishUnmoved(r) \/ Move(r) \/ List(r) \/ DropRow(r)
  \/ Announce(r) \/ NoPrefetch(r) \/ Prefetch(r) \/ PrefetchDone(r) \/ PrefetchFails(r)
  \/ JoinPoller(r) \/ Unregister(r) \/ Install(r) \/ Store(r)

Answer(c) == Unpause(c) \/ Read(c) \/ StoreSeen(c) \/ Unlist(c)

Next ==
  \/ \E r \in Requests : Register(r) \/ Transfer(r) \/ Poll(r)
  \/ \E c \in Controls : Cancel(c) \/ Pause(c) \/ Remove(c) \/ Answer(c)
  \/ Resume \/ Restart

Spec == Init /\ [][Next]_vars

-----------------------------------------------------------------------------

\* Only a verified artifact is ever moved into place (finish_download), whatever
\* was resumed, retried, restarted or lost with the power, and however many
\* requests asked for it; and a listed model of either kind can be loaded,
\* unless a removal of it failed half-way: the order of the renames, deletes and
\* saves, and what a restart makes of them (ModelManager::load).
PlacedModelsAreWhole ==
  /\ kind = "ggml" => final # "bad"
  /\ installed /\ Free /\ ~torn => final = "good"

\* No frozen bar: neither model_statuses nor, for a faster-whisper model, the
\* last event sent says "downloading" when no request is at work, whatever
\* failed half-way and however late the progress poller ticks.
NoFrozenBar ==
  (statuses = "Downloading" \/ (kind = "fw" /\ shown = "Downloading"))
    => \E r \in Requests : pc[r] # "idle"

=============================================================================
