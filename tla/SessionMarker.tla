--------------------------- MODULE SessionMarker ---------------------------
(***************************************************************************)
(* session.rs: the file that tells the next start how this run ended.      *)
(* The heartbeat thread, the updater's commands, the panic hook and the    *)
(* exit all come to it, over two locks: STATE for what the run is, held    *)
(* within single steps here, and WRITE around each write and the delete.   *)
(* The file itself changes in one step (StoreCell); a failed save leaves   *)
(* it as it was and is not modelled.                                       *)
(***************************************************************************)
EXTENDS Naturals

CONSTANTS
  NoFile,   \* session.json is absent
  MaxRuns   \* bound on runs of the app

\* What session.json may hold.
Marks == [phase : {"Startup", "Idle", "Dictating", "Updating"}, panicked : BOOLEAN,
          boot : Nat, version : Nat]

ASSUME NoFileAssumption == NoFile \notin Marks

VARIABLES
  file,     \* session.json
  state,    \* STATE: this run's file in memory, and closed
  write,    \* holder of WRITE, or "free"
  mpc,      \* where each thread is
  copy,     \* what each thread is about to save
  boot,     \* boot time of Windows
  version,  \* the installed version
  verdict,  \* PREVIOUS: how this start says the previous run ended
  ended,    \* (history) how it did
  update,   \* (history) whether the exit kept the file, or met a mark
  runs      \* runs so far

markerVars == <<file, state, write, mpc, copy, boot, version, verdict, ended, update, runs>>

Threads == {"heartbeat", "updater", "hook", "exit"}
\* classify, in the order of its table.
Classify(f, b, v) ==
  CASE f = NoFile -> "none"
    [] f # NoFile /\ f.phase = "Updating" -> IF f.version < v THEN "update" ELSE "clean"
    [] f # NoFile /\ f.phase # "Updating" /\ f.panicked -> "afterPanic"
    [] OTHER -> IF f.boot # b THEN "systemRestart" ELSE "crash"

Fresh(b, v) == [phase |-> "Startup", panicked |-> FALSE, boot |-> b, version |-> v]

\* start_at: reads what the previous run left, then writes this run's file
\* before any thread or command can.
Start(b, v) ==
  /\ boot' = b /\ version' = v
  /\ verdict' = Classify(file, b, v)
  /\ file' = Fresh(b, v)
  /\ state' = [file |-> file', closed |-> FALSE]
  /\ write' = "free" /\ mpc' = [t \in Threads |-> "idle"]
  /\ copy' = [t \in Threads |-> NoFile] /\ update' = "no"

MarkerInit ==
  /\ boot = 1 /\ version = 1 /\ runs = 1
  /\ verdict = "none" /\ ended = [how |-> "clean", panicked |-> FALSE, update |-> "no"]
  /\ update = "no"
  /\ file = Fresh(1, 1) /\ state = [file |-> file, closed |-> FALSE]
  /\ write = "free" /\ mpc = [t \in Threads |-> "idle"] /\ copy = [t \in Threads |-> NoFile]

Step(t, from, to) == mpc[t] = from /\ mpc' = [mpc EXCEPT ![t] = to]
world == <<boot, version, verdict, ended, update, runs>>

SetPhase(p) ==
  /\ ~ state.closed /\ state.file.phase \notin {p, "Updating"}
  /\ state' = [state EXCEPT !.file.phase = p]
  /\ UNCHANGED <<file, write, mpc, copy, world>>

-----------------------------------------------------------------------------
(* write_now: WRITE, then a look at STATE, then the save. *)

\* The heartbeat's timer, or a phase change, wakes it.
Beat ==
  /\ Step("heartbeat", "idle", IF state.closed THEN "gone" ELSE "lock")
  /\ UNCHANGED <<file, state, write, copy, world>>

\* mark_update_installing
MarkUpdate ==
  /\ Step("updater", "idle", "lock")
  /\ state' = [state EXCEPT !.file.phase = "Updating"]
  /\ UNCHANGED <<file, write, copy, world>>

\* clear_update_installing: the installer did not start.
ClearUpdate ==
  /\ Step("updater", "idle", "lock") /\ state.file.phase = "Updating"
  /\ state' = [state EXCEPT !.file.phase = "Idle"]
  /\ UNCHANGED <<file, write, copy, world>>

Lock(t) ==
  /\ Step(t, "lock", "copy") /\ write = "free" /\ write' = t
  /\ UNCHANGED <<file, state, copy, world>>

\* Slip: the file is saved without another look at closed.
CopyAnyway(t) ==
  /\ Step(t, "copy", "save") /\ t \in {"heartbeat", "updater"}
  /\ copy' = [copy EXCEPT ![t] = state.file] /\ UNCHANGED write
  /\ UNCHANGED <<file, state, world>>

\* A run that has closed writes no more.
Copy(t) ==
  /\ t \in {"heartbeat", "updater"}
  /\ IF state.closed THEN Step(t, "copy", "idle") /\ write' = "free" /\ UNCHANGED copy
     ELSE /\ Step(t, "copy", "save")
          /\ copy' = [copy EXCEPT ![t] = state.file] /\ UNCHANGED write
  /\ UNCHANGED <<file, state, world>>

Save(t) ==
  /\ Step(t, "save", "idle") /\ file' = copy[t] /\ write' = "free"
  /\ copy' = [copy EXCEPT ![t] = NoFile]
  /\ UNCHANGED <<state, world>>

\* A panic of any thread; the hook gives up where WRITE stays taken.
Panic ==
  /\ Step("hook", "idle", "lock")
  /\ UNCHANGED <<file, state, write, copy, world>>

HookGivesUp ==
  /\ Step("hook", "lock", "idle") /\ write # "free"
  /\ UNCHANGED <<file, state, write, copy, world>>

MarkPanicked ==
  /\ IF state.closed \/ state.file.panicked
     THEN Step("hook", "copy", "idle") /\ write' = "free" /\ UNCHANGED <<state, copy>>
     ELSE /\ Step("hook", "copy", "save")
          /\ state' = [state EXCEPT !.file.panicked = TRUE]
          /\ copy' = [copy EXCEPT !["hook"] = state'.file] /\ UNCHANGED write
  /\ UNCHANGED <<file, world>>

\* (history)
UpdateNow == IF mpc["updater"] # "idle" THEN "met"
             ELSE IF state.file.phase = "Updating" THEN "kept" ELSE "no"

\* clear: closed first, then the delete; while an update installs it stays.
Close ==
  /\ Step("exit", "idle", IF state.file.phase = "Updating" THEN "over" ELSE "lock")
  /\ state' = [state EXCEPT !.closed = TRUE]
  /\ update' = UpdateNow
  /\ UNCHANGED <<file, write, copy, boot, version, verdict, ended, runs>>

Delete ==
  /\ Step("exit", "copy", "over") /\ file' = NoFile /\ write' = "free"
  /\ UNCHANGED <<state, copy, world>>

-----------------------------------------------------------------------------
(* The end of the process, and the next start. *)

EndsAs(how, b, v) ==
  /\ runs < MaxRuns /\ runs' = runs + 1
  /\ ended' = [how |-> how, panicked |-> state.file.panicked,
               update |-> IF mpc["exit"] # "idle" THEN update ELSE UpdateNow]
  /\ Start(b, v)

Exited == mpc["exit"] = "over" /\ EndsAs("clean", boot, version)

Killed == mpc["exit"] # "over" /\ EndsAs("killed", boot, version)

PowerCut == EndsAs("restart", boot + 1, version)

\* The installer starts once the command has returned, and ends the process.
Installed ==
  /\ mpc["updater"] = "idle" /\ state.file.phase = "Updating" /\ ~ state.closed
  /\ EndsAs("update", boot, version + 1)

MarkerNext ==
  \/ \E p \in {"Idle", "Dictating"} : SetPhase(p)
  \/ Beat \/ MarkUpdate \/ ClearUpdate \/ Panic \/ HookGivesUp \/ MarkPanicked \/ Close \/ Delete
  \/ \E t \in Threads : Lock(t) \/ Copy(t) \/ Save(t)
  \/ Exited \/ Killed \/ PowerCut \/ Installed

MarkerSpec == MarkerInit /\ [][MarkerNext]_markerVars

-----------------------------------------------------------------------------

\* What a start says of the run before it is true, whatever was being written
\* when that run ended: no write brings the file back after a clean exit, no run
\* cut short passes for a clean one unless an update was installing, and an
\* update that landed is seen.  The one lie: an exit that meets the update being
\* marked keeps a file that does not say so yet.
VerdictIsTrue ==
  /\ ended.how = "clean" =>
       CASE ended.update = "no" -> verdict = "none"
         [] ended.update = "kept" -> verdict = "clean"
         [] ended.update = "met" -> TRUE
  /\ ended.how = "killed" => \/ verdict \in {"crash", "afterPanic"}
                             \/ ended.update # "no" /\ verdict = "clean"
  /\ ended.how = "update" => verdict = "update"
  /\ verdict = "afterPanic" => ended.panicked
  /\ verdict = "systemRestart" => ended.how = "restart"

=============================================================================
