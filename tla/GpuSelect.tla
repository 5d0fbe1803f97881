------------------------------ MODULE GpuSelect ------------------------------
(***************************************************************************)
(* The graphics card's file (inference/gpu_select.rs) and those who read   *)
(* and write it: the choice of a card, the records of the checks that a    *)
(* model passes before it runs there, the failures that disable a driver,  *)
(* the upgrade that a user of an earlier version accepted, and the status  *)
(* that the window shows (state/gpu_engine.rs).  SpeechEngine has the      *)
(* check and the decodes themselves; here a check is its start, its record *)
(* and its end.  The processor model is FwModel; the others run on cards.  *)
(***************************************************************************)
EXTENDS Naturals, Sequences, FiniteSets

CONSTANTS
  Cards, Kind, Memory,  \* the cards, their types and their memory in steps of SMALL_VRAM_BYTES
  Models, FwModel,
  Accepted,     \* the upgrade that the file of the first start may have
  Preference,   \* VOICEWAVE_ASR_DEVICE: "", "cpu" or "gpu"
  Callers,      \* those who ask for finish_gpu_upgrade
  MaxRecords,   \* MAX_QUALIFICATION_RECORDS
  MaxRetries,   \* QUALIFY_MAX_RETRIES
  Ttl,          \* DRIVER_DISABLE_TTL_MS, in days
  MaxBoots, LastDay, MaxChanges,  \* bounds on starts, days, and changes of the machine
  None

ASSUME RetryAssumption == {MaxRecords, MaxRetries, Ttl} \subseteq Nat \ {0}

Dictation == "dictation"     \* the check that a dictation or a start asks for

\* The keys of the checks' records: qualification_key.
Keys == [card : Cards, driver : Nat, build : Nat, model : Models]

ASSUME NameAssumption == Dictation \notin Callers /\ None \notin Keys \cup Models

Checkers == Callers \cup {Dictation}

VARIABLES
  mem, disk,    \* EngineStore, in memory and in its file
  profile,      \* PROFILE: None, or the card and the driver it found
  plugged, driver, build,   \* the machine: the cards in it, their drivers, the app's version
  day, boot, changes,
  active,       \* settings.active_model
  enabled,      \* settings.gpu_acceleration
  installed,    \* models whose file is there
  qualifying,   \* SESSION.qualifying
  retryNext,    \* SESSION.retry_next_session
  cooldown,     \* SESSION.gpu_cooldown_until
  task,         \* where each checker is, the model it checks and what it found
  removing,     \* the model whose removal passed its guard, or None
  view, offer,  \* what speech_engine_status has read, and what it said
  checked,      \* (history) keys a check was recorded for
  cooled,       \* (history) the cooldowns: start, day and driver
  ended         \* (history) why the accepted upgrade may be over

machine == <<plugged, driver, build, day, boot, changes>>
session == <<profile, qualifying, retryNext, cooldown>>
files == <<active, enabled, installed>>
tasks == <<task, removing>>
status == <<view, offer>>
ghosts == <<checked, cooled, ended>>
gpuVars == <<mem, disk, machine, session, files, tasks, status, ghosts>>

NoStore == [chosen |-> None, quals |-> <<>>, failures |-> {}, disables |-> {}, pending |-> None]
NoView ==
  [at |-> "idle", model |-> None, gpu |-> FALSE, pending |-> None, latest |-> None,
   preparing |-> FALSE, rung |-> "cpu"]
NoCard == [card |-> None, driver |-> 0]
Resting == [at |-> "idle", model |-> None, found |-> None]
NoTasks == [c \in Checkers |-> Resting]

GpuInit ==
  /\ mem \in {NoStore, [NoStore EXCEPT !.pending = Accepted]} /\ disk = mem /\ profile = None
  /\ plugged \in SUBSET Cards /\ driver = [c \in Cards |-> 1] /\ build = 1
  /\ day = 1 /\ boot = 1 /\ changes = 0
  /\ active \in Models \ {mem.pending} /\ enabled = TRUE /\ installed \in SUBSET Models
  /\ qualifying = None /\ retryNext = {} /\ cooldown = FALSE
  /\ task = NoTasks /\ removing = None /\ view = NoView /\ offer = None
  /\ checked = {} /\ cooled = {}
  /\ ended = IF mem.pending = None THEN {"none"} ELSE {}

\* update_store: a write that fails is only logged.
Update(store) == mem' = store /\ disk' \in {store, disk}

-----------------------------------------------------------------------------
(* The card *)

\* from_report keeps what is discrete or integrated.
Candidates ==
  {c \in plugged :
     /\ Kind[c] \in {"discrete", "integrated"}
     /\ (Kind[c] = "discrete" /\ Memory[c] >= 1) \/ Preference = "gpu"}

Better(c, d) ==
  \/ Kind[c] = "discrete" /\ Kind[d] # "discrete"
  \/ Kind[c] = Kind[d] /\ Memory[c] > Memory[d]

Best == {c \in Candidates : \A d \in Candidates : ~ Better(d, c)}

\* detect_profile and pick_gpu, once in a session.  The worker may not be able
\* to list the cards.
Detect ==
  /\ profile = None
  /\ \/ profile' = NoCard /\ UNCHANGED <<mem, disk>>
     \/ /\ Preference # "cpu"
        /\ \E c \in IF mem.chosen \in Candidates THEN {mem.chosen} ELSE Best :
             /\ profile' = [card |-> c, driver |-> driver[c]]
             /\ IF mem.chosen = c THEN UNCHANGED <<mem, disk>>
                ELSE Update([mem EXCEPT !.chosen = c])
  /\ UNCHANGED <<machine, qualifying, retryNext, cooldown, files, tasks, status, ghosts>>

Carded == profile # None /\ profile.card # None
DriverKey == profile

\* qualification_key
Key(m) == [card |-> profile.card, driver |-> profile.driver, build |-> build, model |-> m]

-----------------------------------------------------------------------------
(* The file *)

RecordsOf(k) == {i \in DOMAIN mem.quals : mem.quals[i].key = k}

\* The outcome of the last of these records.
LastOutcome(records) ==
  LET newest == {i \in records : \A j \in records : j <= i} IN
    IF newest = {} THEN None ELSE mem.quals[CHOOSE i \in newest : TRUE].outcome

\* cached_qualification
Cached(k) == LastOutcome({i \in RecordsOf(k) : mem.quals[i].outcome # "retry"})

\* latest_qualification
Latest(k) == LastOutcome(RecordsOf(k))

\* consecutive_retries
RetriesOf(k) ==
  LET since == {i \in RecordsOf(k) :
                  \A j \in RecordsOf(k) : i <= j => mem.quals[j].outcome = "retry"}
  IN Cardinality({i \in since : mem.quals[i].counted})

\* The outcome that qualify records for a verdict.
OutcomeOf(k, verdict) ==
  CASE verdict = "retry" /\ RetriesOf(k) + 1 >= MaxRetries -> "failed"
    [] verdict = "inconclusive" -> "retry"
    [] OTHER -> verdict

\* record_qualification: the oldest records go.
Recorded(quals, r) ==
  LET all == Append(quals, r) IN
    IF Len(all) > MaxRecords THEN Tail(all) ELSE all

Old(d) == day - d >= Ttl

\* driver_disabled
DriverDisabled ==
  \E d \in mem.disables : d.key = DriverKey /\ ~ Old(d.day) /\ d.build = build

\* Slip: every cooldown counts, of the same start too.
StruckEach ==
  LET fresh == {f \in mem.failures : ~ Old(f.day)}
      ours == {f \in fresh : f.key = DriverKey}
  IN IF ours # {}
     THEN [mem EXCEPT !.failures = fresh \ ours,
             !.disables = {d \in @ : d.key # DriverKey}
                          \cup {[key |-> DriverKey, day |-> day, build |-> build]}]
     ELSE [mem EXCEPT !.failures = fresh \cup {[key |-> DriverKey, boot |-> boot, day |-> day]}]

\* record_backend_failure: once for each start and driver.
Struck ==
  LET fresh == {f \in mem.failures : ~ Old(f.day)}
      ours == {f \in fresh : f.key = DriverKey}
      struck == IF \E f \in ours : f.boot = boot THEN ours
                ELSE ours \cup {[key |-> DriverKey, boot |-> boot, day |-> day]}
  IN IF Cardinality(struck) >= 2
     THEN [mem EXCEPT !.failures = fresh \ ours,
             !.disables = {d \in @ : d.key # DriverKey}
                          \cup {[key |-> DriverKey, day |-> day, build |-> build]}]
     ELSE [mem EXCEPT !.failures = fresh \cup struck]

\* primary_rung_blocking
Rung(m) ==
  IF enabled /\ Carded /\ ~ cooldown /\ ~ DriverDisabled /\ qualifying # Key(m)
     /\ Key(m) \notin retryNext /\ Cached(Key(m)) = "passed"
  THEN "gpu" ELSE "cpu"

\* note_gpu_fault: the session's second fault in a row.
GpuFails ==
  /\ active # FwModel /\ Carded /\ Rung(active) = "gpu"
  /\ cooldown' = TRUE /\ Update(Struck)
  /\ cooled' = cooled \cup {[key |-> DriverKey, boot |-> boot, day |-> day]}
  /\ UNCHANGED <<machine, profile, qualifying, retryNext, files, tasks, status, checked, ended>>

\* GPU_COOLDOWN
Cools ==
  /\ cooldown /\ cooldown' = FALSE
  /\ UNCHANGED <<mem, disk, machine, profile, qualifying, retryNext, files, tasks, status, ghosts>>

-----------------------------------------------------------------------------
(* The checks and the upgrade *)

Stands(c, s) == task[c].at = s
Queue(c, m) == task' = [task EXCEPT ![c] = [Resting EXCEPT !.at = "ask", !.model = m]]
Goto(c, s) ==
  task' = [task EXCEPT ![c] = IF s = "idle" THEN Resting ELSE [@ EXCEPT !.at = s, !.found = None]]

\* Slip: an upgrade gives up after a check that ended in nothing.
AfterAnyCheck(c, result) ==
  IF c \notin Callers THEN "idle" ELSE IF result = "passed" THEN "switch" ELSE "clear"

\* What follows the answer of a check: an upgrade switches, gives up or waits.
After(c, result) ==
  CASE c \in Callers /\ result = "passed" -> "switch"
    [] c \in Callers /\ result = "failed" -> "clear"
    [] OTHER -> "idle"

\* A dictation with a model that was not checked, or a start that warms it up.
WantsCheck ==
  /\ Carded /\ enabled /\ Stands(Dictation, "idle") /\ active # FwModel /\ active \in installed
  /\ Cached(Key(active)) = None /\ ~ DriverDisabled /\ ~ cooldown
  /\ Queue(Dictation, active)
  /\ UNCHANGED <<mem, disk, machine, session, files, removing, status, ghosts>>

\* finish_gpu_upgrade, up to its check.
FinishUpgrade(c) ==
  /\ profile # None /\ Stands(c, "idle") /\ mem.pending # None
  /\ \/ /\ active = mem.pending /\ Update([mem EXCEPT !.pending = None])
        /\ UNCHANGED task
     \/ /\ active # mem.pending /\ mem.pending \in installed
        /\ Queue(c, mem.pending)
        /\ UNCHANGED <<mem, disk>>
  /\ UNCHANGED <<machine, session, files, removing, status, ghosts>>

\* qualify, up to the mark.
BeginCheck(c) ==
  /\ Stands(c, "ask")
  /\ LET k == Key(task[c].model) IN
       IF ~ enabled \/ ~ Carded THEN Goto(c, "idle") /\ UNCHANGED qualifying
       ELSE IF Cached(k) # None THEN Goto(c, After(c, Cached(k))) /\ UNCHANGED qualifying
       ELSE IF qualifying # None \/ k \in retryNext
            THEN Goto(c, "idle") /\ UNCHANGED qualifying
       ELSE qualifying' = k /\ Goto(c, "check")
  /\ UNCHANGED <<mem, disk, machine, profile, retryNext, cooldown, files, removing,
                 status, ghosts>>

\* The check is over: its record, before anyone is told.
RecordCheck(c) ==
  /\ Stands(c, "check")
  /\ \E verdict \in {"passed", "failed", "retry", "inconclusive"} :
       LET told == OutcomeOf(qualifying, verdict) IN
         /\ Update([mem EXCEPT !.quals =
              Recorded(@, [key |-> qualifying, outcome |-> told,
                           counted |-> told = "retry" /\ verdict = "retry"])])
         /\ task' = [task EXCEPT ![c].at = "noted", ![c].found = told]
         /\ ended' = IF told = "failed" /\ task[c].model = Accepted
                     THEN ended \cup {"failed"} ELSE ended
  /\ checked' = checked \cup {qualifying}
  /\ UNCHANGED <<machine, session, files, removing, status, cooled>>

EndCheck(c) ==
  /\ Stands(c, "noted")
  /\ qualifying' = None
  /\ retryNext' = IF task[c].found = "retry" THEN retryNext \cup {qualifying} ELSE retryNext
  /\ Goto(c, After(c, task[c].found))
  /\ UNCHANGED <<mem, disk, machine, profile, cooldown, files, removing, status,
                 ghosts>>

\* The settings have the upgrade first: a save that fails leaves it for the next start.
Switch(c) ==
  /\ Stands(c, "switch")
  /\ \/ /\ active' = task[c].model /\ Goto(c, "clear")
        /\ ended' = IF task[c].model = Accepted THEN ended \cup {"chosen"} ELSE ended
     \/ Goto(c, "idle") /\ UNCHANGED <<active, ended>>
  /\ UNCHANGED <<mem, disk, machine, session, enabled, installed, removing, status,
                 checked, cooled>>

\* clear_pending_upgrade
Clear(c) ==
  /\ Stands(c, "clear") /\ Update([mem EXCEPT !.pending = None]) /\ Goto(c, "idle")
  /\ UNCHANGED <<machine, session, files, removing, status, ghosts>>

-----------------------------------------------------------------------------
(* The user *)

\* set_active_model
Choose(m) ==
  /\ active # m /\ active' = m
  /\ ended' = IF m = Accepted THEN ended \cup {"chosen"} ELSE ended
  /\ UNCHANGED <<mem, disk, machine, session, enabled, installed, tasks, status, checked, cooled>>

SetGpu ==
  /\ enabled' = ~ enabled
  /\ UNCHANGED <<mem, disk, machine, session, active, installed, tasks, status, ghosts>>

\* remove_model: the guard and the rest are two steps.
BeginRemove(m) ==
  /\ removing = None /\ active # m /\ m \in installed /\ removing' = m
  /\ UNCHANGED <<mem, disk, machine, session, files, task, status, ghosts>>

EndRemove ==
  /\ removing # None /\ removing' = None
  /\ installed' = installed \ {removing}
  /\ IF mem.pending = removing THEN Update([mem EXCEPT !.pending = None]) ELSE UNCHANGED <<mem, disk>>
  /\ ended' = IF removing = Accepted THEN ended \cup {"removed"} ELSE ended
  /\ UNCHANGED <<machine, session, active, enabled, task, status, checked, cooled>>

Install(m) ==
  /\ m \notin installed /\ installed' = installed \cup {m}
  /\ UNCHANGED <<mem, disk, machine, session, active, enabled, tasks, status, ghosts>>

-----------------------------------------------------------------------------
(* speech_engine_status, for a model that runs on cards *)

ReadSettings ==
  /\ view.at = "idle" /\ profile # None /\ active # FwModel /\ active \in installed
  /\ view' = [NoView EXCEPT !.at = "latest", !.model = active, !.gpu = enabled,
                !.pending = IF mem.pending \in installed THEN mem.pending ELSE None]
  /\ UNCHANGED <<mem, disk, machine, session, files, tasks, offer, ghosts>>

\* engine_view: the newest record, the check under way and the rung, one after another.
ReadRecord ==
  /\ view.at = "latest"
  /\ view' = [view EXCEPT !.at = "mark",
                           !.latest = IF Carded THEN Latest(Key(view.model)) ELSE None]
  /\ UNCHANGED <<mem, disk, machine, session, files, tasks, offer, ghosts>>

Marked(m) == Carded /\ qualifying = Key(m)

ReadMark ==
  /\ view.at = "mark"
  /\ view' = [view EXCEPT !.at = "rung", !.preparing = Marked(view.model)]
  /\ UNCHANGED <<mem, disk, machine, session, files, tasks, offer, ghosts>>

\* The rung, and the mark of the accepted upgrade.
ReadRung ==
  /\ view.at = "rung"
  /\ view' = [view EXCEPT !.at = "tell", !.rung = Rung(view.model),
                !.preparing = @ \/ (view.pending # None /\ Marked(view.pending))]
  /\ UNCHANGED <<mem, disk, machine, session, files, tasks, offer, ghosts>>

\* Slip: a check that is due counts as nothing under way.
TellAtOnce ==
  /\ view.at = "tell"
  /\ offer' = IF ~ view.preparing /\ view.rung = "cpu" /\ FwModel \notin installed
              THEN [key |-> IF Carded THEN Key(view.model) ELSE None,
                    gpu |-> view.gpu, disabled |-> Carded /\ DriverDisabled]
              ELSE None
  /\ view' = NoView
  /\ UNCHANGED <<mem, disk, machine, session, files, tasks, ghosts>>

\* The processor model is offered to who is stuck on the processor without it.
TellStatus ==
  /\ view.at = "tell"
  /\ LET due == view.gpu /\ Carded /\ ~ DriverDisabled /\ view.latest = None
         stuck == ~ view.preparing /\ ~ due /\ view.rung = "cpu"
     IN offer' = IF stuck /\ FwModel \notin installed
                 THEN [key |-> IF Carded THEN Key(view.model) ELSE None,
                       gpu |-> view.gpu, disabled |-> Carded /\ DriverDisabled]
                 ELSE None
  /\ view' = NoView
  /\ UNCHANGED <<mem, disk, machine, session, files, tasks, ghosts>>

-----------------------------------------------------------------------------
(* The machine *)

Changes == changes < MaxChanges /\ changes' = changes + 1

Plug(c) ==
  /\ Changes /\ plugged' = IF c \in plugged THEN plugged \ {c} ELSE plugged \cup {c}
  /\ UNCHANGED <<mem, disk, driver, build, day, boot, session, files, tasks, status, ghosts>>

UpdateDriver(c) ==
  /\ Changes /\ c \in plugged /\ driver' = [driver EXCEPT ![c] = @ + 1]
  /\ UNCHANGED <<mem, disk, plugged, build, day, boot, session, files, tasks, status, ghosts>>

Tick ==
  /\ day < LastDay /\ day' = day + 1
  /\ UNCHANGED <<mem, disk, plugged, driver, build, boot, changes, session, files, tasks, status,
                 ghosts>>

\* An exit or a crash, and the next start, maybe of another build.
Restart ==
  /\ boot < MaxBoots /\ boot' = boot + 1
  /\ mem' = disk
  /\ \/ UNCHANGED <<build, changes>>
     \/ Changes /\ build' = build + 1
  /\ profile' = None /\ qualifying' = None /\ retryNext' = {} /\ cooldown' = FALSE
  /\ task' = NoTasks /\ removing' = None /\ view' = NoView /\ offer' = None
  /\ UNCHANGED <<disk, plugged, driver, day, files, ghosts>>

GpuNext ==
  \/ Detect \/ GpuFails \/ Cools \/ WantsCheck
  \/ \E c \in Callers : FinishUpgrade(c) \/ Switch(c) \/ Clear(c)
  \/ \E c \in Checkers : BeginCheck(c) \/ RecordCheck(c) \/ EndCheck(c)
  \/ \E m \in Models : Choose(m) \/ BeginRemove(m) \/ Install(m)
  \/ EndRemove \/ SetGpu
  \/ ReadSettings \/ ReadRecord \/ ReadMark \/ ReadRung \/ TellStatus
  \/ \E c \in Cards : Plug(c) \/ UpdateDriver(c)
  \/ Tick \/ Restart

GpuSpec == GpuInit /\ [][GpuNext]_gpuVars

-----------------------------------------------------------------------------
(* Properties *)

\* An accepted upgrade leaves the file only when its model was chosen, failed
\* its check or was removed: a restart, a save that failed, a check that ended
\* in nothing and a second caller leave it waiting (gpu_engine.rs:196).
UpgradeIsKept ==
  None \in {mem.pending, disk.pending} => ended # {}

\* A driver is disabled for what two sessions saw within a week, never for a
\* bad one (asr_worker.rs:1026), however the days, restarts and failed saves fall.
OneBadSessionIsForgiven ==
  \A d \in mem.disables \cup disk.disables :
    \E x, y \in cooled :
      x.key = d.key /\ y.key = d.key /\ x.boot < y.boot /\ y.day = d.day /\ y.day - x.day < Ttl

\* While the card may be used, nobody whose model was never checked on it is
\* told to take the processor model: the check that is due or under way, or
\* that ends between two reads of the status, is not taken for a failure
\* (gpu_engine.rs:62).
OfferFollowsACheck ==
  offer # None => offer.key = None \/ ~ offer.gpu \/ offer.disabled \/ offer.key \in checked
=============================================================================
