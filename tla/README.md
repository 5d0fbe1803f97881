# VoiceWave: models and proofs

TLA+ models of VoiceWave's dictation core (the Tauri/Rust backend under
`src/src-tauri/src`), the TLC configurations that check them on small instances,
and TLAPS proofs of what matters most for every instance. Paths below are those of
the repository, with `src-tauri/src/` written as `src/`.

```
tlc -workers 2 -config session.cfg MCDictationSession
tlapm HotkeyHook_proofs.tla
```

## 1. Inventory

VoiceWave is one process with a hook thread, a microphone thread, a few worker
threads, a Tokio runtime that serves window commands, and child processes that
decode and polish. The controller (`VoiceWaveController`, `state.rs`) is the hub.

| Component | State it keeps | Operations | Talks to |
| --- | --- | --- | --- |
| Dictation controller (`state.rs`) | session slot, session counter, cancel token, stop flag, HUD snapshot, pending-Enter marker, kept audio, lifecycle gate | start, press, release, toggle, finish, cancel, retry, undo, quality check, cleanup | everything |
| Dictation flow (`state/dictation/*`) | one task per accepted dictation: preflight, capture, transcribe, post-process, insert, record | its phases, early ends and errors | controller slots, microphone, inference, insertion |
| Hotkey hook (`hotkey/mod.rs`) | keys down, swallowed keys, combo, capture lease, Escape's owner | keyboard events, capture, start, rebind | controller (edges over a channel), other programs (swallowing) |
| Microphone keeper (`audio/mic_keeper.rs`) | open stream, pre-roll ring, tap, warm window, running capture | capture, configure, end, stream errors, wake-ups | capture tasks, Settings, audio callbacks |
| Capture and VAD (`audio/mod.rs`) | the frames, the voice detector, its segments | stop, cancel, caps, endpoint, what is handed on | microphone keeper |
| Input volume (`audio/input_volume.rs`, the guard in `capture.rs`) | each dictation's guard, notice clocks | read, warn, restore, judge | other programs, pill |
| Speech worker (`inference/asr_worker.rs`, `windows/asr-worker`) | GPU and CPU slots, failure counts, cooldown, GPU qualification | load, transcribe, prewarm, qualify, release | child processes |
| faster-whisper worker (`inference/faster_whisper.rs`, `worker.py`) | one worker, one download worker per model | transcribe, prefetch, download, cancel | child processes |
| Decode policy (`inference/policy.rs`, `audio_pipeline.rs`, `inference/mod.rs`) | samples, failure counts, fallback budget | pick mode and conditioning, decode again, choose | speech workers |
| GPU selection (`gpu_select.rs`, `state/gpu_engine.rs`) | records of checks, driver strikes, accepted upgrade | detect, record, disable, upgrade, status | speech workers, Settings |
| Late polish (`state/dictation/polish.rs`, `inference/llm_polish.rs`) | pending polish tasks | one attempt in a budget, late offers | history, pill |
| Model manager (`model_manager/*`, commands in `state.rs`) | installed models, checkpoints, statuses, cancel and pause flags | download, pause, resume, cancel, activate | network, settings |
| Insertion (`insertion/mod.rs`) | last success, landed window, history | insert, press Enter, undo | foreground program, clipboard |
| Cues (`cue.rs`) | one worker thread with a stream | play, prewarm, retire | output devices |
| Settings (`settings/*`) | the settings in memory and on disk | update, activate a model, rebind | hook, microphone, workers |
| Stores (`history`, `stats`, `diagnostics`, `dictionary`, `snippet`, `billing`) | one JSON file each | record, tag, prune, approve, reconcile | atomic files, cloud sync (`src/lib/*Sync.ts`) |
| Atomic files (`atomic_file.rs`) | primary, `.bak`, `.tmp` | write, recover, quarantine | every store |
| Session marker (`session.rs`) | `session.json` | heartbeat, phase, clean exit, verdict on the last run | atomic files, analytics |
| Analytics (`analytics/*`) | consent, outbox, day file | record, flush, purge | network |
| Desktop UI (`src/hooks/useVoiceWave.ts`, pill, recorder) | a view of events | commands | controller |

Outside the inventory: transcript formatting and signal processing (pure functions of
text and numbers), benchmarks, permissions, Windows glue (hit testing, job objects,
command registration), the updater, the website and the demo video.

What makes these parts hard:

* **Interleaving.** The dispatcher, several window commands, double-tap timers and
  the flow tasks of several sessions touch the same slots. Some of them hold the
  lifecycle gate, some do not, and a cancelled flow task may outlive its session.
* **Staleness.** A flow task checks "am I current?" and then awaits; a rebind reads
  a combo and then stores it; a capture carries a device name read earlier.
* **Ordering.** Key-ups arrive long after the key-downs that decide their fate; the
  End of a capture arrives after its successor began.
* **Timeouts.** A press gives up waiting for the microphone and the answer comes just
  then; the double-tap window closes while its session is being locked.
* **Partial failure.** A retry, an insertion or an Enter may fail half way.
* **Liveness.** The pill, Escape, the microphone indicator: each must be given back.
* **Crashes.** Stores, downloads, the session marker, the outbox, the day file and the
  graphics card's records persist; each must survive an exit, a failed save or a power
  loss between any two of its steps.

What correctness means, component by component: at most one run delivers, a cancel
is final, and nothing of a dead run disturbs a live one (controller and flow); no
ghost keys, no keys stuck in other programs, edges that follow the keys (hook);
gapless audio for the newest capture and a microphone that is given back (keeper);
every spoken word handed on, however the recording ends (capture); a bounded path to
text on a card that passed its check (workers, GPU selection); one copy of the model,
and cancelled downloads that stop (faster-whisper); the better of two texts, and a
fallback that ends (policy); whole files and statuses that tell the truth (models); a
shortcut that stays (settings); one whole copy after any crash (files); a true verdict
on the last run (marker); nothing kept after consent is withdrawn, nothing queued lost,
nothing counted twice (analytics, stats); computers that come to agree (words); an
Enter and an undo that are for the newest text (insertion); a history that tells how an
insertion went, and what it brought to the app (history and late polish).

## 2. Plan and modules

The core came first (controller and flow, hook, microphone keeper, the first two with
proofs), then the engines, the model manager, what is kept on disk, what becomes of a
text, and the rest of the path from the microphone to it. Left, the most important first:

1. A composition of hook and session, with the hook's edges as the session's inputs.
2. The operations listed as missing in section 12.

| Module | Models | Run |
| --- | --- | --- |
| `DictationSession` | controller and flow | `session`, `session_retry`, `session_v_retry` |
| `HotkeyHook` | the keyboard hook | `hotkey_keys` |
| `MicKeeper` | the microphone keeper | `mic_keeper` |
| `SpeechEngine` | the whisper.cpp workers, the check of the card, the ladder of rungs | `engine_ladder`, `engine_ends` |
| `ModelDownload` | download, verification, installation and removal of a model | `models` |
| `AtomicFile` | one store file and its siblings; refines `StoreCell` | `local_files` |
| `StoreCell` | the abstract store: one value that changes at once | (by `AtomicFile`) |
| `SessionMarker` | `session.json` | `local_files` |
| `Outbox` | consent and the queue of usage events | `local_files` |
| `DayTally` | the recorder of a day's facts | `local_files` |
| `WordSync` | dictionary and snippets on several computers, and their clocks | `local_files` |
| `SettingsStore` | the commands that write the settings | `settings_v_rebind` |
| `TextInsertion` | insertion, Enter, undo | `delivery` |
| `LatePolish` | polish attempts and History | `delivery` |
| `DictationStats` | the Stats tab's tallies and the diagnostics log | `delivery` |
| `FwWorker` | the faster-whisper processes | `speech_path` |
| `CaptureLoop` | one recording and what it hands on | `speech_path` |
| `CuePlayer` | the sounds | `speech_path` |
| `DecodePolicy` | decode mode and conditioning | `speech_path` |
| `DecodeRetry` | one pass: decode, decode again, choose | `speech_path` |
| `GpuSelect` | the graphics card's file and its readers and writers | `speech_path` |
| `MicNotices` | volume guard and notices | `speech_path` |

The `MC*` modules give TLC its instances. `MCLocalFiles`, `MCDelivery` and `MCSpeechPath`
put modules together that share no state: the variable `part` says which of them a
behaviour explores, the others stay where they are, so the states of such a run are the
sum of its parts' and not their product. Eight modules hold the theorems:
`DictationSession_proofs`, `HotkeyHook_proofs`, `MicKeeper_proofs`, `SpeechEngine_proofs` and
`ModelDownload_proofs` of the module they are named after, and `LocalFiles_proofs`,
`Delivery_proofs` and `SpeechPath_proofs`, each with a section for every module it is about.

Definitions marked `Slip:` in the modules are plausible mistakes, one for each checked
property. They are not part of any specification: substituted for the definition
that follows them, they make the property fail, which shows that the property has
something to say about the code.

## 3. The dictation session

### State and actions

The slots of `VoiceWaveController` are the variables `active` (active_session),
`counter`, `tokenSlot`/`cancelled`, `stopSlot`/`stopped`, `hud` (snapshot.state),
`submit` (submit_pending_session), `retained` (retained_capture) and `gate`
(lifecycle_gate); `esc` is the hook's dictation_active. A token or a stop flag is
named by the session it was made for, which is how the model tells a stale handle
from a live one. `pc[s]` and the variables after it are the locals of session s's
flow task; `cpc[c]` and `cs[c]` those of a command that takes several steps.

An action is one stretch of code during which no other task can interfere: between
two awaits, or between taking and releasing a lock. So a start takes the steps
Admit, Arm, NewStopFlag and Announce with the gate held; a finish takes FinishClaim,
FinishStop and FinishPaint without it; a cancel is one action under the gate. The
flow task has an action for each of its waits, from FlowBegin to Cleanup. The
dispatcher is one task and handles one event at a time; window commands run on as
many threads as `Ui` has; a quick release starts a task in `Timers`.

`Ops`, `Faults` and `Spoken` choose, for a run, which commands the environment issues,
which ways a run may end early, and whether a transcript ends in a spoken Enter.
Text, audio and timings are abstracted: `clip[s]` says whose recording s works on and
`landed[s]` what became of its text. `cut[s]` records how far s was when it was
cancelled or replaced; it is a history variable.

### Runs

| Run | Bounds | Properties |
| --- | --- | --- |
| `session` | 4 inputs, 1 window, 2 timers; all hotkey and window commands; captures that hit the cap, decodes that time out, spoken Enter | `ReplacedRunsAreCancelled`, `CancelledNeverDelivers`, `RestIsClean`, `StaleRunsLeaveTheSessionAlone` |
| `session_retry` | 3 inputs, 1 window, 1 timer; start, retry, fixture, undo, check, Escape; a text or a lone spoken Enter, 7 ways to end early; fair | `FailedRetryKeepsItsRecording`, `EveryDictationEnds` |
| `session_v_retry` | 4 inputs; start, cancel, retry | `FailedRetryKeepsItsRecording`, violated |

Why these bounds: the properties relate at most three sessions (one dead run still
winding down, one live, one about to replace it), and every session takes an input
to begin, one to end and at most two to disturb. Four inputs let two quick presses
and a toggle overlap with two open double-tap windows. A bound on the inputs also
bounds the sessions (`MaxInputs <= MaxSession`), so no admission is refused for lack
of an id. Windows and timers are interchangeable (`Symmetry`); no run with a
liveness property uses symmetry. 1.6 million and 0.16 million states.

`ReplacedRunsAreCancelled` is what makes a cancel reach the right run: any run but
that of the session in the slot is cancelled. `CancelledNeverDelivers` speaks of what
the user sees: a run cut before its last check neither types its text nor presses
Enter. `StaleRunsLeaveTheSessionAlone` is the converse: no step of a dead run changes
the newer session, its handles, its pill or its Escape. `RestIsClean` says that once
all tasks are done nothing is left in the slots. `EveryDictationEnds` is that every accepted
dictation ends, and that the pill comes to show none. It is asked where nobody stops a
recording by hand, since a finish may paint the pill of a session that was cancelled
meanwhile (section 11).

Fairness (`session_retry`): each command, each timer and each flow task that
can take a step takes it, as the Tokio scheduler and the code's own timeouts see to
(a capture has its cap, a decode its deadline). Nothing is assumed of the user.

`session_v_retry`: a cancelled dictation's capture is stored after its cancel check and
overwrites the recording that a retry was bound to (capture.rs:138); the retry fails
and there is nothing to try again, against state.rs:1970.

### Proofs

`LifecycleHolds` proves the inductive invariant

    LifecycleInv == TypeOK /\ AdmissionInv /\ IdInv /\ ReplacedRunsAreCancelled

for any numbers of sessions, inputs, windows and timers. `ReplacedRunsAreCancelled` is not
inductive alone: RetireToken cancels the run it finds in the slot, so one must know that
while an admission holds the gate nothing else changes which session that is
(`AdmissionInv`), that ids are handed out in order, so the id of a new session has had no
run, and that a session in the slot still has its task (`IdInv`). `TypeCorrect` and
`OneLiveRun` follow. The flow task's twenty-seven steps are treated at once: lemma
`RunIsProgress` shows that each either moves its own program counter and leaves the slots
alone, or is the cleanup. Three more properties rest on it:

* `CancelIsFinal` (`CancelledNeverDelivers`). A run that was cut is never current again: its
  token is cancelled, or another session has the slot, and ids are not reused. Every way to
  the text and to the Enter goes through a check that a cut run fails, so it stays short of
  what it had not reached (`DeliveryInv`); commands deliver under the gate, for the session
  in the slot (`CallerDelivery`).
* `StaleRunsKeepOut` (`StaleRunsLeaveTheSessionAlone`, an action property): a step of a run
  that lost its session is shown, step by step, to change neither slots nor pill nor Escape.
* `SlotsAreFreed` (`RestIsClean`). `SlotsInv`: whoever holds the gate is in an admission, and
  without a session every slot is empty; at rest no session is left, since one in the slot
  still has its task (`IdInv`).

`FailedRetryKeepsItsRecording` is refuted by `session_v_retry` where starts meet retries, and
stays with TLC. Assumptions:
`BoundAssumption`, `CallerAssumption` (the callers are distinct), `ScopeAssumption`.

## 4. The hotkey hook

### State and actions

`push`, `keysDown`, `swallowed`, `escapeDown`, `escapeOwned` and `capture` are the fields of
`EdgeTracker`; `dictating` is dictation_active; `settings`, `manager` and `slot` are the
three things a rebind touches under three locks. Outside the code, `held` is what the
user holds, `apps` what other programs were last told of each key, and `talking` the
last push-to-talk edge sent. A keyboard event is one action: the hook handles it
under its dispatch mutex. A rebind is three steps, one for each lock, and so is the start of the
hook by the monitor task. Which program is in front is chosen at each event, as
only the code's check of the foreground sees it. A key is a modifier, a letter, another
typing key, or plain; `Usable` is what check_usable lets a user pick.

External, hence assumed: Windows calls a running hook for every key event. A key
held since before the hook started (`"old"` in `apps`) may have its release swallowed
after a repeat; the model has that case as a value of its own, about which
`NothingStuckInApps` says nothing.

### Run and what it shows

`hotkey_keys`: Ctrl, Alt, Windows, X, F9 and Escape, at most three held, every order of
presses, repeats and releases; the combos Ctrl+Windows and F9, one rebind at a time, the
recorder on and off, the hook starting at any point. Three held keys are enough to hold a
combo and one key beside it, which is what exact matching is sensitive to; two combos are
enough for a rebind to change everything or nothing. 1.2 million states.

* `NoGhostKeys`: the tracker never believes a key down that is up.
* `NothingStuckInApps`: another program sees a release exactly when it saw the press.
* `EdgesFollowKeys`: with the combo unchanged and no recorder, the edges sent follow
  the keys.
* `RebindSettles`: after a rebind, settings, manager and hook agree.

Not modelled: a hook that installs itself after start has given up waiting (3 s),
which swallows keys for a channel nobody reads; key-ups Windows does not show
(secure desktop). With two overlapping rebinds (Reset clicked while a save is in
flight) settings and hook may end on different combos: the recorder keeps to one at a
time, and so does the run.

### Proofs

`HookHolds` proves `HookInv == TypeOK /\ RestInv /\ NoGhostKeys /\ AppsInv` inductive for
any keys, combos, rebinds and recorders. `NothingStuckInApps` is strengthened by `AppsInv`:
for every held key that the hook tracks it says whether the press was swallowed or
shown, so that the release can be matched to it; `RestInv` says that a hook which
does not run tracks nothing. From it follow `HookTypes`, `NoGhosts`, `NoKeyStuck` and the
action property `EdgesFollow`. `LoneRebindSettles` assumes a single rebinder and has
its own invariant, `SettleInv`, that says at each of the rebind's steps which of the
three places already hold the new combo. Assumptions: `KeyAssumption`,
`ComboAssumption`, `RebinderAssumption`.

## 5. The microphone keeper

### State and actions

`mic` is the `Keeper` with the state it shares with the callbacks (ring and tap);
`queue` is its command channel. The keeper handles one command, or one wake-up, at a
time, and each is one action with everything it calls (settle and what it closes and
opens). `pc`, `reply`, `id` and `heard` belong to the calls of `MicKeeper::capture`; `heard[c]`
is the audio queued for capture c. A chunk is a number, so a gap or a repetition shows.
Clocks are choices: whenever the code looks, the stream may be stalled or on the wrong
device (CloseStale), and a retry may be due (Reopen); WarmLapses ends the warm window.

A press that gives up (GiveUp) keeps its receiver until the call has returned (Leave), so an
answer may still be put into the channel that nobody will read.

Left out: the prepared device (it saves time only), the generation of a stream that
failed to start, device-name fallback, the capture loop's inner workings (it ends, for whatever
reason: Stop).

### Run and what it shows

`mic_keeper`: two captures, two devices of which one is a hands-free headset, one change of
Settings, one stream error, two streams, three chunks, a ring of one. Two captures are a
capture and its successor, which is the only overlap the keeper knows (one tap); three
chunks are one for the ring and two for the tap, enough for a gap. Two streams are the one
that fails or is closed and the one that follows. 1.35 million states. Deadlock is not
checked: each capture is one call and every bound is finite, so the system does stop.

* `TapServesCapture`: the newest capture keeps the keeper and its tap, whatever Ends,
  errors and Settings arrive late.
* `RecordingIsContiguous`: pre-roll, then live audio, without a gap or a repetition.
* `MicIsReleased` (fair): with "Keep mic ready" off, an idle keeper ends up closed,
  unless the last capture was answered too late (section 11).

Fairness: the keeper thread runs, capture tasks run (each has a cap), the warm window
passes. Streams, Settings and new presses are not forced to do anything. A wake-up
is not forced to find a stream stale where it matters: when nobody wants the stream,
every outcome of a wake-up closes it.

### Proofs

`MicKeeper_proofs`, for any captures, devices, chunks, streams, errors, changes of Settings
and any ring:

* `CapturesAreServed` (`TapServesCapture`). Inductive is `ServeInv`: a Begin in the queue is its
  caller's only one and unanswered (`BeginsAreOpen`), an id is one capture's until its End
  takes it to the queue (`IdsAreOwned`), how far a call is tells what it was answered
  (`CallsAreInStep`), and the newest id is the one the keeper captures for until its End is
  handled (`NewestIsServed`). The End of an older call carries an older id, so it does not
  end the newer capture.
* `RecordingsAreGapless` (`RecordingIsContiguous`). `HeardInv`: while a capture taps, the ring is
  empty and the capture's audio ends at the last chunk; otherwise the ring does, if it holds
  any. So a tap that starts with the ring starts where the next chunk follows.

Assumption: `MicAssumption` (distinct names, at least one device, bounds are numbers).

## 6. The speech workers

`SpeechEngine` has two slots (`worker`, `holder`: the Vulkan worker and the CPU worker,
each behind its lock), the counters of `SESSION` (`failures`, `cooldown`, `qualifying`,
`retryNext`) and of the engine store (`verdict`, `retries`, `strikes`, `driverOff`), and
three kinds of threads: the decode task of each dictation (`pc`), the check that it may
spawn (`qpc`), and the prewarm. An action is what one of them does between two points
at which another gets in. A worker keeps its model and a cancel acknowledgement left
unread in its pipe; a request ends in text, in a fault of one of the classes of
`ErrorClass`, or cancelled. `proven` is a history variable.

* `engine_ladder`: one dictation at a time with the prewarm and both their checks, two
  sessions of the app, two retries, two other events (a prewarm, a worker that dies idle,
  the GPU setting); 2.7 million states. `OnlyCheckedModelsOnGpu`: a dictation reaches the
  GPU only with a model that passed a check, whatever restarts, retries, settings and a
  running check leave behind. `GpuTroubleLosesNothing`: a dictation fails only after its
  audio was tried on its CPU rung.
* `engine_ends`: `EveryDecodeEnds` under fair scheduling. Every request has a deadline in
  the code, and the wait for a check a limit of its own (`WaitOver`); that is the fairness
  assumed. Nothing is assumed of workers.

Two dictations at once with an event take 8 million states, too many to keep: that
instance (one kind of fault, one retry, one session) was checked once, and found
nothing. Not modelled: audio, texts and times.

`SpeechEngine_proofs` covers any number of dictations at once, faults and restarts, from
`NamesAssumption`. `CardNeedsACheck` (`OnlyCheckedModelsOnGpu`): a pass on record was found by a
check (`PassedInv`), and a decode on the card came there with a model that had passed
(`CardInv`), whatever became of the verdict since. `TroubleEndsOnTheCpu`
(`GpuTroubleLosesNothing`, an action property): with the app running, only the handling of an
attempt's end lets a dictation end (`OnlyAttemptsEnd`), and one that failed on the card goes
on to the next rung.

## 7. Models

`ModelDownload` follows one model, of either kind. A GGML model goes into a partial file
(`partial`, a sequence of good and bad chunks) that survives pauses, failures and restarts,
is verified, renamed (`final`) and listed (`installed`); a faster-whisper model is fetched
by its worker into a cache that is then listed. Requests are calls of `download_model`,
controls are calls of cancel, pause and remove; each gives way wherever the code awaits.
`ckpt` and `ckptDisk` are the checkpoint in memory and on disk, `statuses` and `shown` what
windows ask for and what they were last sent.

`models`: two requests, one control, two chunks, one retry, four calls, a restart with or
without loss of power; 1.2 million states. Two requests are what onboarding and the Models
page can start; two chunks are enough for a file that is half there.

* `PlacedModelsAreWhole`: only a verified file is moved into place, and a listed model has
  its file, whatever was resumed, retried, lost or requested twice.
* `NoFrozenBar`: nothing says "downloading" when no request is at work, however late the
  progress poller ticks and whatever failed half-way.

`ModelDownload_proofs` proves both for any requests, controls, chunks, retries and runs of the
app, from `KindsAssumption` and `NamesAssumption`. `ModelsAreWhole` rests on `PlacedInv`: the
request at work is the one that holds the token, its byte count is the file's length and its
hasher has seen the file as it is (`PathInv`, `FileInv`), and whoever writes the index or
the row holds the manager's lock (`HoldInv`). `BarNeverFreezes` adds `SeenInv`: a poller lives
only while its prefetch does, no control acts on a "Downloading" it read, and the worker's
kind of model has no row of its own.

Left out: changes of the catalog between versions, partial files that are too long,
signatures of the catalog, percentages.

## 8. What is on disk

`local_files` explores five modules, 0.84 million states.

* `AtomicFile`: every file operation of `atomic_write` and `load_with_recovery` is a step;
  it may fail, and the process or the power may go before the next. A read may fail, and
  `exists()` may not see a file that is there. The disk lags (`behind`): a power loss brings
  back one of the directories since the last `sync_all`. `FileIsOneCell` is a refinement:
  under `store <- Copies(dir)`, `recent <- {Copies(d) : d \in behind}` and `unread <- misread`
  every behaviour is one of `StoreCell`. There a store is one value (`now`) that changes at
  once and after a power loss is at worst one write old, beside a version from before a
  write (`before`). A load answers `now`; only one that could not read a copy in order
  (`unread`) may answer `before` or nothing, and only then may `now` itself go back to
  one of them, for good. That exception is what the code does: it sets aside or deletes
  what it failed to read (section 11). Two values and four writes, loads or restarts let a
  write, its interruption, the recovery, and the interruption of the recovery happen in one
  behaviour. One caller at a time is assumed, as under the lock of its store (see section 11
  for where it is not so).
* `SessionMarker`: the heartbeat, the updater, the panic hook and the exit over `STATE` and
  `WRITE`. `VerdictIsTrue` compares what a start says of the last run with what happened.
* `Outbox`: the recorder, the sender and a settings save. `OffLeavesNothing` and
  `QueueSurvives`; four events and queues of two reach the limits of queue and batch.
* `DayTally`: the recorder thread and its channel over midnights, a clock set back,
  switches of sharing and restarts. `CountedOnce`, `OffForgetsTheDay`.
* `WordSync`: two computers, three syncs (two of them of one computer), a sync lost
  half-way, and clocks. A computer's clock is right or shows anything (`Readings`), until it is
  set right; time goes on meanwhile. Stamps are checked where the code does: a computer
  leaves snippets of the cloud that cannot be out of its list (`List`), refuses all of a list
  for one of them (`Valid`), and the cloud refuses all of a batch for one record (`Upsert`).
  `ComputersAgree` (`<>[]`) says that once the user stops they agree and stay so, unless
  a clock is off for good or a computer has a record, not in the cloud, that the cloud refuses
  (`Barred`): stamped ahead of the time that has come by then, or made by a clock before
  2021 (`early`). One clock that is off, three times of which the first is before 2021 and
  the last ahead of the others, no tolerance (`Skew` 0: one unit of the model's time is more
  than five minutes), two words of two texts, a limit of one term and two changes
  let a wrong stamp win, hide, be refused and be caught up with. Fairness: each computer
  goes on syncing, as each start of the app and each change begins a sync; one of its
  syncs may hang beside another. That a clock is set right, or that time goes on, is not assumed.

### Proofs

`LocalFiles_proofs` has a section for each of four of these modules and one for
`DictationStats` (section 9), after one on induction and folds. `FileImplementsCell` is the
refinement for any contents and any number of writes, loads, failures, exits and power
losses. It assumes that contents that decode are none of the kinds that do not, and that a
missing file is none of these (`KindsAssumption`). The inductive invariant `FileInv` says of every
directory a power loss may bring back that no damaged primary stands before a backup that
decodes, and of each stage of a write or a load what it relies on: from sync_all to the
rename the directories that may come back all hold the same value, so the new value
goes over a durable one; a backup is unlinked only where no load would have used it.
Wherever a load has passed over a copy that decodes, `misread` says so, and the steps
that then set it aside or delete it are steps of `Lose`.

`OffStaysEmpty` is `OffLeavesNothing` for any bounds. Inductive is that a closed gate has a
purge to come, or has left nothing (`ClosedInv`). `OffDropsTheDay` is `OffForgetsTheDay`,
with the same idea: with sharing off a message waits, or is about to be sent, whose handling
drops the day, or neither memory nor file has one (`DayInv`).

`NothingQueuedIsLost` is `QueueSurvives`, for any limits of queue and batch. `QueueInv` adds
that the whole lines of the file are the queue in memory, so that what is owed is posted or
in the queue: a pass takes no more than what it has been told was sent, and a launch reads
back what the last save wrote, less a torn line at the end. What a filter keeps is an
induction over the sequence (below). `OutboxAssumption`: the limits are positive, a torn line
is no event, and a missing file is no list of lines.

`NoFactCountsTwice` is `CountedOnce`, for any facts, days, switches and restarts. The bound
on the summaries is not inductive alone; `TallyInv` says where a fact may be besides: it
waits in the channel, and then it is counted nowhere (`InboxInv`, `FreshInv`), or it is in
the day that the recorder goes on with, or in the file, which lags by no more than the burst
of changes under way (`CountInv`). So a summary, the day in memory and the day that a restart
would find together have a fact once, and once more for each burst that was lost.
`DayAssumption`: `CheckDay` is no fact and `NoDay` no day.

Induction over data. The library's induction theorems take an operator as a parameter, which
no prover here instantiates. The first section proves induction for a *set* instead: the
numbers and the finite sets are well founded, so what is true of 0 and of each successor, or
of the empty set and with each element more, is true of all (`Induction`, `InductionTo`,
`SubsetInduction`). From it come a function for each recursion over finite sets (`Recursion`),
what the library's `MapThenFoldSet` and so `FoldLeft` over sequences and `MapThenSumSet` over
sets compute (`FoldExists`, `SiftedEquation`, `TotalEquation`), and what the proofs use of
them: a filtered sequence holds just the entries it should (`SiftedHolds`), and a total with
one element more is the total and that element's value (`TotalOfOneMore`).

`StartTellsTruth` is `VerdictIsTrue` for any marks, threads, runs and versions. `MarkerInv`
adds to it whose turn it is to copy or save, and that the exit closes the run and saves
nothing (`TurnInv`); that the file, and every copy on its way there, is this run's
(`MineInv`); and that between two commands of the updater the file agrees with the memory
about an update, after the exit with what the exit saw (`UpdateInv`). Assumption:
`NoFileAssumption` (a missing file is not a mark).

`settings_v_rebind`: `SettingsStore` has the three kinds of commands that write the settings.
`set_active_model` clones, saves and stores, holding the lock for the first and the last of
these only (state.rs:3586-3593); a shortcut recorded in between is reverted, against the
comment at state.rs:1503.

## 9. What becomes of a text

`delivery` explores three modules, 3.9 million states.

* `TextInsertion`: the steps of an insertion (look, note the window, each method), Enter
  and undo, while the user changes windows: an editor, a browser, a terminal, an
  administrator's program, a security prompt and VoiceWave itself. Insertions come from
  dictations and from the `insert_text` command of VoiceWave's own window
  (`WindowInserts`), which may run while a dictation waits to press Enter: the engine's lock
  is free then. `latest` keeps of the latest insertion that worked the window it noted,
  the one its keystrokes really went to, and whether the user changed windows during it.
  `EnterFollowsTheNewest`: a spoken Enter follows the newest insertion of all, only if
  keystrokes carried it, in the window noted for it; that is the one its text went to,
  unless the user changed windows in the middle of that insertion. `UndoIsForTheLast`: Ctrl+Z
  is sent once, for the last insertion that worked, and only if its keystrokes went to no
  terminal, with the same exception. Two insertions, two changes of window and two undos
  suffice for a record of the first to outlive the second, and for a window's text to come
  between a dictation's text and its Enter.
* `LatePolish`: attempts that outlive their budget, the one-request-at-a-time worker,
  the records of History, and cancels up to the Enter. An insertion ends keyed (typed or
  pasted), copied, failed or in an error, and `arrived` keeps what keystrokes brought to the
  program. `HistoryTellsWhatLanded`: a record says how the insertion went; it is told as
  keyed if and only if something arrived, and then gives the very text that did; no
  other dictation's rewrite is beside it; and there is exactly one, but for those erased or
  cancelled between an insertion that errored and its rescue (`Cut`).
* `DictationStats`: the tallies and the diagnostics log, each saved after every
  change, each possibly reset, with a one-time import from the one into the other.
  `EachCountsOnce`.

### Proofs

`Delivery_proofs`, for any windows, insertions, undos, dictations, faults and restarts:

* `EnterGoesToTheNewest` and `UndoesTheLastOnly` (action properties of `EnterFollowsTheNewest`
  and `UndoIsForTheLast`). `CallInv`: insertions are numbered as they come, a call's methods are
  one of three lists, by the host it looked at, and while nobody changes windows that is the
  host in front. `AimInv`: if the engine has a window to press Enter in, it is the one noted
  by the newest insertion, whose keystrokes arrived. `UndoInv`: the insertion an undo is for
  is the latest that worked, was not undone and went to no terminal, or the user changed
  windows during it. `WindowAssumption`: `NoWindow` is no window, and each window has a kind.
* `HistoryIsTrue` (`HistoryTellsWhatLanded`). Inductive is `LateInv`: a line in the worker's
  pipe is the only one and belongs to the dictation that has the gate (`AskInv`), what a
  dictation inserts is told as what it is (`MadeInv`), each dictation that was written has
  one row, erased ones aside (`RowsInv`), and the ids a late attempt remembers are below the
  counter on disk, so that no restart hands them out again (`IdInv`). Beside it `ToldInv`:
  a row, in memory or on disk, tells of its dictation's insertion what became of it, and
  something arrived only of an insertion that is told as keyed. `LateAssumption`: `Nil`
  is no id, no outcome and no text.

`TalliesAreTrue` (in `LocalFiles_proofs`) is `EachCountsOnce`, for any number of dates,
dictations and mishaps. It compares a sum over days with a count of dictations, and is
inductive only beside two more (`StatsInv`): the log, too, has for no set of days more rows
than dictations spoken on one of them, in memory and on disk, less the dictation that is just
ending and is not counted or not logged yet (`RoomInv`); and tallies that were not imported
into have no day, so that the import adds the log to nothing (`ImportInv`). The import's
totals of any days are the log's rows of those days, by induction over the rows. `DatesAssumption`:
there is a date, and the log keeps at least one row.

## 10. From the microphone to a text

`speech_path` explores seven modules, 2.4 million states.

* `FwWorker`: the request gate, the worker's slot, the reload thread, readiness checks, a
  model's download and its cancel, the exit. `OneSharedWorker`: at most one
  process holds a copy of the model. `CancelledDownloadStops`: whenever the cancel comes.
* `CaptureLoop`: a chunk is a frame and a pass of the loop is a tick; frames are loud, soft
  or still. `SpeechIsKept`: each run of loud frames is within one segment of what is handed
  on, in order and once. `ReleaseLetsWordsEnd`: no word is cut off by a release.
  The constants keep the order of the code's durations at a smaller scale.
* `CuePlayer`: a supervisor behind a lock, its worker threads and their streams, devices
  that change, drivers that are slow. `OneStreamPlays`.
* `DecodePolicy`: the window of samples that chooses the mode, and the fallback of the
  audio conditioning. `SecondVersionReturns`.
* `DecodeRetry`: a text is a sequence of words, the engine's measures are integers in
  thousandths; six texts and the measures on both sides of each threshold.
  `BetterOfTwo`.
* `GpuSelect`: the file of the graphics card in memory and on disk, its records, strikes
  and disables over days and starts; the accepted upgrade; the status a window puts
  together from four reads. `UpgradeIsKept`, `OneBadSessionIsForgiven`, `OfferFollowsACheck`.
  The run explores strikes, upgrade and status apart.
* `MicNotices`: the volume guards of two dictations, meddling programs, the notice clocks.
  `NoticesAreSpaced`.

### Proofs

`SpeechPath_proofs`, one section for each module:

* `FwWorker`, for any threads, processes and requests. `DownloadStops`
  (`CancelledDownloadStops`): the download registers its process before it looks at the
  token, the cancel sets the token before it looks at the registry (`CancelInv`); so that
  nobody else unlists the process, it is in no other hands (`InHand`), and dead processes
  stay dead. `RequestsShareAWorker` (`OneSharedWorker`): whoever is busy holds the gate,
  every process that lives is in the slot or in somebody's hands, and while a request has
  one none lives in the slot (`SharedInv`). `ThreadsAssumption`: the download's thread makes
  no other requests, and `Nobody` is neither thread nor process.
* `CaptureLoop`: `WordsEnd` (`ReleaseLetsWordsEnd`). `MarkInv` says what the loop's own
  marks stand for: the last voice for every loud frame, the voice after the release for
  those after it, and that a release called quiet had none shortly before.
  `ReleaseAssumption` and `LimitsAssumption`: the release's durations are numbers, and the
  caps are below the one that stands for "never".
* `CuePlayer`: `CuesComeFromOneStream` (`OneStreamPlays`), for any workers, devices and calls.
  `SoundInv`: only the worker that the supervisor keeps has cues, the channels of those it
  gave up hold nothing but the order to stop, and the supervisor spawns only when it keeps none.
* `DecodePolicy`: `SecondVersionGetsItsTurn` (`SecondVersionReturns`). `FallbackInv`: while the
  first version runs, each failure that is counted has spent a pass of the budget.
  `BudgetAssumption` asks for a budget below the threshold, as the defaults are (2 and 3).
* `DecodeRetry`: `BetterIsGiven` (`BetterOfTwo`), for any texts and measures in whole
  thousandths (`MeasureAssumption`). `ChoiceInv` keeps what was compared; the rest is that the
  score is monotone in each measure.
* `GpuSelect`, for any cards, models, callers, days and starts. `FileInv` says of the file
  in memory and of the one on disk what may stand in them: records of checks that were made,
  whose failure ends the accepted upgrade; cooldowns that were, once for each start and
  driver; disables that two starts' cooldowns account for; no missing upgrade that is not
  over. It holds of each save whether or not it reaches the disk, and goes on holding as the
  histories grow (`StoresGrow`). `CheckInv`: the one check that is under way has the mark,
  and a caller gives up only when the upgrade is over. `StatusInv`: what a status read of
  the newest record was checked, on the card that the session still has. From these follow
  `UpgradeStays` (`UpgradeIsKept`), `DriversAreForgiven` (`OneBadSessionIsForgiven`) and
  `OffersFollowChecks` (`OfferFollowsACheck`). `RetryAssumption`: the limits are positive
  numbers; `NameAssumption`: names are distinct.
* `MicNotices`: `NoticesKeepTheirDistance` (`NoticesAreSpaced`), for any captures, microphones
  and meddling. `NoticeInv`: each clock has seen every notice that it stands for.

* `CaptureLoop`, what is handed on: `SpeechSurvives` (`SpeechIsKept`), for any durations of
  the detector and any recording. `KeptInv` is about every run of loud frames at once, not
  the last one: a run that reaches the newest frame is in the detector's buffer, and its
  count of voiced frames is no smaller than the run; a run that is long enough is within a
  finished segment or within the buffer of a segment that has begun (`RunsKept`); segments,
  the buffer and the pre-roll hold indices of frames that rise, each after the one before it
  (`Segments`, `Follows`), which is why what is handed on is in order and nothing twice.
  `VoicedInv`: a recording with too few voiced frames to hand anything on has no run that is
  long enough. At the end the trim keeps what is between the first and the last frame above
  its threshold, and every loud run is; a least and a greatest one exist (`LeastOne`,
  `GreatestOne`).
  `DurationsAssumption`: durations are numbers, and the shortest speech, the longest silence
  within it and the pre-roll are positive (3, 5 and 4 frames in audio/mod.rs:805-806, 40).

## 11. What the models showed

Two disagreements have a run that expects the violation: `session_v_retry` (section 3) and
`settings_v_rebind` (section 8). The following were met while modelling. Where a comment
promises otherwise it is named; properties are stated so that they hold beside them.

Controller and flow:

* A finish claims the session, a cancel closes the pill, then the finish paints it
  Transcribing (state.rs:2330; 4221 says a cancelled run never does this).
* The audio quality check looks at the pill once, records for seconds and repaints Idle
  (state.rs:2704), which gives Escape away from a dictation that began meanwhile.
* set_session_state checks the id, not the token (4176): a cancelled run that reaches
  Transcribing brings its session back (transcribe.rs:241), and the press after the cancel is
  ignored, against state.rs:2050.
* A finish is not keyed by session (2300, 4161): one that lands before the flow has begun
  is undone by FlowBegin; a deferred release may finish a later session or one that was
  locked hands-free since; during a window's admission (1981) it finds the previous
  stop flag, or none, and the new capture runs on to its cap.

Hook and microphone:

* A rebind while the old combo is held sends no release edge (hotkey/mod.rs:435, against
  "no lost release edge" at 430); the recording runs on to its cap. Starting the recorder
  while the combo is held loses the edge in the same way.
* The keeper's answer may arrive after the press gave up and before its receiver is
  dropped (mic_keeper.rs:456): nobody sends an End ("A capture always ends with an End
  command", 375), and the microphone stays open until the next press.
* A press carries the device of the settings its dictation began with (421); handled after
  a Configure it takes the keeper back to the old one until the next press.
* Restoring the input volume opens the default endpoint anew without reading it again: a
  microphone muted, or made the default, in between is set to full volume.

Engines:

* qualify looks for a cached result and takes its mark in two steps (asr_worker.rs:1543), so
  a check may run twice in a row (against 1528).
* A GPU decode the user cancelled that misses its deadline counts as a GPU fault (1244).
  A second decode for confidence that fails discards the first text (inference/mod.rs:1182).
* An empty transcript first resets the count of hard failures and then adds to it, so
  empty transcripts alone never bring the older conditioning back; failures of the older
  one count against the newer. One slow decode in a window of five starts the
  speed window. The environment may set a fallback of as many passes as the threshold, or
  more (audio_pipeline.rs:135-149); failures of the older one then bring it back without a
  pass of the newer, which `BudgetAssumption` excludes.
* "Length alone let hallucinated tails win" (inference/mod.rs:1364), yet the score still
  gives 0.025 for each word up to 24: a second text 20 words longer wins with a
  log-probability 0.45 worse.
* remove_model during the check of an upgrade clears the upgrade that is pending, but the
  running finish_gpu_upgrade still switches to the removed model (gpu_engine.rs:217); a
  choice made during the check is overridden when it passes; remove_model reads the active
  model before it locks the manager. Only the last 12 check records are kept, so
  inconclusive ones may push a failed verdict out, and the model is checked again.
* After the exit's sweep a request that was killed schedules a reload, which starts a
  worker again: only the job object ends it. A decode's deadline (30 s and twice the audio)
  may exceed the gate's 90 s, and others are told "busy". Every worker that times out
  is killed, so the request id in a reply is never what saves a request.
* A play whose first acceptance timed out may be cut and played again, never at once. A
  worker stuck in its driver holds the cue service's lock; no liveness is stated.

Files and stores:

* The settings saved by set_active_model and set_diagnostics_opt_in are saved outside the
  lock, so two writers may share one `.tmp`: atomic_file.rs's promise of a whole
  primary then depends on luck. Two update_settings apply their side effects after
  the unlock, possibly out of order.
* A `.bak` left over brings back a file that session.rs's `clear` deletes.
* A read error that passes (a scanner's lock) costs a store its value: atomic_file.rs:192 takes
  a primary that cannot be read for a damaged one, puts an older backup in its place (199) or
  sets it aside (210), and deletes a backup that it could not read (217); one that exists()
  does not see is overwritten by the backup (109), or by defaults at the next save.
  The model has all of these (`misread`, `Lose`).
* One snippet or term with a stamp that the cloud refuses keeps all that its computer would
  send from being sent, as batches are refused whole: until the time has come, or for ever
  if the record was made before 2021 (`Barred` in `WordSync`). A snippet that a
  computer's clock hides from it is not there for it, so an older one of its own
  overwrites it in the cloud.
* An exit that meets mark_update_installing between memory and disk keeps a file that does
  not say so yet: the next start reports a crash (the exception in `VerdictIsTrue`).
* A day is summed up twice if its last change never reached the disk (an exit or failed
  save in between): the exception in `CountedOnce`.
* Two terms written differently at the same instant have no winner: each computer writes
  its own to the cloud for ever, so `ComputersAgree` speaks of which terms are active and
  not of their spelling. A dictionary that would exceed its limit stops syncing.
* A failed save leaves a changed dictionary in memory.
* A pause or cancel that comes as the download ends stores Paused or Cancelled over
  Installed (state.rs:3543); remove_model that meets the last status leaves "Installed"; a
  fast pause may be lost between the registration and the reset of its flag.

Delivery:

* A failed or clipboard-only insertion leaves a record with `inserted_text` although nothing
  landed (history/mod.rs:308), against "Exactly what landed in the target app" (64). So
  `HistoryTellsWhatLanded` takes that text for what landed only if the record says keyed.
* An insertion by the `insert_text` command in the delay between paste and Enter lets the
  Enter follow that text (insertion/mod.rs:373), against "A submit may only follow the
  insertion it belongs to" (204). `WindowInserts` has it, so `EnterFollowsTheNewest` speaks of
  the newest insertion and not of the Enter's own. No view of the desktop UI calls the
  command today: `insertFinalTranscript` (useVoiceWave.ts:1666) has no caller, and does not
  send `forceClipboardOnly`, which the command's payload requires (insertion/mod.rs:23).
* A text that the user redirects by changing windows during its insertion may go to a
  terminal and yet be undone, and Ctrl+Z goes to whatever is in front then: undo_last (388)
  looks at no window.
* A cancel in the delay before a spoken Enter, after an insertion that errored, ends the run
  before record.rs:397 writes the rescue record (391: "so a failed insertion never loses the
  user's words"). An insertion errors for a text without anything to insert only.
* The first requests of two polish workers both have id 1: only the kill after a timeout keeps
  a late answer from the next dictation. An offer compares the session counter once, then
  paints. Text typed half-way and then pasted appears twice.

## 12. What is proved, what is checked, what is not modelled

| Property | TLC | TLAPS |
| --- | --- | --- |
| `DictationSession`: ReplacedRunsAreCancelled (and its types), CancelledNeverDelivers, StaleRunsLeaveTheSessionAlone, RestIsClean | yes | every instance |
| `DictationSession`: FailedRetryKeepsItsRecording | yes | no: true of some instances only |
| `HotkeyHook`: NoGhostKeys, NothingStuckInApps, EdgesFollowKeys (and its types) | yes | every instance |
| `HotkeyHook`: RebindSettles | yes | every instance with one rebinder |
| `MicKeeper`: TapServesCapture, RecordingIsContiguous | yes | every instance |
| `SpeechEngine`: OnlyCheckedModelsOnGpu, GpuTroubleLosesNothing | yes | every instance |
| `ModelDownload`: PlacedModelsAreWhole, NoFrozenBar | yes | every instance |
| `AtomicFile`: FileIsOneCell (refinement) | yes | every instance |
| `Outbox`: OffLeavesNothing; `DayTally`: OffForgetsTheDay; `SessionMarker`: VerdictIsTrue | yes | every instance |
| `TextInsertion`: EnterFollowsTheNewest, UndoIsForTheLast; `LatePolish`: HistoryTellsWhatLanded | yes | every instance |
| `FwWorker`: OneSharedWorker, CancelledDownloadStops | yes | every instance |
| `CaptureLoop`: ReleaseLetsWordsEnd; `CuePlayer`: OneStreamPlays; `DecodePolicy`: SecondVersionReturns; `DecodeRetry`: BetterOfTwo | yes | every instance |
| `GpuSelect`: UpgradeIsKept, OneBadSessionIsForgiven, OfferFollowsACheck; `MicNotices`: NoticesAreSpaced | yes | every instance |
| `Outbox`: QueueSurvives; `DayTally`: CountedOnce; `DictationStats`: EachCountsOnce; `CaptureLoop`: SpeechIsKept | yes | every instance, by induction over data |
| EveryDictationEnds, MicIsReleased, EveryDecodeEnds, ComputersAgree | yes, under fairness | out of reach: liveness |

"Every instance" means every value of the constants that satisfies the assumptions named
with the proof.

Liveness under fairness and ENABLED are out of the prover's reach and stay with TLC.
What a fold or a filter yields is proved (section 8) where folds are the library's
`FoldLeft`, `MapThenFoldSet` or a sum over a set, by induction over sets; the library's
theorems with an operator parameter are not used. The recursion that defines a fold of the
library is a CHOOSE of a function, which is why `Recursion` has to show that one exists.
No module declares a RECURSIVE operator.

Simplifications that a reader should know of, beside those named above:

* `SessionMarker`: a failed save is not modelled.
* `Outbox`: the batches of one flush are sent one after the other; the network's answer is
  a choice. `DayTally`: "Hold" counts as on; the second look at the consent in enqueue
  is part of Handle; the caps on failures and feedback are left out.
* `WordSync`: the queue of suggestions, the client's 500 ms de-duplication (a lost sync) and
  batches of more than 500 records are left out. Of the time a record was made only
  `early` is kept. A clock that is right shows the cloud's time, and a stamp at the very limit,
  which clients accept and the rules refuse, counts as acceptable everywhere.
* `AtomicFile`: sync_all is taken to flush earlier directory operations.
* `TextInsertion`: the look at the focus and the Enter are one step, and so is the typing or
  pasting of a text; the clipboard's contents
  and what the program does with the text are not modelled, nor press_enter_now.
* `LatePolish`: two dictations; a cancel drops its late attempt's handle.
* `FwWorker`: a download starts after the previous cancel returned; process ids are not
  reused. `CaptureLoop`: frames still in the channel at the end count as unheard.
  `CuePlayer`: any wait may end in a back-off. `DecodePolicy`: environment switches
  have their defaults; the choice and its load are one step. `DecodeRetry`: no shadow
  candidate, no fast first decode.
* `GpuSelect`: no dxgi pre-check and no memory tiers; the clock does not go back; the active
  GGML model is a Whisper model. `MicNotices`: signal measures are choices.
* `DictationStats`: a dictation's own clock and its log record's stamp may differ by a day,
  and either day is allowed; the summary windows, streaks and word counts are arithmetic on
  the tallies and left out.

Not modelled, for good: transcript formatting, polish gate rules and signal processing
(pure functions of text and numbers, without state); billing (a record behind
Windows' secure store, changed by one command at a time); permissions, job objects, hit
testing and command registration (system calls with little logic); telemetry counters and
support reports (nothing waits on them); benchmarks and measurement tools; the desktop
UI's own rendering state, the updater, the website and the demo video.
