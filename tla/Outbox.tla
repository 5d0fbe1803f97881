------------------------------- MODULE Outbox -------------------------------
(***************************************************************************)
(* analytics/mod.rs and analytics/outbox.rs: usage events wait in a file   *)
(* until sharing lets the sender thread post them.  Three threads meet     *)
(* here: the recorder, which queues; the sender; and whoever saves the     *)
(* settings, which carry the consent.  What is done under the outbox lock  *)
(* is one step.                                                            *)
(***************************************************************************)
EXTENDS Naturals, Sequences, FiniteSets, SequencesExt

CONSTANTS
  NoOutbox,     \* the outbox file is absent
  Torn,         \* a line that does not parse
  MaxEntries,   \* MAX_ENTRIES
  MaxBatch,     \* MAX_BATCH
  MaxEvents,    \* bound on events
  MaxChanges,   \* bound on changes of the sharing settings
  MaxLaunches   \* bound on launches

ASSUME OutboxAssumption ==
  /\ MaxEntries \in Nat \ {0} /\ MaxBatch \in Nat \ {0}
  /\ Torn \notin Nat /\ NoOutbox \notin Seq(Nat \cup {Torn})

VARIABLES
  stored,    \* the sharing settings on disk: on or off, disclosure accepted
  consent,   \* CONSENT
  queue,     \* the outbox in memory, oldest first
  lines,     \* the outbox file
  setter,    \* whether a settings save is still to purge
  recorder,  \* whether the recorder is about to queue an event
  sender,    \* where the sender is: "idle", "take", "send" or "remove"
  batch,     \* the entries it is sending
  posted,    \* entries the service has
  owed,      \* (history) entries that were queued and are to be sent
  events, changes, launches  \* counters

outboxVars == <<stored, consent, queue, lines, setter, recorder, sender, batch, posted, owed,
                events, changes, launches>>
counters == <<events, changes, launches>>

Queues(c) == c \in {"Hold", "On"}

\* set_consent
Gate(s) == IF ~ s.on THEN "Off" ELSE IF s.accepted THEN "On" ELSE "Hold"

\* An append onto a torn line is torn with it.
Appended(l, e) ==
  IF l = NoOutbox THEN <<e>>
  ELSE IF l # <<>> /\ Last(l) = Torn THEN l ELSE Append(l, e)

LinesOf(l) == IF l = NoOutbox THEN <<>> ELSE l

\* What is left of q, in its order.
Sifted(q, gone) ==
  FoldLeft(LAMBDA rest, e : IF e \in gone THEN rest ELSE Append(rest, e), <<>>, q)

\* A rewrite of the file, if anything left the queue.
Saved(q, changed) == queue' = q /\ lines' = IF changed THEN q ELSE lines

OutboxInit ==
  /\ stored \in [on : BOOLEAN, accepted : BOOLEAN]
  /\ consent = "Unknown" /\ queue = <<>> /\ lines = NoOutbox
  /\ setter = FALSE /\ recorder = FALSE /\ sender = "idle" /\ batch = <<>>
  /\ posted = {} /\ owed = {}
  /\ events = 0 /\ changes = 0 /\ launches = 0

-----------------------------------------------------------------------------
(* Consent.  settings.save writes the settings and then swaps the gate;    *)
(* the purge comes under a lock of its own.                                *)

Swap(s) ==
  /\ ~ setter /\ consent' = Gate(s)
  /\ setter' = (Gate(s) = "Off" /\ consent # "Off")

\* The settings are loaded at launch, after the outbox.
LoadSettings ==
  /\ consent = "Unknown" /\ Swap(stored)
  /\ UNCHANGED <<stored, queue, lines, recorder, sender, batch, posted, owed, counters>>

\* A disclosure that was accepted stays so.
SaveSettings ==
  /\ consent # "Unknown" /\ changes < MaxChanges /\ changes' = changes + 1
  /\ \E on, accepted \in BOOLEAN :
       /\ stored.accepted => accepted
       /\ stored' = [on |-> on, accepted |-> accepted]
  /\ Swap(stored')
  /\ UNCHANGED <<queue, lines, recorder, sender, batch, posted, owed, events, launches>>

Purge ==
  /\ setter /\ setter' = FALSE
  /\ queue' = <<>> /\ lines' = NoOutbox /\ owed' = {}
  /\ UNCHANGED <<stored, consent, recorder, sender, batch, posted, counters>>

-----------------------------------------------------------------------------
(* The recorder: enqueue. *)

Capture ==
  /\ ~ recorder /\ events < MaxEvents /\ recorder' = TRUE
  /\ UNCHANGED <<stored, consent, queue, lines, setter, sender, batch, posted, owed,
                 counters>>

\* Past the cap the oldest go and the file is rewritten; so it is when the
\* append fails half-way.
Push(e) ==
  LET over == Len(queue) >= MaxEntries
      q == Append(IF over THEN Tail(queue) ELSE queue, e)
  IN  /\ queue' = q
      /\ lines' \in {q} \cup (IF over THEN {} ELSE {Appended(lines, e)})
      /\ owed' = (owed \cup {e}) \ (IF over THEN {Head(queue)} ELSE {})
      /\ events' = e

\* Slip: the gate was looked at before the lock was taken.
EnqueueLate ==
  /\ recorder /\ recorder' = FALSE
  /\ Push(events + 1)
  /\ UNCHANGED <<stored, consent, setter, sender, batch, posted, changes, launches>>

\* The gate is looked at under the lock.
Enqueue ==
  /\ recorder /\ recorder' = FALSE
  /\ IF Queues(consent) THEN Push(events + 1)
     ELSE UNCHANGED <<queue, lines, owed, events>>
  /\ UNCHANGED <<stored, consent, setter, sender, batch, posted, changes, launches>>

-----------------------------------------------------------------------------
(* The sender: flush, from its timer or a wake. *)

At(s) == sender' = s /\ UNCHANGED <<stored, consent, setter, recorder, counters>>

Check ==
  /\ sender = "idle" /\ consent = "On" /\ At("take")
  /\ UNCHANGED <<queue, lines, batch, posted, owed>>

\* Entries past their age go first.
Take ==
  /\ sender = "take"
  /\ \E aged \in 0 .. (IF Len(queue) > 0 THEN 1 ELSE 0) :
       LET q == SubSeq(queue, aged + 1, Len(queue)) IN
       /\ Saved(q, aged > 0)
       /\ owed' = owed \cap ToSet(q)
       /\ batch' = SubSeq(q, 1, IF Len(q) < MaxBatch THEN Len(q) ELSE MaxBatch)
  /\ At(IF batch' = <<>> THEN "idle" ELSE "send") /\ UNCHANGED posted

\* The service takes the batch, or the answer is lost on the way back, or it
\* never gets there, or it is refused for good.
Send ==
  /\ sender = "send"
  /\ \/ posted' = posted \cup ToSet(batch) /\ At("remove") /\ UNCHANGED <<batch, owed>>
     \/ posted' \in {posted, posted \cup ToSet(batch)} /\ At("idle") /\ batch' = <<>> /\ UNCHANGED owed
     \/ UNCHANGED <<posted, batch>> /\ At("remove") /\ owed' = owed \ ToSet(batch)
  /\ UNCHANGED <<queue, lines>>

\* Nothing is written if a purge left nothing to remove.
Removed ==
  /\ sender = "remove" /\ At("idle") /\ batch' = <<>>
  /\ IF ToSet(batch) \cap ToSet(queue) = {} THEN UNCHANGED <<queue, lines>>
     ELSE Saved(Sifted(queue, ToSet(batch)), TRUE)
  /\ owed' = owed \ ToSet(batch)
  /\ UNCHANGED posted

-----------------------------------------------------------------------------

\* Slip: a torn last line stays in the file.
LoadTorn(l) ==
  /\ queue' = Sifted(LinesOf(l), {Torn})
  /\ lines' = l

\* Outbox::load: a line that does not parse is dropped from the file too.
Loads(l) ==
  /\ queue' = Sifted(LinesOf(l), {Torn})
  /\ lines' = IF queue' = LinesOf(l) THEN l ELSE queue'

\* The app ends at any moment, in the middle of an append too, and starts
\* again: first the outbox, later the settings.
Relaunch ==
  /\ launches < MaxLaunches /\ launches' = launches + 1
  /\ \E l \in {lines} \cup (IF recorder /\ Queues(consent) THEN {Append(LinesOf(lines), Torn)} ELSE {}) :
       Loads(l)
  /\ consent' = "Unknown" /\ setter' = FALSE /\ recorder' = FALSE
  /\ sender' = "idle" /\ batch' = <<>>
  /\ UNCHANGED <<stored, posted, owed, events, changes>>

OutboxNext ==
  \/ LoadSettings \/ SaveSettings \/ Purge
  \/ Capture \/ Enqueue
  \/ Check \/ Take \/ Send \/ Removed
  \/ Relaunch

OutboxSpec == OutboxInit /\ [][OutboxNext]_outboxVars

-----------------------------------------------------------------------------

\* Once sharing is off and the save that turned it off is done nothing waits to
\* be sent and the file is gone, and neither a queueing nor a send that was
\* under way brings it back (set_consent, enqueue, Outbox::remove).
OffLeavesNothing == consent = "Off" /\ ~ setter => queue = <<>> /\ lines = NoOutbox

\* What was queued is sent, or is still in the file for the next pass or the
\* next launch: a crash, even in the middle of an append, loses at most the
\* event it interrupted.
QueueSurvives == owed \subseteq posted \cup ToSet(LinesOf(lines))

=============================================================================
