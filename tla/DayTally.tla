------------------------------ MODULE DayTally ------------------------------
(***************************************************************************)
(* The recorder thread of analytics (analytics/day.rs).  It takes what the *)
(* app says of its dictations from a channel, counts the facts of a UTC    *)
(* day in a file, and queues that day's summary once the day is over.      *)
(* Callers only send; a burst of messages costs one write of the file.     *)
(*                                                                         *)
(* A day has the facts it counts, so that a summary says which it is made  *)
(* of; the failures and feedback reported at once are left out.            *)
(***************************************************************************)
EXTENDS Naturals, Sequences, FiniteSets, SequencesExt

CONSTANTS
  Facts,          \* what may be noted, each once
  NoDay,          \* no day in memory, or no file of one
  LastDay,        \* bound on the clock
  MaxSwitches,    \* bound on changes of the sharing settings
  MaxProcesses,   \* bound on launches
  MaxSpoilt       \* bound on saves that fail

VARIABLES
  sharing,   \* CONSENT: "unknown", "off" or "on" (held counts as on)
  wanted,    \* the setting on disk
  telling,   \* whether a switch or a launch still has to send its CheckDay
  today,     \* the clock, which may be set back
  inbox,     \* the recorder's channel
  noted,     \* the facts the app has sent
  memory,    \* the recorder's day
  dayFile,   \* analytics-day.json
  burst,     \* the recorder: "waits", "handles", "dirty" or "writes"
  summaries, \* the summaries queued
  spoilt,    \* (history) times a change of the day did not reach the disk
  processes, switches

dayVars == <<sharing, wanted, telling, today, inbox, noted, memory, dayFile, burst,
            summaries, spoilt, processes, switches>>

CheckDay == "check"
ASSUME DayAssumption ==
  CheckDay \notin Facts /\ LastDay \in Nat /\ NoDay \notin [day : Nat, counts : SUBSET Facts]

FreshDay(d) == [day |-> d, counts |-> {}]

DayInit ==
  /\ sharing = "unknown" /\ wanted \in {"off", "on"} /\ telling = FALSE /\ today = 1
  /\ inbox = <<>> /\ noted = {} /\ memory = NoDay /\ dayFile = NoDay /\ burst = "waits"
  /\ summaries = <<>> /\ spoilt = 0 /\ processes = 1 /\ switches = 0

-----------------------------------------------------------------------------
(* The rest of the app *)

\* note_dictation, capture
Note(f) ==
  /\ f \notin noted /\ noted' = noted \cup {f} /\ inbox' = Append(inbox, f)
  /\ UNCHANGED <<sharing, wanted, telling, today, memory, dayFile, burst, summaries, spoilt,
                 processes, switches>>

\* Slip: only a switch to on has the day looked at.
SaysOn(next) == next = "on"

Says(next) == next # sharing

\* set_consent, after every load and save of the settings
Apply(next) == sharing' = next /\ telling' = Says(next)

LoadConsent ==
  /\ sharing = "unknown" /\ Apply(wanted)
  /\ UNCHANGED <<wanted, today, inbox, noted, memory, dayFile, burst, summaries, spoilt,
                 processes, switches>>

Switch ==
  /\ sharing # "unknown" /\ ~ telling /\ switches < MaxSwitches /\ switches' = switches + 1
  /\ wanted' = (IF wanted = "on" THEN "off" ELSE "on") /\ Apply(wanted')
  /\ UNCHANGED <<today, inbox, noted, memory, dayFile, burst, summaries, spoilt, processes>>

Tell ==
  /\ telling /\ telling' = FALSE /\ inbox' = Append(inbox, CheckDay)
  /\ UNCHANGED <<sharing, wanted, today, noted, memory, dayFile, burst, summaries, spoilt,
                 processes, switches>>

\* The sender's tick, each minute and after each event; looked at while the
\* recorder has nothing else to do.
Tick ==
  /\ sharing = "on" /\ inbox = <<>> /\ burst = "waits" /\ inbox' = <<CheckDay>>
  /\ UNCHANGED <<sharing, wanted, telling, today, noted, memory, dayFile, burst, summaries,
                 spoilt, processes, switches>>

ClockMoves ==
  /\ today' \in {d \in 1 .. LastDay : d = today + 1 \/ d + 1 = today}
  /\ UNCHANGED <<sharing, wanted, telling, inbox, noted, memory, dayFile, burst, summaries,
                 spoilt, processes, switches>>

-----------------------------------------------------------------------------
(* The recorder *)

Loaded == IF memory # NoDay THEN memory ELSE IF dayFile # NoDay THEN dayFile ELSE FreshDay(today)

\* Slip: the new day begins with the old one's counts.
RolledInto == [Loaded EXCEPT !.day = today]

\* roll_over.  A day in the future, which the clock left, is dropped.
Rolled == IF Loaded.day = today THEN Loaded ELSE FreshDay(today)

Due == Loaded.day < today /\ Loaded.counts # {}

\* apply
CountIn(f) == [Rolled EXCEPT !.counts = @ \cup {f}]

\* Enqueue asks for the consent once more, under the lock of the outbox.
Handle ==
  /\ burst \in {"waits", "handles", "dirty"} /\ inbox # <<>> /\ inbox' = Tail(inbox)
  /\ LET message == Head(inbox) IN
     IF sharing = "unknown"
     THEN burst' = (IF burst = "dirty" THEN "dirty" ELSE "handles")
          /\ UNCHANGED <<memory, dayFile, summaries>>
     ELSE IF sharing = "off"
     THEN /\ memory' = NoDay /\ dayFile' = NoDay
          /\ burst' = (IF burst = "dirty" THEN "dirty" ELSE "handles")
          /\ UNCHANGED <<summaries>>
     ELSE /\ summaries' = IF Due THEN Append(summaries, Loaded.counts) ELSE summaries
          /\ memory' = IF message = CheckDay THEN Rolled ELSE CountIn(message)
          /\ burst' = IF burst = "dirty" \/ memory' # Loaded THEN "dirty" ELSE "handles"
          /\ UNCHANGED dayFile
  /\ UNCHANGED <<sharing, wanted, telling, today, noted, spoilt, processes, switches>>

\* The burst is over.  Saving looks at the consent once more before it writes.
BurstOver ==
  /\ burst \in {"handles", "dirty"} /\ inbox = <<>>
  /\ LET owes == burst = "dirty" /\ memory # NoDay IN
       /\ burst' = IF owes /\ sharing = "on" THEN "writes" ELSE "waits"
       /\ spoilt' = IF owes /\ sharing # "on" THEN spoilt + 1 ELSE spoilt
  /\ UNCHANGED <<sharing, wanted, telling, today, inbox, noted, memory, dayFile, summaries,
                 processes, switches>>

SaveDay ==
  /\ burst = "writes" /\ burst' = "waits"
  /\ \/ dayFile' = memory /\ UNCHANGED spoilt
     \/ spoilt < MaxSpoilt /\ spoilt' = spoilt + 1 /\ UNCHANGED dayFile
  /\ UNCHANGED <<sharing, wanted, telling, today, inbox, noted, memory, summaries,
                 processes, switches>>

\* An exit or a crash; no exit waits for the recorder.
EndAndRelaunch ==
  /\ processes < MaxProcesses /\ processes' = processes + 1
  /\ sharing' = "unknown" /\ telling' = FALSE /\ inbox' = <<>> /\ memory' = NoDay
  /\ burst' = "waits"
  /\ spoilt' = IF burst \in {"dirty", "writes"} THEN spoilt + 1 ELSE spoilt
  /\ UNCHANGED <<wanted, today, noted, dayFile, summaries, switches>>

DayNext ==
  \/ \E f \in Facts : Note(f)
  \/ LoadConsent \/ Switch \/ Tell \/ Tick \/ ClockMoves
  \/ Handle \/ BurstOver \/ SaveDay \/ EndAndRelaunch

DaySpec == DayInit /\ [][DayNext]_dayVars

-----------------------------------------------------------------------------

\* A dictation is in the summary of one day at most, wherever midnight, a clock
\* that is set back, a switch of sharing or a restart falls; only a day whose
\* last change never reached its file is summed up twice (roll_over, save).
CountedOnce ==
  \A f \in Facts :
    Cardinality({i \in DOMAIN summaries : f \in summaries[i]}) <= 1 + spoilt

\* With sharing off the day is forgotten: once the recorder has handled what it
\* was sent there is no day file, even if the switch came between the check and
\* the write of a save, or before a restart (drop_day, save).
OffForgetsTheDay ==
  sharing = "off" /\ ~ telling /\ inbox = <<>> /\ burst = "waits" =>
    dayFile = NoDay /\ memory = NoDay
=============================================================================
