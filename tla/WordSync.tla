------------------------------ MODULE WordSync ------------------------------
(***************************************************************************)
(* The user's words on several computers: dictionary/mod.rs keeps the      *)
(* terms and snippet/mod.rs the voice snippets of one, and each is merged  *)
(* with a copy in the cloud whenever its computer signs in or the user     *)
(* changes something (lib/dictionarySync.ts, lib/snippetSync.ts).  A       *)
(* computer lists the cloud's records, reconciles them with its own, and   *)
(* writes back the records that differ; the cloud keeps what it is given.  *)
(*                                                                         *)
(* A record has the time of its last change, says whether the word was     *)
(* removed then, and has a text (a snippet's removal has none).  A word a  *)
(* computer has no record of is a removal at time 0.  Of the time a record *)
(* was made only one thing counts: whether it is before 2021, when no      *)
(* clock that is right can have stood.                                     *)
(*                                                                         *)
(* The cloud refuses a batch with a stamp before 2021 or too far ahead of  *)
(* its own time.  A computer leaves out such snippets of the cloud, by its *)
(* own clock, which may be off.                                            *)
(***************************************************************************)
EXTENDS Naturals, FiniteSets, FiniteSetsExt

CONSTANTS
  Computers,
  Syncs,      \* runs of a sync; one computer may have two under way
  On,         \* the computer a sync runs on
  Words,      \* identities: a normalized term or trigger
  Texts,      \* what a word may be written as or stand for, from 1 up
  MaxActive,  \* MAX_APPROVED_TERMS
  Oldest,     \* MIN_SYNC_TIMESTAMP_MS: the first of January 2021
  Skew,       \* MAX_FUTURE_TIMESTAMP_SKEW_MS: five minutes
  Off,        \* computers whose clocks are off at first
  MaxClock,   \* bound on the time and on what a computer's clock may show
  MaxEdits,   \* bound on the user's changes
  MaxLosses   \* bound on syncs that fail half-way

ASSUME ClockAssumption == Oldest \in 1 .. MaxClock /\ Skew \in Nat

VARIABLES
  time,    \* the cloud's
  right,   \* computers whose clocks show it; any other shows anything
  store,   \* which of the two this is: "terms" or "snippets"
  words,   \* each computer's records
  cloud,   \* the cloud's records
  phase,   \* of each sync: "idle", "listed" or "sending"
  carried, \* the records a sync has in its hands
  edits, losses  \* counters

clockVars == <<time, right>>
syncVars == <<clockVars, store, words, cloud, phase, carried, edits, losses>>

Never == [at |-> 0, gone |-> TRUE, text |-> 0, early |-> FALSE]
NoRecords == [w \in Words |-> Never]

SyncInit ==
  /\ time = Oldest /\ right = Computers \ Off
  /\ store \in {"terms", "snippets"}
  /\ words = [c \in Computers |-> NoRecords] /\ cloud = NoRecords
  /\ phase = [s \in Syncs |-> "idle"] /\ carried = [s \in Syncs |-> NoRecords]
  /\ edits = 0 /\ losses = 0

Active(rs) == {w \in Words : ~ rs[w].gone}

-----------------------------------------------------------------------------
(* Clocks *)

TimePasses == time < MaxClock /\ time' = time + 1 /\ UNCHANGED right
SetRight(c) == c \notin right /\ right' = right \cup {c} /\ UNCHANGED time

ClocksMove ==
  /\ TimePasses \/ \E c \in Computers : SetRight(c)
  /\ UNCHANGED <<store, words, cloud, phase, carried, edits, losses>>

\* What computer c may take the time for.
Readings(c) == IF c \in right THEN {time} ELSE 1 .. MaxClock

\* isSyncableTimestamp, validate_record and isReasonableTimestamp of all the
\* stamps of a record: none is before the first or after the last.
Syncable(r, now) == ~ r.early /\ r.at <= now + Skew

-----------------------------------------------------------------------------
(* The user's changes *)

\* monotonic_timestamp
Stamp(now, r) == IF now > r.at THEN now ELSE r.at + 1

\* A record of a change at this time; a new one is made then.
Changed(r, at, gone, text) ==
  [at |-> at, gone |-> gone, text |-> text,
   early |-> IF r = Never THEN at < Oldest ELSE r.early]

Change == edits < MaxEdits /\ edits' = edits + 1

\* upsert_active_record and add_snippet: an active word stays as it is.
Add(c, w, t) ==
  /\ words[c][w].gone /\ Cardinality(Active(words[c])) < MaxActive
  /\ \E now \in Readings(c) :
       words' = [words EXCEPT ![c][w] = Changed(@, Stamp(now, @), FALSE, t)]

RemoveTerm(c, w) ==
  /\ store = "terms" /\ ~ words[c][w].gone
  /\ \E now \in Readings(c) :
       words' = [words EXCEPT ![c][w] = Changed(@, Stamp(now, @), TRUE, @.text)]

RemoveSnippet(c, w) ==
  /\ store = "snippets" /\ ~ words[c][w].gone
  /\ \E now \in Readings(c) :
       words' = [words EXCEPT ![c][w] = Changed(@, Stamp(now, @), TRUE, 0)]

\* update_snippet under the same trigger.
Edit(c, w, t) ==
  /\ store = "snippets" /\ ~ words[c][w].gone
  /\ \E now \in Readings(c) :
       words' = [words EXCEPT ![c][w] = Changed(@, Stamp(now, @), FALSE, t)]

\* update_snippet under another one removes the old and adds the new at once.
Rename(c, v, w, t) ==
  /\ store = "snippets" /\ ~ words[c][v].gone /\ words[c][w].gone
  /\ \E now \in Readings(c) :
       LET older == IF words[c][v].at > words[c][w].at THEN words[c][v] ELSE words[c][w]
           at == Stamp(now, older)
       IN  words' = [words EXCEPT ![c][v] = Changed(@, at, TRUE, 0),
                                  ![c][w] = Changed(@, at, FALSE, t)]

UserChanges ==
  /\ Change
  /\ \E c \in Computers, w \in Words :
       \/ RemoveTerm(c, w) \/ RemoveSnippet(c, w)
       \/ \E t \in Texts :
            \/ Add(c, w, t) \/ Edit(c, w, t)
            \/ \E v \in Words \ {w} : Rename(c, v, w, t)
  /\ UNCHANGED <<clockVars, store, cloud, phase, carried, losses>>

-----------------------------------------------------------------------------
(* A sync *)

\* The dictionary's rule: the later one, and a removal of the same time.
TermWins(r, old) == r.at > old.at \/ (r.at = old.at /\ r.gone /\ ~ old.gone)

\* canonical_record_tuple settles any other tie between snippets.
SnippetWins(r, old) ==
  \/ TermWins(r, old)
  \/ /\ r.at = old.at /\ r.gone = old.gone
     /\ r.text > old.text \/ (r.text = old.text /\ old.early /\ ~ r.early)

Wins(r, old) == IF store = "terms" THEN TermWins(r, old) ELSE SnippetWins(r, old)

Reconciled(rs, remote) == [w \in Words |-> IF Wins(remote[w], rs[w]) THEN remote[w] ELSE rs[w]]

\* Snippets whose stamps cannot be, by this computer's clock, stay in the cloud
\* but are not listed.
List(s) ==
  /\ phase[s] = "idle" /\ phase' = [phase EXCEPT ![s] = "listed"]
  /\ \E now \in Readings(On[s]) :
       carried' = [carried EXCEPT ![s] =
         [w \in Words |-> IF store = "terms" \/ Syncable(cloud[w], now) THEN cloud[w] ELSE Never]]
  /\ UNCHANGED <<clockVars, store, words, cloud, edits, losses>>

\* reconcile_dictionary_records refuses to go over the limit and then changes
\* nothing; reconcile_records only reports it.
Fits(rs) == store = "terms" => Cardinality(Active(rs)) <= MaxActive

\* Slip: only words the cloud does not have are written back.
DiffersByWord(r, remote) == r # remote /\ remote.at = 0

Differs(r, remote) == r # remote

\* validate_sync_record: the clock may have gone back since the records were
\* listed; one that is now too far ahead fails all of them.
Valid(s, now) == store = "terms" \/ \A w \in Words : Syncable(carried[s][w], now)

\* With nothing to write back the sync is over.
Reconcile(s) ==
  LET c == On[s]
      merged == Reconciled(words[c], carried[s])
      changed == [w \in Words |-> IF Differs(merged[w], carried[s][w]) THEN merged[w] ELSE Never]
  IN
  /\ phase[s] = "listed" /\ UNCHANGED <<clockVars, store, cloud, edits, losses>>
  /\ \E now \in Readings(c) :
       IF Valid(s, now) /\ Fits(merged)
       THEN /\ words' = [words EXCEPT ![c] = merged]
            /\ phase' = [phase EXCEPT ![s] = IF changed = NoRecords THEN "idle" ELSE "sending"]
            /\ carried' = [carried EXCEPT ![s] = changed]
       ELSE /\ phase' = [phase EXCEPT ![s] = "idle"]
            /\ carried' = [carried EXCEPT ![s] = NoRecords] /\ UNCHANGED words

\* The documents are set, whatever another computer wrote meanwhile; the
\* security rules refuse all of them for the stamps of one.
Upsert(s) ==
  /\ phase[s] = "sending" /\ phase' = [phase EXCEPT ![s] = "idle"]
  /\ cloud' = IF \A w \in Words : Syncable(carried[s][w], time)
              THEN [w \in Words |-> IF carried[s][w] = Never THEN cloud[w] ELSE carried[s][w]]
              ELSE cloud
  /\ carried' = [carried EXCEPT ![s] = NoRecords]
  /\ UNCHANGED <<clockVars, store, words, edits, losses>>

\* The network, the disk, a guardrail of cloudSync.ts, a sign-out or an exit ends
\* it before its next step.
Lose(s) ==
  /\ losses < MaxLosses /\ losses' = losses + 1
  /\ phase[s] # "idle" /\ phase' = [phase EXCEPT ![s] = "idle"]
  /\ carried' = [carried EXCEPT ![s] = NoRecords]
  /\ UNCHANGED <<clockVars, store, words, cloud, edits>>

SyncStep(s) == List(s) \/ Reconcile(s) \/ Upsert(s)

SyncNext == UserChanges \/ ClocksMove \/ \E s \in Syncs : SyncStep(s) \/ Lose(s)

SyncsOn(c) == \E s \in Syncs : On[s] = c /\ SyncStep(s)

\* Every computer goes on syncing: each start of the app and each change begins
\* a sync.  One of its syncs can always take a step, so this is weak fairness.
SyncFairness == \A c \in Computers : []<><<SyncsOn(c)>>_syncVars

SyncSpec == SyncInit /\ [][SyncNext]_syncVars /\ SyncFairness

-----------------------------------------------------------------------------

\* Two computers agree on which terms they have, unless together they have too
\* many, and on snippets entirely.
Agree ==
  \A c, d \in Computers :
    IF store = "snippets" THEN words[c] = words[d]
    ELSE Active(words[c]) = Active(words[d]) \/ ~ Fits(Reconciled(words[c], words[d]))

\* What keeps them apart for good: a clock that is still off, or a record that
\* the cloud refuses, and with it every batch of its computer, because it was
\* made by a clock before 2021 or is stamped too far ahead of the time.
Barred(c) ==
  c \notin right \/ \E w \in Words : words[c][w] # cloud[w] /\ ~ Syncable(words[c][w], time)

\* Once the user stops changing words, and unless a clock stays off or has left
\* a stamp that the cloud refuses, all computers come to agree on the words and
\* stay so: although syncs overlap and overwrite each other's documents, some
\* are lost half-way, and clocks were off by any amount before.
ComputersAgree == <>[](Agree \/ \E c \in Computers : Barred(c))
=============================================================================
