---------------------------- MODULE DictationStats ----------------------------
(***************************************************************************)
(* The tallies of the Stats tab (stats/mod.rs): so many dictations on each *)
(* day, counted as they end, and imported once from the diagnostics log    *)
(* (diagnostics/mod.rs), which keeps the last of them for those who opted  *)
(* in.  Both are files of their own, saved after every change and reset    *)
(* when they cannot be read.                                               *)
(***************************************************************************)
EXTENDS Naturals, Sequences, FiniteSetsExt, SequencesExt

CONSTANTS
  LastDate,    \* the calendar is 1 .. LastDate
  MaxSpoken,   \* bound on dictations that count
  MaxMishaps,  \* bound on failed saves, unreadable files and clocks set back
  MaxRows      \* MAX_RECORDS of the diagnostics

ASSUME DatesAssumption == LastDate \in Nat \ {0} /\ MaxRows \in Nat \ {0}

Dates == 1 .. LastDate

VARIABLES
  date,          \* the local day
  tally, tallyFile,   \* StatsStore, in memory and in its file
  kept, keptFile,       \* the diagnostics records
  ending,        \* the dictation that record_dictation has: none, or how far it is
  mishaps,
  spoken         \* (history) the days that each counted dictation could be counted on

statsVars == <<date, tally, tallyFile, kept, keptFile, ending, mishaps, spoken>>

NoTally == [days |-> [d \in Dates |-> 0], backfilled |-> FALSE]
Ended == [at |-> "none"]

Mishap == mishaps < MaxMishaps /\ mishaps' = mishaps + 1

\* persist: the change stays in memory when its save fails.
SaveTo(totals, mem, file) ==
  /\ mem' = totals
  /\ \/ file' = totals /\ UNCHANGED mishaps
     \/ Mishap /\ UNCHANGED file

\* ingest
Ingest(totals, d) == [totals EXCEPT !.days[d] = @ + 1]

\* Slip: the import does not remember that it ran.
BackfillAnew(totals, records) ==
  FoldLeft(LAMBDA s, r : IF r.counts THEN Ingest(s, r.date) ELSE s, totals, records)

\* backfill_from_latency_records
Backfill(totals, records) ==
  [FoldLeft(LAMBDA s, r : IF r.counts THEN Ingest(s, r.date) ELSE s, totals, records)
     EXCEPT !.backfilled = TRUE]

\* The start of the app: the log may be unreadable, ...
LoadLog ==
  /\ ending.at # "load" /\ ending' = [at |-> "load"]
  /\ \/ keptFile' = keptFile /\ UNCHANGED mishaps
     \/ Mishap /\ keptFile' = <<>>
  /\ kept' = keptFile'
  /\ UNCHANGED <<date, tally, tallyFile, spoken>>

\* ... the tallies too, and those that had no import get one.
LoadTally ==
  /\ ending.at = "load" /\ ending' = Ended
  /\ \E found \in {tallyFile, NoTally} :
       IF found.backfilled THEN tally' = found /\ UNCHANGED <<tallyFile, mishaps>>
       ELSE SaveTo(Backfill(found, kept), tally, tallyFile)
  /\ UNCHANGED <<date, kept, keptFile, spoken>>

\* An update from a version that had the log only.
StatsInit ==
  /\ date = 1 /\ ending = [at |-> "load"] /\ mishaps = 0
  /\ keptFile \in UNION {[1 .. n -> [date : {1}, counts : BOOLEAN]] : n \in 0 .. MaxRows}
  /\ kept = keptFile /\ tally = NoTally /\ tallyFile = NoTally
  /\ spoken = [i \in 1 .. Cardinality({i \in DOMAIN kept : kept[i].counts}) |-> {1}]

\* The dictation has its outcome, its time stamp, and settings.diagnostics_opt_in
\* as they were when it began.
Speak(counts, optIn) ==
  /\ ending = Ended /\ (counts => Len(spoken) < MaxSpoken)
  /\ ending' = [at |-> "count", date |-> date, counts |-> counts, keep |-> optIn]
  /\ spoken' = IF counts THEN Append(spoken, {date}) ELSE spoken
  /\ UNCHANGED <<date, tally, tallyFile, kept, keptFile, mishaps>>

\* record_dictation, with a clock of its own.
Count ==
  /\ ending.at = "count" /\ ending' = [ending EXCEPT !.at = "keep"]
  /\ IF ending.counts
     THEN /\ SaveTo(Ingest(tally, date), tally, tallyFile)
          /\ spoken' = [spoken EXCEPT ![Len(spoken)] = @ \cup {date}]
     ELSE UNCHANGED <<tally, tallyFile, mishaps, spoken>>
  /\ UNCHANGED <<date, kept, keptFile>>

\* record_latency
Keep ==
  /\ ending.at = "keep" /\ ending' = Ended
  /\ IF ending.keep
     THEN LET rows == Append(kept, [date |-> ending.date, counts |-> ending.counts])
          IN SaveTo(IF Len(rows) > MaxRows THEN Tail(rows) ELSE rows, kept, keptFile)
     ELSE UNCHANGED <<kept, keptFile, mishaps>>
  /\ UNCHANGED <<date, tally, tallyFile, spoken>>

\* The clock moves on, or is set back.
SetDate(d) ==
  /\ date # d /\ date' = d
  /\ IF d > date THEN UNCHANGED mishaps ELSE Mishap
  /\ UNCHANGED <<tally, tallyFile, kept, keptFile, ending, spoken>>

StatsNext ==
  \/ \E counts, optIn \in BOOLEAN : Speak(counts, optIn)
  \/ Count \/ Keep \/ LoadLog \/ LoadTally
  \/ \E d \in Dates : SetDate(d)

StatsSpec == StatsInit /\ [][StatsNext]_statsVars

-----------------------------------------------------------------------------

\* A dictation counts once, on a day on which it ended, whatever saves failed,
\* whichever file was reset, and whether it was counted as it ended or was
\* imported from the log: no set of days has more than was spoken on them
\* (stats/mod.rs:315).  Those that failed or were too short never count.
EachCountsOnce ==
  \A ds \in SUBSET Dates :
    MapThenSumSet(LAMBDA d : tally.days[d], ds)
      <= Cardinality({i \in DOMAIN spoken : spoken[i] \cap ds # {}})

=============================================================================
