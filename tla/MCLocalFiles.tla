---------------------------- MODULE MCLocalFiles ----------------------------
(* The modules about what the app keeps on disk, and of the words that it   *)
(* shares with other computers.  They share no state, so each behaviour     *)
(* looks at one of them and leaves the others where they are.               *)
EXTENDS AtomicFile, SessionMarker, Outbox, DayTally, WordSync

VARIABLE part

MCOn == [s \in Syncs |-> IF s = "s1" THEN "c1" ELSE "c2"]

Parts == {"file", "marker", "outbox", "day", "words"}

Init ==
  /\ FileInit /\ MarkerInit /\ OutboxInit /\ DayInit /\ SyncInit
  /\ part \in Parts
  /\ part # "file" => dir["path"] = Absent
  /\ part # "outbox" => stored = [on |-> FALSE, accepted |-> FALSE]
  /\ part # "day" => wanted = "off"
  /\ part # "words" => store = "terms"

Still(p) ==
  /\ p # "file" => UNCHANGED fileVars
  /\ p # "marker" => UNCHANGED markerVars
  /\ p # "outbox" => UNCHANGED outboxVars
  /\ p # "day" => UNCHANGED dayVars
  /\ p # "words" => UNCHANGED syncVars

Next ==
  /\ UNCHANGED part
  /\ \/ part = "file" /\ FileNext
     \/ part = "marker" /\ MarkerNext
     \/ part = "outbox" /\ OutboxNext
     \/ part = "day" /\ DayNext
     \/ part = "words" /\ SyncNext
  /\ Still(part)

vars == <<part, fileVars, markerVars, outboxVars, dayVars, syncVars>>

\* Only the words need fairness.
Spec == Init /\ [][Next]_vars /\ (part = "words" => SyncFairness)
=============================================================================
