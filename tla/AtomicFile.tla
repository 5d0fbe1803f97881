----------------------------- MODULE AtomicFile -----------------------------
(***************************************************************************)
(* atomic_file.rs: one store file and its siblings.  atomic_write builds   *)
(* the new contents beside the old ones and renames twice;                 *)
(* load_with_recovery finishes or undoes what an earlier write left.       *)
(* Every file operation is a step of its own; it may fail, and the process *)
(* or the power may go before the next one.  Reads fail too: fs::read with *)
(* an error, and exists(), which says no of a file whose metadata cannot   *)
(* be had.  One caller at a time, as under the lock of its store.          *)
(*                                                                         *)
(* The disk keeps its directory operations in order and lags behind them:  *)
(* a power loss falls back to one of the directories since the last        *)
(* sync_all, and a file whose contents were not synced is then unusable.   *)
(***************************************************************************)
EXTENDS Naturals, FiniteSets

CONSTANTS
  Values,       \* contents that decode
  Missing,      \* no usable contents; the caller starts from its defaults
  Absent,       \* no such file
  Empty,        \* blank or zero-filled (is_unusable_empty)
  Corrupt,      \* something else that does not decode
  MaxFileCalls  \* bound on writes, loads and restarts

ASSUME KindsAssumption ==
  /\ Values \cap {Absent, Empty, Corrupt} = {}
  /\ Absent \notin {Empty, Corrupt}

VARIABLES
  dir,      \* contents of path, .bak, .tmp and .corrupt-<millis>
  behind,   \* directories a power loss may bring back
  fpc,      \* next step of the write or load under way, or "idle"
  goal,     \* what the write under way is to store
  existed,  \* had_existing
  answer,   \* what the last load returned
  misread,  \* history: the load under way passed over a copy that decodes
  calls     \* writes, loads and restarts so far

fileVars == <<dir, behind, fpc, goal, existed, answer, misread, calls>>

Names == {"path", "bak", "tmp", "aside"}
Contents == Values \cup {Absent, Empty, Corrupt}
Usable(d, n) == d[n] \in Values

\* What a load of this directory returns: the primary, or else its backup.
Backup(d) == IF Usable(d, "bak") THEN d["bak"] ELSE Missing
Held(d) == IF Usable(d, "path") THEN d["path"] ELSE Backup(d)

FileInit ==
  /\ \E c \in Contents : dir = [n \in Names |-> IF n = "path" THEN c ELSE Absent]
  /\ behind = {dir} /\ fpc = "idle" /\ goal = Missing
  /\ existed = FALSE /\ answer = Missing /\ misread = FALSE /\ calls = 0

Without(n) == [dir EXCEPT ![n] = Absent]
Renamed(a, b) == [dir EXCEPT ![b] = dir[a], ![a] = Absent]

\* A directory operation, and the step after it.
Does(d, next) == dir' = d /\ behind' = behind \cup {d} /\ fpc' = next
Skips(next) == fpc' = next /\ UNCHANGED <<dir, behind>>

\* What this step reads instead of these is no fault of theirs.
PassesOver(ns) == misread' = (misread \/ \E n \in ns : Usable(dir, n))

Unlink(n, next) == Does(IF dir[n] = Absent THEN dir ELSE Without(n), next)

-----------------------------------------------------------------------------
(* atomic_write *)

Write(v) ==
  /\ fpc = "idle" /\ calls < MaxFileCalls /\ calls' = calls + 1
  /\ goal' = v /\ misread' = FALSE /\ Skips("clear") /\ UNCHANGED <<existed, answer>>

\* A leftover .tmp goes first, unless it is not seen; failing at it is an
\* error, as at most steps.
ClearTmp ==
  /\ fpc = "clear" /\ (Unlink("tmp", "create") \/ Skips("create") \/ Skips("idle"))
  /\ UNCHANGED <<goal, existed, answer, misread, calls>>

\* The new .tmp, whose contents are not there yet.
CreateTmp ==
  /\ fpc = "create" /\ (Does([dir EXCEPT !["tmp"] = Empty], "fill") \/ Skips("idle"))
  /\ UNCHANGED <<goal, existed, answer, misread, calls>>

\* write_all, sync_all: all of it is durable, or the call fails half-way.
FillTmp ==
  /\ fpc = "fill"
  /\ \/ /\ dir' = [dir EXCEPT !["tmp"] = goal] /\ behind' = {dir'}
        /\ fpc' = "keep" /\ existed' \in {dir["path"] # Absent, FALSE}
     \/ /\ Does([dir EXCEPT !["tmp"] = Corrupt], "idle") /\ UNCHANGED existed
  /\ UNCHANGED <<goal, answer, misread, calls>>

\* Slip: the old file is removed instead of being kept as .bak.
KeepNothing ==
  /\ fpc = "keep" /\ Unlink("path", "promote")
  /\ UNCHANGED <<goal, existed, answer, misread, calls>>

\* The old file takes the place of an older .bak, which goes first if seen.
KeepOld ==
  /\ fpc = "keep"
  /\ IF ~ existed THEN Skips("promote")
     ELSE \/ dir["bak"] # Absent /\ Unlink("bak", "keep")
          \/ Does(Renamed("path", "bak"), "promote")
          \/ Skips("idle")
  /\ UNCHANGED <<goal, existed, answer, misread, calls>>

\* The rename that stores the new value; if it fails the old file comes back.
Promote ==
  /\ fpc = "promote"
  /\ \/ Does(Renamed("tmp", "path"), IF existed THEN "tidy" ELSE "idle")
     \/ Skips(IF existed THEN "putBack" ELSE "dropTmp")
  /\ UNCHANGED <<goal, existed, answer, misread, calls>>

PutBack ==
  /\ fpc = "putBack" /\ (Does(Renamed("bak", "path"), "dropTmp") \/ Skips("dropTmp"))
  /\ UNCHANGED <<goal, existed, answer, misread, calls>>

DropTmp ==
  /\ fpc = "dropTmp" /\ (Unlink("tmp", "idle") \/ Skips("idle"))
  /\ UNCHANGED <<goal, existed, answer, misread, calls>>

\* Dropping the backup is best effort, after a write and after a good load.
Tidy ==
  /\ fpc = "tidy" /\ (Unlink("bak", "idle") \/ Skips("idle"))
  /\ UNCHANGED <<goal, existed, answer, misread, calls>>

-----------------------------------------------------------------------------
(* load_with_recovery *)

Load ==
  /\ fpc = "idle" /\ calls < MaxFileCalls /\ calls' = calls + 1
  /\ misread' = FALSE /\ Skips("restore") /\ UNCHANGED <<goal, existed, answer>>

\* recover_interrupted_replace, where either file may go unseen: the backup
\* for a primary that is not there, or is not seen.  A failed rename leaves
\* the .tmp too.
Restore ==
  /\ fpc = "restore"
  /\ \/ /\ dir["bak"] # Absent
        /\ Does(Renamed("bak", "path"), "sweep") /\ PassesOver({"path"})
     \/ dir["bak"] # Absent /\ Skips("read") /\ UNCHANGED misread
     \/ Skips("sweep") /\ UNCHANGED misread
  /\ UNCHANGED <<goal, existed, answer, calls>>

Sweep ==
  /\ fpc = "sweep" /\ (Unlink("tmp", "read") \/ Skips("read"))
  /\ UNCHANGED <<goal, existed, answer, misread, calls>>

\* The primary, if it can be read and decodes.  Nothing, if neither there
\* is a usable primary to be seen nor any backup.  Or else the backup.
ReadPath ==
  /\ fpc = "read"
  /\ \/ /\ Usable(dir, "path")
        /\ answer' = dir["path"] /\ Skips("tidy") /\ UNCHANGED misread
     \/ answer' = Missing /\ Skips("idle") /\ PassesOver({"path", "bak"})
     \/ /\ {dir["path"], dir["bak"]} # {Absent}
        /\ Skips("backup") /\ PassesOver({"path"}) /\ UNCHANGED answer
  /\ UNCHANGED <<goal, existed, calls>>

ReadBackup ==
  /\ fpc = "backup"
  /\ \/ /\ Usable(dir, "bak")
        /\ answer' = dir["bak"] /\ Skips("dropPath") /\ UNCHANGED misread
     \/ answer' = Missing /\ Skips("quarantine") /\ PassesOver({"bak"})
  /\ UNCHANGED <<goal, existed, calls>>

DropPath ==
  /\ fpc = "dropPath" /\ (Unlink("path", "promoteBak") \/ Skips("promoteBak"))
  /\ UNCHANGED <<goal, existed, answer, misread, calls>>

PromoteBackup ==
  /\ fpc = "promoteBak" /\ (Does(Renamed("bak", "path"), "idle") \/ Skips("idle"))
  /\ UNCHANGED <<goal, existed, answer, misread, calls>>

Quarantine ==
  /\ fpc = "quarantine"
  /\ \/ Does(IF dir["path"] = Absent THEN dir ELSE Renamed("path", "aside"), "tidy")
     \/ Skips("tidy")
  /\ UNCHANGED <<goal, existed, answer, misread, calls>>

-----------------------------------------------------------------------------
(* The process ends at any step; the power may go with it. *)

\* A file that is being filled holds part of its contents.
Cut(d) == IF fpc = "fill" THEN [d EXCEPT !["tmp"] = Corrupt] ELSE d

ProcessDies ==
  /\ calls < MaxFileCalls /\ calls' = calls + 1 /\ fpc' = "idle"
  /\ dir' \in {dir, Cut(dir)} /\ behind' = behind \cup {dir'} /\ misread' = FALSE
  /\ UNCHANGED <<goal, existed, answer>>

PowerGoes ==
  /\ calls < MaxFileCalls /\ calls' = calls + 1 /\ fpc' = "idle"
  /\ dir' \in behind /\ behind' = {dir'} /\ misread' = FALSE
  /\ UNCHANGED <<goal, existed, answer>>

FileNext ==
  \/ \E v \in Values : Write(v)
  \/ ClearTmp \/ CreateTmp \/ FillTmp \/ KeepOld \/ Promote \/ PutBack \/ DropTmp \/ Tidy
  \/ Load \/ Restore \/ Sweep \/ ReadPath \/ ReadBackup \/ DropPath \/ PromoteBackup \/ Quarantine
  \/ ProcessDies \/ PowerGoes

FileSpec == FileInit /\ [][FileNext]_fileVars

-----------------------------------------------------------------------------

\* What a load returns if it can read everything, and what it may go back to.
Copies(d) == [now |-> Held(d), before |-> Backup(d)]

Cell == INSTANCE StoreCell
  WITH store <- Copies(dir), recent <- {Copies(d) : d \in behind}, unread <- misread

\* "Never exposes a truncated primary": through every step of a write that
\* fails, every exit and power loss and the repair after them, the file
\* behaves as one value that changes at once, is not lost, and is at worst one
\* write old.  A load is a true answer unless it could not read a copy that
\* decodes; it may then fall back, for good, to the backup or to nothing.
FileIsOneCell == Cell!CellSpec

=============================================================================
