---------------------------- MODULE TextInsertion ----------------------------
(***************************************************************************)
(* insertion/mod.rs: how a text reaches the program in front.  An          *)
(* insertion holds the engine's lock and takes several steps: it looks at  *)
(* what is in front, notes the window in front, then tries its methods one *)
(* after the other.  The user may bring another window to the front        *)
(* between any two of them.  An Enter or a Ctrl+Z is one step: it is       *)
(* checked and sent in one go.  A dictation lets go of the lock before it  *)
(* waits to press Enter, so the insert_text command of VoiceWave's own     *)
(* window may insert meanwhile.                                            *)
(***************************************************************************)
EXTENDS Naturals, Sequences, FiniteSets

CONSTANTS
  Windows,
  Host,        \* what each window belongs to: "plain", "flaky" (pasted into rather
               \* than typed into), "terminal", "prompt" (a terminal by its title only)
  Admin,       \* windows of programs that run as administrator
  Secure,      \* windows that are security dialogs
  Own,         \* VoiceWave's own window
  NoWindow, Unknown,
  MaxInserts,  \* bound on insertions
  MaxMoves,    \* bound on changes of the foreground
  MaxUndos,    \* bound on undos
  LogSize      \* history_limit

ASSUME WindowAssumption ==
  NoWindow \notin Windows /\ Host \in [Windows -> {"plain", "flaky", "terminal", "prompt"}]

VARIABLES
  front,      \* the foreground window
  call,       \* the insertion that holds the engine, or NoWindow
  landed,     \* last_landed_window
  undo,       \* last_successful
  log,        \* the engine's history
  retry,      \* a retried dictation about to insert: "no", "typing" or "clipboard"
  submit,     \* the insertion after which a dictation waits to press Enter, or 0
  latest,     \* (history) the latest insertion that worked: the window it noted and
              \* the one its keystrokes went to, if any, and whether the user changed
              \* windows during it
  enters,     \* Enters pressed after an insertion
  undone,     \* insertions for which a Ctrl+Z was sent
  inserts, moves, undos  \* counters

insertVars == <<front, call, landed, undo, log, retry, submit, latest, enters,
                undone, inserts, moves, undos>>

\* The shapes a text may have, as far as the methods tell them apart: nothing
\* but blanks, nothing left once a terminal's line is made of it, short, long.
Shapes == {"blank", "controls", "short", "long"}

Requests == [shape : Shapes, prefers : BOOLEAN, clipOnly : BOOLEAN, submits : BOOLEAN]

\* A terminal program, to be pasted into with its own chord.
IsTerminalExe(w) == Host[w] = "terminal"

\* is_terminal_target goes by the title, if the program is unknown.
IsTerminalTarget(w) == Host[w] = "prompt"

\* classify_terminal
Terminal(w) == IsTerminalExe(w) \/ IsTerminalTarget(w)

\* is_clipboard_preferred_process and is_clipboard_preferred_title
ClipboardPreferred(w) == Host[w] = "flaky"

\* foreground_is_dangerous_for_send_input
Dangerous(w) == w \in Secure

\* foreground_integrity_above_ours
Elevated(w) == w \in Admin

\* An elevated target goes to the clipboard.
Blocked(r, w) == ~ r.clipOnly /\ Elevated(w)

\* terminal_safe_text leaves one line without control characters.
Nothing(r, w) == r.shape \in {"blank"} \cup IF Terminal(w) THEN {"controls"} ELSE {}

\* should_auto_prefer_clipboard
Pastes(r, w) == r.prefers \/ r.shape = "long" \/ ClipboardPreferred(w)

\* method_order
Methods(r, w) ==
  IF r.clipOnly \/ Blocked(r, w) \/ IsTerminalTarget(w) THEN <<"clipboardOnly">>
  ELSE IF IsTerminalExe(w) \/ Pastes(r, w) THEN <<"clipboardPaste", "clipboardOnly">>
  ELSE <<"direct", "clipboardPaste", "clipboardOnly">>

InsertInit ==
  /\ front \in Windows /\ call = NoWindow /\ landed = NoWindow /\ undo = NoWindow /\ log = <<>>
  /\ retry = "no" /\ submit = 0 /\ enters = 0 /\ undone = {}
  /\ latest = [id |-> 0, noted |-> NoWindow, went |-> NoWindow, moved |-> FALSE]
  /\ inserts = 0 /\ moves = 0 /\ undos = 0

\* The foreground changes, perhaps under an insertion.
Focus(w) ==
  /\ front' = w
  /\ call' = IF call = NoWindow \/ w = front THEN call ELSE [call EXCEPT !.moved = TRUE]

-----------------------------------------------------------------------------
(* insert_text *)

\* return_focus_for_retry: VoiceWave gives the focus it took back to the window
\* the words were for, which may be gone or refuse; while VoiceWave stays in
\* front the retry gets no further than the clipboard.
ReturnFocus ==
  /\ submit = 0 /\ retry = "no" /\ inserts < MaxInserts
  /\ \E w \in Windows :
       /\ w = front \/ front = Own
       /\ Focus(w) /\ retry' = IF w = Own THEN "clipboard" ELSE "typing"
  /\ UNCHANGED <<landed, undo, log, submit, latest, enters, undone, inserts, moves, undos>>

\* What is in front is looked at.  An insertion of nothing fails here and leaves
\* no window to press Enter in.
Look(r) ==
  /\ call = NoWindow /\ inserts < MaxInserts /\ inserts' = inserts + 1 /\ landed' = NoWindow
  /\ IF Nothing(r, front)
     THEN submit' = (IF r.submits THEN inserts' ELSE submit) /\ UNCHANGED call
     ELSE /\ call' = [id |-> inserts', host |-> Host[front], at |-> Unknown, moved |-> FALSE,
                       methods |-> Methods(r, front), submits |-> r.submits]
          /\ UNCHANGED submit
  /\ UNCHANGED <<front, undo, log, latest, enters, undone, moves, undos>>

\* A dictation's insertion.  An older one that still waits for its Enter has lost
\* the session by now, so it goes first (CancelSubmit).
DictationInserts ==
  /\ submit = 0 /\ retry' = "no"
  /\ \E r \in {q \in Requests : q.clipOnly = (retry = "clipboard")} : Look(r)

\* The insert_text command asks for no Enter and waits for nobody's.
WindowInserts ==
  /\ UNCHANGED retry
  /\ \E r \in {q \in Requests : ~ q.submits} : Look(r)

\* landing_window: by now another window may be in front.
NoteWindow ==
  /\ call # NoWindow /\ call.at = Unknown /\ call' = [call EXCEPT !.at = front]
  /\ UNCHANGED <<front, landed, undo, log, retry, submit, latest, enters, undone,
                 inserts, moves, undos>>

\* record_history
Logged(how) ==
  LET l == Append(log, [id |-> call.id, how |-> how])
  IN  log' = IF Len(l) > LogSize THEN Tail(l) ELSE l

Keyed(how) == how \in {"direct", "clipboardPaste"}

\* A terminal's shell would suspend its job.
Undoable(how) == Keyed(how) /\ call.host # "terminal"

\* Slip: an insertion without an undo of its own leaves the older one.
UndoKept(how) == IF Undoable(how) THEN call.id ELSE undo

UndoAfter(how) == IF Undoable(how) THEN call.id ELSE NoWindow

\* A dictation that asked for an Enter now waits to press it.
Waits == submit' = IF call.submits THEN call.id ELSE submit

\* The end of a successful insertion.
Succeeds(how) ==
  /\ landed' = IF Keyed(how) THEN call.at ELSE NoWindow
  /\ undo' = UndoAfter(how)
  /\ Logged(how)
  /\ latest' = [id |-> call.id, moved |-> call.moved,
                noted |-> IF Keyed(how) THEN call.at ELSE NoWindow,
                went |-> IF Keyed(how) THEN front ELSE NoWindow]
  /\ call' = NoWindow /\ Waits

\* Nothing worked: the words are in the history only.
Fails ==
  /\ landed' = NoWindow /\ Logged("historyFallback") /\ call' = NoWindow /\ Waits
  /\ UNCHANGED <<undo, latest>>

\* The next method, or the end.
GoesOn ==
  IF Len(call.methods) > 1
  THEN /\ call' = [call EXCEPT !.methods = Tail(@)]
       /\ UNCHANGED <<landed, undo, log, submit, latest>>
  ELSE Fails

Trying(how) == call # NoWindow /\ call.at # Unknown /\ Head(call.methods) = how

\* Characters are sent one by one, so some may have arrived when it fails; a
\* security dialog in front is not typed into.
DirectInsert ==
  /\ Trying("direct")
  /\ \/ ~ Dangerous(front) /\ Succeeds("direct")
     \/ GoesOn
  /\ UNCHANGED <<front, retry, enters, undone, inserts, moves, undos>>

\* The clipboard first, then the chord; either may fail.
ClipboardPaste ==
  /\ Trying("clipboardPaste")
  /\ Succeeds("clipboardPaste") \/ GoesOn
  /\ UNCHANGED <<front, retry, enters, undone, inserts, moves, undos>>

ClipboardOnly ==
  /\ Trying("clipboardOnly")
  /\ Succeeds("clipboardOnly") \/ GoesOn
  /\ UNCHANGED <<front, retry, enters, undone, inserts, moves, undos>>

-----------------------------------------------------------------------------
(* The keys that may follow.  A cancelled dictation presses none.          *)

\* Slip: any window the text was not kept from.
MayPressAnywhere(w) == landed # NoWindow

\* The window the text was sent to is still in front.
MayPress(w) == landed = w

\* press_enter_after_insert, which forgets the window whatever happens.
PressEnterAfterInsert ==
  /\ submit # 0 /\ call = NoWindow /\ submit' = 0 /\ landed' = NoWindow
  /\ \/ MayPress(front) /\ ~ Dangerous(front) /\ enters' = enters + 1
     \/ UNCHANGED enters
  /\ UNCHANGED <<front, call, undo, log, retry, latest, undone, inserts, moves, undos>>

CancelSubmit ==
  /\ submit # 0 /\ submit' = 0
  /\ UNCHANGED <<front, call, landed, undo, log, retry, latest, enters, undone,
                 inserts, moves, undos>>

\* A retry that is cancelled before it inserts.
CancelRetry ==
  /\ retry # "no" /\ retry' = "no"
  /\ UNCHANGED <<front, call, landed, undo, log, submit, latest, enters, undone,
                 inserts, moves, undos>>

\* undo_last sends Ctrl+Z to whatever is in front; a failure keeps the record.
UndoLast ==
  /\ call = NoWindow /\ undo # NoWindow /\ undos < MaxUndos /\ undos' = undos + 1
  /\ \/ undo' = NoWindow /\ undone' = undone \cup {undo}
     \/ UNCHANGED <<undo, undone>>
  /\ UNCHANGED <<front, call, landed, log, retry, submit, latest, enters, inserts, moves>>

MoveFocus ==
  /\ moves < MaxMoves /\ moves' = moves + 1
  /\ \E w \in Windows \ {front} : Focus(w)
  /\ UNCHANGED <<landed, undo, log, retry, submit, latest, enters, undone, inserts, undos>>

InsertNext ==
  \/ ReturnFocus \/ DictationInserts \/ WindowInserts \/ NoteWindow
  \/ DirectInsert \/ ClipboardPaste \/ ClipboardOnly
  \/ PressEnterAfterInsert \/ CancelSubmit \/ CancelRetry \/ UndoLast \/ MoveFocus

InsertSpec == InsertInit /\ [][InsertNext]_insertVars

-----------------------------------------------------------------------------

\* A spoken "press enter" follows the newest insertion of all, which is its own
\* or one the insert_text command made in the delay, and only if keystrokes
\* carried it: not a failed one, one that only reached the clipboard, or one that
\* a newer has replaced.  It is pressed in the window that was in front just
\* before that insertion's methods were tried, which is the one its text went
\* to, unless the user changed windows in the middle of the insertion
\* (press_enter_after_insert).
EnterFollowsTheNewest ==
  [][enters' # enters =>
       /\ submit \in 1 .. inserts /\ latest.id = inserts
       /\ latest.went # NoWindow /\ front = latest.noted
       /\ front = latest.went \/ latest.moved]_insertVars

\* Ctrl+Z is sent at most once for an insertion, for the latest that worked and
\* no earlier one, and only if keystrokes carried that one to a program that is
\* no terminal: the text went there, unless the user changed windows in
\* the middle of the insertion (insert_text, undo_last).
UndoIsForTheLast ==
  [][undone' # undone =>
       /\ latest.id \notin undone /\ undone' = undone \cup {latest.id}
       /\ latest.went # NoWindow
       /\ Host[latest.went] \in {"plain", "flaky"} \/ latest.moved]_insertVars
=============================================================================
