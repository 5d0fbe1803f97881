---------------------------- MODULE Delivery_proofs ----------------------------
(***************************************************************************)
(* Proofs about what becomes of a dictation's text: an Enter follows the   *)
(* newest insertion into the window it noted and an undo is for the latest *)
(* that worked (TextInsertion), and History tells what landed              *)
(* (LatePolish), for any number of windows, dictations, faults, restarts   *)
(* and any order of what runs behind an insertion.                         *)
(***************************************************************************)
EXTENDS TextInsertion, LatePolish, FiniteSetTheorems, SequenceTheorems, TLAPS

-----------------------------------------------------------------------------
(* The keys that follow an insertion. *)

\* The methods of an insertion under way: a program known as a terminal by its
\* title only is not sent keystrokes.
MethodLists ==
  {<<"clipboardOnly">>, <<"clipboardPaste", "clipboardOnly">>,
   <<"direct", "clipboardPaste", "clipboardOnly">>}

\* Insertions are numbered as they come.  What the one under way knows of the
\* window in front is true, unless the user changed windows since it looked.
CallInv ==
  call # NoWindow =>
    /\ call.id = inserts /\ inserts > 0
    /\ call.methods \in MethodLists
    /\ call.host \in {"plain", "flaky", "terminal", "prompt"}
    /\ call.host = "prompt" => call.methods = <<"clipboardOnly">>
    /\ call.moved \in BOOLEAN
    /\ Host[front] = call.host \/ call.moved
    /\ front = call.at \/ call.moved \/ call.at = Unknown
    /\ landed = NoWindow

\* The window an Enter may go to is the one that the newest insertion noted and
\* sent its keystrokes to.
AimInv ==
  /\ submit \in 0 .. inserts
  /\ landed # NoWindow =>
       /\ latest.id = inserts /\ latest.noted = landed /\ latest.went # NoWindow
       /\ landed = latest.went \/ latest.moved

\* The insertion that an undo is for is the latest that worked, was not undone,
\* and went to no terminal, unless the user changed windows during it.
UndoInv ==
  /\ inserts \in Nat
  /\ \A i \in undone : i \in 1 .. inserts /\ (call # NoWindow => i < inserts)
  /\ undo # NoWindow =>
       /\ undo \in 1 .. inserts /\ undo \notin undone
       /\ latest.id = undo /\ latest.went # NoWindow
       /\ Host[latest.went] \in {"plain", "flaky"} \/ latest.moved

KeysInv == front \in Windows /\ CallInv /\ AimInv /\ UndoInv

\* What is in front is looked at.
LEMMA LookKeeps ==
  ASSUME KeysInv, NEW r \in Requests, Look(r)
  PROVE  KeysInv'
<1>1. /\ call = NoWindow /\ inserts' = inserts + 1 /\ landed' = NoWindow
      /\ UNCHANGED <<front, undo, latest, undone>>
      /\ front \in Windows /\ CallInv /\ AimInv /\ UndoInv /\ inserts \in Nat
  BY DEF Look, KeysInv, UndoInv
<1>2. \/ call' = call
      \/ call' = [id |-> inserts', host |-> Host[front], at |-> Unknown, moved |-> FALSE,
                  methods |-> Methods(r, front), submits |-> r.submits]
  BY DEF Look
<1>3. Host[front] \in {"plain", "flaky", "terminal", "prompt"}
  BY <1>1, WindowAssumption
<1>4. /\ Methods(r, front) \in MethodLists
      /\ Host[front] = "prompt" => Methods(r, front) = <<"clipboardOnly">>
  BY DEF Methods, MethodLists, IsTerminalTarget
<1>5. CallInv'
  <2>1. CASE call' = call
    BY <1>1, <2>1 DEF CallInv
  <2>2. CASE call' # call
    <3>1. /\ call'.id = inserts' /\ call'.host = Host[front] /\ call'.at = Unknown
          /\ call'.moved = FALSE /\ call'.methods = Methods(r, front)
      BY <1>2, <2>2
    <3>2. inserts' > 0
      BY <1>1
    <3> QED
      BY <1>1, <1>3, <1>4, <3>1, <3>2 DEF CallInv
  <2> QED
    BY <2>1, <2>2
<1>6. AimInv'
  BY <1>1 DEF AimInv, Look
<1>7. UndoInv'
  BY <1>1 DEF UndoInv
<1> QED
  BY <1>1, <1>5, <1>6, <1>7 DEF KeysInv

\* The window in front is noted.
LEMMA NoteKeeps ==
  ASSUME KeysInv, NoteWindow
  PROVE  KeysInv'
<1>1. /\ call # NoWindow /\ call' = [call EXCEPT !.at = front]
      /\ UNCHANGED <<front, landed, submit, undo, latest, undone, inserts>>
  BY DEF NoteWindow
<1>2. /\ call'.id = call.id /\ call'.methods = call.methods /\ call'.host = call.host
      /\ call'.moved = call.moved /\ call'.at \in {front, call.at}
  BY <1>1
<1>3. front \in Windows /\ CallInv /\ AimInv /\ UndoInv
  BY DEF KeysInv
<1>4. call'.at = front \/ call'.at = call.at
  BY <1>2
<1>5. CallInv'
  BY <1>1, <1>2, <1>3, <1>4 DEF CallInv
<1> QED
  BY <1>1, <1>3, <1>5 DEF KeysInv, AimInv, UndoInv

\* Another window comes to the front, and the insertion under way is marked.
LEMMA FocusKeeps ==
  ASSUME KeysInv, NEW w \in Windows, Focus(w),
         UNCHANGED <<landed, submit, undo, latest, undone, inserts>>
  PROVE  KeysInv'
<1>1. front' = w /\ CallInv /\ AimInv /\ UndoInv
  BY DEF Focus, KeysInv
<1>2. CASE call = NoWindow \/ w = front
  BY <1>1, <1>2 DEF Focus, KeysInv, CallInv, AimInv, UndoInv
<1>3. CASE ~ (call = NoWindow \/ w = front)
  <2>1. call # NoWindow /\ call' = [call EXCEPT !.moved = TRUE]
    BY <1>3 DEF Focus
  <2>2. /\ call'.id = call.id /\ call'.methods = call.methods /\ call'.host = call.host
        /\ call'.moved \in {TRUE, call.moved}
    BY <2>1
  <2>3. call'.moved = TRUE \/ call' = call
    BY <2>1
  <2> QED
    BY <1>1, <2>1, <2>2, <2>3 DEF KeysInv, CallInv, AimInv, UndoInv
<1> QED
  BY <1>2, <1>3

\* A method that worked ends the insertion, and says where an Enter may go and
\* what may be undone.
LEMMA SuccessKeeps ==
  ASSUME KeysInv, NEW how, Trying(how), Succeeds(how), UNCHANGED <<front, undone, inserts>>
  PROVE  KeysInv'
<1>1. /\ call # NoWindow /\ call' = NoWindow /\ CallInv /\ UndoInv /\ AimInv
      /\ front \in Windows /\ front # NoWindow
      /\ Head(call.methods) = how /\ call.at # Unknown
      /\ landed' = (IF Keyed(how) THEN call.at ELSE NoWindow)
      /\ undo' = (IF Undoable(how) THEN call.id ELSE NoWindow)
      /\ submit' = (IF call.submits THEN call.id ELSE submit)
  BY WindowAssumption DEF KeysInv, Trying, Succeeds, UndoAfter, Waits
<1>2. /\ latest'.id = call.id /\ latest'.moved = call.moved
      /\ Keyed(how) => latest'.noted = call.at /\ latest'.went = front
  BY DEF Succeeds
<1>3. /\ call.host = "prompt" => how = "clipboardOnly"
      /\ call.id = inserts /\ inserts > 0 /\ inserts \in Nat
      /\ Host[front] = call.host \/ call.moved
      /\ front = call.at \/ call.moved
      /\ call.host \in {"plain", "flaky", "terminal", "prompt"}
  BY <1>1 DEF CallInv, UndoInv
<1>4. Undoable(how) => call.host \in {"plain", "flaky"} /\ Keyed(how)
  BY <1>3 DEF Undoable, Keyed
<1>5. call.id \in 1 .. inserts /\ call.id \notin undone
  BY <1>1, <1>3 DEF UndoInv
<1>6. UndoInv'
  BY <1>1, <1>2, <1>3, <1>4, <1>5 DEF UndoInv
<1>7. AimInv'
  BY <1>1, <1>2, <1>3 DEF AimInv
<1> QED
  BY <1>1, <1>6, <1>7 DEF KeysInv, CallInv

\* A method that did not leaves it to the next, or to the history.
LEMMA FailureKeeps ==
  ASSUME KeysInv, call # NoWindow, GoesOn, UNCHANGED <<front, undone, inserts>>
  PROVE  KeysInv'
<1>1. CallInv /\ UndoInv /\ AimInv /\ front \in Windows /\ UNCHANGED <<undo, latest>>
  BY DEF KeysInv, GoesOn, Fails
<1>2. CASE Len(call.methods) > 1
  <2>1. call' = [call EXCEPT !.methods = Tail(@)] /\ UNCHANGED <<landed, submit>>
    BY <1>2 DEF GoesOn
  <2>2. /\ call'.id = call.id /\ call'.host = call.host /\ call'.methods = Tail(call.methods)
        /\ call'.moved = call.moved /\ call'.at = call.at
    BY <2>1
  <2>3. Tail(call.methods) \in MethodLists /\ call.host # "prompt"
    <3>1. call.methods \in MethodLists
      BY <1>1 DEF CallInv
    <3>2. call.methods # <<"clipboardOnly">>
      <4>1. Len(<<"clipboardOnly">>) = 1
        OBVIOUS
      <4>2. ASSUME call.methods = <<"clipboardOnly">> PROVE FALSE
        <5>1. Len(call.methods) = 1
          BY <4>1, <4>2, Zenon
        <5> QED
          BY <1>2, <5>1
      <4> QED
        BY <4>2
    <3>3. CASE call.methods = <<"clipboardPaste", "clipboardOnly">>
      <4>1. Tail(call.methods) = <<"clipboardOnly">>
        BY <3>3
      <4> QED
        BY <1>1, <3>2, <4>1 DEF CallInv, MethodLists
    <3>4. CASE call.methods = <<"direct", "clipboardPaste", "clipboardOnly">>
      <4>1. Tail(call.methods) = <<"clipboardPaste", "clipboardOnly">>
        BY <3>4
      <4> QED
        BY <1>1, <3>2, <4>1 DEF CallInv, MethodLists
    <3> QED
      BY <3>1, <3>2, <3>3, <3>4 DEF MethodLists
  <2> QED
    BY <1>1, <2>1, <2>2, <2>3 DEF KeysInv, CallInv, AimInv, UndoInv
<1>3. CASE ~ (Len(call.methods) > 1)
  <2>1. call' = NoWindow /\ landed' = NoWindow /\ submit' \in {call.id, submit}
    BY <1>3 DEF GoesOn, Fails, Waits
  <2>2. CallInv'
    BY <2>1 DEF CallInv
  <2>3. call.id = inserts /\ inserts > 0 /\ inserts \in Nat
    BY <1>1 DEF CallInv, UndoInv
  <2>4. AimInv'
    BY <1>1, <2>1, <2>3 DEF AimInv
  <2> QED
    BY <1>1, <2>1, <2>2, <2>4 DEF KeysInv, UndoInv
<1> QED
  BY <1>2, <1>3

\* Every step keeps it.
LEMMA KeysStep == KeysInv /\ [InsertNext]_insertVars => KeysInv'
<1> SUFFICES ASSUME KeysInv, [InsertNext]_insertVars PROVE KeysInv'
  OBVIOUS
<1>1. CASE ReturnFocus \/ MoveFocus
  <2>1. PICK w \in Windows : Focus(w)
    BY <1>1 DEF ReturnFocus, MoveFocus
  <2>2. UNCHANGED <<landed, submit, undo, latest, undone, inserts>>
    BY <1>1 DEF ReturnFocus, MoveFocus
  <2> QED
    BY <2>1, <2>2, FocusKeeps
<1>2. CASE DictationInserts \/ WindowInserts
  <2>1. PICK r \in Requests : Look(r)
    BY <1>2 DEF DictationInserts, WindowInserts
  <2> QED
    BY <2>1, LookKeeps
<1>3. CASE NoteWindow
  BY <1>3, NoteKeeps
<1>4. CASE DirectInsert \/ ClipboardPaste \/ ClipboardOnly
  <2>1. PICK how : Trying(how) /\ (Succeeds(how) \/ GoesOn) /\ UNCHANGED <<front, undone, inserts>>
    BY <1>4 DEF DirectInsert, ClipboardPaste, ClipboardOnly
  <2> QED
    BY <2>1, SuccessKeeps, FailureKeeps DEF Trying
<1>5. CASE PressEnterAfterInsert \/ CancelSubmit \/ CancelRetry
  BY <1>5 DEF PressEnterAfterInsert, CancelSubmit, CancelRetry, KeysInv, CallInv, AimInv, UndoInv
<1>6. CASE UndoLast
  BY <1>6 DEF UndoLast, KeysInv, CallInv, AimInv, UndoInv
<1>7. CASE UNCHANGED insertVars
  BY <1>7 DEF insertVars, KeysInv, CallInv, AimInv, UndoInv
<1> QED
  BY <1>1, <1>2, <1>3, <1>4, <1>5, <1>6, <1>7 DEF InsertNext

\* Nothing is being inserted at the start.
LEMMA KeysStart == InsertInit => KeysInv
  BY DEF InsertInit, KeysInv, CallInv, AimInv, UndoInv

\* An Enter follows the newest insertion of all, only if keystrokes carried it,
\* and goes to the window it noted, which is the one its text went to unless the
\* user changed windows meanwhile: for any windows, and any order of what the
\* user, the dictation and VoiceWave's window do (press_enter_after_insert).
THEOREM EnterGoesToTheNewest == InsertSpec => EnterFollowsTheNewest
<1>1. ASSUME KeysInv, [InsertNext]_insertVars
      PROVE  [enters' # enters =>
                /\ submit \in 1 .. inserts /\ latest.id = inserts
                /\ latest.went # NoWindow /\ front = latest.noted
                /\ front = latest.went \/ latest.moved]_insertVars
  <2>1. CASE PressEnterAfterInsert
    <3>1. submit # 0 /\ front # NoWindow /\ (enters' # enters => landed = front) /\ AimInv
          /\ inserts \in Nat
      BY <1>1, <2>1, WindowAssumption DEF PressEnterAfterInsert, MayPress, KeysInv, UndoInv
    <3> QED
      BY <3>1 DEF AimInv
  <2>2. CASE InsertNext /\ ~ PressEnterAfterInsert
    <3>1. UNCHANGED enters
      BY <2>2 DEF InsertNext, ReturnFocus, DictationInserts, WindowInserts, Look, NoteWindow,
         DirectInsert, ClipboardPaste, ClipboardOnly, CancelSubmit, CancelRetry, UndoLast, MoveFocus
    <3> QED
      BY <3>1
  <2> QED
    BY <1>1, <2>1, <2>2
<1> QED
  BY <1>1, KeysStart, KeysStep, PTL DEF InsertSpec, EnterFollowsTheNewest

\* Ctrl+Z is sent once at most for an insertion, only for the latest that
\* worked, and only if keystrokes carried that one to a program that is no
\* terminal, unless the user changed windows in the middle of it (undo_last).
THEOREM UndoesTheLastOnly == InsertSpec => UndoIsForTheLast
<1>1. ASSUME KeysInv, [InsertNext]_insertVars
      PROVE  [undone' # undone =>
                /\ latest.id \notin undone /\ undone' = undone \cup {latest.id}
                /\ latest.went # NoWindow
                /\ Host[latest.went] \in {"plain", "flaky"} \/ latest.moved]_insertVars
  <2>1. CASE UndoLast
    BY <1>1, <2>1 DEF UndoLast, KeysInv, UndoInv
  <2>2. CASE InsertNext /\ ~ UndoLast
    <3>1. UNCHANGED undone
      BY <2>2 DEF InsertNext, ReturnFocus, DictationInserts, WindowInserts, Look, NoteWindow,
         DirectInsert, ClipboardPaste, ClipboardOnly, CancelSubmit, CancelRetry,
         PressEnterAfterInsert, MoveFocus
    <3> QED
      BY <3>1
  <2> QED
    BY <1>1, <2>1, <2>2
<1> QED
  BY <1>1, KeysStart, KeysStep, PTL DEF InsertSpec, UndoIsForTheLast

-----------------------------------------------------------------------------
(* What History keeps. *)

Polish(d) == <<"polish", d>>
Outcomes == {"accepted", "fallbackRejected", "fallbackTimeout", "snippetExact", "literal", "disabled"}

\* What a delivery, and a record of it, may say: the rewrite where it was
\* accepted, the formatted text otherwise, and no other dictation's rewrite.
Tells(d, text, outcome, rewrite) ==
  /\ text = IF outcome = "accepted" THEN Polish(d) ELSE <<"floor", d>>
  /\ rewrite \in {Nil, Polish(d)}
  /\ outcome = "accepted" => rewrite # Nil

Stages == {"new", "waiting", "inserting", "pressing", "recording", "over", "cancelled"}
Results == {"none", "keyed", "copied", "failed", "error"}

Hows == {"keyed", "copied", "failed", "rescued"}

Rows ==
  {r \in [id : Nat, of : Dictations, how : Hows,
          inserted : Texts \cup {Nil}, outcome : Outcomes \cup {Nil}, polished : Texts \cup {Nil}] :
     /\ r.inserted # Nil => r.inserted = IF r.outcome = "accepted" THEN Polish(r.of) ELSE <<"floor", r.of>>
     /\ r.polished \in {Nil, Polish(r.of)}
     /\ r.outcome = "accepted" => r.polished # Nil}

LateTypes ==
  /\ counter \in Nat /\ faults \in Nat /\ nextId \in Nat
  /\ stage \in [Dictations -> Stages]
  /\ result \in [Dictations -> Results]
  /\ record \in [Dictations -> Nat \cup {Nil}]
  /\ rows \in Seq(Rows) /\ disk.rows \in Seq(Rows) /\ disk.next \in Nat

\* A request is answered with what the worker made of its own text: the one
\* line in the pipe is of the dictation at the gate.
AskInv ==
  /\ gate \in Dictations \cup {Nil} /\ answer \in [Dictations -> Texts \cup {Nil}]
  /\ \A d \in Dictations : answer[d] \in {Nil, Polish(d)}
  /\ worker \in [up : BOOLEAN, next : Nat, lines : Seq([id : Nat, of : Dictations])]
  /\ gate = Nil => worker.lines = <<>>
  /\ gate # Nil => Len(worker.lines) = 1 /\ worker.lines[1].of = gate

Ready == {"inserting", "pressing", "recording"}

MadeInv ==
  /\ made \in [Dictations -> [text : Texts \cup {Nil}, outcome : Outcomes \cup {Nil},
                              polished : Texts \cup {Nil}]]
  /\ \A d \in Dictations : stage[d] \in Ready =>
       Tells(d, made[d].text, made[d].outcome, made[d].polished)

\* The dictations that have, or had, their record.
Written(d) ==
  stage[d] = "over" \/ (stage[d] \in {"pressing", "recording", "cancelled"} /\ result[d] # "error")

Distinct(rs) == \A i, j \in DOMAIN rs : rs[i].of = rs[j].of => i = j

RowsInv ==
  /\ Distinct(rows) /\ Distinct(disk.rows)
  /\ \A i \in DOMAIN rows : Written(rows[i].of)
  /\ \A i \in DOMAIN disk.rows : Written(disk.rows[i].of)
  /\ \A d \in Dictations : Written(d) /\ result[d] # "none" /\ d \notin erased => d \in Of(rows)
  /\ \A d \in Dictations : stage[d] \in {"new", "waiting", "inserting"} => result[d] = "none"
  /\ \A d \in Dictations : d > counter => stage[d] = "new"

\* An id that a dictation remembers is on disk, where no restart can hand it out
\* again, and is its own record's.
IdInv ==
  /\ disk.next <= nextId
  /\ \A i \in DOMAIN rows : rows[i].id < nextId
  /\ \A i \in DOMAIN disk.rows : disk.rows[i].id < disk.next
  /\ \A d \in Dictations : record[d] # Nil =>
       /\ record[d] < disk.next
       /\ \A i \in DOMAIN rows : rows[i].id = record[d] => rows[i].of = d
       /\ \A i \in DOMAIN disk.rows : disk.rows[i].id = record[d] => disk.rows[i].of = d

LateInv == LateTypes /\ AskInv /\ MadeInv /\ RowsInv /\ IdInv

\* Every record is of a dictation, and numbered.
LEMMA RowsTyped ==
  ASSUME NEW rs \in Seq(Rows), NEW i \in DOMAIN rs
  PROVE  rs[i] \in Rows /\ rs[i].of \in Dictations /\ rs[i].id \in Nat
<1>1. rs[i] \in Rows
  OBVIOUS
<1>2. \A r \in Rows : r.of \in Dictations /\ r.id \in Nat
  BY DEF Rows
<1> QED
  BY <1>1, <1>2

\* What pruning leaves of a store with one more record: the newest, and others
\* as they were.
LEMMA PrunedKeeps ==
  ASSUME NEW rs \in Seq(Rows), NEW r \in Rows, NEW p \in Pruned(Append(rs, r))
  PROVE  /\ p \in Seq(Rows)
         /\ r.of \in Of(p)
         /\ \A j \in DOMAIN p : p[j] = r \/ \E i \in DOMAIN rs : p[j] = rs[i]
         /\ Distinct(rs) /\ r.of \notin Of(rs) => Distinct(p)
<1> DEFINE s == Append(rs, r)
<1>1. s \in Seq(Rows) /\ Len(s) = Len(rs) + 1 /\ s[Len(s)] = r /\ \A i \in 1 .. Len(rs) : s[i] = rs[i]
  OBVIOUS
<1>2. PICK n \in 1 .. Len(s) : p = SubSeq(s, n, Len(s))
  BY DEF Pruned
<1>3. Len(s) \in Nat /\ n \in Nat
  BY <1>1
<1> HIDE DEF s
<1>4. /\ p \in Seq(Rows) /\ Len(p) = Len(s) - n + 1
      /\ \A j \in 1 .. Len(p) : p[j] = s[n + j - 1]
  BY <1>1, <1>2, <1>3
<1>5. p[Len(p)] = r /\ Len(p) \in DOMAIN p
  BY <1>1, <1>3, <1>4
<1>6. r.of \in Of(p)
  BY <1>5 DEF Of
<1>7. \A j \in DOMAIN p : n + j - 1 \in 1 .. Len(s) /\ p[j] = s[n + j - 1]
  <2>1. DOMAIN p = 1 .. Len(p)
    BY <1>4
  <2> QED
    BY <1>3, <1>4, <2>1
<1>8. \A k \in 1 .. Len(s) : s[k] = r \/ (k \in DOMAIN rs /\ s[k] = rs[k])
  <2>1. DOMAIN rs = 1 .. Len(rs) /\ Len(rs) \in Nat
    OBVIOUS
  <2> QED
    BY <1>1, <2>1
<1>9. \A j \in DOMAIN p : p[j] = r \/ \E i \in DOMAIN rs : p[j] = rs[i]
  BY <1>7, <1>8
<1>10. ASSUME Distinct(rs), r.of \notin Of(rs) PROVE Distinct(p)
  <2>1. DOMAIN rs = 1 .. Len(rs) /\ Len(rs) \in Nat
    OBVIOUS
  <2>2. \A k \in 1 .. Len(rs) : rs[k].of # r.of
    BY <1>10, <2>1 DEF Of
  <2>3. \A k, l \in 1 .. Len(s) : s[k].of = s[l].of => k = l
    BY <1>1, <1>10, <2>1, <2>2 DEF Distinct
  <2>4. \A j \in DOMAIN p : j \in Nat
    BY <1>4
  <2>5. ASSUME NEW i \in DOMAIN p, NEW j \in DOMAIN p, p[i].of = p[j].of PROVE i = j
    <3>1. n + i - 1 = n + j - 1
      BY <1>7, <2>3, <2>5
    <3> QED
      BY <1>3, <2>4, <3>1
  <2> QED
    BY <2>5 DEF Distinct
<1> QED
  BY <1>4, <1>6, <1>9, <1>10

\* A step of one dictation that writes nothing.
LEMMA FlowKeeps ==
  ASSUME LateTypes, RowsInv, IdInv, NEW d \in Dictations,
         NEW s \in Stages \ {"new"}, Move(d, s),
         result' \in [Dictations -> Results],
         \A e \in Dictations \ {d} : result'[e] = result[e],
         UNCHANGED <<record, rows, disk, nextId>>,
         \A e \in erased : e \in erased',
         counter' \in Nat, counter <= counter', d <= counter', faults' \in Nat,
         Written(d) => Written(d)' /\ result'[d] = result[d],
         ~ Written(d) /\ Written(d)' => result'[d] = "none" \/ d \in erased',
         s \in {"waiting", "inserting"} => result'[d] = "none"
  PROVE  LateTypes' /\ RowsInv' /\ IdInv'
<1>1. /\ stage' \in [Dictations -> Stages]
      /\ stage'[d] = s /\ \A e \in Dictations \ {d} : stage'[e] = stage[e]
  BY DEF Move, LateTypes, Stages
<1>2. LateTypes'
  BY <1>1 DEF LateTypes
<1>3. \A e \in Dictations : Written(e) => Written(e)'
  BY <1>1 DEF Written
<1>4. \A i \in DOMAIN rows : rows[i].of \in Dictations
  BY RowsTyped DEF LateTypes
<1>5. \A i \in DOMAIN disk.rows : disk.rows[i].of \in Dictations
  BY RowsTyped DEF LateTypes
<1>6. /\ Distinct(rows)' /\ Distinct(disk.rows)'
      /\ (\A i \in DOMAIN rows : Written(rows[i].of))'
      /\ (\A i \in DOMAIN disk.rows : Written(disk.rows[i].of))'
  BY <1>3, <1>4, <1>5 DEF RowsInv, Distinct, Written
<1>7. \A e \in Dictations : Written(e)' /\ result'[e] # "none" /\ e \notin erased' => e \in Of(rows)'
  <2> SUFFICES ASSUME NEW e \in Dictations, Written(e)', result'[e] # "none", e \notin erased'
               PROVE  e \in Of(rows)
    BY DEF Of
  <2>1. Written(e) /\ result[e] # "none" /\ e \notin erased
    BY <1>1 DEF Written
  <2> QED
    BY <2>1 DEF RowsInv
<1>8. /\ \A e \in Dictations : stage'[e] \in {"new", "waiting", "inserting"} => result'[e] = "none"
      /\ \A e \in Dictations : e > counter' => stage'[e] = "new"
  BY <1>1 DEF RowsInv, Dictations, LateAssumption, LateTypes
<1>9. RowsInv'
  BY <1>6, <1>7, <1>8 DEF RowsInv, Written
<1>10. IdInv'
  BY DEF IdInv
<1> QED
  BY <1>2, <1>9, <1>10

\* What may be written of a record, and what not, is in its dictation's row.
LEMMA RowMade ==
  ASSUME LateTypes, MadeInv, NEW d \in Dictations, stage[d] \in Ready,
         NEW how \in Hows, NEW text \in {Nil, made[d].text}
  PROVE  [id |-> nextId, of |-> d, how |-> how, inserted |-> text,
          polished |-> made[d].polished, outcome |-> made[d].outcome] \in Rows
<1>1. /\ made[d].text \in Texts \cup {Nil} /\ made[d].outcome \in Outcomes \cup {Nil}
      /\ made[d].polished \in Texts \cup {Nil} /\ nextId \in Nat
      /\ Tells(d, made[d].text, made[d].outcome, made[d].polished)
  BY DEF MadeInv, LateTypes, Ready
<1> QED
  BY <1>1 DEF Rows, Tells

\* The store's file has what is in memory, or what it had.
LEMMA PersistGives ==
  ASSUME LateTypes, Persist
  PROVE  /\ \/ disk'.rows = rows' /\ disk'.next = nextId' /\ faults' = faults
            \/ disk' = disk /\ faults' = faults + 1
         /\ faults' \in Nat
  BY DEF Persist, Fault, LateTypes

\* A step of one dictation that appends its record.
LEMMA AppendKeeps ==
  ASSUME LateTypes, MadeInv, RowsInv, IdInv, NEW d \in Dictations,
         NEW how \in Hows, NEW text \in {Nil, made[d].text}, AppendRecord(d, how, text),
         stage[d] \in Ready, ~ Written(d),
         NEW s \in {"pressing", "recording", "over"}, Move(d, s),
         result' \in [Dictations -> Results],
         \A e \in Dictations \ {d} : result'[e] = result[e],
         Written(d)', UNCHANGED counter,
         \/ UNCHANGED record
         \/ record' = [record EXCEPT ![d] = nextId] /\ faults' = faults
  PROVE  LateTypes' /\ RowsInv' /\ IdInv'
<1> DEFINE row == [id |-> nextId, of |-> d, how |-> how, inserted |-> text,
                   polished |-> made[d].polished, outcome |-> made[d].outcome]
<1>1. row \in Rows /\ row.of = d /\ row.id = nextId
  BY RowMade
<1> HIDE DEF row
<1>2. /\ rows' \in Pruned(Append(rows, row)) /\ erased' = erased \cup (Of(rows) \ Of(rows'))
      /\ nextId' = nextId + 1 /\ Persist
  BY DEF AppendRecord, Store, row
<1>3. rows \in Seq(Rows) /\ disk.rows \in Seq(Rows) /\ nextId \in Nat /\ disk.next \in Nat
  BY DEF LateTypes
<1>4. d \notin Of(rows) /\ \A i \in DOMAIN disk.rows : disk.rows[i].of # d
  BY DEF RowsInv, Of
<1>5. /\ rows' \in Seq(Rows) /\ d \in Of(rows') /\ Distinct(rows')
      /\ \A j \in DOMAIN rows' : rows'[j] = row \/ \E i \in DOMAIN rows : rows'[j] = rows[i]
  BY <1>1, <1>2, <1>3, <1>4, PrunedKeeps DEF RowsInv
<1>6. /\ stage' \in [Dictations -> Stages]
      /\ stage'[d] = s /\ \A e \in Dictations \ {d} : stage'[e] = stage[e]
  BY DEF Move, LateTypes, Stages
<1>7. /\ \/ disk'.rows = rows' /\ disk'.next = nextId' /\ faults' = faults
         \/ disk' = disk /\ faults' = faults + 1
      /\ faults' \in Nat
  BY <1>2, PersistGives
<1>8. LateTypes'
  <2>1. record' \in [Dictations -> Nat \cup {Nil}]
    BY <1>3 DEF LateTypes
  <2> QED
    BY <1>2, <1>3, <1>5, <1>6, <1>7, <2>1 DEF LateTypes
<1> DEFINE After == {e \in Dictations : Written(e)'}
<1>9. d \in After /\ \A e \in Dictations : Written(e) => e \in After
  BY <1>6 DEF Written
<1> HIDE DEF After
<1>10. \A j \in DOMAIN rows' : rows'[j].of \in After
  <2> SUFFICES ASSUME NEW j \in DOMAIN rows' PROVE rows'[j].of \in After
    OBVIOUS
  <2>1. CASE rows'[j] = row
    BY <1>1, <1>9, <2>1
  <2>2. CASE \E i \in DOMAIN rows : rows'[j] = rows[i]
    <3>1. PICK i \in DOMAIN rows : rows'[j] = rows[i]
      BY <2>2
    <3>2. rows[i].of \in Dictations /\ Written(rows[i].of)
      BY <1>3, RowsTyped DEF RowsInv
    <3> QED
      BY <1>9, <3>1, <3>2
  <2> QED
    BY <1>5, <2>1, <2>2
<1>11. /\ Distinct(disk'.rows) /\ \A i \in DOMAIN disk'.rows : disk'.rows[i].of \in After
  <2>1. CASE disk'.rows = rows'
    BY <1>5, <1>10, <2>1
  <2>2. CASE disk' = disk
    <3>1. \A i \in DOMAIN disk.rows : disk.rows[i].of \in Dictations /\ Written(disk.rows[i].of)
      BY <1>3, RowsTyped DEF RowsInv
    <3> QED
      BY <1>9, <2>2, <3>1 DEF RowsInv
  <2> QED
    BY <1>7, <2>1, <2>2
<1>12. \A e \in Dictations : Written(e)' /\ result'[e] # "none" /\ e \notin erased' => e \in Of(rows')
  <2> SUFFICES ASSUME NEW e \in Dictations, e # d, Written(e)', result'[e] # "none", e \notin erased'
               PROVE  e \in Of(rows')
    BY <1>5
  <2>1. Written(e) /\ result[e] # "none" /\ e \notin erased
    BY <1>2, <1>6 DEF Written
  <2>2. e \in Of(rows)
    BY <2>1 DEF RowsInv
  <2> QED
    BY <1>2, <2>2
<1>13. /\ \A e \in Dictations : stage'[e] \in {"new", "waiting", "inserting"} => result'[e] = "none"
       /\ \A e \in Dictations : e > counter' => stage'[e] = "new"
  BY <1>6 DEF RowsInv, Ready
<1>14. RowsInv'
  <2>1. /\ (\A i \in DOMAIN rows : Written(rows[i].of))'
        /\ (\A i \in DOMAIN disk.rows : Written(disk.rows[i].of))'
    BY <1>10, <1>11 DEF After, Written
  <2>2. Distinct(rows)' /\ Distinct(disk.rows)'
    BY <1>5, <1>11 DEF Distinct
  <2>3. (\A e \in Dictations : Written(e) /\ result[e] # "none" /\ e \notin erased => e \in Of(rows))'
    BY <1>12 DEF Of
  <2> QED
    BY <1>13, <2>1, <2>2, <2>3 DEF RowsInv, Written
<1>15. \A j \in DOMAIN rows' : rows'[j].id \in Nat /\ rows'[j].id < nextId'
  <2>1. \A i \in DOMAIN rows : rows[i].id \in Nat /\ rows[i].id < nextId
    BY <1>3, RowsTyped DEF IdInv
  <2> QED
    BY <1>1, <1>2, <1>3, <1>5, <2>1
<1>16. disk'.next <= nextId' /\ \A i \in DOMAIN disk'.rows : disk'.rows[i].id < disk'.next
  BY <1>2, <1>3, <1>7, <1>15 DEF IdInv
<1>17. ASSUME NEW e \in Dictations, record'[e] # Nil
       PROVE  /\ record'[e] < disk'.next
              /\ \A i \in DOMAIN rows' : rows'[i].id = record'[e] => rows'[i].of = e
              /\ \A i \in DOMAIN disk'.rows : disk'.rows[i].id = record'[e] => disk'.rows[i].of = e
  <2>1. CASE record'[e] = record[e]
    <3>1. record[e] \in Nat /\ record[e] < disk.next /\ disk.next <= nextId
      BY <1>17, <2>1 DEF IdInv, LateTypes
    <3>2. \A i \in DOMAIN rows' : rows'[i].id = record[e] => rows'[i].of = e
      <4>1. \A i \in DOMAIN rows : rows[i].id = record[e] => rows[i].of = e
        BY <1>17, <2>1 DEF IdInv
      <4>2. row.id # record[e]
        BY <1>1, <1>3, <3>1
      <4> QED
        BY <1>5, <4>1, <4>2
    <3>3. \A i \in DOMAIN disk.rows : disk.rows[i].id = record[e] => disk.rows[i].of = e
      BY <1>17, <2>1 DEF IdInv
    <3> QED
      BY <1>2, <1>3, <1>7, <2>1, <3>1, <3>2, <3>3
  <2>2. CASE record'[e] # record[e]
    <3>1. e = d /\ record'[e] = nextId /\ faults' = faults
      BY <2>2 DEF LateTypes
    <3>2. disk'.rows = rows' /\ disk'.next = nextId'
      BY <1>7, <3>1 DEF LateTypes
    <3>3. \A i \in DOMAIN rows' : rows'[i].id = nextId => rows'[i].of = d
      <4>1. \A i \in DOMAIN rows : rows[i].id # nextId
        BY <1>3, RowsTyped DEF IdInv
      <4> QED
        BY <1>1, <1>5, <4>1
    <3> QED
      BY <1>2, <1>3, <3>1, <3>2, <3>3
  <2> QED
    BY <2>1, <2>2
<1>18. IdInv'
  BY <1>15, <1>16, <1>17 DEF IdInv
<1> QED
  BY <1>8, <1>14, <1>18

\* A step that writes no new record, of no dictation: records go or stay, and
\* keep their dictation and their number.
LEMMA SavedKeeps ==
  ASSUME LateTypes, RowsInv, IdInv, Persist,
         UNCHANGED <<stage, result, record, counter, nextId>>,
         rows' \in Seq(Rows), Distinct(rows'),
         \A j \in DOMAIN rows' : \E i \in DOMAIN rows :
           rows'[j].of = rows[i].of /\ rows'[j].id = rows[i].id,
         \A e \in erased : e \in erased',
         \A e \in Of(rows) : e \in Of(rows') \/ e \in erased'
  PROVE  LateTypes' /\ RowsInv' /\ IdInv'
<1>1. /\ \/ disk'.rows = rows' /\ disk'.next = nextId
         \/ disk' = disk
      /\ faults' \in Nat
  BY PersistGives
<1>2. LateTypes'
  BY <1>1 DEF LateTypes
<1>3. \A i \in DOMAIN rows' : Written(rows'[i].of) /\ rows'[i].id < nextId
  BY DEF RowsInv, IdInv
<1>4. \A i \in DOMAIN disk'.rows : Written(disk'.rows[i].of) /\ disk'.rows[i].id < disk'.next
  BY <1>1, <1>3 DEF RowsInv, IdInv
<1>5. Distinct(disk'.rows)
  BY <1>1 DEF RowsInv
<1>6. \A e \in Dictations : Written(e) /\ result[e] # "none" /\ e \notin erased' => e \in Of(rows')
  BY DEF RowsInv
<1>7. RowsInv'
  <2>1. /\ Distinct(rows)' /\ Distinct(disk.rows)'
        /\ (\A i \in DOMAIN rows : Written(rows[i].of))'
        /\ (\A i \in DOMAIN disk.rows : Written(disk.rows[i].of))'
    BY <1>3, <1>4, <1>5 DEF Distinct, Written
  <2>2. (\A e \in Dictations : Written(e) /\ result[e] # "none" /\ e \notin erased => e \in Of(rows))'
    BY <1>6 DEF Of, Written
  <2> QED
    BY <2>1, <2>2 DEF RowsInv
<1>8. ASSUME NEW e \in Dictations, record[e] # Nil
      PROVE  /\ record[e] < disk'.next
             /\ \A i \in DOMAIN rows' : rows'[i].id = record[e] => rows'[i].of = e
             /\ \A i \in DOMAIN disk'.rows : disk'.rows[i].id = record[e] => disk'.rows[i].of = e
  <2>1. /\ record[e] < disk.next /\ disk.next <= nextId
        /\ record[e] \in Nat /\ disk.next \in Nat /\ nextId \in Nat
    BY <1>8 DEF IdInv, LateTypes
  <2>2. \A i \in DOMAIN rows : rows[i].id = record[e] => rows[i].of = e
    BY <1>8 DEF IdInv
  <2>3. \A i \in DOMAIN disk.rows : disk.rows[i].id = record[e] => disk.rows[i].of = e
    BY <1>8 DEF IdInv
  <2>4. \A i \in DOMAIN rows' : rows'[i].id = record[e] => rows'[i].of = e
    BY <2>2
  <2> QED
    BY <1>1, <2>1, <2>3, <2>4
<1>9. disk'.next <= nextId
  BY <1>1 DEF IdInv, LateTypes
<1>10. IdInv'
  BY <1>3, <1>4, <1>8, <1>9 DEF IdInv
<1> QED
  BY <1>2, <1>7, <1>10

\* A step that none of this is about.
LEMMA StoreStill ==
  ASSUME LateTypes, RowsInv, IdInv, faults' \in Nat,
         UNCHANGED <<counter, stage, result, record, rows, disk, nextId, erased>>
  PROVE  LateTypes' /\ RowsInv' /\ IdInv'
<1>1. LateTypes'
  BY DEF LateTypes
<1>2. RowsInv'
  BY DEF RowsInv, Distinct, Written, Of
<1>3. IdInv'
  BY DEF IdInv
<1> QED
  BY <1>1, <1>2, <1>3

-----------------------------------------------------------------------------
(* The steps of a dictation. *)

\* A delivery that may be made.
LEMMA DeliveredKeeps ==
  ASSUME MadeInv, LateTypes, NEW d \in Dictations, NEW text \in Texts, NEW outcome \in Outcomes \cup {Nil},
         NEW p \in Texts \cup {Nil}, Delivered(d, text, outcome, p), Tells(d, text, outcome, p),
         Move(d, "inserting")
  PROVE  MadeInv'
<1>1. /\ made'[d] = [text |-> text, outcome |-> outcome, polished |-> p]
      /\ \A e \in Dictations \ {d} : made'[e] = made[e]
      /\ made' \in [Dictations -> [text : Texts \cup {Nil}, outcome : Outcomes \cup {Nil},
                                   polished : Texts \cup {Nil}]]
  BY DEF Delivered, MadeInv
<1>2. \A e \in Dictations \ {d} : stage'[e] = stage[e]
  BY DEF Move, LateTypes
<1>3. \A e \in Dictations : stage'[e] \in Ready =>
        Tells(e, made'[e].text, made'[e].outcome, made'[e].polished)
  BY <1>1, <1>2 DEF MadeInv
<1> QED
  BY <1>1, <1>3 DEF MadeInv, Tells

\* A text that was not delivered anew was made before.
LEMMA MadeStays ==
  ASSUME MadeInv, UNCHANGED made,
         \A e \in Dictations : stage'[e] \in Ready =>
           stage[e] \in Ready
  PROVE  MadeInv'
  BY DEF MadeInv, Tells

\* The formatted text of a dictation may be delivered with any outcome but one.
LEMMA FloorTells ==
  ASSUME NEW d \in Dictations, NEW outcome, outcome # "accepted"
  PROVE  Tells(d, <<"floor", d>>, outcome, Nil) /\ <<"floor", d>> \in Texts
  BY DEF Tells, Texts

\* The worker, its queue and the answers stay as they are.
LEMMA AskStays ==
  ASSUME AskInv, UNCHANGED <<answer, gate, worker>>
  PROVE  AskInv'
  BY DEF AskInv

\* A dictation begins with its text, or with a wait for a better one.
LEMMA BeginSays ==
  ASSUME Begin, NEW d \in Dictations, d = counter'
  PROVE  \/ Move(d, "waiting") /\ UNCHANGED made
         \/ /\ Move(d, "inserting")
            /\ \E kind \in {"snippetExact", "literal", "disabled", "fallbackTimeout", Nil} :
                 Delivered(d, <<"floor", d>>, kind, Nil)
  BY DEF Begin, Immediate, WaitFor, Move, Delivered

\* A dictation that begins, of either kind, keeps the whole invariant.
LEMMA BeginKeepsAll ==
  ASSUME LateInv, Begin
  PROVE  LateInv'
<1>1. /\ LateTypes /\ AskInv /\ MadeInv /\ RowsInv /\ IdInv
      /\ counter' \in Dictations /\ counter' = counter + 1 /\ counter \in Nat
      /\ UNCHANGED <<result, record, answer, gate, worker, rows, nextId, disk, erased, faults>>
  BY LateAssumption DEF LateInv, Begin, LateTypes, Dictations, store
<1>2. PICK d \in Dictations : d = counter'
  BY <1>1
<1>3. d = counter + 1 /\ d \in Nat /\ stage[d] = "new" /\ result[d] = "none"
  BY <1>1, <1>2, LateAssumption DEF RowsInv, Dictations
<1>4. PICK s \in {"waiting", "inserting"} : Move(d, s)
        /\ (s = "waiting" => UNCHANGED made)
        /\ (s = "inserting" =>
              \E kind \in {"snippetExact", "literal", "disabled", "fallbackTimeout", Nil} :
                 Delivered(d, <<"floor", d>>, kind, Nil))
  BY <1>2, BeginSays
<1>5. stage'[d] = s /\ \A e \in Dictations \ {d} : stage'[e] = stage[e]
  BY <1>1, <1>4 DEF Move, LateTypes
<1>6. ~ Written(d) /\ ~ Written(d)'
  BY <1>3, <1>5 DEF Written
<1>10. s \in Stages \ {"new"}
  BY DEF Stages
<1>7. LateTypes' /\ RowsInv' /\ IdInv'
  <2>1. counter' \in Nat /\ counter <= counter' /\ d <= counter' /\ faults' \in Nat
    BY <1>1, <1>2, <1>3 DEF LateTypes
  <2>2. result' \in [Dictations -> Results]
        /\ \A e \in Dictations \ {d} : result'[e] = result[e]
    BY <1>1 DEF LateTypes
  <2>3. \A e \in erased : e \in erased'
    BY <1>1
  <2> QED
    BY <1>1, <1>3, <1>4, <1>6, <1>10, <2>1, <2>2, <2>3, FlowKeeps
<1>8. MadeInv'
  <2>1. CASE s = "waiting"
    <3>1. \A e \in Dictations : stage'[e] \in Ready =>
            stage[e] \in Ready
      BY <1>5, <2>1 DEF Ready
    <3> QED
      BY <1>1, <1>4, <2>1, <3>1, MadeStays
  <2>2. CASE s = "inserting"
    <3>1. PICK kind \in {"snippetExact", "literal", "disabled", "fallbackTimeout", Nil} :
            Delivered(d, <<"floor", d>>, kind, Nil)
      BY <1>4, <2>2
    <3>2. kind \in Outcomes \cup {Nil}
      BY DEF Outcomes
    <3>3. kind # "accepted"
      BY LateAssumption
    <3> QED
      BY <1>1, <1>4, <2>2, <3>1, <3>2, <3>3, FloorTells, DeliveredKeeps
  <2> QED
    BY <2>1, <2>2
<1>9. AskInv'
  BY <1>1, AskStays
<1> QED
  BY <1>1, <1>7, <1>8, <1>9 DEF LateInv

\* The wait ends with the answer, where the gate lets it pass, or without.
LEMMA WaitEndsKeeps ==
  ASSUME LateInv, NEW d \in Dictations, Accepted(d) \/ BudgetEnds(d)
  PROVE  LateInv'
<1>1. /\ LateTypes /\ AskInv /\ MadeInv /\ RowsInv /\ IdInv
      /\ stage[d] = "waiting" /\ Move(d, "inserting")
      /\ UNCHANGED <<counter, result, record, answer, gate, worker, rows, nextId, disk, erased, faults>>
  BY DEF LateInv, Accepted, BudgetEnds, asking, store
<1>2. result[d] = "none" /\ ~ Written(d) /\ ~ Written(d)' /\ d <= counter
  BY <1>1, LateAssumption DEF RowsInv, Written, Move, LateTypes, Dictations
<1>3. LateTypes' /\ RowsInv' /\ IdInv'
  BY <1>1, <1>2, FlowKeeps DEF LateTypes, Stages
<1>4. PICK text \in Texts, outcome \in Outcomes, p \in Texts \cup {Nil} :
        Delivered(d, text, outcome, p) /\ Tells(d, text, outcome, p)
  <2>1. CASE answer[d] # Nil /\ Delivered(d, answer[d], "accepted", answer[d])
    <3>1. answer[d] = Polish(d) /\ Polish(d) \in Texts
      BY <1>1, <2>1 DEF AskInv, Polish, Texts
    <3>2. Tells(d, answer[d], "accepted", answer[d])
      BY <2>1, <3>1 DEF Tells
    <3> QED
      BY <2>1, <3>1, <3>2 DEF Outcomes
  <2>2. CASE Delivered(d, <<"floor", d>>, "fallbackRejected", Nil)
            \/ Delivered(d, <<"floor", d>>, "fallbackTimeout", Nil)
    BY <2>2, FloorTells DEF Outcomes
  <2> QED
    BY <2>1, <2>2 DEF Accepted, BudgetEnds
<1>5. MadeInv'
  BY <1>1, <1>4, DeliveredKeeps
<1>6. AskInv'
  BY <1>1, AskStays
<1> QED
  BY <1>3, <1>5, <1>6 DEF LateInv

\* A dictation that is cancelled keeps the record it has.
LEMMA CancelKeeps ==
  ASSUME LateInv, NEW d \in Dictations, Cancel(d)
  PROVE  LateInv'
<1>1. /\ LateTypes /\ AskInv /\ MadeInv /\ RowsInv /\ IdInv
      /\ stage[d] \in {"waiting", "inserting", "pressing"} /\ Move(d, "cancelled")
      /\ UNCHANGED <<counter, made, result, record, answer, gate, worker, rows, nextId, disk, erased, faults>>
  BY DEF LateInv, Cancel, asking, store
<1>2. d <= counter
  <2>1. ~ (d > counter)
    BY <1>1 DEF RowsInv
  <2>2. d \in Nat /\ counter \in Nat
    BY <1>1, LateAssumption DEF LateTypes, Dictations
  <2> QED
    BY <2>1, <2>2
<1>3. stage'[d] = "cancelled"
  BY <1>1 DEF Move, LateTypes
<1>6. /\ Written(d) => Written(d)'
      /\ ~ Written(d) /\ Written(d)' => result[d] = "none"
  BY <1>1, <1>3 DEF Written, RowsInv
<1>7. "cancelled" \in Stages \ {"new"}
  BY DEF Stages
<1>8. LateTypes' /\ RowsInv' /\ IdInv'
  BY <1>1, <1>2, <1>6, <1>7, FlowKeeps DEF LateTypes
<1>4. \A e \in Dictations : stage'[e] \in Ready =>
        stage[e] \in Ready
  BY <1>1 DEF Move, LateTypes, Ready
<1>5. MadeInv' /\ AskInv'
  BY <1>1, <1>4, MadeStays, AskStays
<1> QED
  BY <1>5, <1>8 DEF LateInv

\* An insertion writes its record, unless it errs or nothing is kept.
LEMMA InsertKeeps ==
  ASSUME LateInv, NEW d \in Dictations, Insert(d)
  PROVE  LateInv'
<1>1. /\ LateTypes /\ AskInv /\ MadeInv /\ RowsInv /\ IdInv
      /\ stage[d] = "inserting" /\ UNCHANGED <<counter, made, answer, gate, worker>>
  BY DEF LateInv, Insert, asking
<1> PICK s \in {"pressing", "recording"} : Move(d, s)
  BY DEF Insert
<1>2. /\ result[d] = "none" /\ ~ Written(d) /\ d <= counter
      /\ stage'[d] = s /\ \A e \in Dictations \ {d} : stage'[e] = stage[e]
  BY <1>1, LateAssumption DEF RowsInv, Written, LateTypes, Dictations, Move
<1>3. PICK r \in {"keyed", "copied", "failed", "error"} : result' = [result EXCEPT ![d] = r]
        /\ (r = "error" => UNCHANGED <<store, record, faults>>)
        /\ (r # "error" => IF keeping
              THEN AppendRecord(d, r, made[d].text)
                   /\ record' = IF faults' = faults THEN [record EXCEPT ![d] = nextId] ELSE record
              ELSE Off(d) /\ UNCHANGED record)
  BY DEF Insert
<1>4. /\ result' \in [Dictations -> Results] /\ result'[d] = r
      /\ \A e \in Dictations \ {d} : result'[e] = result[e]
  BY <1>1, <1>3 DEF LateTypes, Results
<1>8. s \in Stages \ {"new"} /\ stage[d] \in Ready /\ faults \in Nat /\ counter \in Nat
  BY <1>1 DEF Stages, Ready, LateTypes
<1>5. LateTypes' /\ RowsInv' /\ IdInv'
  <2>1. CASE r = "error"
    <3>1. ~ Written(d)'
      BY <1>2, <1>4, <2>1 DEF Written
    <3> QED
      BY <1>1, <1>2, <1>3, <1>4, <1>8, <2>1, <3>1, FlowKeeps DEF store
  <2>2. CASE r # "error" /\ ~ keeping
    <3>1. d \in erased' /\ (\A e \in erased : e \in erased')
          /\ UNCHANGED <<rows, nextId, disk, faults, record>>
      BY <1>3, <2>2 DEF Off
    <3> QED
      BY <1>1, <1>2, <1>4, <1>8, <3>1, FlowKeeps
  <2>3. CASE r # "error" /\ keeping
    <3>1. Written(d)'
      BY <1>2, <1>4, <2>3 DEF Written
    <3>2. r \in Hows
      BY <2>3 DEF Hows
    <3> QED
      BY <1>1, <1>2, <1>3, <1>4, <1>8, <2>3, <3>1, <3>2, AppendKeeps
  <2> QED
    BY <2>1, <2>2, <2>3
<1>6. \A e \in Dictations : stage'[e] \in Ready =>
        stage[e] \in Ready
  BY <1>1, <1>2, <1>8
<1>7. MadeInv' /\ AskInv'
  BY <1>1, <1>6, MadeStays, AskStays
<1> QED
  BY <1>5, <1>7 DEF LateInv

\* An Enter writes nothing.
LEMMA PressKeeps ==
  ASSUME LateInv, NEW d \in Dictations, PressEnter(d)
  PROVE  LateInv'
<1>1. /\ LateTypes /\ AskInv /\ MadeInv /\ RowsInv /\ IdInv /\ counter \in Nat /\ faults \in Nat
      /\ stage[d] = "pressing" /\ counter = d /\ Move(d, "recording")
      /\ UNCHANGED <<counter, made, result, record, answer, gate, worker, rows, nextId, disk, erased, faults>>
  BY DEF LateInv, LateTypes, PressEnter, asking, store
<1>2. /\ stage'[d] = "recording" /\ \A e \in Dictations \ {d} : stage'[e] = stage[e]
      /\ d <= counter /\ result \in [Dictations -> Results]
  BY <1>1 DEF Move, LateTypes
<1>3. Written(d) <=> Written(d)'
  BY <1>1, <1>2 DEF Written
<1>4. "recording" \in Stages \ {"new"}
  BY DEF Stages
<1>5. LateTypes' /\ RowsInv' /\ IdInv'
  BY <1>1, <1>2, <1>3, <1>4, FlowKeeps
<1>6. \A e \in Dictations : stage'[e] \in Ready => stage[e] \in Ready
  BY <1>1, <1>2 DEF Ready
<1>7. MadeInv' /\ AskInv'
  BY <1>1, <1>6, MadeStays, AskStays
<1> QED
  BY <1>5, <1>7 DEF LateInv

\* The end of the run writes the record that an insertion could not.
LEMMA RecordKeeps ==
  ASSUME LateInv, NEW d \in Dictations, Record(d)
  PROVE  LateInv'
<1>1. /\ LateTypes /\ AskInv /\ MadeInv /\ RowsInv /\ IdInv
      /\ stage[d] = "recording" /\ Move(d, "over")
      /\ UNCHANGED <<counter, made, result, record, answer, gate, worker>>
  BY DEF LateInv, Record
<1>2. /\ d <= counter /\ Written(d)'
      /\ stage'[d] = "over" /\ \A e \in Dictations \ {d} : stage'[e] = stage[e]
  BY <1>1, LateAssumption DEF RowsInv, Written, LateTypes, Dictations, Move
<1>6. /\ "over" \in Stages \ {"new"} /\ stage[d] \in Ready /\ "rescued" \in Hows
      /\ faults \in Nat /\ counter \in Nat /\ result \in [Dictations -> Results]
  BY <1>1 DEF Stages, Ready, Hows, LateTypes
<1>3. LateTypes' /\ RowsInv' /\ IdInv'
  <2>1. CASE ~ Rescues(d)
    <3>1. Written(d) /\ UNCHANGED <<rows, nextId, disk, erased, faults>>
      BY <1>1, <2>1 DEF Record, Rescues, Written, store
    <3> QED
      BY <1>1, <1>2, <1>6, <3>1, FlowKeeps
  <2>2. CASE Rescues(d) /\ ~ keeping
    <3>1. d \in erased' /\ (\A e \in erased : e \in erased')
          /\ UNCHANGED <<rows, nextId, disk, faults>> /\ ~ Written(d)
      BY <1>1, <2>2 DEF Record, Off, Rescues, Written
    <3> QED
      BY <1>1, <1>2, <1>6, <3>1, FlowKeeps
  <2>3. CASE Rescues(d) /\ keeping
    <3>1. AppendRecord(d, "rescued", Nil) /\ ~ Written(d)
      BY <1>1, <2>3 DEF Record, Rescues, Written
    <3> QED
      BY <1>1, <1>2, <1>6, <3>1, AppendKeeps
  <2> QED
    BY <2>1, <2>2, <2>3
<1>4. \A e \in Dictations : stage'[e] \in Ready =>
        stage[e] \in Ready
  BY <1>1, <1>2, <1>6
<1>5. MadeInv' /\ AskInv'
  BY <1>1, <1>4, MadeStays, AskStays
<1> QED
  BY <1>3, <1>5 DEF LateInv

-----------------------------------------------------------------------------
(* The requests, and what comes back. *)

\* A request puts one line in the pipe, and only while there is none.
LEMMA AskKeeps ==
  ASSUME AskInv, NEW d \in Dictations, Ask(d)
  PROVE  AskInv'
<1>1. CASE gate' = d
  <2>1. /\ gate = Nil /\ worker.lines = <<>> /\ UNCHANGED answer
        /\ worker' = [up |-> TRUE, next |-> IF worker.up THEN worker.next + 1 ELSE 1,
                      lines |-> Append(worker.lines, [id |-> worker.next, of |-> d])]
        /\ worker.next \in Nat /\ worker.up \in BOOLEAN /\ d # Nil
    BY <1>1, LateAssumption DEF Ask, AskInv, Dictations
  <2>2. worker'.lines = <<[id |-> worker.next, of |-> d]>> /\ worker'.next \in Nat
        /\ worker'.up = TRUE
    BY <2>1
  <2>3. /\ worker'.lines \in Seq([id : Nat, of : Dictations]) /\ Len(worker'.lines) = 1
        /\ worker'.lines[1].of = d
    BY <2>1, <2>2
  <2> QED
    BY <1>1, <2>1, <2>2, <2>3 DEF AskInv
<1>2. CASE gate' # d
  BY <1>2, AskStays DEF Ask
<1> QED
  BY <1>1, <1>2

\* The gate goes with a worker that has no line left.
LEMMA AnswersKeep ==
  ASSUME AskInv, NEW d \in Dictations, Answer(d) \/ Timeout(d) \/ Crash(d)
  PROVE  AskInv'
<1>1. /\ gate = d /\ gate' = Nil /\ d # Nil /\ Len(worker.lines) = 1
      /\ worker.lines \in Seq([id : Nat, of : Dictations]) /\ worker.lines[1].of = d
  BY LateAssumption DEF AskInv, Answer, Timeout, Crash, Dictations
<1>2. /\ worker'.lines = <<>>
      /\ worker' \in [up : BOOLEAN, next : Nat, lines : Seq([id : Nat, of : Dictations])]
  <2>1. CASE worker' = NoWorker
    <3>1. <<>> \in Seq([id : Nat, of : Dictations])
      OBVIOUS
    <3> QED
      BY <2>1, <3>1 DEF NoWorker
  <2>2. CASE worker' = [worker EXCEPT !.lines = Tail(@)]
    <3>1. Tail(worker.lines) = <<>> /\ Tail(worker.lines) \in Seq([id : Nat, of : Dictations])
      <4>1. worker.lines # <<>>
        BY <1>1
      <4>2. /\ Tail(worker.lines) \in Seq([id : Nat, of : Dictations])
            /\ Len(Tail(worker.lines)) = 0
        BY <1>1, <4>1, HeadTailProperties
      <4> QED
        BY <4>2, EmptySeq
    <3>2. worker \in [up : BOOLEAN, next : Nat, lines : Seq([id : Nat, of : Dictations])]
      BY DEF AskInv
    <3> QED
      BY <2>2, <3>1, <3>2
  <2> QED
    BY <2>1, <2>2 DEF Answer, Timeout, Crash, AfterTimeout
<1>3. Head(worker.lines).of = d
  BY <1>1
<1>4. answer' \in {answer, [answer EXCEPT ![d] = Polish(d)]}
  BY <1>3 DEF Answer, Timeout, Crash, Polish
<1>5. answer' \in [Dictations -> Texts \cup {Nil}] /\ \A e \in Dictations : answer'[e] \in {Nil, Polish(e)}
  <2>1. Polish(d) \in Texts
    BY DEF Polish, Texts
  <2> QED
    BY <1>4, <2>1 DEF AskInv
<1> QED
  BY <1>1, <1>2, <1>5 DEF AskInv

\* None of this is History's.
LEMMA RequestsKeep ==
  ASSUME LateInv, NEW d \in Dictations, Ask(d) \/ Answer(d) \/ Timeout(d) \/ Crash(d)
  PROVE  LateInv'
<1>1. /\ LateTypes /\ AskInv /\ MadeInv /\ RowsInv /\ IdInv
      /\ UNCHANGED <<counter, stage, made, result, record, rows, disk, nextId, erased>>
  BY DEF LateInv, Ask, Answer, Timeout, Crash, flow, store
<1>2. faults' \in Nat
  BY <1>1 DEF LateTypes, Ask, Answer, Timeout, Crash, Fault
<1>3. LateTypes' /\ RowsInv' /\ IdInv'
  BY <1>1, <1>2, StoreStill
<1>4. MadeInv'
  BY <1>1, MadeStays
<1>5. AskInv'
  BY <1>1, AskKeeps, AnswersKeep
<1> QED
  BY <1>3, <1>4, <1>5 DEF LateInv

\* A late text goes to its own record, and to no other.
LEMMA EnrichedKeeps ==
  ASSUME LateInv, NEW d \in Dictations, NEW t \in Texts, t = Polish(d), t # Nil, record[d] # Nil
  PROVE  /\ Enriched(d, t) \in Seq(Rows) /\ DOMAIN Enriched(d, t) = DOMAIN rows
         /\ \A i \in DOMAIN rows : /\ Enriched(d, t)[i].of = rows[i].of
                                   /\ Enriched(d, t)[i].id = rows[i].id
<1>1. /\ rows \in Seq(Rows) /\ DOMAIN rows = 1 .. Len(rows) /\ Len(rows) \in Nat
      /\ \A i \in DOMAIN rows : rows[i].id = record[d] => rows[i].of = d
  BY DEF LateInv, LateTypes, IdInv
<1>2. ASSUME NEW r \in Rows, r.of = d
      PROVE  /\ [r EXCEPT !.polished = t] \in Rows
             /\ [r EXCEPT !.polished = t].of = r.of /\ [r EXCEPT !.polished = t].id = r.id
  BY <1>2 DEF Rows
<1>3. ASSUME NEW i \in DOMAIN rows
      PROVE  /\ Enriched(d, t)[i] \in Rows
             /\ Enriched(d, t)[i].of = rows[i].of /\ Enriched(d, t)[i].id = rows[i].id
  <2>1. rows[i] \in Rows
    BY <1>1
  <2>2. CASE rows[i].id = record[d]
    BY <1>1, <1>2, <2>1, <2>2 DEF Enriched
  <2>3. CASE rows[i].id # record[d]
    BY <2>1, <2>3 DEF Enriched
  <2> QED
    BY <2>2, <2>3
<1>4. DOMAIN Enriched(d, t) = DOMAIN rows
  BY DEF Enriched
<1>5. Enriched(d, t) \in [1 .. Len(rows) -> Rows]
  BY <1>1, <1>3 DEF Enriched
<1>6. Enriched(d, t) \in Seq(Rows)
  BY <1>1, <1>5
<1> QED
  BY <1>3, <1>4, <1>6

\* What comes back behind an insertion enriches the record, if there is one.
LEMMA LateKeeps ==
  ASSUME LateInv, NEW d \in Dictations, Late(d)
  PROVE  LateInv'
<1>1. /\ LateTypes /\ AskInv /\ MadeInv /\ RowsInv /\ IdInv
      /\ UNCHANGED <<counter, stage, made, result, record, answer, gate, worker>>
  BY DEF LateInv, Late, flow
<1>2. MadeInv' /\ AskInv'
  BY <1>1, MadeStays, AskStays
<1>3. CASE UNCHANGED <<rows, disk, nextId, erased, faults>>
  <2>1. faults' \in Nat
    BY <1>1, <1>3 DEF LateTypes
  <2> QED
    BY <1>1, <1>2, <1>3, <2>1, StoreStill DEF LateInv
<1>4. CASE ~ UNCHANGED <<rows, disk, nextId, erased, faults>>
  <2>1. /\ answer[d] # Nil /\ rows' = Enriched(d, answer[d])
        /\ UNCHANGED <<nextId, erased>> /\ Persist
        /\ \E i \in DOMAIN rows : rows[i].id = record[d]
    BY <1>4 DEF Late, Enrich, store
  <2>2. answer[d] = Polish(d) /\ answer[d] \in Texts
    BY <1>1, <2>1 DEF AskInv, Polish, Texts
  <2>3. record[d] # Nil
    BY <1>1, <2>1, RowsTyped, LateAssumption DEF LateTypes
  <2>4. /\ rows' \in Seq(Rows) /\ DOMAIN rows' = DOMAIN rows
        /\ \A i \in DOMAIN rows : rows'[i].of = rows[i].of /\ rows'[i].id = rows[i].id
    BY <2>1, <2>2, <2>3, EnrichedKeeps
  <2>5. Distinct(rows') /\ Of(rows') = Of(rows)
    BY <1>1, <2>4 DEF RowsInv, Distinct, Of
  <2>6. LateTypes' /\ RowsInv' /\ IdInv'
    BY <1>1, <2>1, <2>4, <2>5, SavedKeeps
  <2> QED
    BY <1>2, <2>6 DEF LateInv
<1> QED
  BY <1>3, <1>4

\* The user's commands delete records; a change of policy does too.
LEMMA CommandsKeep ==
  ASSUME LateInv, Clear \/ SetRetention
  PROVE  LateInv'
<1>1. /\ LateTypes /\ AskInv /\ MadeInv /\ RowsInv /\ IdInv
      /\ UNCHANGED <<counter, stage, made, result, record, answer, gate, worker, nextId>> /\ Persist
  BY DEF LateInv, Clear, SetRetention, flow, asking
<1>2. PICK rs \in {rows, <<>>} : Store(rs)
  BY DEF Clear, SetRetention
<1>3. rows' = rs /\ erased' = erased \cup (Of(rows) \ Of(rs))
  BY <1>2 DEF Store
<1>4. /\ rows' \in Seq(Rows) /\ Distinct(rows')
      /\ \A j \in DOMAIN rows' : \E i \in DOMAIN rows :
           rows'[j].of = rows[i].of /\ rows'[j].id = rows[i].id
  <2>1. CASE rs = rows
    BY <1>1, <1>3, <2>1 DEF LateTypes, RowsInv
  <2>2. CASE rs = <<>>
    <3>1. <<>> \in Seq(Rows) /\ DOMAIN <<>> = {}
      OBVIOUS
    <3> QED
      BY <1>3, <2>2, <3>1 DEF Distinct
  <2> QED
    BY <2>1, <2>2
<1>5. LateTypes' /\ RowsInv' /\ IdInv'
  BY <1>1, <1>3, <1>4, SavedKeeps
<1>6. MadeInv' /\ AskInv'
  BY <1>1, MadeStays, AskStays
<1> QED
  BY <1>5, <1>6 DEF LateInv

\* The next start has the records of the disk, and forgets the rest.
LEMMA RestartKeeps ==
  ASSUME LateInv, Restart
  PROVE  LateInv'
<1>1. /\ LateTypes /\ AskInv /\ MadeInv /\ RowsInv /\ IdInv
      /\ UNCHANGED <<counter, made, result, record, answer, disk>>
      /\ stage' = [d \in Dictations |-> IF stage[d] \in {"new", "cancelled"} THEN stage[d] ELSE "over"]
      /\ gate' = Nil /\ worker' = NoWorker /\ rows' = disk.rows /\ nextId' = disk.next
      /\ erased' = erased \cup {d \in Dictations : stage[d] # "new" /\ d \notin Of(disk.rows)}
      /\ faults' \in Nat
  BY DEF LateInv, Restart, Fault, LateTypes
<1>2. LateTypes'
  BY <1>1 DEF LateTypes, Stages
<1>3. AskInv'
  <2>1. <<>> \in Seq([id : Nat, of : Dictations])
    OBVIOUS
  <2> QED
    BY <1>1, <2>1 DEF AskInv, NoWorker
<1>4. MadeInv'
  BY <1>1 DEF MadeInv, Ready
<1>5. \A i \in DOMAIN disk.rows :
        disk.rows[i].of \in Dictations /\ Written(disk.rows[i].of)'
  <2>1. \A i \in DOMAIN disk.rows : disk.rows[i].of \in Dictations /\ Written(disk.rows[i].of)
    BY <1>1, RowsTyped DEF LateTypes, RowsInv
  <2> QED
    BY <1>1, <2>1 DEF Written
<1>6. RowsInv'
  <2>1. \A d \in Dictations : Written(d)' => stage[d] # "new"
    BY <1>1 DEF Written
  <2>2. (\A d \in Dictations : Written(d) /\ result[d] # "none" /\ d \notin erased => d \in Of(rows))'
    BY <1>1, <2>1 DEF Of
  <2>3. /\ Distinct(rows)' /\ Distinct(disk.rows)'
        /\ (\A i \in DOMAIN rows : Written(rows[i].of))'
        /\ (\A i \in DOMAIN disk.rows : Written(disk.rows[i].of))'
    BY <1>1, <1>5 DEF RowsInv, Distinct, Written
  <2> QED
    BY <1>1, <2>2, <2>3 DEF RowsInv
<1>7. IdInv'
  BY <1>1 DEF IdInv, LateTypes
<1> QED
  BY <1>2, <1>3, <1>4, <1>6, <1>7 DEF LateInv

\* The first start has no record, and nothing under way.
LEMMA LateStarts == LateInit => LateInv
<1> SUFFICES ASSUME LateInit PROVE LateInv
  OBVIOUS
<1>1. /\ rows = <<>> /\ disk.rows = <<>> /\ disk.next = 1 /\ nextId = 1
      /\ DOMAIN rows = {} /\ DOMAIN disk.rows = {}
  BY DEF LateInit
<1>2. LateTypes
  BY <1>1 DEF LateInit, LateTypes, Stages, Results
<1>3. AskInv
  BY DEF LateInit, AskInv, NoWorker
<1>4. MadeInv
  BY DEF LateInit, MadeInv, NoDelivery, Ready
<1>5. RowsInv /\ IdInv
  BY <1>1 DEF LateInit, RowsInv, IdInv, Distinct, Written
<1> QED
  BY <1>2, <1>3, <1>4, <1>5 DEF LateInv

\* Every step keeps the invariant.
LEMMA LateStep == LateInv /\ [LateNext]_lateVars => LateInv'
<1> SUFFICES ASSUME LateInv, [LateNext]_lateVars PROVE LateInv'
  OBVIOUS
<1>1. CASE Begin
  BY <1>1, BeginKeepsAll
<1>2. ASSUME NEW d \in Dictations,
             \/ Accepted(d) \/ BudgetEnds(d) \/ Cancel(d)
             \/ Insert(d) \/ PressEnter(d) \/ Record(d)
             \/ Ask(d) \/ Answer(d) \/ Timeout(d) \/ Crash(d) \/ Late(d)
      PROVE  LateInv'
  BY <1>2, WaitEndsKeeps, CancelKeeps, InsertKeeps, PressKeeps, RecordKeeps,
      RequestsKeep, LateKeeps
<1>3. CASE Clear \/ SetRetention
  BY <1>3, CommandsKeep
<1>4. CASE Restart
  BY <1>4, RestartKeeps
<1>5. CASE UNCHANGED lateVars
  <2>1. /\ LateTypes /\ AskInv /\ MadeInv /\ RowsInv /\ IdInv /\ faults' \in Nat
        /\ UNCHANGED <<counter, stage, made, result, record, answer, gate, worker, rows, disk,
                       nextId, erased>>
    BY <1>5 DEF LateInv, lateVars, LateTypes
  <2> QED
    BY <2>1, StoreStill, MadeStays, AskStays DEF LateInv
<1> QED
  BY <1>1, <1>2, <1>3, <1>4, <1>5 DEF LateNext

-----------------------------------------------------------------------------
(* What the records tell, and what came to the program. *)

Told(r) ==
  /\ r.how = "keyed" <=> arrived[r.of] # Nil
  /\ r.how = "keyed" => r.inserted = arrived[r.of]

\* A text came to the program only by an insertion that says so, and no record
\* says anything else, in memory or on disk.
ToldInv ==
  /\ arrived \in [Dictations -> Texts \cup {Nil}]
  /\ \A d \in Dictations : arrived[d] # Nil <=> result[d] = "keyed"
  /\ \A i \in DOMAIN rows : Told(rows[i])
  /\ \A i \in DOMAIN disk.rows : Told(disk.rows[i])

\* A record that is appended tells how its own dictation's insertion went.
LEMMA AppendTells ==
  ASSUME LateInv, ToldInv, NEW d \in Dictations, ~ Written(d), stage[d] \in Ready,
         NEW how \in Hows, NEW text \in {Nil, made[d].text}, AppendRecord(d, how, text),
         how = "keyed" <=> arrived'[d] # Nil, how = "keyed" => text = arrived'[d],
         \A e \in Dictations \ {d} : arrived'[e] = arrived[e]
  PROVE  /\ \A i \in DOMAIN rows' : Told(rows[i])'
         /\ \A i \in DOMAIN disk'.rows : Told(disk.rows[i])'
<1> DEFINE row == [id |-> nextId, of |-> d, how |-> how, inserted |-> text,
                   polished |-> made[d].polished, outcome |-> made[d].outcome]
<1>1. row \in Rows /\ row.of = d /\ row.how = how /\ row.inserted = text
  BY RowMade DEF LateInv
<1> HIDE DEF row
<1>2. /\ rows' \in Pruned(Append(rows, row)) /\ Persist
      /\ rows \in Seq(Rows) /\ disk.rows \in Seq(Rows)
  BY DEF AppendRecord, Store, row, LateInv, LateTypes
<1>3. \A j \in DOMAIN rows' : rows'[j] = row \/ \E i \in DOMAIN rows : rows'[j] = rows[i]
  BY <1>1, <1>2, PrunedKeeps
<1>4. /\ \A i \in DOMAIN rows : rows[i].of \in Dictations \ {d}
      /\ \A i \in DOMAIN disk.rows : disk.rows[i].of \in Dictations \ {d}
  BY <1>2, RowsTyped DEF LateInv, RowsInv
<1>5. \A i \in DOMAIN rows' : Told(rows[i])'
  BY <1>1, <1>3, <1>4 DEF Told, ToldInv
<1>6. disk'.rows = rows' \/ disk' = disk
  BY <1>2 DEF Persist
<1>7. \A i \in DOMAIN disk'.rows : Told(disk.rows[i])'
  BY <1>4, <1>5, <1>6 DEF Told, ToldInv
<1> QED
  BY <1>5, <1>7

\* An insertion says what it did.
LEMMA InsertTells ==
  ASSUME LateInv, ToldInv, NEW d \in Dictations, Insert(d)
  PROVE  ToldInv'
<1>1. /\ stage[d] = "inserting" /\ stage[d] \in Ready /\ result[d] = "none" /\ ~ Written(d)
      /\ result \in [Dictations -> Results] /\ arrived[d] = Nil
  BY DEF Insert, LateInv, LateTypes, RowsInv, Written, Ready, ToldInv
<1>2. made[d].text \in Texts /\ made[d].text # Nil
  <2>1. made[d].text \in {Polish(d), <<"floor", d>>}
    BY <1>1 DEF LateInv, MadeInv, Tells
  <2>2. Polish(d) \in Texts /\ <<"floor", d>> \in Texts /\ Nil \notin Texts
    BY LateAssumption DEF Texts, Polish, Dictations
  <2> QED
    BY <2>1, <2>2
<1>3. CASE result' = [result EXCEPT ![d] = "error"] /\ UNCHANGED <<arrived, store>>
  BY <1>1, <1>3 DEF ToldInv, Told, store
<1>4. CASE ~ (result' = [result EXCEPT ![d] = "error"] /\ UNCHANGED <<arrived, store>>)
  <2>1. PICK how \in {"keyed", "copied", "failed"} :
          /\ result' = [result EXCEPT ![d] = how]
          /\ arrived' = IF how = "keyed" THEN [arrived EXCEPT ![d] = made[d].text] ELSE arrived
          /\ IF keeping THEN AppendRecord(d, how, made[d].text) ELSE Off(d)
    BY <1>4 DEF Insert
  <2>2. /\ arrived' \in [Dictations -> Texts \cup {Nil}]
        /\ \A e \in Dictations \ {d} : arrived'[e] = arrived[e] /\ result'[e] = result[e]
        /\ result'[d] = how /\ arrived'[d] = IF how = "keyed" THEN made[d].text ELSE Nil
    BY <1>1, <1>2, <2>1 DEF ToldInv
  <2>3. \A e \in Dictations : arrived'[e] # Nil <=> result'[e] = "keyed"
    BY <1>2, <2>2 DEF ToldInv
  <2>4. CASE keeping
    <3>1. how \in Hows
      BY DEF Hows
    <3>2. /\ \A i \in DOMAIN rows' : Told(rows[i])'
          /\ \A i \in DOMAIN disk'.rows : Told(disk.rows[i])'
      BY <1>1, <1>2, <2>1, <2>2, <2>4, <3>1, AppendTells
    <3> QED
      BY <2>2, <2>3, <3>2 DEF ToldInv
  <2>5. CASE ~ keeping
    <3>1. UNCHANGED <<rows, disk>>
      BY <2>1, <2>5 DEF Off
    <3>2. /\ \A i \in DOMAIN rows : rows[i].of \in Dictations \ {d}
          /\ \A i \in DOMAIN disk.rows : disk.rows[i].of \in Dictations \ {d}
      BY <1>1, RowsTyped DEF LateInv, LateTypes, RowsInv
    <3> QED
      BY <2>2, <2>3, <3>1, <3>2 DEF ToldInv, Told
  <2> QED
    BY <2>4, <2>5
<1> QED
  BY <1>3, <1>4

\* The rescue of an insertion that errored says that nothing came.
LEMMA RecordTells ==
  ASSUME LateInv, ToldInv, NEW d \in Dictations, Record(d)
  PROVE  ToldInv'
<1>1. UNCHANGED <<arrived, result>> /\ stage[d] = "recording" /\ stage[d] \in Ready
  BY DEF Record, Ready
<1>2. CASE UNCHANGED <<rows, disk>>
  BY <1>1, <1>2 DEF ToldInv, Told
<1>3. CASE ~ UNCHANGED <<rows, disk>>
  <2>1. AppendRecord(d, "rescued", Nil) /\ result[d] = "error"
    BY <1>3 DEF Record, Rescues, Off, store
  <2>2. ~ Written(d) /\ arrived[d] = Nil /\ "rescued" \in Hows
    BY <1>1, <2>1 DEF Written, ToldInv, Hows
  <2>3. /\ \A i \in DOMAIN rows' : Told(rows[i])'
        /\ \A i \in DOMAIN disk'.rows : Told(disk.rows[i])'
    BY <1>1, <2>1, <2>2, AppendTells
  <2> QED
    BY <1>1, <2>3 DEF ToldInv
<1> QED
  BY <1>2, <1>3

\* Records that come, go or are enriched behind all this tell what they told.
LEMMA SavedTells ==
  ASSUME ToldInv, UNCHANGED <<arrived, result>>,
         \A j \in DOMAIN rows' : \E r \in {rows[i] : i \in DOMAIN rows} \cup {disk.rows[i] : i \in DOMAIN disk.rows} :
           rows'[j].of = r.of /\ rows'[j].how = r.how /\ rows'[j].inserted = r.inserted,
         disk'.rows = rows' \/ disk' = disk
  PROVE  ToldInv'
<1>1. \A r \in {rows[i] : i \in DOMAIN rows} \cup {disk.rows[i] : i \in DOMAIN disk.rows} : Told(r)
  BY DEF ToldInv
<1>2. \A j \in DOMAIN rows' : Told(rows[j])'
  BY <1>1 DEF Told
<1>3. \A j \in DOMAIN disk'.rows : Told(disk.rows[j])'
  BY <1>2 DEF ToldInv, Told
<1> QED
  BY <1>2, <1>3 DEF ToldInv, Told

\* Every step keeps it.
LEMMA ToldStep == LateInv /\ ToldInv /\ [LateNext]_lateVars => ToldInv'
<1> SUFFICES ASSUME LateInv, ToldInv, [LateNext]_lateVars PROVE ToldInv'
  OBVIOUS
<1>1. rows \in Seq(Rows)
  BY DEF LateInv, LateTypes
<1>2. CASE Clear \/ SetRetention
  <2>1. UNCHANGED <<arrived, result>> /\ Persist /\ (rows' = rows \/ rows' = <<>>)
    BY <1>2 DEF Clear, SetRetention, Store, flow
  <2> QED
    BY <2>1, SavedTells DEF Persist
<1>3. CASE Restart
  BY <1>3, SavedTells DEF Restart
<1>4. ASSUME NEW d \in Dictations, Late(d) PROVE ToldInv'
  <2>1. UNCHANGED <<arrived, result>>
    BY <1>4 DEF Late, flow
  <2>2. CASE UNCHANGED <<rows, disk>>
    BY <2>1, <2>2 DEF ToldInv, Told
  <2>3. CASE ~ UNCHANGED <<rows, disk>>
    <3>1. rows' = Enriched(d, answer[d]) /\ Persist
      BY <1>4, <2>3 DEF Late, Enrich, store
    <3>2. \A r \in Rows : LET q == [r EXCEPT !.polished = answer[d]] IN
            q.of = r.of /\ q.how = r.how /\ q.inserted = r.inserted
      BY DEF Rows
    <3>3. ASSUME NEW j \in DOMAIN rows'
          PROVE  j \in DOMAIN rows /\ rows'[j].of = rows[j].of /\ rows'[j].how = rows[j].how
                 /\ rows'[j].inserted = rows[j].inserted
      <4>1. j \in DOMAIN rows /\ rows[j] \in Rows
        BY <1>1, <3>1 DEF Enriched
      <4>2. rows'[j] \in {rows[j], [rows[j] EXCEPT !.polished = answer[d]]}
        BY <3>1, <4>1 DEF Enriched
      <4> QED
        BY <3>2, <4>1, <4>2
    <3> QED
      BY <2>1, <3>1, <3>3, SavedTells DEF Persist
  <2> QED
    BY <2>2, <2>3
<1>5. ASSUME NEW d \in Dictations, Insert(d) \/ Record(d) PROVE ToldInv'
  BY <1>5, InsertTells, RecordTells
<1>6. ASSUME NEW d \in Dictations,
             \/ Accepted(d) \/ BudgetEnds(d) \/ Cancel(d) \/ PressEnter(d)
             \/ Ask(d) \/ Answer(d) \/ Timeout(d) \/ Crash(d)
      PROVE  UNCHANGED <<arrived, result, rows, disk>>
  BY <1>6 DEF Accepted, BudgetEnds, Cancel, PressEnter, Ask, Answer, Timeout, Crash, flow, store
<1>7. CASE UNCHANGED <<arrived, result, rows, disk>>
  BY <1>7 DEF ToldInv, Told
<1>8. Begin \/ UNCHANGED lateVars => UNCHANGED <<arrived, result, rows, disk>>
  BY DEF Begin, lateVars, store
<1> QED
  BY <1>2, <1>3, <1>4, <1>5, <1>6, <1>7, <1>8 DEF LateNext

\* A record tells how its insertion went, gives the very text that keystrokes
\* brought to the app, if they did, beside it no rewrite but its own dictation's,
\* and a dictation whose text was to be inserted has one, whatever failed, was
\* late, was pruned, cancelled or restarted meanwhile, for any number of
\* dictations and any limit of the store (resolve_delivery, HistoryManager).
THEOREM HistoryIsTrue == LateSpec => []HistoryTellsWhatLanded
<1>1. LateInv /\ ToldInv => HistoryTellsWhatLanded
  <2> SUFFICES ASSUME LateInv, ToldInv PROVE HistoryTellsWhatLanded
    OBVIOUS
  <2>1. LateTypes /\ RowsInv
    BY DEF LateInv
  <2>2. ASSUME NEW d \in Dictations, stage[d] \in {"over", "cancelled"}, result[d] # "none",
               d \notin erased, ~ Cut(d)
        PROVE  Cardinality({i \in DOMAIN rows : rows[i].of = d}) = 1
    <3>1. PICK i \in DOMAIN rows : rows[i].of = d
      BY <2>1, <2>2 DEF RowsInv, Written, Of, Cut
    <3>2. {j \in DOMAIN rows : rows[j].of = d} = {i}
      BY <2>1, <3>1 DEF RowsInv, Distinct
    <3> QED
      BY <3>2, FS_Singleton
  <2>3. \A r \in Rows :
          /\ r.inserted # Nil =>
               r.inserted = IF r.outcome = "accepted" THEN <<"polish", r.of>> ELSE <<"floor", r.of>>
          /\ r.polished \in {Nil, <<"polish", r.of>>}
          /\ r.outcome = "accepted" => r.polished # Nil
    BY DEF Rows, Polish
  <2>4. \A i \in DOMAIN rows : rows[i] \in Rows /\ Told(rows[i])
    BY <2>1, RowsTyped DEF LateTypes, ToldInv
  <2> QED
    BY <2>2, <2>3, <2>4 DEF HistoryTellsWhatLanded, Told
<1>2. LateInit => ToldInv
  <2> SUFFICES ASSUME LateInit PROVE ToldInv
    OBVIOUS
  <2>1. DOMAIN rows = {} /\ DOMAIN disk.rows = {}
    BY DEF LateInit
  <2> QED
    BY <2>1 DEF LateInit, ToldInv
<1> QED
  BY <1>1, <1>2, LateStarts, LateStep, ToldStep, PTL DEF LateSpec
=============================================================================
