-------------------------- MODULE SpeechEngine_proofs --------------------------
(***************************************************************************)
(* Proofs about where a dictation is decoded: only checked models reach    *)
(* the graphics card, and its trouble alone loses no dictation, for any    *)
(* number of dictations, checks, faults, settings changes and restarts.    *)
(***************************************************************************)
EXTENDS SpeechEngine, TLAPS

\* What a decode remembers, and the verdicts on record.
EngineTypes ==
  /\ boot \in Nat
  /\ pc \in [Users -> Pcs] /\ model \in [Users -> Models \cup {None}]
  /\ attempt \in [Dictations -> {"gpu", "fresh", "cpu", "fallback"}]
  /\ verdict \in [Models -> {"none", "passed", "failed"}]

\* A pass on record was found by a check.
PassedInv == \A m \in Models : verdict[m] = "passed" => m \in proven

\* A decode that has chosen no rung is on none of the card's, and one that is
\* on one came there with a model that passed.
CardInv ==
  \A d \in Dictations :
    /\ pc[d] \in {"idle", "choose", "wait"} => attempt[d] = "cpu"
    /\ pc[d] \in {"choose", "wait"} => model[d] \in Models
    /\ attempt[d] \in {"gpu", "fresh"} => model[d] \in proven

EngineInv == EngineTypes /\ PassedInv /\ CardInv

\* What the steps have in common that choose no rung and end no decode: no
\* thread but u moves, and u not to where a rung is chosen.
Onward(u) ==
  /\ UNCHANGED <<model, attempt, verdict, proven, boot>>
  /\ pc' \in [Users -> Pcs]
  /\ pc'[u] \notin {"idle", "choose", "wait"}
  /\ \A w \in Users \ {u} : pc'[w] = pc[w]

\* Such a step keeps the invariant.
LEMMA OnwardKeeps ==
  ASSUME EngineInv, NEW u \in Users, Onward(u)
  PROVE  EngineInv'
<1>1. EngineTypes' /\ PassedInv'
  BY DEF Onward, EngineInv, EngineTypes, PassedInv
<1>2. CardInv'
  BY DEF Onward, EngineInv, CardInv, Users
<1> QED
  BY <1>1, <1>2 DEF EngineInv

\* A thread that goes on leaves the others where they are.
LEMMA GoMoves ==
  ASSUME EngineTypes, NEW u \in Users, NEW at \in Pcs, Go(u, at)
  PROVE  /\ pc' \in [Users -> Pcs] /\ pc'[u] = at
         /\ \A w \in Users \ {u} : pc'[w] = pc[w]
  BY DEF EngineTypes, Go

\* Neither does a step that moves no decode.
LEMMA StillKeeps ==
  ASSUME EngineInv, UNCHANGED <<pc, model, attempt, verdict, proven, boot>>
  PROVE  EngineInv'
<1>1. EngineTypes' /\ PassedInv'
  BY DEF EngineInv, EngineTypes, PassedInv
<1>2. CardInv'
  BY DEF EngineInv, CardInv
<1> QED
  BY <1>1, <1>2 DEF EngineInv

-----------------------------------------------------------------------------
(* A dictation. *)

\* A model is picked when a decode begins.
LEMMA BeginKeeps ==
  ASSUME EngineInv, NEW d \in Dictations, Begin(d)
  PROVE  EngineInv'
<1>1. /\ d \in Users /\ EngineTypes /\ PassedInv /\ CardInv /\ pc[d] = "idle"
      /\ UNCHANGED <<attempt, verdict, proven, boot>> /\ Go(d, "choose")
  BY DEF Begin, EngineInv, Users, store, history
<1>2. PICK m \in Models : model' = [model EXCEPT ![d] = m]
  BY DEF Begin
<1>3. /\ pc' \in [Users -> Pcs] /\ pc'[d] = "choose" /\ \A w \in Users \ {d} : pc'[w] = pc[w]
  BY <1>1, GoMoves DEF Pcs
<1>4. /\ model' \in [Users -> Models \cup {None}] /\ model'[d] = m
      /\ \A w \in Users \ {d} : model'[w] = model[w]
  BY <1>1, <1>2 DEF EngineTypes
<1>5. EngineTypes' /\ PassedInv'
  BY <1>1, <1>3, <1>4 DEF EngineTypes, PassedInv
<1>6. attempt[d] = "cpu"
  BY <1>1 DEF CardInv
<1>7. CardInv'
  BY <1>1, <1>3, <1>4, <1>6 DEF CardInv, Users
<1> QED
  BY <1>5, <1>7 DEF EngineInv

\* An attempt on the card needs a model that passed its check.
LEMMA AttemptKeeps ==
  ASSUME EngineInv, NEW d \in Dictations,
         NEW at \in {"gpu", "fresh", "cpu", "fallback"}, Attempt(d, at),
         at \in {"gpu", "fresh"} => model[d] \in proven,
         UNCHANGED <<model, verdict, proven, boot>>
  PROVE  EngineInv'
<1>1. EngineTypes /\ PassedInv /\ CardInv /\ d \in Users
  BY DEF EngineInv, Users
<1>2. PICK p \in {"slot", "fw"} : Go(d, p)
  BY DEF Attempt, EngineOf
<1>3. /\ pc' \in [Users -> Pcs] /\ pc'[d] = p /\ \A w \in Users \ {d} : pc'[w] = pc[w]
  BY <1>1, <1>2, GoMoves DEF Pcs
<1>4. /\ attempt' \in [Dictations -> {"gpu", "fresh", "cpu", "fallback"}] /\ attempt'[d] = at
      /\ \A e \in Dictations \ {d} : attempt'[e] = attempt[e]
  BY <1>1 DEF EngineTypes, Attempt
<1>5. EngineTypes' /\ PassedInv'
  BY <1>1, <1>3, <1>4 DEF EngineTypes, PassedInv
<1>6. CardInv'
  BY <1>1, <1>3, <1>4 DEF CardInv, Users
<1> QED
  BY <1>5, <1>6 DEF EngineInv

\* The rung a dictation settles on is the card's only if its model passed.
LEMMA SettleKeeps ==
  ASSUME EngineInv, NEW d \in Dictations, pc[d] \in {"choose", "wait"},
         Settle(d, Primary(model[d])), UNCHANGED <<model, verdict, proven, boot>>
  PROVE  EngineInv'
<1>1. model[d] \in Models /\ PassedInv
  BY DEF EngineInv, CardInv
<1>2. Primary(model[d]) = "ready" => verdict[model[d]] = "passed"
  BY DEF Primary, Readiness
<1>3. CASE Primary(model[d]) = "ready"
  <2>1. Attempt(d, "gpu")
    BY <1>3 DEF Settle
  <2>2. model[d] \in proven
    BY <1>1, <1>2, <1>3 DEF PassedInv
  <2> QED
    BY <2>1, <2>2, AttemptKeeps
<1>4. CASE Primary(model[d]) # "ready"
  <2>1. Attempt(d, "cpu")
    BY <1>4 DEF Settle
  <2> QED
    BY <2>1, AttemptKeeps
<1> QED
  BY <1>3, <1>4

\* The first look, and the end of the wait for a check.
LEMMA ChooseKeeps ==
  ASSUME EngineInv, NEW d \in Dictations, Choose(d) \/ WaitOver(d)
  PROVE  EngineInv'
<1>1. UNCHANGED <<model, verdict, proven, boot>> /\ pc[d] \in {"choose", "wait"}
  BY DEF Choose, WaitOver, store, history
<1>2. CASE Settle(d, Primary(model[d]))
  BY <1>1, <1>2, SettleKeeps
<1>3. CASE ~ Settle(d, Primary(model[d]))
  <2>1. Go(d, "wait") /\ UNCHANGED attempt /\ pc[d] = "choose"
    BY <1>3 DEF Choose, WaitOver
  <2>2. EngineTypes /\ PassedInv /\ CardInv /\ d \in Users
    BY DEF EngineInv, Users
  <2>3. /\ pc' \in [Users -> Pcs] /\ pc'[d] = "wait" /\ \A w \in Users \ {d} : pc'[w] = pc[w]
    BY <2>1, <2>2, GoMoves DEF Pcs
  <2>4. EngineTypes' /\ PassedInv'
    BY <1>1, <2>1, <2>2, <2>3 DEF EngineTypes, PassedInv
  <2>5. CardInv'
    BY <1>1, <2>1, <2>2, <2>3 DEF CardInv, Users
  <2> QED
    BY <2>4, <2>5 DEF EngineInv
<1> QED
  BY <1>2, <1>3

\* The attempt itself, whatever its worker does.
LEMMA AttemptGoesOn ==
  ASSUME EngineInv, NEW d \in Dictations,
         CancelBeforeSlot(d) \/ TakeSlot(d) \/ SlotStaysBusy(d) \/ Load(d) \/ Decode(d)
         \/ FwDecode(d)
  PROVE  EngineInv'
<1>1. UNCHANGED <<model, attempt, verdict, proven, boot>> /\ d \in Users
  BY DEF CancelBeforeSlot, TakeSlot, SlotStaysBusy, Load, Decode, FwDecode, store, history, Users
<1>2. PICK p \in {"slot", "load", "decode", "after"} : Go(d, p)
  BY DEF CancelBeforeSlot, TakeSlot, SlotStaysBusy, Load, Decode, FwDecode, Answer,
         AttemptFails, DecodeAgain
<1>3. Onward(d)
  BY <1>1, <1>2, GoMoves DEF Onward, Pcs, EngineInv
<1> QED
  BY <1>1, <1>3, OnwardKeeps

\* A decode that returns forgets its rung.
LEMMA ReturnKeeps ==
  ASSUME EngineInv, NEW d \in Dictations, Return(d), UNCHANGED <<verdict, proven, boot>>
  PROVE  EngineInv'
<1>1. EngineTypes /\ PassedInv /\ CardInv /\ d \in Users
  BY DEF EngineInv, Users
<1>2. /\ pc' \in [Users -> Pcs] /\ pc'[d] = "idle" /\ \A w \in Users \ {d} : pc'[w] = pc[w]
  BY <1>1, GoMoves DEF Return, Pcs
<1>3. /\ attempt' \in [Dictations -> {"gpu", "fresh", "cpu", "fallback"}] /\ attempt'[d] = "cpu"
      /\ \A e \in Dictations \ {d} : attempt'[e] = attempt[e]
      /\ model' \in [Users -> Models \cup {None}]
      /\ \A w \in Users \ {d} : model'[w] = model[w]
  BY <1>1 DEF EngineTypes, Return
<1>4. EngineTypes' /\ PassedInv'
  BY <1>1, <1>2, <1>3 DEF EngineTypes, PassedInv
<1>5. CardInv'
  BY <1>1, <1>2, <1>3 DEF CardInv, Users
<1> QED
  BY <1>4, <1>5 DEF EngineInv

\* What follows an attempt: a fresh worker for a model that was on the card, a
\* rung of the processor, or the end.
LEMMA AfterKeeps ==
  ASSUME EngineInv, NEW d \in Dictations, After(d)
  PROVE  EngineInv'
<1>1. UNCHANGED <<verdict, proven, boot>> /\ d \in Users
  BY DEF After, store, history, Users
<1>2. \/ Go(d, "release") /\ UNCHANGED <<model, attempt>>
      \/ Return(d)
      \/ attempt[d] = "gpu" /\ NextAttempt(d, "fresh")
      \/ NextAttempt(d, "fallback")
  BY DEF After, AfterFault
<1>3. CASE Go(d, "release") /\ UNCHANGED <<model, attempt>>
  BY <1>1, <1>3, GoMoves, OnwardKeeps DEF Onward, Pcs, EngineInv
<1>4. CASE Return(d)
  BY <1>1, <1>4, ReturnKeeps
<1>5. CASE attempt[d] = "gpu" /\ NextAttempt(d, "fresh")
  <2>1. model[d] \in proven
    BY <1>5 DEF EngineInv, CardInv
  <2> QED
    BY <1>1, <1>5, <2>1, AttemptKeeps DEF NextAttempt
<1>6. CASE NextAttempt(d, "fallback")
  BY <1>1, <1>6, AttemptKeeps DEF NextAttempt
<1> QED
  BY <1>2, <1>3, <1>4, <1>5, <1>6

-----------------------------------------------------------------------------
(* The checks, the prewarm and the rest of the world. *)

\* A check that passes its model proves it.
LEMMA RecordKeeps ==
  ASSUME EngineInv, NEW u \in Users, RecordCheck(u)
  PROVE  EngineInv'
<1>1. EngineTypes /\ PassedInv /\ CardInv /\ UNCHANGED <<pc, model, attempt, boot>>
  BY DEF EngineInv, RecordCheck, task
<1>2. /\ proven' = IF Outcome(u) = "passed" THEN proven \cup {target[u]} ELSE proven
      /\ verdict' = IF Outcome(u) \in {"passed", "failed"}
                    THEN [verdict EXCEPT ![target[u]] = Outcome(u)] ELSE verdict
  BY DEF RecordCheck
<1>3. EngineTypes'
  BY <1>1, <1>2 DEF EngineTypes
<1>4. PassedInv'
  BY <1>1, <1>2 DEF EngineTypes, PassedInv
<1>5. CardInv'
  BY <1>1, <1>2 DEF CardInv
<1> QED
  BY <1>3, <1>4, <1>5 DEF EngineInv

\* Every other step of a check is none of the decodes'.
LEMMA CheckKeeps ==
  ASSUME EngineInv, NEW u \in Users, CheckStep(u)
  PROVE  EngineInv'
<1>1. CASE RecordCheck(u)
  BY <1>1, RecordKeeps
<1>2. CASE ~ RecordCheck(u)
  BY <1>2, StillKeeps DEF CheckStep, AskCheck, MarkCheck, TakeHeavy, CheckTakesSlot, CheckLoads,
     CheckDecodes, CheckCompares, ClearCheck, task, store, history
<1> QED
  BY <1>1, <1>2

\* The prewarm is no dictation.
LEMMA PrewarmKeeps ==
  ASSUME EngineInv, StartPrewarm \/ PrewarmStep
  PROVE  EngineInv'
<1>1. EngineTypes /\ PassedInv /\ CardInv /\ UNCHANGED <<attempt, verdict, proven, boot>>
      /\ Prewarm \in Users /\ Prewarm \notin Dictations
  BY NamesAssumption DEF EngineInv, StartPrewarm, PrewarmStep, PrewarmChooses, PrewarmLoads,
     PrewarmChecked, store, history, Users
<1>2. PICK p \in Pcs : Go(Prewarm, p)
  BY DEF StartPrewarm, PrewarmStep, PrewarmChooses, PrewarmLoads, PrewarmChecked, EndPrewarm, Pcs
<1>3. /\ pc' \in [Users -> Pcs] /\ \A w \in Users \ {Prewarm} : pc'[w] = pc[w]
  BY <1>1, <1>2, GoMoves
<1>4. \E m \in Models \cup {None} : model' = [model EXCEPT ![Prewarm] = m] \/ model' = model
  BY DEF StartPrewarm, PrewarmStep, PrewarmChooses, PrewarmLoads, PrewarmChecked, EndPrewarm
<1>5. /\ model' \in [Users -> Models \cup {None}]
      /\ \A w \in Users \ {Prewarm} : model'[w] = model[w]
  BY <1>1, <1>4 DEF EngineTypes
<1>6. EngineTypes' /\ PassedInv'
  BY <1>1, <1>3, <1>5 DEF EngineTypes, PassedInv
<1>7. CardInv'
  BY <1>1, <1>3, <1>5 DEF CardInv, Users
<1> QED
  BY <1>6, <1>7 DEF EngineInv

\* A restart keeps what is on record, and nothing of the decodes.
LEMMA RestartKeeps ==
  ASSUME EngineInv, Restart
  PROVE  EngineInv'
<1>1. EngineTypes /\ PassedInv /\ UNCHANGED <<verdict, proven>> /\ boot' = boot + 1
      /\ pc' = [u \in Users |-> "idle"] /\ model' = [u \in Users |-> None]
      /\ attempt' = [d \in Dictations |-> "cpu"]
  BY DEF EngineInv, Restart, store
<1>2. EngineTypes' /\ PassedInv'
  BY <1>1 DEF EngineTypes, PassedInv, Pcs
<1>3. CardInv'
  BY <1>1 DEF CardInv, Users
<1> QED
  BY <1>2, <1>3 DEF EngineInv

\* The app starts with no decode and no verdict.
LEMMA EngineStarts == Init => EngineInv
<1> SUFFICES ASSUME Init PROVE EngineInv
  OBVIOUS
<1>1. EngineTypes /\ PassedInv
  BY DEF Init, EngineTypes, PassedInv, Pcs
<1>2. CardInv
  BY DEF Init, CardInv, Users
<1> QED
  BY <1>1, <1>2 DEF EngineInv

\* Every step keeps the invariant.
LEMMA EngineStep == EngineInv /\ [Next]_vars => EngineInv'
<1> SUFFICES ASSUME EngineInv, [Next]_vars PROVE EngineInv'
  OBVIOUS
<1>1. ASSUME NEW d \in Dictations, Begin(d) \/ WaitOver(d) \/ DictationStep(d) \/ Cancel(d)
      PROVE  EngineInv'
  <2>1. CASE Begin(d)
    BY <2>1, BeginKeeps
  <2>2. CASE WaitOver(d) \/ Choose(d)
    BY <2>2, ChooseKeeps
  <2>3. CASE CancelBeforeSlot(d) \/ TakeSlot(d) \/ SlotStaysBusy(d) \/ Load(d) \/ Decode(d)
             \/ FwDecode(d)
    BY <2>3, AttemptGoesOn
  <2>4. CASE After(d)
    BY <2>4, AfterKeeps
  <2>5. CASE ReleaseOther(d)
    BY <2>5, ReturnKeeps DEF ReleaseOther, store, history
  <2>6. CASE WaitSpawns(d) \/ Cancel(d)
    BY <2>6, StillKeeps DEF WaitSpawns, Cancel, task, store, history
  <2> QED
    BY <1>1, <2>1, <2>2, <2>3, <2>4, <2>5, <2>6 DEF DictationStep
<1>2. ASSUME NEW u \in Users, CheckStep(u) PROVE EngineInv'
  BY <1>2, CheckKeeps
<1>3. CASE StartPrewarm \/ PrewarmStep
  BY <1>3, PrewarmKeeps
<1>4. CASE Restart
  BY <1>4, RestartKeeps
<1>5. CASE SetGpu \/ CooldownEnds \/ (\E r \in Rungs : WorkerDies(r)) \/ UNCHANGED vars
  BY <1>5, StillKeeps DEF SetGpu, CooldownEnds, WorkerDies, vars, task, store, history
<1> QED
  BY <1>1, <1>2, <1>3, <1>4, <1>5 DEF Next

-----------------------------------------------------------------------------

\* A dictation is tried on the graphics card only with a model that passed its
\* check, whatever checks, faults, settings changes, prewarms and restarts come
\* in between (primary_rung_blocking, transcribe_with_asr_worker).
THEOREM CardNeedsACheck == Spec => []OnlyCheckedModelsOnGpu
<1>1. EngineInv => OnlyCheckedModelsOnGpu
  <2> SUFFICES ASSUME EngineInv, NEW d \in Dictations, RungOf(d) = "gpu"
               PROVE  model[d] \in proven
    BY DEF OnlyCheckedModelsOnGpu
  <2>1. attempt[d] \in {"gpu", "fresh"}
    BY DEF RungOf
  <2> QED
    BY <2>1 DEF EngineInv, CardInv
<1> QED
  BY <1>1, EngineStarts, EngineStep, PTL DEF Spec

\* Only the end of an attempt ends a dictation with the app still running.
LEMMA OnlyAttemptsEnd ==
  ASSUME EngineInv, Next, NEW d \in Dictations, pc[d] = "after", pc'[d] = "idle", boot' = boot
  PROVE  After(d)
<1>1. EngineTypes /\ d \in Users /\ Prewarm \in Users /\ Prewarm \notin Dictations
  BY NamesAssumption DEF EngineInv, Users
<1>2. ASSUME NEW e \in Dictations, NEW p \in Pcs, Go(e, p), pc[e] # "after" PROVE FALSE
  BY <1>1, <1>2, GoMoves DEF Users
<1>3. ASSUME NEW p \in Pcs, Go(Prewarm, p) PROVE FALSE
  BY <1>1, <1>3, GoMoves
<1>4. pc' # pc
  OBVIOUS
<1>5. ASSUME NEW e \in Dictations, Begin(e) \/ WaitOver(e) \/ DictationStep(e) \/ Cancel(e)
      PROVE  After(d)
  <2>1. CASE After(e)
    <3>1. PICK p \in Pcs : Go(e, p)
      BY <2>1 DEF After, AfterFault, Return, NextAttempt, Attempt, EngineOf, Pcs
    <3>2. e = d
      BY <1>1, <3>1, GoMoves DEF Users
    <3> QED
      BY <2>1, <3>2
  <2>2. CASE ~ After(e)
    <3>1. pc[e] # "after" /\ (pc' = pc \/ \E p \in Pcs : Go(e, p))
      BY <1>5, <2>2 DEF DictationStep, Begin, WaitOver, Choose, WaitSpawns, CancelBeforeSlot, TakeSlot,
         SlotStaysBusy, Load, Decode, FwDecode, ReleaseOther, Cancel, task, Settle, Attempt,
         EngineOf, Answer, AttemptFails, DecodeAgain, Return, Pcs
    <3> QED
      BY <1>2, <1>4, <3>1
  <2> QED
    BY <2>1, <2>2
<1>6. ASSUME NEW u \in Users, CheckStep(u) PROVE pc' = pc
  BY <1>6 DEF CheckStep, AskCheck, MarkCheck, TakeHeavy, CheckTakesSlot, CheckLoads,
     CheckDecodes, CheckCompares, RecordCheck, ClearCheck, task
<1>7. StartPrewarm \/ PrewarmStep => \E p \in Pcs : Go(Prewarm, p)
  BY DEF StartPrewarm, PrewarmStep, PrewarmChooses, PrewarmLoads, PrewarmChecked, EndPrewarm, Pcs
<1>8. ~ Restart
  BY <1>1 DEF Restart, EngineTypes
<1>9. SetGpu \/ CooldownEnds \/ (\E r \in Rungs : WorkerDies(r)) => pc' = pc
  BY DEF SetGpu, CooldownEnds, WorkerDies, task
<1> QED
  BY <1>3, <1>4, <1>5, <1>6, <1>7, <1>8, <1>9 DEF Next

\* Whatever goes wrong on the graphics card, a dictation that ends with an
\* error was last tried on its CPU rung, unless it was cancelled or its model's
\* file is damaged (transcribe_with_asr_worker).
THEOREM TroubleEndsOnTheCpu == Spec => GpuTroubleLosesNothing
<1> DEFINE Ends(d) == /\ pc[d] = "after" /\ pc'[d] = "idle" /\ boot' = boot
                      /\ result[d] \notin {"ok", "cancelled", "artifact"} /\ d \notin cancelled
<1>1. ASSUME EngineInv, Next, NEW d \in Dictations, Ends(d)
      PROVE  attempt[d] \in {"cpu", "fallback"}
  <2>1. After(d) /\ d \in Users /\ EngineTypes
    BY <1>1, OnlyAttemptsEnd DEF EngineInv, Users
  <2>2. AfterFault(d)
    BY <1>1, <2>1 DEF After
  <2>3. attempt[d] \in {"gpu", "fresh"} => \E at \in {"fresh", "fallback"} : NextAttempt(d, at)
    BY <1>1, <2>2 DEF AfterFault
  <2>4. \A at \in {"fresh", "fallback"} : ~ NextAttempt(d, at)
    <3> SUFFICES ASSUME NEW at \in {"fresh", "fallback"}, NextAttempt(d, at) PROVE FALSE
      OBVIOUS
    <3>1. PICK p \in {"slot", "fw"} : Go(d, p)
      BY DEF NextAttempt, Attempt, EngineOf
    <3> QED
      BY <1>1, <2>1, <3>1, GoMoves DEF Pcs
  <2> QED
    BY <2>1, <2>3, <2>4 DEF EngineTypes
<1>2. EngineInv /\ [Next]_vars => [\A d \in Dictations : Ends(d) => attempt[d] \in {"cpu", "fallback"}]_vars
  BY <1>1
<1> QED
  BY <1>2, EngineStarts, EngineStep, PTL DEF Spec, GpuTroubleLosesNothing
=============================================================================
