-------------------------- MODULE SpeechPath_proofs --------------------------
(***************************************************************************)
(* The modules on the way from the microphone to a text, one section each: *)
(* the requests of the faster-whisper worker, the end of a recording and   *)
(* what it hands on, the cues, the decode's policy and its second try, the *)
(* graphics card's file and the microphone's notices, for any number of    *)
(* threads, processes, cards and callers.                                  *)
(***************************************************************************)
EXTENDS FwWorker, CaptureLoop, CuePlayer, DecodePolicy, DecodeRetry, GpuSelect, MicNotices,
        FiniteSetTheorems, SequenceTheorems, TLAPS

-----------------------------------------------------------------------------
(* The faster-whisper worker. *)
Line == [id : Nat, ok : BOOLEAN]
Process == [stage : {"unborn", "starting", "up", "dead"}, todo : Nat, out : Seq(Line)]

Places == {"idle", "gate", "slot", "starting", "started", "check", "ask", "wait"}

Types ==
  /\ slot \in Pids \cup {Nobody} /\ procs \in [Pids -> Process]
  /\ at \in [Threads -> Places] /\ mine \in [Threads -> Pids \cup {Nobody}]
  /\ asked \in [Threads -> Nat] /\ ids \in Nat
  /\ at[Download] \in {"idle", "starting", "started", "check", "ask", "wait"}

\* A process that is in hand has been started, and the download's own is in no
\* other hands.
InHand ==
  /\ \A t \in Threads : at[t] \in {"starting", "started", "check", "ask", "wait"} => mine[t] # Nobody
  /\ \A t \in Threads : mine[t] # Nobody => procs[mine[t]].stage # "unborn"
  /\ \A t \in Threads \ {Download} : mine[t] # Nobody => mine[t] # mine[Download]
  /\ slot # Nobody => slot # mine[Download] /\ procs[slot].stage # "unborn"

\* A cancel sets the token before it looks at the registry, and the download
\* looks at the token after it is registered.
CancelInv ==
  /\ token = (cancel # "no")
  /\ at[Download] \in {"check", "ask", "wait"} /\ cancel # "swept" => mine[Download] \in loading
  /\ at[Download] \in {"ask", "wait"} /\ cancel = "swept" => procs[mine[Download]].stage = "dead"

FwInv == Types /\ InHand /\ CancelInv

-----------------------------------------------------------------------------
(* Processes. *)

\* A process that died is still a process.
LEMMA DeadIsAProcess ==
  ASSUME procs \in [Pids -> Process], NEW p \in Pids
  PROVE  Dead(p) \in Process /\ Dead(p).stage = "dead"
  BY DEF Dead, Process, NoLine

\* A step of the processes that starts none and wakes none.
Onward ==
  /\ procs' \in [Pids -> Process]
  /\ \A p \in Pids : /\ procs[p].stage # "unborn" => procs'[p].stage # "unborn"
                     /\ procs[p].stage = "dead" => procs'[p].stage = "dead"

\* Dropping a process starts and wakes none ...
LEMMA DroppedOnward ==
  ASSUME procs \in [Pids -> Process], NEW p \in Pids, Dropped(p)
  PROVE  Onward
  BY DeadIsAProcess DEF Dropped, Onward

\* ... nor does killing some, and those are dead ...
LEMMA KillOnward ==
  ASSUME procs \in [Pids -> Process], NEW ps, Kill(ps)
  PROVE  Onward /\ \A p \in Pids \cap ps : procs'[p].stage = "dead"
  BY DeadIsAProcess DEF Kill, Onward

\* ... nor leaving them all alone.
LEMMA SameOnward ==
  ASSUME procs \in [Pids -> Process], UNCHANGED procs
  PROVE  Onward
  BY DEF Onward

\* Whatever the processes do, the invariant stays while no thread moves and
\* the slot and the cancel stay.
LEMMA OnwardKeeps ==
  ASSUME FwInv, Onward, UNCHANGED <<slot, at, mine, asked, ids, loading, token, cancel>>
  PROVE  FwInv'
<1> USE DEF FwInv
<1>1. Types'
  BY DEF Types, Onward
<1>2. InHand'
  BY DEF Types, InHand, Onward, Threads
<1>3. CancelInv'
  BY DEF Types, InHand, CancelInv, Onward, Threads
<1> QED
  BY <1>1, <1>2, <1>3

-----------------------------------------------------------------------------
(* Requests. *)

\* A thread without a process in hand, other than the download's, may move.
LEMMA MoveKeeps ==
  ASSUME FwInv, NEW t \in Threads \ {Download}, NEW where \in Places,
         where \in {"starting", "started", "check", "ask", "wait"} => mine[t] # Nobody,
         Go(t, where), asked' \in [Threads -> Nat], ids' \in Nat,
         UNCHANGED <<slot, procs, mine, loading, token, cancel>>
  PROVE  FwInv'
<1> USE DEF FwInv
<1>1. at' \in [Threads -> Places] /\ at'[Download] = at[Download]
  BY DEF Go, Types, Threads
<1>2. \A u \in Threads : at'[u] = IF u = t THEN where ELSE at[u]
  BY DEF Go, Types
<1>3. Types'
  BY <1>1 DEF Types
<1>4. InHand'
  BY <1>2 DEF InHand
<1>5. CancelInv'
  BY <1>1 DEF CancelInv
<1> QED
  BY <1>3, <1>4, <1>5

\* The steps before a thread has a process in hand.
LEMMA GateSteps ==
  ASSUME FwInv, NEW t \in Threads, Send(t) \/ Enter(t) \/ GiveUp(t) \/ GetReady(t)
  PROVE  FwInv'
<1> USE DEF FwInv
<1>0. asked \in [Threads -> Nat] /\ ids \in Nat
  BY DEF Types
<1>1. t # Download
  BY ThreadsAssumption DEF Types, Send, Enter, GiveUp, GetReady
<1>2. CASE Send(t)
  <2>1. asked' \in [Threads -> Nat] /\ ids' \in Nat
    BY <1>0, <1>2 DEF Send
  <2> QED
    BY <1>1, <1>2, <2>1, MoveKeeps DEF Send, Places
<1>3. CASE Enter(t)
  BY <1>0, <1>1, <1>3, MoveKeeps DEF Enter, Places
<1>4. CASE GiveUp(t)
  BY <1>0, <1>1, <1>4, MoveKeeps DEF GiveUp, Places
<1>5. CASE GetReady(t)
  BY <1>0, <1>1, <1>5, MoveKeeps DEF GetReady, Places
<1> QED
  BY <1>2, <1>3, <1>4, <1>5

\* A request takes the parked worker.
LEMMA CheckoutStep ==
  ASSUME FwInv, NEW t \in Threads, Checkout(t)
  PROVE  FwInv'
<1> USE DEF FwInv
<1>1. t # Download /\ slot \in Pids /\ at[t] = "slot"
  BY DEF Types, Checkout
<1>2. CASE t \in Readiers
  BY <1>1, <1>2, MoveKeeps DEF Checkout, Types, Places
<1>3. CASE t \notin Readiers
  <2>1. /\ Go(t, "ask") /\ mine' = [mine EXCEPT ![t] = slot] /\ slot' = Nobody
        /\ UNCHANGED <<procs, asked, ids, loading, token, cancel>>
    BY <1>3 DEF Checkout
  <2>2. \A u \in Threads : /\ at'[u] = IF u = t THEN "ask" ELSE at[u]
                           /\ mine'[u] = IF u = t THEN slot ELSE mine[u]
    BY <2>1 DEF Go, Types
  <2>3. Types'
    BY <1>1, <2>1 DEF Types, Go, Threads, Places
  <2>4. InHand'
    BY <1>1, <2>1, <2>2, ThreadsAssumption DEF InHand, Threads
  <2>5. CancelInv'
    BY <1>1, <2>1, <2>2 DEF CancelInv, Threads
  <2> QED
    BY <2>3, <2>4, <2>5
<1> QED
  BY <1>2, <1>3

\* A new process has never been in anyone's hands.
LEMMA StartStep ==
  ASSUME FwInv, NEW t \in Threads, Start(t)
  PROVE  FwInv'
<1> USE DEF FwInv
<1>1. PICK p \in Pids :
        /\ procs[p].stage = "unborn" /\ procs' = [procs EXCEPT ![p].stage = "starting"]
        /\ mine' = [mine EXCEPT ![t] = p]
  <2> DEFINE p == CHOOSE q \in Pids : procs[q].stage = "unborn"
  <2>1. p \in Pids /\ procs[p].stage = "unborn"
    BY DEF Start
  <2> QED
    BY <2>1 DEF Start
<1>2. /\ Go(t, "starting") /\ UNCHANGED <<slot, loading>>
      /\ t = Download => ids' = ids + 1 /\ asked' = [asked EXCEPT ![t] = ids'] /\ token' = FALSE
                         /\ cancel' = "no"
      /\ t # Download => UNCHANGED <<asked, ids, token, cancel>>
  BY DEF Start
<1>3. \A u \in Threads : /\ at'[u] = IF u = t THEN "starting" ELSE at[u]
                         /\ mine'[u] = IF u = t THEN p ELSE mine[u]
  BY <1>1, <1>2 DEF Go, Types
<1>4. /\ procs' \in [Pids -> Process] /\ procs'[p].stage = "starting"
      /\ \A q \in Pids \ {p} : procs'[q] = procs[q]
  BY <1>1 DEF Types, Process
<1>5. Types'
  <2>1. at' \in [Threads -> Places] /\ mine' \in [Threads -> Pids \cup {Nobody}]
    BY <1>1, <1>2 DEF Types, Go, Places
  <2>2. asked' \in [Threads -> Nat] /\ ids' \in Nat
    BY <1>2 DEF Types
  <2>3. at'[Download] \in {"idle", "starting", "started", "check", "ask", "wait"}
    BY <1>3 DEF Types, Threads
  <2> QED
    BY <1>2, <1>4, <2>1, <2>2, <2>3 DEF Types
<1>6. InHand'
  <2>1. \A u \in Threads : mine[u] # p
    BY <1>1, ThreadsAssumption DEF InHand
  <2>2. slot # p
    BY <1>1, ThreadsAssumption DEF InHand
  <2> QED
    BY <1>2, <1>3, <1>4, <2>1, <2>2, ThreadsAssumption DEF InHand, Types, Threads
<1>7. CancelInv'
  <2>1. CASE t = Download
    BY <1>2, <1>3, <2>1 DEF CancelInv, Threads
  <2>2. CASE t # Download
    <3>1. at'[Download] = at[Download] /\ mine'[Download] = mine[Download]
      BY <1>3, <2>2 DEF Threads
    <3>2. at[Download] \in {"ask", "wait"} /\ cancel = "swept" => mine[Download] \in Pids \ {p}
      BY <1>1 DEF CancelInv, InHand, Types, Threads
    <3> QED
      BY <1>2, <1>4, <2>2, <3>1, <3>2 DEF CancelInv
  <2> QED
    BY <2>1, <2>2
<1> QED
  BY <1>5, <1>6, <1>7

\* A thread lets go of its process, or was the download and ends: what is in
\* other hands stays there.
LEMMA SlotIsLetGo ==
  ASSUME FwInv, Onward, NEW t \in Threads, Go(t, "idle"), mine' = [mine EXCEPT ![t] = Nobody],
         slot' = slot \/ (t # Download /\ slot' = mine[t] /\ mine[t] # Nobody),
         loading' = loading \/ t = Download \/ loading' = loading \ {mine[t]},
         UNCHANGED <<asked, ids, token, cancel>>
  PROVE  FwInv'
<1> USE DEF FwInv
<1>1. \A u \in Threads : /\ at'[u] = IF u = t THEN "idle" ELSE at[u]
                         /\ mine'[u] = IF u = t THEN Nobody ELSE mine[u]
  BY DEF Go, Types
<1>2. Types'
  BY DEF Types, Go, Places, Onward, Threads
<1>3. InHand'
  <2>1. \A u \in Threads : mine'[u] # Nobody => procs'[mine'[u]].stage # "unborn"
    BY <1>1 DEF InHand, Types, Onward
  <2>2. \A u \in Threads \ {Download} : mine'[u] # Nobody => mine'[u] # mine'[Download]
    BY <1>1 DEF InHand, Threads
  <2>3. slot' # Nobody => slot' # mine'[Download] /\ procs'[slot'].stage # "unborn"
    <3>1. CASE slot' = slot
      BY <1>1, <3>1 DEF InHand, Types, Onward, Threads
    <3>2. CASE t # Download /\ slot' = mine[t] /\ mine[t] # Nobody
      <4>1. mine[t] \in Pids /\ procs[mine[t]].stage # "unborn" /\ mine[t] # mine[Download]
        BY <3>2 DEF InHand, Types
      <4>2. mine'[Download] = mine[Download]
        BY <1>1, <3>2 DEF Threads
      <4>3. procs'[mine[t]].stage # "unborn"
        BY <4>1 DEF Onward
      <4> QED
        BY <3>2, <4>1, <4>2, <4>3
    <3> QED
      BY <3>1, <3>2
  <2> QED
    BY <1>1, <2>1, <2>2, <2>3 DEF InHand
<1>4. CancelInv'
  <2>1. CASE t = Download
    BY <1>1, <2>1 DEF CancelInv, Threads
  <2>2. CASE t # Download
    <3>1. at'[Download] = at[Download] /\ mine'[Download] = mine[Download]
      BY <1>1, <2>2 DEF Threads
    <3>2. at[Download] \in {"check", "ask", "wait"} => mine[Download] \in Pids
      BY DEF InHand, Types, Threads
    <3>3. mine[Download] \in loading /\ mine[Download] \in Pids => mine[Download] \in loading'
      <4>1. mine[Download] \in Pids => mine[t] # mine[Download]
        BY <2>2, ThreadsAssumption DEF InHand, Threads
      <4> QED
        BY <2>2, <4>1
    <3> QED
      BY <3>1, <3>2, <3>3 DEF CancelInv, Onward
  <2> QED
    BY <2>1, <2>2
<1> QED
  BY <1>2, <1>3, <1>4

\* What a thread that is using a process holds.
LEMMA Holder ==
  ASSUME FwInv, NEW t \in Threads, at[t] \in {"starting", "started", "check", "ask", "wait"}
  PROVE  mine[t] \in Pids /\ procs[mine[t]].stage # "unborn" /\ procs \in [Pids -> Process]
  BY DEF FwInv, Types, InHand

\* A worker that says it is ready can be asked.
LEMMA StartedStep ==
  ASSUME FwInv, NEW t \in Threads, Started(t)
  PROVE  FwInv'
<1> USE DEF FwInv
<1>1. /\ at[t] = "starting" /\ procs[mine[t]].stage = "starting" /\ mine[t] \in Pids
      /\ procs' = [procs EXCEPT ![mine[t]].stage = "up"]
      /\ UNCHANGED <<asked, ids, loading, token, cancel>>
  BY Holder DEF Started
<1>2. Onward
  BY <1>1 DEF Types, Process, Onward
<1>3. CASE t \in Readiers
  <2>1. Go(t, "idle") /\ mine' = [mine EXCEPT ![t] = Nobody] /\ slot' = mine[t]
    BY <1>3 DEF Started
  <2> QED
    BY <1>1, <1>2, <1>3, <2>1, SlotIsLetGo, ThreadsAssumption
<1>4. CASE t \notin Readiers
  <2>1. \E where \in {"started", "ask"} : Go(t, where) /\ (where = "ask" <=> t # Download)
    BY <1>4 DEF Started
  <2>2. UNCHANGED mine /\ slot' = IF t = Download THEN slot ELSE Nobody
    BY <1>4 DEF Started
  <2>3. \A u \in Threads : at'[u] = IF u = t THEN IF t = Download THEN "started" ELSE "ask" ELSE at[u]
    BY <2>1 DEF Go, Types
  <2>4. Types'
    <3>1. at' \in [Threads -> Places]
      BY <2>1 DEF Types, Go, Places
    <3>2. at'[Download] \in {"idle", "starting", "started", "check", "ask", "wait"}
      BY <2>3 DEF Types, Threads
    <3> QED
      BY <1>1, <1>2, <2>2, <3>1, <3>2 DEF Types, Onward
  <2>5. InHand'
    BY <1>1, <1>2, <2>2, <2>3 DEF InHand, Onward, Types, Threads
  <2>6. CancelInv'
    BY <1>1, <1>2, <2>2, <2>3 DEF CancelInv, InHand, Onward, Types, Threads
  <2> QED
    BY <2>4, <2>5, <2>6
<1> QED
  BY <1>3, <1>4

\* A worker that does not start is dropped, and its thread is done.
LEMMA StartFailsStep ==
  ASSUME FwInv, NEW t \in Threads, StartFails(t)
  PROVE  FwInv'
<1>1. mine[t] \in Pids /\ procs \in [Pids -> Process] /\ Dropped(mine[t])
  BY Holder DEF StartFails
<1>2. Onward
  BY <1>1, DroppedOnward
<1> QED
  BY <1>2, SlotIsLetGo DEF StartFails

\* A request that was lost lets go of a worker that is dead.
LEMMA LostStep ==
  ASSUME FwInv, NEW t \in Threads, at[t] = "wait", Lost(t)
  PROVE  FwInv'
<1>1. mine[t] \in Pids /\ procs \in [Pids -> Process] /\ Dropped(mine[t])
  BY Holder DEF Lost
<1>2. Onward
  BY <1>1, DroppedOnward
<1>3. loading' = loading \/ t = Download
  BY DEF Lost
<1> QED
  BY <1>2, <1>3, SlotIsLetGo DEF Lost, Done

\* The line a thread writes carries the number it drew.
LEMMA AskStep ==
  ASSUME FwInv, NEW t \in Threads, Ask(t)
  PROVE  FwInv'
<1> USE DEF FwInv
<1>1. /\ at[t] = "ask" /\ mine[t] \in Pids /\ procs[mine[t]] \in Process /\ Go(t, "wait")
      /\ UNCHANGED <<slot, mine, asked, ids, loading, token, cancel>>
  BY Holder DEF Ask
<1>2. PICK n \in 1 .. Len(procs[mine[t]].out) + 1 :
        procs' = [procs EXCEPT
          ![mine[t]].out = SubSeq(procs[mine[t]].out, n, Len(procs[mine[t]].out)),
          ![mine[t]].todo = IF Alive(mine[t]) THEN asked[t] ELSE NoLine]
  BY DEF Ask
<1>3. Onward
  <2>1. SubSeq(procs[mine[t]].out, n, Len(procs[mine[t]].out)) \in Seq(Line)
    BY <1>1, <1>2 DEF Process
  <2>2. asked[t] \in Nat /\ NoLine \in Nat
    BY DEF Types, NoLine
  <2> QED
    BY <1>1, <1>2, <2>1, <2>2 DEF Types, Process, Onward
<1>4. \A u \in Threads : at'[u] = IF u = t THEN "wait" ELSE at[u]
  BY <1>1 DEF Go, Types
<1>5. Types'
  BY <1>1, <1>3 DEF Types, Go, Places, Onward, Threads
<1>6. InHand'
  BY <1>1, <1>3, <1>4 DEF InHand, Onward, Types, Threads
<1>7. CancelInv'
  BY <1>1, <1>3, <1>4 DEF CancelInv, InHand, Onward, Types, Threads
<1> QED
  BY <1>5, <1>6, <1>7

\* A thread that reads its answer, or another's.
LEMMA ReadStep ==
  ASSUME FwInv, NEW t \in Threads, Read(t)
  PROVE  FwInv'
<1> USE DEF FwInv
<1>1. /\ at[t] = "wait" /\ mine[t] \in Pids /\ procs[mine[t]] \in Process
      /\ procs[mine[t]].out # <<>> /\ procs \in [Pids -> Process]
  BY Holder DEF Read
<1>2. CASE Lost(t)
  BY <1>1, <1>2, LostStep
<1>3. CASE /\ Done(t) /\ Dropped(mine[t]) /\ loading' = loading \ {mine[t]} /\ UNCHANGED slot
           /\ UNCHANGED <<asked, ids, token, cancel>>
  <2>1. Onward
    BY <1>1, <1>3, DroppedOnward
  <2> QED
    BY <1>3, <2>1, SlotIsLetGo DEF Done
<1>4. CASE /\ Done(t) /\ t # Download /\ procs' = [procs EXCEPT ![mine[t]].out = Tail(@)]
           /\ slot' = mine[t] /\ UNCHANGED <<loading, asked, ids, token, cancel>>
  <2>1. Tail(procs[mine[t]].out) \in Seq(Line)
    BY <1>1 DEF Process
  <2>2. Onward
    BY <1>1, <1>4, <2>1 DEF Process, Onward
  <2>3. mine[t] # Nobody
    BY <1>1, ThreadsAssumption
  <2> QED
    BY <1>4, <2>2, <2>3, SlotIsLetGo DEF Done
<1> QED
  BY <1>2, <1>3, <1>4 DEF Read

-----------------------------------------------------------------------------
(* The download, its cancel and the exit. *)

\* The download goes to its next stage with its process in its hands.
LEMMA DownloadGoes ==
  ASSUME FwInv, NEW where \in {"check", "ask"}, Go(Download, where), mine[Download] # Nobody,
         loading' = loading \/ loading' = loading \cup {mine[Download]},
         mine[Download] \in loading', where = "ask" => cancel = "no",
         UNCHANGED <<slot, procs, mine, asked, ids, token, cancel>>
  PROVE  FwInv'
<1> USE DEF FwInv
<1>1. \A u \in Threads : at'[u] = IF u = Download THEN where ELSE at[u]
  BY DEF Go, Types
<1>2. Types'
  BY DEF Types, Go, Places, Threads
<1>3. InHand'
  BY <1>1 DEF InHand, Threads
<1>4. CancelInv'
  BY <1>1 DEF CancelInv, Threads
<1> QED
  BY <1>2, <1>3, <1>4

\* The token is looked at after the registration.
LEMMA RegisterStep ==
  ASSUME FwInv, Register \/ CheckToken
  PROVE  FwInv'
<1> Download \in Threads
  BY DEF Threads
<1>1. mine[Download] \in Pids /\ procs \in [Pids -> Process] /\ mine[Download] # Nobody
  BY Holder, ThreadsAssumption DEF Register, CheckToken
<1>2. CASE Register
  BY <1>1, <1>2, DownloadGoes DEF Register, Idle
<1>3. CASE CheckToken /\ ~ token
  <2>1. cancel = "no" /\ mine[Download] \in loading
    BY <1>3 DEF FwInv, CancelInv, CheckToken
  <2> QED
    BY <1>1, <1>3, <2>1, DownloadGoes DEF CheckToken, Idle
<1>4. CASE CheckToken /\ token
  <2>1. Onward
    BY <1>1, <1>4, DroppedOnward DEF CheckToken
  <2> QED
    BY <1>4, <2>1, SlotIsLetGo DEF CheckToken, Idle
<1> QED
  BY <1>2, <1>3, <1>4

\* A cancel marks the download, then kills the processes it had.
LEMMA CancelSteps ==
  ASSUME FwInv, CancelDownload \/ SweepDownload
  PROVE  FwInv'
<1> USE DEF FwInv
<1>1. CASE CancelDownload
  BY <1>1 DEF CancelDownload, Types, InHand, CancelInv
<1>2. CASE SweepDownload
  <2>1. /\ cancel = "token" /\ cancel' = "swept" /\ Kill(loading)
        /\ UNCHANGED <<slot, at, mine, asked, ids, token>>
    BY <1>2 DEF SweepDownload
  <2>2. Onward /\ \A p \in Pids \cap loading : procs'[p].stage = "dead"
    BY <2>1, KillOnward DEF Types
  <2>3. Types'
    BY <2>1, <2>2 DEF Types, Onward
  <2>4. InHand'
    BY <2>1, <2>2 DEF InHand, Types, Onward, Threads
  <2>5. CancelInv'
    BY <2>1, <2>2 DEF CancelInv, InHand, Types, Threads
  <2> QED
    BY <2>3, <2>4, <2>5
<1> QED
  BY <1>1, <1>2

\* The exit empties the slot, then kills what is left.
LEMMA QuitSteps ==
  ASSUME FwInv, QuitSlot \/ QuitSweep
  PROVE  FwInv'
<1> USE DEF FwInv
<1>1. procs \in [Pids -> Process] /\ slot \in Pids \cup {Nobody}
  BY DEF Types
<1>2. CASE QuitSlot /\ slot # Nobody /\ ~ SlotLocked
  <2>1. Dropped(slot) /\ slot' = Nobody /\ UNCHANGED <<at, mine, asked, ids, loading, token, cancel>>
    BY <1>2 DEF QuitSlot
  <2>2. Onward
    BY <1>1, <1>2, <2>1, DroppedOnward
  <2>3. Types'
    BY <2>1, <2>2 DEF Types, Onward
  <2>4. InHand'
    BY <2>1, <2>2 DEF InHand, Types, Onward, Threads
  <2>5. CancelInv'
    BY <2>1, <2>2 DEF CancelInv, InHand, Types, Onward, Threads
  <2> QED
    BY <2>3, <2>4, <2>5
<1>3. CASE QuitSlot /\ ~ (slot # Nobody /\ ~ SlotLocked)
  BY <1>1, <1>3, SameOnward, OnwardKeeps DEF QuitSlot
<1>4. CASE QuitSweep
  BY <1>1, <1>4, KillOnward, OnwardKeeps DEF QuitSweep
<1> QED
  BY <1>2, <1>3, <1>4

\* What processes do on their own starts none.
LEMMA ProcessSteps ==
  ASSUME FwInv, NEW p \in Pids, Answer(p) \/ Crash(p)
  PROVE  FwInv'
<1>1. procs \in [Pids -> Process]
  BY DEF FwInv, Types
<1>2. Onward
  <2>1. CASE Crash(p)
    BY <1>1, <2>1, DeadIsAProcess DEF Crash, Onward
  <2>2. CASE Answer(p)
    <3>1. PICK ok \in BOOLEAN :
            procs' = [procs EXCEPT ![p].out = Append(@, [id |-> procs[p].todo, ok |-> ok]),
                                   ![p].todo = NoLine]
      BY <2>2 DEF Answer
    <3>2. Append(procs[p].out, [id |-> procs[p].todo, ok |-> ok]) \in Seq(Line)
      BY <1>1 DEF Process, Line
    <3> QED
      BY <1>1, <3>1, <3>2 DEF Process, Onward, NoLine
  <2> QED
    BY <2>1, <2>2
<1> QED
  BY <1>2, OnwardKeeps DEF Answer, Crash

-----------------------------------------------------------------------------

\* Before anyone asks there is no process.
LEMMA FwStarts == FwInit => FwInv
<1> SUFFICES ASSUME FwInit PROVE FwInv
  OBVIOUS
<1>1. Types
  BY DEF FwInit, Types, Places, Process, Unborn, NoLine, Threads
<1> QED
  BY <1>1 DEF FwInit, FwInv, InHand, CancelInv, Threads

\* Every step keeps the invariant.
LEMMA FwStep == FwInv /\ [FwNext]_fwVars => FwInv'
<1> SUFFICES ASSUME FwInv, [FwNext]_fwVars PROVE FwInv'
  OBVIOUS
<1>1. ASSUME NEW t \in Threads, TimesOut(t) \/ Hangup(t) PROVE FwInv'
  BY <1>1, LostStep DEF TimesOut, Hangup
<1>2. ASSUME NEW t \in Threads,
             \/ Send(t) \/ Enter(t) \/ GiveUp(t) \/ GetReady(t)
             \/ Checkout(t) \/ Start(t) \/ Started(t) \/ StartFails(t)
             \/ Ask(t) \/ Read(t) \/ TimesOut(t) \/ Hangup(t)
      PROVE  FwInv'
  BY <1>1, <1>2, GateSteps, CheckoutStep, StartStep, StartedStep, StartFailsStep, AskStep, ReadStep
<1>3. CASE UNCHANGED fwVars
  BY <1>3 DEF fwVars, FwInv, Types, InHand, CancelInv
<1> QED
  BY <1>2, <1>3, ProcessSteps, RegisterStep, CancelSteps, QuitSteps DEF FwNext

\* Once a cancel has done its part the download does no more work, whenever the
\* cancel came, for any number of requests and processes: the download is
\* registered before it looks at the token, and the cancel sets the token before
\* it looks at the registry (download_model, cancel_model_download).
THEOREM DownloadStops == FwSpec => []CancelledDownloadStops
<1>1. FwInv => CancelledDownloadStops
  BY DEF FwInv, CancelInv, CancelledDownloadStops, Alive
<1> QED
  BY <1>1, FwStarts, FwStep, PTL DEF FwSpec

-----------------------------------------------------------------------------
(* One worker for all requests.                                            *)

Shared == Requests \cup Readiers

\* Threads other than the download's are busy only while they hold the gate; a
\* process is in hand only while its thread is busy with it; every process that
\* lives is in the slot or in someone's hands; and while a request has one in its
\* hands, none lives in the slot.
SharedInv ==
  /\ \A t \in Shared : at[t] \notin {"idle", "gate"} => gate = t
  /\ \A t \in Threads : mine[t] # Nobody
                           => at[t] \in {"starting", "started", "check", "ask", "wait"}
  /\ \A p \in Pids : Alive(p) => p = slot \/ \E t \in Threads : mine[t] = p
  /\ \A t \in Shared : mine[t] # Nobody => slot = Nobody \/ ~ Alive(slot)

\* The process lives after the step.
LivesOn(p) == procs'[p].stage \in {"starting", "up"}

\* Only a start wakes a process.
NoneWakes == \A p \in Pids : LivesOn(p) => Alive(p)

\* A process that ends wakes none, and is dead.
LEMMA DroppedSleeps ==
  ASSUME procs \in [Pids -> Process], NEW p \in Pids, Dropped(p)
  PROVE  NoneWakes /\ ~ LivesOn(p)
  BY DeadIsAProcess DEF Dropped, NoneWakes, LivesOn, Alive

\* Nor does a sweep.
LEMMA KillSleeps ==
  ASSUME procs \in [Pids -> Process], NEW ps, Kill(ps)
  PROVE  NoneWakes
  BY DeadIsAProcess DEF Kill, NoneWakes, LivesOn, Alive

\* Processes may end or answer while no thread moves.
LEMMA SleepKeepsShared ==
  ASSUME FwInv, SharedInv, NoneWakes, UNCHANGED <<gate, at, mine>>,
         slot' = slot \/ (slot' = Nobody /\ (slot # Nobody => ~ LivesOn(slot)))
  PROVE  SharedInv'
<1>1. slot \in Pids \cup {Nobody} /\ mine \in [Threads -> Pids \cup {Nobody}]
  BY DEF FwInv, Types
<1>2. \A p \in Pids : LivesOn(p) => p = slot' \/ \E t \in Threads : mine'[t] = p
  BY <1>1 DEF SharedInv, NoneWakes, LivesOn
<1>3. \A t \in Shared : mine'[t] # Nobody => slot' = Nobody \/ ~ LivesOn(slot')
  BY <1>1, <1>2 DEF SharedInv, NoneWakes, LivesOn, Alive
<1> QED
  BY <1>1, <1>2, <1>3 DEF SharedInv, Alive, LivesOn

\* A thread without a process moves to or from the gate.
LEMMA MoveKeepsShared ==
  ASSUME FwInv, SharedInv, NEW t \in Shared, NEW where, Go(t, where),
         UNCHANGED <<slot, procs, mine>>, mine[t] = Nobody,
         \/ gate' = gate /\ where \in {"idle", "gate"}
         \/ gate = Nobody /\ gate' = t
         \/ Leave(t) /\ where = "idle"
  PROVE  SharedInv'
<1>1. \A u \in Threads : at'[u] = IF u = t THEN where ELSE at[u]
  BY DEF Go, FwInv, Types
<1>2. \A u \in Shared : at'[u] \notin {"idle", "gate"} => gate' = u
  BY <1>1, ThreadsAssumption DEF SharedInv, Shared, Threads, Leave
<1> QED
  BY <1>1, <1>2 DEF SharedInv, Alive, LivesOn, Shared, Threads

\* Who waits for the gate, enters, gives up or looks after the worker.
LEMMA GateStepsShared ==
  ASSUME FwInv, SharedInv, NEW t \in Threads, Send(t) \/ Enter(t) \/ GiveUp(t) \/ GetReady(t)
  PROVE  SharedInv'
<1>1. t \in Shared /\ mine[t] = Nobody
  BY ThreadsAssumption
     DEF FwInv, Types, SharedInv, Shared, Threads, Send, Enter, GiveUp, GetReady
<1> QED
  BY <1>1, MoveKeepsShared DEF Send, Enter, GiveUp, GetReady

\* A worker that lives goes from the slot into the hands of the gate's holder,
\* whose hands were empty.
LEMMA CheckoutShared ==
  ASSUME FwInv, SharedInv, NEW t \in Threads, Checkout(t)
  PROVE  SharedInv'
<1>1. t \in Shared /\ mine[t] = Nobody /\ gate = t /\ at[t] = "slot" /\ slot \in Pids
  BY ThreadsAssumption DEF FwInv, Types, SharedInv, Shared, Threads, Checkout
<1>2. CASE t \in Readiers
  BY <1>1, <1>2, MoveKeepsShared DEF Checkout
<1>3. CASE t \notin Readiers
  <2>1. \A u \in Threads : /\ at'[u] = IF u = t THEN "ask" ELSE at[u]
                           /\ mine'[u] = IF u = t THEN slot ELSE mine[u]
    BY <1>3 DEF Checkout, Go, FwInv, Types
  <2>2. slot' = Nobody /\ gate' = gate /\ procs' = procs
    BY <1>3 DEF Checkout
  <2>3. \A p \in Pids : LivesOn(p) => \E u \in Threads : mine'[u] = p
    BY <1>1, <2>1, <2>2, ThreadsAssumption DEF SharedInv, Alive, LivesOn
  <2> QED
    BY <1>1, <2>1, <2>2, <2>3 DEF SharedInv, Shared, Threads, Alive, LivesOn
<1> QED
  BY <1>2, <1>3

\* A worker is started by the holder of the gate when none lives in the slot, or
\* by the download for itself.
LEMMA StartShared ==
  ASSUME FwInv, SharedInv, NEW t \in Threads, Start(t)
  PROVE  SharedInv'
<1>1. PICK p \in Pids :
        /\ procs[p].stage = "unborn" /\ procs' = [procs EXCEPT ![p].stage = "starting"]
        /\ mine' = [mine EXCEPT ![t] = p]
  <2> DEFINE p == CHOOSE q \in Pids : procs[q].stage = "unborn"
  <2>1. p \in Pids /\ procs[p].stage = "unborn"
    BY DEF Start
  <2> QED
    BY <2>1 DEF Start
<1>2. /\ Go(t, "starting") /\ slot' = slot /\ gate' = gate
      /\ t # Download => at[t] = "slot" /\ (slot # Nobody => ~ Alive(slot))
      /\ at[t] \in {"slot", "idle"}
  BY DEF Start
<1>3. \A u \in Threads : /\ at'[u] = IF u = t THEN "starting" ELSE at[u]
                         /\ mine'[u] = IF u = t THEN p ELSE mine[u]
  BY <1>1, <1>2 DEF Go, FwInv, Types
<1>4. \A q \in Pids \ {p} : procs'[q] = procs[q]
  BY <1>1 DEF FwInv, Types
<1>5. mine[t] = Nobody /\ slot # p /\ slot \in Pids \cup {Nobody}
  BY <1>1, <1>2, ThreadsAssumption DEF SharedInv, FwInv, InHand, Types
<1>6. \A q \in Pids : LivesOn(q) => q = slot' \/ \E u \in Threads : mine'[u] = q
  <2> SUFFICES ASSUME NEW q \in Pids, LivesOn(q), q # slot
               PROVE  \E u \in Threads : mine'[u] = q
    BY <1>2
  <2>1. CASE q = p
    BY <1>3, <2>1
  <2>2. CASE q # p
    <3>1. PICK u \in Threads : mine[u] = q
      BY <1>4, <2>2 DEF SharedInv, Alive, LivesOn
    <3> QED
      BY <1>3, <1>5, <3>1, ThreadsAssumption
  <2> QED
    BY <2>1, <2>2
<1>7. \A u \in Shared : mine'[u] # Nobody => slot' = Nobody \/ ~ LivesOn(slot)
  BY <1>2, <1>3, <1>4, <1>5, ThreadsAssumption DEF SharedInv, Shared, Threads, Alive, LivesOn
<1> QED
  BY <1>2, <1>3, <1>6, <1>7, ThreadsAssumption DEF SharedInv, Shared, Threads, Alive, LivesOn

\* A thread that is done lets go of its process, which is dead, or puts it into a
\* slot in which none lives.
LEMMA ShareIsLetGo ==
  ASSUME FwInv, SharedInv, NEW t \in Threads, Go(t, "idle"), Leave(t),
         mine' = [mine EXCEPT ![t] = Nobody], mine[t] \in Pids, NoneWakes,
         \/ slot' = slot /\ ~ LivesOn(mine[t])
         \/ slot' = mine[t] /\ t \in Shared
  PROVE  SharedInv'
<1>1. \A u \in Threads : /\ at'[u] = IF u = t THEN "idle" ELSE at[u]
                         /\ mine'[u] = IF u = t THEN Nobody ELSE mine[u]
  BY DEF Go, FwInv, Types
<1>2. \A u \in Shared : at'[u] \notin {"idle", "gate"} => gate' = u
  BY <1>1 DEF SharedInv, Shared, Threads, Leave
<1>3. \A u \in Shared : mine'[u] # Nobody => gate = u /\ u # t
  BY <1>1 DEF SharedInv, Shared, Threads
<1>4. slot \in Pids \cup {Nobody}
  BY DEF FwInv, Types
<1>5. CASE slot' = slot /\ ~ LivesOn(mine[t])
  <2>1. \A p \in Pids : LivesOn(p) => p = slot' \/ \E u \in Threads : mine'[u] = p
    BY <1>1, <1>5 DEF SharedInv, NoneWakes, LivesOn
  <2>2. \A u \in Shared : mine'[u] # Nobody => slot' = Nobody \/ ~ LivesOn(slot)
    BY <1>1, <1>4, <1>5 DEF SharedInv, NoneWakes, LivesOn, Shared, Threads
  <2> QED
    BY <1>1, <1>2, <1>5, <2>1, <2>2 DEF SharedInv, Alive, LivesOn
<1>6. CASE slot' = mine[t] /\ t \in Shared
  <2>1. slot = Nobody \/ ~ Alive(slot)
    BY <1>6, ThreadsAssumption DEF SharedInv
  <2>2. \A p \in Pids : LivesOn(p) => p = slot' \/ \E u \in Threads : mine'[u] = p
    BY <1>1, <1>6, <2>1, ThreadsAssumption DEF SharedInv, NoneWakes, LivesOn
  <2>3. gate = t
    BY <1>6, ThreadsAssumption DEF SharedInv, Shared, Threads
  <2>4. \A u \in Shared : mine'[u] = Nobody
    BY <1>3, <2>3
  <2> QED
    BY <1>1, <1>2, <2>2, <2>4 DEF SharedInv, Alive, LivesOn
<1> QED
  BY <1>5, <1>6

\* A thread goes on with the process it has.
LEMMA HoldShared ==
  ASSUME FwInv, SharedInv, NEW t \in Threads,
         NEW where \in {"started", "check", "ask", "wait"}, Go(t, where), mine[t] \in Pids,
         at[t] \notin {"idle", "gate"}, NoneWakes, gate' = gate, mine' = mine,
         slot' = slot \/ (slot' = Nobody /\ t \in Shared)
  PROVE  SharedInv'
<1>1. \A u \in Threads : at'[u] = IF u = t THEN where ELSE at[u]
  BY DEF Go, FwInv, Types
<1>2. slot \in Pids \cup {Nobody} /\ (slot' # slot => slot = Nobody \/ ~ Alive(slot))
  BY ThreadsAssumption DEF FwInv, Types, SharedInv
<1>3. \A p \in Pids : LivesOn(p) => p = slot' \/ \E u \in Threads : mine'[u] = p
  BY <1>2 DEF SharedInv, NoneWakes, LivesOn
<1>4. \A u \in Shared : mine'[u] # Nobody => slot' = Nobody \/ ~ LivesOn(slot)
  BY <1>2 DEF SharedInv, NoneWakes, LivesOn
<1> QED
  BY <1>1, <1>2, <1>3, <1>4 DEF SharedInv, Shared, Threads, Alive, LivesOn

\* The worker that came up was its thread's already.
LEMMA StartedShared ==
  ASSUME FwInv, SharedInv, NEW t \in Threads, Started(t)
  PROVE  SharedInv'
<1>1. /\ at[t] = "starting" /\ procs[mine[t]].stage = "starting" /\ mine[t] \in Pids
      /\ procs \in [Pids -> Process]
      /\ procs' = [procs EXCEPT ![mine[t]].stage = "up"]
  BY Holder DEF Started
<1>2. NoneWakes
  BY <1>1 DEF NoneWakes, LivesOn, Alive
<1>3. CASE t \in Readiers
  BY <1>1, <1>2, <1>3, ShareIsLetGo DEF Started, Shared
<1>4. CASE t \notin Readiers
  <2>1. t # Download => t \in Shared
    BY DEF Shared, Threads
  <2>2. PICK where \in {"started", "ask"} : Go(t, where)
    BY <1>4 DEF Started
  <2>3. UNCHANGED <<mine, gate>> /\ slot' = (IF t = Download THEN slot ELSE Nobody)
    BY <1>4 DEF Started
  <2> QED
    BY <1>1, <1>2, <2>1, <2>2, <2>3, HoldShared
<1> QED
  BY <1>3, <1>4

\* A start that failed, and a request whose worker was lost.
LEMMA FailShared ==
  ASSUME FwInv, SharedInv, NEW t \in Threads, StartFails(t) \/ (at[t] = "wait" /\ Lost(t))
  PROVE  SharedInv'
<1>1. mine[t] \in Pids /\ procs \in [Pids -> Process] /\ Dropped(mine[t])
  BY Holder DEF StartFails, Lost
<1>2. NoneWakes /\ ~ LivesOn(mine[t])
  BY <1>1, DroppedSleeps
<1> QED
  BY <1>1, <1>2, ShareIsLetGo DEF StartFails, Lost, Done

\* Asking a worker leaves it where it is.
LEMMA AskShared ==
  ASSUME FwInv, SharedInv, NEW t \in Threads, Ask(t)
  PROVE  SharedInv'
<1>1. /\ at[t] = "ask" /\ mine[t] \in Pids /\ procs \in [Pids -> Process] /\ Go(t, "wait")
      /\ UNCHANGED <<gate, slot, mine>>
  BY Holder DEF Ask
<1>2. PICK out, todo : procs' = [procs EXCEPT ![mine[t]].out = out, ![mine[t]].todo = todo]
  BY DEF Ask
<1>3. NoneWakes
  BY <1>1, <1>2 DEF NoneWakes, LivesOn, Alive
<1> QED
  BY <1>1, <1>3, HoldShared

\* A reply puts the worker back into its slot, which is empty then.
LEMMA ReadShared ==
  ASSUME FwInv, SharedInv, NEW t \in Threads, Read(t)
  PROVE  SharedInv'
<1>1. at[t] = "wait" /\ mine[t] \in Pids /\ procs \in [Pids -> Process]
  BY Holder DEF Read
<1>2. CASE Lost(t)
  BY <1>1, <1>2, FailShared
<1>3. CASE Done(t) /\ Dropped(mine[t]) /\ UNCHANGED slot
  <2>1. NoneWakes /\ ~ LivesOn(mine[t])
    BY <1>1, <1>3, DroppedSleeps
  <2> QED
    BY <1>1, <1>3, <2>1, ShareIsLetGo DEF Done
<1>4. CASE /\ Done(t) /\ t # Download /\ procs' = [procs EXCEPT ![mine[t]].out = Tail(@)]
           /\ slot' = mine[t]
  <2>1. NoneWakes
    BY <1>1, <1>4 DEF NoneWakes, LivesOn, Alive
  <2>2. t \in Shared
    BY <1>4 DEF Shared, Threads
  <2> QED
    BY <1>1, <1>4, <2>1, <2>2, ShareIsLetGo DEF Done
<1> QED
  BY <1>2, <1>3, <1>4 DEF Read

\* The download goes its own way.
LEMMA RegisterShared ==
  ASSUME FwInv, SharedInv, Register \/ CheckToken
  PROVE  SharedInv'
<1>1. Download \in Threads /\ Download \notin Shared /\ at[Download] \in {"started", "check"}
  BY ThreadsAssumption DEF Threads, Shared, Register, CheckToken
<1>2. mine[Download] \in Pids /\ procs \in [Pids -> Process]
  BY <1>1, Holder
<1>3. CASE Register \/ (CheckToken /\ ~ token)
  <2>1. procs' = procs
    BY <1>3 DEF Register, CheckToken
  <2>2. NoneWakes
    BY <2>1 DEF NoneWakes, LivesOn, Alive
  <2>3. PICK where \in {"check", "ask"} : Go(Download, where)
    BY <1>3 DEF Register, CheckToken
  <2> QED
    BY <1>1, <1>2, <1>3, <2>2, <2>3, HoldShared DEF Register, CheckToken, Idle
<1>4. CASE CheckToken /\ token
  <2>1. NoneWakes /\ ~ LivesOn(mine[Download])
    BY <1>2, <1>4, DroppedSleeps DEF CheckToken
  <2>2. \A u \in Threads : /\ at'[u] = IF u = Download THEN "idle" ELSE at[u]
                           /\ mine'[u] = IF u = Download THEN Nobody ELSE mine[u]
    BY <1>4 DEF CheckToken, Go, FwInv, Types
  <2>3. slot' = slot /\ gate' = gate /\ slot \in Pids \cup {Nobody}
    BY <1>4 DEF CheckToken, Idle, FwInv, Types
  <2>4. \A p \in Pids : LivesOn(p) => p = slot' \/ \E u \in Threads : mine'[u] = p
    BY <2>1, <2>2, <2>3 DEF SharedInv, NoneWakes, LivesOn
  <2>5. \A u \in Shared : mine'[u] # Nobody => slot' = Nobody \/ ~ LivesOn(slot)
    BY <1>1, <2>1, <2>2, <2>3 DEF SharedInv, NoneWakes, LivesOn, Shared, Threads
  <2> QED
    BY <1>1, <2>2, <2>3, <2>4, <2>5 DEF SharedInv, Shared, Threads, Alive, LivesOn
<1> QED
  BY <1>3, <1>4

\* Answers, crashes, cancels and the exit.
LEMMA OthersShared ==
  ASSUME FwInv, SharedInv,
         \/ \E p \in Pids : Answer(p) \/ Crash(p)
         \/ CancelDownload \/ SweepDownload \/ QuitSlot \/ QuitSweep
  PROVE  SharedInv'
<1>1. procs \in [Pids -> Process] /\ slot \in Pids \cup {Nobody}
  BY DEF FwInv, Types
<1>2. NoneWakes
  <2>1. CASE \E p \in Pids : Answer(p)
    <3>1. PICK p \in Pids : \E out : procs' = [procs EXCEPT ![p].out = out, ![p].todo = NoLine]
      BY <2>1 DEF Answer
    <3> QED
      BY <1>1, <3>1 DEF NoneWakes, LivesOn, Alive
  <2>2. CASE \E p \in Pids : Crash(p)
    BY <1>1, <2>2, DeadIsAProcess DEF Crash, NoneWakes, LivesOn, Alive
  <2>3. CASE CancelDownload
    BY <2>3 DEF CancelDownload, NoneWakes, LivesOn, Alive
  <2>4. CASE SweepDownload \/ QuitSweep
    BY <1>1, <2>4, KillSleeps DEF SweepDownload, QuitSweep
  <2>5. CASE QuitSlot
    <3>1. CASE procs' = procs
      BY <3>1 DEF NoneWakes, LivesOn, Alive
    <3>2. CASE slot \in Pids /\ Dropped(slot)
      BY <1>1, <3>2, DroppedSleeps
    <3> QED
      BY <1>1, <2>5, <3>1, <3>2 DEF QuitSlot
  <2> QED
    BY <2>1, <2>2, <2>3, <2>4, <2>5
<1>3. slot' = slot \/ (slot' = Nobody /\ (slot # Nobody => ~ LivesOn(slot)))
  <2>1. CASE ~ QuitSlot
    BY <2>1 DEF Answer, Crash, CancelDownload, SweepDownload, QuitSweep
  <2>2. slot \in Pids /\ Dropped(slot) => ~ LivesOn(slot)
    BY <1>1, DroppedSleeps
  <2>3. CASE QuitSlot
    BY <1>1, <2>2, <2>3 DEF QuitSlot
  <2> QED
    BY <2>1, <2>3
<1>4. UNCHANGED <<gate, at, mine>>
  BY DEF Answer, Crash, CancelDownload, SweepDownload, QuitSlot, QuitSweep
<1> QED
  BY <1>2, <1>3, <1>4, SleepKeepsShared

\* Before anyone asks nothing is shared.
LEMMA SharedStarts == FwInit => SharedInv
  BY DEF FwInit, SharedInv, Shared, Threads, Alive, Unborn

\* Every step keeps what is shared.
LEMMA SharedStep == FwInv /\ SharedInv /\ [FwNext]_fwVars => SharedInv'
<1> SUFFICES ASSUME FwInv, SharedInv, [FwNext]_fwVars PROVE SharedInv'
  OBVIOUS
<1>1. ASSUME NEW t \in Threads,
             \/ Send(t) \/ Enter(t) \/ GiveUp(t) \/ GetReady(t)
             \/ Checkout(t) \/ Start(t) \/ Started(t) \/ StartFails(t)
             \/ Ask(t) \/ Read(t) \/ TimesOut(t) \/ Hangup(t)
      PROVE  SharedInv'
  BY <1>1, GateStepsShared, CheckoutShared, StartShared, StartedShared, FailShared, AskShared,
     ReadShared DEF TimesOut, Hangup
<1>2. CASE UNCHANGED fwVars
  BY <1>2 DEF fwVars, SharedInv, Alive, LivesOn
<1> QED
  BY <1>1, <1>2, RegisterShared, OthersShared DEF FwNext

\* However many threads ask, give up, time out or make the worker ready, at most
\* one process besides a download's own lives at a time: whoever may start one or
\* has one in hand holds the gate (WORKER_REQUEST_GATE).
THEOREM RequestsShareAWorker == FwSpec => []OneSharedWorker
<1>1. FwInv /\ SharedInv => OneSharedWorker
  <2> SUFFICES ASSUME FwInv, SharedInv
               PROVE  OneSharedWorker
    OBVIOUS
  <2> DEFINE live1 == {p \in Pids : Alive(p) /\ p # mine[Download]}
  <2>1. \A p, q \in live1 : p = q
    <3> SUFFICES ASSUME NEW p \in live1, NEW q \in live1 PROVE p = q
      OBVIOUS
    <3>1. CASE p = slot
      BY <3>1, ThreadsAssumption DEF SharedInv, Shared, Threads
    <3>2. CASE q = slot
      BY <3>2, ThreadsAssumption DEF SharedInv, Shared, Threads
    <3>3. CASE p # slot /\ q # slot
      <4>1. PICK t \in Shared : mine[t] = p
        BY <3>3 DEF SharedInv, Shared, Threads
      <4>2. PICK u \in Shared : mine[u] = q
        BY <3>3 DEF SharedInv, Shared, Threads
      <4>3. gate = t /\ gate = u
        BY <4>1, <4>2, ThreadsAssumption DEF SharedInv, Shared, Threads
      <4> QED
        BY <4>1, <4>2, <4>3
    <3> QED
      BY <3>1, <3>2, <3>3
  <2>2. CASE live1 = {}
    BY <2>2, FS_EmptySet DEF OneSharedWorker
  <2>3. CASE live1 # {}
    <3>1. PICK p : live1 = {p}
      BY <2>1, <2>3
    <3>2. Cardinality(live1) = 1
      BY <3>1, FS_Singleton
    <3> QED
      BY <3>2 DEF OneSharedWorker
  <2> QED
    BY <2>2, <2>3
<1> QED
  BY <1>1, FwStarts, FwStep, SharedStarts, SharedStep, PTL DEF FwSpec

-----------------------------------------------------------------------------
(* The end of a recording by a release. *)

Levels == {"loud", "soft", "still"}
Frames == [level : Levels, time : Nat]

LoopTypes ==
  /\ clock \in Nat /\ heard \in Seq(Frames) /\ quietly \in BOOLEAN
  /\ lastVoice \in Nat /\ released \in Nat /\ afterward \in Nat
  /\ pass \in {"top", "frame", "timeout"}

\* The loop's own marks stand for what was heard: the last voice for every loud
\* frame, the voice after the release for those after it, and a release called
\* quiet had none shortly before.
MarkInv ==
  /\ released # Never => released <= clock
  /\ \A i \in DOMAIN heard :
       /\ heard[i].time < clock
       /\ heard[i].level = "loud" =>
            /\ lastVoice # Never /\ heard[i].time <= lastVoice
            /\ released # Never /\ heard[i].time >= released =>
                 afterward # Never /\ heard[i].time <= afterward
            /\ released # Never /\ heard[i].time < released /\ quietly =>
                 heard[i].time + PreReleasePad <= released
  /\ lastVoice # Never => lastVoice < clock
  /\ afterward # Never => released # Never

LoopInv == LoopTypes /\ MarkInv /\ ReleaseLetsWordsEnd

\* The loop's marks stay before Never.
LEMMA TimeIsShort == ASSUME LoopTypes, InTime PROVE clock < Never
<1>1. MaxHold \in Nat /\ MaxHold < Never /\ MaxHandsFree \in Nat /\ MaxHandsFree < Never
  BY LimitsAssumption DEF Never
<1>2. clock <= MaxHold \/ clock <= MaxHandsFree
  BY DEF InTime
<1>3. clock \in Nat /\ Never \in Nat
  BY DEF LoopTypes, Never
<1> HIDE DEF Never
<1> QED
  BY <1>1, <1>2, <1>3

\* A frame's time is a number.
LEMMA FramesAreTimed ==
  ASSUME LoopTypes
  PROVE  \A i \in DOMAIN heard : heard[i] \in Frames /\ heard[i].time \in Nat
<1>1. \A i \in DOMAIN heard : heard[i] \in Frames
  BY ElementOfSeq, LenProperties DEF LoopTypes
<1> QED
  BY <1>1 DEF Frames

\* A step that takes nothing in, and does not end by a release.
LEMMA StillLoop ==
  ASSUME LoopInv, Running, UNCHANGED <<heard, lastVoice, afterward, released, quietly>>,
         clock' \in {clock, clock + 1}, pass' \in {"top", "frame", "timeout"},
         outcome'.how # "release"
  PROVE  LoopInv'
<1>1. LoopTypes' /\ MarkInv'
  BY FramesAreTimed DEF LoopInv, LoopTypes, MarkInv
<1>2. ReleaseLetsWordsEnd'
  BY DEF ReleaseLetsWordsEnd
<1> QED
  BY <1>1, <1>2 DEF LoopInv

\* A recording that a release ends has let the last word end.
LEMMA ReleaseKeeps == ASSUME LoopInv, LetGo PROVE LoopInv'
<1>1. /\ LoopTypes /\ MarkInv /\ TailOver
      /\ UNCHANGED <<heard, lastVoice, afterward, released, quietly, clock, pass>>
  BY DEF LoopInv, LetGo, Stays, Heard, Release
<1>2. LoopTypes' /\ MarkInv'
  BY <1>1 DEF LoopTypes, MarkInv
<1>3. ASSUME ~ (Since(released) >= ReleaseTail), NEW i \in DOMAIN heard, heard[i].level = "loud",
             heard[i].time + PreReleasePad > released
      PROVE  /\ Since(released) >= AtMost(ReleaseTail, MinWait)
             /\ heard[i].time >= released => Since(heard[i].time) > Confirm
  <2>1. /\ released # Never
        /\ Since(released) >= AtMost(ReleaseTail, IF quietly /\ afterward = Never THEN FastExit ELSE MinWait)
        /\ ~ (afterward # Never /\ Since(afterward) <= Confirm)
    BY <1>1, <1>3 DEF TailOver
  <2>2. heard[i].time \in Nat /\ clock \in Nat /\ released \in Nat /\ afterward \in Nat
    BY <1>1, FramesAreTimed DEF LoopTypes
  <2>3. heard[i].time >= released => afterward # Never /\ heard[i].time <= afterward
    BY <1>1, <1>3, <2>1 DEF MarkInv
  <2>4. heard[i].time >= released \/ ~ quietly
    BY <1>1, <1>3, <2>1, <2>2, ReleaseAssumption DEF MarkInv
  <2>5. Since(released) >= AtMost(ReleaseTail, MinWait)
    BY <2>1, <2>3, <2>4
  <2>6. heard[i].time >= released => Since(heard[i].time) > Confirm
    BY <2>1, <2>2, <2>3, ReleaseAssumption DEF Since
  <2> QED
    BY <2>5, <2>6
<1>4. ReleaseLetsWordsEnd'
  BY <1>1, <1>3 DEF ReleaseLetsWordsEnd, Since
<1> QED
  BY <1>2, <1>4 DEF LoopInv

\* The loop sees the stop: what was said before it is before its mark.
LEMMA StopKeeps == ASSUME LoopInv, SeeStop PROVE LoopInv'
<1>1. /\ LoopTypes /\ MarkInv /\ released = Never /\ Running /\ clock < Never
      /\ UNCHANGED <<heard, lastVoice, afterward, clock, pass>> /\ released' = clock
      /\ quietly' = (lastVoice = Never \/ Since(lastVoice) >= PreReleasePad)
  BY TimeIsShort DEF LoopInv, SeeStop, GoesOn, AtTop, Heard
<1>2. afterward = Never
  BY <1>1 DEF MarkInv
<1>3. LoopTypes'
  BY <1>1 DEF LoopTypes
<1>4. ASSUME NEW i \in DOMAIN heard
      PROVE  /\ heard[i].time < clock
             /\ heard[i].level = "loud" =>
                  /\ lastVoice # Never /\ heard[i].time <= lastVoice
                  /\ quietly' => heard[i].time + PreReleasePad <= clock
  <2>1. heard[i].time \in Nat /\ clock \in Nat /\ lastVoice \in Nat
    BY <1>1, FramesAreTimed DEF LoopTypes
  <2>2. /\ heard[i].time < clock
        /\ heard[i].level = "loud" => lastVoice # Never /\ heard[i].time <= lastVoice
    BY <1>1 DEF MarkInv
  <2>3. quietly' => lastVoice = Never \/ Since(lastVoice) >= PreReleasePad
    BY <1>1, Zenon
  <2> QED
    BY <2>1, <2>2, <2>3, ReleaseAssumption DEF Since
<1>5. MarkInv'
  <2>1. ASSUME NEW i \in DOMAIN heard PROVE heard[i].time \in Nat /\ ~ (heard[i].time >= clock)
    BY <1>1, <1>4, FramesAreTimed DEF LoopTypes
  <2> QED
    BY <1>1, <1>2, <1>4, <2>1 DEF MarkInv, LoopTypes
<1>6. ReleaseLetsWordsEnd'
  <2>1. CASE ReleaseTail = 0
    BY <1>1, <2>1 DEF ReleaseLetsWordsEnd, Since, LoopTypes
  <2>2. CASE ReleaseTail # 0
    BY <1>1, <2>2 DEF SeeStop, ReleaseLetsWordsEnd, Running
  <2> QED
    BY <2>1, <2>2
<1> QED
  BY <1>3, <1>5, <1>6 DEF LoopInv

\* A frame is taken in, and the marks follow it.
LEMMA FrameKeeps == ASSUME LoopInv, NEW level \in Levels, TakeIn(level) PROVE LoopInv'
<1> DEFINE voice == level = "loud" \/ (level = "soft" /\ clock < Warmup)
<1>1. /\ LoopTypes /\ MarkInv /\ Running /\ clock < Never
      /\ clock' = clock + 1 /\ heard' = Append(heard, [level |-> level, time |-> clock])
      /\ lastVoice' = IF voice THEN clock ELSE lastVoice
      /\ afterward' = IF voice /\ released # Never THEN clock ELSE afterward
      /\ UNCHANGED <<outcome, released, quietly>> /\ pass' = "frame"
  BY TimeIsShort DEF LoopInv, TakeIn, Receives, GoesOn, AtTop, Release
<1>2. [level |-> level, time |-> clock] \in Frames
  BY <1>1 DEF LoopTypes, Frames
<1>3. LoopTypes'
  <2>1. heard' \in Seq(Frames)
    BY <1>1, <1>2, AppendProperties DEF LoopTypes
  <2> QED
    BY <1>1, <2>1 DEF LoopTypes
<1>4. /\ DOMAIN heard' = 1 .. Len(heard) + 1 /\ DOMAIN heard = 1 .. Len(heard) /\ Len(heard) \in Nat
      /\ \A i \in DOMAIN heard : heard'[i] = heard[i] /\ heard[i].time \in Nat
      /\ heard'[Len(heard) + 1].level = level /\ heard'[Len(heard) + 1].time = clock
  <2>1. heard \in Seq(Frames) /\ Len(heard') = Len(heard) + 1
    BY <1>1, <1>2, AppendProperties DEF LoopTypes
  <2>2. \A i \in 1 .. Len(heard) : heard'[i] = heard[i] /\ heard[i] \in Frames
    BY <1>1, <1>2, <2>1, AppendProperties, ElementOfSeq
  <2>3. heard'[Len(heard) + 1] = [level |-> level, time |-> clock]
    BY <1>1, <1>2, <2>1, AppendProperties
  <2>4. \A i \in 1 .. Len(heard) : heard[i].time \in Nat
    BY <2>2 DEF Frames
  <2>5. /\ DOMAIN heard' = 1 .. Len(heard') /\ DOMAIN heard = 1 .. Len(heard) /\ Len(heard) \in Nat
    BY <1>3, <2>1, LenProperties DEF LoopTypes
  <2> QED
    BY <2>1, <2>2, <2>3, <2>4, <2>5
<1> HIDE DEF voice
<1>5. MarkInv'
  <2>1. ASSUME NEW i \in DOMAIN heard
        PROVE  /\ heard'[i].time < clock'
               /\ heard'[i].level = "loud" =>
                    /\ lastVoice' # Never /\ heard'[i].time <= lastVoice'
                    /\ released' # Never /\ heard'[i].time >= released' =>
                         afterward' # Never /\ heard'[i].time <= afterward'
                    /\ released' # Never /\ heard'[i].time < released' /\ quietly' =>
                         heard'[i].time + PreReleasePad <= released'
    BY <1>1, <1>4 DEF MarkInv, LoopTypes
  <2>2. /\ clock < clock'
        /\ level = "loud" =>
             /\ lastVoice' # Never /\ clock <= lastVoice'
             /\ released' # Never => afterward' # Never /\ clock <= afterward'
             /\ released' # Never => ~ (clock < released')
    BY <1>1 DEF MarkInv, LoopTypes, voice
  <2>3. /\ released' # Never => released' <= clock'
        /\ lastVoice' # Never => lastVoice' < clock'
        /\ afterward' # Never => released' # Never
    BY <1>1 DEF MarkInv, LoopTypes
  <2> QED
    BY <1>4, <2>1, <2>2, <2>3 DEF MarkInv
<1>6. ReleaseLetsWordsEnd'
  BY <1>1 DEF ReleaseLetsWordsEnd, Running
<1> QED
  BY <1>3, <1>5, <1>6 DEF LoopInv

\* Every step of the loop and of the user.
LEMMA LoopStep == LoopInv /\ [CaptureNext]_captureVars => LoopInv'
<1> SUFFICES ASSUME LoopInv, [CaptureNext]_captureVars PROVE LoopInv'
  OBVIOUS
<1> USE DEF Running, AtTop, GoesOn, Receives, Stays, Heard, Release, Still
<1>1. CASE TooLong \/ SeeCancel \/ StreamFails \/ StreamEnds
  <2>1. outcome'.how \in {"limit", "cancelled", "error", "gone"}
    BY <1>1 DEF TooLong, SeeCancel, StreamFails, StreamEnds, End, Fail
  <2> QED
    BY <1>1, <2>1, StillLoop DEF TooLong, SeeCancel, StreamFails, StreamEnds, LoopInv, LoopTypes
<1>2. CASE NotYet \/ TakeNothing
  BY <1>2, StillLoop DEF NotYet, TakeNothing, LoopInv, LoopTypes
<1>3. CASE FallSilent
  <2>1. outcome'.how \in {"silence", "running"}
    BY <1>3 DEF FallSilent, End
  <2> QED
    BY <1>3, <2>1, StillLoop DEF FallSilent
<1>4. CASE LetKeyGo \/ Lock \/ CancelCapture
  BY <1>4, StillLoop DEF LetKeyGo, Lock, CancelCapture, LoopInv, LoopTypes
<1>5. CASE UNCHANGED captureVars
  BY <1>5 DEF captureVars, LoopInv, LoopTypes, MarkInv, ReleaseLetsWordsEnd, Since
<1> QED
  BY <1>1, <1>2, <1>3, <1>4, <1>5, ReleaseKeeps, StopKeeps, FrameKeeps DEF CaptureNext, Levels

\* Before the first pass nothing was heard and nothing is marked.
LEMMA LoopStarts == CaptureInit => LoopInv
<1> SUFFICES ASSUME CaptureInit PROVE LoopInv
  OBVIOUS
<1>1. heard \in Seq(Frames) /\ DOMAIN heard = {}
  BY DEF CaptureInit
<1>2. LoopTypes
  <2>1. quietly \in BOOLEAN
    BY Zenon DEF CaptureInit
  <2>2. clock \in Nat /\ lastVoice \in Nat /\ released \in Nat /\ afterward \in Nat
    BY SMT DEF CaptureInit, Never
  <2>3. pass = "top"
    BY DEF CaptureInit
  <2> QED
    BY <1>1, <2>1, <2>2, <2>3 DEF LoopTypes
<1>3. MarkInv /\ ReleaseLetsWordsEnd
  BY <1>1 DEF CaptureInit, MarkInv, ReleaseLetsWordsEnd
<1> QED
  BY <1>2, <1>3 DEF LoopInv

\* A release never cuts a word off, for any durations of the tail, the fast exit, the
\* confirmation and the pad, and wherever words and the release fall (audio/mod.rs).
THEOREM WordsEnd == CaptureSpec => []ReleaseLetsWordsEnd
<1>1. LoopInv => ReleaseLetsWordsEnd
  BY DEF LoopInv
<1> QED
  BY <1>1, LoopStarts, LoopStep, PTL DEF CaptureSpec

-----------------------------------------------------------------------------
(* What a recording hands on. *)

\* A set of numbers has a least one ...
LEMMA LeastOne ==
  ASSUME NEW T \in SUBSET Nat, T # {}
  PROVE  \E m \in T : \A n \in T : m <= n
<1>1. PICK m \in T : \A n \in T : ~ (<<n, m>> \in OpToRel(<, Nat))
  BY NatLessThanWellFounded, WFMin, Zenon
<1>2. \A n \in T : <<n, m>> \in OpToRel(<, Nat) <=> n < m
  <2>1. OpToRel(<, Nat) = {ss \in Nat \X Nat : ss[1] < ss[2]}
    BY Zenon DEF OpToRel
  <2> QED
    BY <2>1
<1>3. \A n \in T : n \in Nat /\ ~ (n < m)
  BY <1>1, <1>2
<1> QED
  BY <1>3

\* ... and a greatest one if it is bounded.
LEMMA GreatestOne ==
  ASSUME NEW b \in Nat, NEW T \in SUBSET (0 .. b), T # {}
  PROVE  \E m \in T : \A n \in T : n <= m
<1> DEFINE R == {b - i : i \in T}
<1>1. R \in SUBSET Nat /\ R # {}
  <2>1. \A i \in T : b - i \in Nat
    OBVIOUS
  <2> QED
    BY <2>1
<1>2. PICK r \in R : \A n \in R : r <= n
  <2> HIDE DEF R
  <2> QED
    BY <1>1, LeastOne
<1>3. PICK m \in T : r = b - m
  OBVIOUS
<1>4. ASSUME NEW n \in T PROVE n <= m
  BY <1>2, <1>3, b - n \in R
<1> QED
  BY <1>4

\* Segments of indices into the first n frames, in order.
Rises(q) == \A i, j \in 1 .. Len(q) : i < j => q[i] < q[j]
Indices(q, n) == q \in Seq(Nat) /\ Rises(q) /\ \A i \in 1 .. Len(q) : 1 <= q[i] /\ q[i] <= n
Precedes(p, q) == \A i \in 1 .. Len(p), j \in 1 .. Len(q) : p[i] < q[j]
Segments(ks, n) ==
  /\ ks \in Seq(Seq(Nat))
  /\ \A k \in 1 .. Len(ks) : Indices(ks[k], n)
  /\ \A k, l \in 1 .. Len(ks) : k < l => Precedes(ks[k], ks[l])
Follows(ks, q, n) == Indices(q, n) /\ \A k \in 1 .. Len(ks) : Precedes(ks[k], q)

\* A run of loud frames is in what is collected, and once it is long enough to be
\* speech in a segment or in one that has begun.
LoudRun(h, a, b) == \A i \in a .. b : h[i].level = "loud"
RunsKept(h, v, ks) ==
  \A a, b \in 1 .. Len(h) :
    a <= b /\ LoudRun(h, a, b) =>
      /\ b = Len(h) => v.voiced >= b - a + 1 /\ a .. b \subseteq ToSet(v.buffer)
      /\ b - a + 1 >= MinSpeech =>
           \/ \E k \in 1 .. Len(ks) : a .. b \subseteq ToSet(ks[k])
           \/ v.speaking /\ a .. b \subseteq ToSet(v.buffer)

Detector == [buffer : Seq(Nat), before : Seq(Nat), voiced : Nat, silent : Nat, speaking : BOOLEAN]
DetectInv(h, v, ks) ==
  /\ v \in Detector
  /\ Segments(ks, Len(h)) /\ Follows(ks, v.buffer, Len(h)) /\ Follows(ks, v.before, Len(h))
  /\ RunsKept(h, v, ks)

\* The frames that count as voice are no fewer than those of a loud run.
VoicedInv(h, c) ==
  \A a, b \in 1 .. Len(h) : a <= b /\ LoudRun(h, a, b) => c >= b - a + 1

HandedOn(h, given) ==
  /\ \A a, b \in 1 .. Len(h) :
       b >= a + MinSpeech - 1 /\ LoudRun(h, a, b) =>
         \E k \in 1 .. Len(given) : a .. b \subseteq ToSet(given[k])
  /\ \A k, l \in 1 .. Len(given) :
       \A i \in 1 .. Len(given[k]), j \in 1 .. Len(given[l]) :
         k < l \/ (k = l /\ i < j) => given[k][i] < given[l][j]

KeptInv ==
  /\ heard \in Seq(Frames) /\ voiced \in Nat
  /\ DetectInv(heard, vad, kept) /\ VoicedInv(heard, voiced)
  /\ Ended => outcome.gives \in Seq(Seq(Nat)) /\ HandedOn(heard, outcome.gives)

-----------------------------------------------------------------------------
(* Segments. *)

\* An index more.
LEMMA IndexMore ==
  ASSUME NEW q \in Seq(Nat), NEW n \in Nat
  PROVE  /\ Append(q, n + 1) \in Seq(Nat) /\ Append(q, n + 1) = q \o <<n + 1>>
         /\ Append(q, n + 1) # <<>>
         /\ ToSet(Append(q, n + 1)) = ToSet(q) \cup {n + 1}
         /\ Indices(q, n) => Indices(Append(q, n + 1), n + 1)
         /\ \A p : Indices(q, n) /\ Indices(p, n) /\ Precedes(p, q) => Precedes(p, Append(q, n + 1))
<1> DEFINE r == Append(q, n + 1)
           m == Len(q) + 1
<1>1. /\ r \in Seq(Nat) /\ Len(r) = m /\ Len(q) \in Nat
      /\ \A i \in 1 .. Len(q) : r[i] = q[i] /\ q[i] \in Nat
      /\ r[m] = n + 1
      /\ DOMAIN r = 1 .. m /\ DOMAIN q = 1 .. Len(q)
  BY AppendProperties, LenProperties, ElementOfSeq
<1>2. \A i \in 1 .. m : i \in 1 .. Len(q) \/ i = m
  BY <1>1
<1>3. r = q \o <<n + 1>> /\ r # <<>>
  OBVIOUS
<1> HIDE DEF r
<1>4. ToSet(r) = ToSet(q) \cup {n + 1}
  <2>1. ToSet(r) = {r[i] : i \in 1 .. m} /\ ToSet(q) = {q[i] : i \in 1 .. Len(q)}
    BY <1>1 DEF ToSet
  <2>2. m \in 1 .. m /\ \A i \in 1 .. Len(q) : i \in 1 .. m
    BY <1>1
  <2> HIDE DEF m
  <2> QED
    BY <1>1, <1>2, <2>1, <2>2
<1>5. ASSUME Indices(q, n) PROVE Indices(r, n + 1)
  <2>1. ASSUME NEW i \in 1 .. m, NEW j \in 1 .. m, i < j PROVE r[i] < r[j]
    <3>1. i \in 1 .. Len(q)
      BY <2>1, <1>1
    <3>2. r[i] = q[i] /\ q[i] \in Nat /\ q[i] <= n
      BY <3>1, <1>1, <1>5 DEF Indices
    <3>3. CASE j \in 1 .. Len(q)
      BY <3>1, <3>3, <2>1, <1>1, <1>5 DEF Indices, Rises
    <3>4. CASE j = m
      BY <3>2, <3>4, <1>1
    <3> QED
      BY <3>3, <3>4, <1>2
  <2>2. ASSUME NEW i \in 1 .. m PROVE 1 <= r[i] /\ r[i] <= n + 1
    <3>1. CASE i \in 1 .. Len(q)
      BY <3>1, <1>1, <1>5 DEF Indices
    <3>2. CASE i = m
      BY <3>2, <1>1
    <3> QED
      BY <3>1, <3>2, <1>2
  <2> QED
    BY <1>1, <2>1, <2>2 DEF Indices, Rises
<1>6. ASSUME NEW p, Indices(q, n), Indices(p, n), Precedes(p, q) PROVE Precedes(p, r)
  <2>1. ASSUME NEW i \in 1 .. Len(p), NEW j \in 1 .. m PROVE p[i] < r[j]
    <3>1. p[i] \in Nat /\ p[i] <= n
      BY <1>6, ElementOfSeq DEF Indices
    <3>2. CASE j \in 1 .. Len(q)
      BY <3>2, <1>1, <1>6 DEF Precedes
    <3>3. CASE j = m
      BY <3>1, <3>3, <1>1
    <3> QED
      BY <3>2, <3>3, <1>2
  <2> QED
    BY <1>1, <2>1 DEF Precedes
<1> QED
  BY <1>1, <1>3, <1>4, <1>5, <1>6 DEF r

\* Nothing follows everything, and what there is stays within more frames.
LEMMA IndexNone ==
  ASSUME NEW ks, NEW n \in Nat
  PROVE  Follows(ks, <<>>, n)
<1>1. <<>> \in Seq(Nat) /\ Len(<<>>) = 0
  OBVIOUS
<1> QED
  BY <1>1 DEF Follows, Indices, Rises, Precedes

\* Indices into the frames so far are indices into one more.
LEMMA IndexLater ==
  ASSUME NEW q, NEW n \in Nat, Indices(q, n)
  PROVE  Indices(q, n + 1)
<1>1. ASSUME NEW i \in 1 .. Len(q) PROVE 1 <= q[i] /\ q[i] <= n + 1
  <2>1. q[i] \in Nat /\ 1 <= q[i] /\ q[i] <= n
    BY ElementOfSeq DEF Indices
  <2> QED
    BY <2>1
<1> QED
  BY <1>1 DEF Indices

\* The oldest index less.
LEMMA IndexTail ==
  ASSUME NEW ks, NEW q, NEW n \in Nat, Follows(ks, q, n), q # <<>>
  PROVE  Follows(ks, Tail(q), n)
<1>1. /\ q \in Seq(Nat) /\ Tail(q) \in Seq(Nat) /\ Len(q) \in Nat /\ Len(Tail(q)) = Len(q) - 1
      /\ \A i \in 1 .. Len(q) - 1 : Tail(q)[i] = q[i + 1]
  BY HeadTailProperties, EmptySeq, LenProperties DEF Follows, Indices
<1>2. \A i \in 1 .. Len(Tail(q)) : i + 1 \in 1 .. Len(q) /\ Tail(q)[i] = q[i + 1]
  BY <1>1
<1>3. ASSUME NEW i \in 1 .. Len(Tail(q)), NEW j \in 1 .. Len(Tail(q)), i < j
      PROVE  Tail(q)[i] < Tail(q)[j]
  <2>1. i + 1 < j + 1
    BY <1>3
  <2> QED
    BY <2>1, <1>2 DEF Follows, Indices, Rises
<1>4. Indices(Tail(q), n)
  BY <1>1, <1>2, <1>3 DEF Follows, Indices, Rises
<1>5. \A k \in 1 .. Len(ks) : Precedes(ks[k], Tail(q))
  BY <1>2 DEF Follows, Precedes
<1> QED
  BY <1>4, <1>5 DEF Follows

\* An index follows the segments if those before it do.
LEMMA FollowsMore ==
  ASSUME NEW ks, NEW q, NEW n \in Nat, Segments(ks, n), Follows(ks, q, n)
  PROVE  Follows(ks, Append(q, n + 1), n + 1)
<1>1. q \in Seq(Nat) /\ Indices(q, n) /\ \A k \in 1 .. Len(ks) : Precedes(ks[k], q) /\ Indices(ks[k], n)
  BY DEF Follows, Segments, Indices
<1> QED
  BY <1>1, IndexMore DEF Follows

\* A segment more.
LEMMA SegmentMore ==
  ASSUME NEW ks, NEW q, NEW n \in Nat, Segments(ks, n), Follows(ks, q, n)
  PROVE  /\ Segments(Append(ks, q), n)
         /\ Len(Append(ks, q)) = Len(ks) + 1 /\ Len(ks) \in Nat
         /\ \A k \in 1 .. Len(ks) : k \in 1 .. Len(ks) + 1 /\ Append(ks, q)[k] = ks[k]
         /\ Len(ks) + 1 \in 1 .. Len(ks) + 1 /\ Append(ks, q)[Len(ks) + 1] = q
<1> DEFINE new == Append(ks, q)
           m == Len(ks) + 1
<1>1. /\ ks \in Seq(Seq(Nat)) /\ q \in Seq(Nat) /\ new \in Seq(Seq(Nat))
      /\ Len(new) = m /\ Len(ks) \in Nat /\ new[m] = q
      /\ \A k \in 1 .. Len(ks) : new[k] = ks[k]
  BY AppendProperties, LenProperties DEF Segments, Follows, Indices
<1>2. /\ \A k \in 1 .. m : k \in 1 .. Len(ks) \/ k = m
      /\ \A k \in 1 .. Len(ks) : k \in 1 .. m
      /\ m \in 1 .. m
  BY <1>1
<1> HIDE DEF new
<1>3. \A k \in 1 .. m : Indices(new[k], n)
  BY <1>1, <1>2 DEF Segments, Follows
<1>4. ASSUME NEW k \in 1 .. m, NEW l \in 1 .. m, k < l PROVE Precedes(new[k], new[l])
  <2>1. k \in 1 .. Len(ks)
    BY <1>1, <1>4
  <2>2. CASE l \in 1 .. Len(ks)
    BY <2>1, <2>2, <1>1, <1>4 DEF Segments
  <2>3. CASE l = m
    BY <2>1, <2>3, <1>1 DEF Follows
  <2> QED
    BY <2>2, <2>3, <1>2
<1> QED
  BY <1>1, <1>2, <1>3, <1>4 DEF Segments, new

\* So are those of the segments ...
LEMMA SegmentsLater ==
  ASSUME NEW ks, NEW n \in Nat, Segments(ks, n)
  PROVE  Segments(ks, n + 1)
  BY IndexLater DEF Segments

\* ... and of what follows them.
LEMMA FollowsLater ==
  ASSUME NEW ks, NEW q, NEW n \in Nat, Follows(ks, q, n)
  PROVE  Follows(ks, q, n + 1)
  BY IndexLater DEF Follows

-----------------------------------------------------------------------------
(* A frame for the detector. *)

\* What is heard with a frame more.
LEMMA FrameMore ==
  ASSUME NEW h \in Seq(Frames), NEW f \in Frames
  PROVE  /\ Append(h, f) \in Seq(Frames) /\ Len(h) \in Nat /\ Len(Append(h, f)) = Len(h) + 1
         /\ \A a, b \in 1 .. Len(h) + 1 :
              a <= b /\ LoudRun(Append(h, f), a, b) =>
                \/ a \in 1 .. Len(h) /\ b \in 1 .. Len(h) /\ LoudRun(h, a, b)
                \/ /\ b = Len(h) + 1 /\ f.level = "loud"
                   /\ a = b \/ (a \in 1 .. Len(h) /\ LoudRun(h, a, Len(h)))
<1> DEFINE g == Append(h, f)
           n == Len(h)
<1>1. /\ g \in Seq(Frames) /\ n \in Nat /\ Len(g) = n + 1
      /\ \A i \in 1 .. n : g[i] = h[i]
      /\ g[n + 1] = f
  BY AppendProperties, LenProperties
<1> HIDE DEF g, n
<1>2. ASSUME NEW a \in 1 .. n + 1, NEW b \in 1 .. n + 1, a <= b, LoudRun(g, a, b)
      PROVE  \/ a \in 1 .. n /\ b \in 1 .. n /\ LoudRun(h, a, b)
             \/ /\ b = n + 1 /\ f.level = "loud"
                /\ a = b \/ (a \in 1 .. n /\ LoudRun(h, a, n))
  <2>1. CASE b # n + 1
    <3>1. a \in 1 .. n /\ b \in 1 .. n /\ \A i \in a .. b : i \in 1 .. n
      BY <2>1, <1>1, <1>2
    <3> QED
      BY <3>1, <1>1, <1>2 DEF LoudRun
  <2>2. CASE b = n + 1
    <3>1. b \in a .. b /\ f.level = "loud"
      BY <2>2, <1>1, <1>2 DEF LoudRun
    <3>2. a = b \/ (a \in 1 .. n /\ \A i \in a .. n : i \in 1 .. n /\ i \in a .. b)
      BY <2>2, <1>1, <1>2
    <3> QED
      BY <2>2, <3>1, <3>2, <1>1, <1>2 DEF LoudRun
  <2> QED
    BY <2>1, <2>2
<1> QED
  BY <1>1, <1>2 DEF g, n

\* The detector's durations are positive.
LEMMA DurationsAreNumbers ==
  /\ MinSpeech \in Nat /\ MinSpeech > 0 /\ MaxSilence \in Nat /\ MaxSilence > 0
  /\ PreRoll \in Nat /\ PreRoll > 0 /\ EdgePad \in Nat /\ Fallback \in Nat
  BY DurationsAssumption

\* A loud frame is collected, behind what it goes on with.
LEMMA LoudDetects ==
  ASSUME NEW h \in Seq(Frames), NEW f \in Frames, NEW v, NEW ks, DetectInv(h, v, ks),
         f.level = "loud"
  PROVE  /\ ~ Finished(Push(v, Len(h) + 1, TRUE))
         /\ DetectInv(Append(h, f), Push(v, Len(h) + 1, TRUE), ks)
<1> DEFINE n == Len(h)
           pre == IF ~ v.speaking /\ v.voiced = 0 /\ v.buffer = <<>> THEN v.before ELSE v.buffer
           w == [buffer |-> Append(pre, n + 1), before |-> <<>>, voiced |-> v.voiced + 1,
                 silent |-> 0, speaking |-> v.speaking \/ v.voiced + 1 >= MinSpeech]
<1>1. /\ v \in Detector /\ Segments(ks, n) /\ RunsKept(h, v, ks) /\ n \in Nat
      /\ pre \in Seq(Nat) /\ Follows(ks, pre, n) /\ (v.buffer # <<>> => pre = v.buffer)
      /\ v.voiced \in Nat /\ v.speaking \in BOOLEAN
  BY LenProperties DEF DetectInv, Detector
<1> HIDE DEF pre
<1>2. /\ Append(pre, n + 1) = pre \o <<n + 1>> /\ Append(pre, n + 1) \in Seq(Nat)
      /\ ToSet(Append(pre, n + 1)) = ToSet(pre) \cup {n + 1}
  BY <1>1, IndexMore
<1>3. Push(v, n + 1, TRUE) = w
  BY <1>2 DEF Push, pre
<1>4. ~ Finished(w)
  BY DurationsAreNumbers DEF Finished
<1>5. w \in Detector
  <2>1. <<>> \in Seq(Nat) /\ v.voiced + 1 \in Nat /\ (v.speaking \/ v.voiced + 1 >= MinSpeech) \in BOOLEAN
    BY <1>1
  <2> QED
    BY <2>1, <1>2 DEF Detector
<1>6. Segments(ks, n + 1) /\ Follows(ks, w.buffer, n + 1) /\ Follows(ks, w.before, n + 1)
  BY <1>1, SegmentsLater, FollowsMore, IndexNone
<1>7. ASSUME NEW a \in 1 .. n + 1, NEW b \in 1 .. n + 1, a <= b, LoudRun(Append(h, f), a, b)
      PROVE  /\ b = n + 1 => w.voiced >= b - a + 1 /\ a .. b \subseteq ToSet(w.buffer)
             /\ b - a + 1 >= MinSpeech =>
                  \/ \E k \in 1 .. Len(ks) : a .. b \subseteq ToSet(ks[k])
                  \/ w.speaking /\ a .. b \subseteq ToSet(w.buffer)
  <2>1. \/ a \in 1 .. n /\ b \in 1 .. n /\ LoudRun(h, a, b)
        \/ b = n + 1 /\ (a = b \/ (a \in 1 .. n /\ LoudRun(h, a, n)))
    BY <1>7, FrameMore
  <2>2. CASE a \in 1 .. n /\ b \in 1 .. n /\ LoudRun(h, a, b)
    <3>1. b # n + 1
      BY <2>2, <1>1
    <3>2. b - a + 1 >= MinSpeech =>
            \/ \E k \in 1 .. Len(ks) : a .. b \subseteq ToSet(ks[k])
            \/ v.speaking /\ a .. b \subseteq ToSet(v.buffer)
      BY <2>2, <1>1, <1>7 DEF RunsKept
    <3>3. a .. b \subseteq ToSet(v.buffer) => a .. b \subseteq ToSet(w.buffer)
      <4>1. a \in a .. b /\ (a .. b \subseteq ToSet(v.buffer) => v.buffer # <<>>)
        BY <1>7, <2>2, <1>1 DEF ToSet
      <4> QED
        BY <4>1, <1>1, <1>2
    <3> QED
      BY <3>1, <3>2, <3>3
  <2>3. CASE b = n + 1 /\ a = b
    <3>1. a .. b = {n + 1} /\ b - a + 1 = 1
      BY <2>3, <1>1
    <3>2. w.voiced >= 1 /\ (1 >= MinSpeech => w.speaking)
      <4>1. 1 >= MinSpeech => v.voiced + 1 >= MinSpeech
        BY <1>1, DurationsAreNumbers
      <4>2. w.voiced = v.voiced + 1 /\ (v.voiced + 1 >= MinSpeech => w.speaking)
        OBVIOUS
      <4> QED
        BY <4>1, <4>2, <1>1
    <3> QED
      BY <3>1, <3>2, <1>2
  <2>4. CASE b = n + 1 /\ a \in 1 .. n /\ LoudRun(h, a, n)
    <3>1. v.voiced >= n - a + 1 /\ a .. n \subseteq ToSet(v.buffer) /\ a <= n /\ a \in a .. n
      BY <2>4, <1>1 DEF RunsKept
    <3>2. pre = v.buffer
      BY <3>1, <1>1 DEF ToSet
    <3>3. a .. b \subseteq ToSet(w.buffer)
      <4>1. a .. b = (a .. n) \cup {n + 1}
        BY <2>4, <1>1
      <4> QED
        BY <4>1, <3>1, <3>2, <1>2
    <3>4. w.voiced >= b - a + 1 /\ (b - a + 1 >= MinSpeech => w.speaking)
      <4>1. w.voiced = v.voiced + 1 /\ (v.voiced + 1 >= MinSpeech => w.speaking)
        OBVIOUS
      <4>2. v.voiced + 1 >= b - a + 1
        BY <3>1, <2>4, <1>1
      <4>3. b - a + 1 >= MinSpeech => v.voiced + 1 >= MinSpeech
        BY <4>2, <2>4, <1>1, DurationsAreNumbers
      <4> QED
        BY <4>1, <4>2, <4>3
    <3> QED
      BY <3>3, <3>4
  <2> QED
    BY <2>1, <2>2, <2>3, <2>4
<1>8. Len(Append(h, f)) = n + 1
  BY FrameMore
<1> HIDE DEF w
<1>9. RunsKept(Append(h, f), w, ks)
  BY <1>7, <1>8 DEF RunsKept
<1> QED
  BY <1>3, <1>4, <1>5, <1>6, <1>8, <1>9 DEF DetectInv

\* Another ends what was too short to be speech, and goes on with what was not.
LEMMA QuietDetects ==
  ASSUME NEW h \in Seq(Frames), NEW f \in Frames, NEW v, NEW ks, DetectInv(h, v, ks),
         f.level # "loud",
         NEW w, w = Push(v, Len(h) + 1, FALSE)
  PROVE  /\ ~ Finished(w) => DetectInv(Append(h, f), w, ks)
         /\ Finished(w) => DetectInv(Append(h, f), Reset, Append(ks, w.buffer))
<1> DEFINE n == Len(h)
<1>1. /\ v \in Detector /\ Segments(ks, n) /\ RunsKept(h, v, ks) /\ n \in Nat
      /\ v.buffer \in Seq(Nat) /\ Follows(ks, v.buffer, n)
      /\ v.before \in Seq(Nat) /\ Follows(ks, v.before, n) /\ v.silent \in Nat
  BY LenProperties DEF DetectInv, Detector
<1>2. Len(Append(h, f)) = n + 1 /\ Segments(ks, n + 1)
  BY <1>1, FrameMore, SegmentsLater
<1>3. ASSUME NEW a \in 1 .. n + 1, NEW b \in 1 .. n + 1, a <= b, LoudRun(Append(h, f), a, b)
      PROVE  /\ b # n + 1
             /\ b - a + 1 >= MinSpeech =>
                  \/ \E k \in 1 .. Len(ks) : a .. b \subseteq ToSet(ks[k])
                  \/ v.speaking /\ a .. b \subseteq ToSet(v.buffer)
  <2>1. a \in 1 .. n /\ b \in 1 .. n /\ LoudRun(h, a, b)
    BY <1>3, FrameMore
  <2> QED
    BY <2>1, <1>1, <1>3 DEF RunsKept
<1>4. CASE v.speaking
  <2> DEFINE r == Append(v.buffer, n + 1)
  <2>1. w = [v EXCEPT !.buffer = r, !.silent = @ + 1]
    BY <1>4 DEF Push
  <2>2. /\ w \in Detector /\ w.buffer = r /\ w.before = v.before /\ w.speaking
        /\ r \in Seq(Nat) /\ ToSet(v.buffer) \subseteq ToSet(r)
    <3>1. r \in Seq(Nat) /\ ToSet(r) = ToSet(v.buffer) \cup {n + 1}
      BY <1>1, IndexMore
    <3> HIDE DEF r
    <3> DEFINE u == [buffer |-> r, before |-> v.before, voiced |-> v.voiced,
                     silent |-> v.silent + 1, speaking |-> TRUE]
    <3>2. v.silent + 1 \in Nat /\ v.voiced \in Nat /\ v.before \in Seq(Nat) /\ v.speaking = TRUE
      BY <1>1, <1>4 DEF Detector
    <3>3. w = u
      BY <1>1, <2>1, <3>2 DEF Detector
    <3>4. u \in Detector /\ u.buffer = r /\ u.before = v.before /\ u.speaking
      BY <3>1, <3>2 DEF Detector
    <3> HIDE DEF u
    <3> QED
      BY <3>1, <3>3, <3>4
  <2>3. Follows(ks, r, n + 1) /\ Follows(ks, v.before, n + 1)
    BY <1>1, FollowsMore, FollowsLater
  <2> HIDE DEF r
  <2>4. CASE ~ Finished(w)
    <3>1. RunsKept(Append(h, f), w, ks)
      BY <1>2, <1>3, <2>2 DEF RunsKept
    <3> QED
      BY <2>4, <1>2, <2>2, <2>3, <3>1 DEF DetectInv
  <2>5. CASE Finished(w)
    <3> DEFINE all == Append(ks, r)
    <3>1. /\ Segments(all, n + 1) /\ Len(all) = Len(ks) + 1
          /\ \A k \in 1 .. Len(ks) : k \in 1 .. Len(ks) + 1 /\ all[k] = ks[k]
          /\ Len(ks) + 1 \in 1 .. Len(ks) + 1 /\ all[Len(ks) + 1] = r
      <4>1. n + 1 \in Nat
        BY <1>1
      <4> QED
        BY <4>1, <1>2, <2>3, SegmentMore
    <3> HIDE DEF all
    <3>2. RunsKept(Append(h, f), Reset, all)
      <4> SUFFICES ASSUME NEW a \in 1 .. n + 1, NEW b \in 1 .. n + 1, a <= b,
                          LoudRun(Append(h, f), a, b)
                   PROVE  /\ b # n + 1
                          /\ b - a + 1 >= MinSpeech =>
                               \E k \in 1 .. Len(all) : a .. b \subseteq ToSet(all[k])
        BY <1>2 DEF RunsKept
      <4>1. b # n + 1
        BY <1>3
      <4>2. ASSUME b - a + 1 >= MinSpeech
            PROVE  \E k \in 1 .. Len(all) : a .. b \subseteq ToSet(all[k])
        <5>1. CASE \E k \in 1 .. Len(ks) : a .. b \subseteq ToSet(ks[k])
          BY <5>1, <3>1
        <5>2. CASE a .. b \subseteq ToSet(v.buffer)
          BY <5>2, <3>1, <2>2
        <5> QED
          BY <5>1, <5>2, <4>2, <1>3
      <4> QED
        BY <4>1, <4>2
    <3>3. Reset \in Detector /\ Reset.buffer = <<>> /\ Reset.before = <<>>
      <4>1. <<>> \in Seq(Nat)
        OBVIOUS
      <4> QED
        BY <4>1 DEF Reset, Detector
    <3>4. Follows(all, <<>>, n + 1)
      BY <1>1, IndexNone
    <3> QED
      BY <2>5, <1>2, <2>2, <3>1, <3>2, <3>3, <3>4 DEF DetectInv, all
  <2> QED
    BY <2>4, <2>5
<1>5. CASE ~ v.speaking
  <2> DEFINE old == IF Len(v.before) >= PreRoll THEN Tail(v.before) ELSE v.before
             r == Append(old, n + 1)
  <2>1. w = [v EXCEPT !.buffer = <<>>, !.before = r]
    BY <1>5 DEF Push
  <2>2. old \in Seq(Nat) /\ Follows(ks, old, n)
    <3>1. Len(v.before) >= PreRoll => v.before # <<>>
      <4>1. Len(<<>>) = 0
        OBVIOUS
      <4> QED
        BY <4>1, DurationsAreNumbers
    <3>2. Len(v.before) >= PreRoll => Follows(ks, Tail(v.before), n)
      BY <3>1, <1>1, IndexTail
    <3>3. Follows(ks, old, n)
      BY <3>2, <1>1
    <3> QED
      BY <3>3 DEF Follows, Indices
  <2> HIDE DEF old
  <2>3. r \in Seq(Nat) /\ Follows(ks, r, n + 1) /\ Follows(ks, <<>>, n + 1)
    BY <1>1, <2>2, IndexMore, FollowsMore, IndexNone
  <2> HIDE DEF r
  <2>4. w \in Detector /\ w.buffer = <<>> /\ w.before = r /\ ~ w.speaking
    <3>1. <<>> \in Seq(Nat)
      OBVIOUS
    <3> QED
      BY <3>1, <2>1, <2>3, <1>1, <1>5 DEF Detector
  <2>5. RunsKept(Append(h, f), w, ks)
    BY <1>2, <1>3, <1>5 DEF RunsKept
  <2> QED
    BY <1>2, <2>3, <2>4, <2>5 DEF DetectInv, Finished
<1> QED
  BY <1>4, <1>5

\* The count of voice goes with the frames.
LEMMA VoiceCounts ==
  ASSUME NEW h \in Seq(Frames), NEW f \in Frames, NEW c \in Nat, NEW d \in Nat, VoicedInv(h, c),
         d \in {c, c + 1}, f.level = "loud" => d = c + 1
  PROVE  VoicedInv(Append(h, f), d)
<1> DEFINE n == Len(h)
<1>1. n \in Nat /\ Len(Append(h, f)) = n + 1
  BY FrameMore
<1>2. ASSUME NEW a \in 1 .. n + 1, NEW b \in 1 .. n + 1, a <= b, LoudRun(Append(h, f), a, b)
      PROVE  d >= b - a + 1
  <2>1. \/ a \in 1 .. n /\ b \in 1 .. n /\ LoudRun(h, a, b)
        \/ b = n + 1 /\ d = c + 1 /\ (a = b \/ (a \in 1 .. n /\ LoudRun(h, a, n)))
    BY <1>2, FrameMore
  <2>2. CASE a \in 1 .. n /\ b \in 1 .. n /\ LoudRun(h, a, b)
    <3>1. c >= b - a + 1
      BY <2>2, <1>2 DEF VoicedInv
    <3> QED
      BY <3>1, <1>2
  <2>3. CASE b = n + 1 /\ d = c + 1 /\ a = b
    BY <2>3, <1>1
  <2>4. CASE b = n + 1 /\ d = c + 1 /\ a \in 1 .. n /\ LoudRun(h, a, n)
    <3>1. n \in 1 .. n /\ a <= n
      BY <2>4, <1>1
    <3>2. c >= n - a + 1
      BY <2>4, <3>1 DEF VoicedInv
    <3> QED
      BY <3>2, <2>4, <1>1
  <2> QED
    BY <2>1, <2>2, <2>3, <2>4
<1> QED
  BY <1>1, <1>2 DEF VoicedInv

-----------------------------------------------------------------------------
(* The end. *)

\* One segment, of the frames from one on.
LEMMA OneSegment ==
  ASSUME NEW h \in Seq(Frames), NEW from \in Nat, NEW m \in Nat,
         \A a, b \in 1 .. Len(h) : b >= a + MinSpeech - 1 /\ LoudRun(h, a, b) =>
           from <= a /\ b <= from + m - 1,
         NEW q, q = [i \in 1 .. m |-> from + i - 1]
  PROVE  <<q>> \in Seq(Seq(Nat)) /\ HandedOn(h, <<q>>)
<1>1. q \in Seq(Nat) /\ Len(q) = m /\ DOMAIN q = 1 .. m /\ \A i \in 1 .. m : q[i] = from + i - 1
  <2>1. \A i \in 1 .. m : from + i - 1 \in Nat
    OBVIOUS
  <2>2. q \in Seq(Nat)
    BY <2>1, IsASeq
  <2> QED
    BY <2>2, LenProperties
<1>2. <<q>> \in Seq(Seq(Nat)) /\ Len(<<q>>) = 1 /\ <<q>>[1] = q
  BY <1>1
<1>3. ASSUME NEW a \in 1 .. Len(h), NEW b \in 1 .. Len(h), b >= a + MinSpeech - 1, LoudRun(h, a, b)
      PROVE  a .. b \subseteq ToSet(q)
  <2> SUFFICES ASSUME NEW i \in a .. b PROVE i \in ToSet(q)
    OBVIOUS
  <2>1. from <= a /\ b <= from + m - 1 /\ Len(h) \in Nat
    BY <1>3, LenProperties
  <2>2. i - from + 1 \in 1 .. m /\ from + (i - from + 1) - 1 = i
    BY <2>1
  <2>3. q[i - from + 1] = i
    BY <1>1, <2>2
  <2> QED
    BY <1>1, <2>2, <2>3 DEF ToSet
<1>4. \A i, j \in 1 .. Len(q) : i < j => q[i] < q[j]
  BY <1>1
<1>5. \A k \in 1 .. 1 : k = 1
  OBVIOUS
<1>6. \A a, b \in 1 .. Len(h) :
        b >= a + MinSpeech - 1 /\ LoudRun(h, a, b) =>
          \E k \in 1 .. Len(<<q>>) : a .. b \subseteq ToSet(<<q>>[k])
  <2>1. 1 \in 1 .. Len(<<q>>)
    BY <1>2
  <2> QED
    BY <1>2, <1>3, <2>1
<1>7. ASSUME NEW k \in 1 .. Len(<<q>>), NEW l \in 1 .. Len(<<q>>),
             NEW i \in 1 .. Len(<<q>>[k]), NEW j \in 1 .. Len(<<q>>[l]),
             k < l \/ (k = l /\ i < j)
      PROVE  <<q>>[k][i] < <<q>>[l][j]
  <2>1. k = 1 /\ l = 1
    BY <1>2, <1>5
  <2> QED
    BY <2>1, <1>2, <1>4, <1>7
<1> QED
  BY <1>2, <1>6, <1>7 DEF HandedOn

\* The trimmed recording begins before the first loud frame and ends after the last.
LEMMA TrimmedKeeps ==
  ASSUME NEW soft \in BOOLEAN, heard \in Seq(Frames)
  PROVE  <<Trimmed(soft)>> \in Seq(Seq(Nat)) /\ HandedOn(heard, <<Trimmed(soft)>>)
<1> DEFINE n == Len(heard)
           loud == {i \in DOMAIN heard : heard[i].level = "loud"
                                         \/ (soft /\ heard[i].level = "soft")}
           first == CHOOSE i \in loud : \A j \in loud : i <= j
           last == CHOOSE i \in loud : \A j \in loud : j <= i
           from == IF first > EdgePad THEN first - EdgePad ELSE 1
           to == IF last + EdgePad < Len(heard) THEN last + EdgePad ELSE Len(heard)
<1>1. n \in Nat /\ DOMAIN heard = 1 .. n /\ EdgePad \in Nat /\ MinSpeech \in Nat /\ MinSpeech > 0
  BY LenProperties, DurationsAreNumbers
<1>2. ASSUME NEW a \in 1 .. n, NEW b \in 1 .. n, b >= a + MinSpeech - 1, LoudRun(heard, a, b)
      PROVE  a \in loud /\ b \in loud
  <2>1. a \in a .. b /\ b \in a .. b
    BY <1>1, <1>2
  <2> QED
    BY <2>1, <1>1, <1>2 DEF LoudRun
<1>3. CASE loud = {}
  <2> DEFINE q == [i \in 1 .. n |-> 1 + i - 1]
  <2>1. Trimmed(soft) = [i \in DOMAIN heard |-> i]
    BY <1>3 DEF Trimmed
  <2>2. Trimmed(soft) = q
    <3>1. \A i \in 1 .. n : 1 + i - 1 = i
      BY <1>1
    <3> QED
      BY <2>1, <3>1, <1>1
  <2> HIDE DEF q, loud
  <2>3. \A a, b \in 1 .. n : b >= a + MinSpeech - 1 /\ LoudRun(heard, a, b) =>
          1 <= a /\ b <= 1 + n - 1
    BY <1>1, <1>2, <1>3
  <2>4. <<q>> \in Seq(Seq(Nat)) /\ HandedOn(heard, <<q>>)
    BY <1>1, <2>3, OneSegment DEF q
  <2> QED
    BY <2>2, <2>4
<1>4. CASE loud # {}
  <2>1. first \in loud /\ \A j \in loud : first <= j
    <3>1. loud \in SUBSET Nat
      BY <1>1
    <3> HIDE DEF loud
    <3>2. \E i \in loud : \A j \in loud : i <= j
      BY <3>1, <1>4, LeastOne
    <3> QED
      BY <3>2
  <2>2. last \in loud /\ \A j \in loud : j <= last
    <3>1. loud \in SUBSET (0 .. n)
      BY <1>1
    <3> HIDE DEF loud
    <3>2. \E i \in loud : \A j \in loud : j <= i
      BY <3>1, <1>1, <1>4, GreatestOne
    <3> QED
      BY <3>2
  <2>3. Trimmed(soft) = [i \in 1 .. to - from + 1 |-> from + i - 1]
    BY <1>4 DEF Trimmed
  <2>4. loud \subseteq 1 .. n
    BY <1>1
  <2> HIDE DEF loud, first, last
  <2>5. first \in 1 .. n /\ last \in 1 .. n /\ first <= last
    BY <2>1, <2>2, <2>4
  <2>6. /\ from \in Nat /\ to \in Nat /\ from <= first /\ last <= to
        /\ to - from + 1 \in Nat /\ from + (to - from + 1) - 1 = to
    BY <1>1, <2>5
  <2> HIDE DEF from, to
  <2>7. \A a, b \in 1 .. n : b >= a + MinSpeech - 1 /\ LoudRun(heard, a, b) =>
          from <= a /\ b <= to
    <3> SUFFICES ASSUME NEW a \in 1 .. n, NEW b \in 1 .. n, b >= a + MinSpeech - 1,
                        LoudRun(heard, a, b)
                 PROVE  from <= a /\ b <= to
      OBVIOUS
    <3>1. first <= a /\ b <= last
      BY <1>2, <2>1, <2>2
    <3> QED
      BY <3>1, <2>5, <2>6
  <2>8. \A a, b \in 1 .. n : b >= a + MinSpeech - 1 /\ LoudRun(heard, a, b) =>
          from <= a /\ b <= from + (to - from + 1) - 1
    BY <2>6, <2>7
  <2> QED
    BY <2>3, <2>6, <2>8, OneSegment
<1> QED
  BY <1>3, <1>4

\* Where no run was long enough nothing has to be handed on.
LEMMA NothingSaid ==
  ASSUME NEW h \in Seq(Frames),
         \A a, b \in 1 .. Len(h) : ~ (b >= a + MinSpeech - 1 /\ LoudRun(h, a, b))
  PROVE  <<>> \in Seq(Seq(Nat)) /\ HandedOn(h, <<>>)
<1>1. <<>> \in Seq(Seq(Nat)) /\ Len(<<>>) = 0
  OBVIOUS
<1> QED
  BY <1>1 DEF HandedOn

\* The segments, and what the detector has begun.
LEMMA FlushedKeeps ==
  ASSUME KeptInv
  PROVE  Flushed \in Seq(Seq(Nat)) /\ HandedOn(heard, Flushed)
<1> DEFINE n == Len(heard)
<1>1. /\ n \in Nat /\ vad \in Detector /\ Segments(kept, n) /\ Follows(kept, vad.buffer, n)
      /\ RunsKept(heard, vad, kept)
  BY LenProperties DEF KeptInv, DetectInv
<1>2. Segments(Flushed, n)
  BY <1>1, SegmentMore DEF Flushed
<1>3. ASSUME NEW a \in 1 .. n, NEW b \in 1 .. n, b >= a + MinSpeech - 1, LoudRun(heard, a, b)
      PROVE  \E k \in 1 .. Len(Flushed) : a .. b \subseteq ToSet(Flushed[k])
  <2>1. a <= b /\ b - a + 1 >= MinSpeech
    BY <1>1, <1>3, DurationsAreNumbers
  <2>2. \/ \E k \in 1 .. Len(kept) : a .. b \subseteq ToSet(kept[k])
        \/ a .. b \subseteq ToSet(vad.buffer)
    BY <1>1, <1>3, <2>1 DEF RunsKept
  <2>3. CASE vad.buffer = <<>>
    <3>1. ToSet(vad.buffer) = {}
      BY <2>3 DEF ToSet
    <3>2. a \in a .. b
      BY <2>1
    <3> QED
      BY <2>2, <2>3, <3>1, <3>2 DEF Flushed
  <2>4. CASE vad.buffer # <<>>
    <3>1. Flushed = Append(kept, vad.buffer)
      BY <2>4 DEF Flushed
    <3>2. /\ Len(Flushed) = Len(kept) + 1
          /\ \A k \in 1 .. Len(kept) : k \in 1 .. Len(kept) + 1 /\ Flushed[k] = kept[k]
          /\ Len(kept) + 1 \in 1 .. Len(kept) + 1 /\ Flushed[Len(kept) + 1] = vad.buffer
      BY <1>1, <3>1, SegmentMore
    <3> QED
      BY <2>2, <3>2
  <2> QED
    BY <2>3, <2>4
<1>4. ASSUME NEW k \in 1 .. Len(Flushed), NEW l \in 1 .. Len(Flushed),
             NEW i \in 1 .. Len(Flushed[k]), NEW j \in 1 .. Len(Flushed[l]),
             k < l \/ (k = l /\ i < j)
      PROVE  Flushed[k][i] < Flushed[l][j]
  BY <1>2, <1>4 DEF Segments, Precedes, Indices, Rises
<1> QED
  BY <1>2, <1>3, <1>4 DEF HandedOn, Segments

\* Whatever a recording gives has what was said.
LEMMA GivesKeep ==
  ASSUME KeptInv, NEW g \in Gives
  PROVE  g \in Seq(Seq(Nat)) /\ HandedOn(heard, g)
<1>1. heard \in Seq(Frames) /\ Len(heard) \in Nat
  BY LenProperties DEF KeptInv
<1>2. CASE voiced < MinSpeech
  <2>1. ASSUME NEW a \in 1 .. Len(heard), NEW b \in 1 .. Len(heard),
               b >= a + MinSpeech - 1, LoudRun(heard, a, b)
        PROVE  FALSE
    <3>1. a <= b
      BY <1>1, <2>1, DurationsAreNumbers
    <3>2. voiced >= b - a + 1 /\ voiced \in Nat
      BY <2>1, <3>1 DEF KeptInv, VoicedInv
    <3> QED
      BY <3>2, <2>1, <1>1, <1>2, DurationsAreNumbers
  <2>2. g = <<>>
    BY <1>2 DEF Gives
  <2> QED
    BY <1>1, <2>1, <2>2, NothingSaid
<1>3. CASE ~ (voiced < MinSpeech) /\ option.whole
  BY <1>1, <1>3, TrimmedKeeps DEF Gives
<1>4. CASE ~ (voiced < MinSpeech) /\ ~ option.whole
  <2>1. Flushed \in Seq(Seq(Nat)) /\ HandedOn(heard, Flushed)
    BY FlushedKeeps
  <2>2. CASE Flushed # <<>>
    BY <1>4, <2>1, <2>2 DEF Gives
  <2>3. CASE Flushed = <<>>
    <3>1. ASSUME NEW a \in 1 .. Len(heard), NEW b \in 1 .. Len(heard)
          PROVE  ~ (b >= a + MinSpeech - 1 /\ LoudRun(heard, a, b))
      BY <2>1, <2>3 DEF HandedOn
    <3>2. g \in {<<>>, <<Rest>>}
      BY <1>4, <2>3 DEF Gives
    <3>3. <<Rest>> \in Seq(Seq(Nat)) /\ HandedOn(heard, <<Rest>>)
      <4> DEFINE cut == IF Len(heard) > Fallback THEN Len(heard) - Fallback ELSE 0
                 m == Len(heard) - cut
      <4>1. cut \in Nat /\ m \in Nat
        BY <1>1, DurationsAreNumbers
      <4>2. Rest = [i \in 1 .. m |-> cut + i]
        BY DEF Rest
      <4> HIDE DEF cut, m
      <4>3. cut + 1 \in Nat /\ \A i \in 1 .. m : cut + i = (cut + 1) + i - 1
        BY <4>1
      <4>4. Rest = [i \in 1 .. m |-> (cut + 1) + i - 1]
        BY <4>2, <4>3
      <4> QED
        BY <1>1, <3>1, <4>1, <4>3, <4>4, OneSegment
    <3> QED
      BY <1>1, <3>1, <3>2, <3>3, NothingSaid
  <2> QED
    BY <2>2, <2>3
<1> QED
  BY <1>2, <1>3, <1>4

\* A step that takes nothing in, and ends the recording with what it gives or
\* without anything.
LEMMA EndsWhole ==
  ASSUME KeptInv, Running, UNCHANGED <<heard, vad, kept, voiced>>,
         \/ outcome' = outcome
         \/ \E g \in Gives : outcome'.gives = g
         \/ outcome'.how \in {"cancelled", "error"}
  PROVE  KeptInv'
<1>1. Ended' => outcome'.gives \in Seq(Seq(Nat)) /\ HandedOn(heard, outcome'.gives)
  <2>1. CASE outcome' = outcome
    BY <2>1 DEF Running, Ended
  <2>2. CASE \E g \in Gives : outcome'.gives = g
    BY <2>2, GivesKeep
  <2>3. CASE outcome'.how \in {"cancelled", "error"}
    BY <2>3 DEF Ended
  <2> QED
    BY <2>1, <2>2, <2>3
<1> QED
  BY <1>1 DEF KeptInv

\* A frame is taken in.
LEMMA FrameIsKept ==
  ASSUME KeptInv, NEW level \in Levels, TakeIn(level), clock \in Nat
  PROVE  KeptInv'
<1> DEFINE v == Push(vad, Len(heard) + 1, level = "loud")
           f == [level |-> level, time |-> clock]
           isVoiced == level = "loud" \/ (level = "soft" /\ clock < Warmup)
<1>1. /\ Running /\ UNCHANGED outcome /\ heard' = Append(heard, f)
      /\ vad' = (IF Finished(v) THEN Reset ELSE v)
      /\ kept' = (IF Finished(v) THEN Append(kept, v.buffer) ELSE kept)
      /\ voiced' = IF isVoiced THEN voiced + 1 ELSE voiced
  BY DEF TakeIn, Receives, GoesOn, AtTop
<1>2. f \in Frames /\ f.level = level
  BY DEF Frames
<1>3. heard \in Seq(Frames) /\ DetectInv(heard, vad, kept) /\ VoicedInv(heard, voiced) /\ voiced \in Nat
  BY DEF KeptInv
<1> HIDE DEF f, v
<1>4. DetectInv(heard', vad', kept')
  <2>1. CASE level = "loud"
    <3>1. v = Push(vad, Len(heard) + 1, TRUE)
      BY <2>1 DEF v
    <3> QED
      BY <2>1, <3>1, <1>1, <1>2, <1>3, LoudDetects
  <2>2. CASE level # "loud"
    <3>1. v = Push(vad, Len(heard) + 1, FALSE)
      BY <2>2 DEF v
    <3>2. /\ ~ Finished(v) => DetectInv(Append(heard, f), v, kept)
          /\ Finished(v) => DetectInv(Append(heard, f), Reset, Append(kept, v.buffer))
      BY <2>2, <3>1, <1>2, <1>3, QuietDetects
    <3> QED
      BY <3>2, <1>1
  <2> QED
    BY <2>1, <2>2
<1>5. voiced' \in Nat /\ VoicedInv(heard', voiced')
  <2>1. voiced' \in Nat /\ voiced' \in {voiced, voiced + 1} /\ (f.level = "loud" => voiced' = voiced + 1)
    BY <1>1, <1>2, <1>3
  <2> QED
    BY <2>1, <1>1, <1>2, <1>3, VoiceCounts
<1>6. heard' \in Seq(Frames)
  BY <1>1, <1>2, <1>3, FrameMore
<1>7. ~ Ended'
  BY <1>1 DEF Running, Ended
<1> QED
  BY <1>4, <1>5, <1>6, <1>7 DEF KeptInv

\* Every step of the loop and of the user.
LEMMA KeptStep == LoopInv /\ KeptInv /\ [CaptureNext]_captureVars => KeptInv'
<1> SUFFICES ASSUME LoopInv, KeptInv, [CaptureNext]_captureVars PROVE KeptInv'
  OBVIOUS
<1> USE DEF AtTop, GoesOn, Receives, Stays, Heard
<1>1. CASE TooLong \/ LetGo \/ StreamEnds
  BY <1>1, EndsWhole DEF TooLong, LetGo, StreamEnds, End
<1>2. CASE SeeCancel \/ StreamFails
  BY <1>2, EndsWhole DEF SeeCancel, StreamFails, Fail
<1>3. CASE NotYet \/ TakeNothing \/ LetKeyGo \/ Lock \/ CancelCapture
  BY <1>3, EndsWhole DEF NotYet, TakeNothing, LetKeyGo, Lock, CancelCapture
<1>4. CASE SeeStop
  BY <1>4, EndsWhole DEF SeeStop, End
<1>5. CASE FallSilent
  BY <1>5, EndsWhole DEF FallSilent, End
<1>6. CASE \E level \in Levels : TakeIn(level)
  BY <1>6, FrameIsKept DEF LoopInv, LoopTypes
<1>7. CASE UNCHANGED captureVars
  BY <1>7 DEF captureVars, KeptInv, Ended
<1> QED
  BY <1>1, <1>2, <1>3, <1>4, <1>5, <1>6, <1>7 DEF CaptureNext, Levels

\* Before the first frame nothing is kept.
LEMMA KeptStarts == CaptureInit => KeptInv
<1> SUFFICES ASSUME CaptureInit PROVE KeptInv
  OBVIOUS
<1>1. /\ heard = <<>> /\ kept = <<>> /\ vad = Reset /\ voiced = 0 /\ ~ Ended
  BY DEF CaptureInit, Reset, Ended
<1>2. /\ <<>> \in Seq(Frames) /\ <<>> \in Seq(Seq(Nat)) /\ <<>> \in Seq(Nat) /\ Len(<<>>) = 0
  OBVIOUS
<1>3. Follows(<<>>, <<>>, 0) /\ Segments(<<>>, 0)
  BY <1>2, IndexNone DEF Segments
<1>4. Reset \in Detector /\ Reset.buffer = <<>> /\ Reset.before = <<>>
  BY <1>2 DEF Reset, Detector
<1>5. RunsKept(<<>>, Reset, <<>>) /\ VoicedInv(<<>>, 0)
  BY <1>2 DEF RunsKept, VoicedInv
<1> QED
  BY <1>1, <1>2, <1>3, <1>4, <1>5 DEF KeptInv, DetectInv

\* Everything that was said is in what a recording hands on, once, in order and
\* unbroken, for any durations and however it ended (push_frame, flush,
\* trim_capture_edges).
THEOREM SpeechSurvives == CaptureSpec => []SpeechIsKept
<1>1. KeptInv => SpeechIsKept
  <2> SUFFICES ASSUME KeptInv, Ended PROVE SpeechIsKept
    BY DEF SpeechIsKept
  <2> DEFINE given == outcome.gives
  <2>1. /\ given \in Seq(Seq(Nat)) /\ HandedOn(heard, given)
        /\ DOMAIN heard = 1 .. Len(heard) /\ DOMAIN given = 1 .. Len(given)
        /\ \A k \in 1 .. Len(given) : DOMAIN given[k] = 1 .. Len(given[k])
    BY LenProperties, ElementOfSeq DEF KeptInv
  <2> QED
    BY <2>1 DEF HandedOn, LoudRun, SpeechIsKept
<1>2. CaptureInit => LoopInv
  BY LoopStarts
<1> QED
  BY <1>1, <1>2, KeptStarts, KeptStep, LoopStep, PTL DEF CaptureSpec

-----------------------------------------------------------------------------
(* The sounds. *)

Cues == 0 .. MaxCalls + 1
CueStages == {"unborn", "opening", "runs", "pushes", "gone"}

CallPlaces ==
  {"none", "ensure", "done", "send", "await", "retire", "join", "spawn", "ready"}
Calls ==
  [at : CallPlaces, cue : 0 .. MaxCalls, attempt : {1, 2}, recovers : BOOLEAN,
   with : Workers \cup {Nothing}]

CueTypes ==
  /\ thread \in [Workers -> CueStages] /\ healthy \in [Workers -> BOOLEAN]
  /\ orders \in [Workers -> Seq(Cues)] /\ voices \in [Workers -> SUBSET Cues]
  /\ keeps \in Workers \cup {Nothing} /\ outcomes \in Seq({"ok", "error"})
  /\ call \in Calls

\* Cues are sent to the supervisor's worker only, and it is replaced only when
\* its thread is gone, and what it played with it.
SoundInv ==
  /\ call.at \in {"spawn", "ready"} => keeps = Nothing
  /\ call.at = "ready" => call.with \in Workers
  /\ call.at \in {"send", "await", "join"} => keeps # Nothing
  /\ \A w \in Workers :
       /\ voices[w] # {} => w = keeps /\ thread[w] \in {"runs", "pushes"}
       /\ thread[w] = "pushes" => w = keeps /\ orders[w] # <<>>
       /\ w # keeps /\ thread[w] # "gone" => \A i \in DOMAIN orders[w] : orders[w][i] = Shutdown

CueInv == CueTypes /\ SoundInv

\* An order is taken from the channel, or put into it.
LEMMA Ordered ==
  ASSUME orders \in [Workers -> Seq(Cues)], NEW w \in Workers
  PROVE  /\ \A c \in Cues : /\ Append(orders[w], c) \in Seq(Cues)
                            /\ DOMAIN Append(orders[w], c) = 1 .. Len(orders[w]) + 1
                            /\ \A i \in DOMAIN orders[w] : Append(orders[w], c)[i] = orders[w][i]
                            /\ Append(orders[w], c)[Len(orders[w]) + 1] = c
                            /\ Append(orders[w], c) # <<>>
         /\ DOMAIN orders[w] = 1 .. Len(orders[w]) /\ Len(orders[w]) \in Nat
         /\ orders[w] # <<>> => /\ Tail(orders[w]) \in Seq(Cues) /\ Head(orders[w]) \in Cues
                                /\ 1 \in DOMAIN orders[w] /\ Head(orders[w]) = orders[w][1]
                                /\ \A i \in DOMAIN Tail(orders[w]) :
                                     i + 1 \in DOMAIN orders[w] /\ Tail(orders[w])[i] = orders[w][i + 1]
<1> orders[w] \in Seq(Cues)
  OBVIOUS
<1>1. DOMAIN orders[w] = 1 .. Len(orders[w]) /\ Len(orders[w]) \in Nat
  BY LenProperties
<1>2. ASSUME NEW c \in Cues
      PROVE  /\ Append(orders[w], c) \in Seq(Cues)
             /\ DOMAIN Append(orders[w], c) = 1 .. Len(orders[w]) + 1
             /\ \A i \in DOMAIN orders[w] : Append(orders[w], c)[i] = orders[w][i]
             /\ Append(orders[w], c)[Len(orders[w]) + 1] = c /\ Append(orders[w], c) # <<>>
  BY <1>1, AppendProperties, LenProperties
<1>3. ASSUME orders[w] # <<>>
      PROVE  /\ Tail(orders[w]) \in Seq(Cues) /\ Head(orders[w]) \in Cues
             /\ 1 \in DOMAIN orders[w] /\ Head(orders[w]) = orders[w][1]
             /\ \A i \in DOMAIN Tail(orders[w]) :
                  i + 1 \in DOMAIN orders[w] /\ Tail(orders[w])[i] = orders[w][i + 1]
  <2>1. /\ Tail(orders[w]) \in Seq(Cues) /\ Head(orders[w]) \in Cues
        /\ Len(Tail(orders[w])) = Len(orders[w]) - 1
        /\ \A i \in 1 .. Len(Tail(orders[w])) : Tail(orders[w])[i] = orders[w][i + 1]
    BY <1>3, HeadTailProperties
  <2>2. DOMAIN Tail(orders[w]) = 1 .. Len(Tail(orders[w])) /\ Len(Tail(orders[w])) \in Nat
    BY <2>1, LenProperties
  <2>3. Len(orders[w]) # 0
    BY <1>3, EmptySeq
  <2> QED
    BY <1>1, <2>1, <2>2, <2>3
<1> QED
  BY <1>1, <1>2, <1>3

\* A call that moves or returns is still a call.
LEMMA CallGoes ==
  ASSUME CueTypes
  PROVE  /\ \A place \in CallPlaces : MoveTo(place) => /\ call' \in Calls /\ call'.at = place
                                                     /\ call'.with = call.with
         /\ \A result \in {"ok", "error"} : Return(result) =>
              /\ call' \in Calls /\ call'.at = "none" /\ outcomes' \in Seq({"ok", "error"})
         /\ Failed => /\ call' \in Calls /\ call'.at \in {"none", "retire"}
                      /\ outcomes' \in Seq({"ok", "error"})
<1>1. ASSUME NEW place \in CallPlaces, MoveTo(place)
      PROVE  call' \in Calls /\ call'.at = place /\ call'.with = call.with
  BY <1>1 DEF MoveTo, CueTypes, Calls
<1>2. ASSUME NEW result \in {"ok", "error"}, Return(result)
      PROVE  call' \in Calls /\ call'.at = "none" /\ outcomes' \in Seq({"ok", "error"})
  <2>1. call' \in Calls /\ call'.at = "none"
    BY <1>2, CallsAssumption DEF Return, NoCall, Calls, CallPlaces
  <2>2. outcomes' \in Seq({"ok", "error"})
    BY <1>2, AppendProperties DEF Return, CueTypes
  <2> QED
    BY <2>1, <2>2
<1>3. ASSUME Failed
      PROVE  /\ call' \in Calls /\ call'.at \in {"none", "retire"}
             /\ outcomes' \in Seq({"ok", "error"})
  <2>1. CASE call.attempt = 1
    BY <1>3, <2>1 DEF Failed, CueTypes, Calls, CallPlaces
  <2>2. CASE call.attempt # 1
    BY <1>3, <2>2, <1>2 DEF Failed
  <2> QED
    BY <2>1, <2>2
<1> QED
  BY <1>1, <1>2, <1>3

\* Steps of a call that neither start a worker nor put one in another's place.
LEMMA CallKeeps ==
  ASSUME CueInv,
         UNCHANGED <<keeps, thread, voices>>, healthy' \in [Workers -> BOOLEAN],
         call' \in Calls, outcomes' \in Seq({"ok", "error"}), UNCHANGED orders,
         call'.at \notin {"spawn", "ready"} \/ keeps = Nothing,
         call'.at = "ready" => call'.with \in Workers,
         call'.at \in {"send", "await", "join"} => keeps # Nothing
  PROVE  CueInv'
  BY DEF CueInv, CueTypes, SoundInv

\* An order for the supervisor's worker, or one to end.
LEMMA OrderKeeps ==
  ASSUME CueInv,
         UNCHANGED <<keeps, thread, voices>>, healthy' \in [Workers -> BOOLEAN],
         call' \in Calls, outcomes' \in Seq({"ok", "error"}),
         NEW w \in Workers, NEW c \in Cues, c = Shutdown \/ w = keeps,
         orders' = [orders EXCEPT ![w] = Append(@, c)],
         call'.at \notin {"spawn", "ready"},
         call'.at \in {"send", "await", "join"} => keeps # Nothing
  PROVE  CueInv'
<1>1. orders' \in [Workers -> Seq(Cues)]
  BY Ordered DEF CueInv, CueTypes
<1>2. CueTypes'
  BY <1>1 DEF CueInv, CueTypes
<1>3. ASSUME NEW v \in Workers
      PROVE  /\ voices'[v] # {} => v = keeps' /\ thread'[v] \in {"runs", "pushes"}
             /\ thread'[v] = "pushes" => v = keeps' /\ orders'[v] # <<>>
             /\ v # keeps' /\ thread'[v] # "gone" => \A i \in DOMAIN orders'[v] : orders'[v][i] = Shutdown
  <2>1. CASE v # w
    BY <2>1 DEF CueInv, CueTypes, SoundInv
  <2>2. CASE v = w
    <3>1. orders'[v] = Append(orders[w], c)
      BY <2>2 DEF CueInv, CueTypes
    <3>2. /\ DOMAIN orders'[v] = 1 .. Len(orders[w]) + 1 /\ orders'[v] # <<>>
          /\ \A i \in DOMAIN orders[w] : orders'[v][i] = orders[w][i]
          /\ orders'[v][Len(orders[w]) + 1] = c
          /\ DOMAIN orders[w] = 1 .. Len(orders[w]) /\ Len(orders[w]) \in Nat
      BY <3>1, Ordered DEF CueInv, CueTypes
    <3> QED
      BY <2>2, <3>2 DEF CueInv, SoundInv
  <2> QED
    BY <2>1, <2>2
<1> QED
  BY <1>2, <1>3 DEF CueInv, SoundInv

\* What the supervisor does.
LEMMA SupervisorKeeps ==
  ASSUME CueInv,
         \/ BeginCall \/ EnsureWorker \/ PrewarmDone \/ Retire \/ Join \/ Backoff
         \/ Spawn \/ Ready \/ NotReady \/ SendCue \/ Await
  PROVE  CueInv'
<1> USE CallGoes DEF At, CueThreads, Unsent
<1>1. CueTypes /\ SoundInv
  BY DEF CueInv
<1>2. CASE BeginCall
  <2>1. call' \in Calls /\ call'.at = "ensure"
    <3>1. PICK cue \in {Prewarm, Len(outcomes) + 1} : call' = [NoCall EXCEPT !.at = "ensure", !.cue = cue]
      BY <1>2 DEF BeginCall
    <3>2. Len(outcomes) \in Nat /\ Len(outcomes) < MaxCalls
      BY <1>1, <1>2, LenProperties DEF BeginCall, CueTypes
    <3>3. cue \in 0 .. MaxCalls
      BY <3>1, <3>2, CallsAssumption DEF Prewarm
    <3> QED
      BY <3>1, <3>3 DEF NoCall, Calls, CallPlaces
  <2> QED
    BY <1>1, <1>2, <2>1, CallKeeps DEF BeginCall, CueTypes
<1>3. CASE EnsureWorker
  <2>1. CASE MoveTo(IF call.cue = Prewarm THEN "done" ELSE "send") /\ Reusable /\ UNCHANGED outcomes
    BY <1>1, <1>3, <2>1, CallKeeps DEF EnsureWorker, CueTypes, Reusable, Healthy, CallPlaces
  <2>2. CASE Return("error")
    BY <1>1, <1>3, <2>2, CallKeeps DEF EnsureWorker, CueTypes
  <2>3. CASE MoveTo("retire") /\ UNCHANGED outcomes
    BY <1>1, <1>3, <2>3, CallKeeps DEF EnsureWorker, CueTypes, CallPlaces
  <2> QED
    BY <1>3, <2>1, <2>2, <2>3 DEF EnsureWorker
<1>4. CASE PrewarmDone \/ Backoff
  BY <1>1, <1>4, CallKeeps DEF PrewarmDone, Backoff, CueTypes
<1>5. CASE Retire
  <2>1. CASE keeps = Nothing
    BY <1>1, <1>5, <2>1, CallKeeps DEF Retire, CueTypes, CallPlaces
  <2>2. CASE keeps # Nothing
    <3>1. Shutdown \in Cues /\ keeps \in Workers
      BY <1>1, <2>2, CallsAssumption DEF Shutdown, Cues, CueTypes
    <3>2. healthy' \in [Workers -> BOOLEAN] /\ call' \in Calls /\ call'.at = "join"
      BY <1>1, <1>5, <2>2 DEF Retire, CueTypes, CallPlaces
    <3> QED
      BY <1>1, <1>5, <2>2, <3>1, <3>2, OrderKeeps DEF Retire, CueTypes
  <2> QED
    BY <2>1, <2>2
<1>6. CASE Join
  <2>1. call' \in Calls /\ call'.at \in {"ensure", "spawn"}
    BY <1>1, <1>6 DEF Join, CueTypes, Calls, CallPlaces
  <2>2. /\ keeps' = Nothing /\ thread[keeps] = "gone" /\ keeps \in Workers
        /\ UNCHANGED <<thread, voices, orders, healthy, outcomes>>
    BY <1>1, <1>6 DEF Join, Joined, CueTypes, SoundInv
  <2> QED
    BY <1>1, <2>1, <2>2 DEF CueInv, CueTypes, SoundInv
<1>7. CASE Spawn
  <2> DEFINE w == CHOOSE v \in Workers : thread[v] = "unborn"
  <2>1. w \in Workers /\ thread[w] = "unborn"
    BY <1>7 DEF Spawn
  <2>2. /\ thread' = [thread EXCEPT ![w] = "opening"] /\ keeps = Nothing
        /\ call' = [call EXCEPT !.at = "ready", !.with = w]
        /\ UNCHANGED <<voices, orders, healthy, outcomes, keeps>>
    BY <1>1, <1>7 DEF Spawn, SoundInv
  <2> HIDE DEF w
  <2>3. call' \in Calls /\ call'.at = "ready" /\ call'.with = w
    BY <1>1, <2>1, <2>2 DEF CueTypes, Calls, CallPlaces
  <2>4. thread' \in [Workers -> CueStages]
    BY <1>1, <2>1, <2>2 DEF CueTypes, CueStages
  <2> QED
    BY <1>1, <2>1, <2>2, <2>3, <2>4 DEF CueInv, CueTypes, SoundInv
<1>8. CASE Ready
  <2>1. CASE Return("error") /\ UNCHANGED keeps
    BY <1>1, <1>8, <2>1, CallKeeps DEF Ready, CueTypes
  <2>2. CASE keeps' = call.with /\ UNCHANGED outcomes /\ MoveTo(IF call.cue = Prewarm THEN "done" ELSE "send")
    <3>1. call' \in Calls /\ call'.at \in {"done", "send"}
      BY <1>1, <2>2 DEF CallPlaces
    <3>2. /\ keeps = Nothing /\ keeps' \in Workers
          /\ UNCHANGED <<thread, voices, orders, healthy>>
      BY <1>1, <1>8, <2>2 DEF Ready, SoundInv
    <3> QED
      BY <1>1, <2>2, <3>1, <3>2, CallsAssumption DEF CueInv, CueTypes, SoundInv
  <2> QED
    BY <1>8, <2>1, <2>2 DEF Ready
<1>9. CASE NotReady
  <2>1. Shutdown \in Cues /\ call.with \in Workers
    BY <1>1, <1>9, CallsAssumption DEF Shutdown, Cues, SoundInv, NotReady
  <2> QED
    BY <1>1, <1>9, <2>1, OrderKeeps DEF NotReady, CueTypes
<1>10. CASE SendCue
  <2>1. CASE Failed /\ UNCHANGED orders
    BY <1>1, <1>10, <2>1, CallKeeps DEF SendCue, CueTypes
  <2>2. CASE orders' = [orders EXCEPT ![keeps] = Append(@, call.cue)] /\ MoveTo("await") /\ UNCHANGED outcomes
    <3>1. call.cue \in Cues /\ keeps \in Workers
      BY <1>1, <1>10, CallsAssumption DEF SendCue, Cues, CueTypes, Calls, SoundInv
    <3>2. call' \in Calls /\ call'.at = "await"
      BY <1>1, <2>2 DEF CallPlaces
    <3> QED
      BY <1>1, <1>10, <2>2, <3>1, <3>2, OrderKeeps DEF SendCue, CueTypes, SoundInv
  <2> QED
    BY <1>10, <2>1, <2>2 DEF SendCue
<1>11. CASE Await
  BY <1>1, <1>11, CallKeeps DEF Await, CueTypes
<1> QED
  BY <1>2, <1>3, <1>4, <1>5, <1>6, <1>7, <1>8, <1>9, <1>10, <1>11

\* What the workers do, and the devices.
LEMMA WorkerKeeps ==
  ASSUME CueInv, NEW w \in Workers,
         Open(w) \/ Obey(w) \/ PushVoice(w) \/ PlayedOut(w) \/ OutputFails(w)
  PROVE  CueInv'
<1>1. CueTypes /\ SoundInv
  BY DEF CueInv
<1>2. UNCHANGED <<keeps, outcomes, call>>
  BY DEF Open, Obey, PushVoice, PlayedOut, OutputFails, Supervisor
<1>3. ASSUME thread' \in [Workers -> CueStages], healthy' \in [Workers -> BOOLEAN],
             orders' \in [Workers -> Seq(Cues)], voices' \in [Workers -> SUBSET Cues],
             \A v \in Workers \ {w} : /\ thread'[v] = thread[v] /\ orders'[v] = orders[v]
                                      /\ voices'[v] = voices[v],
             voices'[w] # {} => w = keeps /\ thread'[w] \in {"runs", "pushes"},
             thread'[w] = "pushes" => w = keeps /\ orders'[w] # <<>>,
             w # keeps /\ thread'[w] # "gone" => \A i \in DOMAIN orders'[w] : orders'[w][i] = Shutdown
      PROVE  CueInv'
  BY <1>1, <1>2, <1>3 DEF CueInv, CueTypes, SoundInv
<1>4. CASE Open(w)
  <2>1. /\ thread' \in [Workers -> CueStages] /\ healthy' \in [Workers -> BOOLEAN]
        /\ UNCHANGED <<orders, voices>> /\ thread[w] = "opening" /\ thread'[w] \in {"runs", "gone"}
        /\ \A v \in Workers \ {w} : thread'[v] = thread[v]
    BY <1>1, <1>4 DEF Open, CueTypes, CueStages
  <2> QED
    BY <1>1, <1>3, <2>1 DEF CueTypes, SoundInv
<1>5. CASE Obey(w)
  <2>1. orders[w] # <<>> /\ thread[w] = "runs"
    BY <1>5 DEF Obey
  <2>2. /\ Tail(orders[w]) \in Seq(Cues) /\ 1 \in DOMAIN orders[w] /\ Head(orders[w]) = orders[w][1]
        /\ \A i \in DOMAIN Tail(orders[w]) :
             i + 1 \in DOMAIN orders[w] /\ Tail(orders[w])[i] = orders[w][i + 1]
    BY <1>1, <2>1, Ordered DEF CueTypes
  <2>3. CASE Head(orders[w]) # Shutdown /\ healthy[w]
    <3>1. w = keeps
      BY <1>1, <2>1, <2>2, <2>3 DEF SoundInv
    <3>2. /\ thread' = [thread EXCEPT ![w] = "pushes"] /\ UNCHANGED <<orders, voices, healthy>>
      BY <1>5, <2>3 DEF Obey
    <3>3. thread' \in [Workers -> CueStages]
      BY <1>1, <3>2 DEF CueTypes, CueStages
    <3> QED
      BY <1>1, <1>3, <2>1, <3>1, <3>2, <3>3 DEF CueTypes, SoundInv
  <2>4. CASE ~ (Head(orders[w]) # Shutdown /\ healthy[w])
    <3>1. EndThread(w) /\ orders' = [orders EXCEPT ![w] = Tail(@)]
      BY <1>5, <2>4 DEF Obey
    <3>2. /\ thread' \in [Workers -> CueStages] /\ healthy' \in [Workers -> BOOLEAN]
          /\ orders' \in [Workers -> Seq(Cues)] /\ voices' \in [Workers -> SUBSET Cues]
          /\ thread'[w] = "gone" /\ voices'[w] = {}
          /\ \A v \in Workers \ {w} : /\ thread'[v] = thread[v] /\ orders'[v] = orders[v]
                                       /\ voices'[v] = voices[v]
      BY <1>1, <2>2, <3>1 DEF EndThread, CueTypes, CueStages
    <3> QED
      BY <1>3, <3>2
  <2> QED
    BY <2>3, <2>4
<1>6. CASE PushVoice(w)
  <2>1. w = keeps /\ orders[w] # <<>>
    BY <1>1, <1>6 DEF PushVoice, SoundInv
  <2>2. Tail(orders[w]) \in Seq(Cues) /\ Head(orders[w]) \in Cues
    BY <1>1, <2>1, Ordered DEF CueTypes
  <2>3. /\ thread' \in [Workers -> CueStages] /\ UNCHANGED healthy /\ thread'[w] = "runs"
        /\ orders' \in [Workers -> Seq(Cues)] /\ voices' \in [Workers -> SUBSET Cues]
        /\ \A v \in Workers \ {w} : /\ thread'[v] = thread[v] /\ orders'[v] = orders[v]
                                     /\ voices'[v] = voices[v]
    BY <1>1, <1>6, <2>2 DEF PushVoice, CueTypes, CueStages
  <2> QED
    BY <1>1, <1>3, <2>1, <2>3 DEF CueTypes
<1>7. CASE PlayedOut(w)
  <2>1. /\ voices' \in [Workers -> SUBSET Cues] /\ voices[w] # {}
        /\ \A v \in Workers \ {w} : voices'[v] = voices[v]
        /\ UNCHANGED <<thread, orders, healthy>>
    BY <1>1, <1>7 DEF PlayedOut, CueTypes
  <2> QED
    BY <1>1, <1>3, <2>1 DEF CueTypes, SoundInv
<1>8. CASE OutputFails(w)
  <2>1. healthy' \in [Workers -> BOOLEAN] /\ UNCHANGED <<thread, orders, voices>>
    BY <1>1, <1>8 DEF OutputFails, CueThreads, CueTypes
  <2> QED
    BY <1>1, <1>3, <2>1 DEF CueTypes, SoundInv
<1> QED
  BY <1>4, <1>5, <1>6, <1>7, <1>8

\* What the supervisor, the workers and the devices do keeps a cue with its worker.
LEMMA CueStep == CueInv /\ [CueNext]_cueVars => CueInv'
<1>1. CueInv /\ SwitchDevice => CueInv'
  BY DEF SwitchDevice, CueThreads, Supervisor, CueInv, CueTypes, SoundInv
<1>2. CueInv /\ UNCHANGED cueVars => CueInv'
  BY DEF cueVars, CueInv, CueTypes, SoundInv
<1> QED
  BY <1>1, <1>2, SupervisorKeeps, WorkerKeeps DEF CueNext

\* No two streams ever play, and a worker that was replaced or came too late plays
\* nothing, for any workers, devices and calls (CueSupervisor::play).
THEOREM CuesComeFromOneStream == CueSpec => []OneStreamPlays
<1>1. CueInit => CueInv
  <2> SUFFICES ASSUME CueInit PROVE CueInv
    OBVIOUS
  <2>1. <<>> \in Seq(Cues) /\ DOMAIN <<>> = {} /\ <<>> \in Seq({"ok", "error"})
    OBVIOUS
  <2>2. CueTypes
    BY <2>1, CallsAssumption DEF CueInit, CueTypes, CueStages, NoCall, Calls, CallPlaces
  <2>3. SoundInv
    BY <2>1 DEF CueInit, SoundInv, NoCall
  <2> QED
    BY <2>2, <2>3 DEF CueInv
<1>2. CueInv => OneStreamPlays
  <2> SUFFICES ASSUME CueInv PROVE OneStreamPlays
    OBVIOUS
  <2> DEFINE playing == {w \in Workers : voices[w] # {}}
  <2>1. playing \subseteq {keeps}
    BY DEF CueInv, SoundInv
  <2>2. Cardinality(playing) <= 1
    <3>1. IsFiniteSet({keeps}) /\ Cardinality({keeps}) = 1
      BY FS_Singleton
    <3> QED
      BY <2>1, <3>1, FS_Subset
  <2> QED
    BY <2>2 DEF OneStreamPlays, CueInv, SoundInv
<1> QED
  BY <1>1, <1>2, CueStep, PTL DEF CueSpec

-----------------------------------------------------------------------------
(* The conditioning's fallback. *)

\* While the first version runs, each failure counted since the budget was given
\* belongs to a pass of the budget: so the failures are fewer than it takes to
\* give it again before a pass of the second version.
FallbackInv ==
  /\ owed \in Nat /\ inARow \in Nat /\ failures \in Nat /\ passes \in Nat
  /\ owed <= Budget
  /\ inARow > 0 => /\ inARow + owed <= Budget
                   /\ failures + (IF passes > 0 THEN 1 ELSE 0) <= inARow
  /\ inARow = 0 /\ owed > 0 => passes = 0 /\ failures = 0

\* The budget is never given again before the second version ran.
LEMMA FallbackStep == FallbackInv /\ [PolicyNext]_policyVars => FallbackInv'
<1> SUFFICES ASSUME FallbackInv, [PolicyNext]_policyVars PROVE FallbackInv'
  OBVIOUS
<1> USE BudgetAssumption DEF FallbackInv
<1>1. CASE Decode
  BY <1>1 DEF Decode, Pass
<1>2. CASE StepDown
  BY <1>2 DEF StepDown, Pass
<1>3. CASE Succeeds
  BY <1>3 DEF Succeeds
<1>4. CASE SaysNothing
  BY <1>4 DEF SaysNothing
<1>5. CASE FailsHard
  BY <1>5 DEF FailsHard, HardFailure, Engage
<1>6. CASE ComesToNothing \/ ChangeSetting \/ UNCHANGED policyVars
  BY <1>6 DEF ComesToNothing, ChangeSetting, policyVars
<1> QED
  BY <1>1, <1>2, <1>3, <1>4, <1>5, <1>6 DEF PolicyNext

\* Three hard failures in a row bring the first version of the conditioning back
\* for its budget of passes and no longer: the second one always gets its turn
\* again, whatever fails meanwhile (audio_pipeline.rs).
THEOREM SecondVersionGetsItsTurn == PolicySpec => []SecondVersionReturns
<1>1. PolicyInit => FallbackInv
  BY BudgetAssumption DEF PolicyInit, FallbackInv
<1>2. FallbackInv => SecondVersionReturns
  BY BudgetAssumption DEF FallbackInv, SecondVersionReturns
<1> QED
  BY <1>1, <1>2, FallbackStep, PTL DEF PolicySpec

-----------------------------------------------------------------------------
(* The choice between two texts. *)

\* What the engine says of a decode.
Measured(d) ==
  /\ WordCount(d) \in Nat /\ d.loss \in Int /\ d.noSpeech \in Int /\ d.compression \in Int

BetterOf(p, r) == IF Beats(p, r) THEN r ELSE p

\* Both decodes are measured, and after the second one the better is chosen.
ChoiceInv ==
  /\ Measured(primary) /\ Measured(retry)
  /\ stage \in {"begin", "primary", "retry"} => retry = NoDecode
  /\ stage # "over" => gives = "nothing"
  /\ retry # NoDecode /\ (stage = "decoded" \/ gives \in {"words", "silence"})
       => chosen = BetterOf(primary, retry)

\* Whatever a decode gives is measured.
LEMMA DecodesAreMeasured == \A d \in Decodes \cup {NoDecode} : Measured(d)
<1>1. Measured(NoDecode)
  <2>1. Len(<<>>) = 0
    OBVIOUS
  <2> QED
    BY <2>1 DEF NoDecode, Measured, WordCount
<1>2. ASSUME NEW d \in Decodes PROVE Measured(d)
  BY MeasureAssumption DEF Decodes, Measured, WordCount
<1> QED
  BY <1>1, <1>2

\* The score follows the measures: what is no worse in all of them scores no lower.
LEMMA ScoreIsMonotone ==
  ASSUME NEW d, NEW e, Measured(d), Measured(e), NoWorse(d, e)
  PROVE  Confidence(d) >= Confidence(e) + 20 * (e.loss - d.loss)
  BY DEF Measured, NoWorse, Confidence, Min2, Max2

\* The score of a measured decode is a number.
LEMMA ScoreIsANumber == ASSUME NEW d, Measured(d) PROVE Confidence(d) \in Int
  BY DEF Measured, Confidence, Min2, Max2

\* Each step decodes, ends the pass, or looks for a cancel.
LEMMA ChoiceStep == ChoiceInv /\ [RetryNext]_retryVars => ChoiceInv'
<1> SUFFICES ASSUME ChoiceInv, [RetryNext]_retryVars PROVE ChoiceInv'
  OBVIOUS
<1> USE DecodesAreMeasured DEF ChoiceInv
<1>1. CASE Begin \/ EngineFails
  <2>1. UNCHANGED <<primary, retry, chosen>>
    BY <1>1 DEF Begin, EngineFails
  <2>2. Measured(primary)' /\ Measured(retry)'
    BY <2>1 DEF Measured, WordCount
  <2>3. stage' # "decoded" /\ gives' \notin {"words", "silence"}
    BY <1>1 DEF Begin, EngineFails, Over
  <2>4. stage' # "over" => gives' = "nothing" /\ stage \in {"begin", "primary", "retry"}
    BY <1>1 DEF Begin, EngineFails, Over
  <2> QED
    BY <2>1, <2>2, <2>3, <2>4
<1>2. CASE DecodePrimary
  BY <1>2 DEF DecodePrimary, Over
<1>3. CASE DecodeOnceMore
  <2>1. BetterOf(primary, retry)' = (IF Beats(primary, retry') THEN retry' ELSE primary)
    BY <1>3 DEF DecodeOnceMore, BetterOf, Beats, Confidence, WordCount, Min2, Max2
  <2>2. Measured(retry')
    BY <1>3 DEF DecodeOnceMore
  <2>3. Measured(primary)' /\ Measured(retry)'
    BY <1>3, <2>2 DEF DecodeOnceMore, Measured, WordCount
  <2>4. stage' \notin {"begin", "primary", "retry"} /\ (stage' # "over" => gives' = "nothing")
    BY <1>3 DEF DecodeOnceMore, Over
  <2>5. stage' = "decoded" \/ gives' \in {"words", "silence"} => chosen' = BetterOf(primary, retry)'
    BY <1>3, <2>1 DEF DecodeOnceMore, Over
  <2> QED
    BY <2>3, <2>4, <2>5
<1>4. CASE Give \/ CancelDecode \/ UNCHANGED retryVars
  <2>1. UNCHANGED <<primary, retry, chosen, duration>>
    BY <1>4 DEF Give, CancelDecode, retryVars
  <2>2. BetterOf(primary, retry)' = BetterOf(primary, retry)
    BY <2>1 DEF BetterOf, Beats, Confidence, WordCount, Min2, Max2
  <2>3. Measured(primary)' /\ Measured(retry)'
    BY <2>1 DEF Measured, WordCount
  <2> QED
    BY <1>4, <2>1, <2>2, <2>3 DEF Give, CancelDecode, retryVars, Over
<1> QED
  BY <1>1, <1>2, <1>3, <1>4 DEF RetryNext

\* What the choice between two measured decodes gives.
LEMMA ChoiceIsRight ==
  ASSUME ChoiceInv PROVE BetterOfTwo
<1> USE DEF WordCount
<1> SUFFICES ASSUME gives \in {"words", "silence"}, retry # NoDecode
             PROVE  LET other == IF chosen = primary THEN retry ELSE primary IN
                      /\ WordCount(chosen) = 0 => WordCount(other) = 0
                      /\ chosen = retry /\ retry # primary /\ WordCount(primary) > 0 => ~ NoWorse(primary, retry)
                      /\ chosen = primary /\ WordCount(retry) > 0 =>
                           ~ (NoWorse(retry, primary) /\ retry.loss + 40 < primary.loss)
  BY DEF BetterOfTwo
<1>1. chosen = BetterOf(primary, retry) /\ Measured(primary) /\ Measured(retry)
  BY DEF ChoiceInv
<1>2. Confidence(primary) \in Int /\ Confidence(retry) \in Int
  BY <1>1, ScoreIsANumber
<1>3. WordCount(chosen) = 0 => WordCount(primary) = 0 /\ WordCount(retry) = 0
  BY <1>1 DEF BetterOf, Beats, Measured
<1>4. ASSUME chosen = retry, retry # primary, WordCount(primary) > 0, NoWorse(primary, retry)
      PROVE  FALSE
  <2>1. Beats(primary, retry)
    BY <1>1, <1>4 DEF BetterOf
  <2>2. ~ (Confidence(retry) > Confidence(primary) + 800)
    <3>1. Confidence(primary) >= Confidence(retry) + 20 * (retry.loss - primary.loss)
      BY <1>1, <1>4, ScoreIsMonotone
    <3>2. retry.loss - primary.loss >= 0 /\ retry.loss - primary.loss \in Int
      BY <1>1, <1>4 DEF Measured, NoWorse
    <3> QED
      BY <1>2, <3>1, <3>2
  <2>3. ~ (WordCount(retry) >= WordCount(primary) + 3)
    BY <1>1, <1>4 DEF Measured, NoWorse
  <2> QED
    BY <1>1, <1>4, <2>1, <2>2, <2>3 DEF Beats, Measured
<1>5. ASSUME chosen = primary, WordCount(retry) > 0, NoWorse(retry, primary), retry.loss + 40 < primary.loss
      PROVE  FALSE
  <2>1. Confidence(retry) > Confidence(primary) + 800
    <3>1. Confidence(retry) >= Confidence(primary) + 20 * (primary.loss - retry.loss)
      BY <1>1, <1>5, ScoreIsMonotone
    <3>2. primary.loss - retry.loss > 40 /\ primary.loss - retry.loss \in Int
      BY <1>1, <1>5 DEF Measured
    <3> QED
      BY <1>2, <3>1, <3>2
  <2>2. Beats(primary, retry)
    BY <1>5, <2>1 DEF Beats
  <2>3. retry = primary
    BY <1>1, <1>5, <2>2 DEF BetterOf
  <2> QED
    BY <1>1, <1>5, <2>3 DEF Measured
<1> QED
  BY <1>3, <1>4, <1>5

\* Of two decodes the better is given, for any texts and any measures: no word is
\* given up for silence, nothing for what is no better in anything, and what is
\* much better in everything is taken (fw_retry_beats_primary).
THEOREM BetterIsGiven == RetrySpec => []BetterOfTwo
<1>1. RetryInit => ChoiceInv
  BY DecodesAreMeasured DEF RetryInit, ChoiceInv
<1> QED
  BY <1>1, ChoiceStep, ChoiceIsRight, PTL DEF RetrySpec

-----------------------------------------------------------------------------
(* The graphics card's file. *)

Drivers == [card : Cards, driver : Nat]
Cooldowns == [key : Drivers, boot : Nat, day : Nat]
Disables == [key : Drivers, day : Nat, build : Nat]
Outcomes == {"passed", "failed", "retry"}
Records == [key : Keys, outcome : Outcomes, counted : BOOLEAN]
Tasks ==
  [at : {"idle", "ask", "check", "noted", "switch", "clear"}, model : Models \cup {None},
   found : Outcomes \cup {None}]
Views ==
  [at : {"idle", "latest", "mark", "rung", "tell"}, model : Models \cup {None}, gpu : BOOLEAN,
   pending : Models \cup {None}, latest : Outcomes \cup {None}, preparing : BOOLEAN,
   rung : {"gpu", "cpu"}]

\* What may stand in the file: a record of a check that was made, whose failure
\* ends the accepted upgrade; a cooldown that was, once for each start; a disable
\* that two starts' cooldowns account for.
GoodRecords ==
  {r \in Records : r.key \in checked /\ (r.outcome = "failed" /\ r.key.model = Accepted => ended # {})}
TwoSessions(d) ==
  \E x, y \in cooled :
    x.key = d.key /\ y.key = d.key /\ x.boot < y.boot /\ y.day = d.day /\ y.day - x.day < Ttl
GoodDisables == {d \in Disables : TwoSessions(d)}
OnceAStart(F) == \A f, g \in F : f.key = g.key /\ f.boot = g.boot => f = g
Shapes ==
  [chosen : Cards \cup {None}, quals : Seq(GoodRecords), failures : SUBSET cooled,
   disables : SUBSET GoodDisables, pending : {None, Accepted}]
GoodStores ==
  {s \in Shapes : IsFiniteSet(s.failures) /\ OnceAStart(s.failures) /\ (s.pending = None => ended # {})}

FileInv == mem \in GoodStores /\ disk \in GoodStores

GpuTypes ==
  /\ profile = None \/ profile \in [card : Cards \cup {None}, driver : Nat]
  /\ plugged \subseteq Cards /\ driver \in [Cards -> Nat] /\ build \in Nat /\ day \in Nat /\ boot \in Nat
  /\ active \in Models /\ installed \subseteq Models /\ enabled \in BOOLEAN
  /\ qualifying \in Keys \cup {None}
  /\ task \in [Checkers -> Tasks] /\ view \in Views
  /\ cooled \subseteq Cooldowns /\ \A f \in cooled : f.boot <= boot /\ f.day <= day

\* One check at a time; it has the mark, and the model of whoever asked for it.
\* A caller that asks for the accepted upgrade asks for its model, and gives up only when
\* it is over.
CheckInv ==
  /\ \A c \in Checkers : task[c].at \in {"check", "noted"} =>
       qualifying # None /\ qualifying.model = task[c].model
  /\ \A c, d \in Checkers :
       task[c].at \in {"check", "noted"} /\ task[d].at \in {"check", "noted"} => c = d
  /\ \A c \in Checkers : task[c].at # "idle" => task[c].model \in Models
  /\ \A c \in Callers : task[c].at # "idle" => task[c].model = Accepted
  /\ task[Dictation].at \notin {"switch", "clear"}
  /\ \A c \in Callers : task[c].at = "clear" => ended # {}
  /\ \A c \in Callers : task[c].at = "noted" /\ task[c].found = "failed" => ended # {}
  /\ active = Accepted => ended # {}

\* A status under way has the card's profile, and what it read of a check was checked.
StatusInv ==
  /\ view.at # "idle" => profile # None
  /\ view.at \in {"mark", "rung", "tell"} /\ view.latest # None => Carded /\ Key(view.model) \in checked
  /\ OfferFollowsACheck

GpuInv == GpuTypes /\ FileInv /\ CheckInv /\ StatusInv

\* The history variables only grow.
Grows == checked \subseteq checked' /\ cooled \subseteq cooled' /\ ended \subseteq ended'

\* What may stand in the file still may when the histories grew.
LEMMA StoresGrow == ASSUME Grows PROVE GoodStores \subseteq GoodStores'
<1>1. GoodRecords \subseteq GoodRecords'
  BY DEF Grows, GoodRecords
<1>2. Seq(GoodRecords) \subseteq Seq(GoodRecords')
  BY <1>1, SeqMonotonic
<1>3. GoodDisables \subseteq GoodDisables'
  BY DEF Grows, GoodDisables, TwoSessions
<1>4. ASSUME NEW s \in Shapes PROVE s \in Shapes'
  BY <1>2, <1>3 DEF Shapes, Grows
<1> QED
  BY <1>4 DEF GoodStores, Grows

\* A save of a good store, whether it reached the disk or not.
LEMMA UpdateKeeps ==
  ASSUME FileInv, Grows, NEW store \in GoodStores', Update(store)
  PROVE  FileInv'
<1>1. disk \in GoodStores' /\ mem' = store /\ disk' \in {store, disk}
  BY StoresGrow DEF FileInv, Update
<1> QED
  BY <1>1 DEF FileInv

\* Nothing is saved.
LEMMA FileStays == ASSUME FileInv, Grows, UNCHANGED <<mem, disk>> PROVE FileInv'
  BY StoresGrow DEF FileInv

\* Nobody's check goes on.
LEMMA ChecksStay ==
  ASSUME CheckInv, Grows, UNCHANGED <<task, qualifying, active>> PROVE CheckInv'
  BY DEF CheckInv, Grows

\* Neither the status nor the card's profile changes.
LEMMA StatusStays ==
  ASSUME StatusInv, Grows, UNCHANGED <<view, offer, profile, build>> PROVE StatusInv'
  BY DEF StatusInv, Grows, OfferFollowsACheck, Carded, Key

\* The key of a card with a model.
LEMMA KeyOfModel ==
  ASSUME GpuTypes, Carded, NEW m \in Models
  PROVE  Key(m) \in Keys /\ Key(m).model = m /\ Key(m) # None /\ DriverKey \in Drivers
<1>1. profile \in [card : Cards \cup {None}, driver : Nat] /\ profile.card \in Cards
  BY DEF GpuTypes, Carded
<1> QED
  BY <1>1, NameAssumption DEF GpuTypes, Key, Keys, DriverKey, Drivers

\* An outcome that the file tells is that of one of its records.
LEMMA OutcomesAreRecords ==
  ASSUME FileInv, NEW k, NEW told, told = Cached(k) \/ told = Latest(k)
  PROVE  /\ told \in Outcomes \cup {None}
         /\ told # None => k \in checked /\ (told = "failed" /\ k.model = Accepted => ended # {})
<1>1. ASSUME NEW S \in SUBSET RecordsOf(k), told = LastOutcome(S), told # None
      PROVE  \E r \in GoodRecords : r.key = k /\ told = r.outcome
  <2> DEFINE newest == {i \in S : \A j \in S : j <= i}
             i == CHOOSE n \in newest : TRUE
  <2>1. newest # {} /\ told = mem.quals[i].outcome
    BY <1>1 DEF LastOutcome
  <2>2. i \in S
    BY <2>1
  <2>3. i \in DOMAIN mem.quals /\ mem.quals[i].key = k
    BY <2>2 DEF RecordsOf
  <2>4. mem.quals \in Seq(GoodRecords)
    BY DEF FileInv, GoodStores, Shapes
  <2>5. mem.quals[i] \in GoodRecords
    BY <2>3, <2>4, ElementOfSeq, LenProperties
  <2> QED
    BY <2>1, <2>3, <2>5
<1>2. told # None => \E r \in GoodRecords : r.key = k /\ told = r.outcome
  <2>1. CASE told = Cached(k)
    BY <1>1, <2>1 DEF Cached
  <2>2. CASE told = Latest(k)
    BY <1>1, <2>2 DEF Latest
  <2> QED
    BY <2>1, <2>2
<1> QED
  BY <1>2 DEF GoodRecords, Records

-----------------------------------------------------------------------------
(* The machine and the user. *)

\* A detection may choose another card.
LEMMA DetectKeeps == ASSUME GpuInv, Detect PROVE GpuInv'
<1>1. GpuTypes /\ FileInv /\ CheckInv /\ StatusInv /\ Grows
  BY DEF GpuInv, Grows, Detect, ghosts
<1>2. /\ UNCHANGED <<plugged, driver, build, day, boot, active, installed, enabled, qualifying, task, view,
                      offer, checked, cooled, ended>>
      /\ profile = None
  BY DEF Detect, machine, files, tasks, status, ghosts
<1>3. PICK c \in Cards \cup {None} :
        /\ profile' \in [card : Cards \cup {None}, driver : Nat]
        /\ UNCHANGED <<mem, disk>> \/ Update([mem EXCEPT !.chosen = c])
  <2> DEFINE Picked == IF mem.chosen \in Candidates THEN {mem.chosen} ELSE Best
  <2> Picked \subseteq Cards
    BY <1>1 DEF Candidates, Best, GpuTypes
  <2>1. CASE profile' = NoCard /\ UNCHANGED <<mem, disk>>
    BY <2>1 DEF NoCard
  <2>2. CASE \E c \in Picked :
               /\ profile' = [card |-> c, driver |-> driver[c]]
               /\ IF mem.chosen = c THEN UNCHANGED <<mem, disk>> ELSE Update([mem EXCEPT !.chosen = c])
    <3>1. PICK c \in Picked :
            /\ profile' = [card |-> c, driver |-> driver[c]]
            /\ IF mem.chosen = c THEN UNCHANGED <<mem, disk>> ELSE Update([mem EXCEPT !.chosen = c])
      BY <2>2
    <3>2. c \in Cards /\ driver[c] \in Nat
      BY <1>1 DEF GpuTypes
    <3> HIDE DEF Picked
    <3> QED
      BY <3>1, <3>2
  <2>3. \/ profile' = NoCard /\ UNCHANGED <<mem, disk>>
        \/ \E c \in Picked :
             /\ profile' = [card |-> c, driver |-> driver[c]]
             /\ IF mem.chosen = c THEN UNCHANGED <<mem, disk>> ELSE Update([mem EXCEPT !.chosen = c])
    BY Zenon DEF Detect
  <2> QED
    BY <2>1, <2>2, <2>3
<1>4. FileInv'
  <2>1. [mem EXCEPT !.chosen = c] \in GoodStores
    BY <1>1 DEF FileInv, GoodStores, Shapes
  <2> QED
    BY <1>1, <1>3, <2>1, StoresGrow, UpdateKeeps, FileStays
<1>5. GpuTypes'
  BY <1>1, <1>2, <1>3 DEF GpuTypes
<1>6. StatusInv'
  BY <1>1, <1>2 DEF StatusInv, OfferFollowsACheck
<1> QED
  BY <1>1, <1>2, <1>4, <1>5, <1>6, ChecksStay DEF GpuInv

\* Steps that neither save anything, nor touch a check or a status.
LEMMA AsideKeeps ==
  ASSUME GpuInv,
         \/ Cools \/ SetGpu \/ Tick \/ (\E m \in Models : BeginRemove(m) \/ Install(m))
         \/ (\E c \in Cards : Plug(c) \/ UpdateDriver(c)) \/ UNCHANGED gpuVars
  PROVE  GpuInv'
<1> USE DEF machine, session, files, tasks, status, ghosts
<1>1. GpuTypes /\ FileInv /\ CheckInv /\ StatusInv
  BY DEF GpuInv
<1>2. UNCHANGED <<mem, disk, build, boot, profile, qualifying, task, active, view, offer, checked, cooled, ended>>
  BY DEF Cools, SetGpu, Tick, BeginRemove, Install, Plug, UpdateDriver, Changes, gpuVars
<1>3. /\ plugged' \subseteq Cards /\ driver' \in [Cards -> Nat] /\ day' \in Nat /\ day' >= day
      /\ installed' \subseteq Models /\ enabled' \in BOOLEAN
  <2>1. CASE Cools \/ UNCHANGED gpuVars
    BY <1>1, <2>1 DEF Cools, gpuVars, GpuTypes
  <2>5. CASE SetGpu
    <3>1. enabled' \in BOOLEAN
      BY <2>5, Zenon DEF SetGpu
    <3> QED
      BY <1>1, <2>5, <3>1 DEF SetGpu, GpuTypes
  <2>2. CASE Tick
    BY <1>1, <2>2 DEF Tick, GpuTypes
  <2>3. CASE \E m \in Models : BeginRemove(m) \/ Install(m)
    BY <1>1, <2>3 DEF BeginRemove, Install, GpuTypes
  <2>4. CASE \E c \in Cards : Plug(c) \/ UpdateDriver(c)
    BY <1>1, <2>4 DEF Plug, UpdateDriver, GpuTypes
  <2> QED
    BY <2>1, <2>2, <2>3, <2>4, <2>5
<1>4. GpuTypes'
  <2>1. \A f \in cooled : f.boot <= boot /\ f.day <= day'
    BY <1>1, <1>3 DEF GpuTypes, Cooldowns
  <2> QED
    BY <1>1, <1>2, <1>3, <2>1 DEF GpuTypes
<1> QED
  BY <1>1, <1>2, <1>4, FileStays, ChecksStay, StatusStays DEF Grows, GpuInv

\* A model is chosen or removed; the accepted upgrade goes with its model.
LEMMA UserKeeps ==
  ASSUME GpuInv, EndRemove \/ \E m \in Models : Choose(m) PROVE GpuInv'
<1> USE DEF machine, session, files, tasks, status, ghosts
<1>1. GpuTypes /\ FileInv /\ CheckInv /\ StatusInv
  BY DEF GpuInv
<1>2. /\ UNCHANGED <<plugged, driver, build, day, boot, profile, qualifying, enabled, task, view, offer,
                      checked, cooled>>
      /\ ended \subseteq ended'
  BY DEF EndRemove, Choose
<1>3. Grows
  BY <1>2 DEF Grows
<1>4. CASE EndRemove
  <2>1. UNCHANGED active /\ installed' \subseteq installed
    BY <1>4 DEF EndRemove
  <2>2. FileInv'
    <3>1. CASE mem.pending = removing
      <4>1. Update([mem EXCEPT !.pending = None])
        BY <1>4, <3>1 DEF EndRemove
      <4>2. mem \in GoodStores' /\ ended' # {}
        BY <1>1, <1>3, <1>4, <3>1, StoresGrow DEF EndRemove, FileInv, GoodStores, Shapes
      <4>3. [mem EXCEPT !.pending = None] \in GoodStores'
        BY <4>2 DEF GoodStores, Shapes
      <4> QED
        BY <1>1, <1>3, <4>1, <4>3, UpdateKeeps
    <3>2. CASE mem.pending # removing
      BY <1>1, <1>3, <1>4, <3>2, FileStays DEF EndRemove
    <3> QED
      BY <3>1, <3>2
  <2>3. GpuTypes'
    BY <1>1, <1>2, <2>1 DEF GpuTypes
  <2> QED
    BY <1>1, <1>2, <1>3, <2>1, <2>2, <2>3, ChecksStay, StatusStays DEF GpuInv
<1>5. ASSUME NEW m \in Models, Choose(m) PROVE GpuInv'
  <2>1. UNCHANGED <<mem, disk, installed>> /\ active' = m /\ (m = Accepted => ended' # {})
    BY <1>5 DEF Choose
  <2>2. CheckInv'
    BY <1>1, <1>2, <2>1 DEF CheckInv
  <2>3. GpuTypes'
    BY <1>1, <1>2, <2>1 DEF GpuTypes
  <2> QED
    BY <1>1, <1>2, <1>3, <2>1, <2>2, <2>3, FileStays, StatusStays DEF GpuInv
<1> QED
  BY <1>4, <1>5

\* A restart reads the disk, and nothing is under way.
LEMMA RestartKeeps == ASSUME GpuInv, Restart PROVE GpuInv'
<1>1. GpuTypes /\ FileInv /\ CheckInv /\ StatusInv
  BY DEF GpuInv
<1>2. /\ UNCHANGED <<disk, plugged, driver, day, active, enabled, installed, checked, cooled, ended>>
      /\ mem' = disk /\ profile' = None /\ qualifying' = None /\ task' = NoTasks /\ view' = NoView
      /\ offer' = None /\ boot' = boot + 1 /\ build' \in {build, build + 1}
  BY DEF Restart, files, ghosts
<1>3. FileInv'
  BY <1>1, <1>2, StoresGrow DEF FileInv, Grows
<1>4. task' \in [Checkers -> Tasks] /\ \A c \in Checkers : task'[c].at = "idle"
  BY <1>2 DEF NoTasks, Resting, Tasks
<1>5. view' \in Views /\ view'.at = "idle"
  BY <1>2 DEF NoView, Views
<1>6. \A f \in cooled : f.boot <= boot' /\ f.day <= day
  BY <1>1, <1>2 DEF GpuTypes, Cooldowns
<1>7. GpuTypes'
  BY <1>1, <1>2, <1>4, <1>5, <1>6 DEF GpuTypes
<1>8. CheckInv'
  BY <1>1, <1>2, <1>4 DEF CheckInv, Checkers
<1>9. StatusInv'
  BY <1>2, <1>5 DEF StatusInv, OfferFollowsACheck
<1> QED
  BY <1>3, <1>7, <1>8, <1>9 DEF GpuInv

-----------------------------------------------------------------------------
(* The failures. *)

\* A failure is kept with those of the week, once for each start; with one of an
\* earlier start it disables the driver, and both are among the cooldowns.
LEMMA FailsKeeps == ASSUME GpuInv, GpuFails PROVE GpuInv'
<1> DEFINE now == [key |-> DriverKey, boot |-> boot, day |-> day]
           fresh == {f \in mem.failures : ~ Old(f.day)}
           ours == {f \in fresh : f.key = DriverKey}
           struck == IF \E f \in ours : f.boot = boot THEN ours ELSE ours \cup {now}
           ban == [key |-> DriverKey, day |-> day, build |-> build]
           banned == [mem EXCEPT !.failures = fresh \ ours,
                        !.disables = {d \in mem.disables : d.key # DriverKey} \cup {ban}]
           listed == [mem EXCEPT !.failures = fresh \cup struck]
<1>1. GpuTypes /\ FileInv /\ CheckInv /\ StatusInv
  BY DEF GpuInv
<1>2. /\ UNCHANGED <<plugged, driver, build, day, boot, profile, active, enabled, installed, qualifying,
                      task, view, offer, checked, ended>>
      /\ cooled' = cooled \cup {now} /\ Carded /\ Update(Struck)
  BY DEF GpuFails, machine, files, tasks, status
<1>3. now \in Cooldowns /\ ban \in Disables /\ Grows
  <2>1. DriverKey \in Drivers
    BY <1>1, <1>2 DEF GpuTypes, Carded, DriverKey, Drivers
  <2> QED
    BY <1>1, <1>2, <2>1 DEF GpuTypes, Cooldowns, Disables, Grows
<1>4. Struck = IF Cardinality(struck) >= 2 THEN banned ELSE listed
  BY DEF Struck
<1>5. /\ mem \in GoodStores' /\ mem.failures \subseteq cooled /\ IsFiniteSet(mem.failures)
      /\ OnceAStart(mem.failures) /\ cooled \subseteq Cooldowns
      /\ \A f \in cooled : f.boot <= boot /\ f.day <= day
  BY <1>1, <1>3, StoresGrow DEF FileInv, GoodStores, Shapes, GpuTypes
<1>6. /\ IsFiniteSet(fresh) /\ IsFiniteSet(struck) /\ struck \subseteq ours \cup {now}
      /\ IsFiniteSet(fresh \ ours) /\ IsFiniteSet(fresh \cup struck)
  <2>1. IsFiniteSet(fresh) /\ IsFiniteSet(ours) /\ IsFiniteSet(fresh \ ours)
    BY <1>5, FS_Subset
  <2>2. IsFiniteSet(ours \cup {now})
    BY <2>1, FS_AddElement
  <2>3. IsFiniteSet(struck)
    BY <2>1, <2>2
  <2>4. IsFiniteSet(fresh \cup struck)
    BY <2>1, <2>3, FS_Union
  <2> QED
    BY <2>1, <2>3, <2>4
<1>7. OnceAStart(fresh \cup struck)
  <2> SUFFICES ASSUME NEW f \in fresh \cup struck, NEW g \in fresh \cup struck,
                      f.key = g.key, f.boot = g.boot
               PROVE  f = g
    BY DEF OnceAStart
  <2>1. CASE f \in fresh /\ g \in fresh
    BY <1>5, <2>1 DEF OnceAStart
  <2>2. CASE f \notin fresh
    <3>1. f = now /\ ~ \E h \in ours : h.boot = boot
      BY <2>2
    <3>2. g \notin ours
      BY <3>1
    <3>3. g \notin fresh
      BY <3>1, <3>2
    <3> QED
      BY <3>1, <3>3
  <2>3. CASE g \notin fresh
    <3>1. g = now /\ ~ \E h \in ours : h.boot = boot
      BY <2>3
    <3>2. f \notin ours
      BY <3>1
    <3>3. f \notin fresh
      BY <3>1, <3>2
    <3> QED
      BY <3>1, <3>3
  <2> QED
    BY <2>1, <2>2, <2>3
<1>8. listed \in GoodStores'
  <2>1. fresh \cup struck \subseteq cooled'
    BY <1>2, <1>5, <1>6
  <2> HIDE DEF struck, fresh
  <2> QED
    BY <1>2, <1>5, <1>6, <1>7, <2>1 DEF GoodStores, Shapes
<1>9. ASSUME Cardinality(struck) >= 2 PROVE banned \in GoodStores'
  <2>1. PICK x \in struck : x.boot # boot
    <3> SUFFICES ASSUME \A f \in struck : f.boot = boot PROVE FALSE
      OBVIOUS
    <3>1. PICK x \in struck : TRUE
      BY <1>9, FS_EmptySet
    <3>2. ASSUME NEW f \in struck PROVE f = x
      BY <1>7, <3>1 DEF OnceAStart
    <3>3. struck = {x}
      BY <3>1, <3>2
    <3> HIDE DEF struck
    <3>4. Cardinality({x}) = 1
      BY FS_Singleton
    <3> QED
      BY <1>9, <3>3, <3>4
  <2>2. x \in ours /\ x \in cooled
    BY <1>5, <1>6, <2>1
  <2>3. x.boot < boot /\ day - x.day < Ttl /\ x.key = DriverKey
    <3>1. x.boot \in Nat /\ x.day \in Nat /\ x.boot <= boot /\ ~ Old(x.day) /\ x.key = DriverKey
      BY <1>5, <2>2 DEF Cooldowns
    <3> QED
      BY <1>1, <2>1, <3>1, RetryAssumption DEF Old, GpuTypes
  <2>4. ban \in GoodDisables'
    <3>1. now \in cooled' /\ x \in cooled'
      BY <1>2, <2>2
    <3> QED
      BY <1>3, <2>3, <3>1 DEF GoodDisables, TwoSessions
  <2>5. OnceAStart(fresh \ ours) /\ fresh \ ours \subseteq cooled'
    BY <1>2, <1>5 DEF OnceAStart
  <2>6. {d \in mem.disables : d.key # DriverKey} \cup {ban} \subseteq GoodDisables'
    BY <1>5, <2>4 DEF GoodStores, Shapes
  <2> HIDE DEF fresh, ours, ban
  <2> QED
    BY <1>5, <1>6, <2>5, <2>6 DEF GoodStores, Shapes
<1>10. FileInv'
  <2>1. Struck \in GoodStores'
    <3> HIDE DEF banned, listed, struck
    <3> QED
      BY <1>4, <1>8, <1>9
  <2> QED
    BY <1>1, <1>2, <1>3, <2>1, UpdateKeeps
<1>11. GpuTypes'
  <2>1. cooled' \subseteq Cooldowns /\ \A f \in cooled' : f.boot <= boot /\ f.day <= day
    BY <1>1, <1>2, <1>3 DEF GpuTypes
  <2> QED
    BY <1>1, <1>2, <2>1 DEF GpuTypes
<1> QED
  BY <1>1, <1>2, <1>3, <1>10, <1>11, ChecksStay, StatusStays DEF GpuInv

-----------------------------------------------------------------------------
(* The checks. *)

\* A checker goes on: where the others stand is untouched.
LEMMA GotoGoes ==
  ASSUME GpuTypes, NEW c \in Checkers, NEW s \in {"idle", "switch", "clear", "check"}, Goto(c, s)
  PROVE  /\ task' \in [Checkers -> Tasks]
         /\ task'[c].at = s /\ \A d \in Checkers \ {c} : task'[d] = task[d]
         /\ s # "idle" => task'[c].model = task[c].model
<1>1. task \in [Checkers -> Tasks] /\ task[c] \in Tasks
  BY DEF GpuTypes
<1>2. Resting \in Tasks /\ Resting.at = "idle"
  BY DEF Resting, Tasks
<1> DEFINE next == IF s = "idle" THEN Resting ELSE [task[c] EXCEPT !.at = s, !.found = None]
<1>3. next \in Tasks /\ next.at = s /\ (s # "idle" => next.model = task[c].model)
  BY <1>1, <1>2 DEF Tasks
<1>4. task' = [task EXCEPT ![c] = next]
  BY DEF Goto
<1> HIDE DEF next
<1> QED
  BY <1>1, <1>3, <1>4

\* A dictation, a start or a caller asks for a check.
LEMMA QueueKeeps ==
  ASSUME GpuInv, NEW c \in Checkers, NEW m \in Models, Stands(c, "idle"), Queue(c, m),
         c \in Callers => m = Accepted,
         UNCHANGED <<qualifying, active, ended, checked, cooled>>
  PROVE  task' \in [Checkers -> Tasks] /\ CheckInv'
<1>1. GpuTypes /\ CheckInv /\ task \in [Checkers -> Tasks]
  BY DEF GpuInv, GpuTypes
<1> DEFINE next == [Resting EXCEPT !.at = "ask", !.model = m]
<1>2. next \in Tasks /\ next.at = "ask" /\ next.model = m
  BY DEF Resting, Tasks
<1>3. task' = [task EXCEPT ![c] = next]
  BY DEF Queue
<1> HIDE DEF next
<1>4. task' \in [Checkers -> Tasks] /\ task'[c] = next /\ \A d \in Checkers \ {c} : task'[d] = task[d]
  BY <1>1, <1>2, <1>3
<1> QED
  BY <1>1, <1>2, <1>4, NameAssumption DEF CheckInv, Checkers

\* A dictation or a start asks for a check of the chosen model.
LEMMA WantsKeeps == ASSUME GpuInv, WantsCheck PROVE GpuInv'
<1>1. GpuTypes /\ FileInv /\ CheckInv /\ StatusInv
  BY DEF GpuInv
<1>2. /\ UNCHANGED <<mem, disk, plugged, driver, build, day, boot, profile, active, enabled, installed,
                      qualifying, view, offer, checked, cooled, ended>>
      /\ Stands(Dictation, "idle") /\ Queue(Dictation, active)
  BY DEF WantsCheck, machine, session, files, status, ghosts
<1>3. task' \in [Checkers -> Tasks] /\ CheckInv'
  <2>1. Dictation \in Checkers /\ Dictation \notin Callers /\ active \in Models
    BY <1>1, NameAssumption DEF Checkers, GpuTypes
  <2> QED
    BY <1>2, <2>1, QueueKeeps
<1>4. GpuTypes'
  BY <1>1, <1>2, <1>3 DEF GpuTypes
<1> QED
  BY <1>1, <1>2, <1>3, <1>4, FileStays, StatusStays DEF GpuInv, Grows

\* A caller finds the accepted upgrade chosen, or asks for its check.
LEMMA FinishKeeps == ASSUME GpuInv, NEW c \in Callers, FinishUpgrade(c) PROVE GpuInv'
<1>1. GpuTypes /\ FileInv /\ CheckInv /\ StatusInv /\ c \in Checkers
  BY DEF GpuInv, Checkers
<1>2. /\ UNCHANGED <<plugged, driver, build, day, boot, profile, active, enabled, installed,
                      qualifying, view, offer, checked, cooled, ended>>
      /\ Stands(c, "idle") /\ mem.pending # None
  BY DEF FinishUpgrade, machine, session, files, status, ghosts
<1>3. mem.pending = Accepted /\ Grows
  BY <1>1, <1>2 DEF FileInv, GoodStores, Shapes, Grows
<1>4. CASE active = mem.pending /\ Update([mem EXCEPT !.pending = None]) /\ UNCHANGED task
  <2>1. ended # {} /\ mem \in GoodStores' /\ ended' = ended
    BY <1>1, <1>2, <1>3, <1>4, StoresGrow DEF CheckInv, FileInv
  <2>2. [mem EXCEPT !.pending = None] \in GoodStores'
    BY <2>1 DEF GoodStores, Shapes
  <2>3. FileInv'
    BY <1>1, <1>3, <1>4, <2>2, UpdateKeeps
  <2>4. GpuTypes'
    BY <1>1, <1>2, <1>4 DEF GpuTypes
  <2> QED
    BY <1>1, <1>2, <1>3, <1>4, <2>3, <2>4, ChecksStay, StatusStays DEF GpuInv
<1>5. CASE mem.pending \in installed /\ Queue(c, mem.pending) /\ UNCHANGED <<mem, disk>>
  <2>1. mem.pending \in Models
    BY <1>1, <1>5 DEF GpuTypes
  <2>2. task' \in [Checkers -> Tasks] /\ CheckInv'
    BY <1>1, <1>2, <1>3, <1>5, <2>1, QueueKeeps
  <2>3. GpuTypes'
    BY <1>1, <1>2, <2>2 DEF GpuTypes
  <2> QED
    BY <1>1, <1>2, <1>3, <1>5, <2>2, <2>3, FileStays, StatusStays DEF GpuInv
<1> QED
  BY <1>4, <1>5 DEF FinishUpgrade

\* A check is refused, answered from the file, put off, or made with the mark.
LEMMA BeginKeeps == ASSUME GpuInv, NEW c \in Checkers, BeginCheck(c) PROVE GpuInv'
<1> DEFINE k == Key(task[c].model)
<1>1. GpuTypes /\ FileInv /\ CheckInv /\ StatusInv
  BY DEF GpuInv
<1>2. /\ UNCHANGED <<mem, disk, plugged, driver, build, day, boot, profile, active, enabled, installed,
                      view, offer, checked, cooled, ended>>
      /\ task[c].at = "ask" /\ Grows
  BY DEF BeginCheck, machine, files, status, ghosts, Stands, Grows
<1>3. task[c].model \in Models /\ (c \in Callers => task[c].model = Accepted)
  BY <1>1, <1>2 DEF CheckInv
<1>4. CASE Goto(c, "idle") /\ UNCHANGED qualifying
  <2>1. /\ task' \in [Checkers -> Tasks]
        /\ task'[c].at = "idle" /\ \A d \in Checkers \ {c} : task'[d] = task[d]
    BY <1>1, <1>4, GotoGoes
  <2>2. CheckInv'
    BY <1>1, <1>2, <1>4, <2>1, NameAssumption DEF CheckInv, Checkers
  <2>3. GpuTypes'
    BY <1>1, <1>2, <1>4, <2>1 DEF GpuTypes
  <2> QED
    BY <1>1, <1>2, <2>2, <2>3, FileStays, StatusStays DEF GpuInv
<1>5. CASE Carded /\ Cached(k) # None /\ Goto(c, After(c, Cached(k))) /\ UNCHANGED qualifying
  <2> DEFINE s == After(c, Cached(k))
  <2>1. s \in {"idle", "switch", "clear"} /\ (c \notin Callers => s = "idle")
    BY DEF After
  <2>2. s = "clear" => ended # {}
    <3>1. s = "clear" => c \in Callers /\ Cached(k) = "failed"
      BY DEF After
    <3>2. k.model = task[c].model
      BY <1>1, <1>3, <1>5, KeyOfModel
    <3>3. Cached(k) = "failed" /\ k.model = Accepted => ended # {}
      BY <1>1, <1>5, OutcomesAreRecords
    <3> QED
      BY <1>3, <3>1, <3>2, <3>3
  <2> HIDE DEF s
  <2>3. /\ task' \in [Checkers -> Tasks]
        /\ task'[c].at = s /\ \A d \in Checkers \ {c} : task'[d] = task[d]
        /\ s # "idle" => task'[c].model = task[c].model
    BY <1>1, <1>5, <2>1, GotoGoes DEF s
  <2>4. CheckInv'
    BY <1>1, <1>2, <1>3, <1>5, <2>1, <2>2, <2>3, NameAssumption DEF CheckInv, Checkers
  <2>5. GpuTypes'
    BY <1>1, <1>2, <1>5, <2>3 DEF GpuTypes
  <2> QED
    BY <1>1, <1>2, <2>4, <2>5, FileStays, StatusStays DEF GpuInv
<1>6. CASE Carded /\ qualifying = None /\ qualifying' = k /\ Goto(c, "check")
  <2>1. k \in Keys /\ k.model = task[c].model /\ k # None
    BY <1>1, <1>3, <1>6, KeyOfModel
  <2>2. /\ task' \in [Checkers -> Tasks]
        /\ task'[c].at = "check" /\ \A d \in Checkers \ {c} : task'[d] = task[d]
        /\ task'[c].model = task[c].model
    BY <1>1, <1>6, GotoGoes
  <2>3. CheckInv'
    BY <1>1, <1>2, <1>3, <1>6, <2>1, <2>2, NameAssumption DEF CheckInv, Checkers
  <2>4. GpuTypes'
    BY <1>1, <1>2, <1>6, <2>1, <2>2 DEF GpuTypes
  <2> QED
    BY <1>1, <1>2, <2>3, <2>4, FileStays, StatusStays DEF GpuInv
<1> QED
  BY <1>4, <1>5, <1>6 DEF BeginCheck

\* A record of a check that was made joins the others; the oldest may go.
LEMMA RecordedGoes ==
  ASSUME NEW S, NEW quals \in Seq(S), NEW r \in S PROVE Recorded(quals, r) \in Seq(S)
<1> DEFINE all == Append(quals, r)
<1>1. all \in Seq(S) /\ all # <<>>
  BY AppendProperties
<1>2. Tail(all) \in Seq(S)
  BY <1>1, HeadTailProperties
<1> QED
  BY <1>1, <1>2 DEF Recorded

\* The check is recorded under its mark, for the model of whoever asked for it.
LEMMA RecordKeeps == ASSUME GpuInv, NEW c \in Checkers, RecordCheck(c) PROVE GpuInv'
<1>1. GpuTypes /\ FileInv /\ CheckInv /\ StatusInv
  BY DEF GpuInv
<1>2. /\ UNCHANGED <<plugged, driver, build, day, boot, profile, active, enabled, installed, qualifying,
                      view, offer, cooled>>
      /\ task[c].at = "check" /\ checked' = checked \cup {qualifying}
  BY DEF RecordCheck, machine, session, files, status, Stands
<1>3. PICK told \in Outcomes, counted \in BOOLEAN :
        /\ Update([mem EXCEPT !.quals =
             Recorded(mem.quals, [key |-> qualifying, outcome |-> told, counted |-> counted])])
        /\ task' = [task EXCEPT ![c].at = "noted", ![c].found = told]
        /\ ended' = IF told = "failed" /\ task[c].model = Accepted THEN ended \cup {"failed"} ELSE ended
  <2>1. PICK verdict \in {"passed", "failed", "retry", "inconclusive"} :
          LET told == OutcomeOf(qualifying, verdict) IN
            /\ Update([mem EXCEPT !.quals =
                 Recorded(@, [key |-> qualifying, outcome |-> told,
                              counted |-> told = "retry" /\ verdict = "retry"])])
            /\ task' = [task EXCEPT ![c].at = "noted", ![c].found = told]
            /\ ended' = IF told = "failed" /\ task[c].model = Accepted
                        THEN ended \cup {"failed"} ELSE ended
    BY DEF RecordCheck
  <2> DEFINE told == OutcomeOf(qualifying, verdict)
             counted == told = "retry" /\ verdict = "retry"
  <2>2. told \in Outcomes
    BY DEF OutcomeOf, Outcomes
  <2>3. counted \in BOOLEAN
    OBVIOUS
  <2>4. /\ Update([mem EXCEPT !.quals =
             Recorded(mem.quals, [key |-> qualifying, outcome |-> told, counted |-> counted])])
        /\ task' = [task EXCEPT ![c].at = "noted", ![c].found = told]
        /\ ended' = IF told = "failed" /\ task[c].model = Accepted THEN ended \cup {"failed"} ELSE ended
    BY <2>1
  <2> HIDE DEF told, counted
  <2> QED
    BY <2>2, <2>3, <2>4
<1>4. Grows
  BY <1>2, <1>3 DEF Grows
<1>5. qualifying \in Keys /\ qualifying.model = task[c].model
  BY <1>1, <1>2 DEF GpuTypes, CheckInv
<1>6. FileInv'
  <2> DEFINE r == [key |-> qualifying, outcome |-> told, counted |-> counted]
             quals == Recorded(mem.quals, r)
  <2>1. r \in GoodRecords'
    <3>1. r \in Records /\ r.key \in checked'
      BY <1>2, <1>5 DEF Records
    <3>2. r.outcome = "failed" /\ r.key.model = Accepted => ended' # {}
      BY <1>3, <1>5
    <3> QED
      BY <3>1, <3>2 DEF GoodRecords
  <2>2. mem \in GoodStores' /\ mem.quals \in Seq(GoodRecords')
    BY <1>1, <1>4, StoresGrow DEF FileInv, GoodStores, Shapes
  <2> HIDE DEF r
  <2>3. quals \in Seq(GoodRecords')
    BY <2>1, <2>2, RecordedGoes
  <2> HIDE DEF quals
  <2>4. [mem EXCEPT !.quals = quals] \in GoodStores'
    BY <2>2, <2>3 DEF GoodStores, Shapes
  <2>5. Update([mem EXCEPT !.quals = quals])
    BY <1>3 DEF quals, r
  <2> QED
    BY <1>1, <1>4, <2>4, <2>5, UpdateKeeps
<1>7. /\ task' \in [Checkers -> Tasks] /\ \A d \in Checkers \ {c} : task'[d] = task[d]
      /\ task'[c].at = "noted" /\ task'[c].model = task[c].model /\ task'[c].found = told
  <2>1. task \in [Checkers -> Tasks]
    BY <1>1 DEF GpuTypes
  <2> QED
    BY <1>3, <2>1 DEF Tasks
<1>8. CheckInv'
  <2>1. task[c].model = Accepted /\ told = "failed" => ended' # {}
    BY <1>3
  <2> QED
    BY <1>1, <1>2, <1>4, <1>7, <2>1, NameAssumption DEF CheckInv, Checkers, Grows
<1>9. GpuTypes'
  BY <1>1, <1>2, <1>7 DEF GpuTypes
<1> QED
  BY <1>1, <1>2, <1>4, <1>6, <1>8, <1>9, StatusStays DEF GpuInv

\* The check's end is told: the mark goes, and an upgrade switches, gives up or waits.
LEMMA EndKeeps == ASSUME GpuInv, NEW c \in Checkers, EndCheck(c) PROVE GpuInv'
<1> DEFINE s == After(c, task[c].found)
<1>1. GpuTypes /\ FileInv /\ CheckInv /\ StatusInv
  BY DEF GpuInv
<1>2. /\ UNCHANGED <<mem, disk, plugged, driver, build, day, boot, profile, active, enabled, installed,
                      view, offer, checked, cooled, ended>>
      /\ task[c].at = "noted" /\ qualifying' = None /\ Goto(c, s) /\ Grows
  BY DEF EndCheck, machine, files, status, ghosts, Stands, Grows
<1>3. s \in {"idle", "switch", "clear"} /\ (c \notin Callers => s = "idle")
  BY DEF After
<1>4. s = "clear" => ended # {}
  <2>1. s = "clear" => c \in Callers /\ task[c].found = "failed"
    BY DEF After
  <2> QED
    BY <1>1, <1>2, <2>1 DEF CheckInv
<1> HIDE DEF s
<1>5. /\ task' \in [Checkers -> Tasks]
      /\ task'[c].at = s /\ \A d \in Checkers \ {c} : task'[d] = task[d]
      /\ s # "idle" => task'[c].model = task[c].model
  BY <1>1, <1>2, <1>3, GotoGoes
<1>6. CheckInv'
  <2>1. \A d \in Checkers : task'[d].at \notin {"check", "noted"}
    BY <1>1, <1>2, <1>3, <1>5 DEF CheckInv
  <2> QED
    BY <1>1, <1>2, <1>3, <1>4, <1>5, <2>1, NameAssumption DEF CheckInv, Checkers
<1>7. GpuTypes'
  BY <1>1, <1>2, <1>5 DEF GpuTypes
<1> QED
  BY <1>1, <1>2, <1>6, <1>7, FileStays, StatusStays DEF GpuInv

\* The settings have the upgrade, or do not.
LEMMA SwitchKeeps == ASSUME GpuInv, NEW c \in Callers, Switch(c) PROVE GpuInv'
<1>1. GpuTypes /\ FileInv /\ CheckInv /\ StatusInv /\ c \in Checkers
  BY DEF GpuInv, Checkers
<1>2. /\ UNCHANGED <<mem, disk, plugged, driver, build, day, boot, profile, enabled, installed,
                      qualifying, view, offer, checked, cooled>>
      /\ task[c].at = "switch" /\ task[c].model = Accepted
  BY <1>1 DEF Switch, machine, session, status, Stands, CheckInv
<1>3. PICK s \in {"idle", "clear"} :
        /\ Goto(c, s)
        /\ \/ s = "clear" /\ active' = Accepted /\ ended' = ended \cup {"chosen"}
           \/ s = "idle" /\ UNCHANGED <<active, ended>>
  BY <1>2 DEF Switch
<1>4. /\ task' \in [Checkers -> Tasks]
      /\ task'[c].at = s /\ \A d \in Checkers \ {c} : task'[d] = task[d]
      /\ s # "idle" => task'[c].model = task[c].model
  BY <1>1, <1>3, GotoGoes
<1>5. Grows /\ active' \in Models /\ (active' = Accepted => ended' # {}) /\ (s = "clear" => ended' # {})
  <2>1. Accepted \in Models
    BY <1>1, <1>2 DEF CheckInv
  <2> QED
    BY <1>1, <1>2, <1>3, <2>1 DEF Grows, GpuTypes, CheckInv
<1>6. CheckInv'
  BY <1>1, <1>2, <1>4, <1>5, NameAssumption DEF CheckInv, Checkers, Grows
<1>7. GpuTypes'
  BY <1>1, <1>2, <1>4, <1>5 DEF GpuTypes
<1> QED
  BY <1>1, <1>2, <1>5, <1>6, <1>7, FileStays, StatusStays DEF GpuInv

\* The accepted upgrade is over, and goes.
LEMMA ClearKeeps == ASSUME GpuInv, NEW c \in Callers, Clear(c) PROVE GpuInv'
<1>1. GpuTypes /\ FileInv /\ CheckInv /\ StatusInv /\ c \in Checkers
  BY DEF GpuInv, Checkers
<1>2. /\ UNCHANGED <<plugged, driver, build, day, boot, profile, active, enabled, installed,
                      qualifying, view, offer, checked, cooled, ended>>
      /\ task[c].at = "clear" /\ Update([mem EXCEPT !.pending = None]) /\ Goto(c, "idle") /\ Grows
  BY DEF Clear, machine, session, files, status, ghosts, Stands, Grows
<1>3. FileInv'
  <2>1. ended' # {} /\ mem \in GoodStores'
    BY <1>1, <1>2, StoresGrow DEF CheckInv, FileInv
  <2>2. [mem EXCEPT !.pending = None] \in GoodStores'
    BY <2>1 DEF GoodStores, Shapes
  <2> QED
    BY <1>1, <1>2, <2>2, UpdateKeeps
<1>4. /\ task' \in [Checkers -> Tasks]
      /\ task'[c].at = "idle" /\ \A d \in Checkers \ {c} : task'[d] = task[d]
  BY <1>1, <1>2, GotoGoes
<1>5. CheckInv'
  BY <1>1, <1>2, <1>4, NameAssumption DEF CheckInv, Checkers
<1>6. GpuTypes'
  BY <1>1, <1>2, <1>4 DEF GpuTypes
<1> QED
  BY <1>1, <1>2, <1>3, <1>5, <1>6, StatusStays DEF GpuInv

-----------------------------------------------------------------------------
(* The status. *)

\* The reads of the status, one after another: what it has of the newest record
\* is a check's, of the card that the session still has.
LEMMA ReadsKeep ==
  ASSUME GpuInv, ReadSettings \/ ReadRecord \/ ReadMark \/ ReadRung PROVE GpuInv'
<1>1. GpuTypes /\ FileInv /\ CheckInv /\ StatusInv
  BY DEF GpuInv
<1>2. /\ UNCHANGED <<mem, disk, plugged, driver, build, day, boot, profile, active, enabled, installed,
                      qualifying, task, offer, checked, cooled, ended>>
      /\ Grows
  BY DEF ReadSettings, ReadRecord, ReadMark, ReadRung, machine, session, files, tasks, ghosts, Grows
<1>3. /\ view' \in Views /\ (view'.at # "idle" => profile # None)
      /\ view'.at \in {"mark", "rung", "tell"} /\ view'.latest # None =>
           Carded /\ Key(view'.model) \in checked
  <2>1. CASE ReadSettings
    <3> DEFINE pending == IF mem.pending \in installed THEN mem.pending ELSE None
    <3>1. pending \in Models \cup {None} /\ active \in Models /\ enabled \in BOOLEAN
      BY <1>1 DEF GpuTypes
    <3>2. /\ profile # None
          /\ view' = [NoView EXCEPT !.at = "latest", !.model = active, !.gpu = enabled,
                                    !.pending = pending]
      BY <2>1 DEF ReadSettings
    <3> HIDE DEF pending
    <3> QED
      BY <3>1, <3>2 DEF NoView, Views
  <2>2. CASE ReadRecord
    <3> DEFINE latest == IF Carded THEN Latest(Key(view.model)) ELSE None
    <3>1. latest \in Outcomes \cup {None} /\ (latest # None => Carded /\ Key(view.model) \in checked)
      BY <1>1, OutcomesAreRecords
    <3>2. view.at = "latest" /\ view' = [view EXCEPT !.at = "mark", !.latest = latest]
      BY <2>2 DEF ReadRecord
    <3>3. view \in Views /\ profile # None
      BY <1>1, <3>2 DEF GpuTypes, StatusInv
    <3> HIDE DEF latest
    <3> QED
      BY <3>1, <3>2, <3>3 DEF Views
  <2>3. CASE ReadMark
    <3> DEFINE marked == Marked(view.model)
    <3>1. marked \in BOOLEAN
      BY DEF Marked
    <3>2. view.at = "mark" /\ view' = [view EXCEPT !.at = "rung", !.preparing = marked]
      BY <2>3 DEF ReadMark
    <3> HIDE DEF marked
    <3> QED
      BY <1>1, <3>1, <3>2 DEF GpuTypes, StatusInv, Views
  <2>4. CASE ReadRung
    <3> DEFINE marked == view.preparing \/ (view.pending # None /\ Marked(view.pending))
               rung == Rung(view.model)
    <3>1. marked \in BOOLEAN /\ rung \in {"gpu", "cpu"}
      BY DEF Rung
    <3>2. view.at = "rung" /\ view' = [view EXCEPT !.at = "tell", !.rung = rung, !.preparing = marked]
      BY <2>4 DEF ReadRung
    <3> HIDE DEF marked, rung
    <3> QED
      BY <1>1, <3>1, <3>2 DEF GpuTypes, StatusInv, Views
  <2> QED
    BY <2>1, <2>2, <2>3, <2>4
<1>4. GpuTypes'
  BY <1>1, <1>2, <1>3 DEF GpuTypes
<1>5. StatusInv'
  BY <1>1, <1>2, <1>3 DEF StatusInv, OfferFollowsACheck, Carded, Key
<1> QED
  BY <1>1, <1>2, <1>4, <1>5, FileStays, ChecksStay DEF GpuInv

\* The offer: a model that is stuck without a due check was checked, where the
\* card may be used.
LEMMA TellKeeps == ASSUME GpuInv, TellStatus PROVE GpuInv'
<1>1. GpuTypes /\ FileInv /\ CheckInv /\ StatusInv
  BY DEF GpuInv
<1>2. /\ UNCHANGED <<mem, disk, plugged, driver, build, day, boot, profile, active, enabled, installed,
                      qualifying, task, checked, cooled, ended>>
      /\ view.at = "tell" /\ view' = NoView /\ Grows
  BY DEF TellStatus, machine, session, files, tasks, ghosts, Grows
<1>3. offer' # None => offer'.key = None \/ ~ offer'.gpu \/ offer'.disabled \/ offer'.key \in checked
  <2> SUFFICES ASSUME offer' # None, offer'.key # None, offer'.gpu, ~ offer'.disabled
               PROVE  offer'.key \in checked
    OBVIOUS
  <2> DEFINE due == view.gpu /\ Carded /\ ~ DriverDisabled /\ view.latest = None
  <2>1. /\ ~ due
        /\ offer' = [key |-> IF Carded THEN Key(view.model) ELSE None,
                     gpu |-> view.gpu, disabled |-> Carded /\ DriverDisabled]
    BY DEF TellStatus
  <2> HIDE DEF due
  <2>2. view.gpu /\ ~ (Carded /\ DriverDisabled) /\ Carded /\ offer'.key = Key(view.model)
    BY <2>1
  <2>3. view.latest # None
    BY <2>1, <2>2 DEF due
  <2> QED
    BY <1>1, <1>2, <2>2, <2>3 DEF StatusInv
<1>4. view' \in Views /\ view'.at = "idle"
  BY <1>2 DEF NoView, Views
<1>5. GpuTypes'
  BY <1>1, <1>2, <1>4 DEF GpuTypes
<1>6. StatusInv'
  BY <1>2, <1>3, <1>4 DEF StatusInv, OfferFollowsACheck
<1> QED
  BY <1>1, <1>2, <1>5, <1>6, FileStays, ChecksStay DEF GpuInv

-----------------------------------------------------------------------------
(* The theorems. *)

\* The first start has no records, and perhaps an upgrade that was accepted.
LEMMA GpuStarts == ASSUME GpuInit PROVE GpuInv
<1> USE DEF GpuInit
<1>1. task \in [Checkers -> Tasks] /\ \A c \in Checkers : task[c].at = "idle"
  BY DEF NoTasks, Resting, Tasks
<1>2. view \in Views /\ view.at = "idle"
  BY DEF NoView, Views
<1>3. mem.pending \in {None, Accepted} /\ (mem.pending = None => ended # {})
  BY DEF NoStore
<1>4. mem \in GoodStores
  <2>1. <<>> \in Seq(GoodRecords) /\ IsFiniteSet({}) /\ OnceAStart({})
    BY EmptySeq, FS_EmptySet DEF OnceAStart
  <2>2. mem = [NoStore EXCEPT !.pending = mem.pending]
    BY DEF NoStore
  <2> QED
    BY <1>3, <2>1, <2>2 DEF GoodStores, Shapes, NoStore
<1>5. GpuTypes
  BY <1>1, <1>2 DEF GpuTypes
<1>6. active = Accepted => ended # {}
  BY <1>3
<1>7. CheckInv
  BY <1>1, <1>6 DEF CheckInv, Checkers
<1>8. StatusInv
  BY <1>2 DEF StatusInv, OfferFollowsACheck
<1> QED
  BY <1>4, <1>5, <1>7, <1>8 DEF GpuInv, FileInv

\* Every step keeps the invariant.
LEMMA GpuStep == ASSUME GpuInv, [GpuNext]_gpuVars PROVE GpuInv'
<1>1. CASE Detect \/ GpuFails
  BY <1>1, DetectKeeps, FailsKeeps
<1>2. CASE Cools \/ SetGpu \/ Tick \/ (\E c \in Cards : Plug(c) \/ UpdateDriver(c)) \/ UNCHANGED gpuVars
  BY <1>2, AsideKeeps
<1>3. CASE WantsCheck \/ \E c \in Callers : FinishUpgrade(c) \/ Switch(c) \/ Clear(c)
  BY <1>3, WantsKeeps, FinishKeeps, SwitchKeeps, ClearKeeps
<1>4. CASE \E c \in Checkers : BeginCheck(c) \/ RecordCheck(c) \/ EndCheck(c)
  BY <1>4, BeginKeeps, RecordKeeps, EndKeeps
<1>5. CASE EndRemove \/ \E m \in Models : Choose(m) \/ BeginRemove(m) \/ Install(m)
  BY <1>5, UserKeeps, AsideKeeps
<1>6. CASE ReadSettings \/ ReadRecord \/ ReadMark \/ ReadRung \/ TellStatus
  BY <1>6, ReadsKeep, TellKeeps
<1>7. CASE Restart
  BY <1>7, RestartKeeps
<1> QED
  BY <1>1, <1>2, <1>3, <1>4, <1>5, <1>6, <1>7 DEF GpuNext

\* The file, the checks and the status stand as described in every state.
LEMMA GpuAlways == GpuSpec => []GpuInv
<1>1. GpuInit => GpuInv
  BY GpuStarts
<1>2. GpuInv /\ [GpuNext]_gpuVars => GpuInv'
  BY GpuStep
<1> QED
  BY <1>1, <1>2, PTL DEF GpuSpec

\* An accepted upgrade leaves the file only when its model was chosen, failed its
\* check or was removed, whatever is restarted, fails to be saved or is asked twice.
THEOREM UpgradeStays == GpuSpec => []UpgradeIsKept
<1>1. GpuInv => UpgradeIsKept
  BY DEF GpuInv, FileInv, GoodStores, UpgradeIsKept
<1> QED
  BY <1>1, GpuAlways, PTL

\* A driver is disabled only for what two sessions saw within a week.
THEOREM DriversAreForgiven == GpuSpec => []OneBadSessionIsForgiven
<1>1. GpuInv => OneBadSessionIsForgiven
  <2> SUFFICES ASSUME GpuInv, NEW d \in mem.disables \cup disk.disables PROVE TwoSessions(d)
    BY DEF OneBadSessionIsForgiven, TwoSessions
  <2>1. d \in GoodDisables
    BY DEF GpuInv, FileInv, GoodStores, Shapes
  <2> QED
    BY <2>1 DEF GoodDisables
<1> QED
  BY <1>1, GpuAlways, PTL

\* Nobody whose model was never checked on the card is told to take the processor
\* model while the card may be used.
THEOREM OffersFollowChecks == GpuSpec => []OfferFollowsACheck
<1>1. GpuInv => OfferFollowsACheck
  BY DEF GpuInv, StatusInv
<1> QED
  BY <1>1, GpuAlways, PTL

-----------------------------------------------------------------------------
(* The notices. *)

Kinds == {"muted", "low", "restored", "poor", "headset"}
Notice == [kind : Kinds, hour : Nat]
Warnings == {"muted", "low"}

\* NoticesAreSpaced, of any sequence of notices.
Spaced(ns) ==
  \A i, j \in DOMAIN ns :
    i < j =>
      /\ ns[i].kind \in Warnings /\ ns[j].kind \in Warnings => ns[j].hour - ns[i].hour >= Cooldown
      /\ ns[i].kind = "poor" /\ ns[j].kind = "poor" => ns[j].hour - ns[i].hour >= Cooldown
      /\ ~ (ns[i].kind = "headset" /\ ns[j].kind = "headset")

\* Each clock has seen every notice that it stands for.
Clocked(ns, warned, poor, told) ==
  \A i \in DOMAIN ns :
    /\ ns[i].kind \in Warnings => warned # NoHour /\ ns[i].hour <= warned
    /\ ns[i].kind = "poor" => poor # NoHour /\ ns[i].hour <= poor
    /\ ns[i].kind = "headset" => told

NoticeInv ==
  /\ hour \in Nat \ {0} /\ warnedAt \in Nat /\ poorAt \in Nat /\ headsetTold \in BOOLEAN
  /\ notices \in Seq(Notice)
  /\ Clocked(notices, warnedAt, poorAt, headsetTold) /\ Spaced(notices)

\* What a notice of this kind does to a clock.
Sets(tells, last, next) == IF tells THEN Rested(last) /\ next = hour ELSE next = last

\* A notice is told when its clock has rested, and sets the clock.
LEMMA OneMore ==
  ASSUME hour \in Nat \ {0}, NEW ns \in Seq(Notice), NEW kind \in Kinds,
         NEW w \in Nat, NEW p \in Nat, NEW t \in BOOLEAN,
         NEW w2 \in Nat, NEW p2 \in Nat, NEW t2 \in BOOLEAN,
         Clocked(ns, w, p, t), Spaced(ns),
         Sets(kind \in Warnings, w, w2), Sets(kind = "poor", p, p2),
         kind = "headset" => ~ t /\ t2, t => t2
  PROVE  /\ Append(ns, [kind |-> kind, hour |-> hour]) \in Seq(Notice)
         /\ Clocked(Append(ns, [kind |-> kind, hour |-> hour]), w2, p2, t2)
         /\ Spaced(Append(ns, [kind |-> kind, hour |-> hour]))
<1> DEFINE n == [kind |-> kind, hour |-> hour]
           more == Append(ns, n)
<1> USE DEF Sets
<1>1. n \in Notice /\ n.kind = kind /\ n.hour = hour
  BY DEF Notice
<1> HIDE DEF n
<1>2. /\ more \in Seq(Notice) /\ DOMAIN more = 1 .. Len(ns) + 1 /\ DOMAIN ns = 1 .. Len(ns)
      /\ \A i \in DOMAIN ns : more[i] = ns[i]
      /\ more[Len(ns) + 1] = n /\ Len(ns) \in Nat
  <2>1. Len(more) = Len(ns) + 1 /\ more \in Seq(Notice) /\ more[Len(ns) + 1] = n
    BY <1>1, AppendProperties
  <2>2. \A i \in 1 .. Len(ns) : more[i] = ns[i]
    BY <1>1, AppendProperties
  <2> QED
    BY <2>1, <2>2, LenProperties
<1>3. \A i \in DOMAIN ns : ns[i].hour \in Nat
  <2>1. \A i \in DOMAIN ns : ns[i] \in Notice
    BY <1>2, ElementOfSeq
  <2> QED
    BY <2>1 DEF Notice
<1> HIDE DEF more
<1>4. ASSUME NEW i \in DOMAIN ns
      PROVE  /\ kind \in Warnings /\ ns[i].kind \in Warnings => hour - ns[i].hour >= Cooldown
             /\ kind = "poor" /\ ns[i].kind = "poor" => hour - ns[i].hour >= Cooldown
             /\ ~ (kind = "headset" /\ ns[i].kind = "headset")
  BY <1>3, VolumesAssumption DEF Clocked, Rested, NoHour
<1>5. Clocked(more, w2, p2, t2)
  <2>1. ASSUME NEW i \in DOMAIN ns
        PROVE  /\ ns[i].kind \in Warnings => w2 # NoHour /\ ns[i].hour <= w2
               /\ ns[i].kind = "poor" => p2 # NoHour /\ ns[i].hour <= p2
               /\ ns[i].kind = "headset" => t2
    BY <1>3, <1>4, VolumesAssumption DEF Clocked, NoHour
  <2>2. /\ kind \in Warnings => w2 # NoHour /\ hour <= w2
        /\ kind = "poor" => p2 # NoHour /\ hour <= p2
        /\ kind = "headset" => t2
    BY DEF NoHour
  <2> QED
    BY <1>1, <1>2, <2>1, <2>2 DEF Clocked
<1>6. Spaced(more)
  BY <1>1, <1>2, <1>4 DEF Spaced
<1> QED
  BY <1>2, <1>5, <1>6 DEF n, more

\* A warning of the guard keeps the clocks right.
LEMMA WarnKeeps ==
  ASSUME NoticeInv, NEW kind \in Warnings, Warn(kind), UNCHANGED <<hour, poorAt, headsetTold>>
  PROVE  NoticeInv'
<1>1. CASE Rested(warnedAt)
  <2>1. warnedAt' = hour /\ notices' = Append(notices, [kind |-> kind, hour |-> hour])
    BY <1>1 DEF Warn, Notify
  <2>2. /\ Sets(kind \in Warnings, warnedAt, warnedAt') /\ Sets(kind = "poor", poorAt, poorAt')
        /\ kind # "headset" /\ (headsetTold => headsetTold')
    BY <1>1, <2>1 DEF Sets, Warnings
  <2>3. kind \in Kinds /\ warnedAt' \in Nat /\ poorAt' \in Nat /\ headsetTold' \in BOOLEAN
    BY <2>1 DEF NoticeInv, Warnings, Kinds
  <2>4. /\ notices' \in Seq(Notice) /\ Clocked(notices', warnedAt', poorAt', headsetTold')
        /\ Spaced(notices')
    BY <2>1, <2>2, <2>3, OneMore DEF NoticeInv
  <2> QED
    BY <2>3, <2>4 DEF NoticeInv, Clocked, Spaced
<1>2. CASE ~ Rested(warnedAt)
  BY <1>2 DEF Warn, NoticeInv
<1> QED
  BY <1>1, <1>2

\* A capture's judgement tells of poor audio and of a headset, each by its clock.
LEMMA JudgeKeeps == ASSUME NoticeInv, NEW d \in Takes, Judge(d) PROVE NoticeInv'
<1>1. PICK quality \in {Quality(m) : m \in Measures}, headset \in BOOLEAN :
        LET poor == quality = "poor" /\ Rested(poorAt)
            first == headset /\ ~ headsetTold
        IN /\ poorAt' = IF poor THEN hour ELSE poorAt
           /\ headsetTold' = (headset \/ headsetTold)
           /\ notices' = notices \o (IF poor THEN <<[kind |-> "poor", hour |-> hour]>> ELSE <<>>)
                                 \o (IF first THEN <<[kind |-> "headset", hour |-> hour]>> ELSE <<>>)
  BY DEF Judge
<1>2. UNCHANGED <<hour, warnedAt>>
  BY DEF Judge
<1> DEFINE poor == quality = "poor" /\ Rested(poorAt)
           first == headset /\ ~ headsetTold
           half == IF poor THEN Append(notices, [kind |-> "poor", hour |-> hour]) ELSE notices
<1>3. /\ poorAt' = IF poor THEN hour ELSE poorAt
      /\ headsetTold' = (headset \/ headsetTold)
      /\ notices' = notices \o (IF poor THEN <<[kind |-> "poor", hour |-> hour]>> ELSE <<>>)
                            \o (IF first THEN <<[kind |-> "headset", hour |-> hour]>> ELSE <<>>)
  BY <1>1
<1>4. poorAt' \in Nat /\ headsetTold' \in BOOLEAN
  BY <1>3 DEF NoticeInv
<1>5. half \in Seq(Notice) /\ Clocked(half, warnedAt, poorAt', headsetTold) /\ Spaced(half)
  <2>1. CASE poor
    <3>1. /\ Sets("poor" \in Warnings, warnedAt, warnedAt) /\ Sets("poor" = "poor", poorAt, poorAt')
      BY <1>3, <2>1 DEF Sets, Warnings
    <3> QED
      BY <1>4, <2>1, <3>1, OneMore DEF NoticeInv, Kinds
  <2>2. CASE ~ poor
    BY <1>3, <2>2 DEF NoticeInv
  <2> QED
    BY <2>1, <2>2
<1>6. half = notices \o (IF poor THEN <<[kind |-> "poor", hour |-> hour]>> ELSE <<>>)
  <2>1. notices \in Seq(Notice)
    BY DEF NoticeInv
  <2>2. CASE poor
    BY <2>1, <2>2, AppendIsConcat
  <2>3. CASE ~ poor
    BY <2>1, <2>3, ConcatEmptySeq
  <2> QED
    BY <2>2, <2>3
<1> HIDE DEF half, poor
<1>7. CASE first
  <2>1. notices' = Append(half, [kind |-> "headset", hour |-> hour]) /\ headsetTold' /\ ~ headsetTold
    <3>1. notices' = half \o <<[kind |-> "headset", hour |-> hour]>>
      BY <1>3, <1>6, <1>7
    <3> QED
      <4>1. [kind |-> "headset", hour |-> hour] \in Notice
        BY DEF NoticeInv, Notice, Kinds
      <4> QED
        BY <1>3, <1>5, <1>7, <3>1, <4>1, AppendIsConcat DEF NoticeInv
  <2>2. /\ Sets("headset" \in Warnings, warnedAt, warnedAt) /\ Sets("headset" = "poor", poorAt', poorAt')
    BY DEF Sets, Warnings
  <2>3. /\ notices' \in Seq(Notice) /\ Clocked(notices', warnedAt, poorAt', headsetTold')
        /\ Spaced(notices')
    <3>1. "headset" \in Kinds /\ warnedAt \in Nat /\ hour \in Nat \ {0} /\ headsetTold \in BOOLEAN
      BY DEF NoticeInv, Kinds
    <3>2. ~ headsetTold /\ headsetTold'
      BY <2>1
    <3> DEFINE kind == "headset"
    <3>3. /\ Sets(kind \in Warnings, warnedAt, warnedAt) /\ Sets(kind = "poor", poorAt', poorAt')
          /\ kind \in Kinds /\ (kind = "headset" => ~ headsetTold /\ headsetTold')
          /\ (headsetTold => headsetTold')
      BY <2>2, <3>1, <3>2
    <3> HIDE DEF kind
    <3>4. /\ Append(half, [kind |-> kind, hour |-> hour]) \in Seq(Notice)
          /\ Clocked(Append(half, [kind |-> kind, hour |-> hour]), warnedAt, poorAt', headsetTold')
          /\ Spaced(Append(half, [kind |-> kind, hour |-> hour]))
      BY <1>4, <1>5, <3>1, <3>3, OneMore
    <3> QED
      BY <2>1, <3>4 DEF kind
  <2> QED
    <3>1. hour' \in Nat \ {0} /\ warnedAt' = warnedAt /\ warnedAt' \in Nat
      BY <1>2 DEF NoticeInv
    <3>2. Clocked(notices', warnedAt', poorAt', headsetTold')
      BY <2>3, <3>1
    <3> QED
      BY <1>4, <2>3, <3>1, <3>2 DEF NoticeInv
<1>8. CASE ~ first
  <2>1. notices' = half
    <3>1. notices' = half \o <<>>
      BY <1>3, <1>6, <1>8
    <3> QED
      BY <1>5, <3>1, ConcatEmptySeq
  <2>2. headsetTold' = headsetTold
    BY <1>3, <1>8 DEF NoticeInv
  <2> QED
    BY <1>2, <1>4, <1>5, <2>1, <2>2 DEF NoticeInv
<1> QED
  BY <1>7, <1>8

\* Only the guards and the judgement tell anything.
LEMMA NoticeStep == NoticeInv /\ [MicNext]_micVars => NoticeInv'
<1> SUFFICES ASSUME NoticeInv, [MicNext]_micVars PROVE NoticeInv'
  OBVIOUS
<1>1. ASSUME NEW d \in Takes, ReadMute(d) PROVE NoticeInv'
  <2>1. UNCHANGED <<hour, poorAt, headsetTold>>
    BY <1>1 DEF ReadMute
  <2>2. UNCHANGED <<warnedAt, notices>> \/ \E kind \in Warnings : Warn(kind)
    <3>1. Plan(guardMode[d], guard[d].volume, muted[guard[d].mic]) \in {"silent", "muted", "low", "restore"}
      BY DEF Plan
    <3> QED
      BY <1>1, <3>1 DEF ReadMute, Warnings
  <2>3. CASE UNCHANGED <<warnedAt, notices>>
    BY <2>1, <2>3 DEF NoticeInv
  <2> QED
    BY <2>1, <2>2, <2>3, WarnKeeps
<1>2. ASSUME NEW d \in Takes, Restore(d) PROVE NoticeInv'
  <2>1. UNCHANGED <<hour, poorAt, headsetTold>>
    BY <1>2 DEF Restore
  <2>2. CASE Notify("restored") /\ UNCHANGED warnedAt
    <3>1. /\ Sets("restored" \in Warnings, warnedAt, warnedAt) /\ Sets("restored" = "poor", poorAt, poorAt)
      BY DEF Sets, Warnings
    <3>2. /\ notices' \in Seq(Notice) /\ Clocked(notices', warnedAt, poorAt, headsetTold)
          /\ Spaced(notices')
      BY <2>2, <3>1, OneMore DEF NoticeInv, Notify, Kinds
    <3> QED
      BY <2>1, <2>2, <3>2 DEF NoticeInv, Clocked, Spaced
  <2>3. CASE Warn("low")
    BY <2>1, <2>3, WarnKeeps DEF Warnings
  <2> QED
    BY <1>2, <2>2, <2>3 DEF Restore
<1>3. ASSUME NEW d \in Takes, ReadVolume(d) PROVE NoticeInv'
  BY <1>3 DEF ReadVolume, NoticeInv, clocks
<1>4. CASE HourPasses \/ (\E m \in Mics : Meddle(m)) \/ UNCHANGED micVars
  BY <1>4 DEF HourPasses, Meddle, micVars, clocks, NoticeInv
<1> QED
  BY <1>1, <1>2, <1>3, <1>4, JudgeKeeps DEF MicNext

\* However many guards overlap, warnings of one clock are a cooldown apart and the
\* headset is told once, for any dictations, microphones and meddling (state.rs:350).
THEOREM NoticesKeepTheirDistance == MicSpec => []NoticesAreSpaced
<1>1. MicInit => NoticeInv
  <2>1. <<>> \in Seq(Notice) /\ DOMAIN <<>> = {}
    OBVIOUS
  <2> SUFFICES ASSUME MicInit PROVE NoticeInv
    OBVIOUS
  <2>2. DOMAIN notices = {} /\ notices \in Seq(Notice)
    BY <2>1 DEF MicInit
  <2>3. hour \in Nat \ {0} /\ warnedAt \in Nat /\ poorAt \in Nat /\ headsetTold \in BOOLEAN
    <3>1. hour \in Nat \ {0} /\ warnedAt \in Nat /\ poorAt \in Nat
      BY SMT DEF MicInit, NoHour
    <3>2. headsetTold \in BOOLEAN
      BY Zenon DEF MicInit
    <3> QED
      BY <3>1, <3>2
  <2> QED
    <3>1. Clocked(notices, warnedAt, poorAt, headsetTold)
      BY <2>2 DEF Clocked
    <3>2. Spaced(notices)
      BY <2>2 DEF Spaced
    <3> QED
      BY <2>2, <2>3, <3>1, <3>2 DEF NoticeInv
<1>2. NoticeInv => NoticesAreSpaced
  BY DEF NoticeInv, Spaced, Warnings, NoticesAreSpaced
<1> QED
  BY <1>1, <1>2, NoticeStep, PTL DEF MicSpec

=============================================================================
