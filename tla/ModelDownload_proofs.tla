------------------------ MODULE ModelDownload_proofs ------------------------
(***************************************************************************)
(* Proofs about ModelDownload: only a verified file is moved into place, a *)
(* listed model is there to load, and no progress bar stays behind, for    *)
(* any number of requests, controls, chunks, retries and runs of the app.  *)
(***************************************************************************)
EXTENDS ModelDownload, SequenceTheorems, TLAPS

Rows == [state : States \cup {"none"}, bytes : Nat]

TypeOK ==
  /\ kind \in {"ggml", "fw"}
  /\ partial \in Seq(BOOLEAN) /\ final \in {"none", "good", "bad"}
  /\ token \in Requests \cup {None} /\ mgr \in Requests \cup Controls \cup {None}
  /\ pc \in [Requests -> Pcs] /\ end \in [Requests -> Ends]
  /\ bytes \in [Requests -> Nat] /\ hash \in [Requests -> BOOLEAN]
  /\ ctl \in [Controls -> {"idle", "unpause", "read", "store", "unlist"}]
  /\ seen \in [Controls -> States \cup {"none"}]
  /\ poller \subseteq Requests
  /\ ckpt \in Rows /\ ckptDisk \in Rows

Streaming == {"pauses", "begin", "pass", "transfer", "wait", "finish", "index", "row"}
Fetching == {"announce", "runtime", "prefetch", "join"}
AtWork == Streaming \cup Fetching \cup {"unregister"}

\* Each kind of model has its own path, and one request at a time is on it.
PathInv ==
  \A r \in Requests :
    /\ pc[r] \in Streaming => kind = "ggml"
    /\ pc[r] \in Fetching => kind = "fw"
    /\ pc[r] \in AtWork => token = r

\* The bytes of the request at work are the partial file's, and its hasher saw
\* the file as it is.
InFile(r) ==
  /\ pc[r] \in {"pass", "transfer", "wait"} => bytes[r] = Len(partial)
  /\ pc[r] = "transfer" /\ hash[r] => AllGood(partial)
  /\ pc[r] = "finish" /\ end[r] = "Verified" => AllGood(partial) /\ synced = Len(partial)

FileInv == \A r \in Requests : InFile(r)

\* Whoever is in the middle of a change to the installed model holds the
\* manager's lock.
HoldInv ==
  /\ \A r \in Requests : pc[r] \in {"index", "row"} => mgr = r /\ final = "good"
  /\ \A c \in Controls : ctl[c] = "unlist" => mgr = c

PlacedInv == TypeOK /\ PathInv /\ FileInv /\ HoldInv /\ PlacedModelsAreWhole

\* Nobody saw, nor keeps in a row of its own, a download that has ended.
SeenInv ==
  /\ \A r \in poller : pc[r] \in {"prefetch", "join"}
  /\ \A c \in Controls : seen[c] # "Downloading"
  /\ kind = "ggml" => \A c \in Controls : ctl[c] \in {"unpause", "read"} => seen[c] # "none"
  /\ kind = "fw" => ckpt = NoRow /\ ckptDisk = NoRow

BarInv == SeenInv /\ NoFrozenBar

-----------------------------------------------------------------------------
(* Files. *)

\* A function on a stretch of numbers from 1 is a sequence.
LEMMA FileOf ==
  ASSUME NEW n \in Nat, NEW f \in [1 .. n -> BOOLEAN]
  PROVE  f \in Seq(BOOLEAN) /\ Len(f) = n /\ DOMAIN f = 1 .. n
<1>1. f \in Seq(BOOLEAN) /\ DOMAIN f = 1 .. n
  BY SeqDef
<1>2. Len(f) \in Nat /\ DOMAIN f = 1 .. Len(f)
  BY <1>1, LenProperties
<1> QED BY <1>1, <1>2

\* A file cut at its own length is the same file.
LEMMA CutWhole ==
  ASSUME NEW s \in Seq(BOOLEAN)
  PROVE  SubSeq(s, 1, Len(s)) = s
<1>1. Len(s) \in Nat /\ \A i \in 1 .. Len(s) : s[i] \in BOOLEAN
  BY LenProperties, ElementOfSeq
<1> DEFINE c == SubSeq(s, 1, Len(s))
<1>2. /\ c \in Seq(BOOLEAN) /\ Len(c) = Len(s)
      /\ \A i \in 1 .. Len(s) : c[i] = s[i]
  BY <1>1, SubSeqProperties
<1> HIDE DEF c
<1>3. c = s
  BY <1>2, SeqEqual
<1> QED BY <1>3 DEF c

\* A chunk written at the file's end makes it one chunk longer; the file is
\* good if it was, and the chunk is.
LEMMA FileGrows ==
  ASSUME NEW s \in Seq(BOOLEAN), NEW good \in BOOLEAN, NEW f,
         f = [i \in 1 .. Len(s) + 1 |-> IF i = Len(s) + 1 THEN good
                                        ELSE i <= Len(s) /\ s[i]]
  PROVE  /\ f \in Seq(BOOLEAN) /\ Len(f) = Len(s) + 1
         /\ AllGood(s) /\ good => AllGood(f)
<1>1. Len(s) \in Nat /\ DOMAIN s = 1 .. Len(s) /\ \A i \in 1 .. Len(s) : s[i] \in BOOLEAN
  BY LenProperties, ElementOfSeq
<1>2. f \in [1 .. Len(s) + 1 -> BOOLEAN]
  BY <1>1
<1>3. f \in Seq(BOOLEAN) /\ Len(f) = Len(s) + 1 /\ DOMAIN f = 1 .. Len(s) + 1
  BY <1>1, <1>2, FileOf
<1>4. ASSUME AllGood(s), good, NEW i \in 1 .. Len(s) + 1
      PROVE  f[i]
  <2>1. CASE i = Len(s) + 1
    <3>1. f[i] = good
      BY <2>1
    <3> QED BY <1>4, <3>1
  <2>2. CASE i # Len(s) + 1
    <3>1. i \in 1 .. Len(s) /\ i <= Len(s)
      BY <1>1, <2>2
    <3>2. s[i]
      BY <1>1, <1>4, <3>1, Zenon DEF AllGood
    <3>3. f[i] = (i <= Len(s) /\ s[i])
      BY <2>2
    <3> QED BY <3>1, <3>2, <3>3, Zenon
  <2> QED BY <2>1, <2>2
<1> QED BY <1>3, <1>4 DEF AllGood

\* A file a power loss zeroed in part is as long as it was.
LEMMA FileAfter ==
  ASSUME TypeOK, NEW zeroed
  PROVE  After(zeroed) \in Seq(BOOLEAN)
<1>1. Len(partial) \in Nat /\ DOMAIN partial = 1 .. Len(partial)
  BY LenProperties DEF TypeOK
<1>2. After(zeroed) \in [1 .. Len(partial) -> BOOLEAN]
  BY <1>1 DEF After
<1> QED BY <1>1, <1>2, FileOf

\* The empty file is good.
LEMMA EmptyFile == << >> \in Seq(BOOLEAN) /\ Len(<< >>) = 0 /\ AllGood(<< >>)
  BY EmptySeq DEF AllGood

-----------------------------------------------------------------------------
(* The way of a request, and who may be on it. *)

\* One step of a request's own.
Goes(r) == Register(r) \/ Transfer(r)

\* Where a step of a request takes it from, and to.
Way(p, q) ==
  \/ p = "idle" /\ q = IF kind = "ggml" THEN "pauses" ELSE "announce"
  \/ p = "pauses" /\ q = "begin"
  \/ p = "begin" /\ q \in {"pass", "unregister"}
  \/ p = "pass" /\ q \in {"transfer", "wait", "finish"}
  \/ p = "transfer" /\ q \in {"transfer", "pass", "wait", "finish"}
  \/ p = "wait" /\ q \in {"pass", "finish"}
  \/ p = "finish" /\ q \in {"index", "unregister"}
  \/ p = "index" /\ q \in {"row", "unregister"}
  \/ p = "row" /\ q = "unregister"
  \/ p = "announce" /\ q = "runtime"
  \/ p = "runtime" /\ q \in {"prefetch", "unregister"}
  \/ p = "prefetch" /\ q = "join"
  \/ p = "join" /\ q = "unregister"
  \/ p = "unregister" /\ q \in {"install", "store"}
  \/ p = "install" /\ q = "store"
  \/ p = "store" /\ q = "idle"

\* A request's step is on its way, and moves no other request.
LEMMA RequestMoves ==
  ASSUME TypeOK, NEW r \in Requests, Goes(r)
  PROVE  /\ kind' = kind /\ UNCHANGED <<ctl, seen>>
         /\ \A q \in Requests \ {r} : pc'[q] = pc[q]
         /\ Way(pc[r], pc'[r])
         /\ pc' \in [Requests -> Pcs]
<1>1. CASE Register(r) \/ ResetPause(r) \/ Begin(r) \/ OpenPass(r) \/ IgnoreRange(r)
  BY <1>1 DEF Register, ResetPause, Begin, OpenPass, IgnoreRange, Goto, TypeOK, Way, Pcs,
              control
<1>2. CASE Chunk(r) \/ Stop(r) \/ Interrupted(r) \/ WaitOver(r) \/ Broken(r) \/ Verify(r)
  BY <1>2 DEF Chunk, Stop, Interrupted, WaitOver, Broken, Verify, Goto, TypeOK, Way, Pcs,
              control
<1>3. CASE Mismatch(r) \/ FinishStopped(r) \/ FinishUnmoved(r) \/ Move(r) \/ List(r)
  BY <1>3 DEF Mismatch, FinishStopped, FinishUnmoved, Move, List, Goto, TypeOK, Way, Pcs,
              control
<1>4. CASE DropRow(r) \/ Announce(r) \/ NoPrefetch(r) \/ Prefetch(r) \/ PrefetchDone(r)
  BY <1>4 DEF DropRow, Announce, NoPrefetch, Prefetch, PrefetchDone, Goto, TypeOK, Way, Pcs,
              control
<1>5. CASE PrefetchFails(r) \/ JoinPoller(r) \/ Unregister(r) \/ Install(r) \/ Store(r)
  BY <1>5 DEF PrefetchFails, JoinPoller, Unregister, Install, Store, Goto, TypeOK, Way, Pcs,
              control
<1> QED BY <1>1, <1>2, <1>3, <1>4, <1>5 DEF Goes, Transfer

\* The registration changes hands only where a request begins or ends its way.
LEMMA TokenMoves ==
  ASSUME TypeOK, NEW r \in Requests, Goes(r)
  PROVE  /\ pc[r] = "idle" => token = None /\ token' = r
         /\ pc[r] = "unregister" => token' = None
         /\ pc[r] \notin {"idle", "unregister"} => token' = token
<1>1. CASE Register(r) \/ Unregister(r)
  BY <1>1 DEF Register, Unregister
<1>2. CASE Transfer(r) /\ ~ Unregister(r)
  <2>1. token' = token
    BY <1>2 DEF Transfer, ResetPause, Begin, OpenPass, IgnoreRange, Chunk, Stop, Interrupted,
                WaitOver, Broken, Verify, Mismatch, FinishStopped, FinishUnmoved, Move, List,
                DropRow, Announce, NoPrefetch, Prefetch, PrefetchDone, PrefetchFails,
                JoinPoller, Install, Store, flags
  <2>2. pc[r] \notin {"idle", "unregister"}
    BY <1>2 DEF Transfer, ResetPause, Begin, OpenPass, IgnoreRange, Chunk, Stop, Interrupted,
                WaitOver, Broken, Verify, Mismatch, FinishStopped, FinishUnmoved, Move, List,
                DropRow, Announce, NoPrefetch, Prefetch, PrefetchDone, PrefetchFails,
                JoinPoller, Install, Store
  <2> QED BY <2>1, <2>2
<1> QED BY <1>1, <1>2 DEF Goes

\* A step of a request leaves each request on its own path, alone.
LEMMA RequestPath ==
  ASSUME TypeOK, PathInv, NEW r \in Requests, Goes(r)
  PROVE  PathInv'
<1>1. /\ kind' = kind /\ Way(pc[r], pc'[r])
      /\ \A q \in Requests \ {r} : pc'[q] = pc[q]
      /\ kind \in {"ggml", "fw"}
  BY RequestMoves DEF TypeOK
<1>2. /\ pc[r] = "idle" => token = None /\ token' = r
      /\ pc[r] = "unregister" => token' = None
      /\ pc[r] \notin {"idle", "unregister"} => token' = token
  BY TokenMoves
<1>3. /\ pc'[r] \in Streaming => kind = "ggml"
      /\ pc'[r] \in Fetching => kind = "fw"
  BY <1>1 DEF PathInv, Way, Streaming, Fetching
<1>4. pc'[r] \in AtWork => token' = r
  <2>1. CASE pc[r] = "idle"
    BY <1>2, <2>1
  <2>2. CASE pc[r] = "unregister"
    BY <1>1, <2>2 DEF Way, AtWork, Streaming, Fetching
  <2>3. CASE pc[r] \notin {"idle", "unregister"}
    <3>1. pc'[r] \in AtWork => pc[r] \in AtWork
      BY <1>1, <2>3 DEF Way, AtWork, Streaming, Fetching
    <3> QED BY <1>2, <2>3, <3>1 DEF PathInv
  <2> QED BY <2>1, <2>2, <2>3
<1>5. \A q \in Requests \ {r} : pc[q] \in AtWork => token' = q
  <2> SUFFICES ASSUME NEW q \in Requests \ {r}, pc[q] \in AtWork
               PROVE  token' = q
    OBVIOUS
  <2>1. token = q /\ q # r /\ q # None
    BY NamesAssumption DEF PathInv
  <2>2. pc[r] \notin {"idle", "unregister"}
    BY <1>2, <2>1 DEF PathInv, AtWork
  <2> QED BY <1>2, <2>1, <2>2
<1> QED BY <1>1, <1>3, <1>4, <1>5 DEF PathInv

-----------------------------------------------------------------------------
(* The partial file and its request. *)

FileTypes ==
  /\ partial \in Seq(BOOLEAN)
  /\ end \in [Requests -> Ends]
  /\ bytes \in [Requests -> Nat] /\ hash \in [Requests -> BOOLEAN]

\* A request that begins finds the file as long as it says.
LEMMA BeginFile ==
  ASSUME TypeOK, NEW r \in Requests, Register(r) \/ ResetPause(r) \/ Begin(r)
  PROVE  FileTypes' /\ InFile(r)'
<1>1. Len(partial) \in Nat
  BY LenProperties DEF TypeOK
<1>2. partial' = partial /\ hash' = hash
  BY DEF Register, ResetPause, Begin, disk, plan
<1>3. bytes' \in [Requests -> Nat]
  BY <1>1 DEF TypeOK, Register, ResetPause, Begin, plan
<1>4. end' \in [Requests -> Ends]
  BY DEF TypeOK, Register, ResetPause, Begin, EndAs, Ends
<1>5. InFile(r)'
  BY <1>2, RequestMoves
     DEF TypeOK, InFile, Register, ResetPause, Begin, Goto, Goes, Transfer
<1> QED BY <1>2, <1>3, <1>4, <1>5 DEF FileTypes, TypeOK

\* A pass goes on where the file ends, or from its start.
LEMMA PassFile ==
  ASSUME TypeOK, NEW r \in Requests, InFile(r), OpenPass(r) \/ IgnoreRange(r)
  PROVE  FileTypes' /\ InFile(r)'
<1>1. CASE OpenPass(r)
  <2>1. Kept(r) = partial
    BY <1>1, CutWhole DEF OpenPass, InFile, Kept, TypeOK
  <2>2. /\ partial' = partial /\ end' = end /\ bytes' = bytes
        /\ hash' = [hash EXCEPT ![r] = AllGood(partial)]
        /\ pc[r] = "pass" /\ pc'[r] = "transfer"
    BY <1>1, <2>1 DEF OpenPass, Cut, Goto, TypeOK
  <2>3. AllGood(partial) \in BOOLEAN
    BY DEF AllGood
  <2>4. hash' \in [Requests -> BOOLEAN] /\ hash'[r] = AllGood(partial)
    BY <2>2, <2>3 DEF TypeOK
  <2>5. InFile(r)'
    BY <2>2, <2>4 DEF InFile
  <2> QED BY <2>2, <2>4, <2>5 DEF FileTypes, TypeOK
<1>2. CASE IgnoreRange(r)
  <2>1. /\ partial' = << >> /\ end' = end /\ bytes' = [bytes EXCEPT ![r] = 0]
        /\ hash' = [hash EXCEPT ![r] = TRUE] /\ pc'[r] = "transfer"
    BY <1>2 DEF IgnoreRange, Cut, Goto, TypeOK
  <2>2. bytes'[r] = 0 /\ bytes' \in [Requests -> Nat] /\ hash' \in [Requests -> BOOLEAN]
    BY <2>1 DEF TypeOK
  <2>3. InFile(r)'
    BY <2>1, <2>2, EmptyFile DEF InFile
  <2> QED BY <2>1, <2>2, <2>3, EmptyFile DEF FileTypes, TypeOK
<1> QED BY <1>1, <1>2

\* A chunk goes to the end of the file, and its hasher sees what it writes.
LEMMA ChunkFile ==
  ASSUME TypeOK, NEW r \in Requests, InFile(r), Chunk(r)
  PROVE  FileTypes' /\ InFile(r)'
<1>1. Len(partial) \in Nat /\ bytes[r] = Len(partial) /\ pc[r] = "transfer" /\ pc' = pc
  BY LenProperties DEF TypeOK, InFile, Chunk
<1>2. PICK good \in BOOLEAN :
        /\ LET last == IF Len(partial) > bytes[r] THEN Len(partial) ELSE bytes[r] + 1
           IN partial' = [i \in 1 .. last |-> IF i = bytes[r] + 1 THEN good
                                              ELSE i <= Len(partial) /\ partial[i]]
        /\ hash' = [hash EXCEPT ![r] = @ /\ good]
  BY DEF Chunk
<1>3. partial' = [i \in 1 .. Len(partial) + 1 |-> IF i = Len(partial) + 1 THEN good
                                                  ELSE i <= Len(partial) /\ partial[i]]
  BY <1>1, <1>2
<1>4. /\ partial' \in Seq(BOOLEAN) /\ Len(partial') = Len(partial) + 1
      /\ AllGood(partial) /\ good => AllGood(partial')
  BY <1>3, FileGrows DEF TypeOK
<1>5. /\ bytes' = [bytes EXCEPT ![r] = @ + 1] /\ end' = end
  BY DEF Chunk
<1>6. /\ bytes' \in [Requests -> Nat] /\ bytes'[r] = Len(partial) + 1
      /\ end' \in [Requests -> Ends]
  BY <1>1, <1>5 DEF TypeOK
<1>7. hash' \in [Requests -> BOOLEAN]
  BY <1>2 DEF TypeOK
<1>8. hash'[r] = (hash[r] /\ good)
  BY <1>2 DEF TypeOK
<1>9. hash'[r] => AllGood(partial')
  BY <1>1, <1>4, <1>8, Zenon DEF InFile
<1> QED BY <1>1, <1>4, <1>6, <1>7, <1>9 DEF FileTypes, InFile

\* A request that stops, waits or fails leaves the file as it is, and a
\* verified one has it whole and on the disk.
LEMMA StopFile ==
  ASSUME TypeOK, NEW r \in Requests, InFile(r),
         Stop(r) \/ Interrupted(r) \/ WaitOver(r) \/ Broken(r) \/ Verify(r)
  PROVE  FileTypes' /\ InFile(r)'
<1>1. partial' = partial /\ bytes' = bytes /\ hash' = hash
  BY DEF Stop, Interrupted, WaitOver, Broken, Verify, disk, plan
<1>2. end' \in [Requests -> Ends]
  BY DEF TypeOK, Ends, EndAs, Stop, Interrupted, WaitOver, Broken, Verify
<1>3. InFile(r)'
  <2>1. CASE Stop(r) \/ Broken(r)
    BY <2>1 DEF InFile, TypeOK, Ends, Stop, Broken, EndAs, Goto
  <2>2. CASE Interrupted(r)
    <3>1. pc'[r] \in {"wait", "finish"} /\ (pc'[r] = "finish" => end'[r] = "Failed")
      BY <2>2 DEF TypeOK, Interrupted, EndAs, Goto
    <3> QED BY <1>1, <2>2, <3>1 DEF InFile, Interrupted
  <2>3. CASE WaitOver(r)
    BY <1>1, <2>3 DEF InFile, TypeOK, WaitOver, Goto
  <2>4. CASE Verify(r)
    <3>1. AllGood(partial) /\ pc'[r] = "finish" /\ synced' = Len(partial)
      BY <2>4 DEF InFile, TypeOK, Verify, Goto
    <3> QED BY <1>1, <3>1 DEF InFile
  <2> QED BY <2>1, <2>2, <2>3, <2>4
<1> QED BY <1>1, <1>2, <1>3 DEF FileTypes, TypeOK

\* A mismatch empties the file.
LEMMA MismatchFile ==
  ASSUME TypeOK, NEW r \in Requests, Mismatch(r)
  PROVE  FileTypes' /\ InFile(r)'
<1>1. partial' = << >> /\ bytes' = [bytes EXCEPT ![r] = 0] /\ hash' = hash
  BY DEF Mismatch, Cut
<1>2. bytes' \in [Requests -> Nat] /\ bytes'[r] = 0
  BY <1>1 DEF TypeOK
<1>3. end' \in [Requests -> Ends]
  BY DEF TypeOK, Ends, EndAs, Mismatch
<1>4. InFile(r)'
  BY <1>1, <1>2, EmptyFile DEF InFile, TypeOK, Mismatch, EndAs, Goto
<1> QED BY <1>1, <1>2, <1>3, <1>4, EmptyFile DEF FileTypes, TypeOK

\* A request that is past the transfer has nothing more to say of the file.
LEMMA LateFile ==
  ASSUME TypeOK, NEW r \in Requests, Goes(r), pc[r] \in Pcs,
         pc[r] \notin {"idle", "pauses", "begin", "pass", "transfer", "wait"}
  PROVE  FileTypes' /\ InFile(r)'
<1>1. /\ Transfer(r)
      /\ ~ (ResetPause(r) \/ Begin(r) \/ OpenPass(r) \/ IgnoreRange(r) \/ Chunk(r))
      /\ ~ (Stop(r) \/ Interrupted(r) \/ WaitOver(r) \/ Broken(r) \/ Verify(r) \/ Mismatch(r))
  BY DEF Goes, Register, ResetPause, Begin, OpenPass, IgnoreRange, Chunk, Stop, Interrupted,
         WaitOver, Broken, Verify, Mismatch
<1>2. partial' \in Seq(BOOLEAN)
  BY <1>1, EmptyFile DEF TypeOK, Transfer, FinishStopped, FinishUnmoved, Move, List, DropRow,
         Announce, NoPrefetch, Prefetch, PrefetchDone, PrefetchFails, JoinPoller, Unregister,
         Install, Store, disk
<1>3. bytes' \in [Requests -> Nat] /\ hash' \in [Requests -> BOOLEAN]
  <2>1. DropPlan(r) \/ UNCHANGED plan
    BY <1>1 DEF Transfer, FinishStopped, FinishUnmoved, Move, List, DropRow, Announce,
           NoPrefetch, Prefetch, PrefetchDone, PrefetchFails, JoinPoller, Unregister,
           Install, Store
  <2>2. CASE UNCHANGED plan
    BY <2>2 DEF plan, TypeOK
  <2>3. CASE DropPlan(r)
    <3>1. bytes' = [bytes EXCEPT ![r] = 0] /\ hash' = [hash EXCEPT ![r] = TRUE]
      BY <2>3 DEF DropPlan
    <3> QED BY <3>1 DEF TypeOK
  <2> QED BY <2>1, <2>2, <2>3
<1>4. end' \in [Requests -> Ends]
  BY <1>1 DEF TypeOK, Ends, EndAs, Given, Transfer, FinishStopped, FinishUnmoved, Move, List,
         DropRow, Announce, NoPrefetch, Prefetch, PrefetchDone, PrefetchFails, JoinPoller,
         Unregister, Install, Store
<1>5. InFile(r)'
  <2>1. Way(pc[r], pc'[r])
    BY RequestMoves
  <2> QED BY <2>1 DEF Way, InFile
<1> QED BY <1>2, <1>3, <1>4, <1>5 DEF FileTypes

\* A request that has still to reach the transfer, or is past it, and does not
\* move into place what it fetched, leaves the file to whoever is at work.
LEMMA FileIsLeft ==
  ASSUME TypeOK, NEW r \in Requests, Register(r) \/ Install(r) \/ Store(r)
  PROVE  /\ partial' = partial /\ synced' = synced
         /\ \A q \in Requests \ {r} :
              bytes'[q] = bytes[q] /\ hash'[q] = hash[q] /\ end'[q] = end[q]
  BY DEF TypeOK, Register, Install, Store, disk, plan, EndAs

\* A step of a request keeps each file's bytes.
LEMMA RequestFile ==
  ASSUME TypeOK, PathInv, FileInv, NEW r \in Requests, Goes(r)
  PROVE  FileTypes' /\ FileInv'
<1>1. /\ Way(pc[r], pc'[r]) /\ pc[r] \in Pcs
      /\ \A q \in Requests \ {r} : pc'[q] = pc[q]
  BY RequestMoves DEF TypeOK
<1>2. FileTypes' /\ InFile(r)'
  <2>1. CASE Register(r) \/ ResetPause(r) \/ Begin(r)
    BY <2>1, BeginFile
  <2>2. CASE OpenPass(r) \/ IgnoreRange(r)
    BY <2>2, PassFile DEF FileInv
  <2>3. CASE Chunk(r)
    BY <2>3, ChunkFile DEF FileInv
  <2>4. CASE Stop(r) \/ Interrupted(r) \/ WaitOver(r) \/ Broken(r) \/ Verify(r)
    BY <2>4, StopFile DEF FileInv
  <2>5. CASE Mismatch(r)
    BY <2>5, MismatchFile
  <2>6. CASE pc[r] \notin {"idle", "pauses", "begin", "pass", "transfer", "wait"}
    BY <1>1, <2>6, LateFile
  <2>7. CASE pc[r] \in {"idle", "pauses", "begin", "pass", "transfer", "wait"}
    <3>1. \/ Register(r) \/ ResetPause(r) \/ Begin(r) \/ OpenPass(r) \/ IgnoreRange(r)
          \/ Chunk(r) \/ Stop(r) \/ Interrupted(r) \/ WaitOver(r) \/ Broken(r) \/ Verify(r)
          \/ Mismatch(r)
      BY <2>7 DEF Goes, Transfer, FinishStopped, FinishUnmoved, Move, List, DropRow, Announce,
                  NoPrefetch, Prefetch, PrefetchDone, PrefetchFails, JoinPoller, Unregister,
                  Install, Store
    <3> QED BY <2>1, <2>2, <2>3, <2>4, <2>5, <3>1
  <2> QED BY <2>6, <2>7
<1>3. ASSUME NEW q \in Requests \ {r}
      PROVE  InFile(q)'
  <2>1. CASE pc[r] \in AtWork
    <3>1. pc[q] \notin AtWork
      BY <2>1 DEF PathInv
    <3> QED BY <1>1, <3>1 DEF InFile, AtWork, Streaming
  <2>2. CASE pc[r] \notin AtWork
    <3>1. Register(r) \/ Install(r) \/ Store(r)
      BY <2>2 DEF AtWork, Streaming, Fetching, Goes, Transfer, ResetPause, Begin, OpenPass,
                  IgnoreRange, Chunk, Stop, Interrupted, WaitOver, Broken, Verify, Mismatch,
                  FinishStopped, FinishUnmoved, Move, List, DropRow, Announce, NoPrefetch,
                  Prefetch, PrefetchDone, PrefetchFails, JoinPoller, Unregister
    <3>2. /\ partial' = partial /\ synced' = synced
          /\ bytes'[q] = bytes[q] /\ hash'[q] = hash[q] /\ end'[q] = end[q] /\ pc'[q] = pc[q]
      BY <1>1, <3>1, FileIsLeft
    <3> QED BY <3>2 DEF FileInv, InFile
  <2> QED BY <2>1, <2>2
<1> QED BY <1>2, <1>3 DEF FileInv

-----------------------------------------------------------------------------
(* The installed model and its lock. *)

\* What a step of a request does to the model, the list and the lock.
LEMMA RequestHolds ==
  ASSUME PlacedInv, NEW r \in Requests, Goes(r)
  PROVE  /\ final' \in {"none", "good", "bad"}
         /\ mgr' \in Requests \cup Controls \cup {None}
         /\ HoldInv' /\ PlacedModelsAreWhole'
<1>1. /\ TypeOK /\ PathInv /\ FileInv /\ HoldInv /\ PlacedModelsAreWhole
      /\ kind' = kind /\ ctl' = ctl /\ Way(pc[r], pc'[r])
      /\ \A q \in Requests \ {r} : pc'[q] = pc[q]
  BY RequestMoves DEF PlacedInv
<1>2. \A c \in Controls : c # r /\ c # None
  BY NamesAssumption
<1>3. CASE Move(r)
  <2>1. /\ pc[r] = "finish" /\ end[r] = "Verified" /\ mgr = None /\ mgr' = r
        /\ pc'[r] = "index" /\ installed' = installed /\ torn' = torn
        /\ final' = IF AllGood(partial) /\ synced = Len(partial) THEN "good" ELSE "bad"
    BY <1>1, <1>3 DEF Move, Free, Goto, TypeOK
  <2>2. final' = "good"
    BY <1>1, <2>1 DEF FileInv, InFile
  <2>3. \A q \in Requests : pc[q] \notin {"index", "row"}
    BY <1>1, <2>1, NamesAssumption DEF HoldInv
  <2>4. \A c \in Controls : ctl[c] # "unlist"
    BY <1>1, <1>2, <2>1 DEF HoldInv
  <2>5. HoldInv'
    BY <1>1, <2>1, <2>2, <2>3, <2>4 DEF HoldInv
  <2> QED BY <2>1, <2>2, <2>5 DEF PlacedModelsAreWhole
<1>4. CASE List(r) \/ DropRow(r)
  <2>1. /\ pc[r] \in {"index", "row"} /\ mgr = r /\ final = "good" /\ final' = final
        /\ torn' = torn
        /\ \/ mgr' = None /\ pc'[r] = "unregister"
           \/ mgr' = r /\ pc'[r] = "row"
    BY <1>1, <1>4 DEF List, DropRow, Goto, TypeOK, HoldInv
  <2>2. \A q \in Requests \ {r} : pc[q] \notin {"index", "row"}
    BY <1>1, <2>1 DEF HoldInv
  <2>3. \A c \in Controls : ctl[c] # "unlist"
    BY <1>1, <1>2, <2>1 DEF HoldInv
  <2>4. HoldInv'
    BY <1>1, <2>1, <2>2, <2>3 DEF HoldInv
  <2> QED BY <2>1, <2>4 DEF PlacedModelsAreWhole
<1>5. CASE PrefetchDone(r) \/ PrefetchFails(r)
  <2>1. /\ pc[r] = "prefetch" /\ mgr' = mgr /\ installed' = installed /\ torn' = torn
        /\ final' \in {"good", final, "bad"} /\ (final = "good" => final' = "good")
    BY <1>5 DEF PrefetchDone, PrefetchFails, manager
  <2>2. kind = "fw" /\ pc'[r] = "join"
    BY <1>1, <2>1 DEF PathInv, Fetching, Way
  <2>3. HoldInv'
    BY <1>1, <2>1, <2>2 DEF HoldInv
  <2>4. mgr' \in Requests \cup Controls \cup {None} /\ final' \in {"none", "good", "bad"}
    BY <1>1, <2>1 DEF TypeOK
  <2>5. PlacedModelsAreWhole'
    BY <1>1, <2>1, <2>2 DEF PlacedModelsAreWhole, Free
  <2> QED BY <2>3, <2>4, <2>5
<1>6. CASE Install(r)
  <2>1. /\ mgr = None /\ mgr' = mgr /\ final' = final /\ torn' = torn
        /\ installed' = (installed \/ final = "good") /\ pc'[r] = "store"
    BY <1>1, <1>6 DEF Install, Free, Way
  <2>2. HoldInv'
    BY <1>1, <2>1 DEF HoldInv
  <2>3. installed' /\ ~ torn => final = "good"
    BY <1>1, <2>1 DEF PlacedModelsAreWhole, Free
  <2>4. PlacedModelsAreWhole'
    BY <1>1, <2>1, <2>3 DEF PlacedModelsAreWhole
  <2> QED BY <1>1, <2>1, <2>2, <2>4 DEF TypeOK
<1>7. CASE ~ (Move(r) \/ List(r) \/ DropRow(r) \/ PrefetchDone(r) \/ PrefetchFails(r)
              \/ Install(r))
  <2>1. final' = final /\ mgr' = mgr /\ installed' = installed /\ torn' = torn
    BY <1>7 DEF Goes, Register, Transfer, ResetPause, Begin, OpenPass, IgnoreRange, Chunk,
                Stop, Interrupted, WaitOver, Broken, Verify, Mismatch, FinishStopped,
                FinishUnmoved, Announce, NoPrefetch, Prefetch, JoinPoller, Unregister, Store,
                disk, manager
  <2>2. pc'[r] \notin {"index", "row"}
    BY <1>1, <1>7 DEF Goes, TypeOK, Goto, Register, Transfer, ResetPause, Begin, OpenPass,
                IgnoreRange, Chunk, Stop, Interrupted, WaitOver, Broken, Verify, Mismatch,
                FinishStopped, FinishUnmoved, Announce, NoPrefetch, Prefetch, JoinPoller,
                Unregister, Store
  <2>3. HoldInv'
    BY <1>1, <2>1, <2>2 DEF HoldInv
  <2>4. PlacedModelsAreWhole'
    BY <1>1, <2>1, Zenon DEF PlacedModelsAreWhole, Free
  <2> QED BY <1>1, <2>1, <2>3, <2>4 DEF TypeOK
<1> QED BY <1>3, <1>4, <1>5, <1>6, <1>7

\* A checkpoint is a state and a number of chunks.
LEMMA RequestRow ==
  ASSUME TypeOK, NEW r \in Requests, Goes(r)
  PROVE  ckpt' \in Rows /\ ckptDisk' \in Rows
<1>1. ckpt \in Rows /\ ckptDisk \in Rows /\ NoRow \in Rows
  BY DEF TypeOK, Rows, NoRow
<1>2. CASE Begin(r)
  <2>1. [state |-> "Downloading", bytes |-> Len(partial)] \in Rows
    <3>1. Len(partial) \in Nat
      BY LenProperties DEF TypeOK
    <3> QED BY <3>1 DEF Rows, States
  <2> QED BY <1>1, <1>2, <2>1 DEF Begin, SaveRow
<1>3. CASE FinishStopped(r)
  <2>1. [state |-> end[r], bytes |-> bytes[r]] \in Rows
    BY <1>3 DEF FinishStopped, TypeOK, Rows, States, Ends
  <2> QED BY <1>1, <1>3, <2>1 DEF FinishStopped, SaveRow
<1>4. CASE FinishUnmoved(r)
  <2>1. [state |-> "Failed", bytes |-> bytes[r]] \in Rows
    BY DEF TypeOK, Rows, States
  <2> QED BY <1>1, <1>4, <2>1 DEF FinishUnmoved, SaveRow
<1>5. CASE DropRow(r)
  BY <1>1, <1>5 DEF DropRow, SaveRow
<1>6. CASE ~ (Begin(r) \/ FinishStopped(r) \/ FinishUnmoved(r) \/ DropRow(r))
  <2>1. ckpt' = ckpt /\ ckptDisk' = ckptDisk
    BY <1>6 DEF Goes, Register, Transfer, ResetPause, OpenPass, IgnoreRange, Chunk, Stop,
           Interrupted, WaitOver, Broken, Verify, Mismatch, Move, List, Announce, NoPrefetch,
           Prefetch, PrefetchDone, PrefetchFails, JoinPoller, Unregister, Install, Store,
           disk, manager
  <2> QED BY <1>1, <2>1
<1> QED BY <1>2, <1>3, <1>4, <1>5, <1>6

\* A request keeps the placed models whole.
LEMMA RequestPlaced ==
  ASSUME PlacedInv, NEW r \in Requests, Goes(r)
  PROVE  PlacedInv'
<1>1. TypeOK /\ PathInv /\ FileInv
  BY DEF PlacedInv
<1>2. kind' = kind /\ ctl' = ctl /\ seen' = seen /\ pc' \in [Requests -> Pcs]
  BY <1>1, RequestMoves
<1>3. token' \in Requests \cup {None}
  BY <1>1, TokenMoves DEF TypeOK
<1>4. poller' \subseteq Requests
  BY <1>1 DEF TypeOK, Goes, Register, Transfer, ResetPause, Begin, OpenPass, IgnoreRange, Chunk,
         Stop, Interrupted, WaitOver, Broken, Verify, Mismatch, FinishStopped, FinishUnmoved,
         Move, List, DropRow, Announce, NoPrefetch, Prefetch, PrefetchDone, PrefetchFails,
         JoinPoller, Unregister, Install, Store
<1>5. FileTypes' /\ FileInv' /\ PathInv'
  BY <1>1, RequestFile, RequestPath
<1>6. /\ final' \in {"none", "good", "bad"} /\ mgr' \in Requests \cup Controls \cup {None}
      /\ HoldInv' /\ PlacedModelsAreWhole'
  BY RequestHolds
<1>7. TypeOK'
  BY <1>1, <1>2, <1>3, <1>4, <1>5, <1>6, RequestRow DEF TypeOK, FileTypes
<1> QED BY <1>5, <1>6, <1>7 DEF PlacedInv

\* What the controls leave of a download: its requests, its file and their
\* registration.
LEMMA ControlLeaves ==
  ASSUME NEW c \in Controls, Cancel(c) \/ Pause(c) \/ Remove(c) \/ Answer(c)
  PROVE  UNCHANGED <<kind, partial, synced, token, pc, bytes, hash, end, poller, ckpt, ckptDisk>>
  BY DEF Cancel, Pause, Remove, Answer, Unpause, Read, StoreSeen, Unlist, disk, manager, flags,
         plan

\* A removal takes the model and its row of the list under one hold of the lock.
LEMMA ControlPlaced ==
  ASSUME PlacedInv, NEW c \in Controls, Cancel(c) \/ Pause(c) \/ Remove(c) \/ Answer(c)
  PROVE  PlacedInv'
<1>1. /\ TypeOK /\ PathInv /\ FileInv /\ HoldInv /\ PlacedModelsAreWhole
      /\ UNCHANGED <<kind, partial, synced, token, pc, bytes, hash, end, poller, ckpt, ckptDisk>>
  BY ControlLeaves DEF PlacedInv
<1>2. PathInv' /\ FileInv'
  BY <1>1 DEF PathInv, FileInv, InFile
<1>3. ctl' \in [Controls -> {"idle", "unpause", "read", "store", "unlist"}]
      /\ \A d \in Controls \ {c} : ctl'[d] = ctl[d]
  BY <1>1 DEF TypeOK, Cancel, Pause, Remove, Answer, Unpause, Read, StoreSeen, Unlist, At,
              control
<1>4. seen' \in [Controls -> States \cup {"none"}]
  <2>1. UNCHANGED seen \/ \E s \in States \cup {"none"} : Sees(c, s)
    <3>1. Known \in States
      BY <1>1 DEF Known, TypeOK, Rows, States
    <3> QED BY <3>1 DEF Cancel, Pause, Remove, Answer, Unpause, Read, StoreSeen, Unlist, States
  <2> QED BY <1>1, <2>1 DEF TypeOK, Sees
<1>5. \A r \in Requests : r # c /\ r # None /\ c # None
  BY NamesAssumption
<1>6. CASE Remove(c) /\ mgr' # mgr
  <2>1. /\ mgr = None /\ mgr' = c /\ final' = "none" /\ torn' = torn
    BY <1>6 DEF Remove, Free
  <2>2. /\ \A r \in Requests : pc[r] \notin {"index", "row"}
        /\ \A d \in Controls : ctl[d] # "unlist"
    BY <1>1, <2>1, NamesAssumption DEF HoldInv
  <2>3. HoldInv'
    BY <1>1, <1>3, <2>1, <2>2 DEF HoldInv
  <2>4. PlacedModelsAreWhole'
    BY <1>5, <2>1, NamesAssumption DEF PlacedModelsAreWhole, Free
  <2> QED BY <1>1, <1>2, <1>3, <1>4, <2>1, <2>3, <2>4 DEF PlacedInv, TypeOK
<1>7. CASE Remove(c) /\ mgr' = mgr
  <2>1. /\ mgr = None /\ ctl' = ctl /\ installed' = installed
        /\ torn' = (torn \/ final' # final)
        /\ final' \in {final} \cup (IF kind = "fw" THEN {"bad"} ELSE {})
    BY <1>5, <1>7, NamesAssumption DEF Remove, Free
  <2>2. \A r \in Requests : pc[r] \notin {"index", "row"}
    BY <1>1, <2>1, NamesAssumption DEF HoldInv
  <2>3. HoldInv'
    BY <1>1, <1>7, <2>1, <2>2 DEF HoldInv
  <2>4. final' \in {"none", "good", "bad"} /\ (kind = "ggml" => final' = final)
    BY <1>1, <2>1 DEF TypeOK
  <2>5. installed /\ ~ torn' => final' = "good"
    <3> SUFFICES ASSUME installed, ~ torn'
                 PROVE  final' = "good"
      OBVIOUS
    <3>1. ~ torn /\ final' = final
      BY <2>1
    <3> QED BY <1>1, <2>1, <3>1 DEF PlacedModelsAreWhole, Free
  <2>6. PlacedModelsAreWhole'
    BY <1>1, <2>1, <2>4, <2>5 DEF PlacedModelsAreWhole
  <2> QED BY <1>1, <1>2, <1>3, <1>4, <1>7, <2>3, <2>4, <2>6 DEF PlacedInv, TypeOK
<1>8. CASE Unlist(c)
  <2>1. /\ mgr = c /\ mgr' = None /\ installed' = FALSE /\ final' = final /\ ctl'[c] = "idle"
    BY <1>1, <1>8 DEF Unlist, At, TypeOK, HoldInv
  <2>2. /\ \A r \in Requests : pc[r] \notin {"index", "row"}
        /\ \A d \in Controls \ {c} : ctl[d] # "unlist"
    BY <1>1, <1>5, <2>1 DEF HoldInv
  <2>3. HoldInv'
    BY <1>1, <1>3, <2>1, <2>2 DEF HoldInv
  <2>4. PlacedModelsAreWhole'
    BY <1>1, <2>1 DEF PlacedModelsAreWhole
  <2> QED BY <1>1, <1>2, <1>3, <1>4, <2>1, <2>3, <2>4 DEF PlacedInv, TypeOK
<1>9. CASE Cancel(c) \/ Pause(c) \/ Unpause(c) \/ Read(c) \/ StoreSeen(c)
  <2>1. /\ mgr' = mgr /\ installed' = installed /\ final' = final /\ torn' = torn
        /\ ctl'[c] # "unlist"
    BY <1>1, <1>9 DEF Cancel, Pause, Unpause, Read, StoreSeen, At, TypeOK, disk, manager
  <2>2. HoldInv'
    BY <1>1, <1>3, <2>1 DEF HoldInv
  <2>3. PlacedModelsAreWhole'
    BY <1>1, <2>1, Zenon DEF PlacedModelsAreWhole, Free
  <2> QED BY <1>1, <1>2, <1>3, <1>4, <2>1, <2>2, <2>3 DEF PlacedInv, TypeOK
<1> QED BY <1>6, <1>7, <1>8, <1>9 DEF Answer

\* A restart lists what is there.
LEMMA RestartPlaced ==
  ASSUME PlacedInv, Restart
  PROVE  PlacedInv'
<1>1. TypeOK /\ PlacedModelsAreWhole
  BY DEF PlacedInv
<1>2. partial' \in Seq(BOOLEAN)
  <2>1. PICK zeroed \in BOOLEAN : partial' = After(zeroed)
    BY DEF Restart
  <2> QED BY <1>1, <2>1, FileAfter
<1>3. /\ kind' = kind /\ final' = final /\ token' = None /\ mgr' = None /\ poller' = {}
      /\ pc' = [r \in Requests |-> "idle"] /\ end' = [r \in Requests |-> "none"]
      /\ bytes' = [r \in Requests |-> 0] /\ hash' = [r \in Requests |-> TRUE]
      /\ ctl' = [c \in Controls |-> "idle"] /\ seen' = [c \in Controls |-> "none"]
  BY DEF Restart
<1>4. TypeOK'
  <2>1. RestoredRow \in Rows
    <3>1. Len(partial) \in Nat /\ ckptDisk \in Rows
      BY <1>1, LenProperties DEF TypeOK
    <3> QED BY <3>1 DEF RestoredRow, Rows, NoRow, States
  <2>2. ckpt' \in Rows /\ ckptDisk' \in Rows
    BY <2>1 DEF Restart
  <2> QED BY <1>1, <1>2, <1>3, <2>2 DEF TypeOK, Pcs, Ends
<1>5. PathInv' /\ FileInv' /\ HoldInv'
  BY <1>3 DEF PathInv, FileInv, InFile, HoldInv, Streaming, Fetching, AtWork
<1>6. installed' => final = "good"
  <2>1. installed' => final # "none" /\ (kind = "fw" => final = "good")
    BY DEF Restart, Reconciled
  <2> QED BY <1>1, <2>1 DEF TypeOK, PlacedModelsAreWhole
<1>7. PlacedModelsAreWhole'
  BY <1>1, <1>3, <1>6 DEF PlacedModelsAreWhole
<1> QED BY <1>4, <1>5, <1>7 DEF PlacedInv

\* A poll and a resume touch none of it.
LEMMA AsidePlaced ==
  ASSUME PlacedInv, Resume \/ UNCHANGED vars \/ \E r \in Requests : Poll(r)
  PROVE  PlacedInv'
<1>1. UNCHANGED <<kind, partial, synced, final, installed, token, mgr, pc, end, bytes, hash, ctl,
                  seen, poller, torn, ckpt, ckptDisk>>
  BY DEF Resume, Poll, vars, disk, manager, flags, plan, control
<1>2. PlacedModelsAreWhole'
  BY <1>1, Zenon DEF PlacedInv, PlacedModelsAreWhole, Free
<1> QED BY <1>1, <1>2 DEF PlacedInv, TypeOK, PathInv, FileInv, InFile, HoldInv

\* The app starts with nothing.
LEMMA InitPlaced == Init => PlacedInv
<1> SUFFICES ASSUME Init
             PROVE  PlacedInv
  OBVIOUS
<1>1. TypeOK
  BY KindsAssumption, EmptyFile DEF Init, TypeOK, Pcs, Ends, Rows, NoRow
<1>2. PathInv /\ FileInv /\ HoldInv /\ PlacedModelsAreWhole
  BY DEF Init, PathInv, FileInv, InFile, HoldInv, PlacedModelsAreWhole, Streaming, Fetching,
         AtWork
<1> QED BY <1>1, <1>2 DEF PlacedInv

\* Every step keeps it.
LEMMA PlacedStep == PlacedInv /\ [Next]_vars => PlacedInv'
<1> SUFFICES ASSUME PlacedInv, [Next]_vars
             PROVE  PlacedInv'
  OBVIOUS
<1>1. ASSUME NEW r \in Requests, Register(r) \/ Transfer(r)
      PROVE  PlacedInv'
  BY <1>1, RequestPlaced DEF Goes
<1>2. ASSUME NEW c \in Controls, Cancel(c) \/ Pause(c) \/ Remove(c) \/ Answer(c)
      PROVE  PlacedInv'
  BY <1>2, ControlPlaced
<1>3. CASE Restart
  BY <1>3, RestartPlaced
<1>4. CASE Resume \/ UNCHANGED vars \/ \E r \in Requests : Poll(r)
  BY <1>4, AsidePlaced
<1> QED BY <1>1, <1>2, <1>3, <1>4 DEF Next

-----------------------------------------------------------------------------
(* The progress bar. *)

\* Only a request that ends goes to rest, and it says how it ended.
LEMMA RequestBar ==
  ASSUME TypeOK, PathInv, BarInv, NEW r \in Requests, Goes(r)
  PROVE  BarInv'
<1>1. /\ kind' = kind /\ ctl' = ctl /\ seen' = seen /\ Way(pc[r], pc'[r])
      /\ \A q \in Requests \ {r} : pc'[q] = pc[q]
  BY RequestMoves
<1>2. \A q \in poller' : pc'[q] \in {"prefetch", "join"}
  <2>1. CASE Prefetch(r)
    BY <1>1, <2>1 DEF Prefetch, Goto, TypeOK, BarInv, SeenInv
  <2>2. CASE JoinPoller(r)
    BY <1>1, <2>2 DEF JoinPoller, BarInv, SeenInv, TypeOK
  <2>3. CASE ~ (Prefetch(r) \/ JoinPoller(r))
    <3>1. poller' = poller
      BY <2>3 DEF Goes, Register, Transfer, ResetPause, Begin, OpenPass, IgnoreRange, Chunk,
             Stop, Interrupted, WaitOver, Broken, Verify, Mismatch, FinishStopped,
             FinishUnmoved, Move, List, DropRow, Announce, NoPrefetch, PrefetchDone,
             PrefetchFails, Unregister, Install, Store
    <3>2. r \in poller => pc'[r] = "join"
      <4>1. pc[r] = "join" => JoinPoller(r)
        BY DEF Goes, Register, Transfer, ResetPause, Begin, OpenPass, IgnoreRange, Chunk,
               Stop, Interrupted, WaitOver, Broken, Verify, Mismatch, FinishStopped,
               FinishUnmoved, Move, List, DropRow, Announce, NoPrefetch, Prefetch, PrefetchDone,
               PrefetchFails, Unregister, Install, Store
      <4> QED BY <1>1, <2>3, <4>1 DEF BarInv, SeenInv, Way
    <3> QED BY <1>1, <3>1, <3>2 DEF BarInv, SeenInv, TypeOK
  <2> QED BY <2>1, <2>2, <2>3
<1>3. kind = "fw" => ckpt' = NoRow /\ ckptDisk' = NoRow
  <2> SUFFICES ASSUME kind = "fw"
               PROVE  ckpt' = ckpt /\ ckptDisk' = ckptDisk
    BY DEF BarInv, SeenInv
  <2>1. pc[r] \notin Streaming
    BY DEF PathInv
  <2> QED BY <2>1 DEF Streaming, Goes, Register, Transfer, ResetPause, Begin, OpenPass,
             IgnoreRange, Chunk, Stop, Interrupted, WaitOver, Broken, Verify, Mismatch,
             FinishStopped, FinishUnmoved, Move, List, DropRow, Announce, NoPrefetch, Prefetch,
             PrefetchDone, PrefetchFails, JoinPoller, Unregister, Install, Store, disk, manager
<1>4. SeenInv'
  BY <1>1, <1>2, <1>3 DEF BarInv, SeenInv
<1>5. NoFrozenBar'
  <2>1. CASE Store(r)
    <3>1. statuses' = end[r] /\ shown' = end[r] /\ end[r] # "Downloading"
      BY <2>1 DEF Store, Tell, TypeOK, Ends
    <3> QED BY <3>1 DEF NoFrozenBar
  <2>2. CASE ~ Store(r)
    <3>1. pc'[r] # "idle"
      <4>1. pc[r] = "store" => Store(r)
        BY DEF Goes, Register, Transfer, ResetPause, Begin, OpenPass, IgnoreRange, Chunk,
               Stop, Interrupted, WaitOver, Broken, Verify, Mismatch, FinishStopped,
               FinishUnmoved, Move, List, DropRow, Announce, NoPrefetch, Prefetch, PrefetchDone,
               PrefetchFails, JoinPoller, Unregister, Install
      <4> QED BY <1>1, <2>2, <4>1 DEF Way
    <3> QED BY <3>1 DEF NoFrozenBar
  <2> QED BY <2>1, <2>2
<1> QED BY <1>4, <1>5 DEF BarInv

\* A control stores what it saw, and it saw no download that may be over.
LEMMA ControlBar ==
  ASSUME TypeOK, BarInv, NEW c \in Controls, Cancel(c) \/ Pause(c) \/ Remove(c) \/ Answer(c)
  PROVE  BarInv'
<1>1. UNCHANGED <<kind, pc, poller, ckpt, ckptDisk>>
  BY ControlLeaves
<1>2. \A d \in Controls \ {c} : ctl'[d] = ctl[d] /\ seen'[d] = seen[d]
  BY DEF TypeOK, Cancel, Pause, Remove, Answer, Unpause, Read, StoreSeen, Unlist, At, Sees,
         control
<1>3. seen'[c] # "Downloading"
  <2>1. Read(c) /\ seen[c] = "none" => Known # "Downloading"
    BY DEF Read, BarInv, SeenInv, TypeOK, Known, NoRow
  <2> QED BY <2>1 DEF TypeOK, BarInv, SeenInv, Cancel, Pause, Remove, Answer, Unpause, Read,
             StoreSeen, Unlist, At, Sees, control
<1>4. kind = "ggml" /\ ctl'[c] \in {"unpause", "read"} => seen'[c] # "none"
  BY DEF TypeOK, BarInv, SeenInv, Cancel, Pause, Remove, Answer, Unpause, Read, StoreSeen,
         Unlist, At, Sees, control
<1>5. SeenInv'
  BY <1>1, <1>2, <1>3, <1>4 DEF BarInv, SeenInv
<1>6. NoFrozenBar'
  <2>1. CASE StoreSeen(c)
    <3>1. statuses' # "Downloading" /\ shown' # "Downloading"
      BY <2>1 DEF StoreSeen, Tell, BarInv, SeenInv
    <3> QED BY <3>1 DEF NoFrozenBar
  <2>2. CASE Unlist(c)
    <3>1. kind = "fw" => ckpt.state = "none"
      BY DEF BarInv, SeenInv, NoRow
    <3>2. \/ statuses' = statuses /\ shown' = shown
          \/ statuses' = "none" /\ (kind = "fw" => shown' = "Idle")
      BY <2>2, <3>1 DEF Unlist, status
    <3> QED BY <1>1, <3>2 DEF NoFrozenBar, BarInv
  <2>3. CASE ~ (StoreSeen(c) \/ Unlist(c))
    <3>1. statuses' = statuses /\ shown' = shown
      BY <2>3 DEF Cancel, Pause, Remove, Answer, Unpause, Read, status
    <3> QED BY <1>1, <3>1 DEF NoFrozenBar, BarInv
  <2> QED BY <2>1, <2>2, <2>3
<1> QED BY <1>5, <1>6 DEF BarInv

\* Nothing is shown when the app starts.
LEMMA InitBar == Init => BarInv
  BY DEF Init, BarInv, SeenInv, NoFrozenBar

\* A restart starts over, with the row a download left.
LEMMA RestartBar ==
  ASSUME BarInv, Restart
  PROVE  BarInv'
<1>1. kind = "fw" => RestoredRow = NoRow
  BY DEF BarInv, SeenInv, RestoredRow, NoRow
<1>2. /\ kind' = kind /\ poller' = {} /\ statuses' = "none" /\ shown' = "none"
      /\ ctl' = [c \in Controls |-> "idle"] /\ seen' = [c \in Controls |-> "none"]
      /\ ckpt' = RestoredRow /\ ckptDisk' = RestoredRow
  BY DEF Restart
<1> QED BY <1>1, <1>2 DEF BarInv, SeenInv, NoFrozenBar

\* A poll tells of a request that is at work.
LEMMA AsideBar ==
  ASSUME BarInv, Resume \/ UNCHANGED vars \/ \E r \in Requests : Poll(r)
  PROVE  BarInv'
<1>1. UNCHANGED <<kind, pc, ctl, seen, poller, ckpt, ckptDisk, statuses>>
  BY DEF Resume, Poll, vars, disk, manager, control, status
<1>2. SeenInv'
  BY <1>1 DEF BarInv, SeenInv
<1>3. shown' = shown \/ \E r \in Requests : pc[r] # "idle"
  BY DEF Resume, Poll, vars, status, BarInv, SeenInv
<1> QED BY <1>1, <1>2, <1>3 DEF BarInv, NoFrozenBar

\* Every step keeps it.
LEMMA BarStep == PlacedInv /\ BarInv /\ [Next]_vars => BarInv'
<1> SUFFICES ASSUME PlacedInv, BarInv, [Next]_vars
             PROVE  BarInv'
  OBVIOUS
<1>1. ASSUME NEW r \in Requests, Register(r) \/ Transfer(r)
      PROVE  BarInv'
  BY <1>1, RequestBar DEF Goes, PlacedInv
<1>2. ASSUME NEW c \in Controls, Cancel(c) \/ Pause(c) \/ Remove(c) \/ Answer(c)
      PROVE  BarInv'
  BY <1>2, ControlBar DEF PlacedInv
<1>3. CASE Restart
  BY <1>3, RestartBar
<1>4. CASE Resume \/ UNCHANGED vars \/ \E r \in Requests : Poll(r)
  BY <1>4, AsideBar
<1> QED BY <1>1, <1>2, <1>3, <1>4 DEF Next

-----------------------------------------------------------------------------
(* The theorems. *)

\* Whatever was resumed, retried, lost or removed half-way, only a verified
\* file is placed, and a listed model is there to load unless a removal of it
\* was torn.
THEOREM ModelsAreWhole == Spec => []PlacedModelsAreWhole
<1>1. PlacedInv => PlacedModelsAreWhole
  BY DEF PlacedInv
<1> QED BY <1>1, InitPlaced, PlacedStep, PTL DEF Spec

\* Neither the stored status nor, for a faster-whisper model, the last event
\* says that a download runs when no request is at work.
THEOREM BarNeverFreezes == Spec => []NoFrozenBar
<1>1. BarInv => NoFrozenBar
  BY DEF BarInv
<1> QED BY <1>1, InitPlaced, InitBar, PlacedStep, BarStep, PTL DEF Spec
=============================================================================
