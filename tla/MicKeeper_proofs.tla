-------------------------- MODULE MicKeeper_proofs --------------------------
(***************************************************************************)
(* Proofs about MicKeeper: the newest capture keeps the keeper and its tap *)
(* for as long as it records, and what a capture hears is a gapless        *)
(* stretch of chunks, for any number of captures, devices, chunks, streams *)
(* and changes of Settings, and any ring size.                             *)
(***************************************************************************)
EXTENDS MicKeeper, TLAPS

Streams == [requested : Devices \cup {None}, generation : Nat, failed : BOOLEAN]

Keepers ==
  [device : Devices, keep : BOOLEAN, open : Streams, generation : Nat,
   nextId : Nat, capturing : Nat \cup {None}, warm : {"none", "on", "over"},
   retry : {"none", "later"}, ring : Seq(Nat), tap : Captures \cup {None}]

Commands ==
  [kind : {"begin"}, capture : Captures, device : Devices]
    \cup [kind : {"end"}, id : Nat]
    \cup [kind : {"configure"}, device : Devices, keep : BOOLEAN]
    \cup [kind : {"failed"}, generation : Nat]

TypeOK ==
  /\ mic \in Keepers
  /\ queue \in Seq(Commands)
  /\ pc \in [Captures -> {"idle", "waiting", "givingUp", "recording", "ending", "gone", "done"}]
  /\ reply \in [Captures -> {"none", "ok", "error"}]
  /\ id \in [Captures -> Nat \cup {None}]
  /\ heard \in [Captures -> Seq(Nat)]
  /\ chunk \in Nat /\ errors \subseteq Nat /\ configs \in Nat
  /\ chosen \in Devices

-----------------------------------------------------------------------------
(* What the calls and the channel hold. *)

\* A Begin in the channel is its caller's only one, and nobody answered it.
BeginsAreOpen ==
  /\ \A i \in DOMAIN queue : queue[i].kind = "begin" =>
       /\ reply[queue[i].capture] = "none"
       /\ pc[queue[i].capture] \in {"waiting", "givingUp", "gone"}
  /\ \A i, j \in DOMAIN queue :
       queue[i].kind = "begin" /\ queue[j].kind = "begin"
       /\ queue[i].capture = queue[j].capture => i = j

\* An id is one capture's, until its End takes it to the channel.
IdsAreOwned ==
  /\ \A c \in Captures : id[c] # None =>
       id[c] <= mic.nextId /\ reply[c] = "ok"
  /\ \A c, d \in Captures : id[c] # None /\ id[c] = id[d] => c = d
  /\ \A i \in DOMAIN queue : queue[i].kind = "end" =>
       /\ queue[i].id <= mic.nextId
       /\ \A c \in Captures : id[c] # queue[i].id

\* How far a call is tells what it was answered.
CallsAreInStep ==
  \A c \in Captures :
    /\ pc[c] = "idle" => reply[c] = "none"
    /\ reply[c] = "ok" /\ pc[c] # "done" => id[c] # None
    /\ pc[c] \in {"recording", "ending"} => reply[c] = "ok"

\* The newest id is captured until its End is handled, and tapped unless a
\* later press lost the stream.
NewestIsServed ==
  \A c \in Captures : id[c] # None /\ id[c] = mic.nextId =>
    /\ mic.capturing = id[c]
    /\ Hears(c) => \/ mic.tap = c
                   \/ \E d \in Captures \ {c} : reply[d] = "error" \/ pc[d] = "gone"

ServeInv ==
  TypeOK /\ BeginsAreOpen /\ IdsAreOwned /\ CallsAreInStep /\ NewestIsServed

-----------------------------------------------------------------------------
(* What the ring and the captures heard. *)

Gapless(s) == \A i \in 1 .. Len(s) - 1 : s[i + 1] = s[i] + 1

\* A stretch the next chunk continues.
UpToDate(s, n) == Gapless(s) /\ (s # << >> => s[Len(s)] = n)

HeardInv ==
  /\ UpToDate(mic.ring, chunk)
  /\ mic.tap # None => mic.ring = << >> /\ UpToDate(heard[mic.tap], chunk)
  /\ \A c \in Captures : Gapless(heard[c])

-----------------------------------------------------------------------------
(* The helpers of the keeper. *)

\* What opening and closing streams leaves of a keeper: the capture it runs,
\* and of the ring and the tap what it does not drop.
Kept(m, n) ==
  /\ n \in Keepers /\ n.nextId = m.nextId /\ n.capturing = m.capturing
  /\ n.ring \in {m.ring, << >>} /\ n.tap \in {m.tap, None}

\* NoStream is a stream record.
LEMMA NoStreamType == NoStream \in Streams
  BY DEF NoStream, Streams

\* What is kept twice is kept.
LEMMA KeptTwice ==
  ASSUME NEW m \in Keepers, NEW n, NEW k, Kept(m, n), Kept(n, k)
  PROVE  Kept(m, k)
  BY DEF Kept

\* Closing drops the ring and the tap, or nothing.
LEMMA CloseKeeps ==
  ASSUME NEW m \in Keepers
  PROVE  Kept(m, Close(m))
<1>1. << >> \in Seq(Nat)
  OBVIOUS
<1>2. CASE m.open = NoStream
  BY <1>2 DEF Kept, Close
<1>3. CASE m.open # NoStream
  <2> DEFINE n == [m EXCEPT !.open = NoStream, !.ring = << >>, !.tap = None]
  <2>1. n \in Keepers
    BY <1>1, NoStreamType DEF Keepers
  <2>2. /\ n.nextId = m.nextId /\ n.capturing = m.capturing
        /\ n.ring = << >> /\ n.tap = None
    BY DEF Keepers
  <2>3. Close(m) = n
    BY <1>3 DEF Close
  <2> HIDE DEF n
  <2> QED BY <2>1, <2>2, <2>3 DEF Kept
<1> QED BY <1>2, <1>3

\* Opening drops the ring alone.
LEMMA OpenedKeeps ==
  ASSUME NEW m \in Keepers, NEW n \in Opened(m)
  PROVE  Kept(m, n)
<1> DEFINE s == [requested |-> m.device, generation |-> m.generation + 1, failed |-> FALSE]
           g == m.generation + 1
           o == [m EXCEPT !.open = s, !.generation = g, !.ring = << >>, !.retry = "none"]
<1>1. n = o
  BY DEF Opened, Keepers
<1>2. s \in Streams /\ g \in Nat /\ << >> \in Seq(Nat)
  BY DEF Keepers, Streams
<1> HIDE DEF s, g
<1>3. o \in Keepers
  BY <1>2 DEF Keepers
<1>4. /\ o.nextId = m.nextId /\ o.capturing = m.capturing
      /\ o.ring = << >> /\ o.tap = m.tap
  BY DEF Keepers
<1> QED BY <1>1, <1>3, <1>4 DEF Kept

\* So does failing to open.
LEMMA OpenFailedKeeps ==
  ASSUME NEW m \in Keepers
  PROVE  Kept(m, OpenFailed(m))
<1> DEFINE o == OpenFailed(m)
<1>1. << >> \in Seq(Nat)
  OBVIOUS
<1>2. o \in Keepers
  BY <1>1 DEF OpenFailed, Keepers
<1>3. /\ o.nextId = m.nextId /\ o.capturing = m.capturing
      /\ o.ring = << >> /\ o.tap = m.tap
  BY DEF OpenFailed, Keepers
<1> QED BY <1>2, <1>3 DEF Kept

\* The check for a stale stream closes it or lets it be.
LEMMA CloseStaleKeeps ==
  ASSUME NEW m \in Keepers, NEW n \in CloseStale(m)
  PROVE  Kept(m, n)
<1>1. n = m \/ n = Close(m)
  BY DEF CloseStale
<1>2. Kept(m, m)
  BY DEF Kept
<1> QED BY <1>1, <1>2, CloseKeeps

\* A stream that is wanted and missing is opened, or not.
LEMMA ReopenKeeps ==
  ASSUME NEW m \in Keepers, NEW n \in Reopen(m)
  PROVE  Kept(m, n)
<1>1. Kept(m, m)
  BY DEF Kept
<1>2. n = m \/ n \in Opened(m) \/ n = OpenFailed(m)
  BY DEF Reopen
<1> QED BY <1>1, <1>2, OpenedKeeps, OpenFailedKeeps

\* settle keeps the keeper's capture, and changes nothing while one runs.
LEMMA SettledKeeps ==
  ASSUME NEW m \in Keepers, NEW n \in Settled(m)
  PROVE  Kept(m, n) /\ (m.capturing # None => n = m)
<1>1. CASE m.capturing # None
  BY <1>1 DEF Settled, Kept
<1>2. CASE m.capturing = None
  <2>1. PICK k \in CloseStale(m) : n \in Reopen(CloseUnwanted(k))
    BY <1>2 DEF Settled
  <2>2. Kept(m, k) /\ k \in Keepers
    BY CloseStaleKeeps DEF Kept
  <2>3. Kept(k, CloseUnwanted(k)) /\ CloseUnwanted(k) \in Keepers
    BY <2>2, CloseKeeps DEF CloseUnwanted, Kept
  <2>4. Kept(CloseUnwanted(k), n)
    BY <2>1, <2>3, ReopenKeeps
  <2> QED BY <1>2, <2>2, <2>3, <2>4, KeptTwice
<1> QED BY <1>1, <1>2

\* An End stops the capture it names and no other.
LEMMA EndedStops ==
  ASSUME NEW m \in Keepers, NEW k, NEW n \in Ended(m, k)
  PROVE  /\ n \in Keepers /\ n.nextId = m.nextId /\ n.ring \in {m.ring, << >>}
         /\ m.capturing # k => n = m
         /\ m.capturing = k => n.capturing = None /\ n.tap = None
<1>1. CASE m.capturing # k
  BY <1>1 DEF Ended
<1>2. CASE m.capturing = k
  <2> DEFINE warm == IF m.open.requested \in Headsets /\ ~ m.keep THEN "none" ELSE "on"
             e == [m EXCEPT !.capturing = None, !.tap = None, !.warm = warm]
  <2>1. n \in Settled(e)
    BY <1>2 DEF Ended
  <2>2. e \in Keepers /\ e.nextId = m.nextId /\ e.ring = m.ring
        /\ e.capturing = None /\ e.tap = None
    BY DEF Keepers
  <2> HIDE DEF e
  <2>3. Kept(e, n)
    BY <2>1, <2>2, SettledKeeps
  <2> QED BY <1>2, <2>2, <2>3 DEF Kept
<1> QED BY <1>1, <1>2

\* A change of Settings takes nothing from a running capture.
LEMMA ConfiguredKeeps ==
  ASSUME NEW m \in Keepers, NEW d \in Devices, NEW keep \in BOOLEAN,
         NEW n \in Configured(m, d, keep)
  PROVE  Kept(m, n) /\ (m.capturing # None => n.tap = m.tap)
<1> DEFINE off == m.keep /\ ~ keep
           set == [m EXCEPT !.device = d, !.keep = keep, !.retry = "none",
                            !.warm = IF off THEN "none" ELSE @]
<1>1. set \in Keepers /\ Kept(m, set) /\ set.tap = m.tap /\ set.capturing = m.capturing
  BY DEF Keepers, Kept
<1>2. n = m \/ n \in Settled(IF off /\ m.capturing = None THEN Close(set) ELSE set)
  BY DEF Configured
<1> HIDE DEF set
<1>3. CASE n = m
  BY <1>3 DEF Kept
<1>4. CASE n \in Settled(Close(set)) /\ m.capturing = None
  <2>1. Kept(set, Close(set)) /\ Close(set) \in Keepers
    BY <1>1, CloseKeeps DEF Kept
  <2>2. Kept(Close(set), n)
    BY <1>4, <2>1, SettledKeeps
  <2> QED BY <1>1, <1>4, <2>1, <2>2, KeptTwice
<1>5. CASE n \in Settled(set)
  <2>1. Kept(set, n) /\ (set.capturing # None => n = set)
    BY <1>1, <1>5, SettledKeeps
  <2> QED BY <1>1, <2>1, KeptTwice
<1> QED BY <1>2, <1>3, <1>4, <1>5

\* Nor does a stream's error, late or not.
LEMMA FailedKeeps ==
  ASSUME NEW m \in Keepers, NEW g \in Nat, NEW n \in Failed(m, g)
  PROVE  Kept(m, n) /\ (m.capturing # None => n.tap = m.tap)
<1> DEFINE f == IF m.open # NoStream /\ m.open.generation = g
                THEN [m EXCEPT !.open.failed = TRUE] ELSE m
<1>1. f \in Keepers /\ Kept(m, f) /\ f.tap = m.tap /\ f.capturing = m.capturing
  BY DEF Keepers, Kept, Streams
<1>2. n \in Settled(f)
  BY DEF Failed
<1> HIDE DEF f
<1>3. Kept(f, n) /\ (f.capturing # None => n = f)
  BY <1>1, <1>2, SettledKeeps
<1> QED BY <1>1, <1>3, KeptTwice

\* A press keeps the ring of a stream that can stay.
LEMMA OpenForPressKeeps ==
  ASSUME NEW m \in Keepers, NEW n \in OpenForPress(m)
  PROVE  Kept(m, n)
<1>1. PICK k \in CloseStale(m) : n = k \/ n \in Opened(k)
  BY DEF OpenForPress
<1>2. Kept(m, k) /\ k \in Keepers
  BY CloseStaleKeeps DEF Kept
<1>3. n \in Opened(k) => Kept(k, n)
  BY <1>2, OpenedKeeps
<1> QED BY <1>1, <1>2, <1>3, KeptTwice

-----------------------------------------------------------------------------
(* The channel. *)

\* The keeper takes the oldest command; the others move up.
LEMMA TakeHead ==
  ASSUME TypeOK, NEW kind, Take(kind)
  PROVE  /\ Head(queue) = queue[1] /\ 1 \in DOMAIN queue
         /\ Head(queue) \in Commands /\ Head(queue).kind = kind
         /\ queue' \in Seq(Commands)
         /\ \A i \in DOMAIN queue' : i + 1 \in DOMAIN queue /\ queue'[i] = queue[i + 1]
<1>1. queue \in Seq(Commands) /\ queue # << >> /\ queue' = Tail(queue)
      /\ Head(queue).kind = kind
  BY DEF TypeOK, Take
<1>2. Head(queue) = queue[1] /\ 1 \in DOMAIN queue /\ queue[1] \in Commands
  BY <1>1
<1> QED BY <1>1, <1>2

\* A command that is sent is the newest; the others stay where they are.
LEMMA SendLast ==
  ASSUME TypeOK, NEW x \in Commands, queue' = Append(queue, x)
  PROVE  /\ queue' \in Seq(Commands)
         /\ \A i \in DOMAIN queue' :
              \/ i \in DOMAIN queue /\ queue'[i] = queue[i]
              \/ i = Len(queue) + 1 /\ i \notin DOMAIN queue /\ queue'[i] = x
<1>1. queue \in Seq(Commands)
  BY DEF TypeOK
<1> QED BY <1>1

\* What each kind of command carries.
LEMMA CommandFields ==
  ASSUME NEW x \in Commands
  PROVE  /\ x.kind \in {"begin", "end", "configure", "failed"}
         /\ x.kind = "begin" => x.capture \in Captures /\ x.device \in Devices
         /\ x.kind = "end" => x.id \in Nat
         /\ x.kind = "configure" => x.device \in Devices /\ x.keep \in BOOLEAN
         /\ x.kind = "failed" => x.generation \in Nat
  BY DEF Commands

\* None is none of the things it stands beside.
LEMMA NoneApart == None \notin Captures /\ None \notin Devices /\ None \notin Nat
  BY MicAssumption

-----------------------------------------------------------------------------
(* The newest capture. *)

\* The channel's part and the calls' part outlive a step that leaves the calls
\* as they were, takes at most one command and counts at most one id.
LEMMA CallsStay ==
  ASSUME ServeInv, UNCHANGED callVars, mic' \in Keepers,
         mic'.nextId \in {mic.nextId, mic.nextId + 1},
         \/ queue' = queue
         \/ \E kind \in {"configure", "end", "failed", "begin"} : Take(kind)
  PROVE  queue' \in Seq(Commands) /\ BeginsAreOpen' /\ IdsAreOwned' /\ CallsAreInStep'
<1> DEFINE from(i) == IF queue' = queue THEN i ELSE i + 1
<1>1. /\ TypeOK /\ BeginsAreOpen /\ IdsAreOwned /\ CallsAreInStep
      /\ pc' = pc /\ reply' = reply /\ id' = id
  BY DEF ServeInv, callVars
<1>2. /\ queue' \in Seq(Commands)
      /\ \A i \in DOMAIN queue' : from(i) \in DOMAIN queue /\ queue'[i] = queue[from(i)]
  <2>1. CASE queue' = queue
    BY <1>1, <2>1 DEF TypeOK
  <2>2. CASE queue' # queue
    <3>1. PICK kind : Take(kind)
      BY <2>2
    <3> QED BY <1>1, <2>2, <3>1, TakeHead
  <2> QED BY <2>1, <2>2
<1>3. \A i, j \in DOMAIN queue' : from(i) = from(j) => i = j
  <2>1. DOMAIN queue' \subseteq Nat
    BY <1>2
  <2> QED BY <2>1
<1> HIDE DEF from
<1>4. BeginsAreOpen'
  <2>1. ASSUME NEW i \in DOMAIN queue', queue'[i].kind = "begin"
        PROVE  /\ reply'[queue'[i].capture] = "none"
               /\ pc'[queue'[i].capture] \in {"waiting", "givingUp", "gone"}
    BY <1>1, <1>2, <2>1 DEF BeginsAreOpen
  <2>2. ASSUME NEW i \in DOMAIN queue', NEW j \in DOMAIN queue',
               queue'[i].kind = "begin", queue'[j].kind = "begin",
               queue'[i].capture = queue'[j].capture
        PROVE  i = j
    <3>1. from(i) \in DOMAIN queue /\ from(j) \in DOMAIN queue
          /\ queue'[i] = queue[from(i)] /\ queue'[j] = queue[from(j)]
      BY <1>2
    <3>2. from(i) = from(j)
      BY <1>1, <2>2, <3>1 DEF BeginsAreOpen
    <3> QED BY <1>3, <3>2
  <2> QED BY <2>1, <2>2 DEF BeginsAreOpen
<1>5. IdsAreOwned'
  <2>1. mic.nextId \in Nat
    BY <1>1 DEF TypeOK, Keepers
  <2>2. \A c \in Captures : id[c] # None => id[c] \in Nat
    BY <1>1 DEF TypeOK
  <2>3. \A i \in DOMAIN queue : queue[i].kind = "end" => queue[i].id \in Nat
    BY <1>1, CommandFields DEF TypeOK
  <2>4. \A c \in Captures : id'[c] # None => id'[c] <= mic'.nextId /\ reply'[c] = "ok"
    BY <1>1, <2>1, <2>2 DEF IdsAreOwned
  <2>5. ASSUME NEW i \in DOMAIN queue', queue'[i].kind = "end"
        PROVE  /\ queue'[i].id <= mic'.nextId
               /\ \A c \in Captures : id'[c] # queue'[i].id
    <3>1. from(i) \in DOMAIN queue /\ queue'[i] = queue[from(i)]
      BY <1>2
    <3>2. /\ queue[from(i)].id \in Nat /\ queue[from(i)].id <= mic.nextId
          /\ \A c \in Captures : id[c] # queue[from(i)].id
      BY <1>1, <2>3, <2>5, <3>1 DEF IdsAreOwned
    <3> QED BY <1>1, <2>1, <3>1, <3>2
  <2> QED BY <1>1, <2>4, <2>5 DEF IdsAreOwned
<1>6. CallsAreInStep'
  BY <1>1 DEF CallsAreInStep
<1> QED BY <1>2, <1>4, <1>5, <1>6

\* It is still served if the running capture keeps its tap, or none ran.
LEMMA StillServed ==
  ASSUME ServeInv, UNCHANGED callVars, mic'.nextId = mic.nextId,
         mic.capturing # None => mic'.capturing = mic.capturing /\ mic'.tap = mic.tap
  PROVE  NewestIsServed'
<1> SUFFICES ASSUME NEW c \in Captures, id[c] # None, id[c] = mic.nextId
             PROVE  /\ mic'.capturing = id[c]
                    /\ Hears(c) => \/ mic'.tap = c
                                   \/ \E d \in Captures \ {c} :
                                        reply[d] = "error" \/ pc[d] = "gone"
  BY DEF NewestIsServed, callVars, Hears
<1>1. /\ mic.capturing = id[c]
      /\ Hears(c) => \/ mic.tap = c
                     \/ \E d \in Captures \ {c} : reply[d] = "error" \/ pc[d] = "gone"
  BY DEF ServeInv, NewestIsServed
<1> QED BY <1>1

\* A change of Settings is handled.
LEMMA ConfigureServes ==
  ASSUME ServeInv, HandleConfigure
  PROVE  ServeInv'
<1> DEFINE x == Head(queue)
<1>1. TypeOK /\ Take("configure") /\ mic' \in Configured(mic, x.device, x.keep)
      /\ UNCHANGED <<callVars, heard, chunk, errors, chosen, configs>>
  BY DEF ServeInv, HandleConfigure
<1>2. x \in Commands /\ x.kind = "configure"
  BY <1>1, TakeHead
<1>3. Kept(mic, mic') /\ (mic.capturing # None => mic'.tap = mic.tap)
  BY <1>1, <1>2, CommandFields, ConfiguredKeeps DEF TypeOK
<1>4. mic' \in Keepers /\ mic'.nextId = mic.nextId /\ mic'.capturing = mic.capturing
  BY <1>3 DEF Kept
<1>5. queue' \in Seq(Commands) /\ BeginsAreOpen' /\ IdsAreOwned' /\ CallsAreInStep'
  BY <1>1, <1>4, CallsStay
<1>6. NewestIsServed'
  BY <1>1, <1>3, <1>4, StillServed
<1>7. TypeOK'
  BY <1>1, <1>4, <1>5 DEF TypeOK, callVars
<1> QED BY <1>5, <1>6, <1>7 DEF ServeInv

\* A stream's error is handled.
LEMMA FailedServes ==
  ASSUME ServeInv, HandleFailed
  PROVE  ServeInv'
<1> DEFINE x == Head(queue)
<1>1. TypeOK /\ Take("failed") /\ mic' \in Failed(mic, x.generation)
      /\ UNCHANGED <<callVars, heard, chunk, errors, chosen, configs>>
  BY DEF ServeInv, HandleFailed
<1>2. x \in Commands /\ x.kind = "failed"
  BY <1>1, TakeHead
<1>3. Kept(mic, mic') /\ (mic.capturing # None => mic'.tap = mic.tap)
  BY <1>1, <1>2, CommandFields, FailedKeeps DEF TypeOK
<1>4. mic' \in Keepers /\ mic'.nextId = mic.nextId /\ mic'.capturing = mic.capturing
  BY <1>3 DEF Kept
<1>5. queue' \in Seq(Commands) /\ BeginsAreOpen' /\ IdsAreOwned' /\ CallsAreInStep'
  BY <1>1, <1>4, CallsStay
<1>6. NewestIsServed'
  BY <1>1, <1>3, <1>4, StillServed
<1>7. TypeOK'
  BY <1>1, <1>4, <1>5 DEF TypeOK, callVars
<1> QED BY <1>5, <1>6, <1>7 DEF ServeInv

\* An End is handled: it names no capture that still has its id.
LEMMA EndServes ==
  ASSUME ServeInv, HandleEnd
  PROVE  ServeInv'
<1> DEFINE x == Head(queue)
<1>1. TypeOK /\ Take("end") /\ mic' \in Ended(mic, x.id)
      /\ UNCHANGED <<callVars, heard, chunk, errors, chosen, configs>>
  BY DEF ServeInv, HandleEnd
<1>2. x \in Commands /\ x.kind = "end" /\ x = queue[1] /\ 1 \in DOMAIN queue
  BY <1>1, TakeHead
<1>3. /\ mic' \in Keepers /\ mic'.nextId = mic.nextId
      /\ mic.capturing # x.id => mic' = mic
  BY <1>1, <1>2, CommandFields, EndedStops DEF TypeOK
<1>4. queue' \in Seq(Commands) /\ BeginsAreOpen' /\ IdsAreOwned' /\ CallsAreInStep'
  BY <1>1, <1>3, CallsStay
<1>5. NewestIsServed'
  <2>1. CASE mic.capturing # x.id
    BY <1>1, <1>3, <2>1, StillServed
  <2>2. CASE mic.capturing = x.id
    <3>1. \A c \in Captures : id[c] # x.id
      BY <1>2 DEF ServeInv, IdsAreOwned
    <3>2. \A c \in Captures : ~ (id[c] # None /\ id[c] = mic.nextId)
      BY <2>2, <3>1 DEF ServeInv, NewestIsServed
    <3> QED BY <1>1, <1>3, <3>2 DEF NewestIsServed, callVars
  <2> QED BY <2>1, <2>2
<1>6. TypeOK'
  BY <1>1, <1>3, <1>4 DEF TypeOK, callVars
<1> QED BY <1>4, <1>5, <1>6 DEF ServeInv

\* A wake-up finds no capture running.
LEMMA WakeServes ==
  ASSUME ServeInv, Wake
  PROVE  ServeInv'
<1>1. TypeOK /\ mic.capturing = None /\ mic' \in Settled(mic) /\ queue' = queue
      /\ UNCHANGED <<callVars, heard, chunk, errors, chosen, configs>>
  BY DEF ServeInv, Wake
<1>2. Kept(mic, mic')
  BY <1>1, SettledKeeps DEF TypeOK
<1>3. mic' \in Keepers /\ mic'.nextId = mic.nextId
  BY <1>2 DEF Kept
<1>4. queue' \in Seq(Commands) /\ BeginsAreOpen' /\ IdsAreOwned' /\ CallsAreInStep'
  BY <1>1, <1>3, CallsStay
<1>5. NewestIsServed'
  BY <1>1, <1>3, StillServed
<1>6. TypeOK'
  BY <1>1, <1>3 DEF TypeOK, callVars
<1> QED BY <1>4, <1>5, <1>6 DEF ServeInv

\* A press is handled: its capture gets a new id, and with it the tap.
LEMMA BeginServes ==
  ASSUME ServeInv, HandleBegin
  PROVE  ServeInv'
<1> DEFINE x == Head(queue)
           c == x.capture
           asked == [mic EXCEPT !.device = x.device]
<1>1. TypeOK /\ Take("begin") /\ UNCHANGED <<pc, chunk, errors, chosen, configs>>
  BY DEF ServeInv, HandleBegin
<1>2. /\ x \in Commands /\ x.kind = "begin" /\ x = queue[1] /\ 1 \in DOMAIN queue
      /\ c \in Captures /\ x.device \in Devices /\ queue \in Seq(Commands)
  BY <1>1, TakeHead, CommandFields DEF TypeOK
<1>3. /\ queue' \in Seq(Commands)
      /\ \A i \in DOMAIN queue' : i + 1 \in DOMAIN queue /\ queue'[i] = queue[i + 1]
  BY <1>1, TakeHead
<1>4. asked \in Keepers /\ asked.nextId = mic.nextId
  BY <1>1, <1>2 DEF TypeOK, Keepers
<1>5. PICK m \in OpenForPress(asked) :
        LET begun == Tapped(m, c) IN
        IF Listens(c)
        THEN /\ mic' = begun
             /\ id' = [id EXCEPT ![c] = begun.capturing]
             /\ heard' = [heard EXCEPT ![c] = m.ring]
             /\ reply' = [reply EXCEPT ![c] = "ok"]
        ELSE /\ mic' \in Ended(begun, begun.capturing)
             /\ UNCHANGED <<id, heard, reply>>
  BY DEF HandleBegin
<1> HIDE DEF x, c, asked
<1>6. m \in Keepers /\ m.nextId = mic.nextId
  BY <1>4, OpenForPressKeeps DEF Kept
<1> DEFINE begun == Tapped(m, c)
<1>7. /\ begun \in Keepers /\ begun.nextId = mic.nextId + 1
      /\ begun.capturing = mic.nextId + 1 /\ begun.tap = c
  <2>1. m.nextId + 1 \in Nat /\ << >> \in Seq(Nat) /\ c \in Captures
    BY <1>2, <1>6 DEF Keepers
  <2> QED BY <1>6, <2>1 DEF Tapped, Keepers
<1>8. /\ BeginsAreOpen /\ IdsAreOwned /\ CallsAreInStep /\ mic.nextId \in Nat
      /\ \A d \in Captures : id[d] # None => id[d] \in Nat /\ id[d] <= mic.nextId
  BY <1>1 DEF ServeInv, TypeOK, Keepers, IdsAreOwned
<1> HIDE DEF begun
<1>9. CASE Listens(c)
  <2>1. /\ mic' = begun /\ id' = [id EXCEPT ![c] = mic.nextId + 1]
        /\ heard' = [heard EXCEPT ![c] = m.ring] /\ reply' = [reply EXCEPT ![c] = "ok"]
    BY <1>5, <1>7, <1>9 DEF begun
  <2>2. /\ id'[c] = mic.nextId + 1 /\ reply'[c] = "ok"
        /\ \A d \in Captures \ {c} : id'[d] = id[d] /\ reply'[d] = reply[d]
    BY <1>1, <1>2, <2>1 DEF TypeOK
  <2>3. reply[c] = "none" /\ id[c] = None /\ pc[c] \in {"waiting", "givingUp"}
    BY <1>2, <1>8, <1>9 DEF BeginsAreOpen, IdsAreOwned, c, Listens
  <2>4. TypeOK'
    <3>1. m.ring \in Seq(Nat)
      BY <1>6 DEF Keepers
    <3> QED BY <1>1, <1>2, <1>3, <1>7, <1>8, <2>1, <3>1 DEF TypeOK
  <2>5. BeginsAreOpen'
    <3>1. ASSUME NEW i \in DOMAIN queue', queue'[i].kind = "begin"
          PROVE  queue'[i].capture # c
      <4>1. i + 1 \in DOMAIN queue /\ queue[i + 1] = queue'[i] /\ i + 1 # 1
        BY <1>3
      <4> QED BY <1>2, <1>8, <3>1, <4>1 DEF BeginsAreOpen, c
    <3>2. ASSUME NEW i \in DOMAIN queue', queue'[i].kind = "begin"
          PROVE  /\ reply'[queue'[i].capture] = "none"
                 /\ pc'[queue'[i].capture] \in {"waiting", "givingUp", "gone"}
      <4>1. /\ i + 1 \in DOMAIN queue /\ queue[i + 1] = queue'[i]
            /\ queue'[i].capture \in Captures \ {c}
        BY <1>3, <3>1, <3>2, CommandFields
      <4> QED BY <1>1, <1>8, <2>2, <3>2, <4>1 DEF BeginsAreOpen
    <3>3. ASSUME NEW i \in DOMAIN queue', NEW j \in DOMAIN queue',
                 queue'[i].kind = "begin", queue'[j].kind = "begin",
                 queue'[i].capture = queue'[j].capture
          PROVE  i = j
      <4>1. /\ i + 1 \in DOMAIN queue /\ queue[i + 1] = queue'[i]
            /\ j + 1 \in DOMAIN queue /\ queue[j + 1] = queue'[j]
            /\ i \in Nat /\ j \in Nat
        BY <1>3
      <4>2. i + 1 = j + 1
        BY <1>8, <3>3, <4>1 DEF BeginsAreOpen
      <4> QED BY <4>1, <4>2
    <3> QED BY <3>2, <3>3 DEF BeginsAreOpen
  <2>6. IdsAreOwned'
    <3>1. \A d \in Captures : id'[d] # None => id'[d] <= mic'.nextId /\ reply'[d] = "ok"
      BY <1>7, <1>8, <2>1, <2>2 DEF IdsAreOwned
    <3>2. \A d, e \in Captures : id'[d] # None /\ id'[d] = id'[e] => d = e
      BY <1>8, <2>2 DEF IdsAreOwned
    <3>3. ASSUME NEW i \in DOMAIN queue', queue'[i].kind = "end"
          PROVE  /\ queue'[i].id <= mic'.nextId
                 /\ \A d \in Captures : id'[d] # queue'[i].id
      <4>1. /\ i + 1 \in DOMAIN queue /\ queue[i + 1] = queue'[i]
            /\ queue'[i].id \in Nat
        BY <1>3, <3>3, CommandFields
      <4>2. queue'[i].id <= mic.nextId /\ \A d \in Captures : id[d] # queue'[i].id
        BY <1>8, <3>3, <4>1 DEF IdsAreOwned
      <4> QED BY <1>7, <1>8, <2>1, <2>2, <4>1, <4>2
    <3> QED BY <3>1, <3>2, <3>3 DEF IdsAreOwned
  <2>7. CallsAreInStep'
    <3>1. id'[c] # None
      BY <1>8, <2>2, NoneApart
    <3> QED BY <1>1, <1>8, <2>2, <2>3, <3>1 DEF CallsAreInStep
  <2>8. NewestIsServed'
    <3>1. ASSUME NEW d \in Captures, id'[d] # None, id'[d] = mic'.nextId
          PROVE  d = c
      BY <1>7, <1>8, <2>1, <2>2, <3>1
    <3> QED BY <1>7, <2>1, <2>2, <3>1 DEF NewestIsServed
  <2> QED BY <2>4, <2>5, <2>6, <2>7, <2>8 DEF ServeInv
<1>10. CASE ~ Listens(c)
  <2>1. mic' \in Ended(begun, begun.capturing) /\ id' = id /\ heard' = heard /\ reply' = reply
    BY <1>5, <1>10 DEF begun
  <2>2. mic' \in Keepers /\ mic'.nextId = mic.nextId + 1
    BY <1>7, <2>1, EndedStops
  <2>3. queue' \in Seq(Commands) /\ BeginsAreOpen' /\ IdsAreOwned' /\ CallsAreInStep'
    BY <1>1, <2>1, <2>2, CallsStay DEF callVars
  <2>4. NewestIsServed'
    BY <1>8, <2>1, <2>2 DEF NewestIsServed
  <2>5. TypeOK'
    BY <1>1, <2>1, <2>2, <2>3 DEF TypeOK
  <2> QED BY <2>3, <2>4, <2>5 DEF ServeInv
<1> QED BY <1>9, <1>10

\* A press that finds no stream may take the tap with it; it tells its caller,
\* or the caller has gone.
LEMMA BeginFailsServes ==
  ASSUME ServeInv, HandleBeginFails
  PROVE  ServeInv'
<1> DEFINE x == Head(queue)
           c == x.capture
           asked == [mic EXCEPT !.device = x.device]
<1>1. /\ TypeOK /\ Take("begin") /\ UNCHANGED <<pc, id, heard, chunk, errors, chosen, configs>>
      /\ reply' = IF Listens(c) THEN [reply EXCEPT ![c] = "error"] ELSE reply
  BY DEF ServeInv, HandleBeginFails
<1>2. /\ x \in Commands /\ x.kind = "begin" /\ x = queue[1] /\ 1 \in DOMAIN queue
      /\ c \in Captures /\ x.device \in Devices /\ queue \in Seq(Commands)
  BY <1>1, TakeHead, CommandFields DEF TypeOK
<1>3. /\ queue' \in Seq(Commands)
      /\ \A i \in DOMAIN queue' : i + 1 \in DOMAIN queue /\ queue'[i] = queue[i + 1]
  BY <1>1, TakeHead
<1>4. asked \in Keepers /\ asked.nextId = mic.nextId /\ asked.capturing = mic.capturing
  BY <1>1, <1>2 DEF TypeOK, Keepers
<1>5. PICK m \in CloseStale(asked) : mic' = OpenFailed(m)
  BY DEF HandleBeginFails
<1> HIDE DEF x, c, asked
<1>6. mic' \in Keepers /\ mic'.nextId = mic.nextId /\ mic'.capturing = mic.capturing
  BY <1>4, <1>5, CloseStaleKeeps, OpenFailedKeeps DEF Kept
<1>7. BeginsAreOpen /\ IdsAreOwned /\ CallsAreInStep /\ NewestIsServed
  BY DEF ServeInv
<1>8. /\ reply[c] = "none" /\ pc[c] \in {"waiting", "givingUp", "gone"} /\ id[c] = None
      /\ \A d \in Captures \ {c} : reply'[d] = reply[d]
      /\ reply'[c] \in {"none", "error"}
      /\ reply'[c] = "error" \/ pc[c] = "gone"
  BY <1>1, <1>2, <1>7 DEF TypeOK, BeginsAreOpen, IdsAreOwned, c, Listens
<1>9. TypeOK'
  BY <1>1, <1>2, <1>3, <1>6 DEF TypeOK
<1>10. BeginsAreOpen'
  <2>1. ASSUME NEW i \in DOMAIN queue', queue'[i].kind = "begin"
        PROVE  /\ reply'[queue'[i].capture] = "none"
               /\ pc'[queue'[i].capture] \in {"waiting", "givingUp", "gone"}
    <3>1. /\ i + 1 \in DOMAIN queue /\ queue[i + 1] = queue'[i] /\ i + 1 # 1
          /\ queue'[i].capture \in Captures
      BY <1>3, <2>1, CommandFields
    <3>2. queue'[i].capture # c
      BY <1>2, <1>7, <2>1, <3>1 DEF BeginsAreOpen, c
    <3> QED BY <1>1, <1>7, <1>8, <2>1, <3>1, <3>2 DEF BeginsAreOpen
  <2>2. ASSUME NEW i \in DOMAIN queue', NEW j \in DOMAIN queue',
               queue'[i].kind = "begin", queue'[j].kind = "begin",
               queue'[i].capture = queue'[j].capture
        PROVE  i = j
    <3>1. /\ i + 1 \in DOMAIN queue /\ queue[i + 1] = queue'[i]
          /\ j + 1 \in DOMAIN queue /\ queue[j + 1] = queue'[j]
          /\ i \in Nat /\ j \in Nat
      BY <1>3
    <3>2. i + 1 = j + 1
      BY <1>7, <2>2, <3>1 DEF BeginsAreOpen
    <3> QED BY <3>1, <3>2
  <2> QED BY <2>1, <2>2 DEF BeginsAreOpen
<1>11. IdsAreOwned'
  BY <1>1, <1>3, <1>6, <1>7, <1>8 DEF IdsAreOwned
<1>12. CallsAreInStep'
  BY <1>1, <1>7, <1>8 DEF CallsAreInStep
<1>13. NewestIsServed'
  <2> SUFFICES ASSUME NEW d \in Captures, id'[d] # None, id'[d] = mic'.nextId
               PROVE  /\ mic'.capturing = id'[d]
                      /\ \E e \in Captures \ {d} : reply'[e] = "error" \/ pc'[e] = "gone"
    BY DEF NewestIsServed
  <2>1. d # c /\ mic'.capturing = id'[d]
    BY <1>1, <1>6, <1>7, <1>8 DEF NewestIsServed
  <2> QED BY <1>1, <1>2, <1>8, <2>1
<1> QED BY <1>9, <1>10, <1>11, <1>12, <1>13 DEF ServeInv

\* The warm window's end touches nothing else.
LEMMA LapseServes ==
  ASSUME ServeInv, WarmLapses
  PROVE  ServeInv'
<1>1. /\ TypeOK /\ mic' = [mic EXCEPT !.warm = "over"] /\ queue' = queue
      /\ UNCHANGED <<callVars, heard, chunk, errors, chosen, configs>>
  BY DEF ServeInv, WarmLapses
<1>2. /\ mic' \in Keepers /\ mic'.nextId = mic.nextId
      /\ mic'.capturing = mic.capturing /\ mic'.tap = mic.tap
  BY <1>1 DEF TypeOK, Keepers
<1>3. BeginsAreOpen' /\ IdsAreOwned' /\ CallsAreInStep'
  BY <1>1, <1>2, CallsStay
<1>4. NewestIsServed'
  BY <1>1, <1>2, StillServed
<1>5. TypeOK'
  BY <1>1, <1>2 DEF TypeOK, callVars
<1> QED BY <1>3, <1>4, <1>5 DEF ServeInv

\* The ring keeps the last chunks of what it held and the new one.
LEMMA LatestType ==
  ASSUME NEW ring \in Seq(Nat), NEW n \in Nat
  PROVE  Latest(ring, n) \in Seq(Nat)
<1> DEFINE all == Append(ring, n)
           excess == IF Len(all) > RingSize THEN Len(all) - RingSize ELSE 0
<1>1. all \in Seq(Nat) /\ Len(all) \in Nat /\ RingSize \in Nat
  BY MicAssumption
<1>2. excess \in Nat /\ excess <= Len(all)
  BY <1>1
<1> HIDE DEF all, excess
<1>3. SubSeq(all, excess + 1, Len(all)) \in Seq(Nat)
  BY <1>1, <1>2
<1> QED BY <1>3 DEF Latest, all, excess

\* A chunk takes the tap from nobody who listens.
LEMMA PushServes ==
  ASSUME ServeInv, Push
  PROVE  ServeInv'
<1>1. TypeOK /\ queue' = queue /\ chunk' = chunk + 1
      /\ UNCHANGED <<callVars, errors, chosen, configs>>
  BY DEF ServeInv, Push
<1>2. CASE Hears(mic.tap)
  <2>1. mic.tap \in Captures
    BY <1>1, <1>2 DEF Hears, TypeOK, Keepers
  <2>2. mic' = mic /\ heard' = [heard EXCEPT ![mic.tap] = Append(@, chunk')]
    BY <1>2 DEF Push
  <2>3. mic' \in Keepers
    BY <1>1, <2>2 DEF TypeOK
  <2>4. BeginsAreOpen' /\ IdsAreOwned' /\ CallsAreInStep'
    BY <1>1, <2>2, <2>3, CallsStay
  <2>5. NewestIsServed'
    BY <1>1, <2>2, StillServed
  <2>6. TypeOK'
    BY <1>1, <2>1, <2>2 DEF TypeOK, callVars
  <2> QED BY <2>4, <2>5, <2>6 DEF ServeInv
<1>3. CASE ~ Hears(mic.tap)
  <2>1. mic' = [mic EXCEPT !.tap = None, !.ring = Latest(@, chunk')] /\ heard' = heard
    BY <1>3 DEF Push
  <2>2. mic' \in Keepers /\ mic'.nextId = mic.nextId /\ mic'.capturing = mic.capturing
    <3>1. Latest(mic.ring, chunk') \in Seq(Nat)
      BY <1>1, LatestType DEF TypeOK, Keepers
    <3> QED BY <1>1, <2>1, <3>1 DEF TypeOK, Keepers
  <2>3. BeginsAreOpen' /\ IdsAreOwned' /\ CallsAreInStep'
    BY <1>1, <2>2, CallsStay
  <2>4. NewestIsServed'
    <3> SUFFICES ASSUME NEW c \in Captures, id[c] # None, id[c] = mic.nextId
                 PROVE  /\ mic'.capturing = id[c]
                        /\ Hears(c) => \/ mic'.tap = c
                                       \/ \E d \in Captures \ {c} :
                                            reply[d] = "error" \/ pc[d] = "gone"
      BY <1>1, <2>2 DEF NewestIsServed, callVars, Hears
    <3>1. /\ mic.capturing = id[c]
          /\ Hears(c) => \/ mic.tap = c
                         \/ \E d \in Captures \ {c} : reply[d] = "error" \/ pc[d] = "gone"
      BY DEF ServeInv, NewestIsServed
    <3> QED BY <1>3, <2>2, <3>1
  <2>5. TypeOK'
    BY <1>1, <2>1, <2>2 DEF TypeOK, callVars
  <2> QED BY <2>3, <2>4, <2>5 DEF ServeInv
<1> QED BY <1>2, <1>3

\* A stream's error and a change of Settings only send a command.
LEMMA NoticeServes ==
  ASSUME ServeInv, StreamError \/ ChangeSettings
  PROVE  ServeInv'
<1>1. TypeOK /\ mic' = mic /\ UNCHANGED <<callVars, heard, chunk>>
  BY DEF ServeInv, StreamError, ChangeSettings
<1>2. PICK x \in Commands : x.kind \in {"configure", "failed"} /\ queue' = Append(queue, x)
  <2>1. CASE StreamError
    <3>1. mic.open.generation \in Nat
      BY <1>1 DEF TypeOK, Keepers, Streams
    <3>2. StreamFailed(mic.open.generation) \in Commands
          /\ StreamFailed(mic.open.generation).kind = "failed"
      BY <3>1 DEF StreamFailed, Commands
    <3> QED BY <2>1, <3>2 DEF StreamError
  <2>2. CASE ChangeSettings
    <3>1. PICK d \in Devices, k \in BOOLEAN : queue' = Append(queue, Configure(d, k))
      BY <2>2 DEF ChangeSettings
    <3>2. Configure(d, k) \in Commands /\ Configure(d, k).kind = "configure"
      BY DEF Configure, Commands
    <3> QED BY <3>1, <3>2
  <2> QED BY <2>1, <2>2
<1>3. /\ queue' \in Seq(Commands)
      /\ \A i \in DOMAIN queue' :
           queue'[i].kind \in {"begin", "end"} => i \in DOMAIN queue /\ queue'[i] = queue[i]
  BY <1>1, <1>2, SendLast
<1>4. BeginsAreOpen'
  BY <1>1, <1>3 DEF ServeInv, BeginsAreOpen, callVars
<1>5. IdsAreOwned'
  BY <1>1, <1>3 DEF ServeInv, IdsAreOwned, callVars
<1>6. CallsAreInStep'
  BY <1>1 DEF ServeInv, CallsAreInStep, callVars
<1>7. NewestIsServed'
  BY <1>1, StillServed
<1>8. TypeOK'
  <2>1. errors' \subseteq Nat /\ chosen' \in Devices /\ configs' \in Nat
    <3>1. CASE StreamError
      <4>1. mic.open.generation \in Nat
        BY <1>1 DEF TypeOK, Keepers, Streams
      <4>2. errors' = errors \cup {mic.open.generation} /\ UNCHANGED <<chosen, configs>>
        BY <3>1 DEF StreamError
      <4> QED BY <1>1, <4>1, <4>2 DEF TypeOK
    <3>2. CASE ChangeSettings
      BY <1>1, <3>2 DEF TypeOK, ChangeSettings
    <3> QED BY <3>1, <3>2
  <2> QED BY <1>1, <1>3, <2>1 DEF TypeOK, callVars
<1> QED BY <1>4, <1>5, <1>6, <1>7, <1>8 DEF ServeInv

\* A press sends its one Begin.
LEMMA AskServes ==
  ASSUME ServeInv, NEW c \in Captures, Ask(c)
  PROVE  ServeInv'
<1>1. /\ TypeOK /\ BeginsAreOpen /\ IdsAreOwned /\ CallsAreInStep /\ NewestIsServed
      /\ pc[c] = "idle" /\ pc' = [pc EXCEPT ![c] = "waiting"]
      /\ queue' = Append(queue, Begin(c, chosen))
      /\ UNCHANGED <<mic, reply, id, heard, chunk, errors, chosen, configs>>
  BY DEF ServeInv, Ask
<1>2. /\ Begin(c, chosen) \in Commands /\ Begin(c, chosen).kind = "begin"
      /\ Begin(c, chosen).capture = c
  BY <1>1 DEF TypeOK, Begin, Commands
<1>3. /\ reply[c] = "none" /\ pc'[c] = "waiting"
      /\ \A d \in Captures \ {c} : pc'[d] = pc[d]
  BY <1>1 DEF TypeOK, CallsAreInStep
<1>4. /\ queue' \in Seq(Commands)
      /\ \A i \in DOMAIN queue' :
           \/ i \in DOMAIN queue /\ queue'[i] = queue[i]
           \/ i = Len(queue) + 1 /\ queue'[i].kind = "begin" /\ queue'[i].capture = c
  BY <1>1, <1>2, SendLast
<1>5. ASSUME NEW i \in DOMAIN queue, queue[i].kind = "begin"
      PROVE  queue[i].capture \in Captures \ {c}
  <2>1. queue[i] \in Commands
    BY <1>1 DEF TypeOK
  <2>2. queue[i].capture \in Captures
    BY <1>5, <2>1, CommandFields
  <2> QED BY <1>1, <1>5, <2>2 DEF BeginsAreOpen
<1>6. TypeOK'
  BY <1>1, <1>4 DEF TypeOK
<1>7. BeginsAreOpen'
  <2>1. ASSUME NEW i \in DOMAIN queue', queue'[i].kind = "begin"
        PROVE  /\ reply'[queue'[i].capture] = "none"
               /\ pc'[queue'[i].capture] \in {"waiting", "givingUp", "gone"}
    BY <1>1, <1>3, <1>4, <1>5, <2>1 DEF BeginsAreOpen
  <2>2. ASSUME NEW i \in DOMAIN queue', NEW j \in DOMAIN queue',
               queue'[i].kind = "begin", queue'[j].kind = "begin",
               queue'[i].capture = queue'[j].capture
        PROVE  i = j
    BY <1>1, <1>4, <1>5, <2>2 DEF BeginsAreOpen
  <2> QED BY <2>1, <2>2 DEF BeginsAreOpen
<1>8. IdsAreOwned'
  <2>1. \A i \in DOMAIN queue' : queue'[i].kind = "end" =>
          i \in DOMAIN queue /\ queue'[i] = queue[i]
    BY <1>4
  <2> QED BY <1>1, <2>1 DEF IdsAreOwned
<1>9. CallsAreInStep'
  BY <1>1, <1>3 DEF CallsAreInStep
<1>10. NewestIsServed'
  BY <1>1, <1>3, NoneApart DEF NewestIsServed, Hears
<1> QED BY <1>6, <1>7, <1>8, <1>9, <1>10 DEF ServeInv

\* A call that moves on keeps its id, and does not hear again once it stopped.
LEMMA MoveServes ==
  ASSUME ServeInv, NEW c \in Captures, Answered(c) \/ GiveUp(c) \/ Leave(c) \/ Stop(c)
  PROVE  ServeInv'
<1>1. /\ TypeOK /\ BeginsAreOpen /\ IdsAreOwned /\ CallsAreInStep /\ NewestIsServed
      /\ UNCHANGED <<mic, queue, reply, id, chunk, errors, chosen, configs>>
  BY DEF ServeInv, Answered, GiveUp, Leave, Stop
<1>2. /\ \A d \in Captures \ {c} : pc'[d] = pc[d]
      /\ \/ pc[c] = "waiting" /\ reply[c] = "ok" /\ pc'[c] = "recording"
         \/ pc[c] = "waiting" /\ reply[c] = "error" /\ pc'[c] = "done"
         \/ pc[c] = "waiting" /\ reply[c] = "none" /\ pc'[c] = "givingUp"
         \/ pc[c] = "givingUp" /\ pc'[c] = "gone"
         \/ pc[c] = "recording" /\ pc'[c] = "ending"
  BY <1>1 DEF TypeOK, Answered, GiveUp, Leave, Stop
<1>3. TypeOK'
  <2>1. << >> \in Seq(Nat)
    OBVIOUS
  <2>2. heard' \in [Captures -> Seq(Nat)]
    BY <1>1, <2>1 DEF TypeOK, Answered, GiveUp, Leave, Stop
  <2>3. pc' \in [Captures -> {"idle", "waiting", "givingUp", "recording", "ending",
                              "gone", "done"}]
    BY <1>1 DEF TypeOK, Answered, GiveUp, Leave, Stop
  <2> QED BY <1>1, <2>2, <2>3 DEF TypeOK
<1>4. BeginsAreOpen'
  <2>1. \A i \in DOMAIN queue : queue[i].kind = "begin" => queue[i].capture \in Captures
    BY <1>1, CommandFields DEF TypeOK
  <2> QED BY <1>1, <1>2, <2>1 DEF BeginsAreOpen
<1>5. IdsAreOwned'
  BY <1>1 DEF IdsAreOwned
<1>6. CallsAreInStep'
  BY <1>1, <1>2 DEF CallsAreInStep
<1>7. NewestIsServed'
  <2> SUFFICES ASSUME NEW d \in Captures, id[d] # None, id[d] = mic.nextId
               PROVE  /\ mic.capturing = id[d]
                      /\ Hears(d)' => \/ mic.tap = d
                                      \/ \E e \in Captures \ {d} :
                                           reply[e] = "error" \/ pc'[e] = "gone"
    BY <1>1 DEF NewestIsServed
  <2>1. Hears(d)' => Hears(d)
    BY <1>1, <1>2 DEF Hears
  <2>2. \A e \in Captures : pc[e] = "gone" => pc'[e] = "gone"
    BY <1>2
  <2> QED BY <1>1, <2>1, <2>2 DEF NewestIsServed
<1> QED BY <1>3, <1>4, <1>5, <1>6, <1>7 DEF ServeInv

\* The End a capture sends carries its id away.
LEMMA SendEndServes ==
  ASSUME ServeInv, NEW c \in Captures, SendEnd(c)
  PROVE  ServeInv'
<1>1. /\ TypeOK /\ BeginsAreOpen /\ IdsAreOwned /\ CallsAreInStep /\ NewestIsServed
      /\ pc[c] = "ending" /\ pc' = [pc EXCEPT ![c] = "done"]
      /\ queue' = Append(queue, End(id[c])) /\ id' = [id EXCEPT ![c] = None]
      /\ UNCHANGED <<mic, reply, heard, chunk, errors, chosen, configs>>
  BY DEF ServeInv, SendEnd
<1>2. /\ pc'[c] = "done" /\ id'[c] = None
      /\ \A d \in Captures \ {c} : pc'[d] = pc[d] /\ id'[d] = id[d]
  BY <1>1 DEF TypeOK
<1>3. id[c] \in Nat /\ id[c] <= mic.nextId
  BY <1>1 DEF CallsAreInStep, TypeOK, IdsAreOwned
<1>4. /\ End(id[c]) \in Commands /\ End(id[c]).kind = "end" /\ End(id[c]).id = id[c]
  BY <1>3 DEF End, Commands
<1>5. /\ queue' \in Seq(Commands)
      /\ \A i \in DOMAIN queue' :
           \/ i \in DOMAIN queue /\ queue'[i] = queue[i]
           \/ queue'[i].kind = "end" /\ queue'[i].id = id[c]
  BY <1>1, <1>4, SendLast
<1>6. TypeOK'
  BY <1>1, <1>5 DEF TypeOK
<1>7. BeginsAreOpen'
  <2>1. \A i \in DOMAIN queue' : queue'[i].kind = "begin" =>
          /\ i \in DOMAIN queue /\ queue'[i] = queue[i]
          /\ queue[i].capture \in Captures \ {c}
    <3> SUFFICES ASSUME NEW i \in DOMAIN queue', queue'[i].kind = "begin"
                 PROVE  /\ i \in DOMAIN queue /\ queue'[i] = queue[i]
                        /\ queue[i].capture \in Captures \ {c}
      OBVIOUS
    <3>1. i \in DOMAIN queue /\ queue'[i] = queue[i] /\ queue[i] \in Commands
      BY <1>1, <1>5 DEF TypeOK
    <3>2. queue[i].capture \in Captures
      BY <3>1, CommandFields
    <3> QED BY <1>1, <3>1, <3>2 DEF BeginsAreOpen
  <2> QED BY <1>1, <1>2, <2>1 DEF BeginsAreOpen
<1>8. IdsAreOwned'
  <2>1. \A d \in Captures : id'[d] # None => id'[d] <= mic'.nextId /\ reply'[d] = "ok"
    BY <1>1, <1>2 DEF IdsAreOwned
  <2>2. \A d, e \in Captures : id'[d] # None /\ id'[d] = id'[e] => d = e
    BY <1>1, <1>2 DEF IdsAreOwned
  <2>3. ASSUME NEW i \in DOMAIN queue', queue'[i].kind = "end"
        PROVE  /\ queue'[i].id <= mic'.nextId
               /\ \A d \in Captures : id'[d] # queue'[i].id
    <3>1. CASE i \in DOMAIN queue /\ queue'[i] = queue[i]
      <4>1. queue[i].id \in Nat
        BY <1>1, <2>3, <3>1, CommandFields DEF TypeOK
      <4> QED BY <1>1, <1>2, <2>3, <3>1, <4>1, NoneApart DEF IdsAreOwned
    <3>2. CASE queue'[i].id = id[c]
      BY <1>1, <1>2, <1>3, <3>2, NoneApart DEF IdsAreOwned
    <3> QED BY <1>5, <3>1, <3>2
  <2> QED BY <2>1, <2>2, <2>3 DEF IdsAreOwned
<1>9. CallsAreInStep'
  BY <1>1, <1>2 DEF CallsAreInStep
<1>10. NewestIsServed'
  <2>1. \A d \in Captures : Hears(d)' => Hears(d)
    BY <1>1, <1>2 DEF Hears
  <2>2. \A e \in Captures : pc[e] = "gone" => pc'[e] = "gone"
    BY <1>1, <1>2
  <2> QED BY <1>1, <1>2, <2>1, <2>2 DEF NewestIsServed
<1> QED BY <1>6, <1>7, <1>8, <1>9, <1>10 DEF ServeInv

\* Nothing was captured when the keeper starts.
LEMMA InitServes == Init => ServeInv
<1> SUFFICES ASSUME Init
             PROVE  ServeInv
  OBVIOUS
<1>1. PICK k \in BOOLEAN :
        mic \in Settled([device |-> chosen, keep |-> k, open |-> NoStream, generation |-> 0,
                         nextId |-> 0, capturing |-> None, warm |-> "none",
                         retry |-> "none", ring |-> << >>, tap |-> None])
  BY DEF Init
<1> DEFINE m == [device |-> chosen, keep |-> k, open |-> NoStream, generation |-> 0,
                 nextId |-> 0, capturing |-> None, warm |-> "none",
                 retry |-> "none", ring |-> << >>, tap |-> None]
<1>2. << >> \in Seq(Nat) /\ << >> \in Seq(Commands) /\ DOMAIN << >> = {}
  OBVIOUS
<1>3. m \in Keepers
  BY <1>2, NoStreamType DEF Init, Keepers
<1> HIDE DEF m
<1>4. mic \in Keepers
  BY <1>1, <1>3, SettledKeeps DEF Kept, m
<1>5. TypeOK
  BY <1>2, <1>4 DEF TypeOK, Init
<1>6. BeginsAreOpen /\ IdsAreOwned /\ CallsAreInStep /\ NewestIsServed
  BY <1>2 DEF Init, BeginsAreOpen, IdsAreOwned, CallsAreInStep, NewestIsServed
<1> QED BY <1>5, <1>6 DEF ServeInv

\* Every step keeps the invariant.
LEMMA ServeStep == ServeInv /\ [Next]_vars => ServeInv'
<1> SUFFICES ASSUME ServeInv, [Next]_vars
             PROVE  ServeInv'
  OBVIOUS
<1>1. CASE KeeperStep
  BY <1>1, ConfigureServes, EndServes, FailedServes, BeginServes, BeginFailsServes,
     WakeServes DEF KeeperStep
<1>2. CASE WarmLapses \/ Push
  BY <1>2, LapseServes, PushServes
<1>3. CASE StreamError \/ ChangeSettings
  BY <1>3, NoticeServes
<1>4. ASSUME NEW c \in Captures, Ask(c) \/ GiveUp(c) \/ CallStep(c)
      PROVE  ServeInv'
  BY <1>4, AskServes, MoveServes, SendEndServes DEF CallStep
<1>5. CASE UNCHANGED vars
  BY <1>5 DEF ServeInv, TypeOK, BeginsAreOpen, IdsAreOwned, CallsAreInStep,
              NewestIsServed, Hears, vars, callVars
<1> QED BY <1>1, <1>2, <1>3, <1>4, <1>5 DEF Next

-----------------------------------------------------------------------------
(* The stretch that is heard. *)

\* Nothing is a stretch any chunk continues.
LEMMA NothingIsUpToDate == \A n : UpToDate(<< >>, n)
  BY DEF UpToDate, Gapless

\* The next chunk continues a stretch.
LEMMA AppendUpToDate ==
  ASSUME NEW s \in Seq(Nat), NEW n \in Nat, UpToDate(s, n)
  PROVE  Append(s, n + 1) \in Seq(Nat) /\ UpToDate(Append(s, n + 1), n + 1)
<1> DEFINE all == Append(s, n + 1)
<1>1. /\ all \in Seq(Nat) /\ Len(all) = Len(s) + 1 /\ Len(s) \in Nat
      /\ all[Len(s) + 1] = n + 1
      /\ \A i \in 1 .. Len(s) : all[i] = s[i] /\ s[i] \in Nat
  OBVIOUS
<1>2. Len(s) # 0 => s[Len(s)] = n
  BY DEF UpToDate
<1> HIDE DEF all
<1>3. ASSUME NEW i \in 1 .. Len(all) - 1
      PROVE  all[i + 1] = all[i] + 1
  <2>1. CASE i = Len(s)
    BY <1>1, <1>2, <2>1
  <2>2. CASE i # Len(s)
    <3>1. i \in 1 .. Len(s) - 1 /\ i + 1 \in 1 .. Len(s)
      BY <1>1, <2>2
    <3>2. s[i + 1] = s[i] + 1
      BY <3>1 DEF UpToDate, Gapless
    <3> QED BY <1>1, <3>1, <3>2
  <2> QED BY <2>1, <2>2
<1>4. all[Len(all)] = n + 1
  BY <1>1
<1>5. UpToDate(all, n + 1)
  BY <1>3, <1>4 DEF UpToDate, Gapless
<1> QED BY <1>1, <1>5 DEF all

\* The ring drops its oldest chunks, so what is left is a stretch.
LEMMA LatestUpToDate ==
  ASSUME NEW ring \in Seq(Nat), NEW n \in Nat, UpToDate(ring, n)
  PROVE  UpToDate(Latest(ring, n + 1), n + 1)
<1> DEFINE all == Append(ring, n + 1)
           excess == IF Len(all) > RingSize THEN Len(all) - RingSize ELSE 0
           last == SubSeq(all, excess + 1, Len(all))
<1>1. all \in Seq(Nat) /\ Len(all) \in Nat /\ UpToDate(all, n + 1)
  BY AppendUpToDate
<1>2. RingSize \in Nat
  BY MicAssumption
<1> HIDE DEF all
<1>3. excess \in Nat /\ excess <= Len(all)
  BY <1>1, <1>2
<1> HIDE DEF excess
<1>4. /\ Len(last) = Len(all) - excess /\ last \in Seq(Nat)
      /\ \A i \in 1 .. Len(last) : last[i] = all[excess + i] /\ all[excess + i] \in Nat
  BY <1>1, <1>3
<1> HIDE DEF last
<1>5. ASSUME NEW i \in 1 .. Len(last) - 1
      PROVE  last[i + 1] = last[i] + 1
  <2>1. /\ i \in 1 .. Len(last) /\ i + 1 \in 1 .. Len(last)
        /\ excess + i \in 1 .. Len(all) - 1 /\ excess + (i + 1) = (excess + i) + 1
    BY <1>1, <1>3, <1>4
  <2>2. all[(excess + i) + 1] = all[excess + i] + 1
    BY <1>1, <2>1 DEF UpToDate, Gapless
  <2> QED BY <1>4, <2>1, <2>2
<1>6. last # << >> => last[Len(last)] = n + 1
  <2> SUFFICES ASSUME Len(last) # 0
               PROVE  last[Len(last)] = n + 1
    BY <1>4
  <2>1. Len(last) \in 1 .. Len(last) /\ excess + Len(last) = Len(all) /\ all # << >>
    BY <1>1, <1>3, <1>4
  <2> QED BY <1>1, <1>4, <2>1 DEF UpToDate
<1>7. UpToDate(last, n + 1)
  BY <1>5, <1>6 DEF UpToDate, Gapless
<1> QED BY <1>7 DEF Latest, all, excess, last

\* Opening and closing streams drops a stretch or leaves it.
LEMMA KeptIsHeard ==
  ASSUME TypeOK, HeardInv, Kept(mic, mic'), UNCHANGED <<heard, chunk>>
  PROVE  HeardInv'
<1>1. UpToDate(mic'.ring, chunk)
  BY NothingIsUpToDate DEF Kept, HeardInv
<1>2. mic'.tap # None => mic'.ring = << >> /\ UpToDate(heard[mic'.tap], chunk)
  BY DEF Kept, HeardInv
<1> QED BY <1>1, <1>2 DEF HeardInv

\* What the keeper handles, but for a press it begins, leaves what was heard.
LEMMA KeeperIsHeard ==
  ASSUME ServeInv, HeardInv,
         HandleConfigure \/ HandleEnd \/ HandleFailed \/ HandleBeginFails \/ Wake
  PROVE  HeardInv'
<1> DEFINE x == Head(queue)
<1>1. TypeOK /\ mic \in Keepers /\ UNCHANGED <<heard, chunk>>
  BY DEF ServeInv, TypeOK, HandleConfigure, HandleEnd, HandleFailed, HandleBeginFails, Wake
<1>2. CASE HandleConfigure
  <2>1. x \in Commands /\ x.kind = "configure" /\ mic' \in Configured(mic, x.device, x.keep)
    BY <1>1, <1>2, TakeHead DEF HandleConfigure
  <2>2. x.device \in Devices /\ x.keep \in BOOLEAN
    BY <2>1, CommandFields
  <2> QED BY <1>1, <2>1, <2>2, ConfiguredKeeps, KeptIsHeard
<1>3. CASE HandleFailed
  <2>1. x \in Commands /\ x.kind = "failed" /\ mic' \in Failed(mic, x.generation)
    BY <1>1, <1>3, TakeHead DEF HandleFailed
  <2>2. x.generation \in Nat
    BY <2>1, CommandFields
  <2> QED BY <1>1, <2>1, <2>2, FailedKeeps, KeptIsHeard
<1>4. CASE Wake
  BY <1>1, <1>4, SettledKeeps, KeptIsHeard DEF Wake
<1>5. CASE HandleEnd
  <2>1. mic' \in Ended(mic, x.id)
    BY <1>5 DEF HandleEnd
  <2>2. \/ mic' = mic
        \/ mic'.ring \in {mic.ring, << >>} /\ mic'.tap = None
    BY <1>1, <2>1, EndedStops
  <2>3. UpToDate(mic'.ring, chunk)
    BY <2>2, NothingIsUpToDate DEF HeardInv
  <2>4. mic'.tap # None => mic'.ring = << >> /\ UpToDate(heard[mic'.tap], chunk)
    BY <2>2 DEF HeardInv
  <2> QED BY <1>1, <2>3, <2>4 DEF HeardInv
<1>6. CASE HandleBeginFails
  <2> DEFINE asked == [mic EXCEPT !.device = x.device]
  <2>1. Take("begin") /\ \E m \in CloseStale(asked) : mic' = OpenFailed(m)
    BY <1>6 DEF HandleBeginFails
  <2>2. x.device \in Devices
    BY <1>1, <2>1, TakeHead, CommandFields
  <2>3. asked \in Keepers /\ Kept(mic, asked)
    BY <1>1, <2>2 DEF Keepers, Kept
  <2> HIDE DEF asked
  <2>4. PICK m \in CloseStale(asked) : mic' = OpenFailed(m)
    BY <2>1
  <2>5. Kept(asked, m) /\ m \in Keepers
    BY <2>3, CloseStaleKeeps DEF Kept
  <2>6. Kept(m, mic')
    BY <2>4, <2>5, OpenFailedKeeps
  <2> QED BY <1>1, <2>3, <2>5, <2>6, KeptTwice, KeptIsHeard
<1> QED BY <1>2, <1>3, <1>4, <1>5, <1>6

\* A press hears what the ring held, and goes on from there.
LEMMA BeginIsHeard ==
  ASSUME ServeInv, HeardInv, HandleBegin
  PROVE  HeardInv'
<1> DEFINE x == Head(queue)
           c == x.capture
           asked == [mic EXCEPT !.device = x.device]
<1>1. TypeOK /\ mic \in Keepers /\ Take("begin") /\ chunk' = chunk
  BY DEF ServeInv, TypeOK, HandleBegin
<1>2. x.device \in Devices /\ c \in Captures
  BY <1>1, TakeHead, CommandFields
<1>3. asked \in Keepers /\ asked.ring = mic.ring
  BY <1>1, <1>2 DEF Keepers
<1>4. PICK m \in OpenForPress(asked) :
        LET begun == Tapped(m, c) IN
        IF Listens(c)
        THEN /\ mic' = begun
             /\ heard' = [heard EXCEPT ![c] = m.ring]
        ELSE /\ mic' \in Ended(begun, begun.capturing)
             /\ heard' = heard
  BY DEF HandleBegin
<1> HIDE DEF x, c, asked
<1>5. m \in Keepers /\ m.ring \in {mic.ring, << >>}
  BY <1>3, OpenForPressKeeps DEF Kept
<1>6. UpToDate(m.ring, chunk)
  BY <1>5, NothingIsUpToDate DEF HeardInv
<1> DEFINE begun == Tapped(m, c)
<1>7. begun \in Keepers /\ begun.ring = << >> /\ begun.tap = c
  <2>1. m.nextId + 1 \in Nat /\ << >> \in Seq(Nat) /\ c \in Captures
    BY <1>2, <1>5 DEF Keepers
  <2> QED BY <1>5, <2>1 DEF Tapped, Keepers
<1> HIDE DEF begun
<1>8. CASE Listens(c)
  <2>1. mic' = begun /\ heard' = [heard EXCEPT ![c] = m.ring]
    BY <1>4, <1>8 DEF begun
  <2>2. heard'[c] = m.ring /\ \A d \in Captures \ {c} : heard'[d] = heard[d]
    BY <1>1, <1>2, <2>1 DEF TypeOK
  <2>3. \A d \in Captures : Gapless(heard'[d])
    BY <1>6, <2>2 DEF HeardInv, UpToDate
  <2> QED BY <1>1, <1>6, <1>7, <2>1, <2>2, <2>3, NothingIsUpToDate DEF HeardInv
<1>9. CASE ~ Listens(c)
  <2>1. mic' \in Ended(begun, begun.capturing) /\ heard' = heard
    BY <1>4, <1>9 DEF begun
  <2>2. mic'.ring = << >> /\ mic'.tap = None
    BY <1>7, <2>1, EndedStops
  <2> QED BY <1>1, <2>1, <2>2, NothingIsUpToDate DEF HeardInv
<1> QED BY <1>8, <1>9

\* A chunk continues what the tap heard, or what the ring holds.
LEMMA PushIsHeard ==
  ASSUME ServeInv, HeardInv, Push
  PROVE  HeardInv'
<1>1. TypeOK /\ chunk \in Nat /\ mic \in Keepers /\ chunk' = chunk + 1
  BY DEF ServeInv, TypeOK, Push
<1>2. CASE Hears(mic.tap)
  <2>1. mic.tap \in Captures /\ mic.tap # None
    BY <1>1, <1>2 DEF Hears, Keepers
  <2>2. mic' = mic /\ heard' = [heard EXCEPT ![mic.tap] = Append(@, chunk')]
    BY <1>2 DEF Push
  <2>3. heard[mic.tap] \in Seq(Nat) /\ UpToDate(heard[mic.tap], chunk) /\ mic.ring = << >>
    BY <1>1, <2>1 DEF TypeOK, HeardInv
  <2>4. /\ heard'[mic.tap] = Append(heard[mic.tap], chunk + 1)
        /\ \A d \in Captures \ {mic.tap} : heard'[d] = heard[d]
    BY <1>1, <2>1, <2>2 DEF TypeOK
  <2>5. UpToDate(heard'[mic.tap], chunk')
    BY <1>1, <2>3, <2>4, AppendUpToDate
  <2>6. \A d \in Captures : Gapless(heard'[d])
    BY <2>4, <2>5 DEF HeardInv, UpToDate
  <2> QED BY <2>2, <2>3, <2>5, <2>6, NothingIsUpToDate DEF HeardInv
<1>3. CASE ~ Hears(mic.tap)
  <2>1. mic' = [mic EXCEPT !.tap = None, !.ring = Latest(@, chunk')] /\ heard' = heard
    BY <1>3 DEF Push
  <2>2. mic'.tap = None /\ mic'.ring = Latest(mic.ring, chunk + 1)
    BY <1>1, <2>1 DEF Keepers
  <2>3. UpToDate(mic'.ring, chunk')
    BY <1>1, <2>2, LatestUpToDate DEF HeardInv, Keepers
  <2> QED BY <2>1, <2>2, <2>3 DEF HeardInv
<1> QED BY <1>2, <1>3

\* A capture that leaves drops what it heard.
LEMMA DropIsHeard ==
  ASSUME TypeOK, HeardInv, UNCHANGED <<mic, chunk>>, NEW c \in Captures,
         heard' = heard \/ heard' = [heard EXCEPT ![c] = << >>]
  PROVE  HeardInv'
<1>1. \A d \in Captures : heard'[d] \in {heard[d], << >>}
  BY DEF TypeOK
<1>2. mic.tap # None => mic.tap \in Captures
  BY DEF TypeOK, Keepers
<1>3. \A d \in Captures : Gapless(heard'[d])
  BY <1>1, NothingIsUpToDate DEF HeardInv, UpToDate
<1>4. mic'.tap # None => mic'.ring = << >> /\ UpToDate(heard'[mic'.tap], chunk')
  BY <1>1, <1>2, NothingIsUpToDate DEF HeardInv
<1> QED BY <1>3, <1>4 DEF HeardInv

\* Nothing is heard when the keeper starts.
LEMMA InitIsHeard == Init => HeardInv
<1> SUFFICES ASSUME Init
             PROVE  HeardInv
  OBVIOUS
<1> DEFINE m(k) == [device |-> chosen, keep |-> k, open |-> NoStream, generation |-> 0,
                    nextId |-> 0, capturing |-> None, warm |-> "none",
                    retry |-> "none", ring |-> << >>, tap |-> None]
<1>1. PICK k \in BOOLEAN : mic \in Settled(m(k))
  BY DEF Init
<1>2. m(k) \in Keepers /\ m(k).ring = << >> /\ m(k).tap = None
  <2>1. << >> \in Seq(Nat)
    OBVIOUS
  <2> QED BY <2>1, NoStreamType DEF Init, Keepers
<1> HIDE DEF m
<1>3. mic.ring = << >> /\ mic.tap = None
  BY <1>1, <1>2, SettledKeeps DEF Kept
<1> QED BY <1>3, NothingIsUpToDate DEF HeardInv, Init, UpToDate

\* Every step keeps what was heard a stretch.
LEMMA HeardStep == ServeInv /\ HeardInv /\ [Next]_vars => HeardInv'
<1> SUFFICES ASSUME ServeInv, HeardInv, [Next]_vars
             PROVE  HeardInv'
  OBVIOUS
<1>1. TypeOK /\ mic \in Keepers
  BY DEF ServeInv, TypeOK
<1>2. CASE KeeperStep
  BY <1>2, KeeperIsHeard, BeginIsHeard DEF KeeperStep
<1>3. CASE WarmLapses
  <2>1. Kept(mic, mic')
    BY <1>1, <1>3 DEF WarmLapses, Kept, Keepers
  <2> QED BY <1>1, <1>3, <2>1, KeptIsHeard DEF WarmLapses
<1>4. CASE Push
  BY <1>4, PushIsHeard
<1>5. CASE StreamError \/ ChangeSettings \/ UNCHANGED vars
  BY <1>5 DEF HeardInv, StreamError, ChangeSettings, vars
<1>6. ASSUME NEW c \in Captures, Ask(c) \/ GiveUp(c) \/ CallStep(c)
      PROVE  HeardInv'
  <2>1. /\ UNCHANGED <<mic, chunk>>
        /\ heard' = heard \/ heard' = [heard EXCEPT ![c] = << >>]
    BY <1>6 DEF Ask, GiveUp, CallStep, Answered, Leave, Stop, SendEnd
  <2> QED BY <1>1, <2>1, DropIsHeard
<1> QED BY <1>2, <1>3, <1>4, <1>5, <1>6 DEF Next

-----------------------------------------------------------------------------
(* The theorems. *)

\* The invariant holds throughout.
LEMMA ServeHolds == Spec => []ServeInv
BY InitServes, ServeStep, PTL DEF Spec

\* The newest capture keeps the keeper until its End is handled, and the tap
\* unless a later press lost the stream, for any number of captures, devices,
\* chunks, streams, errors and changes of Settings.
THEOREM CapturesAreServed == Spec => []TapServesCapture
<1>1. ServeInv => TapServesCapture
  <2> SUFFICES ASSUME ServeInv, NEW c \in Captures, pc[c] = "recording", id[c] = mic.nextId
               PROVE  /\ mic.capturing = id[c]
                      /\ mic.tap = c \/ \E d \in Captures \ {c} :
                                          reply[d] = "error" \/ pc[d] = "gone"
    BY DEF TapServesCapture
  <2>1. reply[c] = "ok" /\ id[c] # None /\ Hears(c)
    BY NoneApart DEF ServeInv, CallsAreInStep, Hears
  <2> QED BY <2>1 DEF ServeInv, NewestIsServed
<1> QED BY <1>1, ServeHolds, PTL

\* What a capture hears has no gap and no chunk twice, whatever the ring keeps
\* and however streams come and go.
THEOREM RecordingsAreGapless == Spec => []RecordingIsContiguous
<1>1. HeardInv => RecordingIsContiguous
  BY DEF HeardInv, Gapless, RecordingIsContiguous
<1> QED BY <1>1, InitServes, InitIsHeard, ServeStep, HeardStep, PTL DEF Spec
=============================================================================
