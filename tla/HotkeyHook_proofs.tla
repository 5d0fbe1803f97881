------------------------- MODULE HotkeyHook_proofs -------------------------
(***************************************************************************)
(* What HotkeyHook guarantees for every set of keys, choice of combos and  *)
(* number of concurrent rebinds.                                           *)
(***************************************************************************)
EXTENDS HotkeyHook, TLAPS

AllKeys == Keys \cup {Escape}

\* A key whose press the hook has seen, and whose release it has not.
Tracked(k) == IF k = Escape THEN escapeDown ELSE k \in keysDown

\* A key whose press other programs were not told of.
Kept(k) == IF k = Escape THEN escapeOwned ELSE k \in swallowed

\* What other programs were told of a key, against what the tracker knows.
AppsInv ==
  \A k \in AllKeys :
    /\ apps[k] # "stray"
    /\ apps[k] = "down" => Tracked(k) /\ ~ Kept(k)
    /\ k \in held /\ ~ Kept(k) => apps[k] # "up"

\* Before the hook runs it tracks nothing.
RestInv == ~ running => keysDown = {} /\ ~ escapeDown

HookInv == TypeOK /\ RestInv /\ NoGhostKeys /\ AppsInv

-----------------------------------------------------------------------------
(* The keyboard. *)

\* A press keeps the table of what other programs saw; only its key can move,
\* from up to down, and only if the press was passed on.
LEMMA TellPressType ==
  ASSUME apps \in [AllKeys -> {"up", "down", "old", "stray"}],
         NEW k \in AllKeys, NEW consume \in BOOLEAN, TellPress(k, consume)
  PROVE  /\ apps' \in [AllKeys -> {"up", "down", "old", "stray"}]
         /\ \A j \in AllKeys \ {k} : apps'[j] = apps[j]
         /\ consume => apps'[k] = apps[k]
         /\ ~ consume => apps'[k] = IF apps[k] = "up" THEN "down" ELSE apps[k]
  BY DEF TellPress

\* So does a release: other programs see the key go up if they saw it down.
LEMMA TellReleaseType ==
  ASSUME apps \in [AllKeys -> {"up", "down", "old", "stray"}],
         NEW k \in AllKeys, NEW consume \in BOOLEAN, TellRelease(k, consume)
  PROVE  /\ apps' \in [AllKeys -> {"up", "down", "old", "stray"}]
         /\ \A j \in AllKeys \ {k} : apps'[j] = apps[j]
         /\ consume => apps'[k] = apps[k]
         /\ ~ consume => apps'[k] = IF apps[k] = "up" THEN "stray" ELSE "up"
  BY DEF TellRelease

\* A sent signal leaves a Boolean in talking.
LEMMA SendType ==
  ASSUME NEW signals, Send(signals)
  PROVE  talking' \in BOOLEAN
  BY Zenon DEF Send

\* Escape is no other key.
LEMMA EscapeApart == Escape \notin Keys
  BY KeyAssumption

\* A press that is news, in either mode, is tracked, and kept exactly when it
\* was consumed.
LEMMA FreshPress ==
  ASSUME HookInv, NEW k \in Keys, NEW consume \in BOOLEAN,
         running, k \notin keysDown,
         held' = held \cup {k},
         keysDown' = keysDown \cup {k},
         swallowed' = IF consume THEN swallowed \cup {k} ELSE swallowed,
         TellPress(k, consume),
         talking' \in BOOLEAN,
         UNCHANGED <<escapeDown, escapeOwned, worldVars, bindVars>>
  PROVE  HookInv'
  <1> USE EscapeApart
  <1>1. apps \in [AllKeys -> {"up", "down", "old", "stray"}]
    BY DEF HookInv, TypeOK, AllKeys
  <1>2. k \in AllKeys
    BY DEF AllKeys
  <1>3. /\ apps' \in [AllKeys -> {"up", "down", "old", "stray"}]
        /\ \A j \in AllKeys \ {k} : apps'[j] = apps[j]
        /\ consume => apps'[k] = apps[k]
        /\ ~ consume => apps'[k] = IF apps[k] = "up" THEN "down" ELSE apps[k]
    BY <1>1, <1>2, TellPressType
  <1>4. TypeOK'
    BY <1>3 DEF HookInv, TypeOK, AllKeys, worldVars, bindVars
  <1>5. RestInv' /\ NoGhostKeys'
    BY DEF HookInv, RestInv, NoGhostKeys, worldVars
  <1>6. AppsInv'
    <2> SUFFICES ASSUME NEW j \in AllKeys
                 PROVE  /\ apps'[j] # "stray"
                        /\ apps'[j] = "down" => Tracked(j)' /\ ~ Kept(j)'
                        /\ j \in held' /\ ~ Kept(j)' => apps'[j] # "up"
      BY DEF AppsInv
    <2>1. CASE j # k
      BY <1>3, <2>1 DEF HookInv, AppsInv, Tracked, Kept
    <2>2. CASE j = k
      BY <1>1, <1>3, <2>2 DEF HookInv, TypeOK, AppsInv, Tracked, Kept
    <2> QED
      BY <2>1, <2>2
  <1> QED
    BY <1>4, <1>5, <1>6 DEF HookInv

\* A release, in either mode, ends what the press began: it is consumed
\* exactly when the press was.
LEMMA AnyRelease ==
  ASSUME HookInv, NEW k \in Keys, running, k \in held,
         held' = held \ {k},
         keysDown' = keysDown \ {k},
         swallowed' = swallowed \ {k},
         TellRelease(k, k \in swallowed),
         talking' \in BOOLEAN,
         UNCHANGED <<escapeDown, escapeOwned, worldVars, bindVars>>
  PROVE  HookInv'
  <1> USE EscapeApart
  <1>1. apps \in [AllKeys -> {"up", "down", "old", "stray"}]
    BY DEF HookInv, TypeOK, AllKeys
  <1>2. k \in AllKeys
    BY DEF AllKeys
  <1>3. /\ apps' \in [AllKeys -> {"up", "down", "old", "stray"}]
        /\ \A j \in AllKeys \ {k} : apps'[j] = apps[j]
        /\ k \in swallowed => apps'[k] = apps[k]
        /\ k \notin swallowed => apps'[k] = IF apps[k] = "up" THEN "stray" ELSE "up"
    <2> DEFINE consume == k \in swallowed
    <2>1. consume \in BOOLEAN /\ TellRelease(k, consume)
      OBVIOUS
    <2> HIDE DEF consume
    <2>2. /\ apps' \in [AllKeys -> {"up", "down", "old", "stray"}]
          /\ \A j \in AllKeys \ {k} : apps'[j] = apps[j]
          /\ consume => apps'[k] = apps[k]
          /\ ~ consume => apps'[k] = IF apps[k] = "up" THEN "stray" ELSE "up"
      BY <1>1, <1>2, <2>1, TellReleaseType
    <2> QED
      BY <2>2 DEF consume
  <1>4. TypeOK'
    BY <1>3 DEF HookInv, TypeOK, AllKeys, worldVars, bindVars
  <1>5. RestInv' /\ NoGhostKeys'
    BY DEF HookInv, RestInv, NoGhostKeys, worldVars
  <1>6. AppsInv'
    <2> SUFFICES ASSUME NEW j \in AllKeys
                 PROVE  /\ apps'[j] # "stray"
                        /\ apps'[j] = "down" => Tracked(j)' /\ ~ Kept(j)'
                        /\ j \in held' /\ ~ Kept(j)' => apps'[j] # "up"
      BY DEF AppsInv
    <2>1. CASE j # k
      BY <1>3, <2>1 DEF HookInv, AppsInv, Tracked, Kept
    <2>2. CASE j = k
      BY <1>1, <1>3, <2>2 DEF HookInv, TypeOK, AppsInv, Tracked, Kept
    <2> QED
      BY <2>1, <2>2
  <1> QED
    BY <1>4, <1>5, <1>6 DEF HookInv

\* A repeat changes nothing: its key is kept, or other programs have it.
LEMMA RepeatKeeps ==
  ASSUME HookInv, NEW k \in Keys, Repeat(k)
  PROVE  HookInv'
  <1> USE EscapeApart
  <1>1. /\ apps \in [AllKeys -> {"up", "down", "old", "stray"}]
        /\ k \in AllKeys
    BY DEF HookInv, TypeOK, AllKeys
  <1>2. apps[k] # "up" \/ k \in swallowed
    BY <1>1 DEF HookInv, AppsInv, Kept, Repeat
  <1>3. apps' = apps
    BY <1>2 DEF Repeat, TellPress
  <1>4. talking' \in BOOLEAN
    BY SendType DEF Repeat
  <1>5. TypeOK'
    BY <1>3, <1>4 DEF HookInv, TypeOK, Repeat, keyVars, worldVars, bindVars
  <1>6. RestInv' /\ NoGhostKeys' /\ AppsInv'
    BY <1>3 DEF HookInv, RestInv, NoGhostKeys, AppsInv, Tracked, Kept,
                Repeat, keyVars, worldVars
  <1> QED
    BY <1>5, <1>6 DEF HookInv

\* Escape going down, first or again, is kept exactly when it is owned.
LEMMA EscapePress ==
  ASSUME HookInv, NEW recording \in BOOLEAN, PressEscape(recording)
  PROVE  HookInv'
  <1> USE EscapeApart
  <1> DEFINE owned == IF escapeDown THEN escapeOwned ELSE recording \/ dictating
  <1>1. /\ apps \in [AllKeys -> {"up", "down", "old", "stray"}]
        /\ Escape \in AllKeys
    BY DEF HookInv, TypeOK, AllKeys
  <1>2. owned \in BOOLEAN
    BY Zenon DEF HookInv, TypeOK
  <1>3. /\ held' = held \cup {Escape} /\ running
        /\ TellPress(Escape, owned)
        /\ UNCHANGED <<keysDown, swallowed, worldVars, bindVars>>
    BY DEF PressEscape
  <1>4. escapeDown' = TRUE /\ escapeOwned' = owned
    BY DEF PressEscape
  <1>5. owned => apps[Escape] # "down"
    BY <1>1 DEF HookInv, TypeOK, AppsInv, Tracked, Kept
  <1> HIDE DEF owned
  <1>6. /\ apps' \in [AllKeys -> {"up", "down", "old", "stray"}]
        /\ \A j \in AllKeys \ {Escape} : apps'[j] = apps[j]
        /\ owned => apps'[Escape] = apps[Escape]
        /\ ~ owned => apps'[Escape] = IF apps[Escape] = "up" THEN "down" ELSE apps[Escape]
    BY <1>1, <1>2, <1>3, TellPressType
  <1>7. talking' \in BOOLEAN
    BY SendType DEF PressEscape
  <1>8. TypeOK'
    BY <1>2, <1>3, <1>4, <1>6, <1>7 DEF HookInv, TypeOK, AllKeys, worldVars, bindVars
  <1>9. RestInv' /\ NoGhostKeys'
    BY <1>3 DEF HookInv, RestInv, NoGhostKeys, worldVars
  <1>10. AppsInv'
    <2> SUFFICES ASSUME NEW j \in AllKeys
                 PROVE  /\ apps'[j] # "stray"
                        /\ apps'[j] = "down" => Tracked(j)' /\ ~ Kept(j)'
                        /\ j \in held' /\ ~ Kept(j)' => apps'[j] # "up"
      BY DEF AppsInv
    <2>1. CASE j # Escape
      BY <1>3, <1>6, <2>1 DEF HookInv, AppsInv, Tracked, Kept
    <2>2. CASE j = Escape
      BY <1>1, <1>2, <1>4, <1>5, <1>6, <2>2 DEF HookInv, AppsInv, Tracked, Kept
    <2> QED
      BY <2>1, <2>2
  <1> QED
    BY <1>8, <1>9, <1>10 DEF HookInv

\* Escape going up goes where its press went.
LEMMA EscapeRelease ==
  ASSUME HookInv, ReleaseEscape
  PROVE  HookInv'
  <1> USE EscapeApart
  <1>1. /\ apps \in [AllKeys -> {"up", "down", "old", "stray"}]
        /\ Escape \in AllKeys /\ escapeOwned \in BOOLEAN
    BY DEF HookInv, TypeOK, AllKeys
  <1>2. /\ apps' \in [AllKeys -> {"up", "down", "old", "stray"}]
        /\ \A j \in AllKeys \ {Escape} : apps'[j] = apps[j]
        /\ escapeOwned => apps'[Escape] = apps[Escape]
        /\ ~ escapeOwned =>
             apps'[Escape] = IF apps[Escape] = "up" THEN "stray" ELSE "up"
    BY <1>1, TellReleaseType DEF ReleaseEscape
  <1>3. talking' \in BOOLEAN
    BY SendType DEF ReleaseEscape
  <1>4. TypeOK'
    BY <1>2, <1>3 DEF HookInv, TypeOK, AllKeys, ReleaseEscape, worldVars, bindVars
  <1>5. RestInv' /\ NoGhostKeys'
    BY DEF HookInv, RestInv, NoGhostKeys, ReleaseEscape, worldVars, TypeOK
  <1>6. AppsInv'
    <2> SUFFICES ASSUME NEW j \in AllKeys
                 PROVE  /\ apps'[j] # "stray"
                        /\ apps'[j] = "down" => Tracked(j)' /\ ~ Kept(j)'
                        /\ j \in held' /\ ~ Kept(j)' => apps'[j] # "up"
      BY DEF AppsInv
    <2>1. CASE j # Escape
      BY <1>2, <2>1 DEF HookInv, AppsInv, Tracked, Kept, ReleaseEscape
    <2>2. CASE j = Escape
      BY <1>1, <1>2, <2>2 DEF HookInv, AppsInv, Tracked, Kept, ReleaseEscape
    <2> QED
      BY <2>1, <2>2
  <1> QED
    BY <1>4, <1>5, <1>6 DEF HookInv

\* Without a hook other programs get every key, and nothing is tracked.
LEMMA UnhookedKey ==
  ASSUME HookInv, NEW k \in AllKeys, KeyWithoutHook(k)
  PROVE  HookInv'
  <1>1. apps \in [AllKeys -> {"up", "down", "old", "stray"}]
    BY DEF HookInv, TypeOK, AllKeys
  <1>2. apps' = [apps EXCEPT ![k] = IF k \in held THEN "up" ELSE "old"]
    BY DEF KeyWithoutHook
  <1>3. TypeOK'
    BY <1>1, <1>2 DEF HookInv, TypeOK, AllKeys, KeyWithoutHook, keyVars, worldVars, bindVars
  <1>4. ~ running /\ keysDown = {} /\ ~ escapeDown /\ swallowed = {} /\ ~ escapeOwned
    BY DEF KeyWithoutHook, HookInv, RestInv, TypeOK
  <1>5. UNCHANGED <<keysDown, escapeDown, swallowed, escapeOwned, running>>
    BY DEF KeyWithoutHook, keyVars, worldVars
  <1>6. RestInv' /\ NoGhostKeys'
    BY <1>4, <1>5 DEF RestInv, NoGhostKeys
  <1>7. AppsInv'
    BY <1>1, <1>2, <1>4, <1>5 DEF HookInv, AppsInv, Tracked, Kept, KeyWithoutHook
  <1> QED
    BY <1>3, <1>6, <1>7 DEF HookInv

\* Every keyboard event keeps the invariant.
LEMMA KeyboardKeeps ==
  ASSUME HookInv, Keyboard
  PROVE  HookInv'
  <1>1. CASE \E recording \in BOOLEAN : PressEscape(recording)
    BY <1>1, EscapePress
  <1>2. CASE ReleaseEscape
    BY <1>2, EscapeRelease
  <1>3. CASE \E k \in Keys : Repeat(k)
    BY <1>3, RepeatKeeps
  <1>4. ASSUME NEW k \in Keys, Press(k)
        PROVE  HookInv'
    <2> DEFINE toggles == k = Toggle.main /\ IsActive(Toggle, keysDown \cup {k})
               consume == \/ toggles /\ SwallowsMain(Toggle)
                          \/ /\ k = push.main /\ IsActive(push, keysDown \cup {k})
                             /\ SwallowsMain(push)
    <2>1. talking' \in BOOLEAN
      BY <1>4, SendType DEF Press
    <2>2. consume \in BOOLEAN
      OBVIOUS
    <2>3. /\ running /\ k \notin keysDown
          /\ held' = held \cup {k} /\ keysDown' = keysDown \cup {k}
          /\ swallowed' = IF consume THEN swallowed \cup {k} ELSE swallowed
          /\ TellPress(k, consume)
          /\ UNCHANGED <<escapeDown, escapeOwned, worldVars, bindVars>>
      BY <1>4 DEF Press
    <2> HIDE DEF consume
    <2> QED
      BY <2>1, <2>2, <2>3, FreshPress
  <1>5. ASSUME NEW k \in Keys, CapturePress(k)
        PROVE  HookInv'
    <2>1. talking' \in BOOLEAN
      BY <1>5, SendType DEF CapturePress
    <2>2. /\ running /\ k \notin keysDown
          /\ held' = held \cup {k} /\ keysDown' = keysDown \cup {k}
          /\ swallowed' = IF TRUE THEN swallowed \cup {k} ELSE swallowed
          /\ TellPress(k, TRUE)
          /\ UNCHANGED <<escapeDown, escapeOwned, worldVars, bindVars>>
      BY <1>5 DEF CapturePress
    <2> QED
      BY <2>1, <2>2, FreshPress
  <1>6. ASSUME NEW k \in Keys, Release(k)
        PROVE  HookInv'
    <2>1. talking' \in BOOLEAN
      BY <1>6, SendType DEF Release
    <2> QED
      BY <1>6, <2>1, AnyRelease DEF Release
  <1>7. ASSUME NEW k \in Keys, CaptureRelease(k)
        PROVE  HookInv'
    <2>1. talking' \in BOOLEAN
      BY <1>7, SendType DEF CaptureRelease
    <2> QED
      BY <1>7, <2>1, AnyRelease DEF CaptureRelease
  <1>8. CASE \E k \in Keys \cup {Escape} : KeyWithoutHook(k)
    BY <1>8, UnhookedKey DEF AllKeys
  <1> QED
    BY <1>1, <1>2, <1>3, <1>4, <1>5, <1>6, <1>7, <1>8 DEF Keyboard

-----------------------------------------------------------------------------
(* The rest of VoiceWave. *)

\* A step that leaves the keys alone, and does not stop the hook, only has its
\* types to answer for.
LEMMA NoKeyMoves ==
  ASSUME HookInv, TypeOK', UNCHANGED <<held, apps, keyVars>>, running => running'
  PROVE  HookInv'
  BY DEF HookInv, RestInv, NoGhostKeys, AppsInv, Tracked, Kept, keyVars

\* A task that is through leaves a well-typed table of tasks.
LEMMA DoneType ==
  ASSUME TypeOK, NEW t \in Tasks, Done(t)
  PROVE  /\ pc' \in [Tasks -> {"idle", "manager", "runtime", "start"}]
         /\ want' \in [Tasks -> Choices]
  BY ComboAssumption DEF TypeOK, Done

\* Capture, its lease and the dictation flag.
LEMMA FlagsKeep ==
  ASSUME HookInv,
         \/ \E on \in Recorders : SetCapture(on)
         \/ LeaseLapses
         \/ \E on \in BOOLEAN : SetDictationActive(on)
  PROVE  HookInv'
  <1>1. CASE \E on \in Recorders : SetCapture(on)
    <2>1. TypeOK'
      BY <1>1, RebinderAssumption DEF HookInv, TypeOK, SetCapture, keyVars, bindVars
    <2> QED
      BY <1>1, <2>1, NoKeyMoves DEF SetCapture
  <1>2. CASE LeaseLapses
    <2>1. TypeOK'
      BY <1>2 DEF HookInv, TypeOK, LeaseLapses, keyVars, bindVars
    <2> QED
      BY <1>2, <2>1, NoKeyMoves DEF LeaseLapses
  <1>3. CASE \E on \in BOOLEAN : SetDictationActive(on)
    <2>1. TypeOK'
      BY <1>3 DEF HookInv, TypeOK, SetDictationActive, keyVars, bindVars
    <2> QED
      BY <1>3, <2>1, NoKeyMoves DEF SetDictationActive
  <1> QED
    BY <1>1, <1>2, <1>3

\* The start of the hook.
LEMMA StartKeeps ==
  ASSUME HookInv, StartBegins \/ HookStarts \/ HookFails
  PROVE  HookInv'
  <1>1. Monitor \in Tasks
    BY DEF Tasks
  <1>2. CASE StartBegins
    <2>1. TypeOK'
      BY <1>1, <1>2 DEF HookInv, TypeOK, StartBegins, keyVars, worldVars
    <2> QED
      BY <1>2, <2>1, NoKeyMoves DEF StartBegins, worldVars
  <1>3. CASE HookStarts
    <2>1. TypeOK'
      BY <1>1, <1>3, DoneType DEF HookInv, TypeOK, HookStarts, keyVars
    <2> QED
      BY <1>3, <2>1, NoKeyMoves DEF HookStarts
  <1>4. CASE HookFails
    <2>1. TypeOK'
      BY <1>1, <1>4, DoneType DEF HookInv, TypeOK, HookFails, keyVars, worldVars
    <2> QED
      BY <1>4, <2>1, NoKeyMoves DEF HookFails, worldVars
  <1> QED
    BY <1>2, <1>3, <1>4

\* The steps of a rebind.
LEMMA RebindKeeps ==
  ASSUME HookInv, NEW r \in Rebinders,
         RebindSaves(r) \/ RebindManager(r) \/ RebindHook(r)
  PROVE  HookInv'
  <1>1. r \in Tasks
    BY DEF Tasks
  <1>2. CASE RebindSaves(r)
    <2>1. TypeOK'
      BY <1>1, <1>2 DEF HookInv, TypeOK, RebindSaves, keyVars, worldVars
    <2> QED
      BY <1>2, <2>1, NoKeyMoves DEF RebindSaves, worldVars
  <1>3. CASE RebindManager(r)
    <2>1. TypeOK'
      BY <1>1, <1>3 DEF HookInv, TypeOK, RebindManager, keyVars, worldVars
    <2> QED
      BY <1>3, <2>1, NoKeyMoves DEF RebindManager, worldVars
  <1>4. CASE RebindHook(r)
    <2>1. TypeOK'
      BY <1>1, <1>4, DoneType DEF HookInv, TypeOK, RebindHook, keyVars
    <2> QED
      BY <1>4, <2>1, NoKeyMoves DEF RebindHook
  <1> QED
    BY <1>2, <1>3, <1>4

-----------------------------------------------------------------------------
(* Theorems. *)

\* The tracker and the rest of the hook keep their types, and what the tracker
\* knows of each key accounts for what other programs were told of it.
THEOREM HookHolds == Spec => []HookInv
  <1>1. Init => HookInv
    BY ComboAssumption, RebinderAssumption
    DEF Init, HookInv, TypeOK, RestInv, NoGhostKeys, AppsInv, AllKeys, Tracked, Kept
  <1>2. HookInv /\ [Next]_vars => HookInv'
    <2> SUFFICES ASSUME HookInv, [Next]_vars
                 PROVE  HookInv'
      OBVIOUS
    <2>1. CASE Keyboard
      BY <2>1, KeyboardKeeps
    <2>2. CASE \/ \E on \in Recorders : SetCapture(on)
               \/ LeaseLapses
               \/ \E on \in BOOLEAN : SetDictationActive(on)
      BY <2>2, FlagsKeep
    <2>3. CASE StartBegins \/ HookStarts \/ HookFails
      BY <2>3, StartKeeps
    <2>4. CASE \E r \in Rebinders : RebindSaves(r) \/ RebindManager(r) \/ RebindHook(r)
      BY <2>4, RebindKeeps
    <2>5. CASE UNCHANGED vars
      <3>1. TypeOK'
        BY <2>5 DEF HookInv, TypeOK, vars, keyVars, worldVars, bindVars
      <3> QED
        BY <2>5, <3>1, NoKeyMoves DEF vars, worldVars
    <2> QED
      BY <2>1, <2>2, <2>3, <2>4, <2>5 DEF Next
  <1> QED
    BY <1>1, <1>2, PTL DEF Spec

\* Every variable of the hook keeps its type, and a swallowed key is a tracked
\* one.
THEOREM HookTypes == Spec => []TypeOK
  <1>1. HookInv => TypeOK
    BY DEF HookInv
  <1> QED
    BY <1>1, HookHolds, PTL

\* The tracker never believes a key down that is up (HotkeyEdgeTracker's
\* keys_down and escape_down, whatever capture, rebinds and start do between).
THEOREM NoGhosts == Spec => []NoGhostKeys
  <1>1. HookInv => NoGhostKeys
    BY DEF HookInv
  <1> QED
    BY <1>1, HookHolds, PTL

\* Other programs are told of a release exactly when they were told of the
\* press: no key stuck down, and none that goes up unpressed.
THEOREM NoKeyStuck == Spec => []NothingStuckInApps
  <1>1. HookInv => NothingStuckInApps
    <2> SUFFICES ASSUME HookInv, NEW k \in Keys \cup {Escape}
                 PROVE  apps[k] # "stray" /\ (apps[k] = "down" => k \in held)
      BY DEF NothingStuckInApps
    <2>1. apps[k] # "stray" /\ (apps[k] = "down" => Tracked(k))
      BY DEF HookInv, AppsInv, AllKeys
    <2>2. Tracked(k) => k \in held
      BY DEF HookInv, NoGhostKeys, Tracked
    <2> QED
      BY <2>1, <2>2
  <1> QED
    BY <1>1, HookHolds, PTL

\* While the combo stays and no recorder has the keyboard, the edges sent to
\* the controller keep in step with the keys of the combo.
THEOREM EdgesFollow == Spec => EdgesFollowKeys
  <1> DEFINE Follows ==
        (/\ running /\ push' = push /\ ~ capture
         /\ talking = IsActive(push, keysDown))
          => talking' = IsActive(push', keysDown')
  <1>1. HookInv /\ [Next]_vars => [Follows]_vars
    <2> SUFFICES ASSUME HookInv, Next, running, push' = push, ~ capture,
                        talking = IsActive(push, keysDown)
                 PROVE  talking' = IsActive(push', keysDown')
      OBVIOUS
    <2> USE EscapeApart
    <2>1. talking \in BOOLEAN
      BY DEF HookInv, TypeOK
    <2>2. ASSUME NEW down, keysDown' = down, NEW more, "pressed" \notin more,
                 "released" \notin more, Send(more \cup PushEdge(down))
          PROVE  talking' = IsActive(push', keysDown')
      BY <2>1, <2>2 DEF Send, PushEdge, IsActive
    <2>3. ASSUME keysDown' = keysDown, talking' = talking
          PROVE  talking' = IsActive(push', keysDown')
      BY <2>3 DEF IsActive
    <2>4. ASSUME keysDown' = keysDown, NEW more, "pressed" \notin more,
                 "released" \notin more, Send(more)
          PROVE  talking' = IsActive(push', keysDown')
      BY <2>1, <2>3, <2>4 DEF Send
    <2>5. CASE \E k \in Keys : Press(k)
      <3>1. PICK k \in Keys : Press(k)
        BY <2>5
      <3> DEFINE down == keysDown \cup {k}
                 more == IF k = Toggle.main /\ IsActive(Toggle, down) THEN {"toggle"} ELSE {}
      <3>2. keysDown' = down /\ Send(more \cup PushEdge(down))
        BY <3>1 DEF Press
      <3>3. "pressed" \notin more /\ "released" \notin more
        OBVIOUS
      <3> HIDE DEF down, more
      <3> QED
        BY <3>2, <3>3, <2>2
    <2>6. CASE \E k \in Keys : Release(k)
      <3>1. PICK k \in Keys : Release(k)
        BY <2>6
      <3>2. keysDown' = keysDown \ {k} /\ Send({} \cup PushEdge(keysDown \ {k}))
        BY <3>1 DEF Release
      <3> QED
        BY <3>2, <2>2
    <2>7. CASE \E k \in Keys : Repeat(k)
      BY <2>7, <2>4 DEF Repeat, keyVars
    <2>8. CASE \E recording \in BOOLEAN : PressEscape(recording)
      <3>1. PICK recording \in BOOLEAN : PressEscape(recording)
        BY <2>8
      <3>2. Send({}) \/ Send({"cancel"}) \/ Send({"capture"})
        BY <3>1 DEF PressEscape
      <3>3. keysDown' = keysDown
        BY <3>1 DEF PressEscape
      <3> QED
        BY <3>2, <3>3, <2>4
    <2>9. CASE ReleaseEscape
      BY <2>9, <2>4 DEF ReleaseEscape
    <2>10. CASE \/ \E k \in Keys : CapturePress(k) \/ CaptureRelease(k)
                \/ \E k \in Keys \cup {Escape} : KeyWithoutHook(k)
      BY <2>10 DEF CapturePress, CaptureRelease, KeyWithoutHook
    <2>11. CASE \/ \E on \in Recorders : SetCapture(on)
                \/ LeaseLapses
                \/ \E on \in BOOLEAN : SetDictationActive(on)
      BY <2>11, <2>3 DEF SetCapture, LeaseLapses, SetDictationActive, keyVars
    <2>12. CASE StartBegins \/ HookStarts \/ HookFails
      BY <2>12, <2>3 DEF StartBegins, HookStarts, HookFails, keyVars
    <2>13. CASE \E r \in Rebinders : RebindSaves(r) \/ RebindManager(r) \/ RebindHook(r)
      BY <2>13, <2>3 DEF RebindSaves, RebindManager, RebindHook, keyVars
    <2> QED
      BY <2>5, <2>6, <2>7, <2>8, <2>9, <2>10, <2>11, <2>12, <2>13 DEF Next, Keyboard
  <1> QED
    BY <1>1, HookHolds, PTL DEF Spec, EdgesFollowKeys

-----------------------------------------------------------------------------
(* Rebinding, one command at a time. *)

\* How far the combo has come on its way from the settings to the hook.
SettleInv(r) ==
  /\ slot = Monitor <=> pc[Monitor] = "start"
  /\ pc[Monitor] = "start" => ~ running
  /\ pc[r] = "idle" => /\ manager = settings
                       /\ running => push = settings
                       /\ pc[Monitor] = "start" => want[Monitor] = settings
  /\ pc[r] # "idle" => want[r] = settings
  /\ pc[r] = "runtime" => manager = settings

\* A lone rebind ends with the settings, the manager and the running hook on
\* one combo, even when the hook starts in the middle of it.
THEOREM LoneRebindSettles ==
  ASSUME NEW r, Rebinders = {r}
  PROVE  Spec => []RebindSettles
  <1>1. Init => SettleInv(r)
    BY RebinderAssumption DEF Init, SettleInv, Tasks
  <1>2. TypeOK /\ SettleInv(r) /\ [Next]_vars => SettleInv(r)'
    <2> SUFFICES ASSUME TypeOK, SettleInv(r), [Next]_vars
                 PROVE  SettleInv(r)'
      OBVIOUS
    <2>1. r \in Tasks /\ Monitor \in Tasks /\ r # Monitor /\ Free # Monitor
      BY RebinderAssumption DEF Tasks
    <2>2. CASE UNCHANGED <<running, push, bindVars>>
      BY <2>2 DEF SettleInv, bindVars
    <2>3. CASE StartBegins
      BY <2>1, <2>3 DEF SettleInv, StartBegins, worldVars, TypeOK
    <2>4. CASE HookStarts
      BY <2>1, <2>4 DEF SettleInv, HookStarts, Done, TypeOK
    <2>5. CASE HookFails
      BY <2>1, <2>5 DEF SettleInv, HookFails, Done, worldVars, TypeOK
    <2>6. CASE RebindSaves(r)
      BY <2>1, <2>6 DEF SettleInv, RebindSaves, worldVars, TypeOK
    <2>7. CASE RebindManager(r)
      BY <2>1, <2>7 DEF SettleInv, RebindManager, worldVars, TypeOK
    <2>8. CASE RebindHook(r)
      BY <2>1, <2>8 DEF SettleInv, RebindHook, Done, TypeOK
    <2>9. CASE Keyboard
      BY <2>2, <2>9 DEF Keyboard, KeyWithoutHook, Repeat, Press, Release, CapturePress,
                       CaptureRelease, PressEscape, ReleaseEscape, worldVars
    <2>10. CASE \/ \E on \in Recorders : SetCapture(on)
                \/ LeaseLapses
                \/ \E on \in BOOLEAN : SetDictationActive(on)
      BY <2>2, <2>10 DEF SetCapture, LeaseLapses, SetDictationActive
    <2>11. CASE UNCHANGED vars
      BY <2>2, <2>11 DEF vars, worldVars
    <2> QED
      BY <2>3, <2>4, <2>5, <2>6, <2>7, <2>8, <2>9, <2>10, <2>11 DEF Next
  <1>3. SettleInv(r) => RebindSettles
    BY RebinderAssumption DEF SettleInv, RebindSettles
  <1> QED
    BY <1>1, <1>2, <1>3, HookTypes, PTL DEF Spec
=============================================================================
