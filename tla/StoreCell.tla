----------------------------- MODULE StoreCell -----------------------------
(***************************************************************************)
(* What a store file promises the rest of the app (the head of             *)
(* atomic_file.rs): one value that changes in a single step, survives      *)
(* failed writes and the end of the process, and after a power loss is at  *)
(* worst one write old.  A load that cannot read it breaks that promise:   *)
(* it goes back to the version kept from before a write, or to nothing.    *)
(***************************************************************************)
CONSTANTS Values, Missing

VARIABLES
  store,   \* .now is what the store holds, .before a version it may go back to
  recent,  \* what a power loss may leave it at
  answer,  \* what the last load returned
  unread   \* the load under way could not read a copy that is in order

cellVars == <<store, recent, answer, unread>>

CellInit ==
  /\ store \in [now : Values \cup {Missing}, before : {Missing}]
  /\ recent = {store} /\ answer = Missing /\ unread = FALSE

\* A write takes effect: all at once, and only over a durable predecessor.
Put(v) ==
  /\ \A s \in recent : s.now = store.now
  /\ store' = [store EXCEPT !.now = v] /\ recent' = recent \cup {store'}
  /\ UNCHANGED <<answer, unread>>

\* The present version is kept as the one from before, or that one is dropped.
Keep ==
  /\ \E b \in {store.now, Missing} : store' = [store EXCEPT !.before = b]
  /\ recent' = recent \cup {store'} /\ UNCHANGED <<answer, unread>>

\* The disk has caught up.
Settle == recent' = {store} /\ UNCHANGED <<store, answer, unread>>

PowerLoss ==
  store' \in recent /\ recent' = {store'} /\ unread' = FALSE /\ UNCHANGED answer

\* A new call, or a copy that this load cannot read.
Unread == unread' \in BOOLEAN /\ UNCHANGED <<store, recent, answer>>

\* The value; something else only if a copy in order could not be read.
Get ==
  /\ unread' \in {unread, TRUE}
  /\ answer' \in IF unread' THEN {store.now, store.before, Missing} ELSE {store.now}
  /\ UNCHANGED <<store, recent>>

\* What could not be read makes way for what the load fell back to.
Lose ==
  /\ unread'
  /\ store' \in [now : {store.now, store.before, Missing}, before : {store.before, Missing}]
  /\ recent' = recent \cup {store'} /\ UNCHANGED answer

CellNext ==
  (\E v \in Values : Put(v)) \/ Keep \/ Settle \/ PowerLoss \/ Unread \/ Get \/ Lose

CellSpec == CellInit /\ [][CellNext]_cellVars

=============================================================================
