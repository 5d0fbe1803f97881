------------------------------ MODULE LatePolish ------------------------------
(***************************************************************************)
(* What AI polish and History do around an insertion: state/dictation/     *)
(* polish.rs decides what is inserted and lets attempts finish behind it,  *)
(* inference/llm_polish.rs asks a worker process one request at a time,    *)
(* history/mod.rs keeps a record of each dictation, and record.rs writes   *)
(* the one that an insertion could not.                                    *)
(*                                                                         *)
(* Dictations follow each other; what they leave running overlaps.  A text *)
(* is the formatted text of a dictation ("floor") or the worker's rewrite  *)
(* of it ("polish").                                                       *)
(***************************************************************************)
EXTENDS Naturals, Sequences, FiniteSets, SequencesExt

CONSTANTS
  MaxDictations,  \* bound on dictations
  MaxRecords,     \* MAX_HISTORY_RECORDS
  MaxFaults,      \* bound on failed writes, failed workers and restarts
  MaxErasures,    \* bound on the user's History commands
  AnnounceEvery,  \* POLISH_PILL_ANNOUNCE_EVERY
  Nil

ASSUME LateAssumption ==
  /\ MaxDictations \in Nat
  /\ Nil \notin Nat /\ Nil # "accepted" /\ Nil \notin {"floor", "polish"} \X (1 .. MaxDictations)

Dictations == 1 .. MaxDictations

VARIABLES
  counter,   \* session_counter
  stage,     \* of each dictation: "new", "waiting" for polish, "inserting", "pressing"
             \* (about to press Enter), "recording", "over", "cancelled"
  path,      \* "still" (nothing to polish), "offer" (polished behind the insertion) or "wait"
  made,      \* its Delivery: the text, the outcome and the polished text
  result,    \* its Insertion: "none", "keyed" (typed or pasted), "copied" (to the
             \* clipboard only), "failed" or "error"
  arrived,    \* (history) what keystrokes brought to the program
  record,    \* the id of its record, as its insertion returned it
  ask,       \* its polish request: "none", "queued", "asked" or "answered"
  answer,    \* what the request returned
  gate,      \* POLISH_GATE: the dictation whose request is under way
  worker,    \* the parked worker: its next id and the answers it has not been asked for
  rows,      \* HistoryStore: the records
  nextId,
  keeping,   \* whether the retention policy keeps anything
  disk,      \* the store as last written
  polished,  \* polish_success_count
  offers,    \* dictations whose polished text the pill offered
  erased,    \* (history) dictations whose record was deleted, not kept, or lost
  faults, erasures  \* counters

lateVars == <<counter, stage, path, made, result, arrived, record, ask, answer, gate, worker,
              rows, nextId, keeping, disk, polished, offers, erased, faults, erasures>>
flow == <<counter, stage, path, made, result, arrived, record>>
asking == <<ask, answer, gate, worker>>
store == <<rows, nextId, keeping, disk, erased>>
pill == <<polished, offers>>

Texts == {"floor", "polish"} \X Dictations
NoDelivery == [text |-> Nil, outcome |-> Nil, polished |-> Nil]
NoWorker == [up |-> FALSE, next |-> 1, lines |-> <<>>]
Fault == faults < MaxFaults /\ faults' = faults + 1
Move(d, s) == stage' = [stage EXCEPT ![d] = s]

LateInit ==
  /\ counter = 0 /\ stage = [d \in Dictations |-> "new"] /\ path = [d \in Dictations |-> "still"]
  /\ made = [d \in Dictations |-> NoDelivery] /\ result = [d \in Dictations |-> "none"]
  /\ record = [d \in Dictations |-> Nil] /\ arrived = [d \in Dictations |-> Nil]
  /\ ask = [d \in Dictations |-> "none"] /\ answer = [d \in Dictations |-> Nil]
  /\ gate = Nil /\ worker = NoWorker
  /\ rows = <<>> /\ nextId = 1 /\ keeping = TRUE /\ disk = [rows |-> <<>>, next |-> 1, keeping |-> TRUE]
  /\ polished = 0 /\ offers = <<>> /\ erased = {} /\ faults = 0 /\ erasures = 0

-----------------------------------------------------------------------------
(* resolve_delivery.  What a run leaves behind it is written while the next *)
(* one may have begun.                                                     *)

Delivered(d, t, outcome, p) ==
  made' = [made EXCEPT ![d] = [text |-> t, outcome |-> outcome, polished |-> p]]

\* Literal, Standard, an exact snippet, polish switched off, or a decode that
\* used up the budget: the formatted text goes in at once.
Immediate(d) ==
  \E kind \in {"snippetExact", "literal", "disabled", "fallbackTimeout", Nil} :
    /\ Delivered(d, <<"floor", d>>, kind, Nil) /\ Move(d, "inserting")
    /\ \E p \in {"still"} \cup IF kind = Nil THEN {"offer"} ELSE {} : path' = [path EXCEPT ![d] = p]
    /\ UNCHANGED ask

\* One attempt within the budget.
WaitFor(d) ==
  /\ ask' = [ask EXCEPT ![d] = "queued"] /\ path' = [path EXCEPT ![d] = "wait"]
  /\ Move(d, "waiting") /\ UNCHANGED made

Begin ==
  /\ counter < MaxDictations /\ counter' = counter + 1
  /\ \A d \in 1 .. counter : stage[d] \in {"pressing", "recording", "over", "cancelled"}
  /\ Immediate(counter') \/ WaitFor(counter')
  /\ UNCHANGED <<result, arrived, record, answer, gate, worker, store, pill, faults, erasures>>

\* gate_polish_candidate and the restoring of snippets may refuse any answer.
Accepted(d) ==
  /\ stage[d] = "waiting" /\ ask[d] = "answered" /\ Move(d, "inserting")
  /\ \/ answer[d] # Nil /\ Delivered(d, answer[d], "accepted", answer[d])
     \/ Delivered(d, <<"floor", d>>, "fallbackRejected", Nil)
  /\ UNCHANGED <<counter, path, result, arrived, record, asking, store, pill, faults, erasures>>

\* The attempt goes on without the dictation.
BudgetEnds(d) ==
  /\ stage[d] = "waiting" /\ ask[d] # "answered" /\ Move(d, "inserting")
  /\ Delivered(d, <<"floor", d>>, "fallbackTimeout", Nil)
  /\ UNCHANGED <<counter, path, result, arrived, record, asking, store, pill, faults, erasures>>

\* end_if_cancelled, before the insertion and before a spoken Enter: the run
\* ends there, with what its insertion has done.
Cancel(d) ==
  /\ stage[d] \in {"waiting", "inserting", "pressing"} /\ Move(d, "cancelled")
  /\ UNCHANGED <<counter, path, made, result, arrived, record, asking, store, pill, faults, erasures>>

-----------------------------------------------------------------------------
(* The history store.  A write that fails leaves the record in memory.     *)

Of(rs) == {rs[i].of : i \in DOMAIN rs}

\* prune_expired: what is left after dropping the oldest, by age or by number.
Pruned(rs) == {SubSeq(rs, n, Len(rs)) : n \in {m \in 1 .. Len(rs) : Len(rs) - m < MaxRecords}}

\* persist
Persist ==
  \/ disk' = [rows |-> rows', next |-> nextId', keeping |-> keeping'] /\ UNCHANGED faults
  \/ UNCHANGED disk /\ Fault

Store(rs) == rows' = rs /\ erased' = erased \cup (Of(rows) \ Of(rs))

\* append_record
AppendRecord(d, how, text) ==
  /\ LET row == [id |-> nextId, of |-> d, how |-> how, inserted |-> text,
                 polished |-> made[d].polished, outcome |-> made[d].outcome]
     IN \E rs \in Pruned(Append(rows, row)) : Store(rs)
  /\ nextId' = nextId + 1 /\ UNCHANGED keeping
  /\ Persist

Off(d) == UNCHANGED <<rows, nextId, keeping, disk, faults>> /\ erased' = erased \cup {d}

\* insert_text_with_polish_meta.  The record says how the insertion went, and has
\* the text whether or not it went well; an insertion that errors has no record.
Insert(d) ==
  /\ stage[d] = "inserting" /\ \E s \in {"pressing", "recording"} : Move(d, s)
  /\ \/ \E how \in {"keyed", "copied", "failed"} :
          /\ result' = [result EXCEPT ![d] = how]
          /\ arrived' = IF how = "keyed" THEN [arrived EXCEPT ![d] = made[d].text] ELSE arrived
          /\ IF keeping
             THEN /\ AppendRecord(d, how, made[d].text)
                  /\ record' = IF faults' = faults THEN [record EXCEPT ![d] = nextId] ELSE record
             ELSE Off(d) /\ UNCHANGED record
     \/ result' = [result EXCEPT ![d] = "error"] /\ UNCHANGED <<arrived, store, record, faults>>
  /\ UNCHANGED <<counter, path, made, asking, pill, erasures>>

\* The delay before a spoken Enter ends in a run that still owns the session;
\* whether the Enter is pressed is TextInsertion's.
PressEnter(d) ==
  /\ stage[d] = "pressing" /\ counter = d /\ Move(d, "recording")
  /\ UNCHANGED <<counter, path, made, result, arrived, record, asking, store, pill, faults, erasures>>

Rescues(d) == result[d] = "error"

\* The end of the run: Standard's polish is asked for behind an insertion that
\* succeeded, and the record an insertion could not write is written (without
\* the inserted text: none was).
Record(d) ==
  /\ stage[d] = "recording" /\ Move(d, "over")
  /\ ask' = IF path[d] = "offer" /\ result[d] \in {"keyed", "copied"}
            THEN [ask EXCEPT ![d] = "queued"] ELSE ask
  /\ IF ~ Rescues(d) THEN UNCHANGED <<store, faults>>
     ELSE IF keeping
     THEN AppendRecord(d, "rescued", Nil)
     ELSE Off(d)
  /\ UNCHANGED <<counter, path, made, result, arrived, record, answer, gate, worker, pill, erasures>>

Clear ==
  /\ erasures < MaxErasures /\ erasures' = erasures + 1
  /\ Store(<<>>) /\ UNCHANGED <<nextId, keeping>> /\ Persist
  /\ UNCHANGED <<flow, asking, pill>>

\* set_retention_policy prunes at once.
SetRetention ==
  /\ erasures < MaxErasures /\ erasures' = erasures + 1
  /\ keeping' = ~ keeping /\ Store(IF keeping' THEN rows ELSE <<>>) /\ UNCHANGED nextId /\ Persist
  /\ UNCHANGED <<flow, asking, pill>>

-----------------------------------------------------------------------------
(* The worker.  Requests take turns at the gate; one that gets no proper   *)
(* answer costs the worker its life, so that no answer is left for another *)

\* next_request_id and checkout_worker: a fresh worker also starts at 1.
Ask(d) ==
  /\ ask[d] = "queued" /\ gate = Nil
  /\ \/ /\ gate' = d /\ ask' = [ask EXCEPT ![d] = "asked"]
        /\ worker' = [up |-> TRUE, next |-> IF worker.up THEN worker.next + 1 ELSE 1,
                      lines |-> Append(worker.lines, [id |-> worker.next, of |-> d])]
        /\ UNCHANGED <<answer, faults>>
     \/ /\ ~ worker.up /\ Fault /\ ask' = [ask EXCEPT ![d] = "answered"] /\ UNCHANGED <<answer, gate, worker>>
  /\ UNCHANGED <<flow, store, pill, erasures>>

\* Slip: the worker that was too slow is parked again.
AfterTimeoutParked == worker' = worker

AfterTimeout == worker' = NoWorker

\* The answer with the request's id, or an answer that says why not.
Answer(d) ==
  /\ gate = d /\ gate' = Nil /\ ask' = [ask EXCEPT ![d] = "answered"]
  /\ LET line == Head(worker.lines) IN
       IF line.id = (IF worker.next = 1 THEN 1 ELSE worker.next - 1)
       THEN /\ worker' = [worker EXCEPT !.lines = Tail(@)]
            /\ answer' \in {answer, [answer EXCEPT ![d] = <<"polish", line.of>>]}
       ELSE worker' = NoWorker /\ UNCHANGED answer
  /\ UNCHANGED <<flow, store, pill, faults, erasures>>

Timeout(d) ==
  /\ gate = d /\ gate' = Nil /\ Fault /\ ask' = [ask EXCEPT ![d] = "answered"]
  /\ AfterTimeout /\ UNCHANGED answer
  /\ UNCHANGED <<flow, store, pill, erasures>>

Crash(d) ==
  /\ gate = d /\ gate' = Nil /\ Fault /\ ask' = [ask EXCEPT ![d] = "answered"]
  /\ worker' = NoWorker /\ UNCHANGED answer
  /\ UNCHANGED <<flow, store, pill, erasures>>

-----------------------------------------------------------------------------
(* What comes back behind the insertion. *)

\* update_polish_meta finds the record by its id; it may be gone.
Enriched(d, t) ==
  [i \in DOMAIN rows |-> IF rows[i].id = record[d] THEN [rows[i] EXCEPT !.polished = t] ELSE rows[i]]

Enrich(d) ==
  IF \E i \in DOMAIN rows : rows[i].id = record[d]
  THEN /\ rows' = Enriched(d, answer[d])
       /\ UNCHANGED <<nextId, keeping, erased>>
       /\ Persist
  ELSE UNCHANGED <<store, faults>>

\* The pill offers the text only if no newer dictation has begun, and then only
\* now and again.
Offer(d) ==
  IF path[d] = "offer" /\ counter = d
  THEN /\ polished' = polished + 1
       /\ offers' = IF polished % AnnounceEvery = 0 THEN Append(offers, d) ELSE offers
  ELSE UNCHANGED pill

\* A refused answer, or one that changes nothing, ends here.
Late(d) ==
  /\ stage[d] = "over" /\ ask[d] = "answered" /\ ask' = [ask EXCEPT ![d] = "none"]
  /\ IF answer[d] # Nil /\ (path[d] = "offer" \/ made[d].outcome = "fallbackTimeout")
     THEN \/ Enrich(d) /\ Offer(d)
          \/ UNCHANGED <<store, pill, faults>>
     ELSE UNCHANGED <<store, pill, faults>>
  /\ UNCHANGED <<flow, answer, gate, worker, erasures>>

\* The app ends and starts again with what is on disk.
Restart ==
  /\ Fault
  /\ stage' = [d \in Dictations |-> IF stage[d] \in {"new", "cancelled"} THEN stage[d] ELSE "over"]
  /\ ask' = [d \in Dictations |-> "none"] /\ gate' = Nil /\ worker' = NoWorker
  /\ rows' = disk.rows /\ nextId' = disk.next /\ keeping' = disk.keeping
  /\ erased' = erased \cup {d \in Dictations : stage[d] # "new" /\ d \notin Of(disk.rows)}
  /\ UNCHANGED <<counter, path, made, result, arrived, record, answer, disk, pill, erasures>>

LateNext ==
  \/ Begin
  \/ \E d \in Dictations :
       \/ Accepted(d) \/ BudgetEnds(d) \/ Cancel(d)
       \/ Insert(d) \/ PressEnter(d) \/ Record(d)
       \/ Ask(d) \/ Answer(d) \/ Timeout(d) \/ Crash(d) \/ Late(d)
  \/ Clear \/ SetRetention \/ Restart

LateSpec == LateInit /\ [][LateNext]_lateVars

-----------------------------------------------------------------------------

\* Cancelled before the record that its insertion could not write.
Cut(d) == stage[d] = "cancelled" /\ result[d] = "error"

\* A record tells how its dictation's insertion went, and if keystrokes carried
\* the text, the very text that went into the app; a text that went there is not
\* told as copied, failed or rescued.  The text it gives is the rewrite on
\* "accepted" and the formatted text on any other outcome, and beside it is no
\* rewrite but its own dictation's, however late that came and whatever happened
\* to the records, the worker and the other requests meanwhile.  A dictation
\* whose text was to be inserted has one record when it has ended, also when
\* the insertion or a write failed or a cancel stopped its Enter, unless the user
\* deleted it, keeps no history, the app stopped before it was written, or the
\* cancel came between an insertion that errored and its rescue.
HistoryTellsWhatLanded ==
  /\ \A d \in Dictations :
       stage[d] \in {"over", "cancelled"} /\ result[d] # "none" /\ d \notin erased /\ ~ Cut(d) =>
         Cardinality({i \in DOMAIN rows : rows[i].of = d}) = 1
  /\ \A i \in DOMAIN rows :
       LET r == rows[i] IN
       /\ r.how = "keyed" <=> arrived[r.of] # Nil
       /\ r.how = "keyed" => r.inserted = arrived[r.of]
       /\ r.inserted # Nil =>
            r.inserted = IF r.outcome = "accepted" THEN <<"polish", r.of>> ELSE <<"floor", r.of>>
       /\ r.polished \in {Nil, <<"polish", r.of>>}
       /\ r.outcome = "accepted" => r.polished # Nil

=============================================================================
