----------------------------- MODULE MCDelivery -----------------------------
(* The modules about what becomes of a dictation's text.  They share no     *)
(* state, so each behaviour looks at one of them.                           *)
EXTENDS TextInsertion, LatePolish, DictationStats, TLC

VARIABLE part

MCHost == "editor" :> "plain" @@ "browser" :> "flaky" @@ "term" :> "terminal" @@
          "admin" :> "plain" @@ "uac" :> "prompt" @@ "voicewave" :> "plain"

Init ==
  /\ InsertInit /\ LateInit /\ StatsInit
  /\ part \in {"insert", "late", "stats"}
  /\ part # "insert" => front = "editor"
  /\ part # "stats" => kept = <<>>

Next ==
  /\ UNCHANGED part
  /\ \/ part = "insert" /\ InsertNext /\ UNCHANGED <<lateVars, statsVars>>
     \/ part = "late" /\ LateNext /\ UNCHANGED <<insertVars, statsVars>>
     \/ part = "stats" /\ StatsNext /\ UNCHANGED <<insertVars, lateVars>>

Spec == Init /\ [][Next]_<<part, insertVars, lateVars, statsVars>>
=============================================================================
