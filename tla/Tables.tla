------------------------------- MODULE Tables -------------------------------
(***************************************************************************)
(* The pure decisions of the relay, each asked over every input it can     *)
(* tell apart, and compared with a reference of its own: one initial       *)
(* state, and one successor for every question.                            *)
(***************************************************************************)
EXTENDS Integers, FiniteSets, Transport

CONSTANTS v1, v2, v3, v4, None

Lin == INSTANCE Lineage

VARIABLES
  asked,    \* which decision
  receipt,  \* the receipt to classify
  graph     \* the revisions of a generation and what they declare

vars == <<asked, receipt, graph>>

Revisions == {v1, v2, v3, v4}

\* What one generation may hold: any revisions, any declarations - of a revision that was never
\* reported too, never of itself - and the corrected revision, reported again or not.
Graphs ==
  {g \in [nodes: SUBSET Revisions, supersedes: [Revisions -> Revisions \cup {None}],
          anchors: {S \in SUBSET Revisions : Cardinality(S) <= 1}] :
     \A v \in Revisions : IF v \in g.nodes THEN g.supersedes[v] # v ELSE g.supersedes[v] = None}

Init ==
  /\ asked = "nothing"
  /\ receipt = NoReceipt
  /\ graph = [nodes |-> {}, supersedes |-> [v \in Revisions |-> None], anchors |-> {}]

ClassifyReceipt == asked' = "receipt" /\ receipt' \in Receipt /\ UNCHANGED graph
DecideHead      == asked' = "head" /\ graph' \in Graphs /\ UNCHANGED receipt

Next == asked = "nothing" /\ (ClassifyReceipt \/ DecideHead)

Spec == Init /\ [][Next]_vars

-----------------------------------------------------------------------------
\* No receipt trips an assert of the frozen attempt schema (assert_attempt_invariants), so a
\* settlement can always be written.
EveryRecordAdmissible == AttemptRecordAdmissible(receipt, Classify(receipt))

(***************************************************************************)
(* The table of protocol-v1.md section 3, row by row, as the reference the *)
(* classifier is compared with.  A row is a condition and the facts it     *)
(* promises; the last row is "anything else".                              *)
(***************************************************************************)
Row(state, attempted, retrySafe) ==
  [state |-> state, attempted |-> attempted, retrySafe |-> retrySafe]

Listed(r) ==
  {row \in {
     [on |-> r.status = "accepted" /\ r.turn, says |-> Row("dispatched", "yes", FALSE)],
     [on |-> r.status = "accepted" /\ ~r.turn, says |-> Row("held_uncertain", "unknown", FALSE)],
     [on |-> r.status \in {"in_progress_or_unknown", "outcome_unknown"},
      says |-> Row("held_uncertain", "unknown", FALSE)],
     [on |-> r.status = "failed" /\ r.code = "thread_busy" /\ ~r.resumed,
      says |-> Row("deferred_busy", "no", TRUE)],
     [on |-> /\ r.status = "failed" /\ r.code # "thread_busy" /\ ~r.resumed
             /\ r.method \in {"thread/read", "thread/resume"},
      says |-> Row("withheld_pre_send", "no", TRUE)],
     [on |-> r.status = "failed" /\ r.code = "approval" /\ r.resumed,
      says |-> Row("inbox_only", "no", FALSE)],
     [on |-> /\ r.status = "failed" /\ r.method = "initialize"
             /\ ~(r.code = "thread_busy" /\ ~r.resumed) /\ ~(r.code = "approval" /\ r.resumed),
      says |-> Row("held_uncertain", "unknown", FALSE)],
     [on |-> /\ r.status = "failed" /\ r.method = "turn/start"
             /\ ~(r.code = "thread_busy" /\ ~r.resumed) /\ ~(r.code = "approval" /\ r.resumed),
      says |-> Row("held_uncertain", "yes", FALSE)]} : row.on}

Says(r) == IF Listed(r) = {} THEN Row("held_uncertain", "unknown", FALSE)
           ELSE (CHOOSE row \in Listed(r) : TRUE).says

Answer(r) == LET f == Classify(r) IN Row(f.state, f.attempted, f.retrySafe)

\* protocol-v1.md section 3: the classifier answers what the published table says - but for the
\* refusals the table has no row for: a settings mismatch found in the resume response, which the
\* classifier may call retry safe because turn/start was not sent.
AsPublishedButSettings == SettingsRefusal(receipt) \/ Answer(receipt) = Says(receipt)

-----------------------------------------------------------------------------
\* head_revision: whatever order revisions arrived in, the head of a generation is the newest of
\* the one chain they declare, and there is none when they declare no such chain - a fork, a
\* cycle, an unknown or doubly known predecessor, two beginnings.
HeadIsChainEnd ==
  {v \in Revisions : Lin!HeadOf(graph.nodes, graph.supersedes, graph.anchors) = v}
    = {v \in graph.nodes : Lin!IsChainEnd(v, graph.nodes, graph.supersedes, graph.anchors)}

\* What the pure decisions say is what the published contract says: a receipt is classified as its
\* table has it, into a record the store takes, and a head is the end of the chain declared.
DecisionsAgree ==
  /\ asked = "receipt" => EveryRecordAdmissible /\ AsPublishedButSettings
  /\ asked = "head" => HeadIsChainEnd
=============================================================================
