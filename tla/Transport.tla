----------------------------- MODULE Transport -----------------------------
(***************************************************************************)
(* How one operation receipt of the bridge ledger becomes delivery facts   *)
(* (codex_session_relay/transport.py).  A receipt is abstracted to the     *)
(* five things the classifier looks at: its status, the code of its RPC    *)
(* error, the method its error text is prefixed with, whether the resume   *)
(* response was recorded, and whether a usable turn id is present.         *)
(***************************************************************************)

Statuses == {"accepted", "failed", "outcome_unknown", "in_progress_or_unknown", "other"}

\* "settings" stands for every member of SETTINGS_REFUSALS, "approval" for
\* unsupported_approval_policy, "other" for a code the table does not know.
Codes == {"none", "thread_busy", "approval", "settings", "other"}

\* KNOWN_METHODS, and "none" for an error text that carries no such prefix.
Methods == {"none", "initialize", "thread/read", "thread/resume", "turn/start"}

Receipt == [status: Statuses, code: Codes, method: Methods, resumed: BOOLEAN, turn: BOOLEAN]

NoReceipt ==
  [status |-> "other", code |-> "none", method |-> "none", resumed |-> FALSE, turn |-> FALSE]

Outcomes == {"dispatched", "deferred_busy", "withheld_pre_send", "held_uncertain", "inbox_only"}

FailedOperations == Methods \cup {"transport", "unclassified"}

Fact == [state: Outcomes, attempted: {"yes", "no", "unknown"}, retrySafe: BOOLEAN,
         op: FailedOperations]

Facts(state, attempted, retrySafe, op) ==
  [state |-> state, attempted |-> attempted, retrySafe |-> retrySafe, op |-> op]

(***************************************************************************)
(* The refusals a failed receipt can prove.  The code is read before the   *)
(* method prefix: a busy refusal and a settings refusal would both be      *)
(* misread through the prefix alone.                                       *)
(***************************************************************************)
BusyRefusalAtAnyTime(r) == r.status = "failed" /\ r.code = "thread_busy"   \* mutant

BusyRefusal(r)     == r.status = "failed" /\ r.code = "thread_busy" /\ ~r.resumed
ApprovalRefusal(r) == r.status = "failed" /\ r.code = "approval" /\ r.resumed
SettingsRefusal(r) == r.status = "failed" /\ r.code = "settings" /\ r.resumed
CodeSettles(r)     == BusyRefusal(r) \/ ApprovalRefusal(r) \/ SettingsRefusal(r)

ReadRefusal(r) ==
  /\ r.status = "failed" /\ ~CodeSettles(r)
  /\ r.method \in {"thread/read", "thread/resume"} /\ ~r.resumed

FailedIn(r, method) == r.status = "failed" /\ ~CodeSettles(r) /\ r.method = method

UnknownOutcome == Facts("held_uncertain", "unknown", FALSE, "transport")

Unclassified == Facts("held_uncertain", "unknown", FALSE, "unclassified")

\* classify_operation_receipt: the first matching row of the table.
Classify(r) ==
  CASE r.status = "accepted" /\ r.turn -> Facts("dispatched", "yes", FALSE, "none")
    [] r.status = "in_progress_or_unknown" ->
         Facts("held_uncertain", "unknown", FALSE, "none")
    [] r.status = "outcome_unknown" -> UnknownOutcome
    [] BusyRefusal(r)     -> Facts("deferred_busy", "no", TRUE, "thread/read")
    [] ApprovalRefusal(r) -> Facts("inbox_only", "no", FALSE, "thread/resume")
    [] SettingsRefusal(r) -> Facts("withheld_pre_send", "no", TRUE, "thread/resume")
    [] FailedIn(r, "initialize") ->
         Facts("held_uncertain", "unknown", FALSE, "initialize")
    [] FailedIn(r, "turn/start") -> Facts("held_uncertain", "yes", FALSE, "turn/start")
    [] ReadRefusal(r) -> Facts("withheld_pre_send", "no", TRUE, r.method)
    [] OTHER -> Unclassified

(***************************************************************************)
(* assert_attempt_invariants: what the frozen schema demands of a settled  *)
(* record.  Tripping one of these asserts aborts the settlement and leaves *)
(* the attempt in flight.                                                  *)
(***************************************************************************)
AttemptRecordAdmissible(r, f) ==
  /\ f.state = "held_uncertain" => ~f.retrySafe /\ f.attempted \in {"unknown", "yes"}
  /\ f.retrySafe =>
       /\ f.attempted = "no" /\ r.status = "failed"
       /\ f.state \in {"withheld_pre_send", "deferred_busy"}
       /\ f.op \in {"thread/read", "thread/resume"}
  /\ r.status = "in_progress_or_unknown" => f.attempted = "unknown" /\ ~f.retrySafe
  /\ f.state = "dispatched" => r.turn /\ f.attempted = "yes" /\ ~f.retrySafe
  /\ f.op \in {"turn/start", "transport", "initialize", "unclassified"} =>
       ~f.retrySafe /\ f.attempted \in {"unknown", "yes"}
=============================================================================
