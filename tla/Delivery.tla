------------------------------ MODULE Delivery ------------------------------
(***************************************************************************)
(* The delivery half of the relay: how one queued event becomes at most    *)
(* one turn of its recipient.  Three programs meet here, and each          *)
(* works on the same SQLite store:                                         *)
(*                                                                         *)
(*   - a sender runs DeliveryService.attempt (the daemon's tick, or the    *)
(*     operator's "deliver"), reading outside a transaction and writing    *)
(*     inside one;                                                         *)
(*   - a reconciler runs Reconciler.reconcile_attempt (the daemon's tick,  *)
(*     "recover", or the operator's "reconcile") over a snapshot;          *)
(*   - the transport worker of a sender's process runs _guarded_send       *)
(*     against the host, and keeps going after its caller gave up.         *)
(*                                                                         *)
(* Every transaction is BEGIN IMMEDIATE, so it is one step here; whatever  *)
(* the code reads before it is carried in view[p] and may be stale.        *)
(***************************************************************************)
EXTENDS Integers, FiniteSets, Transport

CONSTANTS
  Events,        \* event ids, all for one recipient
  Senders,       \* processes that run DeliveryService.attempt
  Reconcilers,   \* processes that run Reconciler.reconcile_attempt on open attempts
  Operators,     \* processes that reconcile a request id given by hand
  MaxAttempts,   \* policy.max_attempts
  BusyAttempts,  \* policy.busy_max_attempts
  MaxSends,      \* policy.max_sends_per_recipient_per_hour
  NoProc,        \* nobody: the worker slot of a request no process is sending
  AttemptBound,  \* model bound on attempt_count
  MaxCrashes     \* model bound on process crashes

Procs    == Senders \cup Reconcilers \cup Operators
Requests == Events \X (1..AttemptBound)   \* derive_request_id(event, attempt_no)

ASSUME PolicyAssumption ==
  /\ Events # {}
  /\ NoProc \notin Procs
  /\ MaxAttempts \in Nat \ {0}
  /\ BusyAttempts \in Nat /\ BusyAttempts >= MaxAttempts
  /\ MaxSends \in Nat \ {0}
  /\ AttemptBound \in Nat
  /\ MaxCrashes \in Nat

ClaimableAndHeld ==   \* mutant
  {"queued", "deferred_busy", "withheld_pre_send", "held_uncertain"}

Claimable   == {"queued", "deferred_busy", "withheld_pre_send"}
Outstanding == {"sending", "held_uncertain", "dispatched", "inbox_only"}
DStates     == Claimable \cup Outstanding \cup {"absent", "acknowledged", "superseded"}
Holds       == {"none", "attempt_cap", "busy_cap", "push_channel_closed", "superseded"}

VARIABLES
  \* deliveries table
  dstate, attempts, hold, due, turnId,
  \* delivery_supersession
  noted,
  \* attempts table: internal_state and state
  internal, recorded,
  \* recipient_rate: sends in the current hour, last send within the interval
  sends, recent,
  \* relationships and events, as far as delivery reads them
  standing, active,
  \* bridge ledger, host turns that carry a request token, live transport workers
  op, turns, worker,
  \* processes
  pc, view, crashes,
  \* history: events of which a sender settled an attempt that was no longer its to settle
  overtaken

rowVars  == <<dstate, attempts, hold, due, turnId>>
tryVars  == <<internal, recorded>>
rateVars == <<sends, recent>>
envVars  == <<standing, active>>
hostVars == <<op, turns, worker>>
procVars == <<pc, view>>
vars == <<rowVars, noted, tryVars, rateVars, envVars, hostVars, procVars, crashes, overtaken>>

Sending  == {"calling", "waiting", "returned"}   \* a sender with a claimed attempt
Checking == {"opened", "scanning", "writing"}     \* a reconciler with an attempt
PCs == {"idle", "looked", "clear", "unsuppressed"} \cup Sending \cup Checking

\* What a process read and carries along: a delivery's state and attempt count (a sender), an
\* attempt's recorded state and whether it was the current one (a reconciler), and what it heard.
View == [event: Events, no: 0..AttemptBound, state: DStates, was: Outcomes, current: BOOLEAN,
         got: Receipt, found: BOOLEAN]

NoView == [event |-> CHOOSE e \in Events : TRUE, no |-> 0, state |-> "absent",
           was |-> "held_uncertain", current |-> FALSE, got |-> NoReceipt, found |-> FALSE]

TypeOK ==
  /\ dstate   \in [Events -> DStates]
  /\ attempts \in [Events -> 0..AttemptBound]
  /\ hold     \in [Events -> Holds]
  /\ due      \in [Events -> BOOLEAN]
  /\ turnId   \in [Events -> 0..AttemptBound]
  /\ noted    \in SUBSET Events
  /\ internal \in [Requests -> {"none", "in_flight", "settled"}]
  /\ recorded \in [Requests -> Outcomes]
  /\ sends \in 0..MaxSends /\ recent \in BOOLEAN
  /\ standing \in [Events -> {"current", "old_generation", "replaced"}]
  /\ active \in BOOLEAN
  /\ op \in [Requests -> Receipt]
  /\ turns \in SUBSET Requests
  /\ worker \in [Requests -> Procs \cup {NoProc}]
  /\ pc \in [Procs -> PCs]
  /\ view \in [Procs -> View]
  /\ \A p \in Procs : pc[p] \in Sending \cup Checking => view[p].no # 0
  /\ crashes \in 0..MaxCrashes
  /\ overtaken \in SUBSET Events

Init ==
  /\ dstate   = [e \in Events |-> "absent"]
  /\ attempts = [e \in Events |-> 0]
  /\ hold     = [e \in Events |-> "none"]
  /\ due      = [e \in Events |-> TRUE]
  /\ turnId   = [e \in Events |-> 0]
  /\ noted    = {}
  /\ internal = [r \in Requests |-> "none"]
  /\ recorded = [r \in Requests |-> "held_uncertain"]
  /\ sends = 0 /\ recent = FALSE
  /\ standing = [e \in Events |-> "current"]
  /\ active = TRUE
  /\ op = [r \in Requests |-> NoReceipt]
  /\ turns = {}
  /\ worker = [r \in Requests |-> NoProc]
  /\ pc = [p \in Procs |-> "idle"]
  /\ view = [p \in Procs |-> NoView]
  /\ crashes = 0
  /\ overtaken = {}

-----------------------------------------------------------------------------
(***************************************************************************)
(* What surrounds a delivery.                                              *)
(***************************************************************************)
\* enqueue/enqueue_in: a final event of an active relationship gets a row once.
Enqueue(e) ==
  /\ active /\ dstate[e] = "absent"
  /\ dstate' = [dstate EXCEPT ![e] = "queued"]
  /\ UNCHANGED <<attempts, hold, due, turnId, noted, tryVars, rateVars, envVars, hostVars,
                 procVars, crashes, overtaken>>

NotTerminalOrHeld(e) == dstate[e] \in Claimable \cup {"sending", "dispatched", "inbox_only"} \* mutant

NotTerminal(e) == dstate[e] \in Claimable \cup Outstanding

\* open_generation_in: every row of an earlier generation that is not terminal is annotated in
\* the transaction that advances the generation.
AdvanceGeneration ==
  /\ active /\ \E e \in Events : standing[e] # "old_generation"
  /\ standing' = [e \in Events |-> "old_generation"]
  /\ noted' = noted \cup {e \in Events : NotTerminal(e)}
  /\ UNCHANGED <<rowVars, tryVars, rateVars, active, hostVars, procVars, crashes, overtaken>>

\* A newer final revision of the same generation is accepted; its emitter annotates what it
\* replaces in a transaction of its own, and may die before that one.
AcceptSuccessor(e) ==
  /\ active /\ standing[e] = "current"
  /\ standing' = [standing EXCEPT ![e] = "replaced"]
  /\ UNCHANGED <<rowVars, noted, tryVars, rateVars, active, hostVars, procVars, crashes,
                 overtaken>>

\* annotate_predecessors_in
AnnotatePredecessor(e) ==
  /\ standing[e] # "current" /\ e \notin noted /\ NotTerminal(e)
  /\ noted' = noted \cup {e}
  /\ UNCHANGED <<rowVars, tryVars, rateVars, envVars, hostVars, procVars, crashes, overtaken>>

\* set_status and resume: an operator pauses and resumes the assignment.
SetStatus ==
  /\ active' = ~active
  /\ UNCHANGED <<rowVars, noted, tryVars, rateVars, standing, hostVars, procVars, crashes,
                 overtaken>>

\* acknowledge: a verified acknowledgement, accepting or rejecting, closes a delivery that
\* reached a turn or the inbox.
Acknowledge(e) ==
  /\ dstate[e] \in {"dispatched", "inbox_only"}
  /\ dstate' = [dstate EXCEPT ![e] = "acknowledged"]
  /\ UNCHANGED <<attempts, hold, due, turnId, noted, tryVars, rateVars, envVars, hostVars,
                 procVars, crashes, overtaken>>

\* The clock passes next_eligible_at, the minimum send interval, or the hour.
BackoffEnds(e) ==
  /\ ~due[e]
  /\ due' = [due EXCEPT ![e] = TRUE]
  /\ UNCHANGED <<dstate, attempts, hold, turnId, noted, tryVars, rateVars, envVars, hostVars,
                 procVars, crashes, overtaken>>

IntervalEnds ==
  /\ recent /\ recent' = FALSE
  /\ UNCHANGED <<rowVars, noted, tryVars, sends, envVars, hostVars, procVars, crashes, overtaken>>

HourEnds ==
  /\ sends > 0 /\ sends' = 0
  /\ UNCHANGED <<rowVars, noted, tryVars, recent, envVars, hostVars, procVars, crashes, overtaken>>

\* _release_expired_leases, when a supervisor starts.
ReleaseExpiredLease(e) ==
  /\ dstate[e] = "sending"
  /\ dstate' = [dstate EXCEPT ![e] = "held_uncertain"]
  /\ UNCHANGED <<attempts, hold, due, turnId, noted, tryVars, rateVars, envVars, hostVars,
                 procVars, crashes, overtaken>>

-----------------------------------------------------------------------------
(***************************************************************************)
(* A sender: DeliveryService.attempt(event).                               *)
(***************************************************************************)
Stale(e) == standing[e] # "current"

Goto(p, label) == pc' = [pc EXCEPT ![p] = label]

\* The snapshot every later guarded write of this attempt compares itself with.
Look(s, e) ==
  /\ pc[s] = "idle"
  /\ dstate[e] \in Claimable /\ hold[e] = "none" /\ due[e]
  /\ Goto(s, "looked")
  /\ view' = [view EXCEPT ![s] = [NoView EXCEPT !.event = e, !.no = attempts[e],
                                                !.state = dstate[e]]]
  /\ UNCHANGED <<rowVars, noted, tryVars, rateVars, envVars, hostVars, crashes, overtaken>>

\* No row for this hour means not limited, whatever happened in the last one.
RateLimited == sends > 0 /\ (sends >= MaxSends \/ recent)

\* The guard _reschedule, _defer_busy, _withhold and _withhold_settings share: the row is still
\* claimable under the attempt count that was observed.

Unmoved(s) == LET e == view[s].event IN dstate[e] \in Claimable /\ attempts[e] = view[s].no

\* Their write: a new state and a later retry, and a hold only where the caller computes one.
PutOff(s, state, newHold) ==
  LET e == view[s].event IN
  /\ pc[s] # "idle"
  /\ IF Unmoved(s)
     THEN /\ dstate' = [dstate EXCEPT ![e] = state]
          /\ hold'   = [hold EXCEPT ![e] = newHold]
          /\ due'    = [due EXCEPT ![e] = FALSE]
     ELSE UNCHANGED <<dstate, hold, due>>
  /\ Goto(s, "idle")
  /\ view' = [view EXCEPT ![s] = NoView]
  /\ UNCHANGED <<attempts, turnId, noted, tryVars, rateVars, envVars, hostVars, crashes,
                 overtaken>>

\* _rate_limited, then _reschedule with the state that was read.
Reschedule(s) ==
  /\ pc[s] = "looked" /\ RateLimited
  /\ PutOff(s, view[s].state, hold[view[s].event])

WithinRate(s) ==
  /\ pc[s] = "looked" /\ ~RateLimited
  /\ Goto(s, "clear")
  /\ UNCHANGED <<rowVars, noted, tryVars, rateVars, envVars, hostVars, view, crashes, overtaken>>

\* The host says the recipient is mid-turn: no attempt, no resume, only a later look.
DeferBusy(s) ==
  /\ pc[s] = "clear"
  /\ PutOff(s, "deferred_busy", IF view[s].no >= BusyAttempts THEN "busy_cap" ELSE "none")

\* The recipient is archived, paused or unreadable, or its authorized settings are missing.
Withhold(s) ==
  /\ pc[s] = "clear"
  /\ PutOff(s, "withheld_pre_send", hold[view[s].event])

\* The recipient can take a message and its settings are known.
ClearToSend(s) ==
  /\ pc[s] = "clear"
  /\ Goto(s, "unsuppressed")
  /\ UNCHANGED <<rowVars, noted, tryVars, rateVars, envVars, hostVars, view, crashes, overtaken>>

\* _suppress_if_superseded, in a transaction of its own; also what a claim that finds itself
\* late falls back to.
Suppress(s) ==
  LET e == view[s].event IN
  /\ pc[s] = "unsuppressed" /\ Stale(e)
  /\ IF dstate[e] \in Claimable /\ hold[e] = "none"
     THEN /\ dstate' = [dstate EXCEPT ![e] = "superseded"]
          /\ hold'   = [hold EXCEPT ![e] = "superseded"]
          /\ UNCHANGED noted
     ELSE /\ noted' = noted \cup {e}
          /\ UNCHANGED <<dstate, hold>>
  /\ Goto(s, "idle")
  /\ view' = [view EXCEPT ![s] = NoView]
  /\ UNCHANGED <<attempts, due, turnId, tryVars, rateVars, envVars, hostVars, crashes, overtaken>>

\* The predicate of the conditional UPDATE, and the hourly cap counted in the same transaction.
CanClaimBelowCap(e) ==   \* mutant: off by one
  /\ dstate[e] \in Claimable /\ hold[e] = "none" /\ due[e] /\ active
  /\ sends + 1 < MaxSends

CanClaim(e) ==
  /\ dstate[e] \in Claimable /\ hold[e] = "none" /\ due[e] /\ active
  /\ sends < MaxSends

\* The attempt row, before anything is sent.
InsertAttempt(r) ==
  /\ internal' = [internal EXCEPT ![r] = "in_flight"]
  /\ recorded' = [recorded EXCEPT ![r] = "held_uncertain"]

\* _claim: state, attempt number, attempt row and rate count commit together or not at all.
Claim(s) ==
  LET e == view[s].event
      n == attempts[e] + 1
  IN
  /\ pc[s] = "unsuppressed" /\ ~Stale(e) /\ CanClaim(e)
  /\ attempts[e] < AttemptBound
  /\ dstate'   = [dstate EXCEPT ![e] = "sending"]
  /\ attempts' = [attempts EXCEPT ![e] = n]
  /\ InsertAttempt(<<e, n>>)
  /\ sends' = sends + 1
  /\ recent' = TRUE
  /\ Goto(s, "calling")
  /\ view' = [view EXCEPT ![s].no = n]
  /\ UNCHANGED <<hold, due, turnId, noted, envVars, hostVars, crashes, overtaken>>

NotClaimable(s) ==
  /\ pc[s] = "unsuppressed" /\ ~Stale(view[s].event) /\ ~CanClaim(view[s].event)
  /\ Goto(s, "idle")
  /\ view' = [view EXCEPT ![s] = NoView]
  /\ UNCHANGED <<rowVars, noted, tryVars, rateVars, envVars, hostVars, crashes, overtaken>>

RequestOf(p) == <<view[p].event, view[p].no>>

Failed(code, method, resumed) ==
  [status |-> "failed", code |-> code, method |-> method, resumed |-> resumed, turn |-> FALSE]

Unknown(resumed) == [NoReceipt EXCEPT !.status = "outcome_unknown", !.resumed = resumed]

Accepted == [NoReceipt EXCEPT !.status = "accepted", !.resumed = TRUE, !.turn = TRUE]

\* An error answer to turn/start.  It does not say that no turn was started.
StartFailed == Failed("other", "turn/start", TRUE)

InProgress == [NoReceipt EXCEPT !.status = "in_progress_or_unknown"]

Receive(s, receipt) ==
  /\ Goto(s, "returned")
  /\ view' = [view EXCEPT ![s].got = receipt]
  /\ UNCHANGED <<rowVars, noted, tryVars, rateVars, envVars, op, turns, crashes, overtaken>>

\* send_message hands the request to this process's transport worker.
Submit(s) ==
  /\ pc[s] = "calling"
  /\ \A r \in Requests : worker[r] # s
  /\ worker' = [worker EXCEPT ![RequestOf(s)] = s]
  /\ Goto(s, "waiting")
  /\ UNCHANGED <<rowVars, noted, tryVars, rateVars, envVars, op, turns, view, crashes, overtaken>>

\* An earlier send of this process, whose caller gave up, still holds the recipient's lock:
\* answered busy, without a ledger row.
LockedOut(s) ==
  /\ pc[s] = "calling"
  /\ \E r \in Requests : worker[r] = s
  /\ Receive(s, Failed("thread_busy", "none", FALSE))
  /\ UNCHANGED worker

\* The worker finished and the caller is still there.
Answered(s) ==
  /\ pc[s] = "waiting" /\ worker[RequestOf(s)] = NoProc
  /\ Receive(s, IF op[RequestOf(s)] = NoReceipt THEN Unknown(FALSE) ELSE op[RequestOf(s)])
  /\ UNCHANGED worker

GiveUpAsBusy(s) ==   \* mutant
  /\ pc[s] = "waiting" /\ worker[RequestOf(s)] # NoProc
  /\ Receive(s, Failed("thread_busy", "none", FALSE))
  /\ UNCHANGED worker

\* The caller's budget runs out first; the worker goes on.
GiveUp(s) ==
  /\ pc[s] = "waiting" /\ worker[RequestOf(s)] # NoProc
  /\ Receive(s, Unknown(FALSE))
  /\ UNCHANGED worker

\* The caps an attempt that may be retried runs into, whoever settles it.
CapHold(f, n) ==
  CASE f.state = "deferred_busy" /\ n >= BusyAttempts -> "busy_cap"
    [] f.state = "withheld_pre_send" /\ n >= MaxAttempts -> "attempt_cap"
    [] OTHER -> "none"

\* _settle: both rows are written without asking whether they are still this attempt's.
Settle(s) ==
  LET e == view[s].event
      n == view[s].no
      f == Classify(view[s].got)
  IN
  /\ pc[s] = "returned"
  /\ internal' = [internal EXCEPT ![<<e, n>>] = "settled"]
  /\ recorded' = [recorded EXCEPT ![<<e, n>>] = f.state]
  /\ dstate' = [dstate EXCEPT ![e] = f.state]
  /\ due'    = [due EXCEPT ![e] = f.state \notin {"deferred_busy", "withheld_pre_send"}]
  /\ hold'   = [hold EXCEPT ![e] = IF f.state = "inbox_only" THEN "push_channel_closed"
                                   ELSE CapHold(f, n)]
  /\ turnId' = [turnId EXCEPT ![e] = IF f.state = "dispatched" THEN n ELSE 0]
  /\ overtaken' = IF internal[<<e, n>>] = "in_flight" /\ attempts[e] = n
                  THEN overtaken ELSE overtaken \cup {e}
  /\ Goto(s, "idle")
  /\ view' = [view EXCEPT ![s] = NoView]
  /\ UNCHANGED <<attempts, noted, rateVars, envVars, hostVars, crashes>>

-----------------------------------------------------------------------------
(***************************************************************************)
(* The transport worker of the process that submitted request r, running   *)
(* _guarded_send against the host and the bridge ledger.                   *)
(***************************************************************************)
Running(r) == worker[r] # NoProc

ledgerOnly == <<rowVars, noted, tryVars, rateVars, envVars, procVars, crashes, overtaken>>

\* The submission outlived its caller's budget before it started: answered, never sent.
WorkerExpires(r) ==
  /\ Running(r) /\ op[r] = NoReceipt
  /\ worker' = [worker EXCEPT ![r] = NoProc]
  /\ UNCHANGED <<op, turns, ledgerOnly>>

\* begin: the ledger row exists before the first call to the host.
WorkerBegins(r) ==
  /\ Running(r) /\ op[r] = NoReceipt
  /\ op' = [op EXCEPT ![r] = InProgress]
  /\ UNCHANGED <<turns, worker, ledgerOnly>>

\* thread/read found the recipient idle and thread/resume answered; the response is saved.
WorkerResumes(r) ==
  /\ Running(r) /\ op[r] = InProgress
  /\ op' = [op EXCEPT ![r].resumed = TRUE]
  /\ UNCHANGED <<turns, worker, ledgerOnly>>

\* A turn/start was written and not refused: it may reach the host even after the worker that
\* wrote it timed out, was cancelled, or died with its process.
OnTheWire(r) ==
  op[r].resumed /\ op[r].status \in {"in_progress_or_unknown", "outcome_unknown"}

\* The host starts the turn that carries this request's token.
HostStartsTurn(r) ==
  /\ OnTheWire(r) /\ r \notin turns
  /\ turns' = turns \cup {r}
  /\ UNCHANGED <<op, worker, ledgerOnly>>

\* The receipts _guarded_send can end with, by how far it got.
FinalReceipts(r) ==
  IF ~op[r].resumed
  THEN {Failed("thread_busy", "thread/read", FALSE), Failed("other", "thread/read", FALSE),
        Failed("other", "thread/resume", FALSE), Failed("other", "initialize", FALSE),
        Unknown(FALSE)}
  ELSE IF r \notin turns
  THEN {Failed("settings", "thread/resume", TRUE), Failed("approval", "thread/resume", TRUE),
        Failed("other", "initialize", TRUE), StartFailed, Unknown(TRUE)}
  ELSE {Accepted, Unknown(TRUE), StartFailed}

\* ledger.save of the final receipt: a refusal, an acceptance, or an unknown outcome.
WorkerSaves(r) ==
  /\ Running(r) /\ op[r].status = "in_progress_or_unknown"
  /\ \E receipt \in FinalReceipts(r) : op' = [op EXCEPT ![r] = receipt]
  /\ worker' = [worker EXCEPT ![r] = NoProc]
  /\ UNCHANGED <<turns, ledgerOnly>>

-----------------------------------------------------------------------------
(***************************************************************************)
(* A reconciler: Reconciler.reconcile_attempt(request).                    *)
(***************************************************************************)
UnresolvedHeldOnly(r) ==   \* mutant
  /\ internal[r] = "settled" /\ recorded[r] = "held_uncertain"
  /\ dstate[r[1]] \in {"held_uncertain", "sending"}

\* UNRESOLVED: what the tick and recover_on_start look at.
Unresolved(r) ==
  \/ internal[r] = "in_flight"
  \/ /\ internal[r] = "settled" /\ recorded[r] = "held_uncertain"
     /\ dstate[r[1]] \in {"held_uncertain", "sending"}

\* _is_current: only the delivery's current attempt may move it, and never once it was settled.
Current(r) ==
  /\ attempts[r[1]] = r[2]
  /\ dstate[r[1]] \notin {"dispatched", "acknowledged", "superseded"}

\* The attempt row and the delivery row are read; _is_current is judged on this snapshot.
Open(p, r) ==
  /\ pc[p] = "idle" /\ internal[r] # "none"
  /\ Goto(p, "opened")
  /\ view' = [view EXCEPT ![p] =
       [NoView EXCEPT !.event = r[1], !.no = r[2], !.was = recorded[r],
          !.current = Current(r)]]
  /\ UNCHANGED <<rowVars, noted, tryVars, rateVars, envVars, hostVars, crashes, overtaken>>

OpenUnresolved(p, r) == p \in Reconcilers /\ Unresolved(r) /\ Open(p, r)

OpenByHand(p, r) == p \in Operators /\ Open(p, r)

Settling(receipt) == LET f == Classify(receipt) IN f.state = "dispatched" \/ f.retrySafe

\* Step one: the operation receipt.  Missing, unreadable and not affirmative look alike.
ReadReceipt(p) ==
  /\ pc[p] = "opened"
  /\ \E readable \in BOOLEAN :
       IF readable /\ Settling(op[RequestOf(p)])
       THEN /\ Goto(p, "writing")
            /\ view' = [view EXCEPT ![p].got = op[RequestOf(p)]]
       ELSE /\ Goto(p, "scanning")
            /\ UNCHANGED view
  /\ UNCHANGED <<rowVars, noted, tryVars, rateVars, envVars, hostVars, crashes, overtaken>>

ScanFindsAnything(p) ==   \* mutant: another message is taken for this one
  /\ pc[p] = "scanning"
  /\ \E found \in BOOLEAN : view' = [view EXCEPT ![p].found = found]
  /\ Goto(p, "writing")
  /\ UNCHANGED <<rowVars, noted, tryVars, rateVars, envVars, hostVars, crashes, overtaken>>

\* Step two, only then: the recipient's items.  A bounded scan can miss a turn that is there.
Scan(p) ==
  /\ pc[p] = "scanning"
  /\ \E found \in BOOLEAN :
       /\ found => RequestOf(p) \in turns
       /\ view' = [view EXCEPT ![p].found = found]
  /\ Goto(p, "writing")
  /\ UNCHANGED <<rowVars, noted, tryVars, rateVars, envVars, hostVars, crashes, overtaken>>

\* _settle_from_receipt, _settle_from_scan and _stay_held, as the arguments they give _write.
Verdict(p) ==
  LET v == view[p]
      f == Classify(v.got)
      newHold == CapHold(f, v.no)
      held == [record |-> "held_uncertain", state |-> "held_uncertain", hold |-> "none",
               due |-> TRUE, turn |-> 0]
  IN
  IF Settling(v.got)
  THEN [record |-> f.state, state |-> f.state, hold |-> newHold,
        due |-> ~f.retrySafe \/ newHold # "none",
        turn |-> IF f.state = "dispatched" THEN v.no ELSE 0]
  ELSE IF v.found
  THEN [held EXCEPT !.record = v.was, !.state = "dispatched", !.turn = v.no]
  ELSE held

MovesBySnapshot(p) == view[p].current   \* mutant: the UPDATE carries no guard of its own

\* The delivery row moves only while this is its current attempt - judged on the snapshot and
\* again by the guard of the UPDATE.
Moves(p) == view[p].current /\ Current(RequestOf(p))

\* _write: the attempt row always, the delivery row where it may move.
Write(p) ==
  LET e == view[p].event
      n == view[p].no
      w == Verdict(p)
  IN
  /\ pc[p] = "writing"
  /\ internal' = [internal EXCEPT ![<<e, n>>] = "settled"]
  /\ recorded' = [recorded EXCEPT ![<<e, n>>] = w.record]
  /\ IF Moves(p)
     THEN /\ dstate' = [dstate EXCEPT ![e] = w.state]
          /\ hold'   = [hold EXCEPT ![e] = w.hold]
          /\ due'    = [due EXCEPT ![e] = w.due]
          /\ turnId' = [turnId EXCEPT ![e] = IF w.turn # 0 THEN w.turn ELSE turnId[e]]
     ELSE UNCHANGED <<dstate, hold, due, turnId>>
  /\ Goto(p, "idle")
  /\ view' = [view EXCEPT ![p] = NoView]
  /\ UNCHANGED <<attempts, noted, rateVars, envVars, hostVars, crashes, overtaken>>

-----------------------------------------------------------------------------
\* A process dies between any two steps.  Its worker thread dies with it; the store, the
\* ledger and the host keep what they have.
Crash(p) ==
  /\ crashes < MaxCrashes
  /\ pc[p] # "idle" \/ \E r \in Requests : worker[r] = p
  /\ crashes' = crashes + 1
  /\ Goto(p, "idle")
  /\ view' = [view EXCEPT ![p] = NoView]
  /\ worker' = [r \in Requests |-> IF worker[r] = p THEN NoProc ELSE worker[r]]
  /\ UNCHANGED <<rowVars, noted, tryVars, rateVars, envVars, op, turns, overtaken>>

Environment ==
  \/ \E e \in Events : \/ Enqueue(e) \/ AcceptSuccessor(e) \/ AnnotatePredecessor(e)
                       \/ Acknowledge(e) \/ BackoffEnds(e) \/ ReleaseExpiredLease(e)
  \/ AdvanceGeneration \/ SetStatus \/ IntervalEnds \/ HourEnds

SenderStep(s) ==
  \/ \E e \in Events : Look(s, e)
  \/ Reschedule(s) \/ WithinRate(s) \/ DeferBusy(s) \/ Withhold(s) \/ ClearToSend(s)
  \/ Suppress(s) \/ Claim(s) \/ NotClaimable(s)
  \/ Submit(s) \/ LockedOut(s) \/ Answered(s) \/ GiveUp(s) \/ Settle(s)

WorkerStep(r) ==
  WorkerExpires(r) \/ WorkerBegins(r) \/ WorkerResumes(r) \/ HostStartsTurn(r) \/ WorkerSaves(r)

ReconcilerStep(p) ==
  \/ \E r \in Requests : OpenUnresolved(p, r) \/ OpenByHand(p, r)
  \/ ReadReceipt(p) \/ Scan(p) \/ Write(p)

Next ==
  \/ Environment
  \/ \E s \in Senders : SenderStep(s)
  \/ \E r \in Requests : WorkerStep(r)
  \/ \E p \in Reconcilers \cup Operators : ReconcilerStep(p)
  \/ \E p \in Procs : Crash(p)

Spec == Init /\ [][Next]_vars

-----------------------------------------------------------------------------
(***************************************************************************)
(* What must be true.                                                      *)
(***************************************************************************)
TurnsOf(e) == {n \in 1..AttemptBound : <<e, n>> \in turns}

\* Request r can never again start a turn, and never started one.
Dead(r) ==
  /\ r \notin turns
  /\ worker[r] = NoProc /\ ~OnTheWire(r)
  /\ \A s \in Senders : pc[s] = "calling" => RequestOf(s) # r

\* An event is carried by at most one turn of its recipient: a lost answer, a timeout, a crash or
\* a retry never wakes it twice (protocol-v1 section 4: "a timeout never opens a new attempt").
OneTurnPerEvent == \A e \in Events : Cardinality(TurnsOf(e)) <= 1

\* The same for what survives without the exclusion of one daemon, every process allowed to run
\* beside every other: a second turn needs a sender that settled an attempt another process had
\* settled or retried before it.
OneTurnUnlessOvertaken ==
  \A e \in Events \ overtaken : \A m, n \in TurnsOf(e) : m = n

\* A dispatched delivery names a turn the recipient really has for this event, whichever of the
\* three routes - receipt, reconciled receipt, item scan - promoted it.
DispatchHasTurn ==
  \A e \in Events : dstate[e] = "dispatched" => turnId[e] # 0 /\ <<e, turnId[e]>> \in turns

\* A delivery whose send is unresolved is found by the pass that resolves it: some attempt of it
\* is in the UNRESOLVED set of the reconciler.
UnresolvedIsFindable ==
  \A e \in Events \ overtaken : dstate[e] \in {"sending", "held_uncertain"} =>
    \E n \in 1..AttemptBound : Unresolved(<<e, n>>)

\* Once its generation has been left, no outstanding delivery is presented as current: the
\* annotation is there from the moment the generation advances.
OutstandingStaleIsNoted ==
  \A e \in Events :
    standing[e] = "old_generation" /\ dstate[e] \in Outstanding => e \in noted

\* A receipt that may be retried belongs to a request that started nothing and never will
\* (I-34), while its worker, its caller and its reconcilers all still run.
RetrySafeStartedNothing ==
  \A r \in Requests : Classify(op[r]).retrySafe => Dead(r)

\* A new attempt is opened only over attempts that are proven not to have started anything.
RetryOnlyOverDeadAttempts ==
  [][\A e \in Events \ overtaken : attempts'[e] > attempts[e] =>
       \A n \in 1..attempts[e] : Dead(<<e, n>>)]_vars

\* "a stale observation must never be able to drag it backwards" (_reschedule): only an overtaken
\* settlement takes a delivery that reached a turn, or was acknowledged, back to another state.
DispatchNotDraggedBackUnlessOvertaken ==
  [][\A e \in Events : dstate[e] \in {"dispatched", "acknowledged"} =>
       dstate'[e] \in {"dispatched", "acknowledged"} \/ e \in overtaken']_vars

\* A sender that was told "retry safe" was told so of a request that started nothing and never
\* will, the answer it gets without a ledger row (its own recipient lock) included.
RetrySafeAnswerIsTrue ==
  \A s \in Senders :
    pc[s] = "returned" /\ Classify(view[s].got).retrySafe => Dead(RequestOf(s))

\* What is unresolved is found and what is stale is annotated: no delivery drops out of sight.
NothingIsForgotten == UnresolvedIsFindable /\ OutstandingStaleIsNoted

\* What the records say of sends is so, beside any other process: the hour's sends stay within
\* the cap, a dispatch has its turn, retry safe is safe, and nothing is sent again over an attempt
\* that may still start a turn.
SendsAreSound ==
  /\ [](sends <= MaxSends /\ DispatchHasTurn /\ RetrySafeAnswerIsTrue)
  /\ RetryOnlyOverDeadAttempts

\* The delivery half keeps the promise of Handoff: one turn at most, only while it is neither
\* withdrawn nor closed, and nothing reported that was not given.
Promise == INSTANCE Handoff WITH
  given     <- [e \in Events |-> Cardinality(TurnsOf(e))],
  reported  <- {e \in Events : turnId[e] # 0},
  withdrawn <- {e \in Events : dstate[e] = "superseded"},
  closed    <- {e \in Events : dstate[e] = "acknowledged"}

HandedOffOnce == Promise!Spec

-----------------------------------------------------------------------------
(***************************************************************************)
(* The inductive invariant behind the safety properties.  What carries it  *)
(* is Dead: a request that is dead stays dead, and everything that makes a *)
(* delivery claimable again has seen that its last request is.             *)
(***************************************************************************)
\* A request no claim has opened yet has left no trace.
FreshUntouched ==
  \A r \in Requests : r[2] > attempts[r[1]] =>
    internal[r] = "none" /\ op[r] = NoReceipt /\ worker[r] = NoProc /\ r \notin turns

\* Whoever works on a request works on one that was opened, and no two senders on the same.
WorksOnOpened ==
  \A p \in Procs : pc[p] \in Sending \cup Checking =>
    view[p].no \in 1..attempts[view[p].event]

OneCaller ==
  \A s, t \in Senders :
    pc[s] \in Sending /\ pc[t] \in Sending /\ RequestOf(s) = RequestOf(t) => s = t

\* What a sender is about to submit has left no trace either.
CallingUntouched ==
  \A s \in Senders : pc[s] = "calling" =>
    /\ op[RequestOf(s)] = NoReceipt /\ worker[RequestOf(s)] = NoProc
    /\ RequestOf(s) \notin turns

\* What a ledger row says of the host.
LedgerTruthful ==
  \A r \in Requests :
    /\ worker[r] # NoProc => op[r] = NoReceipt \/ op[r].status = "in_progress_or_unknown"
    /\ r \in turns =>
         /\ op[r].resumed
         /\ \/ op[r].status \in {"accepted", "in_progress_or_unknown", "outcome_unknown"}
            \/ op[r] = StartFailed
    /\ op[r].status = "accepted" => r \in turns

\* What a process carries away from the ledger and the host stays true while it carries it.
ReadingsTrue ==
  \A p \in Procs :
    /\ pc[p] \in {"returned", "writing"} =>
         /\ Classify(view[p].got).state = "dispatched" => RequestOf(p) \in turns
         /\ Classify(view[p].got).retrySafe => Dead(RequestOf(p))
    /\ pc[p] \in {"opened", "scanning"} => view[p].got = NoReceipt /\ ~view[p].found
    /\ pc[p] = "writing" /\ view[p].found => RequestOf(p) \in turns
    /\ pc[p] = "looked" => view[p].state \in Claimable

\* Every attempt behind the last one is dead, and the last one too once it may be retried.
DeadBehind ==
  \A e \in Events \ overtaken : \A n \in 1..AttemptBound :
    n < attempts[e] \/ (n = attempts[e] /\ dstate[e] \in Claimable) => Dead(<<e, n>>)

AbsentUnattempted == \A e \in Events : dstate[e] = "absent" => attempts[e] = 0

ReachedIsSettled ==
  \A e \in Events \ overtaken : dstate[e] \in {"dispatched", "inbox_only", "acknowledged"} =>
    attempts[e] # 0 /\ internal[<<e, attempts[e]>>] = "settled"

IInv ==
  /\ TypeOK
  /\ FreshUntouched /\ WorksOnOpened /\ OneCaller /\ CallingUntouched
  /\ LedgerTruthful /\ ReadingsTrue
  /\ DeadBehind /\ AbsentUnattempted /\ ReachedIsSettled /\ DispatchHasTurn

-----------------------------------------------------------------------------
(***************************************************************************)
(* Fairness of one daemon: the clock runs, a started step is finished, the *)
(* transport deadline ends every send, each pass of the tick comes round   *)
(* (persisted rotating cursors), and a recipient that can take a message   *)
(* again and again is seen to once.  Nothing is assumed of operators.      *)
(***************************************************************************)
Fairness ==
  /\ \A e \in Events : WF_vars(BackoffEnds(e))
  /\ WF_vars(IntervalEnds) /\ WF_vars(HourEnds)
  /\ \A r \in Requests : WF_vars(WorkerExpires(r) \/ WorkerSaves(r))
  /\ \A s \in Senders :
       /\ \A e \in Events : SF_vars(Look(s, e))
       /\ WF_vars(Reschedule(s) \/ DeferBusy(s) \/ Withhold(s) \/ Suppress(s) \/ Claim(s)
                  \/ NotClaimable(s) \/ Submit(s) \/ LockedOut(s) \/ Answered(s) \/ Settle(s))
       /\ SF_vars(WithinRate(s)) /\ SF_vars(ClearToSend(s))
  /\ \A p \in Reconcilers :
       /\ \A r \in Requests : SF_vars(OpenUnresolved(p, r))
       /\ WF_vars(ReadReceipt(p) \/ Scan(p) \/ Write(p))

FairSpec == Spec /\ Fairness

\* No attempt stays in flight: whatever died, the store ends up with a settled row.
InFlightSettles ==
  \A r \in Requests : internal[r] = "in_flight" ~> internal[r] = "settled"

\* A queued delivery is eventually sent, withdrawn or held where an operator sees it, unless its
\* assignment is paused on the way.
QueuedIsDecided ==
  \A e \in Events : dstate[e] = "queued" ~>
    (dstate[e] \notin Claimable \/ hold[e] # "none" \/ ~active)
=============================================================================
