--------------------------- MODULE DeliveryProofs ---------------------------
(***************************************************************************)
(* What holds of the delivery half for any number of events and processes, *)
(* any policy and any bound of the model: first of its records and sends,  *)
(* then that it implements Handoff.                                        *)
(***************************************************************************)
EXTENDS Delivery, TLAPS, FiniteSetTheorems

(***************************************************************************)
(* The classifier: what its answers are, and what an answer says of the    *)
(* receipt it was given.                                                   *)
(***************************************************************************)
LEMMA ClassifyType ==
  ASSUME NEW r \in Receipt
  PROVE  /\ Classify(r).state \in Outcomes
         /\ Classify(r).retrySafe \in BOOLEAN
BY DEF Classify, Facts, Outcomes, UnknownOutcome, Unclassified

LEMMA ClassifyAnswers ==
  ASSUME NEW r \in Receipt
  PROVE  /\ Classify(r).state = "dispatched" => r.status = "accepted"
         /\ Classify(r).retrySafe => r.status = "failed"
         /\ Classify(r).retrySafe <=> Classify(r).state \in {"deferred_busy", "withheld_pre_send"}
BY DEF Classify, Facts, UnknownOutcome, Unclassified, BusyRefusal, SettingsRefusal,
       ReadRefusal, CodeSettles, ApprovalRefusal

LEMMA NoReceiptType == NoReceipt \in Receipt
BY DEF NoReceipt, Receipt, Statuses, Codes, Methods

LEMMA NoReceiptSettlesNothing == ~Settling(NoReceipt)
BY NoReceiptType, ClassifyAnswers DEF Settling, NoReceipt

LEMMA ReceiptTypes ==
  /\ InProgress \in Receipt /\ Accepted \in Receipt
  /\ \A b \in BOOLEAN : Unknown(b) \in Receipt
  /\ \A b \in BOOLEAN, c \in Codes, m \in Methods : Failed(c, m, b) \in Receipt
BY DEF InProgress, Accepted, Unknown, Failed, NoReceipt, Receipt, Statuses, Codes, Methods

LEMMA ReceiptStatuses ==
  /\ Accepted.status = "accepted" /\ Accepted.resumed = TRUE
  /\ \A b : Unknown(b).status = "outcome_unknown" /\ Unknown(b).resumed = b
  /\ \A b, c, m : Failed(c, m, b).status = "failed"
BY DEF Accepted, Unknown, Failed, NoReceipt

LEMMA StartFailedAnswers ==
  /\ StartFailed \in Receipt /\ StartFailed.status = "failed" /\ StartFailed.resumed = TRUE
  /\ ~Classify(StartFailed).retrySafe
<1>1. /\ StartFailed \in Receipt
      /\ StartFailed = [status |-> "failed", code |-> "other", method |-> "turn/start",
                        resumed |-> TRUE, turn |-> FALSE]
  BY ReceiptTypes DEF StartFailed, Failed, Codes, Methods
<1>2. Classify(StartFailed) = Facts("held_uncertain", "yes", FALSE, "turn/start")
  BY <1>1 DEF Classify, FailedIn, ReadRefusal, CodeSettles, BusyRefusal, ApprovalRefusal,
              SettingsRefusal
<1> QED
  BY <1>1, <1>2 DEF Facts

LEMMA FinalReceiptTypes == 
  ASSUME NEW r
  PROVE FinalReceipts(r) \subseteq Receipt
BY ReceiptTypes, StartFailedAnswers DEF FinalReceipts, Codes, Methods

LEMMA NoViewType == NoView \in View
BY PolicyAssumption, NoReceiptType DEF NoView, View, DStates, Outcomes

-----------------------------------------------------------------------------
(***************************************************************************)
(* Type correctness.                                                       *)
(***************************************************************************)
LEMMA ViewUpdates ==
  ASSUME NEW v \in View, NEW e \in Events, NEW n \in 0..AttemptBound, NEW state \in DStates,
         NEW b \in BOOLEAN, NEW r \in Receipt
  PROVE  /\ [NoView EXCEPT !.event = e, !.no = n, !.state = state] \in View
         /\ [v EXCEPT !.no = n] \in View
         /\ [v EXCEPT !.got = r] \in View
         /\ [v EXCEPT !.found = b] \in View
BY NoViewType DEF View

LEMMA EnvironmentTypes == TypeOK /\ Environment => TypeOK'
<1> SUFFICES ASSUME TypeOK, Environment PROVE TypeOK'
  OBVIOUS
<1> USE DEF rowVars, tryVars, rateVars, envVars, hostVars, procVars, ledgerOnly
<1>1. ASSUME NEW e \in Events, Enqueue(e) PROVE TypeOK'
  BY <1>1 DEF Enqueue, TypeOK, DStates, Claimable
<1>2. ASSUME NEW e \in Events, AcceptSuccessor(e) PROVE TypeOK'
  BY <1>2 DEF AcceptSuccessor, TypeOK
<1>3. ASSUME NEW e \in Events, AnnotatePredecessor(e) PROVE TypeOK'
  BY <1>3 DEF AnnotatePredecessor, TypeOK
<1>4. ASSUME NEW e \in Events, Acknowledge(e) PROVE TypeOK'
  BY <1>4 DEF Acknowledge, TypeOK, DStates
<1>5. ASSUME NEW e \in Events, BackoffEnds(e) PROVE TypeOK'
  BY <1>5 DEF BackoffEnds, TypeOK
<1>6. ASSUME NEW e \in Events, ReleaseExpiredLease(e) PROVE TypeOK'
  BY <1>6 DEF ReleaseExpiredLease, TypeOK, DStates, Outstanding
<1>7. CASE AdvanceGeneration
  BY <1>7 DEF AdvanceGeneration, TypeOK
<1>8. CASE SetStatus
  BY <1>8 DEF SetStatus, TypeOK
<1>9. CASE IntervalEnds
  BY <1>9 DEF IntervalEnds, TypeOK
<1>10. CASE HourEnds
  BY <1>10, PolicyAssumption DEF HourEnds, TypeOK
<1> QED
  BY <1>1, <1>2, <1>3, <1>4, <1>5, <1>6, <1>7, <1>8, <1>9, <1>10 DEF Environment

LEMMA SenderTypes ==
  ASSUME TypeOK, NEW s \in Senders, SenderStep(s)
  PROVE  TypeOK'
<1> USE DEF rowVars, tryVars, rateVars, envVars, hostVars, procVars, Goto
<1>s. s \in Procs /\ view[s] \in View /\ view[s].event \in Events /\ view[s].no \in 0..AttemptBound
  BY DEF Procs, TypeOK, View
<1>p. ASSUME NEW state \in DStates, NEW newHold \in Holds, PutOff(s, state, newHold) PROVE TypeOK'
  BY <1>p, <1>s, NoViewType DEF PutOff, TypeOK, PCs, Sending, Checking
<1>1. ASSUME NEW e \in Events, Look(s, e) PROVE TypeOK'
  <2> DEFINE w == [NoView EXCEPT !.event = e, !.no = attempts[e], !.state = dstate[e]]
  <2>1. w \in View
    BY <1>1, NoViewType DEF View, TypeOK
  <2>2. view' = [view EXCEPT ![s] = w]
    BY <1>1 DEF Look
  <2> HIDE DEF w
  <2> QED
    BY <1>1, <1>s, <2>1, <2>2 DEF Look, TypeOK, PCs, Sending, Checking
<1>h. view[s].state \in DStates /\ hold[view[s].event] \in Holds
  BY <1>s DEF TypeOK, View
<1>2. CASE Reschedule(s)
  BY <1>2, <1>h, <1>p DEF Reschedule
<1>3. CASE WithinRate(s)
  BY <1>3, <1>s DEF WithinRate, TypeOK, PCs, Sending, Checking
<1>4. CASE DeferBusy(s)
  BY <1>4, <1>p DEF DeferBusy, DStates, Claimable, Holds
<1>5. CASE Withhold(s)
  BY <1>5, <1>p, <1>h DEF Withhold, DStates, Claimable
<1>6. CASE ClearToSend(s)
  BY <1>6, <1>s DEF ClearToSend, TypeOK, PCs, Sending, Checking
<1>7. CASE Suppress(s)
  BY <1>7, <1>s, NoViewType DEF Suppress, TypeOK, PCs, Sending, Checking, DStates, Holds
<1>8. CASE Claim(s)
  <2> DEFINE e == view[s].event
             n == attempts[e] + 1
  <2>1. n \in 0..AttemptBound
    BY <1>8, <1>s, PolicyAssumption DEF Claim, TypeOK
  <2>2. /\ view' \in [Procs -> View] /\ pc' \in [Procs -> PCs]
        /\ \A p \in Procs : pc'[p] \in Sending \cup Checking => view'[p].no # 0
    <3> DEFINE w == [view[s] EXCEPT !.no = n]
    <3>0. n # 0
      BY <1>s, PolicyAssumption DEF TypeOK
    <3>1. w \in View /\ w.no # 0
      <4> HIDE DEF n
      <4> QED BY <1>s, <2>1, <3>0 DEF View
    <3>2. view' = [view EXCEPT ![s] = w] /\ pc' = [pc EXCEPT ![s] = "calling"]
      BY <1>8 DEF Claim
    <3> HIDE DEF w
    <3> QED
      BY <1>s, <3>1, <3>2 DEF TypeOK, PCs, Sending, Checking
  <2>3. internal' \in [Requests -> {"none", "in_flight", "settled"}]
        /\ recorded' \in [Requests -> Outcomes]
    BY <1>8 DEF Claim, InsertAttempt, TypeOK, Outcomes
  <2>4. sends' \in 0..MaxSends
    BY <1>8, PolicyAssumption DEF Claim, CanClaim, TypeOK
  <2>5. dstate' \in [Events -> DStates] /\ attempts' \in [Events -> 0..AttemptBound]
    BY <1>8, <1>s, <2>1 DEF Claim, TypeOK, DStates, Outstanding
  <2> QED
    BY <1>8, <2>2, <2>3, <2>4, <2>5 DEF Claim, TypeOK
<1>9. CASE NotClaimable(s)
  BY <1>9, <1>s, NoViewType DEF NotClaimable, TypeOK, PCs, Sending, Checking
<1>r. ASSUME NEW receipt \in Receipt, Receive(s, receipt), UNCHANGED worker,
             pc[s] \in {"calling", "waiting"}
      PROVE  TypeOK'
  <2>1. [view[s] EXCEPT !.got = receipt] \in View
        /\ [view[s] EXCEPT !.got = receipt].no = view[s].no
    BY <1>s, ViewUpdates DEF View
  <2> QED
    BY <1>r, <1>s, <2>1 DEF Receive, TypeOK, PCs, Sending, Checking
<1>10. CASE Submit(s)
  BY <1>10, <1>s DEF Submit, TypeOK, PCs, Sending, Checking
<1>11. CASE LockedOut(s)
  BY <1>11, <1>r, ReceiptTypes DEF LockedOut, Codes, Methods
<1>12. CASE Answered(s)
  <2>1. op[RequestOf(s)] \in Receipt
    BY <1>12, <1>s DEF Answered, TypeOK, RequestOf, Requests, Sending
  <2> QED
    BY <1>12, <1>r, <2>1, ReceiptTypes DEF Answered
<1>13. CASE GiveUp(s)
  BY <1>13, <1>r, ReceiptTypes DEF GiveUp
<1>14. CASE Settle(s)
  <2> DEFINE e == view[s].event
             n == view[s].no
             f == Classify(view[s].got)
  <2>1. f.state \in Outcomes
    BY <1>s, ClassifyType DEF View
  <2>2. f.state \in DStates
    BY <2>1 DEF Outcomes, DStates, Claimable, Outstanding
  <2>3. internal' \in [Requests -> {"none", "in_flight", "settled"}]
        /\ recorded' \in [Requests -> Outcomes]
    BY <1>14, <2>1 DEF Settle, TypeOK
  <2>4. dstate' \in [Events -> DStates] /\ due' \in [Events -> BOOLEAN]
    BY <1>14, <2>2 DEF Settle, TypeOK
  <2>5. hold' \in [Events -> Holds]
    <3>1. CapHold(f, n) \in Holds
      BY DEF CapHold, Holds
    <3> QED
      BY <1>14, <3>1 DEF Settle, TypeOK, Holds
  <2>6. turnId' \in [Events -> 0..AttemptBound]
    BY <1>14, <1>s, PolicyAssumption DEF Settle, TypeOK
  <2>7. /\ view' \in [Procs -> View] /\ pc' \in [Procs -> PCs]
        /\ \A p \in Procs : pc'[p] \in Sending \cup Checking => view'[p].no # 0
    BY <1>14, NoViewType DEF Settle, TypeOK, PCs, Sending, Checking
  <2>8. overtaken' \in SUBSET Events
    BY <1>14, <1>s DEF Settle, TypeOK
  <2> QED
    BY <1>14, <2>3, <2>4, <2>5, <2>6, <2>7, <2>8 DEF Settle, TypeOK
<1> QED
  BY <1>1, <1>2, <1>3, <1>4, <1>5, <1>6, <1>7, <1>8, <1>9, <1>10, <1>11, <1>12, <1>13, <1>14
     DEF SenderStep

LEMMA WorkerTypes ==
  ASSUME TypeOK, NEW r \in Requests, WorkerStep(r)
  PROVE  TypeOK'
<1> USE DEF rowVars, tryVars, rateVars, envVars, hostVars, procVars, ledgerOnly
<1>1. CASE WorkerExpires(r)
  BY <1>1 DEF WorkerExpires, TypeOK
<1>2. CASE WorkerBegins(r)
  BY <1>2, ReceiptTypes DEF WorkerBegins, TypeOK
<1>3. CASE WorkerResumes(r)
  <2>1. [op[r] EXCEPT !.resumed = TRUE] \in Receipt
    BY DEF TypeOK, Receipt
  <2> QED
    BY <1>3, <2>1 DEF WorkerResumes, TypeOK
<1>4. CASE HostStartsTurn(r)
  BY <1>4 DEF HostStartsTurn, TypeOK
<1>5. CASE WorkerSaves(r)
  <2> PICK receipt \in FinalReceipts(r) : op' = [op EXCEPT ![r] = receipt]
    BY <1>5 DEF WorkerSaves
  <2>1. receipt \in Receipt
    BY FinalReceiptTypes
  <2> QED
    BY <1>5, <2>1 DEF WorkerSaves, TypeOK
<1> QED
  BY <1>1, <1>2, <1>3, <1>4, <1>5 DEF WorkerStep

LEMMA CapHoldType ==
  ASSUME NEW f, NEW n
  PROVE  CapHold(f, n) \in Holds
BY DEF CapHold, Holds

LEMMA VerdictType ==
  ASSUME NEW p \in Procs, view[p] \in View
  PROVE  /\ Verdict(p).record \in Outcomes /\ Verdict(p).state \in Outcomes
         /\ Verdict(p).hold \in Holds /\ Verdict(p).due \in BOOLEAN
         /\ Verdict(p).turn \in 0..AttemptBound
<1> DEFINE v == view[p]
           f == Classify(v.got)
<1>1. /\ v.got \in Receipt /\ v.was \in Outcomes /\ v.no \in 0..AttemptBound
      /\ f.state \in Outcomes /\ f.retrySafe \in BOOLEAN
  BY ClassifyType DEF View
<1>2. /\ 0 \in 0..AttemptBound /\ "none" \in Holds
      /\ "held_uncertain" \in Outcomes /\ "dispatched" \in Outcomes
  BY PolicyAssumption DEF Holds, Outcomes
<1>3. CapHold(f, v.no) \in Holds
  BY CapHoldType
<1>4. CASE Settling(v.got)
  <2>1. /\ Verdict(p).record = f.state /\ Verdict(p).state = f.state
        /\ Verdict(p).hold = CapHold(f, v.no)
        /\ Verdict(p).due = (~f.retrySafe \/ CapHold(f, v.no) # "none")
        /\ Verdict(p).turn = IF f.state = "dispatched" THEN v.no ELSE 0
    BY <1>4 DEF Verdict
  <2> QED
    BY <1>1, <1>2, <1>3, <2>1
<1>5. CASE ~Settling(v.got)
  <2>1. /\ Verdict(p).record \in {v.was, "held_uncertain"}
        /\ Verdict(p).state \in {"dispatched", "held_uncertain"}
        /\ Verdict(p).hold = "none" /\ Verdict(p).due = TRUE
        /\ Verdict(p).turn \in {0, v.no}
    BY <1>5 DEF Verdict
  <2> QED
    BY <1>1, <1>2, <2>1
<1> QED
  BY <1>4, <1>5

LEMMA ReconcilerTypes ==
  ASSUME TypeOK, NEW p \in Reconcilers \cup Operators, ReconcilerStep(p)
  PROVE  TypeOK'
<1> USE DEF rowVars, tryVars, rateVars, envVars, hostVars, procVars, Goto
<1>p. p \in Procs /\ view[p] \in View /\ view[p].event \in Events /\ view[p].no \in 0..AttemptBound
  BY DEF Procs, TypeOK, View
<1>1. ASSUME NEW r \in Requests, Open(p, r) PROVE TypeOK'
  <2> DEFINE e == r[1]
             n == r[2]
             o == recorded[r]
             b == Current(r)
             w == [NoView EXCEPT !.event = e, !.no = n, !.was = o, !.current = b]
  <2>1. /\ e \in Events /\ n \in 0..AttemptBound /\ n # 0
        /\ o \in Outcomes /\ b \in BOOLEAN
    BY PolicyAssumption DEF Requests, TypeOK, Current
  <2>2. w \in View /\ w.no # 0
    <3> HIDE DEF e, n, o, b
    <3> QED
      BY <2>1, NoViewType DEF View
  <2>3. view' = [view EXCEPT ![p] = w] /\ pc' = [pc EXCEPT ![p] = "opened"]
    BY <1>1 DEF Open
  <2> HIDE DEF w
  <2>4. /\ view' \in [Procs -> View] /\ pc' \in [Procs -> PCs]
        /\ \A q \in Procs : pc'[q] \in Sending \cup Checking => view'[q].no # 0
    BY <1>p, <2>2, <2>3 DEF TypeOK, PCs, Sending, Checking
  <2> QED
    BY <1>1, <2>4 DEF Open, TypeOK
<1>2. CASE ReadReceipt(p)
  <2> DEFINE w == [view[p] EXCEPT !.got = op[RequestOf(p)]]
  <2>1. op[RequestOf(p)] \in Receipt
    BY <1>2, <1>p DEF ReadReceipt, TypeOK, RequestOf, Requests, Checking
  <2>2. w \in View /\ w.no = view[p].no
    BY <1>p, <2>1 DEF View
  <2>3. view' = view \/ view' = [view EXCEPT ![p] = w]
    BY <1>2 DEF ReadReceipt
  <2> HIDE DEF w
  <2>4. /\ view' \in [Procs -> View] /\ pc' \in [Procs -> PCs]
        /\ \A q \in Procs : pc'[q] \in Sending \cup Checking => view'[q].no # 0
    BY <1>2, <1>p, <2>2, <2>3 DEF ReadReceipt, TypeOK, PCs, Sending, Checking
  <2>5. UNCHANGED <<rowVars, noted, tryVars, rateVars, envVars, hostVars, crashes, overtaken>>
    BY <1>2 DEF ReadReceipt
  <2> QED
    BY <2>4, <2>5 DEF TypeOK
<1>3. CASE Scan(p)
  <2> PICK found \in BOOLEAN : view' = [view EXCEPT ![p].found = found]
    BY <1>3 DEF Scan
  <2> DEFINE w == [view[p] EXCEPT !.found = found]
  <2>2. w \in View /\ w.no = view[p].no
    BY <1>p DEF View
  <2>3. view' = [view EXCEPT ![p] = w]
    OBVIOUS
  <2> HIDE DEF w
  <2> QED
    BY <1>3, <1>p, <2>2, <2>3 DEF Scan, TypeOK, PCs, Sending, Checking
<1>4. CASE Write(p)
  <2>1. internal' \in [Requests -> {"none", "in_flight", "settled"}]
        /\ recorded' \in [Requests -> Outcomes]
    BY <1>4, <1>p, VerdictType DEF Write, TypeOK
  <2>2. dstate' \in [Events -> DStates]
    BY <1>4, <1>p, VerdictType DEF Write, TypeOK, Outcomes, DStates, Claimable, Outstanding
  <2>3. hold' \in [Events -> Holds] /\ due' \in [Events -> BOOLEAN]
    BY <1>4, <1>p, VerdictType DEF Write, TypeOK
  <2>4. turnId' \in [Events -> 0..AttemptBound]
    BY <1>4, <1>p, VerdictType DEF Write, TypeOK
  <2>5. /\ view' \in [Procs -> View] /\ pc' \in [Procs -> PCs]
        /\ \A q \in Procs : pc'[q] \in Sending \cup Checking => view'[q].no # 0
    BY <1>4, <1>p, NoViewType DEF Write, TypeOK, PCs, Sending, Checking
  <2> QED
    BY <1>4, <2>1, <2>2, <2>3, <2>4, <2>5 DEF Write, TypeOK
<1> QED
  BY <1>1, <1>2, <1>3, <1>4 DEF ReconcilerStep, OpenUnresolved, OpenByHand

LEMMA CrashTypes ==
  ASSUME TypeOK, NEW p \in Procs, Crash(p)
  PROVE  TypeOK'
<1> USE DEF rowVars, tryVars, rateVars, envVars, hostVars, procVars, Goto
<1>1. crashes' \in 0..MaxCrashes
  BY PolicyAssumption DEF Crash, TypeOK
<1>2. /\ view' \in [Procs -> View] /\ pc' \in [Procs -> PCs]
      /\ \A q \in Procs : pc'[q] \in Sending \cup Checking => view'[q].no # 0
  BY NoViewType DEF Crash, TypeOK, PCs, Sending, Checking
<1>3. worker' \in [Requests -> Procs \cup {NoProc}]
  BY DEF Crash, TypeOK
<1> QED
  BY <1>1, <1>2, <1>3 DEF Crash, TypeOK

LEMMA InitTypes == Init => TypeOK
<1> SUFFICES ASSUME Init PROVE TypeOK
  OBVIOUS
<1>1. 0 \in 0..AttemptBound /\ 0 \in 0..MaxSends /\ 0 \in 0..MaxCrashes
  BY PolicyAssumption
<1>2. op \in [Requests -> Receipt] /\ worker \in [Requests -> Procs \cup {NoProc}]
  BY NoReceiptType DEF Init
<1>3. /\ view \in [Procs -> View] /\ pc \in [Procs -> PCs]
      /\ \A p \in Procs : pc[p] \in Sending \cup Checking => view[p].no # 0
  BY NoViewType DEF Init, PCs, Sending, Checking
<1> QED
  BY <1>1, <1>2, <1>3 DEF Init, TypeOK, DStates, Holds, Outcomes

LEMMA NextTypes == TypeOK /\ [Next]_vars => TypeOK'
<1> SUFFICES ASSUME TypeOK, [Next]_vars PROVE TypeOK'
  OBVIOUS
<1>1. CASE Environment
  BY <1>1, EnvironmentTypes
<1>2. ASSUME NEW s \in Senders, SenderStep(s) PROVE TypeOK'
  BY <1>2, SenderTypes
<1>3. ASSUME NEW r \in Requests, WorkerStep(r) PROVE TypeOK'
  BY <1>3, WorkerTypes
<1>4. ASSUME NEW p \in Reconcilers \cup Operators, ReconcilerStep(p) PROVE TypeOK'
  BY <1>4, ReconcilerTypes
<1>5. ASSUME NEW p \in Procs, Crash(p) PROVE TypeOK'
  BY <1>5, CrashTypes
<1>6. CASE UNCHANGED vars
  BY <1>6 DEF vars, rowVars, tryVars, rateVars, envVars, hostVars, procVars, TypeOK
<1> QED
  BY <1>1, <1>2, <1>3, <1>4, <1>5, <1>6 DEF Next

\* Every table, ledger and process of the delivery half holds values of its type, the hourly cap
\* included: no interleaving of senders sends more than max_sends_per_recipient_per_hour.
THEOREM TypeCorrect == Spec => []TypeOK
<1>1. Init => TypeOK
  BY InitTypes
<1>2. TypeOK /\ [Next]_vars => TypeOK'
  BY NextTypes
<1> QED
  BY <1>1, <1>2, PTL DEF Spec

-----------------------------------------------------------------------------
(***************************************************************************)
(* The inductive invariant, first the part about requests, processes and   *)
(* the ledger (Core), then the part about delivery rows.  Every action is  *)
(* shown to keep Core, and to keep every opened request that is dead dead. *)
(***************************************************************************)
Core ==
  /\ TypeOK
  /\ FreshUntouched /\ WorksOnOpened /\ OneCaller /\ CallingUntouched
  /\ LedgerTruthful /\ ReadingsTrue

DeadStaysDead ==
  \A r \in Requests : r[2] <= attempts[r[1]] /\ Dead(r) => Dead(r)'

LEMMA RequestType ==
  ASSUME TypeOK, NEW p \in Procs, pc[p] \in Sending \cup Checking
  PROVE  RequestOf(p) \in Requests
BY DEF TypeOK, View, RequestOf, Requests

\* A ledger row that says "retry safe": its worker is gone and nothing of it is on the wire.
LEMMA RetrySafeRow ==
  ASSUME TypeOK, LedgerTruthful, NEW r \in Requests, Classify(op[r]).retrySafe
  PROVE  op[r].status = "failed" /\ r \notin turns /\ worker[r] = NoProc /\ ~OnTheWire(r)
<1>1. op[r].status = "failed" /\ op[r] # StartFailed
  BY ClassifyAnswers, StartFailedAnswers DEF TypeOK
<1> QED
  BY <1>1 DEF LedgerTruthful, OnTheWire, NoReceipt

\* A process goes back to idle: PutOff, Suppress, NotClaimable, Settle, Write and Crash.
LEMMA Retires ==
  ASSUME Core, TypeOK', NEW p \in Procs,
         pc' = [pc EXCEPT ![p] = "idle"], view' = [view EXCEPT ![p] = NoView],
         UNCHANGED <<attempts, op, turns>>,
         \A r \in Requests : worker'[r] \in {worker[r], NoProc},
         \A r \in Requests : internal'[r] = internal[r] \/ r[2] <= attempts[r[1]]
  PROVE  Core' /\ DeadStaysDead
<1> USE DEF Core
<1>1. \A q \in Procs : pc'[q] # "idle" => q # p /\ pc'[q] = pc[q] /\ view'[q] = view[q]
  BY DEF TypeOK
<1>2. \A r \in Requests : Dead(r) => Dead(r)'
  BY <1>1 DEF Dead, OnTheWire, RequestOf, Procs
<1>3. FreshUntouched'
  BY PolicyAssumption DEF FreshUntouched, TypeOK, Requests
<1>4. WorksOnOpened'
  BY <1>1 DEF WorksOnOpened, Sending, Checking
<1>5. OneCaller'
  BY <1>1 DEF OneCaller, RequestOf, Sending, Procs
<1>6. CallingUntouched'
  BY <1>1, RequestType DEF CallingUntouched, RequestOf, Sending, Procs
<1>7. LedgerTruthful'
  BY DEF LedgerTruthful
<1>8. ReadingsTrue'
  <2> SUFFICES ASSUME NEW q \in Procs, pc'[q] # "idle"
               PROVE  ReadingsTrue!(q)'
    BY DEF ReadingsTrue
  <2> QED
    BY <1>1, <1>2, RequestType DEF ReadingsTrue, RequestOf, Sending, Checking
<1> QED
  BY <1>2, <1>3, <1>4, <1>5, <1>6, <1>7, <1>8 DEF DeadStaysDead

\* A process reads on, holding nothing yet that must stay true: Look, WithinRate, ClearToSend,
\* Open, and the first step of a check that found no settling receipt.
LEMMA ReadsOn ==
  ASSUME Core, TypeOK', NEW p \in Procs, NEW w \in View,
         NEW label \in {"looked", "clear", "unsuppressed", "opened", "scanning"},
         pc' = [pc EXCEPT ![p] = label], view' = [view EXCEPT ![p] = w],
         UNCHANGED <<attempts, internal, op, worker, turns>>,
         label = "looked" => w.state \in Claimable,
         label \in {"opened", "scanning"} =>
           w.no \in 1..attempts[w.event] /\ w.got = NoReceipt /\ ~w.found
  PROVE  Core' /\ DeadStaysDead
<1> USE DEF Core
<1>1. /\ pc'[p] = label /\ view'[p] = w
      /\ \A q \in Procs : q # p => pc'[q] = pc[q] /\ view'[q] = view[q]
  BY DEF TypeOK
<1>2. \A r \in Requests : Dead(r) => Dead(r)'
  BY <1>1 DEF Dead, OnTheWire, RequestOf, Procs
<1>3. FreshUntouched'
  BY DEF FreshUntouched
<1>4. WorksOnOpened'
  BY <1>1 DEF WorksOnOpened, Sending, Checking
<1>5. OneCaller'
  BY <1>1 DEF OneCaller, RequestOf, Sending, Procs
<1>6. CallingUntouched'
  BY <1>1, RequestType DEF CallingUntouched, RequestOf, Sending, Procs
<1>7. LedgerTruthful'
  BY DEF LedgerTruthful
<1>8. ReadingsTrue'
  <2> SUFFICES ASSUME NEW q \in Procs
               PROVE  ReadingsTrue!(q)'
    BY DEF ReadingsTrue
  <2>1. CASE q = p
    BY <1>1, <2>1 DEF RequestOf
  <2>2. CASE q # p
    BY <1>1, <1>2, <2>2, RequestType DEF ReadingsTrue, RequestOf, Sending, Checking
  <2> QED
    BY <2>1, <2>2
<1> QED
  BY <1>2, <1>3, <1>4, <1>5, <1>6, <1>7, <1>8 DEF DeadStaysDead

\* A process learns something: Receive, a settling receipt, or the outcome of a scan.
LEMMA Learns ==
  ASSUME Core, TypeOK', NEW p \in Procs, NEW w \in View, NEW label \in {"returned", "writing"},
         pc[p] \in Sending \cup Checking,
         label = "returned" => p \in Senders /\ pc[p] \in Sending,
         pc' = [pc EXCEPT ![p] = label], view' = [view EXCEPT ![p] = w],
         UNCHANGED <<attempts, internal, op, worker, turns>>,
         w.event = view[p].event, w.no = view[p].no,
         Classify(w.got).state = "dispatched" => RequestOf(p) \in turns,
         Classify(w.got).retrySafe =>
           /\ RequestOf(p) \notin turns /\ worker[RequestOf(p)] = NoProc
           /\ ~OnTheWire(RequestOf(p))
           /\ \A s \in Senders : s # p /\ pc[s] = "calling" => RequestOf(s) # RequestOf(p),
         label = "writing" /\ w.found => RequestOf(p) \in turns
  PROVE  Core' /\ DeadStaysDead
<1> USE DEF Core
<1>1. /\ pc'[p] = label /\ view'[p] = w /\ RequestOf(p)' = RequestOf(p)
      /\ \A q \in Procs : q # p => pc'[q] = pc[q] /\ view'[q] = view[q]
  BY DEF TypeOK, RequestOf
<1>2. \A r \in Requests : Dead(r) => Dead(r)'
  BY <1>1 DEF Dead, OnTheWire, RequestOf, Procs
<1>3. FreshUntouched'
  BY DEF FreshUntouched
<1>4. WorksOnOpened'
  BY <1>1 DEF WorksOnOpened, Sending, Checking
<1>5. OneCaller'
  BY <1>1 DEF OneCaller, RequestOf, Sending, Procs
<1>6. CallingUntouched'
  BY <1>1, RequestType DEF CallingUntouched, RequestOf, Sending, Procs
<1>7. LedgerTruthful'
  BY DEF LedgerTruthful
<1>8. ReadingsTrue'
  <2> SUFFICES ASSUME NEW q \in Procs
               PROVE  ReadingsTrue!(q)'
    BY DEF ReadingsTrue
  <2>1. CASE q = p
    <3>1. Classify(w.got).retrySafe => Dead(RequestOf(p))'
      BY <1>1 DEF Dead, OnTheWire, RequestOf, Procs
    <3> QED
      BY <1>1, <2>1, <3>1
  <2>2. CASE q # p
    BY <1>1, <1>2, <2>2, RequestType DEF ReadingsTrue, RequestOf, Sending, Checking
  <2> QED
    BY <2>1, <2>2
<1> QED
  BY <1>2, <1>3, <1>4, <1>5, <1>6, <1>7, <1>8 DEF DeadStaysDead

LEMMA ClaimCore ==
  ASSUME Core, TypeOK', NEW s \in Senders, Claim(s)
  PROVE  Core' /\ DeadStaysDead
<1> USE DEF Core
<1> DEFINE e == view[s].event
           n == attempts[e] + 1
<1>0. /\ s \in Procs /\ e \in Events /\ attempts[e] \in Nat /\ n \in 1..AttemptBound
      /\ <<e, n>> \in Requests
  BY PolicyAssumption DEF Claim, Procs, TypeOK, View, Requests
<1>1. /\ pc'[s] = "calling" /\ view'[s].event = e /\ view'[s].no = n
      /\ RequestOf(s)' = <<e, n>>
      /\ \A q \in Procs : q # s => pc'[q] = pc[q] /\ view'[q] = view[q]
  <2> DEFINE w == [view[s] EXCEPT !.no = n]
  <2>1. view' = [view EXCEPT ![s] = w] /\ pc' = [pc EXCEPT ![s] = "calling"]
    BY DEF Claim, Goto
  <2>2. w.event = e /\ w.no = n
    BY <1>0 DEF TypeOK, View
  <2> HIDE DEF w, n
  <2> QED
    BY <1>0, <2>1, <2>2 DEF TypeOK, RequestOf
<1>2. /\ attempts' = [attempts EXCEPT ![e] = n]
      /\ internal' = [internal EXCEPT ![<<e, n>>] = "in_flight"]
      /\ UNCHANGED <<op, worker, turns>>
  BY DEF Claim, InsertAttempt, hostVars
<1>3. \A q \in Procs : pc[q] \in Sending \cup Checking =>
        RequestOf(q) \in Requests /\ RequestOf(q) # <<e, n>>
  BY <1>0, RequestType DEF WorksOnOpened, RequestOf
<1>4. \A f \in Events : attempts[f] \in Nat /\ attempts[f] <= attempts'[f]
  BY <1>0, <1>2, PolicyAssumption DEF TypeOK
<1> HIDE DEF n
<1>5. \A r \in Requests : r # <<e, n>> /\ Dead(r) => Dead(r)'
  BY <1>1, <1>2 DEF Dead, OnTheWire, RequestOf, Procs
<1>6. FreshUntouched'
  <2> SUFFICES ASSUME NEW r \in Requests, r[2] > attempts'[r[1]]
               PROVE  FreshUntouched!(r)!2'
    BY DEF FreshUntouched
  <2>1. r[1] \in Events /\ r[2] \in Nat
    BY PolicyAssumption DEF Requests
  <2>2. r[2] > attempts[r[1]]
    BY <1>4, <2>1, <1>2 DEF TypeOK
  <2>3. r # <<e, n>>
    BY <1>0, <1>2, <2>1 DEF TypeOK, n
  <2> QED
    BY <1>2, <2>2, <2>3 DEF FreshUntouched, TypeOK
<1>7. WorksOnOpened'
  <2> SUFFICES ASSUME NEW q \in Procs, pc'[q] \in Sending \cup Checking
               PROVE  view'[q].no \in 1..attempts'[view'[q].event]
    BY DEF WorksOnOpened
  <2>1. CASE q = s
    BY <1>0, <1>1, <1>2, <2>1 DEF TypeOK
  <2>2. CASE q # s
    BY <1>1, <1>4, <2>2, RequestType DEF WorksOnOpened, TypeOK, View
  <2> QED
    BY <2>1, <2>2
<1>8. OneCaller'
  <2>1. \A q \in Procs : q # s => RequestOf(q)' = RequestOf(q)
    BY <1>1 DEF RequestOf
  <2>2. \A q \in Procs : q # s /\ pc'[q] \in Sending => RequestOf(q)' # RequestOf(s)'
    BY <1>1, <1>3, <2>1
  <2> QED
    BY <1>1, <2>1, <2>2 DEF OneCaller, Procs
<1>9. <<e, n>> \notin turns /\ op[<<e, n>>] = NoReceipt /\ worker[<<e, n>>] = NoProc
  BY <1>0 DEF FreshUntouched, n
<1>10. CallingUntouched'
  BY <1>1, <1>2, <1>9 DEF CallingUntouched, RequestOf, Sending, Procs
<1>11. LedgerTruthful'
  BY <1>2 DEF LedgerTruthful
<1>12. ReadingsTrue'
  <2> SUFFICES ASSUME NEW q \in Procs
               PROVE  ReadingsTrue!(q)'
    BY DEF ReadingsTrue
  <2>1. CASE q = s
    BY <1>1, <2>1
  <2>2. CASE q # s
    BY <1>1, <1>2, <1>3, <1>5, <2>2 DEF ReadingsTrue, RequestOf, Sending, Checking
  <2> QED
    BY <2>1, <2>2
<1>13. DeadStaysDead
  <2> SUFFICES ASSUME NEW r \in Requests, r[2] <= attempts[r[1]], Dead(r)
               PROVE  Dead(r)'
    BY DEF DeadStaysDead
  <2>1. r # <<e, n>>
    BY <1>0 DEF n
  <2> QED
    BY <1>5, <2>1
<1> QED
  BY <1>6, <1>7, <1>8, <1>10, <1>11, <1>12, <1>13

LEMMA SubmitCore ==
  ASSUME Core, TypeOK', NEW s \in Senders, Submit(s)
  PROVE  Core' /\ DeadStaysDead
<1> USE DEF Core
<1> DEFINE x == RequestOf(s)
<1>1. /\ s \in Procs /\ pc[s] = "calling" /\ pc'[s] = "waiting" /\ view' = view
      /\ \A q \in Procs : q # s => pc'[q] = pc[q]
      /\ \A q \in Procs : RequestOf(q)' = RequestOf(q)
      /\ x \in Requests
  BY RequestType DEF Submit, Goto, Procs, TypeOK, Sending, RequestOf
<1>2. /\ UNCHANGED <<attempts, internal, op, turns>>
      /\ worker' = [worker EXCEPT ![x] = s]
  BY DEF Submit, rowVars, tryVars
<1>3. op[x] = NoReceipt /\ x \notin turns
  BY <1>1 DEF CallingUntouched
<1>4. x[2] <= attempts[x[1]]
  BY <1>1, PolicyAssumption DEF WorksOnOpened, RequestOf, Sending, TypeOK, View
<1> HIDE DEF x
<1>5. \A r \in Requests : Dead(r) => Dead(r)'
  <2> SUFFICES ASSUME NEW r \in Requests, Dead(r) PROVE Dead(r)'
    OBVIOUS
  <2>1. r # x
    BY <1>1 DEF Dead, x
  <2> QED
    BY <1>1, <1>2, <2>1 DEF Dead, OnTheWire, Procs, TypeOK
<1>6. FreshUntouched'
  BY <1>1, <1>2, <1>4, PolicyAssumption DEF FreshUntouched, TypeOK, Requests
<1>7. WorksOnOpened'
  BY <1>1, <1>2 DEF WorksOnOpened, Sending, Checking
<1>8. OneCaller'
  BY <1>1 DEF OneCaller, Sending, Procs
<1>9. CallingUntouched'
  <2> SUFFICES ASSUME NEW t \in Senders, pc'[t] = "calling"
               PROVE  CallingUntouched!(t)!2'
    BY DEF CallingUntouched
  <2>1. t # s /\ pc[t] = "calling" /\ RequestOf(t) # x
    BY <1>1 DEF OneCaller, Sending, Procs, x
  <2> QED
    BY <1>1, <1>2, <2>1, RequestType DEF CallingUntouched, TypeOK, Sending, Procs
<1>10. LedgerTruthful'
  BY <1>1, <1>2, <1>3 DEF LedgerTruthful, TypeOK
<1>11. ReadingsTrue'
  <2> SUFFICES ASSUME NEW q \in Procs
               PROVE  ReadingsTrue!(q)'
    BY DEF ReadingsTrue
  <2> QED
    BY <1>1, <1>2, <1>5, RequestType DEF ReadingsTrue, Sending, Checking
<1> QED
  BY <1>5, <1>6, <1>7, <1>8, <1>9, <1>10, <1>11 DEF DeadStaysDead

\* The three ways a caller gets its answer.  What it is told is true of its own request, because
\* nobody else submits that one.
LEMMA AnswerCore ==
  ASSUME Core, TypeOK', NEW s \in Senders, LockedOut(s) \/ Answered(s) \/ GiveUp(s)
  PROVE  Core' /\ DeadStaysDead
<1> USE DEF Core
<1> DEFINE x == RequestOf(s)
<1>1. /\ s \in Procs /\ view[s] \in View /\ pc[s] \in {"calling", "waiting"}
      /\ pc[s] \in Sending
  BY DEF LockedOut, Answered, GiveUp, Procs, TypeOK, Sending
<1>2. x \in Requests /\ op[x] \in Receipt
  BY <1>1, RequestType DEF TypeOK
<1>3. \A t \in Senders : t # s /\ pc[t] = "calling" => RequestOf(t) # x
  BY <1>1 DEF OneCaller, Sending
<1>4. ASSUME NEW receipt \in Receipt, Receive(s, receipt), UNCHANGED worker,
             Classify(receipt).state = "dispatched" => x \in turns,
             Classify(receipt).retrySafe =>
               x \notin turns /\ worker[x] = NoProc /\ ~OnTheWire(x)
      PROVE  Core' /\ DeadStaysDead
  <2> DEFINE w == [view[s] EXCEPT !.got = receipt]
  <2>1. w \in View /\ w.event = view[s].event /\ w.no = view[s].no /\ w.got = receipt
    BY <1>1 DEF View
  <2>2. /\ pc' = [pc EXCEPT ![s] = "returned"] /\ view' = [view EXCEPT ![s] = w]
        /\ UNCHANGED <<attempts, internal, op, worker, turns>>
    BY <1>4 DEF Receive, Goto, rowVars, tryVars
  <2> HIDE DEF w, x
  <2> QED
    BY <1>1, <1>3, <1>4, <2>1, <2>2, Learns DEF x
<1>5. CASE LockedOut(s)
  <2> DEFINE busy == Failed("thread_busy", "none", FALSE)
  <2>1. busy \in Receipt
    BY ReceiptTypes DEF Codes, Methods
  <2>2. Classify(busy).state # "dispatched"
    BY <2>1, ClassifyAnswers DEF Failed
  <2>3. op[x] = NoReceipt /\ worker[x] = NoProc /\ x \notin turns
    BY <1>5 DEF LockedOut, CallingUntouched
  <2>4. ~OnTheWire(x)
    BY <2>3 DEF OnTheWire, NoReceipt
  <2>5. Receive(s, busy) /\ UNCHANGED worker
    BY <1>5 DEF LockedOut
  <2> HIDE DEF busy, x
  <2> QED
    BY <1>4, <2>1, <2>2, <2>3, <2>4, <2>5
<1>6. CASE Answered(s)
  <2> DEFINE receipt == IF op[x] = NoReceipt THEN Unknown(FALSE) ELSE op[x]
  <2>1. receipt \in Receipt
    BY <1>2, ReceiptTypes
  <2>2. Receive(s, receipt) /\ UNCHANGED worker /\ worker[x] = NoProc
    BY <1>6 DEF Answered
  <2>3. Classify(receipt).state = "dispatched" => receipt.status = "accepted"
    BY <2>1, ClassifyAnswers
  <2>4. Classify(receipt).retrySafe => receipt = op[x]
    BY <2>1, ClassifyAnswers DEF Unknown, NoReceipt
  <2>5. receipt.status = "accepted" => op[x].status = "accepted"
    BY DEF Unknown, NoReceipt
  <2>6. op[x].status = "accepted" => x \in turns
    BY <1>2 DEF LedgerTruthful
  <2>7. Classify(op[x]).retrySafe => x \notin turns /\ ~OnTheWire(x)
    BY <1>2, RetrySafeRow
  <2> HIDE DEF receipt, x
  <2> QED
    BY <1>4, <2>1, <2>2, <2>3, <2>4, <2>5, <2>6, <2>7
<1>7. CASE GiveUp(s)
  <2>1. Unknown(FALSE) \in Receipt /\ Unknown(FALSE).status = "outcome_unknown"
    BY ReceiptTypes DEF Unknown, NoReceipt
  <2>2. Classify(Unknown(FALSE)).state # "dispatched" /\ ~Classify(Unknown(FALSE)).retrySafe
    BY <2>1, ClassifyAnswers
  <2>3. Receive(s, Unknown(FALSE)) /\ UNCHANGED worker
    BY <1>7 DEF GiveUp
  <2> QED
    BY <1>4, <2>1, <2>2, <2>3
<1> QED
  BY <1>5, <1>6, <1>7

LEMMA SenderCore ==
  ASSUME Core, TypeOK', NEW s \in Senders, SenderStep(s)
  PROVE  Core' /\ DeadStaysDead
<1> USE DEF rowVars, tryVars, rateVars, hostVars, Goto
<1>s. /\ s \in Procs /\ view[s] \in View /\ view[s].event \in Events
      /\ view[s].no \in 0..AttemptBound
  BY DEF Core, Procs, TypeOK, View
<1>p. ASSUME NEW state, NEW newHold, PutOff(s, state, newHold) PROVE Core' /\ DeadStaysDead
  BY <1>p, <1>s, Retires DEF PutOff
<1>1. ASSUME NEW e \in Events, Look(s, e) PROVE Core' /\ DeadStaysDead
  <2> DEFINE w == [NoView EXCEPT !.event = e, !.no = attempts[e], !.state = dstate[e]]
  <2>1. w \in View /\ w.state \in Claimable
    BY <1>1, NoViewType DEF Look, View, Core, TypeOK
  <2>2. /\ view' = [view EXCEPT ![s] = w] /\ pc' = [pc EXCEPT ![s] = "looked"]
        /\ UNCHANGED <<attempts, internal, op, worker, turns>>
    BY <1>1 DEF Look
  <2> HIDE DEF w
  <2> QED
    BY <1>s, <2>1, <2>2, ReadsOn
<1>2. CASE Reschedule(s)
  BY <1>2, <1>p DEF Reschedule
<1>3. CASE WithinRate(s)
  <2>1. view' = [view EXCEPT ![s] = view[s]]
    BY <1>3 DEF WithinRate, Core, TypeOK
  <2> QED
    BY <1>3, <1>s, <2>1, ReadsOn DEF WithinRate
<1>4. CASE DeferBusy(s)
  BY <1>4, <1>p DEF DeferBusy
<1>5. CASE Withhold(s)
  BY <1>5, <1>p DEF Withhold
<1>6. CASE ClearToSend(s)
  <2>1. view' = [view EXCEPT ![s] = view[s]]
    BY <1>6 DEF ClearToSend, Core, TypeOK
  <2> QED
    BY <1>6, <1>s, <2>1, ReadsOn DEF ClearToSend
<1>7. CASE Suppress(s)
  BY <1>7, <1>s, Retires DEF Suppress
<1>8. CASE Claim(s)
  BY <1>8, ClaimCore
<1>9. CASE NotClaimable(s)
  BY <1>9, <1>s, Retires DEF NotClaimable
<1>10. CASE Submit(s)
  BY <1>10, SubmitCore
<1>11. CASE LockedOut(s) \/ Answered(s) \/ GiveUp(s)
  BY <1>11, AnswerCore
<1>12. CASE Settle(s)
  <2>1. RequestOf(s) \in Requests /\ view[s].no <= attempts[view[s].event]
    BY <1>12, <1>s, RequestType, PolicyAssumption
       DEF Core, Settle, WorksOnOpened, Sending, TypeOK
  <2>2. \A r \in Requests : internal'[r] = internal[r] \/ r[2] <= attempts[r[1]]
    BY <1>12, <2>1 DEF Settle, Core, TypeOK, RequestOf
  <2> QED
    BY <1>12, <1>s, <2>2, Retires DEF Settle
<1> QED
  BY <1>1, <1>2, <1>3, <1>4, <1>5, <1>6, <1>7, <1>8, <1>9, <1>10, <1>11, <1>12 DEF SenderStep

\* What a worker, or the host on its behalf, does to a live request r touches r alone.
LEMMA WorkerActs ==
  ASSUME Core, TypeOK', NEW r \in Requests,
         Running(r) \/ OnTheWire(r),
         UNCHANGED <<attempts, internal, pc, view>>,
         turns \subseteq turns',
         \A x \in Requests : x # r =>
           op'[x] = op[x] /\ worker'[x] = worker[x] /\ (x \in turns' <=> x \in turns),
         LedgerTruthful!(r)'
  PROVE  Core' /\ DeadStaysDead
<1> USE DEF Core
<1>1. \A q \in Procs : RequestOf(q)' = RequestOf(q)
  BY DEF RequestOf
<1>2. op[r] = NoReceipt => worker[r] # NoProc
  BY DEF Running, OnTheWire, NoReceipt
<1>3. ~Dead(r)
  BY DEF Dead, Running
<1>4. \A x \in Requests : Dead(x) => Dead(x)'
  BY <1>1, <1>3 DEF Dead, OnTheWire, Procs
<1>5. FreshUntouched'
  BY <1>2 DEF FreshUntouched
<1>6. WorksOnOpened'
  BY DEF WorksOnOpened
<1>7. OneCaller'
  BY <1>1 DEF OneCaller, Procs
<1>8. CallingUntouched'
  <2> SUFFICES ASSUME NEW s \in Senders, pc[s] = "calling"
               PROVE  CallingUntouched!(s)!2'
    BY DEF CallingUntouched
  <2>1. s \in Procs /\ RequestOf(s) \in Requests /\ RequestOf(s) # r
    BY <1>2, RequestType DEF CallingUntouched, Procs, Sending
  <2> QED
    BY <1>1, <2>1 DEF CallingUntouched
<1>9. LedgerTruthful'
  BY DEF LedgerTruthful
<1>10. ReadingsTrue'
  <2> SUFFICES ASSUME NEW q \in Procs
               PROVE  ReadingsTrue!(q)'
    BY DEF ReadingsTrue
  <2> QED
    BY <1>1, <1>4, RequestType DEF ReadingsTrue, Sending, Checking
<1> QED
  BY <1>4, <1>5, <1>6, <1>7, <1>8, <1>9, <1>10 DEF DeadStaysDead

LEMMA WorkerCore ==
  ASSUME Core, TypeOK', NEW r \in Requests, WorkerStep(r)
  PROVE  Core' /\ DeadStaysDead
<1> USE DEF ledgerOnly, rowVars, tryVars, procVars
<1>0. /\ UNCHANGED <<attempts, internal, pc, view>>
      /\ op[r] \in Receipt /\ op[r].resumed \in BOOLEAN
      /\ LedgerTruthful!(r)
  BY DEF WorkerStep, WorkerExpires, WorkerBegins, WorkerResumes, HostStartsTurn, WorkerSaves, Core,
         TypeOK, Receipt, LedgerTruthful
<1>1. CASE WorkerExpires(r)
  <2>1. LedgerTruthful!(r)'
    BY <1>0, <1>1 DEF WorkerExpires, Core, TypeOK
  <2> QED
    BY <1>0, <1>1, <2>1, WorkerActs DEF WorkerExpires, Core, TypeOK
<1>2. CASE WorkerBegins(r)
  <2>1. r \notin turns
    BY <1>0, <1>2 DEF WorkerBegins, NoReceipt
  <2>2. LedgerTruthful!(r)'
    BY <1>2, <2>1 DEF WorkerBegins, Core, TypeOK, InProgress, NoReceipt
  <2> QED
    BY <1>0, <1>2, <2>2, WorkerActs DEF WorkerBegins, Core, TypeOK
<1>3. CASE WorkerResumes(r)
  <2> DEFINE x == [op[r] EXCEPT !.resumed = TRUE]
  <2>1. x.status = "in_progress_or_unknown" /\ x.resumed = TRUE
    BY <1>0, <1>3 DEF WorkerResumes, Receipt, InProgress, NoReceipt
  <2>2. op' = [op EXCEPT ![r] = x] /\ UNCHANGED <<turns, worker>>
    BY <1>3 DEF WorkerResumes
  <2> HIDE DEF x
  <2>3. LedgerTruthful!(r)'
    BY <2>1, <2>2 DEF Core, TypeOK
  <2> QED
    BY <1>0, <1>3, <2>2, <2>3, WorkerActs DEF WorkerResumes, Core, TypeOK
<1>4. CASE HostStartsTurn(r)
  <2>1. LedgerTruthful!(r)'
    BY <1>0, <1>4 DEF HostStartsTurn, OnTheWire
  <2> QED
    BY <1>0, <1>4, <2>1, WorkerActs DEF HostStartsTurn
<1>5. CASE WorkerSaves(r)
  <2> PICK x \in FinalReceipts(r) : op' = [op EXCEPT ![r] = x]
    BY <1>5 DEF WorkerSaves
  <2>1. /\ worker' = [worker EXCEPT ![r] = NoProc] /\ UNCHANGED turns /\ Running(r)
    BY <1>5 DEF WorkerSaves
  <2>2. r \in turns =>
          x.resumed /\ (x.status \in {"accepted", "outcome_unknown"} \/ x = StartFailed)
    <3>1. op[r].resumed /\ r \in turns => x \in {Accepted, Unknown(TRUE), StartFailed}
      BY DEF FinalReceipts
    <3> QED
      BY <1>0, <3>1, ReceiptStatuses, StartFailedAnswers
  <2>3. x.status = "accepted" => r \in turns
    <3> DEFINE f1 == Failed("thread_busy", "thread/read", FALSE)
               f2 == Failed("other", "thread/read", FALSE)
               f3 == Failed("other", "thread/resume", FALSE)
               f4 == Failed("other", "initialize", FALSE)
               g1 == Failed("settings", "thread/resume", TRUE)
               g2 == Failed("approval", "thread/resume", TRUE)
               g3 == Failed("other", "initialize", TRUE)
    <3>1. /\ f1.status = "failed" /\ f2.status = "failed" /\ f3.status = "failed"
          /\ f4.status = "failed" /\ g1.status = "failed" /\ g2.status = "failed"
          /\ g3.status = "failed" /\ StartFailed.status = "failed"
          /\ Unknown(FALSE).status = "outcome_unknown" /\ Unknown(TRUE).status = "outcome_unknown"
      BY StartFailedAnswers DEF Failed, Unknown, NoReceipt
    <3>2. r \in turns \/ x \in {f1, f2, f3, f4, g1, g2, g3, StartFailed, Unknown(FALSE), Unknown(TRUE)}
      BY DEF FinalReceipts
    <3> HIDE DEF f1, f2, f3, f4, g1, g2, g3
    <3> QED
      BY <3>1, <3>2
  <2>4. LedgerTruthful!(r)'
    BY <2>1, <2>2, <2>3 DEF Core, TypeOK
  <2> QED
    BY <1>0, <2>1, <2>4, WorkerActs DEF Core, TypeOK
<1> QED
  BY <1>1, <1>2, <1>3, <1>4, <1>5 DEF WorkerStep

LEMMA ReconcilerCore ==
  ASSUME Core, TypeOK', NEW p \in Reconcilers \cup Operators, ReconcilerStep(p)
  PROVE  Core' /\ DeadStaysDead
<1> USE DEF rowVars, tryVars, rateVars, hostVars, Goto
<1>p. /\ p \in Procs /\ view[p] \in View
      /\ view[p].event \in Events /\ view[p].no \in 0..AttemptBound
  BY DEF Core, Procs, TypeOK, View
<1>1. ASSUME NEW r \in Requests, Open(p, r) PROVE Core' /\ DeadStaysDead
  <2> DEFINE e == r[1]
             n == r[2]
             o == recorded[r]
             b == Current(r)
             w == [NoView EXCEPT !.event = e, !.no = n, !.was = o, !.current = b]
  <2>1. /\ e \in Events /\ n \in 1..AttemptBound /\ n \in 0..AttemptBound
        /\ o \in Outcomes /\ b \in BOOLEAN
    BY PolicyAssumption DEF Requests, Core, TypeOK, Current
  <2>2. n \in 1..attempts[e]
    BY <1>1, <2>1, PolicyAssumption DEF Open, Core, FreshUntouched, TypeOK
  <2>3. w \in View /\ w.no \in 1..attempts[w.event] /\ w.got = NoReceipt /\ ~w.found
    <3> HIDE DEF e, n, o, b
    <3>1. /\ w \in View /\ w.no = n /\ w.event = e
          /\ w.got = NoView.got /\ w.found = NoView.found
      BY <2>1, NoViewType DEF View
    <3> QED
      BY <2>2, <3>1 DEF NoView
  <2>4. /\ view' = [view EXCEPT ![p] = w] /\ pc' = [pc EXCEPT ![p] = "opened"]
        /\ UNCHANGED <<attempts, internal, op, worker, turns>>
    BY <1>1 DEF Open
  <2> HIDE DEF w
  <2> QED
    BY <1>p, <2>3, <2>4, ReadsOn
<1>2. CASE ReadReceipt(p)
  <2> DEFINE x == RequestOf(p)
             w == [view[p] EXCEPT !.got = op[x]]
  <2>0. /\ pc[p] = "opened" /\ pc[p] \in Checking
        /\ UNCHANGED <<attempts, internal, op, worker, turns>>
    BY <1>2 DEF ReadReceipt, Checking
  <2>1. x \in Requests /\ op[x] \in Receipt
    BY <1>p, <2>0, RequestType DEF Core, TypeOK
  <2>2. CASE Settling(op[x]) /\ view' = [view EXCEPT ![p] = w] /\ pc' = [pc EXCEPT ![p] = "writing"]
    <3>1. w \in View /\ w.event = view[p].event /\ w.no = view[p].no /\ w.got = op[x]
          /\ w.found = view[p].found
      BY <1>p, <2>1 DEF View
    <3>2. ~view[p].found
      BY <1>p, <2>0 DEF Core, ReadingsTrue
    <3>3. Classify(op[x]).state = "dispatched" => x \in turns
      BY <2>1, ClassifyAnswers DEF Core, LedgerTruthful
    <3>4. Classify(op[x]).retrySafe =>
            op[x].status = "failed" /\ x \notin turns /\ worker[x] = NoProc /\ ~OnTheWire(x)
      BY <2>1, RetrySafeRow DEF Core
    <3>5. op[x].status = "failed" => \A s \in Senders : pc[s] = "calling" => RequestOf(s) # x
      BY DEF Core, CallingUntouched, NoReceipt
    <3> HIDE DEF w, x
    <3>6. /\ Classify(w.got).state = "dispatched" => x \in turns
          /\ Classify(w.got).retrySafe =>
               /\ x \notin turns /\ worker[x] = NoProc /\ ~OnTheWire(x)
               /\ \A s \in Senders : s # p /\ pc[s] = "calling" => RequestOf(s) # x
      BY <3>1, <3>3, <3>4, <3>5
    <3> QED
      BY <1>p, <2>0, <2>2, <3>1, <3>2, <3>6, Learns DEF x
  <2>3. CASE view' = view /\ pc' = [pc EXCEPT ![p] = "scanning"]
    <3>1. view' = [view EXCEPT ![p] = view[p]]
      BY <2>3 DEF Core, TypeOK
    <3>2. view[p].no \in 1..attempts[view[p].event] /\ view[p].got = NoReceipt /\ ~view[p].found
      BY <1>p, <2>0 DEF Core, ReadingsTrue, WorksOnOpened
    <3> QED
      BY <1>p, <2>0, <2>3, <3>1, <3>2, ReadsOn
  <2> QED
    BY <1>2, <2>2, <2>3 DEF ReadReceipt
<1>3. CASE Scan(p)
  <2> PICK found \in BOOLEAN : /\ found => RequestOf(p) \in turns
                               /\ view' = [view EXCEPT ![p].found = found]
    BY <1>3 DEF Scan
  <2> DEFINE w == [view[p] EXCEPT !.found = found]
  <2>1. w \in View /\ w.event = view[p].event /\ w.no = view[p].no /\ w.got = view[p].got
        /\ w.found = found
    BY <1>p DEF View
  <2>2. /\ pc[p] = "scanning" /\ pc[p] \in Checking
        /\ view' = [view EXCEPT ![p] = w] /\ pc' = [pc EXCEPT ![p] = "writing"]
        /\ UNCHANGED <<attempts, internal, op, worker, turns>>
    BY <1>3 DEF Scan, Checking
  <2>3. view[p].got = NoReceipt
    BY <1>p, <2>2 DEF Core, ReadingsTrue
  <2>4. Classify(w.got).state # "dispatched" /\ ~Classify(w.got).retrySafe
    BY <2>1, <2>3, NoReceiptSettlesNothing DEF Settling
  <2> HIDE DEF w
  <2> QED
    BY <1>p, <2>1, <2>2, <2>4, Learns
<1>4. CASE Write(p)
  <2>1. RequestOf(p) \in Requests /\ view[p].no <= attempts[view[p].event]
    BY <1>4, <1>p, RequestType, PolicyAssumption
       DEF Core, Write, WorksOnOpened, Checking, TypeOK
  <2>2. \A r \in Requests : internal'[r] = internal[r] \/ r[2] <= attempts[r[1]]
    BY <1>4, <2>1 DEF Write, Core, TypeOK, RequestOf
  <2> QED
    BY <1>4, <1>p, <2>2, Retires DEF Write
<1> QED
  BY <1>1, <1>2, <1>3, <1>4 DEF ReconcilerStep, OpenUnresolved, OpenByHand

LEMMA CoreStep ==
  ASSUME Core, TypeOK', [Next]_vars
  PROVE  Core' /\ DeadStaysDead
<1> USE DEF rowVars, tryVars, rateVars, envVars, hostVars, procVars, Goto
<1>1. ASSUME UNCHANGED <<attempts, internal, hostVars, procVars>> PROVE Core' /\ DeadStaysDead
  <2>1. \A q \in Procs : RequestOf(q)' = RequestOf(q)
    BY <1>1 DEF RequestOf
  <2>2. \A r \in Requests : Dead(r) => Dead(r)'
    BY <1>1, <2>1 DEF Dead, OnTheWire, Procs
  <2>3. FreshUntouched' /\ WorksOnOpened' /\ OneCaller' /\ CallingUntouched' /\ LedgerTruthful'
    BY <1>1, <2>1
       DEF Core, FreshUntouched, WorksOnOpened, OneCaller, CallingUntouched, LedgerTruthful, Procs
  <2>4. ReadingsTrue'
    <3> SUFFICES ASSUME NEW q \in Procs
                 PROVE  ReadingsTrue!(q)'
      BY DEF ReadingsTrue
    <3> QED
      BY <1>1, <2>1, <2>2, RequestType DEF Core, ReadingsTrue, Sending, Checking
  <2> QED
    BY <2>2, <2>3, <2>4 DEF Core, DeadStaysDead
<1>2. CASE Environment
  <2>1. UNCHANGED <<attempts, internal, hostVars, procVars>>
    BY <1>2 DEF Environment, Enqueue, AcceptSuccessor, AnnotatePredecessor, Acknowledge,
                BackoffEnds, ReleaseExpiredLease, AdvanceGeneration, SetStatus, IntervalEnds,
                HourEnds
  <2> QED
    BY <1>1, <2>1
<1>3. ASSUME NEW s \in Senders, SenderStep(s) PROVE Core' /\ DeadStaysDead
  BY <1>3, SenderCore
<1>4. ASSUME NEW r \in Requests, WorkerStep(r) PROVE Core' /\ DeadStaysDead
  BY <1>4, WorkerCore
<1>5. ASSUME NEW p \in Reconcilers \cup Operators, ReconcilerStep(p) PROVE Core' /\ DeadStaysDead
  BY <1>5, ReconcilerCore
<1>6. ASSUME NEW p \in Procs, Crash(p) PROVE Core' /\ DeadStaysDead
  <2>1. \A r \in Requests : worker'[r] \in {worker[r], NoProc}
    BY <1>6 DEF Crash
  <2> QED
    BY <1>6, <2>1, Retires DEF Crash
<1>7. CASE UNCHANGED vars
  BY <1>1, <1>7 DEF vars
<1> QED
  BY <1>2, <1>3, <1>4, <1>5, <1>6, <1>7 DEF Next

-----------------------------------------------------------------------------
(***************************************************************************)
(* The part about delivery rows, row by row.                               *)
(***************************************************************************)
Reached == {"dispatched", "inbox_only", "acknowledged"}

Row(e) ==
  /\ e \notin overtaken => \A n \in 1..AttemptBound :
       n < attempts[e] \/ (n = attempts[e] /\ dstate[e] \in Claimable) => Dead(<<e, n>>)
  /\ dstate[e] = "absent" => attempts[e] = 0
  /\ e \notin overtaken /\ dstate[e] \in Reached =>
       attempts[e] # 0 /\ internal[<<e, attempts[e]>>] = "settled"
  /\ dstate[e] = "dispatched" => turnId[e] # 0 /\ <<e, turnId[e]>> \in turns

LEMMA RowByRow ==
  /\ IInv <=> Core /\ \A e \in Events : Row(e)
  /\ IInv' <=> Core' /\ \A e \in Events : Row(e)'
BY DEF IInv, Core, Row, Reached, DeadBehind, AbsentUnattempted, ReachedIsSettled, DispatchHasTurn

\* What a step may do to a row whose attempt count it leaves alone.
RowStep(e) ==
  /\ attempts'[e] = attempts[e]
  /\ turns \subseteq turns' /\ overtaken \subseteq overtaken'
  /\ \A n \in 1..AttemptBound :
       internal'[<<e, n>>] \in {internal[<<e, n>>], "settled"}
  /\ dstate'[e] \in Claimable /\ e \notin overtaken' =>
       \/ dstate[e] \in Claimable \/ attempts[e] = 0 \/ Dead(<<e, attempts[e]>>)
  /\ dstate'[e] = "absent" => dstate[e] = "absent"
  /\ dstate'[e] \in Reached /\ e \notin overtaken' =>
       \/ dstate[e] \in Reached
       \/ attempts[e] # 0 /\ internal'[<<e, attempts[e]>>] = "settled"
  /\ dstate'[e] = "dispatched" =>
       \/ dstate[e] = "dispatched" /\ turnId'[e] = turnId[e]
       \/ turnId'[e] # 0 /\ <<e, turnId'[e]>> \in turns

LEMMA RowMoves ==
  ASSUME TypeOK, DeadStaysDead, NEW e \in Events, Row(e), RowStep(e)
  PROVE  Row(e)'
<1>1. attempts[e] \in 0..AttemptBound /\ attempts'[e] = attempts[e]
  BY DEF TypeOK, RowStep
<1>2. ASSUME e \notin overtaken', NEW n \in 1..AttemptBound,
             n < attempts'[e] \/ (n = attempts'[e] /\ dstate'[e] \in Claimable)
      PROVE  Dead(<<e, n>>)'
  <2>1. Dead(<<e, n>>)
    BY <1>1, <1>2, PolicyAssumption DEF Row, RowStep
  <2>2. <<e, n>> \in Requests /\ n <= attempts[e]
    BY <1>1, <1>2, PolicyAssumption DEF Requests
  <2> QED
    BY <2>1, <2>2 DEF DeadStaysDead
<1>3. dstate'[e] = "absent" => attempts'[e] = 0
  BY <1>1 DEF Row, RowStep
<1>4. ASSUME e \notin overtaken', dstate'[e] \in Reached
      PROVE  attempts'[e] # 0 /\ internal'[<<e, attempts'[e]>>] = "settled"
  <2>1. attempts[e] # 0 => attempts[e] \in 1..AttemptBound
    BY <1>1, PolicyAssumption
  <2> QED
    BY <1>1, <1>4, <2>1 DEF Row, RowStep
<1>5. dstate'[e] = "dispatched" => turnId'[e] # 0 /\ <<e, turnId'[e]>> \in turns'
  BY DEF Row, RowStep
<1> QED
  BY <1>2, <1>3, <1>4, <1>5 DEF Row

LEMMA RowsAlone ==
  ASSUME TypeOK, DeadStaysDead, \A e \in Events : Row(e),
         UNCHANGED <<dstate, attempts, turnId, internal, overtaken>>, turns \subseteq turns'
  PROVE  \A e \in Events : Row(e)'
<1> SUFFICES ASSUME NEW e \in Events PROVE RowStep(e)
  BY RowMoves
<1> QED
  BY DEF RowStep, Row

LEMMA EnvironmentRows ==
  ASSUME IInv, DeadStaysDead, Environment
  PROVE  \A e \in Events : Row(e)'
<1> USE DEF rowVars, tryVars, rateVars, envVars, hostVars, procVars
<1>1. TypeOK /\ \A e \in Events : Row(e)
  BY RowByRow DEF Core
<1>2. UNCHANGED <<attempts, turnId, internal, turns, overtaken>>
  BY DEF Environment, Enqueue, AcceptSuccessor, AnnotatePredecessor, Acknowledge, BackoffEnds,
         ReleaseExpiredLease, AdvanceGeneration, SetStatus, IntervalEnds, HourEnds
<1> SUFFICES ASSUME NEW e \in Events PROVE RowStep(e)
  BY <1>1, RowMoves
<1>3. \/ dstate'[e] = dstate[e]
      \/ dstate[e] = "absent" /\ dstate'[e] = "queued"
      \/ dstate[e] \in Reached /\ dstate'[e] = "acknowledged"
      \/ dstate'[e] = "held_uncertain"
  BY <1>1 DEF Environment, Enqueue, AcceptSuccessor, AnnotatePredecessor, Acknowledge, BackoffEnds,
              ReleaseExpiredLease, AdvanceGeneration, SetStatus, IntervalEnds, HourEnds, TypeOK,
              Reached
<1> QED
  BY <1>1, <1>2, <1>3 DEF RowStep, Row, Claimable, Reached

\* A sender's guarded write leaves a row that was claimable claimable, or takes it out of reach.
LEMMA GuardedRows ==
  ASSUME IInv, DeadStaysDead, NEW s \in Senders,
         Reschedule(s) \/ DeferBusy(s) \/ Withhold(s) \/ Suppress(s)
  PROVE  \A e \in Events : Row(e)'
<1> USE DEF rowVars, tryVars, rateVars, envVars, hostVars, procVars
<1>1. TypeOK /\ \A e \in Events : Row(e)
  BY RowByRow DEF Core
<1>2. s \in Procs /\ view[s].event \in Events
  BY <1>1 DEF TypeOK, Procs, View
<1>3. pc[s] = "looked" => view[s].state \in Claimable
  BY <1>2 DEF IInv, ReadingsTrue
<1>4. UNCHANGED <<attempts, turnId, internal, turns, overtaken>>
  BY DEF Reschedule, DeferBusy, Withhold, Suppress, PutOff
<1> SUFFICES ASSUME NEW e \in Events PROVE RowStep(e)
  BY <1>1, RowMoves
<1>5. \/ dstate'[e] = dstate[e]
      \/ dstate[e] \in Claimable /\ dstate'[e] \in Claimable \cup {"superseded"}
  BY <1>1, <1>2, <1>3
     DEF Reschedule, DeferBusy, Withhold, Suppress, PutOff, Unmoved, TypeOK, Claimable
<1> QED
  BY <1>1, <1>4, <1>5 DEF RowStep, Row, Claimable, Reached

\* A claim starts from a claimable row, so every attempt up to its own is dead.
LEMMA ClaimRows ==
  ASSUME IInv, DeadStaysDead, NEW s \in Senders, Claim(s)
  PROVE  \A e \in Events : Row(e)'
<1> DEFINE x == view[s].event
<1>1. TypeOK /\ \A e \in Events : Row(e)
  BY RowByRow DEF Core
<1>2. /\ x \in Events /\ attempts[x] \in Nat
      /\ dstate[x] \in Claimable
      /\ dstate' = [dstate EXCEPT ![x] = "sending"]
      /\ attempts' = [attempts EXCEPT ![x] = attempts[x] + 1]
      /\ internal' = [internal EXCEPT ![<<x, attempts[x] + 1>>] = "in_flight"]
      /\ UNCHANGED <<turnId, turns, overtaken>>
  BY <1>1, PolicyAssumption DEF Claim, CanClaim, InsertAttempt, hostVars, TypeOK, Procs, View
<1> SUFFICES ASSUME NEW e \in Events PROVE Row(e)'
  OBVIOUS
<1>3. CASE e # x
  <2>1. \A n \in 1..AttemptBound : internal'[<<e, n>>] = internal[<<e, n>>]
    BY <1>1, <1>2, <1>3 DEF TypeOK, Requests
  <2>2. dstate'[e] = dstate[e] /\ attempts'[e] = attempts[e] /\ turnId'[e] = turnId[e]
    BY <1>1, <1>2, <1>3 DEF TypeOK
  <2>3. RowStep(e)
    BY <1>1, <1>2, <2>1, <2>2 DEF RowStep, Row
  <2> QED
    BY <1>1, <2>3, RowMoves
<1>4. CASE e = x
  <2>1. dstate'[e] = "sending" /\ attempts'[e] = attempts[e] + 1
    BY <1>1, <1>2, <1>4 DEF TypeOK
  <2>2. ASSUME e \notin overtaken, NEW n \in 1..AttemptBound, n < attempts'[e]
        PROVE  Dead(<<e, n>>)'
    <3>1. n <= attempts[e]
      BY <1>2, <1>4, <2>1, <2>2
    <3>2. n < attempts[e] \/ (n = attempts[e] /\ dstate[e] \in Claimable)
      BY <1>2, <1>4, <3>1
    <3>3. Dead(<<e, n>>)
      BY <1>1, <2>2, <3>2 DEF Row
    <3>4. <<e, n>> \in Requests
      BY DEF Requests
    <3> QED
      BY <3>1, <3>3, <3>4 DEF DeadStaysDead
  <2>3. dstate'[e] \notin Claimable \cup Reached \cup {"absent", "dispatched"}
    BY <2>1 DEF Claimable, Reached
  <2>4. overtaken' = overtaken
    BY <1>2
  <2> QED
    BY <2>2, <2>3, <2>4 DEF Row
<1> QED
  BY <1>3, <1>4

\* A settlement writes what was true of its own request; one that is not overtaken also writes
\* the row of that request.
LEMMA SettleRows ==
  ASSUME IInv, DeadStaysDead, NEW s \in Senders, Settle(s)
  PROVE  \A e \in Events : Row(e)'
<1> DEFINE x == view[s].event
           n == view[s].no
           f == Classify(view[s].got)
<1>1. TypeOK /\ \A e \in Events : Row(e)
  BY RowByRow DEF Core
<1>2. /\ s \in Procs /\ x \in Events /\ n \in 1..AttemptBound /\ n # 0
      /\ view[s].got \in Receipt /\ pc[s] = "returned"
  BY <1>1, PolicyAssumption DEF Settle, TypeOK, Procs, View, Sending
<1>3. /\ f.state = "dispatched" => <<x, n>> \in turns
      /\ f.state \in Claimable => Dead(<<x, n>>)
      /\ f.state # "absent"
  BY <1>2, ClassifyAnswers, ClassifyType
     DEF IInv, ReadingsTrue, RequestOf, Claimable, Outcomes
<1>4. /\ dstate' = [dstate EXCEPT ![x] = f.state]
      /\ turnId' = [turnId EXCEPT ![x] = IF f.state = "dispatched" THEN n ELSE 0]
      /\ internal' = [internal EXCEPT ![<<x, n>>] = "settled"]
      /\ overtaken \subseteq overtaken'
      /\ x \notin overtaken' => attempts[x] = n
      /\ UNCHANGED <<attempts, turns>>
  BY DEF Settle, hostVars
<1> HIDE DEF x, n, f
<1> SUFFICES ASSUME NEW e \in Events PROVE RowStep(e)
  BY <1>1, RowMoves
<1>5. \A m \in 1..AttemptBound : internal'[<<e, m>>] \in {internal[<<e, m>>], "settled"}
  BY <1>1, <1>2, <1>4 DEF TypeOK, Requests
<1>6. CASE e # x
  <2>1. dstate'[e] = dstate[e] /\ turnId'[e] = turnId[e]
    BY <1>1, <1>4, <1>6 DEF TypeOK
  <2> QED
    BY <1>1, <1>4, <1>5, <2>1 DEF RowStep, Row
<1>7. CASE e = x
  <2>1. /\ dstate'[e] = f.state
        /\ turnId'[e] = IF f.state = "dispatched" THEN n ELSE 0
        /\ internal'[<<e, n>>] = "settled"
    BY <1>1, <1>2, <1>4, <1>7 DEF TypeOK, Requests
  <2> QED
    BY <1>2, <1>3, <1>4, <1>5, <1>7, <2>1 DEF RowStep
<1> QED
  BY <1>6, <1>7

\* What a reconciler concludes is true of the request it opened.
LEMMA VerdictTrue ==
  ASSUME IInv, NEW p \in Procs, pc[p] = "writing"
  PROVE  /\ Verdict(p).state = "dispatched" =>
              Verdict(p).turn = view[p].no /\ RequestOf(p) \in turns
         /\ Verdict(p).state \in Claimable => Dead(RequestOf(p))
         /\ Verdict(p).state # "absent"
<1> DEFINE f == Classify(view[p].got)
<1>1. view[p].got \in Receipt
  BY DEF IInv, TypeOK, View
<1>2. /\ f.state \in Outcomes /\ f.retrySafe \in BOOLEAN
      /\ f.retrySafe <=> f.state \in {"deferred_busy", "withheld_pre_send"}
      /\ f.state = "dispatched" => RequestOf(p) \in turns
      /\ f.retrySafe => Dead(RequestOf(p))
      /\ view[p].found => RequestOf(p) \in turns
  BY <1>1, ClassifyType, ClassifyAnswers DEF IInv, ReadingsTrue
<1>3. CASE Settling(view[p].got)
  <2>1. /\ Verdict(p).state = f.state
        /\ Verdict(p).turn = IF f.state = "dispatched" THEN view[p].no ELSE 0
    BY <1>3 DEF Verdict
  <2> QED
    BY <1>2, <2>1 DEF Claimable, Outcomes
<1>4. CASE ~Settling(view[p].got) /\ view[p].found
  <2>1. Verdict(p).state = "dispatched" /\ Verdict(p).turn = view[p].no
    BY <1>4 DEF Verdict
  <2> QED
    BY <1>2, <1>4, <2>1 DEF Claimable
<1>5. CASE ~Settling(view[p].got) /\ ~view[p].found
  <2>1. Verdict(p).state = "held_uncertain"
    BY <1>5 DEF Verdict
  <2> QED
    BY <2>1 DEF Claimable
<1> QED
  BY <1>3, <1>4, <1>5

LEMMA WriteRows ==
  ASSUME IInv, DeadStaysDead, NEW p \in Reconcilers \cup Operators, Write(p)
  PROVE  \A e \in Events : Row(e)'
<1> DEFINE x == view[p].event
           n == view[p].no
           w == Verdict(p)
<1>1. TypeOK /\ \A e \in Events : Row(e)
  BY RowByRow DEF Core
<1>2. /\ p \in Procs /\ x \in Events /\ n \in 1..AttemptBound /\ n # 0 /\ pc[p] = "writing"
  BY <1>1, PolicyAssumption DEF Write, TypeOK, Procs, View, Checking
<1>3. /\ w.state = "dispatched" => w.turn = n /\ <<x, n>> \in turns
      /\ w.state \in Claimable => Dead(<<x, n>>)
      /\ w.state # "absent"
  BY <1>2, VerdictTrue DEF RequestOf
<1>4. /\ internal' = [internal EXCEPT ![<<x, n>>] = "settled"]
      /\ UNCHANGED <<attempts, turns, overtaken>>
      /\ \/ UNCHANGED <<dstate, turnId>>
         \/ /\ attempts[x] = n
            /\ dstate' = [dstate EXCEPT ![x] = w.state]
            /\ turnId' = [turnId EXCEPT ![x] = IF w.turn # 0 THEN w.turn ELSE turnId[x]]
  BY DEF Write, Moves, Current, RequestOf, hostVars
<1> HIDE DEF x, n, w
<1> SUFFICES ASSUME NEW e \in Events PROVE RowStep(e)
  BY <1>1, RowMoves
<1>5. \A m \in 1..AttemptBound : internal'[<<e, m>>] \in {internal[<<e, m>>], "settled"}
  BY <1>1, <1>2, <1>4 DEF TypeOK, Requests
<1>6. CASE dstate'[e] = dstate[e] /\ turnId'[e] = turnId[e]
  BY <1>1, <1>4, <1>5, <1>6 DEF RowStep, Row
<1>7. CASE /\ e = x /\ attempts[x] = n
           /\ dstate' = [dstate EXCEPT ![x] = w.state]
           /\ turnId' = [turnId EXCEPT ![x] = IF w.turn # 0 THEN w.turn ELSE turnId[x]]
  <2>1. /\ dstate'[e] = w.state
        /\ turnId'[e] = IF w.turn # 0 THEN w.turn ELSE turnId[x]
        /\ internal'[<<e, n>>] = "settled"
    BY <1>1, <1>2, <1>4, <1>7 DEF TypeOK, Requests
  <2> QED
    BY <1>2, <1>3, <1>4, <1>5, <1>7, <2>1 DEF RowStep
<1> QED
  BY <1>1, <1>4, <1>6, <1>7 DEF TypeOK

LEMMA NextKeepsIInv == IInv /\ [Next]_vars => IInv'
<1> SUFFICES ASSUME IInv, [Next]_vars PROVE IInv'
  OBVIOUS
<1> USE DEF rowVars, tryVars, hostVars, procVars
<1>1. Core /\ TypeOK /\ \A e \in Events : Row(e)
  BY RowByRow DEF Core
<1>2. Core' /\ DeadStaysDead
  BY <1>1, NextTypes, CoreStep
<1> SUFFICES \A e \in Events : Row(e)'
  BY <1>2, RowByRow
<1>3. ASSUME UNCHANGED <<dstate, attempts, turnId, internal, overtaken>>, turns \subseteq turns'
      PROVE  \A e \in Events : Row(e)'
  BY <1>1, <1>2, <1>3, RowsAlone
<1>4. CASE Environment
  BY <1>2, <1>4, EnvironmentRows
<1>5. ASSUME NEW s \in Senders, SenderStep(s) PROVE \A e \in Events : Row(e)'
  <2>1. CASE Reschedule(s) \/ DeferBusy(s) \/ Withhold(s) \/ Suppress(s)
    BY <1>2, <2>1, GuardedRows
  <2>2. CASE Claim(s)
    BY <1>2, <2>2, ClaimRows
  <2>3. CASE Settle(s)
    BY <1>2, <2>3, SettleRows
  <2>4. CASE \/ (\E e \in Events : Look(s, e)) \/ WithinRate(s) \/ ClearToSend(s)
             \/ NotClaimable(s) \/ Submit(s) \/ LockedOut(s) \/ Answered(s) \/ GiveUp(s)
    BY <1>3, <2>4 DEF Look, WithinRate, ClearToSend, NotClaimable, Submit, LockedOut, Answered,
                      GiveUp, Receive
  <2> QED
    BY <1>5, <2>1, <2>2, <2>3, <2>4 DEF SenderStep
<1>6. ASSUME NEW r \in Requests, WorkerStep(r) PROVE \A e \in Events : Row(e)'
  BY <1>3, <1>6 DEF WorkerStep, WorkerExpires, WorkerBegins, WorkerResumes, HostStartsTurn,
                    WorkerSaves, ledgerOnly
<1>7. ASSUME NEW p \in Reconcilers \cup Operators, ReconcilerStep(p)
      PROVE  \A e \in Events : Row(e)'
  <2>1. CASE Write(p)
    BY <1>2, <2>1, WriteRows
  <2>2. CASE (\E r \in Requests : Open(p, r)) \/ ReadReceipt(p) \/ Scan(p)
    BY <1>3, <2>2 DEF Open, ReadReceipt, Scan
  <2> QED
    BY <1>7, <2>1, <2>2 DEF ReconcilerStep, OpenUnresolved, OpenByHand
<1>8. ASSUME NEW p \in Procs, Crash(p) PROVE \A e \in Events : Row(e)'
  BY <1>3, <1>8 DEF Crash
<1>9. CASE UNCHANGED vars
  BY <1>3, <1>9 DEF vars
<1> QED
  BY <1>4, <1>5, <1>6, <1>7, <1>8, <1>9 DEF Next

LEMMA InitIInv == Init => IInv
<1> SUFFICES ASSUME Init PROVE IInv
  OBVIOUS
<1>1. TypeOK
  BY InitTypes
<1>2. /\ \A r \in Requests : op[r] = NoReceipt /\ worker[r] = NoProc /\ internal[r] = "none"
      /\ turns = {} /\ \A p \in Procs : pc[p] = "idle"
      /\ \A e \in Events : attempts[e] = 0 /\ dstate[e] = "absent"
  BY DEF Init
<1>3. FreshUntouched
  BY <1>2 DEF FreshUntouched
<1>4. WorksOnOpened /\ OneCaller /\ CallingUntouched /\ ReadingsTrue
  BY <1>2 DEF WorksOnOpened, OneCaller, CallingUntouched, ReadingsTrue, Sending, Checking, Procs
<1>5. LedgerTruthful
  BY <1>2 DEF LedgerTruthful, NoReceipt
<1>6. ASSUME NEW e \in Events PROVE Row(e)
  BY <1>2, PolicyAssumption DEF Row, Claimable, Reached
<1> QED
  BY <1>1, <1>3, <1>4, <1>5, <1>6, RowByRow DEF Core

-----------------------------------------------------------------------------
(***************************************************************************)
(* The properties.                                                         *)
(***************************************************************************)
\* In every reachable state of any number of senders, reconcilers, operators and workers, a
\* request that may be retried is dead and stays dead.
THEOREM Inductive == Spec => []IInv
<1>1. Init => IInv
  BY InitIInv
<1>2. IInv /\ [Next]_vars => IInv'
  BY NextKeepsIInv
<1> QED
  BY <1>1, <1>2, PTL DEF Spec

\* However many senders, reconcilers and operators work beside each other, an event of which no
\* sender settled an attempt behind another process's back is carried by one turn at most.
THEOREM OneTurn == Spec => []OneTurnUnlessOvertaken
<1>1. IInv => OneTurnUnlessOvertaken
  <2> SUFFICES ASSUME IInv, NEW e \in Events \ overtaken, NEW m \in TurnsOf(e),
                      NEW n \in TurnsOf(e), m < n
               PROVE  FALSE
    BY PolicyAssumption DEF OneTurnUnlessOvertaken, TurnsOf
  <2>1. /\ m \in 1..AttemptBound /\ n \in 1..AttemptBound
        /\ <<e, m>> \in turns /\ <<e, n>> \in turns
    BY DEF TurnsOf
  <2>2. <<e, n>> \in Requests /\ <<e, n>>[1] = e /\ <<e, n>>[2] = n
    BY <2>1 DEF Requests
  <2>3. ~(n > attempts[e])
    BY <2>1, <2>2 DEF IInv, FreshUntouched
  <2>4. m < attempts[e]
    BY <2>1, <2>3, PolicyAssumption DEF IInv, TypeOK
  <2> QED
    BY <2>1, <2>4 DEF IInv, DeadBehind, Dead
<1> QED
  BY <1>1, Inductive, PTL

\* Whichever route promoted it, a delivery that says "dispatched" names a turn the recipient
\* really has for this event.
THEOREM DispatchedHasItsTurn == Spec => []DispatchHasTurn
<1>1. IInv => DispatchHasTurn
  BY DEF IInv
<1> QED
  BY <1>1, Inductive, PTL

\* A ledger row that says "retry safe" belongs to a request that started nothing and never will.
THEOREM RetrySafeReceipts == Spec => []RetrySafeStartedNothing
<1>1. IInv => RetrySafeStartedNothing
  <2> SUFFICES ASSUME IInv, NEW r \in Requests, Classify(op[r]).retrySafe
               PROVE  Dead(r)
    BY DEF RetrySafeStartedNothing
  <2>2. op[r].status = "failed" /\ r \notin turns /\ worker[r] = NoProc /\ ~OnTheWire(r)
    BY RetrySafeRow DEF IInv
  <2>4. \A s \in Senders : pc[s] = "calling" => RequestOf(s) # r
    BY <2>2 DEF IInv, CallingUntouched, NoReceipt
  <2> QED
    BY <2>2, <2>4 DEF Dead
<1> QED
  BY <1>1, Inductive, PTL

\* What a sender is told is retry safe is so, the answers without a ledger row included.
THEOREM RetrySafeAnswers == Spec => []RetrySafeAnswerIsTrue
<1>1. IInv => RetrySafeAnswerIsTrue
  BY DEF IInv, ReadingsTrue, RetrySafeAnswerIsTrue, Procs
<1> QED
  BY <1>1, Inductive, PTL

\* A new attempt is only ever opened over attempts that started nothing and never will.
THEOREM RetryOverDead == Spec => RetryOnlyOverDeadAttempts
<1> DEFINE Opens == \A e \in Events \ overtaken : attempts'[e] > attempts[e] =>
                      \A n \in 1..attempts[e] : Dead(<<e, n>>)
<1>1. IInv /\ [Next]_vars => [Opens]_vars
  <2> SUFFICES ASSUME IInv, [Next]_vars, NEW e \in Events \ overtaken,
                      attempts'[e] > attempts[e], NEW n \in 1..attempts[e]
               PROVE  Dead(<<e, n>>)
    OBVIOUS
  <2>1. attempts[e] \in 0..AttemptBound
    BY DEF IInv, TypeOK
  <2>2. UNCHANGED attempts \/ \E s \in Senders : Claim(s)
    BY DEF Next, Environment, SenderStep, WorkerStep, ReconcilerStep, Enqueue, AcceptSuccessor,
       AnnotatePredecessor, Acknowledge, BackoffEnds, ReleaseExpiredLease, AdvanceGeneration,
       SetStatus, IntervalEnds, HourEnds, Look, Reschedule, WithinRate, DeferBusy, Withhold,
       ClearToSend, Suppress, NotClaimable, Submit, LockedOut, Answered, GiveUp, Settle, PutOff,
       Receive, WorkerExpires, WorkerBegins, WorkerResumes, HostStartsTurn, WorkerSaves,
       ledgerOnly, OpenUnresolved, OpenByHand, Open, ReadReceipt, Scan, Write, Crash, vars, rowVars
  <2>3. PICK s \in Senders : Claim(s)
    BY <2>1, <2>2
  <2>4. view[s].event \in Events /\ dstate[view[s].event] \in Claimable
        /\ attempts' = [attempts EXCEPT ![view[s].event] = attempts[view[s].event] + 1]
    BY <2>3 DEF Claim, CanClaim, IInv, TypeOK, View, Procs
  <2>5. e = view[s].event
    BY <2>1, <2>4 DEF IInv, TypeOK
  <2>6. n \in 1..AttemptBound /\ (n < attempts[e] \/ n = attempts[e])
    BY <2>1, PolicyAssumption
  <2> QED
    BY <2>4, <2>5, <2>6 DEF IInv, DeadBehind
<1> QED
  BY <1>1, Inductive, PTL DEF Spec, RetryOnlyOverDeadAttempts

\* What the records say of sends is so: the three results above, and the cap.
THEOREM SendsSound == Spec => SendsAreSound
<1>1. TypeOK => sends <= MaxSends
  BY PolicyAssumption DEF TypeOK
<1> QED
  BY <1>1, TypeCorrect, DispatchedHasItsTurn, RetrySafeAnswers, RetryOverDead, PTL DEF SendsAreSound

\* A delivery that reached a turn or was acknowledged stays so, unless a sender settles an attempt
\* another process had settled or retried before it.
THEOREM NotDraggedBack == Spec => DispatchNotDraggedBackUnlessOvertaken
<1> DEFINE Final == {"dispatched", "acknowledged"}
           Kept == \A e \in Events : dstate[e] \in Final => dstate'[e] \in Final \/ e \in overtaken'
<1>1. IInv /\ [Next]_vars => [Kept]_vars
  <2> SUFFICES ASSUME IInv, [Next]_vars, NEW e \in Events, dstate[e] \in Final, e \notin overtaken'
               PROVE  dstate'[e] \in Final
    OBVIOUS
  <2> USE DEF rowVars, tryVars, rateVars, envVars, hostVars, procVars
  <2>1. TypeOK /\ dstate[e] \notin Claimable \cup {"absent", "sending", "inbox_only"}
    BY DEF IInv, Claimable
  <2>2. CASE Environment
    BY <2>1, <2>2 DEF Environment, Enqueue, AcceptSuccessor, AnnotatePredecessor, Acknowledge,
                      BackoffEnds, ReleaseExpiredLease, AdvanceGeneration, SetStatus,
                      IntervalEnds, HourEnds, TypeOK
  <2>3. ASSUME NEW s \in Senders, SenderStep(s) PROVE dstate'[e] \in Final
    <3>0. s \in Procs /\ view[s].event \in Events
      BY <2>1 DEF TypeOK, View, Procs
    <3>1. CASE Reschedule(s) \/ DeferBusy(s) \/ Withhold(s) \/ Suppress(s) \/ Claim(s)
      BY <2>1, <3>0, <3>1 DEF Reschedule, DeferBusy, Withhold, PutOff, Unmoved, Suppress, Claim,
                              CanClaim, TypeOK
    <3>2. CASE Settle(s)
      <4>1. view[s].event = e =>
              internal[<<e, view[s].no>>] = "in_flight" /\ attempts[e] = view[s].no
        BY <2>1, <3>2 DEF Settle, TypeOK
      <4>2. e \notin overtaken
        BY <3>2 DEF Settle
      <4>3. view[s].event # e
        BY <2>1, <4>1, <4>2 DEF IInv, ReachedIsSettled
      <4> QED
        BY <2>1, <3>2, <4>3 DEF Settle, TypeOK
    <3>3. CASE \/ (\E f \in Events : Look(s, f)) \/ WithinRate(s) \/ ClearToSend(s)
               \/ NotClaimable(s) \/ Submit(s) \/ LockedOut(s) \/ Answered(s) \/ GiveUp(s)
      BY <3>3 DEF Look, WithinRate, ClearToSend, NotClaimable, Submit, LockedOut, Answered,
                  GiveUp, Receive
    <3> QED
      BY <2>3, <3>1, <3>2, <3>3 DEF SenderStep
  <2>4. ASSUME NEW r \in Requests, WorkerStep(r) PROVE dstate'[e] \in Final
    BY <2>4 DEF WorkerStep, WorkerExpires, WorkerBegins, WorkerResumes, HostStartsTurn,
                WorkerSaves, ledgerOnly
  <2>5. ASSUME NEW p \in Reconcilers \cup Operators, ReconcilerStep(p)
        PROVE  dstate'[e] \in Final
    <3>1. CASE Write(p)
      BY <2>1, <3>1 DEF Write, Moves, Current, RequestOf, TypeOK
    <3>2. CASE (\E r \in Requests : Open(p, r)) \/ ReadReceipt(p) \/ Scan(p)
      BY <3>2 DEF Open, ReadReceipt, Scan
    <3> QED
      BY <2>5, <3>1, <3>2 DEF ReconcilerStep, OpenUnresolved, OpenByHand
  <2>6. ASSUME NEW p \in Procs, Crash(p) PROVE dstate'[e] \in Final
    BY <2>6 DEF Crash
  <2>7. CASE UNCHANGED vars
    BY <2>7 DEF vars
  <2> QED
    BY <2>2, <2>3, <2>4, <2>5, <2>6, <2>7 DEF Next
<1> QED
  BY <1>1, Inductive, PTL DEF Spec, DispatchNotDraggedBackUnlessOvertaken

-----------------------------------------------------------------------------
(***************************************************************************)
(* Delivery implements Handoff, for any events, processes, policy and      *)
(* bound: whatever sends, reconciles and dies beside each other, as long   *)
(* as no sender settles an attempt that another process settled before it; *)
(* and with one daemon none does.                                          *)
(***************************************************************************)

NothingOvertaken == overtaken = {}

(***************************************************************************)
(* The strengthening: an event that was withdrawn, left in the inbox or    *)
(* closed without a turn is not going to get one, a turn is reported of    *)
(* dispatched deliveries alone, and a delivery whose attempt is in flight  *)
(* says so.                                                                *)
(***************************************************************************)
Quiet(e) == \A n \in 1..AttemptBound : n <= attempts[e] => Dead(<<e, n>>)

Shut(e) == \/ dstate[e] \in {"superseded", "inbox_only"}
           \/ dstate[e] = "acknowledged" /\ turnId[e] = 0

Mapped(e) ==
  /\ Shut(e) => Quiet(e)
  /\ turnId[e] # 0 => dstate[e] \in {"dispatched", "acknowledged"} /\ <<e, turnId[e]>> \in turns
  /\ attempts[e] # 0 /\ internal[<<e, attempts[e]>>] # "settled" =>
       dstate[e] \in {"sending", "held_uncertain"}

RefusalsTrue ==
  \A s \in Senders : pc[s] = "returned" /\ Classify(view[s].got).state = "inbox_only" =>
    Dead(RequestOf(s))

MInv == IInv /\ NothingOvertaken /\ RefusalsTrue /\ \A e \in Events : Mapped(e)

-----------------------------------------------------------------------------

LEMMA InboxAnswers ==
  ASSUME NEW r \in Receipt, Classify(r).state = "inbox_only"
  PROVE  r.status = "failed" /\ r.code = "approval"
BY DEF Classify, Facts, UnknownOutcome, Unclassified, BusyRefusal, SettingsRefusal,
       ReadRefusal, CodeSettles, ApprovalRefusal

\* Who has an answer had it before, or is answered now.
LEMMA AnswersCome ==
  ASSUME TypeOK, [Next]_vars, NEW s \in Senders, pc'[s] = "returned"
  PROVE  \/ pc[s] = "returned" /\ view'[s] = view[s]
         \/ LockedOut(s) \/ Answered(s) \/ GiveUp(s)
<1> USE DEF TypeOK, procVars, Goto, Procs
<1>1. CASE Environment
  BY <1>1 DEF Environment, Enqueue, AcceptSuccessor, AnnotatePredecessor, Acknowledge,
              BackoffEnds, ReleaseExpiredLease, AdvanceGeneration, SetStatus, IntervalEnds, HourEnds
<1>2. ASSUME NEW t \in Senders, SenderStep(t)
      PROVE  \/ pc[s] = "returned" /\ view'[s] = view[s]
             \/ LockedOut(s) \/ Answered(s) \/ GiveUp(s)
  <2>1. CASE LockedOut(t) \/ Answered(t) \/ GiveUp(t)
    BY <2>1 DEF LockedOut, Answered, GiveUp, Receive
  <2>2. CASE \/ (\E e \in Events : Look(t, e)) \/ WithinRate(t) \/ ClearToSend(t)
             \/ NotClaimable(t) \/ Submit(t) \/ Claim(t) \/ Settle(t)
    BY <2>2 DEF Look, WithinRate, ClearToSend, NotClaimable, Submit, Claim, Settle
  <2>3. CASE Reschedule(t) \/ DeferBusy(t) \/ Withhold(t) \/ Suppress(t)
    BY <2>3 DEF Reschedule, DeferBusy, Withhold, Suppress, PutOff
  <2> QED
    BY <1>2, <2>1, <2>2, <2>3 DEF SenderStep
<1>3. ASSUME NEW r \in Requests, WorkerStep(r) PROVE pc[s] = "returned" /\ view'[s] = view[s]
  BY <1>3 DEF WorkerStep, WorkerExpires, WorkerBegins, WorkerResumes, HostStartsTurn,
              WorkerSaves, ledgerOnly
<1>4. ASSUME NEW p \in Reconcilers \cup Operators, ReconcilerStep(p)
      PROVE  pc[s] = "returned" /\ view'[s] = view[s]
  BY <1>4 DEF ReconcilerStep, OpenUnresolved, OpenByHand, Open, ReadReceipt, Scan, Write
<1>5. ASSUME NEW p \in Procs, Crash(p) PROVE pc[s] = "returned" /\ view'[s] = view[s]
  BY <1>5 DEF Crash
<1>6. CASE UNCHANGED vars
  BY <1>6 DEF vars
<1> QED
  BY <1>1, <1>2, <1>3, <1>4, <1>5, <1>6 DEF Next

\* A recipient's approval demand is an answer of its resume: nothing was started.
LEMMA RefusalsKept ==
  ASSUME IInv, RefusalsTrue, TypeOK', DeadStaysDead, [Next]_vars
  PROVE  RefusalsTrue'
<1> SUFFICES ASSUME NEW s \in Senders, pc'[s] = "returned",
                    Classify(view'[s].got).state = "inbox_only"
             PROVE  Dead(RequestOf(s))'
  BY DEF RefusalsTrue
<1>0. TypeOK /\ s \in Procs /\ view[s] \in View
  BY DEF IInv, TypeOK, Procs
<1>1. CASE pc[s] = "returned" /\ view'[s] = view[s]
  <2>1. RequestOf(s) \in Requests /\ Dead(RequestOf(s)) /\ RequestOf(s)' = RequestOf(s)
    BY <1>0, <1>1, RequestType DEF RefusalsTrue, RequestOf, Sending
  <2>2. RequestOf(s)[2] <= attempts[RequestOf(s)[1]]
    BY <1>0, <1>1, PolicyAssumption DEF IInv, WorksOnOpened, RequestOf, Sending, TypeOK, View
  <2> QED
    BY <2>1, <2>2 DEF DeadStaysDead
<1>2. CASE LockedOut(s)
  <2>1. view'[s].got = Failed("thread_busy", "none", FALSE)
    BY <1>0, <1>2 DEF LockedOut, Receive, TypeOK, View
  <2>2. Failed("thread_busy", "none", FALSE) \in Receipt
    BY ReceiptTypes DEF Codes, Methods
  <2>3. Failed("thread_busy", "none", FALSE).code # "approval"
    BY DEF Failed
  <2> QED
    BY <2>1, <2>2, <2>3, InboxAnswers
<1>3. CASE GiveUp(s)
  <2>1. view'[s].got = Unknown(FALSE)
    BY <1>0, <1>3 DEF GiveUp, Receive, TypeOK, View
  <2>2. Unknown(FALSE) \in Receipt /\ Unknown(FALSE).status # "failed"
    BY ReceiptTypes, ReceiptStatuses
  <2> QED
    BY <2>1, <2>2, InboxAnswers
<1>4. CASE Answered(s)
  <2> DEFINE x == RequestOf(s)
  <2>1. /\ pc[s] = "waiting" /\ worker[x] = NoProc /\ x \in Requests
        /\ UNCHANGED <<op, turns, worker>> /\ x' = x
        /\ \A t \in Procs : t # s => pc'[t] = pc[t] /\ view'[t] = view[t]
    BY <1>0, <1>4, RequestType DEF Answered, Receive, Sending, RequestOf, Goto, TypeOK, View
  <2>2. view'[s].got = IF op[x] = NoReceipt THEN Unknown(FALSE) ELSE op[x]
    BY <1>0, <1>4 DEF Answered, Receive, TypeOK, View
  <2>3. view'[s].got = op[x]
    BY <2>2, ReceiptTypes, ReceiptStatuses, InboxAnswers
  <2>4. op[x].status = "failed" /\ op[x].code = "approval"
    BY <1>0, <2>1, <2>3, InboxAnswers DEF TypeOK
  <2>5. StartFailed.code # "approval"
    BY DEF StartFailed, Failed
  <2>6. x \notin turns /\ ~OnTheWire(x)
    BY <2>1, <2>4, <2>5 DEF IInv, LedgerTruthful, OnTheWire
  <2>7. \A t \in Senders : t # s /\ pc[t] = "calling" => RequestOf(t) # x
    BY <2>1 DEF IInv, OneCaller, Sending
  <2> HIDE DEF x
  <2>8. \A t \in Senders : t # s => RequestOf(t)' = RequestOf(t)
    BY <2>1 DEF RequestOf, Procs
  <2>9. x \notin turns' /\ worker'[x] = NoProc /\ ~OnTheWire(x)'
    BY <2>1, <2>6 DEF OnTheWire
  <2>10. \A t \in Senders : pc'[t] = "calling" => RequestOf(t)' # x'
    BY <2>1, <2>7, <2>8 DEF Procs
  <2>11. Dead(x)'
    BY <2>1, <2>9, <2>10 DEF Dead, OnTheWire
  <2> QED
    BY <2>11 DEF x
<1> QED
  BY <1>0, <1>1, <1>2, <1>3, <1>4, AnswersCome

-----------------------------------------------------------------------------
(* The rows, as in DeliveryProofs: what a step that leaves the count of attempts alone may do.  *)

MappedStep(e) ==
  /\ attempts'[e] = attempts[e]
  /\ turns \subseteq turns'
  /\ Shut(e)' => Shut(e) \/ Quiet(e)
  /\ turnId'[e] # 0 =>
       \/ turnId'[e] = turnId[e] /\ dstate'[e] \in {"dispatched", "acknowledged"}
       \/ dstate'[e] = "dispatched" /\ <<e, turnId'[e]>> \in turns
  /\ attempts[e] # 0 /\ internal'[<<e, attempts[e]>>] # "settled" =>
       dstate'[e] \in {"sending", "held_uncertain"}

LEMMA MappedMoves ==
  ASSUME TypeOK, DeadStaysDead, NEW e \in Events, Mapped(e), MappedStep(e)
  PROVE  Mapped(e)'
<1>1. ASSUME Quiet(e) PROVE Quiet(e)'
  <2> SUFFICES ASSUME NEW n \in 1..AttemptBound, n <= attempts[e] PROVE Dead(<<e, n>>)'
    BY DEF Quiet, MappedStep
  <2>1. <<e, n>> \in Requests /\ Dead(<<e, n>>)
    BY <1>1 DEF Quiet, Requests
  <2> QED
    BY <2>1 DEF DeadStaysDead
<1>2. Shut(e)' => Quiet(e)'
  BY <1>1 DEF Mapped, MappedStep
<1> QED
  BY <1>2 DEF Mapped, MappedStep

LEMMA MappedAlone ==
  ASSUME TypeOK, DeadStaysDead, NEW e \in Events, Mapped(e), turns \subseteq turns',
         attempts'[e] = attempts[e], dstate'[e] = dstate[e], turnId'[e] = turnId[e],
         attempts[e] # 0 => \/ internal'[<<e, attempts[e]>>] = internal[<<e, attempts[e]>>]
                            \/ internal'[<<e, attempts[e]>>] = "settled"
  PROVE  Mapped(e)'
<1>1. MappedStep(e)
  BY DEF MappedStep, Mapped, Shut
<1> QED
  BY <1>1, MappedMoves

\* What a row that may be claimed says: nothing of it is reported, and all of it is dead.
LEMMA ClaimableIsQuiet ==
  ASSUME MInv, NEW e \in Events, dstate[e] \in Claimable
  PROVE  Quiet(e) /\ turnId[e] = 0
<1>1. Quiet(e)
  BY PolicyAssumption DEF MInv, IInv, DeadBehind, NothingOvertaken, Quiet, TypeOK
<1> QED
  BY <1>1 DEF MInv, Mapped, Claimable

LEMMA EnvironmentMapped ==
  ASSUME MInv, DeadStaysDead, Environment
  PROVE  \A e \in Events : Mapped(e)'
<1> USE DEF rowVars, tryVars, rateVars, envVars, hostVars, procVars
<1>1. UNCHANGED <<attempts, turnId, internal, turns>>
  BY DEF Environment, Enqueue, AcceptSuccessor, AnnotatePredecessor, Acknowledge, BackoffEnds,
         ReleaseExpiredLease, AdvanceGeneration, SetStatus, IntervalEnds, HourEnds
<1> SUFFICES ASSUME NEW e \in Events PROVE MappedStep(e)
  BY MappedMoves DEF MInv, IInv
<1>2. \/ dstate'[e] = dstate[e]
      \/ dstate[e] = "absent" /\ dstate'[e] = "queued"
      \/ dstate[e] \in {"dispatched", "inbox_only"} /\ dstate'[e] = "acknowledged"
      \/ dstate[e] = "sending" /\ dstate'[e] = "held_uncertain"
  BY DEF MInv, IInv, Environment, Enqueue, AcceptSuccessor, AnnotatePredecessor, Acknowledge,
         BackoffEnds, ReleaseExpiredLease, AdvanceGeneration, SetStatus, IntervalEnds, HourEnds,
         TypeOK
<1>3. Mapped(e) /\ (dstate[e] = "absent" => attempts[e] = 0)
      /\ (dstate[e] = "dispatched" => turnId[e] # 0)
  BY DEF MInv, IInv, AbsentUnattempted, DispatchHasTurn
<1> QED
  BY <1>1, <1>2, <1>3 DEF MappedStep, Mapped, Shut

LEMMA GuardedMapped ==
  ASSUME MInv, DeadStaysDead, NEW s \in Senders,
         Reschedule(s) \/ DeferBusy(s) \/ Withhold(s) \/ Suppress(s)
  PROVE  \A e \in Events : Mapped(e)'
<1> USE DEF rowVars, tryVars, rateVars, envVars, hostVars, procVars
<1>1. TypeOK /\ s \in Procs /\ view[s].event \in Events
  BY DEF MInv, IInv, TypeOK, Procs, View
<1>2. pc[s] = "looked" => view[s].state \in Claimable
  BY <1>1 DEF MInv, IInv, ReadingsTrue
<1>3. UNCHANGED <<attempts, turnId, internal, turns>>
  BY DEF Reschedule, DeferBusy, Withhold, Suppress, PutOff
<1> SUFFICES ASSUME NEW e \in Events PROVE MappedStep(e)
  BY <1>1, MappedMoves DEF MInv
<1>4. \/ dstate'[e] = dstate[e]
      \/ dstate[e] \in Claimable /\ dstate'[e] \in Claimable \cup {"superseded"}
  BY <1>1, <1>2
     DEF Reschedule, DeferBusy, Withhold, Suppress, PutOff, Unmoved, TypeOK, Claimable
<1>5. Mapped(e)
  BY DEF MInv
<1>6. CASE dstate'[e] = dstate[e]
  BY <1>3, <1>5, <1>6 DEF MappedStep, Mapped, Shut
<1>7. CASE dstate[e] \in Claimable
  BY <1>3, <1>4, <1>5, <1>7, ClaimableIsQuiet DEF MappedStep, Mapped, Shut, Claimable
<1> QED
  BY <1>4, <1>6, <1>7

LEMMA ClaimMapped ==
  ASSUME MInv, DeadStaysDead, NEW s \in Senders, Claim(s)
  PROVE  \A e \in Events : Mapped(e)'
<1> DEFINE x == view[s].event
<1>1. TypeOK
  BY DEF MInv, IInv
<1>2. /\ x \in Events /\ attempts[x] \in Nat
      /\ dstate[x] \in Claimable
      /\ dstate' = [dstate EXCEPT ![x] = "sending"]
      /\ attempts' = [attempts EXCEPT ![x] = attempts[x] + 1]
      /\ internal' = [internal EXCEPT ![<<x, attempts[x] + 1>>] = "in_flight"]
      /\ UNCHANGED <<turnId, turns>>
  BY <1>1, PolicyAssumption DEF Claim, CanClaim, InsertAttempt, hostVars, TypeOK, Procs, View
<1> SUFFICES ASSUME NEW e \in Events PROVE Mapped(e)'
  OBVIOUS
<1>3. CASE e # x
  <2>1. internal'[<<e, attempts[e]>>] = internal[<<e, attempts[e]>>] \/ attempts[e] = 0
    BY <1>1, <1>2, <1>3, PolicyAssumption DEF TypeOK, Requests
  <2>2. dstate'[e] = dstate[e] /\ attempts'[e] = attempts[e] /\ turnId'[e] = turnId[e]
    BY <1>1, <1>2, <1>3 DEF TypeOK
  <2> QED
    BY <1>1, <1>2, <2>1, <2>2, MappedAlone DEF MInv
<1>4. CASE e = x
  <2>1. dstate'[e] = "sending" /\ turnId'[e] = 0
    BY <1>1, <1>2, <1>4, ClaimableIsQuiet DEF TypeOK
  <2> QED
    BY <2>1 DEF Mapped, Shut
<1> QED
  BY <1>3, <1>4

\* A settlement that is not overtaken is of the delivery's last attempt, which is in flight: what
\* it writes of the row is what its own request came to.
LEMMA SettleOwn ==
  ASSUME MInv, overtaken' = {}, NEW s \in Senders, Settle(s)
  PROVE  LET e == view[s].event
             n == view[s].no
             f == Classify(view[s].got)
         IN  /\ e \in Events /\ n \in 1..AttemptBound /\ f.state \in Outcomes
             /\ attempts[e] = n /\ dstate[e] \in {"sending", "held_uncertain"} /\ turnId[e] = 0
             /\ f.state = "dispatched" => <<e, n>> \in turns
             /\ f.state = "inbox_only" => Quiet(e)
             /\ dstate' = [dstate EXCEPT ![e] = f.state]
             /\ turnId' = [turnId EXCEPT ![e] = IF f.state = "dispatched" THEN n ELSE 0]
             /\ internal' = [internal EXCEPT ![<<e, n>>] = "settled"]
             /\ UNCHANGED <<attempts, turns>>
<1> DEFINE e == view[s].event
           n == view[s].no
           f == Classify(view[s].got)
<1>1. /\ s \in Procs /\ e \in Events /\ n \in 1..AttemptBound /\ n # 0
      /\ view[s].got \in Receipt /\ pc[s] = "returned"
  BY PolicyAssumption DEF MInv, IInv, Settle, TypeOK, Procs, View, Sending
<1>2. /\ f.state \in Outcomes
      /\ f.state = "dispatched" => <<e, n>> \in turns
      /\ f.state = "inbox_only" => Dead(<<e, n>>)
  BY <1>1, ClassifyType DEF MInv, IInv, ReadingsTrue, RefusalsTrue, RequestOf
<1>3. /\ dstate' = [dstate EXCEPT ![e] = f.state]
      /\ turnId' = [turnId EXCEPT ![e] = IF f.state = "dispatched" THEN n ELSE 0]
      /\ internal' = [internal EXCEPT ![<<e, n>>] = "settled"]
      /\ UNCHANGED <<attempts, turns>>
      /\ internal[<<e, n>>] = "in_flight" /\ attempts[e] = n
  BY DEF Settle, hostVars
<1> HIDE DEF e, n, f
<1>4. dstate[e] \in {"sending", "held_uncertain"} /\ turnId[e] = 0
  BY <1>1, <1>3 DEF MInv, Mapped
<1>5. f.state = "inbox_only" => Quiet(e)
  BY <1>1, <1>2, <1>3 DEF MInv, IInv, DeadBehind, NothingOvertaken, Quiet
<1> QED
  BY <1>1, <1>2, <1>3, <1>4, <1>5 DEF e, n, f

LEMMA SettleMapped ==
  ASSUME MInv, DeadStaysDead, overtaken' = {}, NEW s \in Senders, Settle(s)
  PROVE  \A e \in Events : Mapped(e)'
<1> DEFINE x == view[s].event
           n == view[s].no
           f == Classify(view[s].got)
<1>1. /\ x \in Events /\ n \in 1..AttemptBound /\ f.state \in Outcomes
      /\ attempts[x] = n
      /\ f.state = "dispatched" => <<x, n>> \in turns
      /\ f.state = "inbox_only" => Quiet(x)
      /\ dstate' = [dstate EXCEPT ![x] = f.state]
      /\ turnId' = [turnId EXCEPT ![x] = IF f.state = "dispatched" THEN n ELSE 0]
      /\ internal' = [internal EXCEPT ![<<x, n>>] = "settled"]
      /\ UNCHANGED <<attempts, turns>>
  BY SettleOwn
<1> HIDE DEF x, n, f
<1>2. TypeOK
  BY DEF MInv, IInv
<1> SUFFICES ASSUME NEW e \in Events PROVE Mapped(e)'
  OBVIOUS
<1>3. CASE e # x
  <2>1. internal'[<<e, attempts[e]>>] = internal[<<e, attempts[e]>>]
    BY <1>1, <1>2, <1>3 DEF TypeOK
  <2>2. dstate'[e] = dstate[e] /\ attempts'[e] = attempts[e] /\ turnId'[e] = turnId[e]
    BY <1>1, <1>2, <1>3 DEF TypeOK
  <2> QED
    BY <1>1, <1>2, <2>1, <2>2, MappedAlone DEF MInv
<1>4. CASE e = x
  <2>1. /\ dstate'[e] = f.state /\ attempts'[e] = attempts[e]
        /\ turnId'[e] = IF f.state = "dispatched" THEN n ELSE 0
        /\ internal'[<<e, attempts[e]>>] = "settled"
    BY <1>1, <1>2, <1>4 DEF TypeOK, Requests
  <2>2. Shut(e)' => Quiet(e)
    BY <1>1, <1>4, <2>1 DEF Shut, Outcomes
  <2>3. MappedStep(e)
    BY <1>1, <1>4, <2>1, <2>2 DEF MappedStep
  <2> QED
    BY <1>2, <2>3, MappedMoves DEF MInv
<1> QED
  BY <1>3, <1>4

\* What a reconciler writes never leaves an event in the inbox, and names a turn with a dispatch.
LEMMA VerdictKinds ==
  ASSUME TypeOK, NEW p \in Procs
  PROVE  /\ Verdict(p).state \in {"dispatched", "deferred_busy", "withheld_pre_send",
                                 "held_uncertain"}
         /\ Verdict(p).turn # 0 => Verdict(p).state = "dispatched"
<1> DEFINE f == Classify(view[p].got)
<1>1. view[p].got \in Receipt
  BY DEF TypeOK, View
<1>2. f.retrySafe <=> f.state \in {"deferred_busy", "withheld_pre_send"}
  BY <1>1, ClassifyAnswers
<1>3. CASE Settling(view[p].got)
  <2>1. /\ Verdict(p).state = f.state
        /\ Verdict(p).turn = IF f.state = "dispatched" THEN view[p].no ELSE 0
        /\ f.state = "dispatched" \/ f.retrySafe
    BY <1>3 DEF Verdict, Settling
  <2> QED
    BY <1>2, <2>1
<1>4. CASE ~Settling(view[p].got) /\ view[p].found
  <2>1. Verdict(p).state = "dispatched"
    BY <1>4 DEF Verdict
  <2> QED
    BY <2>1
<1>5. CASE ~Settling(view[p].got) /\ ~view[p].found
  <2>1. Verdict(p).state = "held_uncertain" /\ Verdict(p).turn = 0
    BY <1>5 DEF Verdict
  <2> QED
    BY <2>1
<1>6. view[p].found \in BOOLEAN
  BY DEF TypeOK, View
<1> QED
  BY <1>3, <1>4, <1>5, <1>6

\* A reconciler that moves a row moves one that names no turn yet.
LEMMA WriteOwn ==
  ASSUME MInv, NEW p \in Reconcilers \cup Operators, Write(p)
  PROVE  LET e == view[p].event
             n == view[p].no
             w == Verdict(p)
         IN  /\ e \in Events /\ n \in 1..AttemptBound
             /\ internal' = [internal EXCEPT ![<<e, n>>] = "settled"]
             /\ UNCHANGED <<attempts, turns>>
             /\ \/ UNCHANGED <<dstate, turnId>>
                \/ /\ attempts[e] = n /\ turnId[e] = 0
                   /\ dstate[e] \notin {"dispatched", "acknowledged", "superseded"}
                   /\ w.state \in {"dispatched", "deferred_busy", "withheld_pre_send",
                                   "held_uncertain"}
                   /\ w.turn # 0 => w.turn = n /\ w.state = "dispatched" /\ <<e, n>> \in turns
                   /\ dstate' = [dstate EXCEPT ![e] = w.state]
                   /\ turnId' = [turnId EXCEPT ![e] = w.turn]
<1> DEFINE e == view[p].event
           n == view[p].no
           w == Verdict(p)
<1>1. TypeOK /\ IInv
  BY DEF MInv, IInv
<1>2. /\ p \in Procs /\ e \in Events /\ n \in 1..AttemptBound /\ pc[p] = "writing"
  BY <1>1, PolicyAssumption DEF Write, TypeOK, Procs, View, Checking
<1>3. /\ w.state \in {"dispatched", "deferred_busy", "withheld_pre_send", "held_uncertain"}
      /\ w.turn # 0 => w.turn = n /\ w.state = "dispatched" /\ <<e, n>> \in turns
  BY <1>1, <1>2, VerdictTrue, VerdictKinds DEF RequestOf
<1>4. /\ internal' = [internal EXCEPT ![<<e, n>>] = "settled"]
      /\ UNCHANGED <<attempts, turns>>
      /\ \/ UNCHANGED <<dstate, turnId>>
         \/ /\ attempts[e] = n /\ dstate[e] \notin {"dispatched", "acknowledged", "superseded"}
            /\ dstate' = [dstate EXCEPT ![e] = w.state]
            /\ turnId' = [turnId EXCEPT ![e] = IF w.turn # 0 THEN w.turn ELSE turnId[e]]
  BY DEF Write, Moves, Current, RequestOf, hostVars
<1> HIDE DEF e, n, w
<1>5. dstate[e] \notin {"dispatched", "acknowledged"} => turnId[e] = 0
  BY <1>2 DEF MInv, Mapped
<1>6. turnId[e] = 0 => (IF w.turn # 0 THEN w.turn ELSE turnId[e]) = w.turn
  OBVIOUS
<1> QED
  BY <1>2, <1>3, <1>4, <1>5, <1>6 DEF e, n, w

LEMMA WriteMapped ==
  ASSUME MInv, DeadStaysDead, NEW p \in Reconcilers \cup Operators, Write(p)
  PROVE  \A e \in Events : Mapped(e)'
<1> DEFINE x == view[p].event
           n == view[p].no
           w == Verdict(p)
<1>1. /\ x \in Events /\ n \in 1..AttemptBound
      /\ internal' = [internal EXCEPT ![<<x, n>>] = "settled"]
      /\ UNCHANGED <<attempts, turns>>
      /\ \/ UNCHANGED <<dstate, turnId>>
         \/ /\ attempts[x] = n
            /\ w.state \in {"dispatched", "deferred_busy", "withheld_pre_send", "held_uncertain"}
            /\ w.turn # 0 => w.turn = n /\ w.state = "dispatched" /\ <<x, n>> \in turns
            /\ dstate' = [dstate EXCEPT ![x] = w.state]
            /\ turnId' = [turnId EXCEPT ![x] = w.turn]
  BY WriteOwn
<1> HIDE DEF x, n, w
<1>2. TypeOK
  BY DEF MInv, IInv
<1> SUFFICES ASSUME NEW e \in Events PROVE Mapped(e)'
  OBVIOUS
<1>3. \A r \in Requests : internal'[r] \in {internal[r], "settled"}
  BY <1>1, <1>2 DEF TypeOK
<1>4. attempts[e] # 0 => <<e, attempts[e]>> \in Requests
  BY <1>2, PolicyAssumption DEF TypeOK, Requests
<1>5. CASE dstate'[e] = dstate[e] /\ turnId'[e] = turnId[e]
  BY <1>1, <1>2, <1>3, <1>4, <1>5, MappedAlone DEF MInv
<1>6. CASE /\ e = x /\ attempts[x] = n
           /\ w.state \in {"dispatched", "deferred_busy", "withheld_pre_send", "held_uncertain"}
           /\ w.turn # 0 => w.turn = n /\ w.state = "dispatched" /\ <<x, n>> \in turns
           /\ dstate' = [dstate EXCEPT ![x] = w.state]
           /\ turnId' = [turnId EXCEPT ![x] = w.turn]
  <2>1. /\ dstate'[e] = w.state /\ attempts'[e] = attempts[e] /\ turnId'[e] = w.turn
        /\ internal'[<<e, attempts[e]>>] = "settled"
    BY <1>1, <1>2, <1>6 DEF TypeOK, Requests
  <2>2. ~Shut(e)'
    BY <1>6, <2>1 DEF Shut
  <2>3. MappedStep(e)
    BY <1>1, <1>6, <2>1, <2>2 DEF MappedStep
  <2> QED
    BY <1>2, <2>3, MappedMoves DEF MInv
<1> QED
  BY <1>1, <1>2, <1>5, <1>6 DEF TypeOK

LEMMA NextKeepsMInv ==
  ASSUME MInv, [Next]_vars, overtaken' = {}
  PROVE  MInv' /\ DeadStaysDead
<1> USE DEF rowVars, tryVars, hostVars, procVars
<1>1. IInv' /\ TypeOK /\ TypeOK'
  BY NextKeepsIInv DEF MInv, IInv
<1>2. DeadStaysDead
  BY <1>1, RowByRow, CoreStep DEF MInv
<1>3. RefusalsTrue'
  BY <1>1, <1>2, RefusalsKept DEF MInv
<1>4. ASSUME UNCHANGED <<dstate, attempts, turnId, internal>>, turns \subseteq turns'
      PROVE  \A e \in Events : Mapped(e)'
  BY <1>1, <1>2, <1>4, MappedAlone DEF MInv
<1>5. CASE Environment
  BY <1>1, <1>2, <1>3, <1>5, EnvironmentMapped DEF MInv, NothingOvertaken
<1>6. ASSUME NEW s \in Senders, SenderStep(s) PROVE \A e \in Events : Mapped(e)'
  <2>1. CASE Reschedule(s) \/ DeferBusy(s) \/ Withhold(s) \/ Suppress(s)
    BY <1>2, <2>1, GuardedMapped
  <2>2. CASE Claim(s)
    BY <1>2, <2>2, ClaimMapped
  <2>3. CASE Settle(s)
    BY <1>2, <2>3, SettleMapped
  <2>4. CASE \/ (\E e \in Events : Look(s, e)) \/ WithinRate(s) \/ ClearToSend(s)
             \/ NotClaimable(s) \/ Submit(s) \/ LockedOut(s) \/ Answered(s) \/ GiveUp(s)
    BY <1>4, <2>4 DEF Look, WithinRate, ClearToSend, NotClaimable, Submit, LockedOut, Answered,
                      GiveUp, Receive
  <2> QED
    BY <1>6, <2>1, <2>2, <2>3, <2>4 DEF SenderStep
<1>7. ASSUME NEW r \in Requests, WorkerStep(r) PROVE \A e \in Events : Mapped(e)'
  BY <1>4, <1>7 DEF WorkerStep, WorkerExpires, WorkerBegins, WorkerResumes, HostStartsTurn,
                    WorkerSaves, ledgerOnly
<1>8. ASSUME NEW p \in Reconcilers \cup Operators, ReconcilerStep(p)
      PROVE  \A e \in Events : Mapped(e)'
  <2>1. CASE Write(p)
    BY <1>2, <2>1, WriteMapped
  <2>2. CASE (\E r \in Requests : Open(p, r)) \/ ReadReceipt(p) \/ Scan(p)
    BY <1>4, <2>2 DEF Open, ReadReceipt, Scan
  <2> QED
    BY <1>8, <2>1, <2>2 DEF ReconcilerStep, OpenUnresolved, OpenByHand
<1>9. ASSUME NEW p \in Procs, Crash(p) PROVE \A e \in Events : Mapped(e)'
  BY <1>4, <1>9 DEF Crash
<1>10. CASE UNCHANGED vars
  BY <1>1, <1>2, <1>3, <1>4, <1>10 DEF vars, MInv, NothingOvertaken
<1>11. (\A e \in Events : Mapped(e)') => MInv'
  BY <1>1, <1>3 DEF MInv, NothingOvertaken
<1> QED
  BY <1>2, <1>5, <1>6, <1>7, <1>8, <1>9, <1>10, <1>11 DEF Next

LEMMA InitMInv == Init => MInv
<1> SUFFICES ASSUME Init PROVE MInv
  OBVIOUS
<1>1. IInv
  BY InitIInv
<1>2. RefusalsTrue
  BY DEF Init, RefusalsTrue, Procs
<1>3. ASSUME NEW e \in Events PROVE Mapped(e)
  BY DEF Init, Mapped, Shut
<1> QED
  BY <1>1, <1>2, <1>3 DEF MInv, Init, NothingOvertaken

-----------------------------------------------------------------------------
(***************************************************************************)
(* The steps of Delivery as steps of Handoff.                              *)
(***************************************************************************)
Given(e) == Cardinality(TurnsOf(e))

LEMMA GivenCounts ==
  ASSUME TypeOK, NEW e \in Events
  PROVE  /\ IsFiniteSet(TurnsOf(e)) /\ Given(e) \in Nat
         /\ Given(e) = 0 <=> TurnsOf(e) = {}
<1>1. IsFiniteSet(1..AttemptBound)
  BY PolicyAssumption, FS_Interval
<1>2. TurnsOf(e) \subseteq 1..AttemptBound
  BY DEF TurnsOf
<1> QED
  BY <1>1, <1>2, FS_Subset, FS_CardinalityType, FS_EmptySet DEF Given

\* An event that has a turn has exactly one: the turn of its last attempt.
LEMMA OneIsGiven ==
  ASSUME MInv, NEW e \in Events, NEW n \in 1..AttemptBound, <<e, n>> \in turns
  PROVE  n = attempts[e] /\ TurnsOf(e) = {n} /\ Given(e) = 1
<1>1. ASSUME NEW m \in 1..AttemptBound, <<e, m>> \in turns PROVE m = attempts[e]
  <2>1. <<e, m>> \in Requests /\ <<e, m>>[1] = e /\ <<e, m>>[2] = m /\ attempts[e] \in Nat
    BY PolicyAssumption DEF Requests, MInv, IInv, TypeOK
  <2>2. ~(m > attempts[e])
    BY <1>1, <2>1 DEF MInv, IInv, FreshUntouched
  <2>3. ~(m < attempts[e])
    BY <1>1 DEF MInv, IInv, DeadBehind, NothingOvertaken, Dead
  <2> QED
    BY <2>1, <2>2, <2>3
<1>2. n = attempts[e] /\ TurnsOf(e) = {n}
  BY <1>1 DEF TurnsOf
<1> QED
  BY <1>2, FS_Singleton DEF Given

LEMMA QuietIsNotGiven ==
  ASSUME MInv, NEW e \in Events, Quiet(e)
  PROVE  TurnsOf(e) = {} /\ Given(e) = 0
<1>1. ASSUME NEW n \in TurnsOf(e) PROVE FALSE
  <2>1. n \in 1..AttemptBound /\ <<e, n>> \in turns
    BY DEF TurnsOf
  <2>2. n = attempts[e]
    BY <2>1, OneIsGiven
  <2>3. n <= attempts[e]
    BY <2>1, <2>2
  <2> QED
    BY <2>1, <2>3 DEF Quiet, Dead
<1>2. TypeOK
  BY DEF MInv, IInv
<1> QED
  BY <1>1, <1>2, GivenCounts

Withdrawn == {e \in Events : dstate[e] = "superseded"}
Closed    == {e \in Events : dstate[e] = "acknowledged"}
Reported  == {e \in Events : turnId[e] # 0}
GivenEach == [e \in Events |-> Given(e)]

\* What Handoff says of a step, over the state of Delivery.
LEMMA PromiseStep ==
  ASSUME \/ UNCHANGED <<GivenEach, Reported, Withdrawn, Closed>>
         \/ \E e \in Events :
              \/ /\ Given(e) = 0 /\ e \notin Withdrawn \cup Closed
                 /\ GivenEach' = [GivenEach EXCEPT ![e] = 1]
                 /\ UNCHANGED <<Reported, Withdrawn, Closed>>
              \/ /\ Given(e) = 1 /\ e \notin Reported \cup Withdrawn
                 /\ Reported' = Reported \cup {e}
                 /\ UNCHANGED <<GivenEach, Withdrawn, Closed>>
              \/ /\ Given(e) = 0 /\ e \notin Withdrawn \cup Closed
                 /\ Withdrawn' = Withdrawn \cup {e}
                 /\ UNCHANGED <<GivenEach, Reported, Closed>>
              \/ /\ e \notin Withdrawn \cup Closed /\ (e \in Reported \/ Given(e) = 0)
                 /\ Closed' = Closed \cup {e}
                 /\ UNCHANGED <<GivenEach, Reported, Withdrawn>>
  PROVE  [Promise!Next]_(Promise!vars)
<1>1. \A e \in Events : GivenEach[e] = Given(e)
  BY DEF GivenEach
<1> QED
  BY <1>1 DEF Promise!Next, Promise!Hand, Promise!Report, Promise!Withdraw, Promise!Close,
              Promise!vars, GivenEach, Given, Withdrawn, Closed, Reported

LEMMA SameTurns ==
  ASSUME UNCHANGED turns
  PROVE  UNCHANGED GivenEach /\ \A e \in Events : Given(e)' = Given(e)
BY DEF GivenEach, Given, TurnsOf

\* A step that starts no turn, names none, and neither withdraws nor closes is none of Handoff's.
LEMMA Stutters ==
  ASSUME UNCHANGED turns,
         \A e \in Events : /\ turnId'[e] = 0 <=> turnId[e] = 0
                           /\ dstate'[e] = "superseded" <=> dstate[e] = "superseded"
                           /\ dstate'[e] = "acknowledged" <=> dstate[e] = "acknowledged"
  PROVE  [Promise!Next]_(Promise!vars)
<1>1. UNCHANGED <<GivenEach, Reported, Withdrawn, Closed>>
  BY SameTurns DEF Reported, Withdrawn, Closed
<1> QED
  BY <1>1, PromiseStep

LEMMA HostHands ==
  ASSUME MInv, NEW r \in Requests, HostStartsTurn(r)
  PROVE  [Promise!Next]_(Promise!vars)
<1> PICK e \in Events, n \in 1..AttemptBound : r = <<e, n>>
  BY DEF Requests
<1>1. /\ OnTheWire(r) /\ r \notin turns /\ turns' = turns \cup {r}
      /\ UNCHANGED <<dstate, turnId>>
  BY DEF HostStartsTurn, ledgerOnly, rowVars
<1>2. n \in Nat /\ attempts[e] \in Nat
  BY PolicyAssumption DEF MInv, IInv, TypeOK
<1>3. n <= attempts[e]
  BY <1>1, <1>2 DEF MInv, IInv, FreshUntouched, OnTheWire, NoReceipt
<1>4. ~Dead(<<e, n>>)
  BY <1>1 DEF Dead
<1>5. n = attempts[e]
  BY <1>2, <1>3, <1>4 DEF MInv, IInv, DeadBehind, NothingOvertaken
<1>6. ~Shut(e)
  BY <1>3, <1>4 DEF MInv, Mapped, Quiet
<1>7. TurnsOf(e) = {}
  BY <1>1, <1>5, OneIsGiven DEF TurnsOf
<1>8. Given(e) = 0
  BY <1>7, GivenCounts DEF MInv, IInv
<1>9. turnId[e] = 0
  <2>0. turnId[e] \in 0..AttemptBound /\ (turnId[e] # 0 => <<e, turnId[e]>> \in turns)
    BY DEF MInv, IInv, Mapped, TypeOK
  <2>1. turnId[e] # 0 => turnId[e] \in TurnsOf(e)
    BY <2>0, PolicyAssumption DEF TurnsOf
  <2> QED
    BY <1>7, <2>1
<1>10. TurnsOf(e)' = {n} /\ \A f \in Events : f # e => TurnsOf(f)' = TurnsOf(f)
  BY <1>1, <1>7 DEF TurnsOf
<1>11. GivenEach' = [GivenEach EXCEPT ![e] = 1]
  <2>1. Given(e)' = 1 /\ \A f \in Events : f # e => Given(f)' = Given(f)
    BY <1>10, FS_Singleton DEF Given
  <2> QED
    BY <2>1 DEF GivenEach
<1>12. e \notin Withdrawn \cup Closed
  BY <1>6, <1>9 DEF Shut, Withdrawn, Closed
<1>13. UNCHANGED <<Reported, Withdrawn, Closed>>
  BY <1>1 DEF Reported, Withdrawn, Closed
<1> QED
  BY <1>8, <1>11, <1>12, <1>13, PromiseStep

\* A sender or a reconciler that writes what an attempt came to reports its turn, if it had one.
LEMMA OutcomeReports ==
  ASSUME MInv, UNCHANGED turns, NEW e \in Events, NEW n \in 1..AttemptBound, NEW state, NEW turn,
         turnId[e] = 0, dstate[e] \notin {"superseded", "acknowledged"},
         state \notin {"superseded", "acknowledged"},
         turn \in {0, n}, turn # 0 => <<e, n>> \in turns,
         dstate' = [dstate EXCEPT ![e] = state], turnId' = [turnId EXCEPT ![e] = turn]
  PROVE  [Promise!Next]_(Promise!vars)
<1>1. TypeOK
  BY DEF MInv, IInv
<1>2. UNCHANGED <<Withdrawn, Closed>>
  BY <1>1 DEF TypeOK, Withdrawn, Closed
<1>3. CASE turn = 0
  BY <1>1, <1>3, Stutters DEF TypeOK
<1>4. CASE turn # 0
  <2>1. n # 0 /\ Given(e) = 1
    BY <1>4, PolicyAssumption, OneIsGiven
  <2>2. Reported' = Reported \cup {e}
    BY <1>1, <1>4, <2>1 DEF TypeOK, Reported
  <2>3. e \notin Reported \cup Withdrawn
    BY DEF Reported, Withdrawn
  <2> QED
    BY <1>2, <2>1, <2>2, <2>3, SameTurns, PromiseStep
<1> QED
  BY <1>3, <1>4

LEMMA SuppressWithdraws ==
  ASSUME MInv, NEW s \in Senders, Suppress(s)
  PROVE  [Promise!Next]_(Promise!vars)
<1> DEFINE e == view[s].event
<1>1. TypeOK /\ e \in Events
  BY DEF MInv, IInv, TypeOK, Procs, View
<1>2. /\ UNCHANGED <<turnId, turns>>
      /\ \/ UNCHANGED dstate
         \/ dstate[e] \in Claimable /\ dstate' = [dstate EXCEPT ![e] = "superseded"]
  BY DEF Suppress, hostVars
<1> HIDE DEF e
<1>3. CASE UNCHANGED dstate
  BY <1>2, <1>3, Stutters
<1>4. CASE dstate[e] \in Claimable /\ dstate' = [dstate EXCEPT ![e] = "superseded"]
  <2>1. Given(e) = 0
    BY <1>1, <1>4, ClaimableIsQuiet, QuietIsNotGiven
  <2>2. /\ Withdrawn' = Withdrawn \cup {e} /\ Closed' = Closed /\ Reported' = Reported
        /\ e \notin Withdrawn \cup Closed
    BY <1>1, <1>2, <1>4 DEF TypeOK, Withdrawn, Closed, Reported, Claimable
  <2> QED
    BY <1>1, <1>2, <2>1, <2>2, SameTurns, PromiseStep
<1> QED
  BY <1>2, <1>3, <1>4

LEMMA AcknowledgeCloses ==
  ASSUME MInv, NEW e \in Events, Acknowledge(e)
  PROVE  [Promise!Next]_(Promise!vars)
<1>1. TypeOK
  BY DEF MInv, IInv
<1>2. /\ dstate[e] \in {"dispatched", "inbox_only"}
      /\ dstate' = [dstate EXCEPT ![e] = "acknowledged"] /\ UNCHANGED <<turnId, turns>>
  BY DEF Acknowledge, hostVars
<1>3. e \in Reported \/ Given(e) = 0
  <2>1. CASE dstate[e] = "dispatched"
    BY <2>1 DEF MInv, IInv, DispatchHasTurn, Reported
  <2>2. CASE dstate[e] = "inbox_only"
    <3>1. Quiet(e)
      BY <2>2 DEF MInv, Mapped, Shut
    <3> QED
      BY <3>1, QuietIsNotGiven
  <2> QED
    BY <1>2, <2>1, <2>2
<1>4. /\ Closed' = Closed \cup {e} /\ Withdrawn' = Withdrawn /\ Reported' = Reported
      /\ e \notin Withdrawn \cup Closed
  BY <1>1, <1>2 DEF TypeOK, Withdrawn, Closed, Reported
<1> QED
  BY <1>2, <1>3, <1>4, SameTurns, PromiseStep

LEMMA StepKeepsPromise ==
  ASSUME MInv, [Next]_vars, overtaken' = {}
  PROVE  [Promise!Next]_(Promise!vars)
<1> USE DEF rowVars, tryVars, rateVars, envVars, hostVars, procVars
<1>1. TypeOK
  BY DEF MInv, IInv
<1>2. ASSUME UNCHANGED <<dstate, turnId, turns>> PROVE [Promise!Next]_(Promise!vars)
  BY <1>2, Stutters
<1>3. CASE Environment
  <2>1. ASSUME NEW e \in Events, Enqueue(e) \/ ReleaseExpiredLease(e)
        PROVE  [Promise!Next]_(Promise!vars)
    BY <1>1, <2>1, Stutters DEF Enqueue, ReleaseExpiredLease, TypeOK
  <2>2. ASSUME NEW e \in Events, AcceptSuccessor(e) \/ AnnotatePredecessor(e) \/ BackoffEnds(e)
        PROVE  [Promise!Next]_(Promise!vars)
    BY <1>2, <2>2 DEF AcceptSuccessor, AnnotatePredecessor, BackoffEnds
  <2>3. CASE AdvanceGeneration \/ SetStatus \/ IntervalEnds \/ HourEnds
    BY <1>2, <2>3 DEF AdvanceGeneration, SetStatus, IntervalEnds, HourEnds
  <2> QED
    BY <1>3, <2>1, <2>2, <2>3, AcknowledgeCloses DEF Environment
<1>4. ASSUME NEW s \in Senders, SenderStep(s) PROVE [Promise!Next]_(Promise!vars)
  <2>0. /\ s \in Procs /\ view[s].event \in Events
        /\ pc[s] = "looked" => view[s].state \in Claimable
    BY DEF MInv, IInv, TypeOK, ReadingsTrue, Procs, View
  <2>1. CASE Reschedule(s) \/ DeferBusy(s) \/ Withhold(s)
    BY <1>1, <2>0, <2>1, Stutters
       DEF Reschedule, DeferBusy, Withhold, PutOff, Unmoved, TypeOK, Claimable
  <2>2. CASE Claim(s)
    BY <1>1, <2>0, <2>2, Stutters DEF Claim, CanClaim, TypeOK, Claimable
  <2>3. CASE Settle(s)
    <3> DEFINE e == view[s].event
               n == view[s].no
               f == Classify(view[s].got)
               turn == IF f.state = "dispatched" THEN n ELSE 0
    <3>1. /\ e \in Events /\ n \in 1..AttemptBound /\ f.state \in Outcomes
          /\ dstate[e] \in {"sending", "held_uncertain"} /\ turnId[e] = 0
          /\ f.state = "dispatched" => <<e, n>> \in turns
          /\ dstate' = [dstate EXCEPT ![e] = f.state] /\ turnId' = [turnId EXCEPT ![e] = turn]
          /\ UNCHANGED turns
      BY <2>3, SettleOwn
    <3>2. turn \in {0, n} /\ (turn # 0 => f.state = "dispatched")
      OBVIOUS
    <3>3. f.state \notin {"superseded", "acknowledged"}
      BY <3>1 DEF Outcomes
    <3> HIDE DEF e, n, f, turn
    <3> QED
      BY <3>1, <3>2, <3>3, OutcomeReports
  <2>4. CASE \/ (\E e \in Events : Look(s, e)) \/ WithinRate(s) \/ ClearToSend(s)
             \/ NotClaimable(s) \/ Submit(s) \/ LockedOut(s) \/ Answered(s) \/ GiveUp(s)
    BY <1>2, <2>4 DEF Look, WithinRate, ClearToSend, NotClaimable, Submit, LockedOut, Answered,
                      GiveUp, Receive
  <2> QED
    BY <1>4, <2>1, <2>2, <2>3, <2>4, SuppressWithdraws DEF SenderStep
<1>5. ASSUME NEW r \in Requests, WorkerStep(r) PROVE [Promise!Next]_(Promise!vars)
  <2>1. CASE HostStartsTurn(r)
    BY <2>1, HostHands
  <2>2. CASE WorkerExpires(r) \/ WorkerBegins(r) \/ WorkerResumes(r) \/ WorkerSaves(r)
    BY <1>2, <2>2 DEF WorkerExpires, WorkerBegins, WorkerResumes, WorkerSaves, ledgerOnly
  <2> QED
    BY <1>5, <2>1, <2>2 DEF WorkerStep
<1>6. ASSUME NEW p \in Reconcilers \cup Operators, ReconcilerStep(p)
      PROVE  [Promise!Next]_(Promise!vars)
  <2>1. CASE Write(p)
    <3> DEFINE e == view[p].event
               n == view[p].no
               w == Verdict(p)
    <3>1. /\ e \in Events /\ n \in 1..AttemptBound /\ UNCHANGED turns
          /\ \/ UNCHANGED <<dstate, turnId>>
             \/ /\ turnId[e] = 0
                /\ dstate[e] \notin {"dispatched", "acknowledged", "superseded"}
                /\ w.state \in {"dispatched", "deferred_busy", "withheld_pre_send",
                                "held_uncertain"}
                /\ w.turn # 0 => w.turn = n /\ w.state = "dispatched" /\ <<e, n>> \in turns
                /\ dstate' = [dstate EXCEPT ![e] = w.state]
                /\ turnId' = [turnId EXCEPT ![e] = w.turn]
      BY <2>1, WriteOwn
    <3> HIDE DEF e, n, w
    <3> DEFINE state == w.state
               turn == w.turn
    <3>2. CASE UNCHANGED <<dstate, turnId>>
      BY <1>2, <3>1, <3>2
    <3>3. CASE /\ turnId[e] = 0
               /\ dstate[e] \notin {"superseded", "acknowledged"}
               /\ state \notin {"superseded", "acknowledged"}
               /\ turn \in {0, n} /\ (turn # 0 => <<e, n>> \in turns)
               /\ dstate' = [dstate EXCEPT ![e] = state]
               /\ turnId' = [turnId EXCEPT ![e] = turn]
      <4> HIDE DEF state, turn
      <4> QED
        BY <3>1, <3>3, OutcomeReports
    <3> QED
      BY <3>1, <3>2, <3>3
  <2>2. CASE (\E r \in Requests : Open(p, r)) \/ ReadReceipt(p) \/ Scan(p)
    BY <1>2, <2>2 DEF Open, ReadReceipt, Scan
  <2> QED
    BY <1>6, <2>1, <2>2 DEF ReconcilerStep, OpenUnresolved, OpenByHand
<1>7. ASSUME NEW p \in Procs, Crash(p) PROVE [Promise!Next]_(Promise!vars)
  BY <1>2, <1>7 DEF Crash
<1>8. CASE UNCHANGED vars
  BY <1>2, <1>8 DEF vars
<1> QED
  BY <1>3, <1>4, <1>5, <1>6, <1>7, <1>8 DEF Next

LEMMA InitKeepsPromise == Init => Promise!Init
<1> SUFFICES ASSUME Init PROVE Promise!Init
  OBVIOUS
<1>1. MInv
  BY InitMInv
<1>2. ASSUME NEW e \in Events PROVE Given(e) = 0
  BY <1>1, GivenCounts DEF Init, TurnsOf, MInv, IInv
<1>3. Reported = {} /\ Withdrawn = {} /\ Closed = {}
  BY DEF Init, Reported, Withdrawn, Closed
<1> QED
  BY <1>2, <1>3 DEF Promise!Init, Given, Reported, Withdrawn, Closed

-----------------------------------------------------------------------------
(***************************************************************************)
(* Nothing drops out of sight: the last attempt of an unresolved delivery  *)
(* is one the reconciler looks for, because whoever settled it moved the   *)
(* delivery with it; and what outlived its generation was annotated when   *)
(* that was left, because nothing is claimed after.                        *)
(***************************************************************************)
Moved == {"dispatched", "acknowledged", "superseded"}

InSight(e) ==
  /\ dstate[e] \in {"sending", "held_uncertain"} =>
       attempts[e] # 0 /\ Unresolved(<<e, attempts[e]>>)
  /\ standing[e] = "old_generation" /\ attempts[e] # 0 /\ NotTerminal(e) => e \in noted

\* A reconciler that may not move the delivery found another attempt there, or one that moved it.
LeftBehind ==
  \A p \in Reconcilers \cup Operators : pc[p] \in Checking /\ ~view[p].current =>
    view[p].no < attempts[view[p].event] \/ dstate[view[p].event] \in Moved

SightInv == MInv /\ LeftBehind /\ \A e \in Events : InSight(e)

LEMMA RowsProgress ==
  ASSUME MInv, [Next]_vars, overtaken' = {}, NEW e \in Events
  PROVE  /\ attempts[e] <= attempts'[e]
         /\ dstate[e] \in Moved => dstate'[e] \in Moved
<1> USE DEF rowVars, tryVars, rateVars, envVars, hostVars, procVars
<1>1. TypeOK /\ attempts[e] \in Nat
  BY PolicyAssumption DEF MInv, IInv, TypeOK
<1>2. CASE UNCHANGED <<dstate, attempts>>
  BY <1>1, <1>2
<1>3. CASE Environment
  <2>1. UNCHANGED attempts
    BY <1>3 DEF Environment, Enqueue, AcceptSuccessor, AnnotatePredecessor, Acknowledge,
                BackoffEnds, ReleaseExpiredLease, AdvanceGeneration, SetStatus, IntervalEnds,
                HourEnds
  <2>2. \/ dstate'[e] = dstate[e]
        \/ dstate[e] \in {"absent", "sending"} \/ dstate'[e] = "acknowledged"
    BY <1>1, <1>3
       DEF Environment, Enqueue, AcceptSuccessor, AnnotatePredecessor, Acknowledge, BackoffEnds,
           ReleaseExpiredLease, AdvanceGeneration, SetStatus, IntervalEnds, HourEnds, TypeOK
  <2> QED
    BY <1>1, <2>1, <2>2 DEF Moved
<1>4. ASSUME NEW s \in Senders, SenderStep(s)
      PROVE  attempts[e] <= attempts'[e] /\ (dstate[e] \in Moved => dstate'[e] \in Moved)
  <2>0. s \in Procs /\ view[s].event \in Events
    BY <1>1 DEF TypeOK, Procs, View
  <2>1. CASE Reschedule(s) \/ DeferBusy(s) \/ Withhold(s) \/ Suppress(s)
    BY <1>1, <2>0, <2>1
       DEF Reschedule, DeferBusy, Withhold, Suppress, PutOff, Unmoved, TypeOK, Claimable, Moved
  <2>2. CASE Claim(s)
    BY <1>1, <2>0, <2>2, PolicyAssumption DEF Claim, CanClaim, TypeOK, Claimable, Moved
  <2>3. CASE Settle(s)
    <3>1. /\ dstate[view[s].event] \in {"sending", "held_uncertain"} /\ UNCHANGED attempts
          /\ dstate' = [dstate EXCEPT ![view[s].event] = Classify(view[s].got).state]
      BY <2>3, SettleOwn
    <3> QED
      BY <1>1, <2>0, <3>1 DEF TypeOK, Moved
  <2>4. CASE \/ (\E f \in Events : Look(s, f)) \/ WithinRate(s) \/ ClearToSend(s)
             \/ NotClaimable(s) \/ Submit(s) \/ LockedOut(s) \/ Answered(s) \/ GiveUp(s)
    BY <1>2, <2>4 DEF Look, WithinRate, ClearToSend, NotClaimable, Submit, LockedOut, Answered,
                      GiveUp, Receive
  <2> QED
    BY <1>4, <2>1, <2>2, <2>3, <2>4 DEF SenderStep
<1>5. ASSUME NEW r \in Requests, WorkerStep(r) PROVE UNCHANGED <<dstate, attempts>>
  BY <1>5 DEF WorkerStep, WorkerExpires, WorkerBegins, WorkerResumes, HostStartsTurn,
              WorkerSaves, ledgerOnly
<1>6. ASSUME NEW p \in Reconcilers \cup Operators, ReconcilerStep(p)
      PROVE  attempts[e] <= attempts'[e] /\ (dstate[e] \in Moved => dstate'[e] \in Moved)
  <2>1. CASE Write(p)
    <3>1. /\ view[p].event \in Events /\ UNCHANGED attempts
          /\ \/ UNCHANGED dstate
             \/ /\ dstate[view[p].event] \notin Moved
                /\ dstate' = [dstate EXCEPT ![view[p].event] = Verdict(p).state]
      BY <2>1, WriteOwn DEF Moved
    <3> QED
      BY <1>1, <3>1 DEF TypeOK
  <2>2. CASE (\E r \in Requests : Open(p, r)) \/ ReadReceipt(p) \/ Scan(p)
    BY <1>2, <2>2 DEF Open, ReadReceipt, Scan
  <2> QED
    BY <1>6, <2>1, <2>2 DEF ReconcilerStep, OpenUnresolved, OpenByHand
<1>7. ASSUME NEW p \in Procs, Crash(p) PROVE UNCHANGED <<dstate, attempts>>
  BY <1>7 DEF Crash
<1>8. CASE UNCHANGED vars
  BY <1>2, <1>8 DEF vars
<1> QED
  BY <1>2, <1>3, <1>4, <1>5, <1>6, <1>7, <1>8 DEF Next

\* Who has an attempt under examination has had it before, or opens it now.
LEMMA ExaminesOrOpens ==
  ASSUME TypeOK, [Next]_vars, NEW p \in Reconcilers \cup Operators, pc'[p] \in Checking
  PROVE  \/ /\ pc[p] \in Checking /\ view'[p].event = view[p].event
            /\ view'[p].no = view[p].no /\ view'[p].current = view[p].current
         \/ \E r \in Requests : Open(p, r)
<1> USE DEF procVars, Goto
<1>1. p \in Procs /\ view[p] \in View /\ pc \in [Procs -> PCs] /\ view \in [Procs -> View]
  BY DEF TypeOK, Procs
<1>2. CASE UNCHANGED procVars
  BY <1>2
<1>3. ASSUME NEW s \in Senders, SenderStep(s) PROVE pc'[p] = pc[p] /\ view'[p] = view[p]
  <2>1. pc'[s] \notin Checking /\ \A q \in Procs : q # s => pc'[q] = pc[q] /\ view'[q] = view[q]
    BY <1>1, <1>3
       DEF SenderStep, Look, Reschedule, WithinRate, DeferBusy, Withhold, ClearToSend, Suppress,
           Claim, NotClaimable, Submit, LockedOut, Answered, GiveUp, Settle, PutOff, Receive,
           Checking, Procs
  <2> QED
    BY <1>1, <2>1
<1>4. ASSUME NEW q \in Reconcilers \cup Operators, ReconcilerStep(q)
      PROVE  \/ /\ pc[p] \in Checking /\ view'[p].event = view[p].event
                /\ view'[p].no = view[p].no /\ view'[p].current = view[p].current
             \/ \E r \in Requests : Open(p, r)
  <2>1. CASE q # p
    <3>1. pc'[p] = pc[p] /\ view'[p] = view[p]
      BY <1>1, <1>4, <2>1
         DEF ReconcilerStep, OpenUnresolved, OpenByHand, Open, ReadReceipt, Scan, Write
    <3> QED
      BY <3>1
  <2>2. CASE q = p /\ \E r \in Requests : Open(p, r)
    BY <2>2
  <2>3. CASE q = p /\ Write(p)
    BY <1>1, <2>3 DEF Write, Checking
  <2>4. CASE q = p /\ ReadReceipt(p)
    <3>1. /\ pc[p] \in Checking
          /\ view' = view \/ view' = [view EXCEPT ![p].got = op[RequestOf(p)]]
      BY <2>4 DEF ReadReceipt, Checking
    <3> QED
      BY <1>1, <3>1 DEF View
  <2>5. CASE q = p /\ Scan(p)
    <3>1. pc[p] \in Checking /\ \E found \in BOOLEAN : view' = [view EXCEPT ![p].found = found]
      BY <2>5 DEF Scan, Checking
    <3> QED
      BY <1>1, <3>1 DEF View
  <2> QED
    BY <1>4, <2>1, <2>2, <2>3, <2>4, <2>5 DEF ReconcilerStep, OpenUnresolved, OpenByHand
<1>5. ASSUME NEW q \in Procs, Crash(q) PROVE pc'[p] = pc[p] /\ view'[p] = view[p]
  BY <1>1, <1>5 DEF Crash, Checking
<1>6. ASSUME NEW r \in Requests, WorkerStep(r) PROVE UNCHANGED procVars
  BY <1>6 DEF WorkerStep, WorkerExpires, WorkerBegins, WorkerResumes, HostStartsTurn,
              WorkerSaves, ledgerOnly
<1>7. Environment => UNCHANGED procVars
  BY DEF Environment, Enqueue, AcceptSuccessor, AnnotatePredecessor, Acknowledge, BackoffEnds,
         ReleaseExpiredLease, AdvanceGeneration, SetStatus, IntervalEnds, HourEnds
<1>8. UNCHANGED vars => UNCHANGED procVars
  BY DEF vars
<1> QED
  BY <1>2, <1>3, <1>4, <1>5, <1>6, <1>7, <1>8 DEF Next

LEMMA LeftBehindStays ==
  ASSUME MInv, LeftBehind, [Next]_vars, overtaken' = {}
  PROVE  LeftBehind'
<1> SUFFICES ASSUME NEW p \in Reconcilers \cup Operators, pc'[p] \in Checking, ~view'[p].current
             PROVE  \/ view'[p].no < attempts'[view'[p].event]
                    \/ dstate'[view'[p].event] \in Moved
  BY DEF LeftBehind
<1>1. TypeOK /\ TypeOK' /\ p \in Procs
  BY NextTypes DEF MInv, IInv, Procs
<1>2. /\ view'[p].event \in Events /\ view'[p].no \in Nat
      /\ \A e \in Events : attempts[e] \in Nat /\ attempts'[e] \in Nat
  BY <1>1, PolicyAssumption DEF TypeOK, View
<1>3. \A e \in Events : attempts[e] <= attempts'[e] /\ (dstate[e] \in Moved => dstate'[e] \in Moved)
  BY RowsProgress
<1>4. CASE /\ pc[p] \in Checking /\ view'[p].event = view[p].event
           /\ view'[p].no = view[p].no /\ view'[p].current = view[p].current
  BY <1>2, <1>3, <1>4 DEF LeftBehind
<1>5. ASSUME NEW r \in Requests, Open(p, r)
      PROVE  \/ view'[p].no < attempts'[view'[p].event]
             \/ dstate'[view'[p].event] \in Moved
  <2> DEFINE e == r[1]
             n == r[2]
             b == Current(r)
             o == recorded[r]
             w == [NoView EXCEPT !.event = e, !.no = n, !.was = o, !.current = b]
  <2>1. view' = [view EXCEPT ![p] = w] /\ internal[r] # "none" /\ UNCHANGED <<attempts, dstate>>
    BY <1>5 DEF Open, rowVars
  <2>2. w.event = e /\ w.no = n /\ w.current = b
    <3> HIDE DEF e, n, o, b
    <3> QED
      BY NoViewType DEF View
  <2> HIDE DEF w
  <2>3. view'[p].event = e /\ view'[p].no = n /\ ~Current(r)
    BY <1>1, <2>1, <2>2 DEF TypeOK
  <2>4. ~(n > attempts[e])
    BY <2>1 DEF MInv, IInv, FreshUntouched
  <2>5. n < attempts[e] \/ dstate[e] \in Moved
    BY <1>2, <2>3, <2>4 DEF Current, Moved
  <2> QED
    BY <2>1, <2>3, <2>5
<1> QED
  BY <1>1, <1>4, <1>5, ExaminesOrOpens

LEMMA InSightAlone ==
  ASSUME TypeOK, NEW e \in Events, InSight(e), dstate'[e] = dstate[e], attempts'[e] = attempts[e],
         standing'[e] = standing[e], noted \subseteq noted',
         attempts[e] # 0 /\ dstate[e] \in {"sending", "held_uncertain"} =>
           /\ internal'[<<e, attempts[e]>>] = internal[<<e, attempts[e]>>]
           /\ recorded'[<<e, attempts[e]>>] = recorded[<<e, attempts[e]>>]
  PROVE  InSight(e)'
BY DEF InSight, Unresolved, NotTerminal

LEMMA EnvironmentInSight ==
  ASSUME SightInv, Environment
  PROVE  \A e \in Events : InSight(e)'
<1> USE DEF rowVars, tryVars, rateVars, envVars, hostVars, procVars
<1> SUFFICES ASSUME NEW e \in Events PROVE InSight(e)'
  OBVIOUS
<1>1. TypeOK /\ InSight(e) /\ (dstate[e] = "absent" => attempts[e] = 0)
  BY DEF SightInv, MInv, IInv, AbsentUnattempted
<1>2. UNCHANGED <<attempts, internal, recorded>>
  BY DEF Environment, Enqueue, AcceptSuccessor, AnnotatePredecessor, Acknowledge, BackoffEnds,
         ReleaseExpiredLease, AdvanceGeneration, SetStatus, IntervalEnds, HourEnds
<1>3. ASSUME NEW f \in Events, AcceptSuccessor(f) PROVE InSight(e)'
  <2>1. UNCHANGED <<dstate, noted>> /\ standing'[e] \in {standing[e], "replaced"}
    BY <1>1, <1>3 DEF AcceptSuccessor, TypeOK
  <2> QED
    BY <1>1, <1>2, <2>1 DEF InSight, Unresolved, NotTerminal
<1>4. CASE AdvanceGeneration
  <2>1. UNCHANGED dstate /\ (NotTerminal(e) => e \in noted')
    BY <1>4 DEF AdvanceGeneration
  <2> QED
    BY <1>1, <1>2, <2>1 DEF InSight, Unresolved, NotTerminal
<1>5. ASSUME NEW f \in Events, Enqueue(f) \/ ReleaseExpiredLease(f) \/ Acknowledge(f)
      PROVE  InSight(e)'
  <2>1. /\ UNCHANGED <<standing, noted>>
        /\ \/ dstate'[e] = dstate[e]
           \/ dstate[e] = "absent" /\ dstate'[e] = "queued"
           \/ dstate[e] = "sending" /\ dstate'[e] = "held_uncertain"
           \/ dstate'[e] = "acknowledged"
    BY <1>1, <1>5 DEF Enqueue, ReleaseExpiredLease, Acknowledge, TypeOK
  <2> QED
    BY <1>1, <1>2, <2>1 DEF InSight, Unresolved, NotTerminal, Claimable, Outstanding
<1>6. CASE \/ (\E f \in Events : AnnotatePredecessor(f) \/ BackoffEnds(f))
           \/ SetStatus \/ IntervalEnds \/ HourEnds
  <2>1. UNCHANGED <<dstate, standing>> /\ noted \subseteq noted'
    BY <1>6 DEF AnnotatePredecessor, BackoffEnds, SetStatus, IntervalEnds, HourEnds
  <2> QED
    BY <1>1, <1>2, <2>1, InSightAlone
<1> QED
  BY <1>3, <1>4, <1>5, <1>6 DEF Environment

LEMMA SenderInSight ==
  ASSUME SightInv, overtaken' = {}, NEW s \in Senders, SenderStep(s)
  PROVE  \A e \in Events : InSight(e)'
<1> USE DEF rowVars, tryVars, rateVars, envVars, hostVars, procVars
<1> DEFINE x == view[s].event
<1>0. /\ TypeOK /\ s \in Procs /\ x \in Events /\ MInv
      /\ pc[s] = "looked" => view[s].state \in Claimable
  BY DEF SightInv, MInv, IInv, TypeOK, ReadingsTrue, Procs, View
<1> SUFFICES ASSUME NEW e \in Events PROVE InSight(e)'
  OBVIOUS
<1>1. InSight(e) /\ attempts[e] \in Nat
  BY <1>0, PolicyAssumption DEF SightInv, TypeOK
<1>2. CASE Reschedule(s) \/ DeferBusy(s) \/ Withhold(s) \/ Suppress(s)
  <2>1. /\ UNCHANGED <<attempts, internal, recorded, standing>> /\ noted \subseteq noted'
        /\ \/ dstate'[e] = dstate[e]
           \/ dstate[e] \in Claimable /\ dstate'[e] \in Claimable \cup {"superseded"}
    BY <1>0, <1>2
       DEF Reschedule, DeferBusy, Withhold, Suppress, PutOff, Unmoved, TypeOK, Claimable
  <2> QED
    BY <1>1, <2>1 DEF InSight, Unresolved, NotTerminal, Claimable, Outstanding
<1>3. CASE Claim(s)
  <2> DEFINE n == attempts[x] + 1
  <2>1. /\ dstate' = [dstate EXCEPT ![x] = "sending"] /\ attempts' = [attempts EXCEPT ![x] = n]
        /\ internal' = [internal EXCEPT ![<<x, n>>] = "in_flight"]
        /\ recorded' = [recorded EXCEPT ![<<x, n>>] = "held_uncertain"]
        /\ standing[x] = "current" /\ attempts[x] < AttemptBound /\ UNCHANGED <<standing, noted>>
    BY <1>3 DEF Claim, InsertAttempt, Stale
  <2>2. n \in 1..AttemptBound /\ n # 0
    BY <1>0, <2>1, PolicyAssumption DEF TypeOK
  <2> HIDE DEF n, x
  <2>3. CASE e # x
    <3>1. attempts[e] # 0 => /\ internal'[<<e, attempts[e]>>] = internal[<<e, attempts[e]>>]
                             /\ recorded'[<<e, attempts[e]>>] = recorded[<<e, attempts[e]>>]
      BY <1>0, <1>1, <2>1, <2>3 DEF TypeOK, Requests
    <3> QED
      BY <1>0, <1>1, <2>1, <2>3, <3>1, InSightAlone DEF TypeOK
  <2>4. CASE e = x
    <3>1. /\ attempts'[e] = n /\ internal'[<<e, n>>] = "in_flight"
          /\ standing'[e] = "current"
      BY <1>0, <2>1, <2>2, <2>4 DEF TypeOK, Requests
    <3> QED
      BY <2>2, <3>1 DEF InSight, Unresolved
  <2> QED
    BY <2>3, <2>4
<1>4. CASE Settle(s)
  <2> DEFINE n == view[s].no
             f == Classify(view[s].got)
  <2>1. /\ n \in 1..AttemptBound /\ attempts[x] = n /\ dstate[x] \in {"sending", "held_uncertain"}
        /\ dstate' = [dstate EXCEPT ![x] = f.state]
        /\ internal' = [internal EXCEPT ![<<x, n>>] = "settled"] /\ UNCHANGED attempts
    BY <1>0, <1>4, SettleOwn
  <2>2. /\ recorded' = [recorded EXCEPT ![<<x, n>>] = f.state]
        /\ UNCHANGED <<standing, noted>>
    BY <1>4 DEF Settle
  <2> HIDE DEF n, x, f
  <2>3. CASE e # x
    <3>1. attempts[e] # 0 => /\ internal'[<<e, attempts[e]>>] = internal[<<e, attempts[e]>>]
                             /\ recorded'[<<e, attempts[e]>>] = recorded[<<e, attempts[e]>>]
      BY <1>0, <1>1, <2>1, <2>2, <2>3 DEF TypeOK, Requests
    <3> QED
      BY <1>0, <1>1, <2>1, <2>2, <2>3, <3>1, InSightAlone DEF TypeOK
  <2>4. CASE e = x
    <3>1. /\ attempts'[e] = n /\ dstate'[e] = f.state /\ n # 0
          /\ internal'[<<e, n>>] = "settled" /\ recorded'[<<e, n>>] = f.state
      BY <1>0, <2>1, <2>2, <2>4, PolicyAssumption DEF TypeOK, Requests
    <3>2. NotTerminal(e) /\ attempts[e] # 0
      BY <2>1, <2>4, <3>1 DEF NotTerminal, Outstanding
    <3>3. standing'[e] = "old_generation" => e \in noted'
      BY <1>1, <2>2, <3>2 DEF InSight
    <3>4. dstate'[e] \in {"sending", "held_uncertain"} =>
            attempts'[e] # 0 /\ Unresolved(<<e, attempts[e]>>)'
      <4>1. f.state # "sending"
        BY <1>0, ClassifyType DEF TypeOK, View, f, Outcomes
      <4>2. attempts[e] = n
        BY <2>1, <2>4
      <4> QED
        BY <3>1, <4>1, <4>2 DEF Unresolved
    <3>5. attempts'[e] = attempts[e]
      BY <2>1
    <3> QED
      BY <3>3, <3>4, <3>5 DEF InSight
  <2> QED
    BY <2>3, <2>4
<1>5. CASE \/ (\E f \in Events : Look(s, f)) \/ WithinRate(s) \/ ClearToSend(s)
           \/ NotClaimable(s) \/ Submit(s) \/ LockedOut(s) \/ Answered(s) \/ GiveUp(s)
  <2>1. UNCHANGED <<dstate, attempts, internal, recorded, standing, noted>>
    BY <1>5 DEF Look, WithinRate, ClearToSend, NotClaimable, Submit, LockedOut, Answered,
                GiveUp, Receive
  <2> QED
    BY <1>0, <1>1, <2>1, InSightAlone
<1> QED
  BY <1>2, <1>3, <1>4, <1>5 DEF SenderStep

\* A reconciler that leaves a delivery held says so of the attempt.
LEMMA VerdictHolds ==
  ASSUME NEW p, Verdict(p).state = "held_uncertain"
  PROVE  Verdict(p).record = "held_uncertain"
<1> DEFINE f == Classify(view[p].got)
<1>1. CASE Settling(view[p].got)
  BY <1>1 DEF Verdict
<1>2. CASE ~Settling(view[p].got)
  BY <1>2 DEF Verdict
<1> QED
  BY <1>1, <1>2

LEMMA WriteInSight ==
  ASSUME SightInv, NEW p \in Reconcilers \cup Operators, Write(p)
  PROVE  \A e \in Events : InSight(e)'
<1> DEFINE x == view[p].event
           n == view[p].no
           w == Verdict(p)
<1>0. TypeOK /\ IInv /\ MInv /\ p \in Procs
  BY DEF SightInv, MInv, IInv, Procs
<1>1. /\ x \in Events /\ n \in 1..AttemptBound /\ n # 0 /\ pc[p] \in Checking
      /\ n <= attempts[x] /\ attempts[x] \in Nat
  BY <1>0, PolicyAssumption DEF Write, IInv, WorksOnOpened, TypeOK, View, Checking
<1>2. /\ internal' = [internal EXCEPT ![<<x, n>>] = "settled"]
      /\ recorded' = [recorded EXCEPT ![<<x, n>>] = w.record]
      /\ dstate' = IF Moves(p) THEN [dstate EXCEPT ![x] = w.state] ELSE dstate
      /\ UNCHANGED <<attempts, standing, noted>>
  BY DEF Write, envVars
<1>3. Moves(p) => attempts[x] = n /\ dstate[x] \notin Moved
  BY DEF Moves, Current, RequestOf, Moved
<1>4. ~Moves(p) => n < attempts[x] \/ dstate[x] \in Moved
  <2>1. ~Moves(p) => ~view[p].current \/ ~Current(RequestOf(p))
    BY DEF Moves
  <2>2. ~view[p].current => n < attempts[x] \/ dstate[x] \in Moved
    BY <1>1 DEF SightInv, LeftBehind
  <2>3. ~Current(RequestOf(p)) => n < attempts[x] \/ dstate[x] \in Moved
    BY <1>1 DEF Current, RequestOf, Moved
  <2> QED
    BY <2>1, <2>2, <2>3
<1>5. /\ w.state \in {"dispatched", "deferred_busy", "withheld_pre_send", "held_uncertain"}
      /\ w.state = "held_uncertain" => w.record = "held_uncertain"
  BY <1>0, VerdictKinds, VerdictHolds
<1> HIDE DEF x, n, w
<1> SUFFICES ASSUME NEW e \in Events PROVE InSight(e)'
  OBVIOUS
<1>6. InSight(e) /\ attempts[e] \in Nat /\ attempts[e] \in 0..AttemptBound
  BY <1>0, PolicyAssumption DEF SightInv, TypeOK
<1>7. CASE e # x \/ ~Moves(p)
  <2>1. dstate'[e] = dstate[e]
    BY <1>0, <1>2, <1>7 DEF TypeOK
  <2>2. attempts[e] # 0 /\ dstate[e] \in {"sending", "held_uncertain"} =>
          <<e, attempts[e]>> # <<x, n>>
    BY <1>1, <1>4, <1>7 DEF Moved
  <2>3. attempts[e] # 0 /\ dstate[e] \in {"sending", "held_uncertain"} =>
          /\ internal'[<<e, attempts[e]>>] = internal[<<e, attempts[e]>>]
          /\ recorded'[<<e, attempts[e]>>] = recorded[<<e, attempts[e]>>]
    BY <1>0, <1>2, <1>6, <2>2 DEF TypeOK, Requests
  <2> QED
    BY <1>0, <1>2, <1>6, <2>1, <2>3, InSightAlone
<1>8. CASE e = x /\ Moves(p)
  <2>1. /\ dstate'[e] = w.state /\ attempts'[e] = n /\ attempts[e] = n
        /\ internal'[<<e, n>>] = "settled" /\ recorded'[<<e, n>>] = w.record
    BY <1>0, <1>1, <1>2, <1>3, <1>8 DEF TypeOK, Requests
  <2>2. NotTerminal(e)
    <3>1. dstate[e] \in DStates /\ dstate[e] # "absent" /\ dstate[e] \notin Moved
      BY <1>0, <1>1, <1>3, <1>8 DEF TypeOK, IInv, AbsentUnattempted
    <3> QED
      BY <3>1 DEF NotTerminal, DStates, Moved
  <2>3. standing'[e] = "old_generation" => e \in noted'
    BY <1>1, <1>2, <1>6, <2>1, <2>2 DEF InSight
  <2>4. dstate'[e] \in {"sending", "held_uncertain"} => Unresolved(<<e, attempts[e]>>)'
    BY <1>5, <2>1 DEF Unresolved
  <2> QED
    BY <1>1, <2>1, <2>3, <2>4 DEF InSight
<1> QED
  BY <1>7, <1>8

LEMMA NextKeepsSight ==
  ASSUME SightInv, [Next]_vars, overtaken' = {}
  PROVE  SightInv'
<1> USE DEF rowVars, tryVars, rateVars, envVars, hostVars, procVars
<1>1. MInv' /\ LeftBehind' /\ TypeOK
  BY NextKeepsMInv, LeftBehindStays DEF SightInv, MInv, IInv
<1> SUFFICES \A e \in Events : InSight(e)'
  BY <1>1 DEF SightInv
<1>2. ASSUME UNCHANGED <<dstate, attempts, internal, recorded, standing, noted>>
      PROVE  \A e \in Events : InSight(e)'
  BY <1>1, <1>2, InSightAlone DEF SightInv
<1>3. CASE Environment
  BY <1>3, EnvironmentInSight
<1>4. ASSUME NEW s \in Senders, SenderStep(s) PROVE \A e \in Events : InSight(e)'
  BY <1>4, SenderInSight
<1>5. ASSUME NEW r \in Requests, WorkerStep(r) PROVE \A e \in Events : InSight(e)'
  BY <1>2, <1>5 DEF WorkerStep, WorkerExpires, WorkerBegins, WorkerResumes, HostStartsTurn,
                    WorkerSaves, ledgerOnly
<1>6. ASSUME NEW p \in Reconcilers \cup Operators, ReconcilerStep(p)
      PROVE  \A e \in Events : InSight(e)'
  <2>1. CASE Write(p)
    BY <2>1, WriteInSight
  <2>2. CASE (\E r \in Requests : Open(p, r)) \/ ReadReceipt(p) \/ Scan(p)
    BY <1>2, <2>2 DEF Open, ReadReceipt, Scan
  <2> QED
    BY <1>6, <2>1, <2>2 DEF ReconcilerStep, OpenUnresolved, OpenByHand
<1>7. ASSUME NEW p \in Procs, Crash(p) PROVE \A e \in Events : InSight(e)'
  BY <1>2, <1>7 DEF Crash
<1>8. CASE UNCHANGED vars
  BY <1>2, <1>8 DEF vars
<1> QED
  BY <1>3, <1>4, <1>5, <1>6, <1>7, <1>8 DEF Next

LEMMA InitSight == Init => SightInv
<1> SUFFICES ASSUME Init PROVE SightInv
  OBVIOUS
<1>1. MInv
  BY InitMInv
<1>2. LeftBehind
  BY DEF Init, LeftBehind, Procs, Checking
<1>3. \A e \in Events : InSight(e)
  BY DEF Init, InSight
<1> QED
  BY <1>1, <1>2, <1>3 DEF SightInv

LEMMA SightForgetsNothing ==
  ASSUME SightInv
  PROVE  NothingIsForgotten
<1>1. MInv /\ IInv /\ \A e \in Events : InSight(e) /\ attempts[e] \in 0..AttemptBound
  BY DEF SightInv, MInv, IInv, TypeOK
<1>2. UnresolvedIsFindable
  <2> SUFFICES ASSUME NEW e \in Events, dstate[e] \in {"sending", "held_uncertain"}
               PROVE  \E n \in 1..AttemptBound : Unresolved(<<e, n>>)
    BY DEF UnresolvedIsFindable
  <2>1. attempts[e] \in 1..AttemptBound /\ Unresolved(<<e, attempts[e]>>)
    BY <1>1, PolicyAssumption DEF InSight
  <2> QED
    BY <2>1
<1>3. OutstandingStaleIsNoted
  <2> SUFFICES ASSUME NEW e \in Events, standing[e] = "old_generation",
                      dstate[e] \in Outstanding
               PROVE  e \in noted
    BY DEF OutstandingStaleIsNoted
  <2>1. attempts[e] # 0
    <3>1. CASE dstate[e] \in {"sending", "held_uncertain"}
      BY <1>1, <3>1 DEF InSight
    <3>2. CASE dstate[e] \in {"dispatched", "inbox_only"}
      BY <1>1, <3>2 DEF IInv, MInv, ReachedIsSettled, NothingOvertaken
    <3> QED
      BY <3>1, <3>2 DEF Outstanding
  <2>2. NotTerminal(e)
    BY DEF NotTerminal
  <2> QED
    BY <1>1, <2>1, <2>2 DEF InSight
<1> QED
  BY <1>2, <1>3 DEF NothingIsForgotten

-----------------------------------------------------------------------------
(***************************************************************************)
(* One daemon: the only sender is the only reconciler, and it does one     *)
(* thing at a time, so between its claim and its settlement nothing else   *)
(* settles or reopens the attempt.                                         *)
(***************************************************************************)
OneDaemon == \E d : Senders = {d} /\ Reconcilers = {d} /\ Operators = {}

StillItsOwn ==
  \A s \in Senders : pc[s] \in Sending =>
    internal[RequestOf(s)] = "in_flight" /\ attempts[view[s].event] = view[s].no

Undisturbed == TypeOK /\ NothingOvertaken /\ StillItsOwn

LEMMA NextUndisturbed ==
  ASSUME OneDaemon, Undisturbed, [Next]_vars
  PROVE  Undisturbed'
<1> USE DEF rowVars, tryVars, rateVars, envVars, hostVars, procVars, Goto
<1>1. TypeOK /\ TypeOK'
  BY NextTypes DEF Undisturbed
<1>d. PICK d : Senders = {d} /\ Reconcilers = {d} /\ Operators = {} /\ Procs = {d}
  BY DEF OneDaemon, Procs
<1>v. view[d] \in View /\ view[d].event \in Events /\ view[d].no \in 0..AttemptBound
  BY <1>1, <1>d DEF TypeOK, View
<1>g. SUFFICES /\ overtaken' = {}
               /\ pc'[d] \in Sending => /\ internal'[RequestOf(d)'] = "in_flight"
                                        /\ attempts'[view'[d].event] = view'[d].no
  BY <1>1, <1>d DEF Undisturbed, NothingOvertaken, StillItsOwn
<1>o. /\ overtaken = {}
      /\ pc[d] \in Sending => /\ internal[RequestOf(d)] = "in_flight"
                              /\ attempts[view[d].event] = view[d].no
  BY <1>d DEF Undisturbed, NothingOvertaken, StillItsOwn
<1>2. ASSUME UNCHANGED <<attempts, internal, overtaken>>, pc'[d] \in Sending => pc[d] \in Sending,
             pc[d] \in Sending => view'[d].event = view[d].event /\ view'[d].no = view[d].no
      PROVE  /\ overtaken' = {}
             /\ pc'[d] \in Sending => /\ internal'[RequestOf(d)'] = "in_flight"
                                      /\ attempts'[view'[d].event] = view'[d].no
  BY <1>o, <1>2 DEF RequestOf
<1>3. ASSUME UNCHANGED <<attempts, internal, overtaken, procVars>>
      PROVE  /\ overtaken' = {}
             /\ pc'[d] \in Sending => /\ internal'[RequestOf(d)'] = "in_flight"
                                      /\ attempts'[view'[d].event] = view'[d].no
  BY <1>2, <1>3
<1>4. CASE Environment
  BY <1>3, <1>4 DEF Environment, Enqueue, AcceptSuccessor, AnnotatePredecessor, Acknowledge,
                    BackoffEnds, ReleaseExpiredLease, AdvanceGeneration, SetStatus,
                    IntervalEnds, HourEnds
<1>5. CASE SenderStep(d)
  <2>1. CASE Claim(d)
    <3> DEFINE e == view[d].event
               n == attempts[e] + 1
               w == [view[d] EXCEPT !.no = n]
    <3>1. /\ attempts' = [attempts EXCEPT ![e] = n]
          /\ internal' = [internal EXCEPT ![<<e, n>>] = "in_flight"]
          /\ view' = [view EXCEPT ![d] = w] /\ attempts[e] < AttemptBound /\ UNCHANGED overtaken
      BY <2>1 DEF Claim, InsertAttempt
    <3>2. w.event = e /\ w.no = n
      BY <1>v DEF View
    <3>3. n \in 1..AttemptBound
      BY <1>1, <1>v, <3>1, PolicyAssumption DEF TypeOK
    <3> HIDE DEF w, n
    <3>4. view'[d] = w /\ RequestOf(d)' = <<e, n>>
      BY <1>1, <1>d, <3>1, <3>2 DEF TypeOK, RequestOf
    <3>5. internal'[<<e, n>>] = "in_flight" /\ attempts'[e] = n
      BY <1>1, <1>v, <3>1, <3>3 DEF TypeOK, Requests
    <3> QED
      BY <1>o, <3>1, <3>2, <3>4, <3>5
  <2>2. CASE Settle(d)
    <3>1. pc[d] = "returned" /\ pc' = [pc EXCEPT ![d] = "idle"]
          /\ overtaken' = IF /\ internal[RequestOf(d)] = "in_flight"
                             /\ attempts[view[d].event] = view[d].no
                          THEN overtaken ELSE overtaken \cup {view[d].event}
      BY <2>2 DEF Settle, RequestOf
    <3> QED
      BY <1>1, <1>d, <1>o, <3>1 DEF TypeOK, Sending
  <2>3. CASE \/ (\E e \in Events : Look(d, e)) \/ WithinRate(d) \/ ClearToSend(d)
             \/ NotClaimable(d) \/ Reschedule(d) \/ DeferBusy(d) \/ Withhold(d) \/ Suppress(d)
    <3>1. UNCHANGED <<attempts, internal, overtaken>> /\ pc[d] \notin Sending
          /\ pc'[d] \in {"idle", "looked", "clear", "unsuppressed"}
      BY <1>1, <1>d, <2>3 DEF Look, WithinRate, ClearToSend, NotClaimable, Reschedule, DeferBusy,
                              Withhold, Suppress, PutOff, TypeOK, Sending
    <3> QED
      BY <1>2, <3>1 DEF Sending
  <2>4. CASE Submit(d)
    BY <1>1, <1>2, <1>d, <2>4 DEF Submit, TypeOK, Sending
  <2>5. CASE LockedOut(d) \/ Answered(d) \/ GiveUp(d)
    <3>1. PICK receipt : view' = [view EXCEPT ![d].got = receipt]
      BY <2>5 DEF LockedOut, Answered, GiveUp, Receive
    <3>2. view'[d].event = view[d].event /\ view'[d].no = view[d].no
      BY <1>1, <1>d, <1>v, <3>1 DEF TypeOK, View
    <3>3. UNCHANGED <<attempts, internal, overtaken>> /\ pc[d] \in Sending
      BY <2>5 DEF LockedOut, Answered, GiveUp, Receive, Sending
    <3> QED
      BY <1>2, <3>2, <3>3
  <2> QED
    BY <1>5, <2>1, <2>2, <2>3, <2>4, <2>5 DEF SenderStep
<1>6. ASSUME NEW r \in Requests, WorkerStep(r)
      PROVE  UNCHANGED <<attempts, internal, overtaken, procVars>>
  BY <1>6 DEF WorkerStep, WorkerExpires, WorkerBegins, WorkerResumes, HostStartsTurn,
              WorkerSaves, ledgerOnly
<1>7. CASE ReconcilerStep(d)
  <2>1. CASE Write(d)
    <3>1. UNCHANGED overtaken /\ pc'[d] = "idle"
      BY <1>1, <1>d, <2>1 DEF Write, TypeOK
    <3> QED
      BY <1>o, <3>1 DEF Sending
  <2>2. CASE (\E r \in Requests : Open(d, r)) \/ ReadReceipt(d) \/ Scan(d)
    <3>1. UNCHANGED <<attempts, internal, overtaken>> /\ pc[d] \notin Sending
          /\ pc'[d] \in Checking
      BY <1>1, <1>d, <2>2 DEF Open, ReadReceipt, Scan, TypeOK, Sending, Checking
    <3> QED
      BY <1>2, <3>1 DEF Sending, Checking
  <2> QED
    BY <1>7, <2>1, <2>2 DEF ReconcilerStep, OpenUnresolved, OpenByHand
<1>8. CASE Crash(d)
  <2>1. UNCHANGED <<attempts, internal, overtaken>> /\ pc'[d] = "idle"
    BY <1>1, <1>d, <1>8 DEF Crash, TypeOK
  <2> QED
    BY <1>o, <2>1 DEF Sending
<1>9. CASE UNCHANGED vars
  BY <1>3, <1>9 DEF vars
<1> QED
  BY <1>d, <1>3, <1>4, <1>5, <1>6, <1>7, <1>8, <1>9 DEF Next

LEMMA InitUndisturbed == Init => Undisturbed
<1> SUFFICES ASSUME Init PROVE Undisturbed
  OBVIOUS
<1>1. TypeOK /\ overtaken = {} /\ \A s \in Senders : pc[s] = "idle"
  BY InitTypes DEF Init, Procs
<1> QED
  BY <1>1 DEF Undisturbed, NothingOvertaken, StillItsOwn, Sending

-----------------------------------------------------------------------------
(***************************************************************************)
(* The results.                                                            *)
(***************************************************************************)
\* As long as no sender settles an attempt behind another process's back, whatever runs beside
\* whatever, the delivery half implements Handoff: each event is given at most once, only while it
\* is neither withdrawn nor closed, and reported only when it was given.
THEOREM PromiseKept == Spec /\ []NothingOvertaken => HandedOffOnce
<1>1. Init => MInv /\ Promise!Init
  BY InitMInv, InitKeepsPromise
<1>2. MInv /\ [Next]_vars /\ NothingOvertaken' => MInv'
  BY NextKeepsMInv DEF NothingOvertaken
<1>3. MInv /\ [Next]_vars /\ NothingOvertaken' => [Promise!Next]_(Promise!vars)
  BY StepKeepsPromise DEF NothingOvertaken
<1> QED
  BY <1>1, <1>2, <1>3, PTL DEF Spec, HandedOffOnce, Promise!Spec

\* One daemon that both sends and reconciles, with no operator beside it, never settles an attempt
\* that is no longer its own, however often it dies in between.
THEOREM NoneOvertaken == ASSUME OneDaemon PROVE Spec => []NothingOvertaken
<1>1. Init => Undisturbed
  BY InitUndisturbed
<1>2. Undisturbed /\ [Next]_vars => Undisturbed'
  BY NextUndisturbed
<1>3. Undisturbed => NothingOvertaken
  BY DEF Undisturbed
<1> QED
  BY <1>1, <1>2, <1>3, PTL DEF Spec

\* The daemon hands every event off at most once, whatever is lost, times out, crashes or is
\* retried: the delivery half of one daemon implements Handoff.
THEOREM OneDaemonKeepsThePromise == ASSUME OneDaemon PROVE Spec => HandedOffOnce
<1>1. Spec => []NothingOvertaken
  BY NoneOvertaken
<1> QED
  BY <1>1, PromiseKept, PTL

\* As long as no sender settles an attempt behind another process's back, no delivery drops out of
\* sight: what is unresolved is found by the reconciler, what outlived its generation is annotated.
THEOREM NothingForgotten == Spec /\ []NothingOvertaken => []NothingIsForgotten
<1>1. Init => SightInv
  BY InitSight
<1>2. SightInv /\ [Next]_vars /\ NothingOvertaken' => SightInv'
  BY NextKeepsSight DEF NothingOvertaken
<1>3. SightInv => NothingIsForgotten
  BY SightForgetsNothing
<1> QED
  BY <1>1, <1>2, <1>3, PTL DEF Spec

\* The same of the daemon, which has nobody beside it.
THEOREM OneDaemonForgetsNothing == ASSUME OneDaemon PROVE Spec => []NothingIsForgotten
<1>1. Spec => []NothingOvertaken
  BY NoneOvertaken
<1> QED
  BY <1>1, NothingForgotten, PTL
=============================================================================
