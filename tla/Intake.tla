------------------------------- MODULE Intake -------------------------------
(***************************************************************************)
(* From the end of a child's turn to a queued delivery                     *)
(* (codex_session_relay/receipts.py, the emit command, the observing and   *)
(* requeueing passes of daemon.py).  A child claims a revision, usually    *)
(* from a turn that is still running: the claim is staged until the        *)
(* daemon has seen that turn end.  A turn that failed is reported by the   *)
(* daemon itself.  A child may serve several assignments in one turn, and  *)
(* each assignment settles the turn for itself.                            *)
(*                                                                         *)
(* An emit command and the daemon read the host and the registry outside   *)
(* their transactions; what they read is kept in emitter[p] and daemon.    *)
(* What a final event replaces is annotated in Delivery.                   *)
(***************************************************************************)
EXTENDS Integers, FiniteSets

CONSTANTS
  Assignments,    \* relationships that share the child task
  Turns,          \* turns of the child
  Revisions,      \* revision hashes
  Emitters,       \* processes that run emit
  None,           \* no turn, event or assignment
  MaxGeneration,  \* model bounds on: execution generations,
  MaxPauses,      \*   pauses and resumptions,
  MaxEmits,       \*   emit commands,
  MaxTrouble      \*   daemon crashes

Generations == 1..MaxGeneration

\* What an event id digests: of a reviewable revision neither the turn nor the producer, of an
\* outcome without a deliverable the turn it is about.
\* A child claims "ready", "blocked" or "failed", the daemon reports a failure it "observed".
Events == [a: Assignments, g: Generations, outcome: {"ready"}, of: Revisions]
            \cup [a: Assignments, g: Generations, outcome: {"blocked", "failed", "observed"},
                  of: Turns]

ASSUME IntakeAssumption ==
  /\ Assignments # {} /\ Turns # {}
  /\ None \notin Turns \cup Revisions \cup Assignments \cup Events
  /\ Turns \cap Revisions = {}
  /\ MaxGeneration \in Nat \ {0}
  /\ {MaxPauses, MaxEmits, MaxTrouble} \subseteq Nat

Ready(e) == e.outcome = "ready"

FromChild(e) == e.outcome # "observed"

\* "failed" stands for failed and interrupted.
TurnStatuses == {"running", "completed", "failed"}

\* Turn statuses that can carry an outcome: a negative one may be told of a turn that ended well.
Compatible(e) ==
  IF e.outcome \in {"ready", "blocked"} THEN {"completed", "running"} ELSE {"completed", "failed"}

VARIABLES
  \* relationships and generations
  active, generation, anchor,
  \* external: the turns of the child on the host
  host,
  \* events: stage, and the turn of the receipt that was stored; explicit admissions
  stage, turnOf, admitted,
  \* deliveries and delivery_intent rows, and the intents whose retry is due
  queued, intents, due,
  \* assignment_settlements
  settled,
  \* processes
  emitter, daemon,
  \* history: final events whose emitter ended without queueing them, and reports whose turn was
  \* settled without them
  unqueued,
  pauses, emits, trouble

relVars   == <<active, generation, anchor, pauses>>
eventVars == <<stage, turnOf, admitted>>
queueVars == <<queued, intents, due>>
vars == <<relVars, host, eventVars, queueVars, settled, emitter, daemon, unqueued, emits, trouble>>

Emitter == [phase: {"idle", "read", "checked", "contradicted", "stored"},
            event: Events, turn: Turns, status: TurnStatuses]

NoEmitter == [phase |-> "idle", event |-> CHOOSE e \in Events : TRUE,
              turn |-> CHOOSE t \in Turns : TRUE, status |-> "running"]

Daemon == [phase: {"idle", "selected", "observed", "asserting", "settling", "refused"},
           a: Assignments, turn: Turns, status: TurnStatuses, event: Events \cup {None}]

NoDaemon == [phase |-> "idle", a |-> CHOOSE a \in Assignments : TRUE,
             turn |-> CHOOSE t \in Turns : TRUE, status |-> "running", event |-> None]

Final == {e \in Events : stage[e] = "final"}

Deliverable(e) == e \in Final

TypeOK ==
  /\ active \in [Assignments -> BOOLEAN]
  /\ generation \in [Assignments -> Generations]
  /\ anchor \in [Assignments -> [Generations -> Turns \cup {None}]]
  /\ host \in [Turns -> TurnStatuses]
  /\ stage \in [Events -> {"absent", "staged", "final", "suppressed"}]
  /\ turnOf \in [Events -> Turns \cup {None}]
  /\ \A e \in Events : stage[e] = "absent" <=> turnOf[e] = None
  /\ admitted \in SUBSET (Assignments \X Generations \X Turns)
  /\ queued \in SUBSET Final /\ intents \in SUBSET Final /\ due \in SUBSET intents
  /\ settled \in SUBSET (Assignments \X Turns)
  /\ emitter \in [Emitters -> Emitter] /\ daemon \in Daemon
  /\ unqueued \in SUBSET Final
  /\ pauses \in 0..MaxPauses /\ emits \in 0..MaxEmits /\ trouble \in 0..MaxTrouble

Init ==
  /\ active \in [Assignments -> BOOLEAN]
  /\ generation = [a \in Assignments |-> 1]
  /\ \E first \in [Assignments -> Turns] :
       anchor = [a \in Assignments |-> [g \in Generations |-> IF g = 1 THEN first[a] ELSE None]]
  /\ host = [t \in Turns |-> "running"]
  /\ stage = [e \in Events |-> "absent"] /\ turnOf = [e \in Events |-> None]
  /\ admitted = {} /\ queued = {} /\ intents = {} /\ due = {} /\ settled = {} /\ unqueued = {}
  /\ emitter = [p \in Emitters |-> NoEmitter] /\ daemon = NoDaemon
  /\ pauses = 0 /\ emits = 0 /\ trouble = 0

Bound(a, g) == anchor[a][g] # None

Staged(a, t) == {e \in Events : e.a = a /\ turnOf[e] = t /\ stage[e] = "staged"}

-----------------------------------------------------------------------------
(* The host and the registry                                                 *)

TurnEnds(t) ==
  /\ host[t] = "running"
  /\ \E s \in {"completed", "failed"} : host' = [host EXCEPT ![t] = s]
  /\ UNCHANGED <<relVars, eventVars, queueVars, settled, emitter, daemon, unqueued, emits, trouble>>

PauseOrResume(a) ==
  /\ pauses < MaxPauses /\ pauses' = pauses + 1
  /\ active' = [active EXCEPT ![a] = ~active[a]]
  /\ UNCHANGED <<generation, anchor, host, eventVars, queueVars, settled, emitter, daemon,
                 unqueued, emits, trouble>>

OpenGeneration(a) ==
  /\ active[a] /\ generation[a] < MaxGeneration
  /\ generation' = [generation EXCEPT ![a] = @ + 1]
  /\ UNCHANGED <<active, anchor, pauses, host, eventVars, queueVars, settled, emitter, daemon,
                 unqueued, emits, trouble>>

\* A dispatch starts a turn of its own.
Fresh(a, t) ==
  /\ \A g \in Generations : anchor[a][g] # t /\ <<a, g, t>> \notin admitted
  /\ <<a, t>> \notin settled

BindAnchor(a, t) ==
  /\ ~Bound(a, generation[a]) /\ Fresh(a, t)
  /\ anchor' = [anchor EXCEPT ![a][generation[a]] = t]
  /\ UNCHANGED <<active, generation, pauses, host, eventVars, queueVars, settled, emitter, daemon,
                 unqueued, emits, trouble>>

-----------------------------------------------------------------------------
(* emit                                                                      *)

EmitterAt(p, phase) == emitter' = [emitter EXCEPT ![p].phase = phase]

TrustsTheCaller(e) == TurnStatuses   \* mutant

\* _observed_turn_status without a host: a readiness claim may only stage, and any other outcome
\* is taken at its word.
ClaimedStatuses(e) == IF Ready(e) THEN {"running"} ELSE TurnStatuses

\* The command begins: what the host says of the turn, or what the caller says.
ReadTurn(p, e, t) ==
  /\ emits < MaxEmits /\ emits' = emits + 1
  /\ emitter[p].phase = "idle"
  /\ FromChild(e) /\ e.of \in Revisions \cup {t}
  /\ active[e.a]
  /\ \E s \in {host[t]} \cup ClaimedStatuses(e) :
       emitter' = [emitter EXCEPT ![p] = [phase |-> "read", event |-> e, turn |-> t,
                                          status |-> s]]
  /\ UNCHANGED <<relVars, host, eventVars, queueVars, settled, daemon, unqueued, trouble>>

\* Opened, not behind the current one, and bound.
CheckGeneration(e) == e.g = generation[e.a] /\ Bound(e.a, e.g)

\* The anchor itself, or a turn admitted, and recorded so, on the child's own word that it
\* continues the anchor.
CheckTurnIdentity(e, t) ==
  admitted' = IF t = anchor[e.a][e.g] THEN admitted ELSE admitted \cup {<<e.a, e.g, t>>}

\* _accept: the admission is recorded in a transaction of its own, before the turn's status is
\* compared with the outcome.
Check(p) ==
  LET e == emitter[p].event
      t == emitter[p].turn
  IN
  /\ emitter[p].phase = "read"
  /\ active[e.a] /\ CheckGeneration(e) /\ CheckTurnIdentity(e, t)
  /\ EmitterAt(p, IF emitter[p].status \in Compatible(e) THEN "checked" ELSE "contradicted")
  /\ UNCHANGED <<relVars, host, stage, turnOf, queueVars, settled, daemon, unqueued, emits, trouble>>

\* _store_event: an event that exists keeps its stage and its turn; a new one is staged while its
\* turn runs.
StoreEvent(e, t, status) ==
  IF stage[e] # "absent" THEN UNCHANGED <<stage, turnOf>>
  ELSE /\ stage' = [stage EXCEPT ![e] = IF status = "running" THEN "staged" ELSE "final"]
       /\ turnOf' = [turnOf EXCEPT ![e] = t]

Store(p) ==
  /\ emitter[p].phase = "checked"
  /\ StoreEvent(emitter[p].event, emitter[p].turn, emitter[p].status)
  /\ EmitterAt(p, "stored")
  /\ UNCHANGED <<relVars, host, admitted, queueVars, settled, daemon, unqueued, emits, trouble>>

\* enqueue: final, active, and once; an intent is satisfied by it.
Enqueue(e) ==
  /\ Deliverable(e) /\ active[e.a]
  /\ queued' = queued \cup {e}
  /\ intents' = intents \ {e} /\ due' = due \ {e}

EmitQueues(p) ==
  /\ emitter[p].phase = "stored"
  /\ emitter[p].event \notin queued /\ Enqueue(emitter[p].event)
  /\ emitter' = [emitter EXCEPT ![p] = NoEmitter]
  /\ UNCHANGED <<relVars, host, eventVars, settled, daemon, unqueued, emits, trouble>>

\* The command ends without queueing: refused, told not to, its event not final or queued already,
\* or it died.
EmitStops(p) ==
  LET e == emitter[p].event IN
  /\ emitter[p].phase # "idle"
  /\ emitter' = [emitter EXCEPT ![p] = NoEmitter]
  /\ unqueued' = IF emitter[p].phase = "stored" /\ e \in Final \ queued
                 THEN unqueued \cup {e} ELSE unqueued
  /\ UNCHANGED <<relVars, host, eventVars, queueVars, settled, daemon, emits, trouble>>

-----------------------------------------------------------------------------
(* The daemon: observing turns                                               *)

\* Turns read for an assignment: its anchors, and the turns of its staged claims.
Candidates(a) ==
  ({anchor[a][g] : g \in Generations} \ {None}) \cup {t \in Turns : Staged(a, t) # {}}

WorthForAnyone(a, t) ==   \* mutant: one assignment's settlement closes the turn for all
  Staged(a, t) # {} \/ \A b \in Assignments : <<b, t>> \notin settled

WorthUnlessSettled(a, t) == <<a, t>> \notin settled   \* mutant: a late claim is not looked for

\* _worth_polling, and again _already_observed after the read.
WorthPolling(a, t) == Staged(a, t) # {} \/ <<a, t>> \notin settled

DaemonAt(phase) == daemon' = [daemon EXCEPT !.phase = phase]

Select(a, t) ==
  /\ daemon.phase = "idle"
  /\ active[a] /\ t \in Candidates(a) /\ WorthPolling(a, t)
  /\ daemon' = [NoDaemon EXCEPT !.phase = "selected", !.a = a, !.turn = t]
  /\ UNCHANGED <<relVars, host, eventVars, queueVars, settled, emitter, unqueued, emits, trouble>>

\* read_turn: ended, and not yet settled by this assignment, or with claims staged since.
Observe ==
  /\ daemon.phase = "selected"
  /\ host[daemon.turn] # "running" /\ WorthPolling(daemon.a, daemon.turn)
  /\ daemon' = [daemon EXCEPT !.phase = "observed", !.status = host[daemon.turn]]
  /\ UNCHANGED <<relVars, host, eventVars, queueVars, settled, emitter, unqueued, emits, trouble>>

\* Still running, unreadable, or nothing left to learn.
NothingToObserve ==
  /\ daemon.phase = "selected"
  /\ daemon' = NoDaemon
  /\ UNCHANGED <<relVars, host, eventVars, queueVars, settled, emitter, unqueued, emits, trouble>>

\* The turn is the anchor of the current generation, or admitted to it.
Admitted(a, t) ==
  LET g == generation[a] IN Bound(a, g) /\ (anchor[a][g] = t \/ <<a, g, t>> \in admitted)

ObservedFailure(a, t) == [a |-> a, g |-> generation[a], outcome |-> "observed", of |-> t]

PauseDefers(a) == ~active[a]

\* _synthesize: only of a failed turn; deferred while the assignment is paused; not asserted, but
\* settled, where the turn is not one of the current generation.
Synthesize ==
  LET a == daemon.a
      t == daemon.turn
  IN
  /\ daemon.phase = "observed"
  /\ daemon' =
       IF daemon.status = "completed" THEN [daemon EXCEPT !.phase = "settling"]
       ELSE IF PauseDefers(a) THEN NoDaemon
       ELSE IF active[a] /\ Admitted(a, t)
       THEN [daemon EXCEPT !.phase = "asserting", !.event = ObservedFailure(a, t)]
       ELSE [daemon EXCEPT !.phase = "settling"]
  /\ UNCHANGED <<relVars, host, eventVars, queueVars, settled, emitter, unqueued, emits, trouble>>

StoreObservation ==
  /\ daemon.phase = "asserting"
  /\ StoreEvent(daemon.event, daemon.turn, daemon.status)
  /\ DaemonAt("settling")
  /\ UNCHANGED <<relVars, host, admitted, queueVars, settled, emitter, unqueued, emits, trouble>>

\* resolve_staged_in: claims of a completed turn become final, of a failed one suppressed.
Finalized(claims, status) == IF status = "completed" THEN claims ELSE {}

\* What a settlement makes deliverable.
Queueable ==
  Finalized(Staged(daemon.a, daemon.turn), daemon.status)
    \cup (IF daemon.event = None THEN {} ELSE {daemon.event})

\* A report of this turn that is stored already, of a generation that is no longer the current
\* one, is not made again: who settles the turn has another report, or none.
PassedOver ==
  {e \in Final \ (queued \cup intents \cup {daemon.event}) :
     ~FromChild(e) /\ e.a = daemon.a /\ turnOf[e] = daemon.turn /\ e.g < generation[e.a]}

\* The claims of this assignment on this turn are resolved and the turn is settled for it.
Resolve ==
  LET claims == Staged(daemon.a, daemon.turn) IN
  /\ unqueued' = unqueued \cup PassedOver
  /\ stage' = [e \in Events |-> IF e \notin claims THEN stage[e]
                                ELSE IF e \in Queueable THEN "final" ELSE "suppressed"]
  /\ settled' = settled \cup {<<daemon.a, daemon.turn>>}

\* _commit_settlement in one transaction; an assignment that is not active refuses the queueing
\* and with it all of the transaction.
Settle ==
  /\ daemon.phase = "settling"
  /\ IF Queueable = {} \/ active[daemon.a]
     THEN Resolve /\ queued' = queued \cup Queueable /\ daemon' = NoDaemon
     ELSE UNCHANGED <<stage, settled, queued, unqueued>> /\ DaemonAt("refused")
  /\ UNCHANGED <<relVars, host, turnOf, admitted, intents, due, emitter, emits, trouble>>

ForgetsWhatWasWanted(events) == {}   \* mutant

Wanted(events) == events

\* The second commit records that delivery was wanted, to be tried again later.
SettleUnqueued ==
  /\ daemon.phase = "refused"
  /\ Resolve
  /\ intents' = intents \cup Wanted(Queueable) /\ due' = due \ Queueable
  /\ daemon' = NoDaemon
  /\ UNCHANGED <<relVars, host, turnOf, admitted, queued, emitter, emits, trouble>>

-----------------------------------------------------------------------------
(* The daemon: requeueing what was wanted                                    *)

IntentDue(e) ==
  /\ e \in intents \ due
  /\ due' = due \cup {e}
  /\ UNCHANGED <<relVars, host, eventVars, queued, intents, settled, emitter, daemon, unqueued,
                 emits, trouble>>

\* _requeue_missing: refused again, it backs off.
Requeue(e) ==
  /\ daemon.phase = "idle"
  /\ e \in due \ queued
  /\ \/ Enqueue(e)
     \/ ~active[e.a] /\ due' = due \ {e} /\ UNCHANGED <<queued, intents>>
  /\ UNCHANGED <<relVars, host, eventVars, settled, emitter, daemon, unqueued, emits, trouble>>

\* The daemon dies between any two of its transactions, or one of them is rolled back.
DaemonStops ==
  /\ daemon.phase # "idle"
  /\ trouble < MaxTrouble /\ trouble' = trouble + 1
  /\ daemon' = NoDaemon
  /\ UNCHANGED <<relVars, host, eventVars, queueVars, settled, emitter, unqueued, emits>>

DaemonWorks ==
  Observe \/ NothingToObserve \/ Synthesize \/ StoreObservation \/ Settle \/ SettleUnqueued

Next ==
  \/ \E t \in Turns : TurnEnds(t)
  \/ \E a \in Assignments : PauseOrResume(a) \/ OpenGeneration(a)
  \/ \E a \in Assignments, t \in Turns : BindAnchor(a, t) \/ Select(a, t)
  \/ \E p \in Emitters :
       \/ \E e \in Events, t \in Turns : ReadTurn(p, e, t)
       \/ Check(p) \/ Store(p) \/ EmitQueues(p) \/ EmitStops(p)
  \/ DaemonWorks \/ DaemonStops
  \/ \E e \in Events : IntentDue(e) \/ Requeue(e)

Spec == Init /\ [][Next]_vars

-----------------------------------------------------------------------------
(* Properties.                                                               *)

(* No readiness claim is delivered of a turn that did not end normally: not one emitted from a   *)
(* running turn that failed afterwards, nor one made without a host (resolve_staged).            *)
ReadyEndedNormally ==
  \A e \in Final : Ready(e) => host[turnOf[e]] = "completed"

(* Every final event is queued, owed by an intent, on its way to the queue, or due to be found   *)
(* again by the daemon.  Two kinds are not, and history counts them as unqueued: those whose     *)
(* emitter ended before it asked for delivery (_settle_turn), and a report the daemon stored and *)
(* did not settle, whose turn was then settled under a later generation without it (README,      *)
(* disagreements).                                                                               *)
FinalIsQueuedOrOwed ==
  \A e \in Final :
    \/ e \in queued \cup intents \cup unqueued
    \/ FromChild(e) /\ \E p \in Emitters : emitter[p].phase = "stored" /\ emitter[p].event = e
    \/ ~FromChild(e) /\ WorthPolling(e.a, turnOf[e])

(* _synthesize: a report is stored before the settlement, and "storing it separately does not    *)
(* lose it".                                                                                     *)
StoredReportIsFound == \A e \in unqueued : FromChild(e)

Told(a, t) == ObservedFailure(a, t) \in queued \cup intents

\* A turn that no earlier generation had; a claim for a later one from it may come between the
\* daemon's refusal to report it under that generation and its settlement.
NewIn(e) ==
  LET t == turnOf[e] IN
  \A g \in 1..(e.g - 1) : anchor[e.a][g] # t /\ <<e.a, g, t>> \notin admitted

(* A turn that failed is settled only together with the report of its failure, and a claim is    *)
(* suppressed only beside one, as long as the generation it is about is the current one and the  *)
(* turn was not an earlier one's (_synthesize).                                                  *)
FailureIsAccountedFor ==
  /\ \A a \in Assignments : LET t == anchor[a][generation[a]] IN
       <<a, t>> \in settled /\ host[t] = "failed" => Told(a, t)
  /\ \A e \in Events :
       stage[e] = "suppressed" /\ e.g = generation[e.a] /\ NewIn(e) => Told(e.a, turnOf[e])

(* Claims whose turn has ended do not stay staged while their assignment is active, however late  *)
(* they were made (_worth_polling).                                                              *)
ClaimsSettle ==
  \A a \in Assignments, t \in Turns :
    host[t] # "running" /\ Staged(a, t) # {} ~> Staged(a, t) = {} \/ ~active[a]

(* Each of the assignments that share a turn hears of its failure (_already_observed).           *)
FailureIsTold ==
  \A a \in Assignments, t \in Turns :
    host[t] = "failed" /\ anchor[a][generation[a]] = t ~>
      ObservedFailure(a, t) \in queued \/ ~active[a] \/ anchor[a][generation[a]] # t

(* A failure is never settled away unreported, and its report is queued in the end.              *)
FailuresAreReported == []FailureIsAccountedFor /\ FailureIsTold
=============================================================================
