---------------------------- MODULE IntakeProofs ----------------------------
(***************************************************************************)
(* What holds of intake for any assignments, turns, revisions and emit     *)
(* commands, and any bound of the model.                                   *)
(***************************************************************************)
EXTENDS Intake, TLAPS

(***************************************************************************)
(* The invariant that carries ReadyEndedNormally: whoever acts on a turn's *)
(* ending has it from the host.                                            *)
(***************************************************************************)

\* An emit command that claims readiness acts on what the host said, or on a turn taken to run.
EmitterHeard ==
  \A p \in Emitters :
    /\ emitter[p].phase # "idle" => FromChild(emitter[p].event)
    /\ emitter[p].phase \in {"read", "checked"} /\ Ready(emitter[p].event) =>
         emitter[p].status \in {"running", host[emitter[p].turn]}
    /\ emitter[p].phase = "checked" => emitter[p].status \in Compatible(emitter[p].event)

\* So does the daemon, of a turn that has ended; and what it reports itself is never staged.
DaemonHeard ==
  /\ daemon.phase \in {"observed", "asserting", "settling", "refused"} =>
       daemon.status = host[daemon.turn] /\ daemon.status # "running"
  /\ daemon.phase \in {"selected", "observed"} => daemon.event = None
  /\ daemon.phase = "asserting" => daemon.event \in Events /\ ~FromChild(daemon.event)
  /\ daemon.event # None => ~FromChild(daemon.event)
  /\ daemon.phase \in {"settling", "refused"} /\ daemon.event # None =>
       stage[daemon.event] = "final"

ReportsAreFinal ==
  \A e \in Events : ~FromChild(e) => stage[e] \in {"absent", "final"}

IInv == TypeOK /\ EmitterHeard /\ DaemonHeard /\ ReportsAreFinal /\ ReadyEndedNormally

-----------------------------------------------------------------------------

LEMMA Defaults == NoEmitter \in Emitter /\ NoDaemon \in Daemon
<1>1. PICK a \in Assignments, t \in Turns : TRUE
  BY IntakeAssumption
<1>2. 1 \in Generations
  BY IntakeAssumption DEF Generations
<1>3. [a |-> a, g |-> 1, outcome |-> "blocked", of |-> t] \in Events
  BY <1>1, <1>2 DEF Events
<1> QED
  BY <1>1, <1>3 DEF NoEmitter, Emitter, NoDaemon, Daemon, TurnStatuses

LEMMA ReportIsNotTheChilds ==
  ASSUME TypeOK, NEW a \in Assignments, NEW t \in Turns
  PROVE  /\ ObservedFailure(a, t) \in Events
         /\ ~FromChild(ObservedFailure(a, t)) /\ ~Ready(ObservedFailure(a, t))
BY DEF TypeOK, ObservedFailure, Events, FromChild, Ready

LEMMA InitInvariant == Init => IInv
<1> SUFFICES ASSUME Init PROVE IInv
  OBVIOUS
<1>1. TypeOK
  BY Defaults, IntakeAssumption
     DEF Init, TypeOK, Final, Generations, TurnStatuses
<1>2. EmitterHeard /\ DaemonHeard
  BY DEF Init, EmitterHeard, DaemonHeard, NoEmitter, NoDaemon
<1>3. ReportsAreFinal /\ ReadyEndedNormally
  BY DEF Init, ReportsAreFinal, ReadyEndedNormally, Final
<1> QED
  BY <1>1, <1>2, <1>3 DEF IInv

-----------------------------------------------------------------------------
(* The host and the registry                                                 *)

LEMMA TurnEndsKeeps ==
  ASSUME IInv, NEW t \in Turns, TurnEnds(t)
  PROVE  IInv'
<1> USE DEF IInv, TurnEnds, relVars, eventVars, queueVars
<1>1. TypeOK'
  BY DEF TypeOK, Final, TurnStatuses
<1>2. \A u \in Turns : host[u] # "running" => host'[u] = host[u]
  BY DEF TypeOK
<1>3. EmitterHeard'
  BY <1>2 DEF TypeOK, EmitterHeard, Emitter, FromChild, Ready, Compatible
<1>4. DaemonHeard' /\ ReportsAreFinal'
  BY <1>2 DEF TypeOK, DaemonHeard, ReportsAreFinal, Daemon, FromChild
<1>5. ReadyEndedNormally'
  BY <1>2 DEF TypeOK, ReadyEndedNormally, Final
<1> QED
  BY <1>1, <1>3, <1>4, <1>5

LEMMA RegistryKeeps ==
  ASSUME IInv, NEW a \in Assignments, NEW t \in Turns,
         PauseOrResume(a) \/ OpenGeneration(a) \/ BindAnchor(a, t)
  PROVE  IInv'
<1> USE DEF IInv, eventVars, queueVars
<1>1. TypeOK'
  <2>1. CASE PauseOrResume(a)
    BY <2>1, IntakeAssumption DEF TypeOK, Final, PauseOrResume
  <2>2. CASE OpenGeneration(a)
    BY <2>2, IntakeAssumption DEF TypeOK, Final, OpenGeneration, Generations, relVars
  <2>3. CASE BindAnchor(a, t)
    <3>1. anchor[a] \in [Generations -> Turns \cup {None}] /\ generation[a] \in Generations
      BY DEF TypeOK
    <3>2. anchor' \in [Assignments -> [Generations -> Turns \cup {None}]]
      BY <2>3, <3>1 DEF TypeOK, BindAnchor
    <3> QED
      BY <2>3, <3>2 DEF TypeOK, Final, BindAnchor
  <2> QED
    BY <2>1, <2>2, <2>3
<1>2. UNCHANGED <<host, stage, turnOf, emitter, daemon>>
  BY DEF PauseOrResume, OpenGeneration, BindAnchor
<1>3. (EmitterHeard /\ DaemonHeard /\ ReportsAreFinal /\ ReadyEndedNormally)'
  BY <1>2 DEF EmitterHeard, DaemonHeard, ReportsAreFinal, ReadyEndedNormally, Final
<1> QED
  BY <1>1, <1>3

-----------------------------------------------------------------------------
(* emit                                                                      *)

LEMMA ReadTurnKeeps ==
  ASSUME IInv, NEW p \in Emitters, NEW e \in Events, NEW t \in Turns, ReadTurn(p, e, t)
  PROVE  IInv'
<1> USE DEF IInv, relVars, eventVars, queueVars
<1>1. PICK s \in {host[t]} \cup ClaimedStatuses(e) :
        emitter' = [emitter EXCEPT ![p] = [phase |-> "read", event |-> e, turn |-> t,
                                           status |-> s]]
  BY DEF ReadTurn
<1>2. s \in TurnStatuses
  BY <1>1 DEF TypeOK, ClaimedStatuses, TurnStatuses
<1>3. TypeOK'
  BY <1>1, <1>2, IntakeAssumption DEF TypeOK, Final, ReadTurn, Emitter
<1>4. EmitterHeard'
  BY <1>1 DEF TypeOK, EmitterHeard, ReadTurn, ClaimedStatuses
<1>5. (DaemonHeard /\ ReportsAreFinal /\ ReadyEndedNormally)'
  BY DEF ReadTurn, DaemonHeard, ReportsAreFinal, ReadyEndedNormally, Final
<1> QED
  BY <1>3, <1>4, <1>5

LEMMA CheckKeeps ==
  ASSUME IInv, NEW p \in Emitters, Check(p)
  PROVE  IInv'
<1> USE DEF IInv, relVars, queueVars
<1>1. TypeOK'
  BY DEF TypeOK, Final, Check, CheckGeneration, CheckTurnIdentity, EmitterAt, Emitter, Events
<1>2. EmitterHeard'
  BY DEF TypeOK, EmitterHeard, Check, CheckGeneration, CheckTurnIdentity, EmitterAt, Emitter, Compatible
<1>3. (DaemonHeard /\ ReportsAreFinal /\ ReadyEndedNormally)'
  BY DEF Check, CheckGeneration, CheckTurnIdentity, DaemonHeard, ReportsAreFinal, ReadyEndedNormally, Final
<1> QED
  BY <1>1, <1>2, <1>3

LEMMA StoreEventTypes ==
  ASSUME TypeOK, NEW e \in Events, NEW t \in Turns, NEW s \in TurnStatuses,
         StoreEvent(e, t, s)
  PROVE  /\ stage' \in [Events -> {"absent", "staged", "final", "suppressed"}]
         /\ turnOf' \in [Events -> Turns \cup {None}]
         /\ \A d \in Events : stage'[d] = "absent" <=> turnOf'[d] = None
         /\ Final \subseteq Final'
         /\ \A d \in Events : d # e \/ stage[d] # "absent" =>
              stage'[d] = stage[d] /\ turnOf'[d] = turnOf[d]
         /\ stage[e] = "absent" =>
              /\ stage'[e] = IF s = "running" THEN "staged" ELSE "final"
              /\ turnOf'[e] = t
<1>1. CASE stage[e] # "absent"
  BY <1>1 DEF TypeOK, StoreEvent, Final
<1>2. CASE stage[e] = "absent"
  BY <1>2, IntakeAssumption DEF TypeOK, StoreEvent, Final
<1> QED
  BY <1>1, <1>2

LEMMA StoreKeeps ==
  ASSUME IInv, NEW p \in Emitters, Store(p)
  PROVE  IInv'
<1> USE DEF IInv, relVars, queueVars
<1> DEFINE m == emitter[p]
<1>1. /\ m \in Emitter /\ m.event \in Events /\ m.turn \in Turns /\ m.status \in TurnStatuses
      /\ StoreEvent(m.event, m.turn, m.status) /\ FromChild(m.event)
      /\ m.status \in Compatible(m.event)
  BY DEF TypeOK, Emitter, Store, EmitterHeard
<1>2. UNCHANGED <<relVars, host, admitted, queueVars, settled, daemon, unqueued, emits, trouble>>
  BY DEF Store
<1>3. emitter' = [emitter EXCEPT ![p].phase = "stored"]
  BY DEF Store, EmitterAt
<1>4. TypeOK'
  <2>1. emitter' \in [Emitters -> Emitter]
    BY <1>3 DEF TypeOK, Emitter
  <2> QED
    BY <1>1, <1>2, <2>1, StoreEventTypes DEF TypeOK
<1>5. EmitterHeard'
  <2>1. emitter'[p].phase = "stored" /\ emitter'[p].event = m.event
    BY <1>3 DEF TypeOK, Emitter
  <2>2. \A q \in Emitters : q # p => emitter'[q] = emitter[q]
    BY <1>3 DEF TypeOK
  <2> QED
    BY <1>1, <1>2, <2>1, <2>2 DEF EmitterHeard
<1>6. ReportsAreFinal'
  BY <1>1, StoreEventTypes DEF ReportsAreFinal
<1>7. DaemonHeard'
  <2>1. UNCHANGED <<daemon, host>>
    BY <1>2
  <2>2. daemon.event # None => daemon.event \in Events
    BY DEF TypeOK, Daemon
  <2>3. \A d \in Events : stage[d] = "final" => stage'[d] = "final"
    BY <1>1, StoreEventTypes
  <2> QED
    BY <2>1, <2>2, <2>3 DEF DaemonHeard
<1>8. ReadyEndedNormally'
  <2> SUFFICES ASSUME NEW e \in Events, stage'[e] = "final", Ready(e)
               PROVE  host'[turnOf'[e]] = "completed"
    BY DEF ReadyEndedNormally, Final
  <2>1. CASE e # m.event \/ stage[e] # "absent"
    BY <2>1, <1>1, <1>2, StoreEventTypes DEF ReadyEndedNormally, Final
  <2>2. CASE e = m.event /\ stage[e] = "absent"
    <3>1. m.status # "running" /\ turnOf'[e] = m.turn
      BY <2>2, <1>1, StoreEventTypes
    <3>2. m.status = "completed"
      BY <2>2, <3>1, <1>1 DEF Compatible, Ready
    <3>3. m.status = host[m.turn]
      BY <2>2, <3>1 DEF Store, EmitterHeard
    <3> QED
      BY <3>1, <3>2, <3>3, <1>2
  <2> QED
    BY <2>1, <2>2
<1> QED
  BY <1>4, <1>5, <1>6, <1>7, <1>8

LEMMA QueueingKeeps ==
  ASSUME IInv, NEW p \in Emitters, EmitQueues(p) \/ EmitStops(p)
  PROVE  IInv'
<1> USE DEF IInv, relVars, eventVars, queueVars
<1>1. emitter' = [emitter EXCEPT ![p] = NoEmitter] /\ emitter'[p].phase = "idle"
  BY DEF EmitQueues, EmitStops, NoEmitter, TypeOK
<1>2. UNCHANGED <<relVars, host, eventVars, settled, daemon, emits, trouble>>
  BY DEF EmitQueues, EmitStops
<1>3. /\ queued' \in SUBSET Final /\ intents' \in SUBSET Final /\ due' \in SUBSET intents'
      /\ unqueued' \in SUBSET Final
  <2>1. CASE EmitQueues(p)
    BY <2>1 DEF EmitQueues, Enqueue, Deliverable, TypeOK
  <2>2. CASE EmitStops(p)
    BY <2>2 DEF EmitStops, TypeOK
  <2> QED
    BY <2>1, <2>2
<1>4. TypeOK'
  <2>1. emitter' \in [Emitters -> Emitter]
    BY <1>1, Defaults DEF TypeOK
  <2>2. Final' = Final
    BY <1>2 DEF Final
  <2> QED
    BY <1>2, <1>3, <2>1, <2>2 DEF TypeOK
<1>5. EmitterHeard'
  BY <1>1, <1>2 DEF TypeOK, EmitterHeard
<1>6. (DaemonHeard /\ ReportsAreFinal /\ ReadyEndedNormally)'
  BY <1>2 DEF DaemonHeard, ReportsAreFinal, ReadyEndedNormally, Final
<1> QED
  BY <1>4, <1>5, <1>6

-----------------------------------------------------------------------------
(* The daemon                                                                *)

LEMMA SelectKeeps ==
  ASSUME IInv, NEW a \in Assignments, NEW t \in Turns, Select(a, t)
  PROVE  IInv'
<1> USE DEF IInv, relVars, eventVars, queueVars
<1>1. daemon' = [NoDaemon EXCEPT !.phase = "selected", !.a = a, !.turn = t]
  BY DEF Select
<1>2. daemon' \in Daemon /\ daemon'.phase = "selected" /\ daemon'.event = None
  BY <1>1, Defaults DEF Daemon, NoDaemon
<1>3. TypeOK'
  BY <1>2 DEF Select, TypeOK, Final
<1>4. (EmitterHeard /\ DaemonHeard /\ ReportsAreFinal /\ ReadyEndedNormally)'
  BY <1>2 DEF Select, EmitterHeard, DaemonHeard, ReportsAreFinal, ReadyEndedNormally, Final
<1> QED
  BY <1>3, <1>4

LEMMA ObserveKeeps ==
  ASSUME IInv, Observe
  PROVE  IInv'
<1> USE DEF IInv, relVars, eventVars, queueVars
<1>1. daemon' = [daemon EXCEPT !.phase = "observed", !.status = host[daemon.turn]]
  BY DEF Observe
<1>2. /\ daemon' \in Daemon /\ daemon'.phase = "observed" /\ daemon'.turn = daemon.turn
      /\ daemon'.event = daemon.event /\ daemon'.status = host[daemon.turn]
  BY <1>1 DEF Daemon, TypeOK
<1>3. TypeOK'
  BY <1>2 DEF Observe, TypeOK, Final
<1>4. (EmitterHeard /\ DaemonHeard /\ ReportsAreFinal /\ ReadyEndedNormally)'
  BY <1>2 DEF Observe, EmitterHeard, DaemonHeard, ReportsAreFinal, ReadyEndedNormally, Final
<1> QED
  BY <1>3, <1>4

\* The daemon goes back to its next turn and nothing else that matters here changes.
LEMMA GivesUpKeeps ==
  ASSUME IInv, NothingToObserve \/ DaemonStops
  PROVE  IInv'
<1> USE DEF IInv, relVars, eventVars, queueVars
<1>1. daemon' = NoDaemon /\ daemon'.phase = "idle" /\ daemon'.event = None
  BY DEF NothingToObserve, DaemonStops, NoDaemon
<1>2. UNCHANGED <<relVars, host, eventVars, queueVars, settled, emitter, unqueued, emits>>
  BY DEF NothingToObserve, DaemonStops
<1>3. trouble' \in 0..MaxTrouble
  BY IntakeAssumption DEF NothingToObserve, DaemonStops, TypeOK
<1>4. TypeOK'
  BY <1>1, <1>2, <1>3, Defaults DEF TypeOK, Final
<1>5. (EmitterHeard /\ DaemonHeard /\ ReportsAreFinal /\ ReadyEndedNormally)'
  BY <1>1, <1>2 DEF EmitterHeard, DaemonHeard, ReportsAreFinal, ReadyEndedNormally, Final
<1> QED
  BY <1>4, <1>5

LEMMA SynthesizeKeeps ==
  ASSUME IInv, Synthesize
  PROVE  IInv'
<1> USE DEF IInv, relVars, eventVars, queueVars
<1> DEFINE o == ObservedFailure(daemon.a, daemon.turn)
<1>1. daemon \in Daemon /\ daemon.event = None
  BY DEF Synthesize, TypeOK, DaemonHeard
<1>2. o \in Events /\ ~FromChild(o)
  BY <1>1, ReportIsNotTheChilds DEF Daemon
<1> HIDE DEF o
<1>3. \/ daemon' = [daemon EXCEPT !.phase = "settling"]
      \/ daemon' = NoDaemon
      \/ daemon' = [daemon EXCEPT !.phase = "asserting", !.event = o]
  BY DEF Synthesize, o
<1>4. daemon' \in Daemon
  BY <1>1, <1>2, <1>3, Defaults DEF Daemon
<1>5. UNCHANGED <<relVars, host, eventVars, queueVars, settled, emitter, unqueued, emits, trouble>>
  BY DEF Synthesize
<1>6. TypeOK'
  BY <1>4, <1>5 DEF TypeOK, Final
<1>7. DaemonHeard'
  <2>1. daemon.status = host[daemon.turn] /\ daemon.status # "running"
    BY DEF Synthesize, DaemonHeard
  <2>2. CASE daemon' = [daemon EXCEPT !.phase = "settling"]
    BY <1>1, <1>5, <2>1, <2>2 DEF DaemonHeard, Daemon
  <2>3. CASE daemon' = NoDaemon
    BY <2>3 DEF DaemonHeard, NoDaemon
  <2>4. CASE daemon' = [daemon EXCEPT !.phase = "asserting", !.event = o]
    BY <1>1, <1>2, <1>5, <2>1, <2>4 DEF DaemonHeard, Daemon
  <2> QED
    BY <1>3, <2>2, <2>3, <2>4
<1>8. (EmitterHeard /\ ReportsAreFinal /\ ReadyEndedNormally)'
  BY <1>5 DEF EmitterHeard, ReportsAreFinal, ReadyEndedNormally, Final
<1> QED
  BY <1>6, <1>7, <1>8

LEMMA StoreObservationKeeps ==
  ASSUME IInv, StoreObservation
  PROVE  IInv'
<1> USE DEF IInv, relVars, queueVars
<1> DEFINE o == daemon.event
<1>1. /\ daemon \in Daemon /\ o \in Events /\ ~FromChild(o) /\ ~Ready(o)
      /\ daemon.turn \in Turns /\ daemon.status \in TurnStatuses /\ daemon.status # "running"
      /\ daemon.status = host[daemon.turn]
      /\ StoreEvent(o, daemon.turn, daemon.status)
  BY DEF StoreObservation, TypeOK, DaemonHeard, Daemon, FromChild, Ready
<1>2. /\ daemon' = [daemon EXCEPT !.phase = "settling"]
      /\ UNCHANGED <<relVars, host, admitted, queueVars, settled, emitter, unqueued, emits,
                     trouble>>
  BY DEF StoreObservation, DaemonAt
<1>3. /\ daemon' \in Daemon /\ daemon'.phase = "settling" /\ daemon'.event = o
      /\ daemon'.turn = daemon.turn /\ daemon'.status = daemon.status
  BY <1>1, <1>2 DEF Daemon
<1>4. stage'[o] = "final"
  <2>1. stage[o] \in {"absent", "final"}
    BY <1>1 DEF ReportsAreFinal
  <2> QED
    BY <1>1, <2>1, StoreEventTypes
<1> HIDE DEF o
<1>5. TypeOK'
  BY <1>1, <1>2, <1>3, StoreEventTypes DEF TypeOK
<1>6. EmitterHeard'
  BY <1>2 DEF EmitterHeard
<1>7. DaemonHeard'
  BY <1>1, <1>2, <1>3, <1>4 DEF DaemonHeard
<1>8. ReportsAreFinal'
  BY <1>1, <1>4, StoreEventTypes DEF ReportsAreFinal
<1>9. ReadyEndedNormally'
  BY <1>1, <1>2, StoreEventTypes DEF ReadyEndedNormally, Final
<1> QED
  BY <1>5, <1>6, <1>7, <1>8, <1>9

\* What a settlement does to the events: no final event changes, what it makes final is a claim of a
\* turn that ended normally, and what it makes deliverable is final.
LEMMA ResolveFacts ==
  ASSUME IInv, Resolve, daemon.phase \in {"settling", "refused"}
  PROVE  /\ stage' \in [Events -> {"absent", "staged", "final", "suppressed"}]
         /\ settled' \in SUBSET (Assignments \X Turns)
         /\ \A e \in Events : stage[e] # "staged" => stage'[e] = stage[e]
         /\ \A e \in Events : stage[e] = "staged" => stage'[e] # "absent"
         /\ \A e \in Events : stage[e] = "staged" /\ stage'[e] = "final" =>
              host[turnOf[e]] = "completed"
         /\ \A e \in Events : stage[e] = "staged" /\ stage'[e] = "final" => e \in Queueable
         /\ Queueable \subseteq Events
         /\ \A e \in Queueable : stage'[e] = "final"
         /\ unqueued' = unqueued \cup PassedOver
         /\ PassedOver \subseteq Final /\ Final \subseteq Final'
<1> USE DEF IInv
<1> DEFINE claims == Staged(daemon.a, daemon.turn)
           report == IF daemon.event = None THEN {} ELSE {daemon.event}
<1>1. /\ daemon \in Daemon /\ daemon.a \in Assignments /\ daemon.turn \in Turns
      /\ daemon.status = host[daemon.turn]
  BY DEF TypeOK, Daemon, DaemonHeard
<1>2. /\ stage' = [e \in Events |-> IF e \notin claims THEN stage[e]
                                    ELSE IF e \in Queueable THEN "final" ELSE "suppressed"]
      /\ settled' = settled \cup {<<daemon.a, daemon.turn>>}
  BY DEF Resolve
<1>3. \A e \in claims : e \in Events /\ stage[e] = "staged" /\ turnOf[e] = daemon.turn
  BY DEF Staged
<1>4. Queueable = Finalized(claims, daemon.status) \cup report
  BY DEF Queueable
<1>5. \A e \in report : e \in Events /\ stage[e] = "final"
  BY <1>1 DEF Daemon, DaemonHeard
<1>6. \A e \in Finalized(claims, daemon.status) : e \in claims /\ daemon.status = "completed"
  BY DEF Finalized
<1> HIDE DEF claims, report
<1>7. Queueable \subseteq Events
  BY <1>3, <1>4, <1>5, <1>6
<1>8. \A e \in Queueable : stage'[e] = "final"
  BY <1>2, <1>3, <1>4, <1>5, <1>6
<1>9. \A e \in Events : stage[e] = "staged" /\ stage'[e] = "final" => host[turnOf[e]] = "completed"
  BY <1>1, <1>2, <1>3, <1>4, <1>5, <1>6
<1>10. \A e \in Events : IF e \in claims THEN stage'[e] \in {"final", "suppressed"}
                                         ELSE stage'[e] = stage[e]
  BY <1>2
<1>11. stage' \in [Events -> {"absent", "staged", "final", "suppressed"}]
  BY <1>2 DEF TypeOK
<1>12. settled' \in SUBSET (Assignments \X Turns)
  BY <1>1, <1>2 DEF TypeOK
<1>13. \A e \in Events : stage[e] = "staged" => stage'[e] # "absent"
  BY <1>10
<1>14. \A e \in Events : stage[e] # "staged" => stage'[e] = stage[e]
  BY <1>3, <1>10
<1>15. \A e \in Events : stage[e] = "staged" /\ stage'[e] = "final" => e \in Queueable
  BY <1>2
<1>16. unqueued' = unqueued \cup PassedOver /\ PassedOver \subseteq Final
  BY DEF Resolve, PassedOver
<1>17. Final \subseteq Final'
  BY <1>14 DEF Final
<1> QED
  BY <1>7, <1>8, <1>9, <1>11, <1>12, <1>13, <1>14, <1>15, <1>16, <1>17

LEMMA ResolvedKeeps ==
  ASSUME IInv, Resolve, daemon.phase \in {"settling", "refused"},
         UNCHANGED <<relVars, host, turnOf, admitted, emitter, emits, trouble>>,
         queued' \subseteq queued \cup Queueable, intents' \subseteq intents \cup Queueable,
         due' \subseteq intents', daemon' = NoDaemon
  PROVE  IInv'
<1> USE DEF IInv, relVars
<1>1. Final \subseteq Final' /\ Queueable \subseteq Final'
  BY ResolveFacts DEF Final
<1>2. TypeOK'
  <2>1. \A e \in Events : stage'[e] = "absent" <=> turnOf'[e] = None
    BY ResolveFacts DEF TypeOK
  <2>2. /\ queued' \in SUBSET Final' /\ intents' \in SUBSET Final' /\ due' \in SUBSET intents'
        /\ unqueued' \in SUBSET Final'
    BY <1>1, ResolveFacts DEF TypeOK
  <2> QED
    BY <2>1, <2>2, ResolveFacts, Defaults DEF TypeOK
<1>3. EmitterHeard' /\ DaemonHeard'
  BY DEF EmitterHeard, DaemonHeard, NoDaemon
<1>4. ReportsAreFinal'
  BY ResolveFacts DEF ReportsAreFinal, TypeOK
<1>5. ReadyEndedNormally'
  BY ResolveFacts DEF ReadyEndedNormally, Final
<1> QED
  BY <1>2, <1>3, <1>4, <1>5

LEMMA SettleKeeps ==
  ASSUME IInv, Settle \/ SettleUnqueued
  PROVE  IInv'
<1> USE DEF IInv
<1>1. CASE Settle /\ Resolve /\ queued' = queued \cup Queueable /\ daemon' = NoDaemon
  BY <1>1, ResolvedKeeps DEF Settle, TypeOK
<1>2. CASE Settle /\ UNCHANGED <<stage, settled, queued, unqueued>> /\ DaemonAt("refused")
  <2>1. UNCHANGED <<relVars, host, eventVars, queueVars, settled, emitter, unqueued, emits,
                    trouble>>
    BY <1>2 DEF Settle, eventVars, queueVars
  <2>2. /\ daemon' \in Daemon /\ daemon'.phase = "refused" /\ daemon'.event = daemon.event
        /\ daemon'.turn = daemon.turn /\ daemon'.status = daemon.status
        /\ daemon.phase = "settling"
    BY <1>2 DEF Settle, DaemonAt, Daemon, TypeOK
  <2>3. TypeOK'
    BY <2>1, <2>2 DEF TypeOK, Final, relVars, eventVars, queueVars
  <2>4. (EmitterHeard /\ DaemonHeard /\ ReportsAreFinal /\ ReadyEndedNormally)'
    BY <2>1, <2>2
       DEF EmitterHeard, DaemonHeard, ReportsAreFinal, ReadyEndedNormally, Final, eventVars
  <2> QED
    BY <2>3, <2>4
<1>3. CASE SettleUnqueued
  <2>1. /\ intents' \subseteq intents \cup Queueable
        /\ due' \subseteq intents' /\ queued' \subseteq queued \cup Queueable
    BY <1>3 DEF SettleUnqueued, Wanted, TypeOK
  <2> QED
    BY <1>3, <2>1, ResolvedKeeps DEF SettleUnqueued
<1> QED
  BY <1>1, <1>2, <1>3 DEF Settle

LEMMA IntentsKeep ==
  ASSUME IInv, NEW e \in Events, IntentDue(e) \/ Requeue(e)
  PROVE  IInv'
<1> USE DEF IInv, relVars, eventVars
<1>1. UNCHANGED <<relVars, host, eventVars, settled, emitter, daemon, unqueued, emits, trouble>>
  BY DEF IntentDue, Requeue
<1>2. queued' \in SUBSET Final /\ intents' \in SUBSET Final /\ due' \in SUBSET intents'
  <2>1. CASE IntentDue(e)
    BY <2>1 DEF IntentDue, TypeOK
  <2>2. CASE Requeue(e)
    BY <2>2 DEF Requeue, Enqueue, Deliverable, TypeOK
  <2> QED
    BY <2>1, <2>2
<1>3. Final' = Final
  BY <1>1 DEF Final
<1> QED
  BY <1>1, <1>2, <1>3
     DEF TypeOK, EmitterHeard, DaemonHeard, ReportsAreFinal, ReadyEndedNormally

-----------------------------------------------------------------------------

LEMMA StutterKeeps ==
  ASSUME IInv, UNCHANGED vars
  PROVE  IInv'
BY DEF IInv, vars, relVars, eventVars, queueVars, TypeOK, EmitterHeard, DaemonHeard,
       ReportsAreFinal, ReadyEndedNormally, Final

LEMMA NextKeeps == IInv /\ [Next]_vars => IInv'
<1> SUFFICES ASSUME IInv, [Next]_vars PROVE IInv'
  OBVIOUS
<1>1. ASSUME NEW t \in Turns, TurnEnds(t) PROVE IInv'
  BY <1>1, TurnEndsKeeps
<1>2. ASSUME NEW a \in Assignments, PauseOrResume(a) \/ OpenGeneration(a) PROVE IInv'
  <2>1. PICK t \in Turns : TRUE
    BY IntakeAssumption
  <2> QED
    BY <1>2, <2>1, RegistryKeeps
<1>3. ASSUME NEW a \in Assignments, NEW t \in Turns, BindAnchor(a, t) \/ Select(a, t) PROVE IInv'
  BY <1>3, RegistryKeeps, SelectKeeps
<1>4. ASSUME NEW p \in Emitters, NEW e \in Events, NEW t \in Turns, ReadTurn(p, e, t) PROVE IInv'
  BY <1>4, ReadTurnKeeps
<1>5. ASSUME NEW p \in Emitters, Check(p) \/ Store(p) \/ EmitQueues(p) \/ EmitStops(p)
      PROVE  IInv'
  BY <1>5, CheckKeeps, StoreKeeps, QueueingKeeps
<1>6. CASE DaemonWorks
  BY <1>6, ObserveKeeps, GivesUpKeeps, SynthesizeKeeps, StoreObservationKeeps, SettleKeeps
     DEF DaemonWorks
<1>7. CASE DaemonStops
  BY <1>7, GivesUpKeeps
<1>8. ASSUME NEW e \in Events, IntentDue(e) \/ Requeue(e) PROVE IInv'
  BY <1>8, IntentsKeep
<1>9. CASE UNCHANGED vars
  BY <1>9, StutterKeeps
<1> QED
  BY <1>1, <1>2, <1>3, <1>4, <1>5, <1>6, <1>7, <1>8, <1>9 DEF Next

(***************************************************************************)
(* Events, queue, intents and processes keep their types for any number of *)
(* assignments, turns and emit commands; what is queued or owed is final.  *)
(***************************************************************************)
THEOREM TypeCorrect == Spec => []TypeOK
<1>1. IInv => TypeOK
  BY DEF IInv
<1> QED
  BY InitInvariant, NextKeeps, <1>1, PTL DEF Spec

(***************************************************************************)
(* No readiness claim becomes final of a turn that did not end normally,   *)
(* however emit, the daemon and the turn's ending interleave               *)
(* (resolve_staged, _observed_turn_status).                                *)
(***************************************************************************)
THEOREM OnlyNormalEndingsAreReady == Spec => []ReadyEndedNormally
<1>1. IInv => ReadyEndedNormally
  BY DEF IInv
<1> QED
  BY InitInvariant, NextKeeps, <1>1, PTL DEF Spec

(***************************************************************************)
(* What carries FinalIsQueuedOrOwed: the daemon's reports are of failed    *)
(* turns of the generation they name, and a daemon about to settle a       *)
(* failed turn for an assignment has the one report of it that is current. *)
(***************************************************************************)

Reports == {e \in Events : ~FromChild(e) /\ stage[e] = "final"}

AdmittedTo(e) ==
  /\ Bound(e.a, e.g)
  /\ anchor[e.a][e.g] = e.of \/ <<e.a, e.g, e.of>> \in admitted

ReportsTrue ==
  \A e \in Reports :
    turnOf[e] = e.of /\ host[e.of] = "failed" /\ e.g <= generation[e.a] /\ AdmittedTo(e)

DaemonReports ==
  /\ daemon.phase = "asserting" =>
       /\ daemon.event.a = daemon.a /\ daemon.event.of = daemon.turn
       /\ daemon.event.g <= generation[daemon.a] /\ AdmittedTo(daemon.event)
       /\ daemon.status = "failed"
  /\ daemon.phase \in {"asserting", "settling", "refused"} /\ daemon.status = "failed" =>
       \A e \in Reports : e.a = daemon.a /\ turnOf[e] = daemon.turn =>
         e = daemon.event \/ e.g < generation[daemon.a]
  /\ daemon.phase \in {"observed", "asserting", "settling", "refused"} =>
       WorthPolling(daemon.a, daemon.turn)

Owed(e) ==
  \/ e \in queued \cup intents \cup unqueued
  \/ FromChild(e) /\ \E p \in Emitters : emitter[p].phase = "stored" /\ emitter[p].event = e
  \/ ~FromChild(e) /\ WorthPolling(e.a, turnOf[e])

OwedInv == IInv /\ ReportsTrue /\ DaemonReports /\ \A e \in Final : Owed(e)

LEMMA OwedInit == Init => OwedInv
<1> SUFFICES ASSUME Init PROVE OwedInv
  OBVIOUS
<1>1. Reports = {} /\ Final = {}
  BY DEF Init, Reports, Final
<1>2. daemon.phase = "idle"
  BY DEF Init, NoDaemon
<1> QED
  BY <1>1, <1>2, InitInvariant DEF OwedInv, ReportsTrue, DaemonReports

\* How turns, generations, anchors and admissions change in every step.
MovesOn ==
  /\ \A t \in Turns : host[t] = "failed" => host'[t] = "failed"
  /\ \A a \in Assignments : generation[a] <= generation'[a] /\ generation'[a] \in Nat
  /\ \A a \in Assignments, g \in Generations :
       anchor[a][g] # None => anchor'[a][g] = anchor[a][g]
  /\ admitted \subseteq admitted'

LEMMA EventFields ==
  ASSUME NEW e \in Events
  PROVE  /\ e.a \in Assignments /\ e.g \in Generations /\ e.g \in Nat
         /\ ~FromChild(e) => e.of \in Turns
BY DEF Events, FromChild, Generations

LEMMA NothingMoves ==
  ASSUME TypeOK, UNCHANGED <<host, generation, anchor, admitted>>
  PROVE  MovesOn
BY DEF TypeOK, MovesOn, Generations

\* What was reported stays true.
LEMMA ReportsStayTrue ==
  ASSUME IInv, ReportsTrue, MovesOn, UNCHANGED <<stage, turnOf>>
  PROVE  /\ ReportsTrue' /\ Reports' = Reports
         /\ \A e \in Events : AdmittedTo(e) => AdmittedTo(e)'
<1>1. Reports' = Reports
  BY DEF Reports
<1>2. \A e \in Events : AdmittedTo(e) => AdmittedTo(e)'
  BY EventFields DEF AdmittedTo, Bound, MovesOn
<1>3. \A a \in Assignments : generation[a] \in Nat
  BY DEF IInv, TypeOK, Generations
<1>4. \A e \in Reports : e \in Events /\ e.of \in Turns
  BY EventFields DEF Reports
<1> QED
  BY <1>1, <1>2, <1>3, <1>4, EventFields DEF ReportsTrue, MovesOn

LEMMA SameWork ==
  ASSUME UNCHANGED <<stage, turnOf, settled>>
  PROVE  \A a, t : WorthPolling(a, t)' <=> WorthPolling(a, t)
BY DEF WorthPolling, Staged

\* A daemon that is not about to settle, or that was before and did nothing.
LEMMA DaemonStays ==
  ASSUME OwedInv, MovesOn, UNCHANGED <<stage, turnOf, settled>>,
         \/ daemon' = daemon
         \/ daemon'.phase \in {"idle", "selected"}
         \/ daemon'.phase = "observed" /\ WorthPolling(daemon'.a, daemon'.turn)
  PROVE  DaemonReports'
<1> USE DEF OwedInv
<1>1. CASE daemon' = daemon
  <2>1. \A a \in Assignments : generation[a] \in Nat
    BY DEF IInv, TypeOK, Generations
  <2>2. daemon.a \in Assignments
    BY DEF IInv, TypeOK, Daemon
  <2>3. daemon.phase = "asserting" => daemon.event \in Events
    BY DEF IInv, DaemonHeard
  <2>4. \A e \in Reports : e \in Events
    BY DEF Reports
  <2>5. daemon.phase = "asserting" =>
          AdmittedTo(daemon.event)' /\ daemon.event.g <= generation'[daemon.a]
    BY <1>1, <2>1, <2>2, <2>3, ReportsStayTrue, EventFields DEF DaemonReports, MovesOn,
       AdmittedTo, Bound
  <2>6. ASSUME NEW e \in Reports', e.a = daemon.a, turnOf[e] = daemon.turn,
               daemon.phase \in {"asserting", "settling", "refused"}, daemon.status = "failed"
        PROVE  e = daemon.event \/ e.g < generation'[daemon.a]
    BY <2>1, <2>2, <2>4, <2>6, ReportsStayTrue, EventFields DEF DaemonReports, MovesOn
  <2> QED
    BY <1>1, <2>5, <2>6, SameWork DEF DaemonReports
<1>2. CASE daemon'.phase \in {"idle", "selected"}
  BY <1>2 DEF DaemonReports
<1>3. CASE daemon'.phase = "observed" /\ WorthPolling(daemon'.a, daemon'.turn)
  BY <1>3, SameWork DEF DaemonReports
<1> QED
  BY <1>1, <1>2, <1>3

\* A step that stores and settles nothing keeps what is owed, if no emitter goes away without
\* leaving its event in the queue or among the unqueued.
LEMMA QuietStep ==
  ASSUME OwedInv, MovesOn, UNCHANGED <<stage, turnOf, settled>>,
         queued \subseteq queued', intents \subseteq intents' \cup queued',
         unqueued \subseteq unqueued',
         \A p \in Emitters : emitter[p].phase = "stored" =>
           \/ emitter'[p].phase = "stored" /\ emitter'[p].event = emitter[p].event
           \/ emitter[p].event \in queued' \cup unqueued'
           \/ emitter[p].event \notin Final
  PROVE  ReportsTrue' /\ \A e \in Final' : Owed(e)'
<1> USE DEF OwedInv
<1>1. ReportsTrue'
  BY ReportsStayTrue
<1>2. Final' = Final
  BY DEF Final
<1>3. \A a, t : WorthPolling(a, t)' <=> WorthPolling(a, t)
  BY SameWork
<1>4. ASSUME NEW e \in Final PROVE Owed(e)'
  <2>1. e \in Events /\ Owed(e)
    BY DEF Final
  <2>2. CASE e \in queued \cup intents \cup unqueued
    BY <2>2 DEF Owed
  <2>3. CASE FromChild(e) /\ \E p \in Emitters : emitter[p].phase = "stored" /\ emitter[p].event = e
    BY <2>3 DEF Owed
  <2>4. CASE ~FromChild(e) /\ WorthPolling(e.a, turnOf[e])
    BY <1>3, <2>4 DEF Owed
  <2> QED
    BY <2>1, <2>2, <2>3, <2>4 DEF Owed
<1> QED
  BY <1>1, <1>2, <1>4

LEMMA HostOwes ==
  ASSUME OwedInv, NEW t \in Turns, TurnEnds(t)
  PROVE  (ReportsTrue /\ DaemonReports)' /\ \A e \in Final' : Owed(e)'
<1> USE DEF TurnEnds, relVars, eventVars, queueVars
<1>1. MovesOn
  BY DEF OwedInv, IInv, TypeOK, MovesOn, Generations
<1> QED
  BY <1>1, DaemonStays, QuietStep

LEMMA RegistryOwes ==
  ASSUME OwedInv, NEW a \in Assignments, NEW t \in Turns,
         PauseOrResume(a) \/ OpenGeneration(a) \/ BindAnchor(a, t)
  PROVE  (ReportsTrue /\ DaemonReports)' /\ \A e \in Final' : Owed(e)'
<1> USE DEF OwedInv, IInv
<1>1. MovesOn
  <2>1. CASE PauseOrResume(a)
    BY <2>1, NothingMoves DEF PauseOrResume, eventVars
  <2>2. CASE OpenGeneration(a)
    BY <2>2 DEF OpenGeneration, eventVars, TypeOK, MovesOn, Generations
  <2>3. CASE BindAnchor(a, t)
    <3>1. generation[a] \in Generations /\ anchor[a] \in [Generations -> Turns \cup {None}]
      BY DEF TypeOK
    <3>2. \A b \in Assignments, g \in Generations :
            anchor[b][g] # None => anchor'[b][g] = anchor[b][g]
      BY <2>3, <3>1 DEF BindAnchor, Bound, TypeOK
    <3> QED
      BY <2>3, <3>2 DEF BindAnchor, eventVars, TypeOK, MovesOn, Generations
  <2> QED
    BY <2>1, <2>2, <2>3
<1>2. UNCHANGED <<stage, turnOf, settled, queued, intents, unqueued, emitter, daemon>>
  BY DEF PauseOrResume, OpenGeneration, BindAnchor, eventVars, queueVars
<1> QED
  BY <1>1, <1>2, DaemonStays, QuietStep

LEMMA EmitOwes ==
  ASSUME OwedInv, NEW p \in Emitters, NEW e \in Events, NEW t \in Turns,
         ReadTurn(p, e, t) \/ Check(p)
  PROVE  (ReportsTrue /\ DaemonReports)' /\ \A d \in Final' : Owed(d)'
<1> USE DEF OwedInv, IInv
<1>1. UNCHANGED <<host, generation, anchor, stage, turnOf, settled, queued, intents, unqueued,
                  daemon>>
  BY DEF ReadTurn, Check, CheckGeneration, CheckTurnIdentity, eventVars, queueVars, relVars
<1>2. MovesOn
  BY <1>1 DEF ReadTurn, Check, CheckGeneration, CheckTurnIdentity, eventVars, TypeOK, MovesOn, Generations
<1>3. \A q \in Emitters : emitter[q].phase = "stored" => emitter'[q] = emitter[q]
  BY DEF ReadTurn, Check, CheckGeneration, CheckTurnIdentity, EmitterAt, TypeOK
<1> QED
  BY <1>1, <1>2, <1>3, DaemonStays, QuietStep

LEMMA QueueingOwes ==
  ASSUME OwedInv, NEW p \in Emitters, EmitQueues(p) \/ EmitStops(p)
  PROVE  (ReportsTrue /\ DaemonReports)' /\ \A d \in Final' : Owed(d)'
<1> USE DEF OwedInv, IInv
<1>1. UNCHANGED <<host, generation, anchor, admitted, stage, turnOf, settled, daemon>>
  BY DEF EmitQueues, EmitStops, eventVars, relVars
<1>2. MovesOn
  BY <1>1, NothingMoves
<1>3. \A q \in Emitters : q # p => emitter'[q] = emitter[q]
  BY DEF EmitQueues, EmitStops, TypeOK
<1>4. /\ queued \subseteq queued' /\ intents \subseteq intents' \cup queued'
      /\ unqueued \subseteq unqueued'
      /\ emitter[p].phase = "stored" =>
           emitter[p].event \in queued' \cup unqueued' \/ emitter[p].event \notin Final
  <2>1. CASE EmitQueues(p)
    BY <2>1 DEF EmitQueues, Enqueue
  <2>2. CASE EmitStops(p)
    BY <2>2 DEF EmitStops, queueVars
  <2> QED
    BY <2>1, <2>2
<1> QED
  BY <1>1, <1>2, <1>3, <1>4, DaemonStays, QuietStep

LEMMA ReadingOwes ==
  ASSUME OwedInv, NEW a \in Assignments, NEW t \in Turns, NEW e \in Events,
         Select(a, t) \/ Observe \/ NothingToObserve \/ DaemonStops \/ IntentDue(e) \/ Requeue(e)
  PROVE  (ReportsTrue /\ DaemonReports)' /\ \A d \in Final' : Owed(d)'
<1> USE DEF OwedInv, IInv
<1>1. UNCHANGED <<host, generation, anchor, admitted, stage, turnOf, settled, emitter, unqueued>>
  BY DEF Select, Observe, NothingToObserve, DaemonStops, IntentDue, Requeue, eventVars, relVars
<1>2. MovesOn
  BY <1>1, NothingMoves
<1>3. \/ daemon' = daemon
      \/ daemon'.phase \in {"idle", "selected"}
      \/ daemon'.phase = "observed" /\ WorthPolling(daemon'.a, daemon'.turn)
  <2>1. NoDaemon \in Daemon /\ daemon \in Daemon /\ NoDaemon.phase = "idle"
    BY Defaults DEF TypeOK, NoDaemon
  <2> QED
    BY <2>1 DEF Select, Observe, NothingToObserve, DaemonStops, IntentDue, Requeue, Daemon
<1>4. queued \subseteq queued' /\ intents \subseteq intents' \cup queued'
  <2>1. CASE Requeue(e)
    BY <2>1 DEF Requeue, Enqueue
  <2>2. CASE ~Requeue(e)
    BY <2>2 DEF Select, Observe, NothingToObserve, DaemonStops, IntentDue, queueVars
  <2> QED
    BY <2>1, <2>2
<1> QED
  BY <1>1, <1>2, <1>3, <1>4, DaemonStays, QuietStep

LEMMA SynthesizeOwes ==
  ASSUME OwedInv, Synthesize
  PROVE  (ReportsTrue /\ DaemonReports)' /\ \A d \in Final' : Owed(d)'
<1> USE DEF OwedInv, IInv
<1> DEFINE a == daemon.a
           t == daemon.turn
           o == ObservedFailure(a, t)
<1>1. /\ daemon \in Daemon /\ a \in Assignments /\ t \in Turns /\ daemon.phase = "observed"
      /\ daemon.event = None /\ WorthPolling(a, t) /\ generation[a] \in Nat
      /\ generation[a] \in Generations
  BY DEF Synthesize, TypeOK, Daemon, DaemonHeard, DaemonReports, Generations
<1>2. UNCHANGED <<host, generation, anchor, admitted, stage, turnOf, settled, queued, intents,
                  unqueued, emitter>>
  BY DEF Synthesize, relVars, eventVars, queueVars
<1>3. ReportsTrue' /\ Reports' = Reports /\ \A d \in Final' : Owed(d)'
  BY <1>2, NothingMoves, QuietStep, ReportsStayTrue
<1>4. \A e \in Reports : e.a = a /\ turnOf[e] = t =>
        /\ e \in Events /\ e.outcome = "observed" /\ e.of = t /\ e.g \in Nat
        /\ e.g <= generation[a] /\ AdmittedTo(e)
  BY EventFields DEF ReportsTrue, Reports, FromChild
<1>6. CASE daemon.status = "completed" /\ daemon' = [daemon EXCEPT !.phase = "settling"]
  <2>1. /\ daemon'.status = "completed" /\ daemon'.phase = "settling"
        /\ daemon'.a = a /\ daemon'.turn = t
    BY <1>1, <1>6 DEF Daemon
  <2> QED
    BY <1>1, <1>2, <1>3, <2>1, SameWork DEF DaemonReports
<1>7. CASE daemon' = NoDaemon
  BY <1>3, <1>7 DEF DaemonReports, NoDaemon
<1>8. CASE Admitted(a, t) /\ daemon.status # "completed"
           /\ daemon' = [daemon EXCEPT !.phase = "asserting", !.event = o]
  <2>1. /\ daemon'.phase = "asserting" /\ daemon'.event = o /\ daemon'.a = a /\ daemon'.turn = t
        /\ daemon'.status = daemon.status
    BY <1>1, <1>8 DEF Daemon
  <2>2. daemon.status = "failed"
    BY <1>1, <1>8 DEF DaemonHeard, Daemon, TurnStatuses
  <2>3. o.a = a /\ o.of = t /\ o.g = generation[a] /\ o.outcome = "observed"
        /\ o = [a |-> a, g |-> generation[a], outcome |-> "observed", of |-> t]
    BY DEF ObservedFailure
  <2>4. AdmittedTo(daemon.event)'
    BY <1>2, <1>8, <2>1, <2>3 DEF AdmittedTo, Admitted, Bound
  <2>5. ASSUME NEW e \in Reports, e.a = a, turnOf[e] = t, e.g = generation[a] PROVE e = o
    <3>1. e = [a |-> e.a, g |-> e.g, outcome |-> e.outcome, of |-> e.of]
      BY <1>4, <2>5 DEF Events
    <3> QED
      BY <1>4, <2>3, <2>5, <3>1
  <2>6. \A e \in Reports : e.a = a /\ turnOf[e] = t => e = o \/ e.g < generation[a]
    BY <1>1, <1>4, <2>5
  <2> QED
    BY <1>1, <1>2, <1>3, <2>1, <2>2, <2>3, <2>4, <2>6, SameWork DEF DaemonReports
<1>9. CASE ~Admitted(a, t) /\ daemon.status # "completed"
           /\ daemon' = [daemon EXCEPT !.phase = "settling"]
  <2>1. /\ daemon'.phase = "settling" /\ daemon'.event = daemon.event /\ daemon'.a = a
        /\ daemon'.turn = t /\ daemon'.status = daemon.status
    BY <1>1, <1>9 DEF Daemon
  <2>2. ASSUME NEW e \in Reports, e.a = a, turnOf[e] = t PROVE e.g # generation[a]
    BY <1>4, <1>9, <2>2 DEF AdmittedTo, Admitted
  <2>3. \A e \in Reports : e.a = a /\ turnOf[e] = t => e.g < generation[a]
    BY <1>1, <1>4, <2>2
  <2> QED
    BY <1>1, <1>2, <1>3, <2>1, <2>3, SameWork DEF DaemonReports
<1> QED
  BY <1>6, <1>7, <1>8, <1>9 DEF Synthesize, PauseDefers

LEMMA StoreOwes ==
  ASSUME OwedInv, NEW p \in Emitters, Store(p)
  PROVE  (ReportsTrue /\ DaemonReports)' /\ \A d \in Final' : Owed(d)'
<1> USE DEF OwedInv, IInv
<1> DEFINE m == emitter[p]
<1>1. /\ m.event \in Events /\ m.turn \in Turns /\ m.status \in TurnStatuses
      /\ StoreEvent(m.event, m.turn, m.status) /\ FromChild(m.event) /\ m.phase = "checked"
  BY DEF TypeOK, Emitter, Store, EmitterHeard
<1>2. UNCHANGED <<host, generation, anchor, admitted, settled, queued, intents, unqueued, daemon>>
  BY DEF Store, relVars, queueVars
<1>3. /\ \A d \in Events : d # m.event \/ stage[d] # "absent" =>
           stage'[d] = stage[d] /\ turnOf'[d] = turnOf[d]
      /\ emitter'[p].phase = "stored" /\ emitter'[p].event = m.event
      /\ \A q \in Emitters : q # p => emitter'[q] = emitter[q]
  BY <1>1, StoreEventTypes DEF Store, EmitterAt, TypeOK, Emitter
<1> HIDE DEF m
<1>4. Reports' = Reports /\ \A e \in Reports : turnOf'[e] = turnOf[e] /\ e \in Events
  BY <1>1, <1>3 DEF Reports
<1>5. \A a, t : WorthPolling(a, t) => WorthPolling(a, t)'
  <2>1. \A a, t : Staged(a, t) \subseteq Staged(a, t)'
    BY <1>3 DEF Staged
  <2> QED
    BY <1>2, <2>1 DEF WorthPolling
<1>6. ReportsTrue'
  BY <1>2, <1>4 DEF ReportsTrue, AdmittedTo, Bound
<1>7. DaemonReports'
  BY <1>2, <1>4, <1>5 DEF DaemonReports, AdmittedTo, Bound
<1>8. ASSUME NEW e \in Final' PROVE Owed(e)'
  <2>1. CASE e = m.event
    BY <1>1, <1>3, <2>1 DEF Owed
  <2>2. CASE e # m.event
    <3>1. e \in Final /\ e \in Events /\ turnOf'[e] = turnOf[e]
      BY <1>3, <2>2 DEF Final
    <3>2. \A q \in Emitters : emitter[q].phase = "stored" => emitter'[q] = emitter[q]
      BY <1>1, <1>3 DEF m
    <3> QED
      BY <1>2, <1>5, <3>1, <3>2 DEF Owed
  <2> QED
    BY <2>1, <2>2
<1> QED
  BY <1>6, <1>7, <1>8

LEMMA StoreObservationOwes ==
  ASSUME OwedInv, StoreObservation
  PROVE  (ReportsTrue /\ DaemonReports)' /\ \A d \in Final' : Owed(d)'
<1> USE DEF OwedInv, IInv
<1> DEFINE o == daemon.event
<1>1. /\ daemon \in Daemon /\ o \in Events /\ ~FromChild(o) /\ stage[o] \in {"absent", "final"}
      /\ daemon.turn \in Turns /\ daemon.status = "failed" /\ host[daemon.turn] = "failed"
      /\ daemon.a = o.a /\ daemon.turn = o.of /\ o.g <= generation[o.a] /\ AdmittedTo(o)
      /\ StoreEvent(o, daemon.turn, daemon.status) /\ daemon.phase = "asserting"
      /\ WorthPolling(o.a, o.of)
      /\ \A e \in Reports : e.a = o.a /\ turnOf[e] = o.of => e = o \/ e.g < generation[o.a]
  BY DEF StoreObservation, TypeOK, Daemon, DaemonHeard, DaemonReports, ReportsAreFinal
<1>2. /\ UNCHANGED <<host, generation, anchor, admitted, settled, queued, intents, unqueued,
                     emitter>>
      /\ daemon'.phase = "settling" /\ daemon'.event = o /\ daemon'.a = o.a
      /\ daemon'.turn = o.of /\ daemon'.status = "failed"
  BY <1>1 DEF StoreObservation, DaemonAt, relVars, queueVars, Daemon
<1>3. /\ \A d \in Events : d # o \/ stage[d] # "absent" =>
           stage'[d] = stage[d] /\ turnOf'[d] = turnOf[d]
      /\ stage[o] = "absent" => stage'[o] = "final" /\ turnOf'[o] = o.of
  BY <1>1, StoreEventTypes DEF TurnStatuses
<1>4. stage'[o] = "final" /\ turnOf'[o] = o.of
  BY <1>1, <1>3 DEF ReportsTrue, Reports
<1> HIDE DEF o
<1>5. \A e \in Reports' : e = o \/ (e \in Reports /\ e \in Events /\ turnOf'[e] = turnOf[e])
  BY <1>3 DEF Reports
<1>6. \A a, t : WorthPolling(a, t) => WorthPolling(a, t)'
  <2>1. \A a, t : Staged(a, t) \subseteq Staged(a, t)'
    BY <1>1, <1>3 DEF Staged
  <2> QED
    BY <1>2, <2>1 DEF WorthPolling
<1>7. ReportsTrue'
  BY <1>1, <1>2, <1>4, <1>5 DEF ReportsTrue, AdmittedTo, Bound
<1>8. DaemonReports'
  BY <1>1, <1>2, <1>5, <1>6 DEF DaemonReports
<1>9. ASSUME NEW e \in Final' PROVE Owed(e)'
  <2>1. CASE e = o
    BY <1>1, <1>4, <1>6, <2>1 DEF Owed
  <2>2. CASE e # o
    <3>1. e \in Final /\ turnOf'[e] = turnOf[e]
      BY <1>3, <2>2 DEF Final
    <3> QED
      BY <1>2, <1>6, <3>1 DEF Owed
  <2> QED
    BY <2>1, <2>2
<1> QED
  BY <1>7, <1>8, <1>9

\* A settlement pays what it owes: its report goes where its claims go, and a report of the turn
\* that is an earlier generation's is passed over.
LEMMA ResolvedOwes ==
  ASSUME OwedInv, Resolve, daemon.phase \in {"settling", "refused"},
         UNCHANGED <<relVars, host, turnOf, admitted, emitter>>,
         queued \cup intents \cup Queueable \subseteq queued' \cup intents',
         daemon' = NoDaemon
  PROVE  (ReportsTrue /\ DaemonReports)' /\ \A d \in Final' : Owed(d)'
<1> USE DEF OwedInv, IInv, relVars
<1>1. /\ \A e \in Events : stage[e] # "staged" => stage'[e] = stage[e]
      /\ \A e \in Events : stage[e] = "staged" /\ stage'[e] = "final" => e \in Queueable
      /\ unqueued' = unqueued \cup PassedOver
  BY ResolveFacts
<1>2. daemon.event # None => daemon.event \in Queueable
  BY DEF Queueable
<1>3. Reports' = Reports
  BY <1>1 DEF Reports, ReportsAreFinal
<1>4. ReportsTrue'
  BY <1>3 DEF ReportsTrue, AdmittedTo, Bound
<1>5. DaemonReports'
  BY DEF DaemonReports, NoDaemon
<1>6. ASSUME NEW a, NEW t, a # daemon.a \/ t # daemon.turn, WorthPolling(a, t)
      PROVE  WorthPolling(a, t)'
  <2>1. Staged(a, t) \subseteq Staged(a, t)'
    <3> SUFFICES ASSUME NEW e \in Staged(a, t) PROVE e \in Staged(a, t)'
      OBVIOUS
    <3>1. e \in Events /\ e.a = a /\ turnOf[e] = t /\ stage[e] = "staged"
      BY DEF Staged
    <3>2. e \notin Staged(daemon.a, daemon.turn)
      BY <1>6, <3>1 DEF Staged
    <3> QED
      BY <3>1, <3>2 DEF Staged, Resolve
  <2>2. <<a, t>> \notin settled => <<a, t>> \notin settled'
    BY <1>6 DEF Resolve
  <2> QED
    BY <1>6, <2>1, <2>2 DEF WorthPolling
<1>7. ASSUME NEW e \in Final' PROVE Owed(e)'
  <2>1. e \in Events /\ stage'[e] = "final"
    BY DEF Final
  <2>2. CASE stage[e] = "staged"
    BY <1>1, <2>1, <2>2 DEF Owed
  <2>3. CASE stage[e] # "staged"
    <3>1. Owed(e) /\ e \in Final
      BY <1>1, <2>1, <2>3 DEF Final
    <3>2. CASE e \in queued \cup intents \cup unqueued
      BY <1>1, <3>2 DEF Owed
    <3>3. CASE FromChild(e) /\ \E p \in Emitters : emitter[p].phase = "stored" /\ emitter[p].event = e
      BY <3>3 DEF Owed
    <3>5. CASE ~FromChild(e) /\ WorthPolling(e.a, turnOf[e])
      <4>1. CASE e.a # daemon.a \/ turnOf[e] # daemon.turn
        BY <1>6, <3>5, <4>1 DEF Owed
      <4>2. CASE e.a = daemon.a /\ turnOf[e] = daemon.turn
        <5>1. e \in Reports
          BY <3>1, <3>5 DEF Reports, Final
        <5>2. daemon.status = "failed"
          BY <4>2, <5>1 DEF ReportsTrue, DaemonHeard
        <5>3. e = daemon.event \/ e.g < generation[e.a]
          BY <4>2, <5>1, <5>2 DEF DaemonReports
        <5>4. CASE e = daemon.event
          BY <1>2, <2>1, <5>4, IntakeAssumption DEF Owed
        <5>5. CASE e.g < generation[e.a] /\ e # daemon.event /\ e \notin queued \cup intents
          <6>1. e \in PassedOver
            BY <3>1, <3>5, <4>2, <5>5 DEF PassedOver
          <6> QED
            BY <1>1, <6>1 DEF Owed
        <5> QED
          BY <3>2, <5>3, <5>4, <5>5
      <4> QED
        BY <4>1, <4>2
    <3> QED
      BY <3>1, <3>2, <3>3, <3>5 DEF Owed
  <2> QED
    BY <2>2, <2>3
<1> QED
  BY <1>4, <1>5, <1>7

LEMMA SettleOwes ==
  ASSUME OwedInv, Settle \/ SettleUnqueued
  PROVE  (ReportsTrue /\ DaemonReports)' /\ \A d \in Final' : Owed(d)'
<1>1. CASE Settle /\ Resolve /\ queued' = queued \cup Queueable /\ daemon' = NoDaemon
  <2>1. queued \cup intents \cup Queueable \subseteq queued' \cup intents'
    BY <1>1 DEF Settle
  <2> QED
    BY <1>1, <2>1, ResolvedOwes DEF Settle
<1>2. CASE Settle /\ UNCHANGED <<stage, settled, queued, unqueued>> /\ DaemonAt("refused")
  <2>1. UNCHANGED <<host, generation, anchor, admitted, stage, turnOf, settled, queued, intents,
                    unqueued, emitter>>
    BY <1>2 DEF Settle, relVars
  <2>2. /\ daemon.phase = "settling" /\ daemon'.phase = "refused" /\ daemon'.event = daemon.event
        /\ daemon'.a = daemon.a /\ daemon'.turn = daemon.turn /\ daemon'.status = daemon.status
    BY <1>2 DEF OwedInv, IInv, TypeOK, Daemon, Settle, DaemonAt
  <2>3. ReportsTrue' /\ Reports' = Reports /\ \A d \in Final' : Owed(d)'
    BY <2>1, NothingMoves, QuietStep, ReportsStayTrue DEF OwedInv, IInv
  <2>4. DaemonReports'
    BY <2>1, <2>2, <2>3, SameWork DEF OwedInv, DaemonReports
  <2> QED
    BY <2>3, <2>4
<1>3. CASE SettleUnqueued
  <2>1. queued \cup intents \cup Queueable \subseteq queued' \cup intents'
    BY <1>3 DEF SettleUnqueued, Wanted
  <2> QED
    BY <1>3, <2>1, ResolvedOwes DEF SettleUnqueued
<1> QED
  BY <1>1, <1>2, <1>3 DEF Settle

LEMMA OwedNext == OwedInv /\ [Next]_vars => OwedInv'
<1> SUFFICES ASSUME OwedInv, [Next]_vars
             PROVE  (ReportsTrue /\ DaemonReports)' /\ \A e \in Final' : Owed(e)'
  BY NextKeeps DEF OwedInv
<1> DEFINE Goal == (ReportsTrue /\ DaemonReports)' /\ \A e \in Final' : Owed(e)'
<1>1. PICK a0 \in Assignments, t0 \in Turns, e0 \in Events : TRUE
  BY IntakeAssumption, Defaults DEF Daemon, Emitter
<1>2. ASSUME NEW t \in Turns, TurnEnds(t) PROVE Goal
  BY <1>2, HostOwes
<1>3. ASSUME NEW a \in Assignments, PauseOrResume(a) \/ OpenGeneration(a) PROVE Goal
  BY <1>1, <1>3, RegistryOwes
<1>4. ASSUME NEW a \in Assignments, NEW t \in Turns, BindAnchor(a, t) \/ Select(a, t) PROVE Goal
  BY <1>1, <1>4, RegistryOwes, ReadingOwes
<1>5. ASSUME NEW p \in Emitters, NEW e \in Events, NEW t \in Turns, ReadTurn(p, e, t) PROVE Goal
  BY <1>5, EmitOwes
<1>6. ASSUME NEW p \in Emitters, Check(p) \/ Store(p) \/ EmitQueues(p) \/ EmitStops(p)
      PROVE  Goal
  BY <1>1, <1>6, EmitOwes, StoreOwes, QueueingOwes
<1>7. CASE DaemonWorks \/ DaemonStops
  BY <1>1, <1>7, ReadingOwes, SynthesizeOwes, StoreObservationOwes, SettleOwes DEF DaemonWorks
<1>8. ASSUME NEW e \in Events, IntentDue(e) \/ Requeue(e) PROVE Goal
  BY <1>1, <1>8, ReadingOwes
<1>9. CASE UNCHANGED vars
  <2>1. UNCHANGED <<host, generation, anchor, admitted, stage, turnOf, settled, queued, intents,
                    unqueued, emitter, daemon>>
    BY <1>9 DEF vars, relVars, eventVars, queueVars
  <2> QED
    BY <2>1, NothingMoves, QuietStep, DaemonStays DEF OwedInv, IInv
<1> QED
  BY <1>2, <1>3, <1>4, <1>5, <1>6, <1>7, <1>8, <1>9 DEF Next

(***************************************************************************)
(* Every final event is queued, owed by an intent, on its way to the       *)
(* queue, or due to be found again, whatever pauses, generations, refusals *)
(* and crashes come between the daemon's report and its settlement         *)
(* (_settle_turn, _commit_settlement), or is one of the unqueued: an event *)
(* whose emitter ended before it asked for delivery, or a report of a turn *)
(* that was settled without it under a later generation.  Such a report is *)
(* lost, whatever the comment on _synthesize says.                         *)
(***************************************************************************)
THEOREM NothingIsLost == Spec => []FinalIsQueuedOrOwed
<1>1. OwedInv => FinalIsQueuedOrOwed
  BY DEF OwedInv, Owed, FinalIsQueuedOrOwed
<1> QED
  BY OwedInit, OwedNext, <1>1, PTL DEF Spec

(***************************************************************************)
(* What carries FailureIsAccountedFor: a turn is known to an assignment in *)
(* one generation, its anchor is fresh when it is bound, and the daemon    *)
(* that settles a failed turn without a report found it in an earlier one. *)
(***************************************************************************)

\* The turn is the anchor of the generation or was admitted to it.
KnownIn(a, g, t) == anchor[a][g] = t \/ <<a, g, t>> \in admitted

Earlier(a, t) == \E g \in Generations : g < generation[a] /\ KnownIn(a, g, t)

NothingAhead ==
  \A a \in Assignments, g \in Generations :
    g > generation[a] => \A t \in Turns : ~KnownIn(a, g, t)

AdmittedAreBound ==
  \A a \in Assignments, g \in Generations, t \in Turns : <<a, g, t>> \in admitted => Bound(a, g)

AnchorsFresh ==
  \A a \in Assignments, g, h \in Generations, t \in Turns :
    anchor[a][g] = t /\ h < g => ~KnownIn(a, h, t)

SettledHaveEnded ==
  \A a \in Assignments, t \in Turns : <<a, t>> \in settled => host[t] # "running"

StoredAreKnown ==
  \A e \in Events : stage[e] # "absent" => KnownIn(e.a, e.g, turnOf[e])

CheckedAreKnown ==
  \A p \in Emitters : emitter[p].phase = "checked" =>
    KnownIn(emitter[p].event.a, emitter[p].event.g, emitter[p].turn)

\* What the daemon looks at is known to the assignment; what it is about to settle as failed
\* it has reported under the generation it names, or it found it in an earlier one.
DaemonKnows ==
  /\ daemon.phase # "idle" => \E g \in Generations : KnownIn(daemon.a, g, daemon.turn)
  /\ daemon.phase \in {"settling", "refused"} /\ daemon.status = "failed" =>
       IF daemon.event = None THEN Earlier(daemon.a, daemon.turn)
       ELSE daemon.event.a = daemon.a /\ daemon.event.of = daemon.turn

Books == NothingAhead /\ AdmittedAreBound /\ AnchorsFresh /\ SettledHaveEnded /\ StoredAreKnown

ToldInv == OwedInv /\ Books /\ CheckedAreKnown /\ DaemonKnows /\ FailureIsAccountedFor

LEMMA ToldInit == Init => ToldInv
<1> SUFFICES ASSUME Init PROVE ToldInv
  OBVIOUS
<1>1. /\ admitted = {} /\ settled = {} /\ \A e \in Events : stage[e] = "absent"
      /\ \A p \in Emitters : emitter[p].phase = "idle"
      /\ daemon.phase = "idle"
  BY DEF Init, NoDaemon, NoEmitter
<1>2. \A a \in Assignments : generation[a] = 1
  BY DEF Init
<1>3. \A a \in Assignments, g \in Generations : g # 1 => anchor[a][g] = None
  BY DEF Init
<1>4. \A g \in Generations : g \in Nat /\ g >= 1
  BY DEF Generations
<1>5. NothingAhead
  BY <1>1, <1>2, <1>3, <1>4, IntakeAssumption DEF NothingAhead, KnownIn
<1>6. AnchorsFresh
  BY <1>1, <1>3, <1>4, IntakeAssumption DEF AnchorsFresh, KnownIn
<1>7. SettledHaveEnded /\ StoredAreKnown /\ AdmittedAreBound /\ FailureIsAccountedFor
  BY <1>1 DEF SettledHaveEnded, StoredAreKnown, AdmittedAreBound, FailureIsAccountedFor
<1>8. CheckedAreKnown /\ DaemonKnows
  BY <1>1 DEF CheckedAreKnown, DaemonKnows
<1> QED
  BY <1>5, <1>6, <1>7, <1>8, OwedInit DEF ToldInv, Books

LEMMA KnownStays ==
  ASSUME MovesOn
  PROVE  /\ \A a \in Assignments, g \in Generations, t \in Turns :
              KnownIn(a, g, t) => KnownIn(a, g, t)'
         /\ \A e \in Events : turnOf[e] \in Turns /\ turnOf'[e] = turnOf[e] /\ NewIn(e)' => NewIn(e)
<1>1. \A a \in Assignments, g \in Generations, t \in Turns : KnownIn(a, g, t) => KnownIn(a, g, t)'
  BY IntakeAssumption DEF MovesOn, KnownIn
<1>2. ASSUME NEW e \in Events, turnOf[e] \in Turns, turnOf'[e] = turnOf[e], NewIn(e)'
      PROVE  NewIn(e)
  <2>1. \A g \in 1..(e.g - 1) : g \in Generations
    BY EventFields, IntakeAssumption DEF Generations
  <2> QED
    BY <1>1, <1>2, <2>1, EventFields DEF NewIn, KnownIn
<1> QED
  BY <1>1, <1>2

\* A daemon that looks at the same turn, or at none, or has just begun.
LEMMA KnowsStill ==
  ASSUME ToldInv, MovesOn, daemon' = daemon \/ daemon'.phase = "idle"
  PROVE  DaemonKnows'
<1> USE DEF ToldInv
<1>1. PICK a \in Assignments, t \in Turns : a = daemon.a /\ t = daemon.turn
  BY DEF OwedInv, IInv, TypeOK, Daemon
<1>2. \A g \in Generations : KnownIn(a, g, t) => KnownIn(a, g, t)'
  BY KnownStays
<1>3. Earlier(a, t) => Earlier(a, t)'
  <2>1. /\ generation[a] \in Nat /\ generation'[a] \in Nat
        /\ generation[a] <= generation'[a] /\ \A g \in Generations : g \in Nat
    BY DEF OwedInv, IInv, TypeOK, MovesOn, Generations
  <2> QED
    BY <1>2, <2>1 DEF Earlier
<1>4. CASE daemon' = daemon
  <2>1. daemon'.a = a /\ daemon'.turn = t
    BY <1>1, <1>4
  <2>2. daemon.phase # "idle" => \E g \in Generations : KnownIn(a, g, t)'
    BY <1>1, <1>2 DEF DaemonKnows
  <2>3. daemon.phase \in {"settling", "refused"} /\ daemon.status = "failed" =>
          IF daemon.event = None THEN Earlier(a, t)'
          ELSE daemon.event.a = a /\ daemon.event.of = t
    BY <1>1, <1>3 DEF DaemonKnows
  <2> QED
    BY <1>4, <2>1, <2>2, <2>3 DEF DaemonKnows, KnownIn, Earlier
<1>5. CASE daemon'.phase = "idle"
  BY <1>5 DEF DaemonKnows
<1> QED
  BY <1>4, <1>5

LEMMA ToldStays ==
  ASSUME UNCHANGED generation, queued \cup intents \subseteq queued' \cup intents'
  PROVE  \A a, t : Told(a, t) => Told(a, t)'
BY DEF Told, ObservedFailure

\* The property after a step, with the turns it is about named.
LEMMA AccountedNext ==
  ASSUME TypeOK',
         \A a \in Assignments, t \in Turns :
           /\ anchor'[a][generation'[a]] = t /\ <<a, t>> \in settled' /\ host'[t] = "failed"
           => Told(a, t)',
         \A e \in Events, t \in Turns :
           /\ stage'[e] = "suppressed" /\ e.g = generation'[e.a] /\ NewIn(e)' /\ turnOf'[e] = t
           => Told(e.a, t)'
  PROVE  FailureIsAccountedFor'
<1>1. /\ settled' \in SUBSET (Assignments \X Turns)
      /\ \A e \in Events : stage'[e] = "suppressed" => turnOf'[e] \in Turns
  BY DEF TypeOK
<1>2. ASSUME NEW a \in Assignments, NEW t, t = anchor'[a][generation'[a]], <<a, t>> \in settled',
             host'[t] = "failed"
      PROVE  Told(a, t)'
  BY <1>1, <1>2
<1>3. \A e \in Events :
        stage'[e] = "suppressed" /\ e.g = generation'[e.a] /\ NewIn(e)' => Told(e.a, turnOf[e])'
  <2> SUFFICES ASSUME NEW e \in Events, stage'[e] = "suppressed", e.g = generation'[e.a], NewIn(e)'
               PROVE  Told(e.a, turnOf[e])'
    OBVIOUS
  <2>1. PICK t \in Turns : t = turnOf'[e]
    BY <1>1
  <2>2. Told(e.a, t)'
    BY <2>1
  <2> QED
    BY <2>1, <2>2 DEF Told, ObservedFailure
<1>4. ASSUME NEW a \in Assignments, <<a, anchor'[a][generation'[a]]>> \in settled',
             host'[anchor'[a][generation'[a]]] = "failed"
      PROVE  Told(a, anchor[a][generation[a]])'
  <2>1. PICK t \in Turns : t = anchor'[a][generation'[a]]
    BY <1>1, <1>4
  <2>2. Told(a, t)'
    BY <1>2, <1>4, <2>1
  <2> QED
    BY <2>1, <2>2 DEF Told, ObservedFailure
<1> QED
  BY <1>3, <1>4 DEF FailureIsAccountedFor

\* A step that stores, settles, binds and admits nothing, and forgets no report.
LEMMA QuietBooks ==
  ASSUME ToldInv, UNCHANGED <<generation, anchor, admitted, stage, turnOf, settled>>,
         \A t \in Turns : host[t] # "running" => host'[t] = host[t],
         queued \cup intents \subseteq queued' \cup intents'
  PROVE  Books' /\ FailureIsAccountedFor'
<1> USE DEF ToldInv, Books
<1>1. (NothingAhead /\ AdmittedAreBound /\ AnchorsFresh /\ StoredAreKnown)'
  BY DEF NothingAhead, AdmittedAreBound, AnchorsFresh, StoredAreKnown, KnownIn, Bound
<1>2. SettledHaveEnded'
  BY DEF SettledHaveEnded
<1>3. ASSUME NEW a \in Assignments, <<a, anchor[a][generation[a]]>> \in settled,
             host'[anchor[a][generation[a]]] = "failed"
      PROVE  Told(a, anchor[a][generation[a]])'
  <2>1. anchor[a][generation[a]] \in Turns
    BY <1>3 DEF OwedInv, IInv, TypeOK
  <2>2. host[anchor[a][generation[a]]] = "failed"
    BY <1>3, <2>1 DEF SettledHaveEnded
  <2> QED
    BY <1>3, <2>2, ToldStays DEF FailureIsAccountedFor
<1>4. \A e \in Events : NewIn(e)' <=> NewIn(e)
  BY DEF NewIn
<1>5. FailureIsAccountedFor'
  BY <1>3, <1>4, ToldStays DEF FailureIsAccountedFor
<1> QED
  BY <1>1, <1>2, <1>5

LEMMA HostTells ==
  ASSUME ToldInv, NEW t \in Turns, TurnEnds(t)
  PROVE  Books' /\ CheckedAreKnown' /\ DaemonKnows' /\ FailureIsAccountedFor'
<1> USE DEF TurnEnds, relVars, eventVars, queueVars
<1>1. MovesOn
  BY DEF ToldInv, OwedInv, IInv, TypeOK, MovesOn, Generations
<1>2. \A u \in Turns : host[u] # "running" => host'[u] = host[u]
  BY DEF ToldInv, OwedInv, IInv, TypeOK
<1>3. CheckedAreKnown'
  BY DEF ToldInv, CheckedAreKnown, KnownIn
<1> QED
  BY <1>1, <1>2, <1>3, QuietBooks, KnowsStill

LEMMA BindTells ==
  ASSUME ToldInv, NEW a \in Assignments, NEW t \in Turns, BindAnchor(a, t)
  PROVE  Books' /\ CheckedAreKnown' /\ DaemonKnows' /\ FailureIsAccountedFor'
<1> USE DEF ToldInv, Books
<1>1. /\ UNCHANGED <<generation, admitted, host, stage, turnOf, settled, queued, intents, emitter,
                     daemon>>
      /\ anchor' = [anchor EXCEPT ![a][generation[a]] = t]
      /\ anchor[a][generation[a]] = None /\ Fresh(a, t)
  BY DEF BindAnchor, Bound, eventVars, queueVars
<1>2. /\ anchor \in [Assignments -> [Generations -> Turns \cup {None}]]
      /\ generation[a] \in Generations
      /\ \A g \in Generations : g \in Nat
      /\ \A b \in Assignments : generation[b] \in Generations
  BY DEF OwedInv, IInv, TypeOK, Generations
<1>3. /\ \A b \in Assignments, g \in Generations :
           b # a \/ g # generation[a] => anchor'[b][g] = anchor[b][g]
      /\ anchor'[a][generation[a]] = t
  BY <1>1, <1>2
<1>4. MovesOn
  BY <1>1, <1>2, <1>3 DEF OwedInv, IInv, TypeOK, MovesOn, Generations
<1>5. NothingAhead'
  BY <1>1, <1>2, <1>3 DEF NothingAhead, KnownIn
<1>6. AdmittedAreBound'
  BY <1>1, <1>3, IntakeAssumption DEF AdmittedAreBound, Bound
<1>7. AnchorsFresh'
  <2> SUFFICES ASSUME NEW b \in Assignments, NEW g \in Generations, NEW h \in Generations,
                      NEW u \in Turns, anchor'[b][g] = u, h < g
               PROVE  ~KnownIn(b, h, u)'
    BY DEF AnchorsFresh
  <2>1. CASE b = a /\ g = generation[a]
    BY <1>1, <1>2, <1>3, <2>1 DEF Fresh, KnownIn
  <2>2. CASE b # a \/ g # generation[a]
    <3>1. anchor[b][g] = u /\ ~KnownIn(b, h, u)
      BY <1>3, <2>2 DEF AnchorsFresh
    <3>2. ~(b = a /\ h = generation[a])
      BY <1>2, <2>2, <3>1 DEF NothingAhead, KnownIn
    <3> QED
      BY <1>1, <1>3, <3>1, <3>2 DEF KnownIn
  <2> QED
    BY <2>1, <2>2
<1>8. StoredAreKnown'
  BY <1>1, <1>4, KnownStays, EventFields DEF StoredAreKnown, OwedInv, IInv, TypeOK
<1>9. CheckedAreKnown'
  BY <1>1, <1>4, KnownStays, EventFields DEF CheckedAreKnown, OwedInv, IInv, TypeOK, Emitter
<1>10. SettledHaveEnded' /\ DaemonKnows'
  BY <1>1, <1>4, KnowsStill DEF SettledHaveEnded
<1>11. FailureIsAccountedFor'
  <2>1. ASSUME NEW b \in Assignments, NEW u \in Turns, anchor'[b][generation'[b]] = u,
               <<b, u>> \in settled', host'[u] = "failed"
        PROVE  Told(b, u)'
    <3>1. b # a
      BY <1>1, <1>3, <2>1 DEF Fresh
    <3>2. anchor[b][generation[b]] = u
      BY <1>1, <1>2, <1>3, <2>1, <3>1
    <3>3. Told(b, u)
      BY <1>1, <2>1, <3>2 DEF FailureIsAccountedFor
    <3> QED
      BY <1>1, <3>3, ToldStays
  <2>2. ASSUME NEW e \in Events, NEW u \in Turns, stage'[e] = "suppressed",
               e.g = generation'[e.a], NewIn(e)', turnOf'[e] = u
        PROVE  Told(e.a, u)'
    <3>1. NewIn(e)
      BY <1>1, <1>4, <2>2, KnownStays
    <3>2. Told(e.a, u)
      BY <1>1, <2>2, <3>1 DEF FailureIsAccountedFor
    <3> QED
      BY <1>1, <3>2, ToldStays
  <2> QED
    BY <2>1, <2>2, AccountedNext, RegistryKeeps DEF OwedInv, IInv
<1> QED
  BY <1>5, <1>6, <1>7, <1>8, <1>9, <1>10, <1>11

LEMMA RegistryTells ==
  ASSUME ToldInv, NEW a \in Assignments, PauseOrResume(a) \/ OpenGeneration(a)
  PROVE  Books' /\ CheckedAreKnown' /\ DaemonKnows' /\ FailureIsAccountedFor'
<1> USE DEF ToldInv, Books
<1>1. UNCHANGED <<anchor, admitted, host, stage, turnOf, settled, queued, intents, emitter, daemon>>
  BY DEF PauseOrResume, OpenGeneration, eventVars, queueVars
<1>2. CheckedAreKnown'
  BY <1>1 DEF CheckedAreKnown, KnownIn
<1>3. CASE PauseOrResume(a)
  <2>1. UNCHANGED generation
    BY <1>3 DEF PauseOrResume
  <2> QED
    BY <1>1, <1>2, <2>1, QuietBooks, NothingMoves, KnowsStill DEF OwedInv, IInv
<1>4. CASE OpenGeneration(a)
  <2>1. /\ generation \in [Assignments -> Generations] /\ \A g \in Generations : g \in Nat
        /\ generation' = [generation EXCEPT ![a] = @ + 1] /\ generation[a] < MaxGeneration
        /\ generation[a] + 1 \in Generations
        /\ anchor \in [Assignments -> [Generations -> Turns \cup {None}]]
    BY <1>4, IntakeAssumption DEF OpenGeneration, OwedInv, IInv, TypeOK, Generations
  <2>2. MovesOn
    BY <1>1, <2>1 DEF MovesOn
  <2>3. NothingAhead'
    BY <1>1, <2>1 DEF NothingAhead, KnownIn
  <2>4. (AdmittedAreBound /\ AnchorsFresh /\ StoredAreKnown /\ SettledHaveEnded)'
    BY <1>1 DEF AdmittedAreBound, AnchorsFresh, StoredAreKnown, SettledHaveEnded, KnownIn, Bound
  <2>5. anchor[a][generation[a] + 1] = None
    <3>1. generation[a] + 1 > generation[a] /\ anchor[a][generation[a] + 1] \in Turns \cup {None}
      BY <2>1
    <3> QED
      BY <2>1, <3>1 DEF NothingAhead, KnownIn
  <2>6. FailureIsAccountedFor'
    <3>1. ASSUME NEW b \in Assignments, NEW u \in Turns, anchor'[b][generation'[b]] = u,
                 <<b, u>> \in settled', host'[u] = "failed"
          PROVE  Told(b, u)'
      <4>1. b # a
        BY <1>1, <2>1, <2>5, <3>1, IntakeAssumption
      <4>2. generation'[b] = generation[b]
        BY <2>1, <4>1
      <4>3. Told(b, u)
        BY <1>1, <3>1, <4>2 DEF FailureIsAccountedFor
      <4> QED
        BY <1>1, <4>2, <4>3 DEF Told, ObservedFailure
    <3>2. ASSUME NEW e \in Events, NEW u \in Turns, stage'[e] = "suppressed",
                 e.g = generation'[e.a], NewIn(e)', turnOf'[e] = u
          PROVE  Told(e.a, u)'
      <4>1. KnownIn(e.a, e.g, u)
        BY <1>1, <3>2 DEF StoredAreKnown
      <4>2. e.g <= generation[e.a]
        BY <2>1, <4>1, EventFields DEF NothingAhead
      <4>3. e.a # a /\ generation'[e.a] = generation[e.a]
        BY <2>1, <3>2, <4>2, EventFields
      <4>4. NewIn(e)
        BY <1>1, <3>2 DEF NewIn
      <4>5. Told(e.a, u)
        BY <1>1, <3>2, <4>3, <4>4 DEF FailureIsAccountedFor
      <4> QED
        BY <1>1, <4>3, <4>5 DEF Told, ObservedFailure
    <3>3. TypeOK'
      <4>1. PICK t \in Turns : TRUE
        BY IntakeAssumption
      <4> QED
        BY <1>4, RegistryKeeps DEF OwedInv, IInv
    <3> QED
      BY <3>1, <3>2, <3>3, AccountedNext
  <2> QED
    BY <1>1, <1>2, <2>2, <2>3, <2>4, <2>6, KnowsStill
<1> QED
  BY <1>3, <1>4

LEMMA EmitTells ==
  ASSUME ToldInv, NEW p \in Emitters, NEW e \in Events, NEW t \in Turns, ReadTurn(p, e, t)
  PROVE  Books' /\ CheckedAreKnown' /\ DaemonKnows' /\ FailureIsAccountedFor'
<1> USE DEF ToldInv
<1>1. UNCHANGED <<host, generation, anchor, admitted, stage, turnOf, settled, queued, intents,
                  daemon>>
  BY DEF ReadTurn, relVars, eventVars, queueVars
<1>2. \A q \in Emitters : emitter'[q].phase = "checked" => emitter'[q] = emitter[q]
  BY DEF ReadTurn, OwedInv, IInv, TypeOK
<1>3. CheckedAreKnown'
  BY <1>1, <1>2 DEF CheckedAreKnown, KnownIn
<1> QED
  BY <1>1, <1>3, NothingMoves, QuietBooks, KnowsStill DEF OwedInv, IInv

\* An admission is to the current generation, before any anchor of a later one.
LEMMA CheckTells ==
  ASSUME ToldInv, NEW p \in Emitters, Check(p)
  PROVE  Books' /\ CheckedAreKnown' /\ DaemonKnows' /\ FailureIsAccountedFor'
<1> USE DEF ToldInv, Books
<1>1. PICK e \in Events, t \in Turns : e = emitter[p].event /\ t = emitter[p].turn
  BY DEF OwedInv, IInv, TypeOK, Emitter
<1>2. /\ UNCHANGED <<host, generation, anchor, stage, turnOf, settled, queued, intents, daemon>>
      /\ e.g = generation[e.a] /\ Bound(e.a, e.g)
      /\ admitted' = IF t = anchor[e.a][e.g] THEN admitted ELSE admitted \cup {<<e.a, e.g, t>>}
  BY <1>1 DEF Check, CheckGeneration, CheckTurnIdentity, relVars, queueVars
<1>3. MovesOn
  BY <1>2 DEF OwedInv, IInv, TypeOK, MovesOn, Generations
<1>4. /\ KnownIn(e.a, e.g, t)'
      /\ \A a \in Assignments, g \in Generations, u \in Turns :
           KnownIn(a, g, u)' => KnownIn(a, g, u) \/ (a = e.a /\ g = e.g /\ u = t)
  BY <1>2 DEF KnownIn
<1>5. \A g \in Generations : g \in Nat
  BY DEF Generations
<1>6. NothingAhead'
  BY <1>2, <1>4, <1>5, EventFields DEF NothingAhead
<1>7. AdmittedAreBound'
  BY <1>2 DEF AdmittedAreBound, Bound
<1>8. AnchorsFresh'
  <2> SUFFICES ASSUME NEW a \in Assignments, NEW g \in Generations, NEW h \in Generations,
                      NEW u \in Turns, anchor[a][g] = u, h < g, KnownIn(a, h, u)'
               PROVE  FALSE
    BY <1>2 DEF AnchorsFresh
  <2>1. ~KnownIn(a, h, u)
    BY DEF AnchorsFresh
  <2>2. a = e.a /\ h = generation[a]
    BY <1>2, <1>4, <2>1
  <2> QED
    BY <1>5, <2>2 DEF NothingAhead, KnownIn
<1>9. StoredAreKnown'
  BY <1>2, <1>3, KnownStays, EventFields DEF StoredAreKnown, OwedInv, IInv, TypeOK
<1>10. SettledHaveEnded' /\ DaemonKnows'
  BY <1>2, <1>3, KnowsStill DEF SettledHaveEnded
<1>11. CheckedAreKnown'
  <2>1. /\ emitter'[p].event = e /\ emitter'[p].turn = t
        /\ \A q \in Emitters : q # p => emitter'[q] = emitter[q]
    BY <1>1 DEF Check, EmitterAt, OwedInv, IInv, TypeOK, Emitter
  <2>2. ASSUME NEW q \in Emitters, emitter'[q].phase = "checked"
        PROVE  KnownIn(emitter[q].event.a, emitter[q].event.g, emitter[q].turn)'
    <3>1. CASE q = p
      BY <1>4, <2>1, <3>1 DEF KnownIn
    <3>2. CASE q # p
      <4>1. PICK d \in Events, u \in Turns : d = emitter[q].event /\ u = emitter[q].turn
        BY DEF OwedInv, IInv, TypeOK, Emitter
      <4>2. KnownIn(d.a, d.g, u)
        BY <2>1, <2>2, <3>2, <4>1 DEF CheckedAreKnown
      <4>3. KnownIn(d.a, d.g, u)'
        BY <1>3, <4>2, KnownStays, EventFields
      <4> QED
        BY <2>1, <3>2, <4>1, <4>3 DEF KnownIn
    <3> QED
      BY <3>1, <3>2
  <2> QED
    BY <2>2 DEF CheckedAreKnown
<1>12. FailureIsAccountedFor'
  <2>1. ASSUME NEW b \in Assignments, NEW u \in Turns, anchor'[b][generation'[b]] = u,
               <<b, u>> \in settled', host'[u] = "failed"
        PROVE  Told(b, u)'
    BY <1>2, <2>1, ToldStays DEF FailureIsAccountedFor
  <2>2. ASSUME NEW d \in Events, NEW u \in Turns, stage'[d] = "suppressed",
               d.g = generation'[d.a], NewIn(d)', turnOf'[d] = u
        PROVE  Told(d.a, u)'
    <3>1. NewIn(d)
      BY <1>2, <1>3, <2>2, KnownStays
    <3> QED
      BY <1>2, <2>2, <3>1, ToldStays DEF FailureIsAccountedFor
  <2> QED
    BY <2>1, <2>2, AccountedNext, CheckKeeps DEF OwedInv, IInv
<1> QED
  BY <1>6, <1>7, <1>8, <1>9, <1>10, <1>11, <1>12

\* What is stored is of a turn known to the generation, and nothing stored is suppressed at once.
LEMMA StoredTells ==
  ASSUME ToldInv, TypeOK', NEW e \in Events, NEW t \in Turns, NEW s \in TurnStatuses,
         StoreEvent(e, t, s), KnownIn(e.a, e.g, t),
         UNCHANGED <<host, generation, anchor, admitted, settled, queued, intents>>
  PROVE  Books' /\ FailureIsAccountedFor'
<1> USE DEF ToldInv, Books
<1>1. /\ \A d \in Events : d # e \/ stage[d] # "absent" =>
           stage'[d] = stage[d] /\ turnOf'[d] = turnOf[d]
      /\ stage[e] = "absent" => stage'[e] \in {"staged", "final"} /\ turnOf'[e] = t
  BY StoreEventTypes DEF OwedInv, IInv
<1>2. (NothingAhead /\ AdmittedAreBound /\ AnchorsFresh /\ SettledHaveEnded)'
  BY DEF NothingAhead, AdmittedAreBound, AnchorsFresh, SettledHaveEnded, KnownIn, Bound
<1>3. StoredAreKnown'
  BY <1>1 DEF StoredAreKnown, KnownIn
<1>4. ASSUME NEW b \in Assignments, NEW u \in Turns, anchor'[b][generation'[b]] = u,
             <<b, u>> \in settled', host'[u] = "failed"
      PROVE  Told(b, u)'
  BY <1>4, ToldStays DEF FailureIsAccountedFor
<1>5. ASSUME NEW d \in Events, NEW u \in Turns, stage'[d] = "suppressed",
             d.g = generation'[d.a], NewIn(d)', turnOf'[d] = u
      PROVE  Told(d.a, u)'
  <2>1. stage[d] = "suppressed" /\ turnOf[d] = u
    BY <1>1, <1>5
  <2>2. NewIn(d)
    <3>1. \A g \in 1..(d.g - 1) : anchor[d.a][g] # u /\ <<d.a, g, u>> \notin admitted
      BY <1>5 DEF NewIn
    <3> QED
      BY <2>1, <3>1 DEF NewIn
  <2> QED
    BY <1>5, <2>1, <2>2, ToldStays DEF FailureIsAccountedFor
<1> QED
  BY <1>2, <1>3, <1>4, <1>5, AccountedNext

LEMMA StoreTells ==
  ASSUME ToldInv, NEW p \in Emitters, Store(p)
  PROVE  Books' /\ CheckedAreKnown' /\ DaemonKnows' /\ FailureIsAccountedFor'
<1> USE DEF ToldInv
<1>1. PICK e \in Events, t \in Turns, s \in TurnStatuses :
        e = emitter[p].event /\ t = emitter[p].turn /\ s = emitter[p].status
  BY DEF OwedInv, IInv, TypeOK, Emitter
<1>2. /\ StoreEvent(e, t, s) /\ KnownIn(e.a, e.g, t)
      /\ UNCHANGED <<host, generation, anchor, admitted, settled, queued, intents, daemon>>
  BY <1>1 DEF Store, CheckedAreKnown, relVars, queueVars
<1>3. TypeOK'
  BY StoreKeeps DEF OwedInv, IInv
<1>4. \A q \in Emitters : emitter'[q].phase = "checked" => emitter'[q] = emitter[q]
  BY DEF Store, EmitterAt, OwedInv, IInv, TypeOK, Emitter
<1>5. CheckedAreKnown'
  BY <1>2, <1>4 DEF CheckedAreKnown, KnownIn
<1> QED
  BY <1>2, <1>3, <1>5, NothingMoves, StoredTells, KnowsStill DEF OwedInv, IInv

LEMMA StoreObservationTells ==
  ASSUME ToldInv, StoreObservation
  PROVE  Books' /\ CheckedAreKnown' /\ DaemonKnows' /\ FailureIsAccountedFor'
<1> USE DEF ToldInv
<1>1. PICK e \in Events, t \in Turns, s \in TurnStatuses :
        e = daemon.event /\ t = daemon.turn /\ s = daemon.status
  BY DEF StoreObservation, OwedInv, IInv, TypeOK, Daemon, DaemonHeard
<1>2. /\ StoreEvent(e, t, s) /\ daemon.a = e.a /\ t = e.of /\ daemon.phase = "asserting"
      /\ KnownIn(e.a, e.g, t)
      /\ UNCHANGED <<host, generation, anchor, admitted, settled, queued, intents, emitter>>
  BY <1>1
     DEF StoreObservation, OwedInv, DaemonReports, AdmittedTo, KnownIn, relVars, queueVars
<1>3. TypeOK'
  BY StoreObservationKeeps DEF OwedInv, IInv
<1>4. CheckedAreKnown'
  BY <1>2 DEF CheckedAreKnown, KnownIn
<1>5. DaemonKnows'
  <2>1. /\ daemon'.a = e.a /\ daemon'.turn = e.of /\ daemon'.event = e
        /\ daemon'.phase = "settling"
    BY <1>1, <1>2 DEF StoreObservation, DaemonAt, OwedInv, IInv, TypeOK, Daemon
  <2>2. KnownIn(e.a, e.g, t)' /\ e.g \in Generations /\ e # None
    BY <1>2, EventFields, IntakeAssumption DEF KnownIn
  <2> QED
    BY <1>2, <2>1, <2>2 DEF DaemonKnows, KnownIn
<1> QED
  BY <1>2, <1>3, <1>4, <1>5, StoredTells

LEMMA QueueingTells ==
  ASSUME ToldInv, NEW p \in Emitters, EmitQueues(p) \/ EmitStops(p)
  PROVE  Books' /\ CheckedAreKnown' /\ DaemonKnows' /\ FailureIsAccountedFor'
<1> USE DEF ToldInv
<1>1. /\ UNCHANGED <<host, generation, anchor, admitted, stage, turnOf, settled, daemon>>
      /\ queued \cup intents \subseteq queued' \cup intents'
  <2>1. CASE EmitQueues(p)
    BY <2>1 DEF EmitQueues, Enqueue, relVars, eventVars
  <2>2. CASE EmitStops(p)
    BY <2>2 DEF EmitStops, relVars, eventVars, queueVars
  <2> QED
    BY <2>1, <2>2
<1>2. \A q \in Emitters : emitter'[q].phase = "checked" => emitter'[q] = emitter[q]
  BY DEF EmitQueues, EmitStops, NoEmitter, OwedInv, IInv, TypeOK
<1>3. CheckedAreKnown'
  BY <1>1, <1>2 DEF CheckedAreKnown, KnownIn
<1> QED
  BY <1>1, <1>3, NothingMoves, QuietBooks, KnowsStill DEF OwedInv, IInv

\* A candidate is an anchor, or the turn of a claim.
LEMMA SelectKnows ==
  ASSUME ToldInv, NEW a \in Assignments, NEW t \in Turns, Select(a, t)
  PROVE  DaemonKnows'
<1> USE DEF ToldInv, Books
<1>1. daemon'.phase = "selected" /\ daemon'.a = a /\ daemon'.turn = t
  BY Defaults DEF Select, NoDaemon, Daemon
<1>2. UNCHANGED <<anchor, admitted>> /\ t \in Candidates(a)
  BY DEF Select, relVars, eventVars
<1>3. \E g \in Generations : KnownIn(a, g, t)
  <2>1. CASE t \in {anchor[a][g] : g \in Generations}
    BY <2>1 DEF KnownIn
  <2>2. CASE Staged(a, t) # {}
    <3>1. PICK e \in Events : e.a = a /\ turnOf[e] = t /\ stage[e] = "staged"
      BY <2>2 DEF Staged
    <3> QED
      BY <3>1, EventFields DEF StoredAreKnown
  <2> QED
    BY <1>2, <2>1, <2>2 DEF Candidates
<1> QED
  BY <1>1, <1>2, <1>3 DEF DaemonKnows, KnownIn

LEMMA ReadingTells ==
  ASSUME ToldInv, NEW a \in Assignments, NEW t \in Turns, NEW e \in Events,
         Select(a, t) \/ Observe \/ NothingToObserve \/ DaemonStops \/ IntentDue(e) \/ Requeue(e)
  PROVE  Books' /\ CheckedAreKnown' /\ DaemonKnows' /\ FailureIsAccountedFor'
<1> USE DEF ToldInv
<1>1. /\ UNCHANGED <<host, generation, anchor, admitted, stage, turnOf, settled, emitter>>
      /\ queued \cup intents \subseteq queued' \cup intents'
  <2>1. CASE Requeue(e)
    BY <2>1 DEF Requeue, Enqueue, relVars, eventVars
  <2>2. CASE ~Requeue(e)
    BY <2>2 DEF Select, Observe, NothingToObserve, DaemonStops, IntentDue, relVars, eventVars,
                queueVars
  <2> QED
    BY <2>1, <2>2
<1>2. MovesOn
  BY <1>1, NothingMoves DEF OwedInv, IInv
<1>3. CheckedAreKnown'
  BY <1>1 DEF CheckedAreKnown, KnownIn
<1>4. DaemonKnows'
  <2>1. CASE Select(a, t)
    BY <2>1, SelectKnows
  <2>2. CASE Observe
    <3>1. /\ daemon.phase = "selected" /\ daemon'.phase = "observed"
          /\ daemon'.a = daemon.a /\ daemon'.turn = daemon.turn
      BY <2>2 DEF Observe, OwedInv, IInv, TypeOK, Daemon
    <3> QED
      BY <1>1, <3>1 DEF DaemonKnows, KnownIn
  <2>3. CASE ~Select(a, t) /\ ~Observe
    <3>1. daemon' = daemon \/ daemon'.phase = "idle"
      BY <2>3 DEF NothingToObserve, DaemonStops, IntentDue, Requeue, NoDaemon
    <3> QED
      BY <1>2, <3>1, KnowsStill
  <2> QED
    BY <2>1, <2>2, <2>3
<1> QED
  BY <1>1, <1>3, <1>4, QuietBooks

\* The daemon that does not report a failed turn found it in an earlier generation.
LEMMA SynthesizeTells ==
  ASSUME ToldInv, Synthesize
  PROVE  Books' /\ CheckedAreKnown' /\ DaemonKnows' /\ FailureIsAccountedFor'
<1> USE DEF ToldInv
<1>1. UNCHANGED <<host, generation, anchor, admitted, stage, turnOf, settled, emitter, queued,
                  intents>>
  BY DEF Synthesize, relVars, eventVars, queueVars
<1>2. CheckedAreKnown'
  BY <1>1 DEF CheckedAreKnown, KnownIn
<1>3. DaemonKnows'
  <2>1. PICK a \in Assignments, t \in Turns :
          /\ a = daemon.a /\ t = daemon.turn
          /\ daemon.phase = "observed" /\ daemon.event = None /\ daemon \in Daemon
    BY DEF Synthesize, OwedInv, IInv, TypeOK, Daemon, DaemonHeard
  <2>2. PICK g \in Generations : KnownIn(a, g, t)
    BY <2>1 DEF DaemonKnows
  <2>3. ~Admitted(a, t) => g < generation[a]
    <3>1. g \in Nat /\ generation[a] \in Nat /\ generation[a] \in Generations
      BY DEF OwedInv, IInv, TypeOK, Generations
    <3>2. g <= generation[a]
      BY <2>2, <3>1 DEF Books, NothingAhead
    <3>3. g = generation[a] => Admitted(a, t)
      BY <2>2, IntakeAssumption DEF Books, AdmittedAreBound, Admitted, KnownIn, Bound
    <3> QED
      BY <3>1, <3>2, <3>3
  <2>4. \/ daemon'.phase = "idle"
        \/ /\ daemon'.a = a /\ daemon'.turn = t /\ daemon'.status = daemon.status
           /\ \/ daemon'.phase = "asserting"
              \/ /\ daemon'.phase = "settling" /\ daemon'.event = None
                 /\ daemon.status = "completed" \/ ~Admitted(a, t)
    <3> DEFINE o == ObservedFailure(a, t)
    <3>1. \/ daemon' = NoDaemon
          \/ daemon' = [daemon EXCEPT !.phase = "asserting", !.event = o]
          \/ /\ daemon' = [daemon EXCEPT !.phase = "settling"]
             /\ daemon.status = "completed" \/ ~Admitted(a, t)
      BY <2>1 DEF Synthesize, PauseDefers
    <3> HIDE DEF o
    <3>2. CASE daemon' = NoDaemon
      BY <3>2 DEF NoDaemon
    <3>3. CASE daemon' = [daemon EXCEPT !.phase = "asserting", !.event = o]
      BY <2>1, <3>3 DEF Daemon
    <3>4. CASE /\ daemon' = [daemon EXCEPT !.phase = "settling"]
               /\ daemon.status = "completed" \/ ~Admitted(a, t)
      <4>1. /\ daemon'.a = a /\ daemon'.turn = t /\ daemon'.status = daemon.status
            /\ daemon'.phase = "settling" /\ daemon'.event = None
        BY <2>1, <3>4 DEF Daemon
      <4> QED
        BY <3>4, <4>1
    <3> QED
      BY <3>1, <3>2, <3>3, <3>4
  <2>5. KnownIn(a, g, t)' /\ (g < generation[a] => Earlier(a, t)')
    BY <1>1, <2>2 DEF Earlier, KnownIn
  <2>6. CASE daemon'.phase = "idle"
    BY <2>6 DEF DaemonKnows
  <2>7. CASE daemon'.phase # "idle"
    <3>1. daemon'.a = a /\ daemon'.turn = t
      BY <2>4, <2>7
    <3>2. \E h \in Generations : KnownIn(daemon.a, h, daemon.turn)'
      BY <2>5, <3>1 DEF KnownIn
    <3>3. daemon'.phase \in {"settling", "refused"} /\ daemon'.status = "failed" =>
            daemon'.event = None /\ Earlier(a, t)'
      BY <2>3, <2>4, <2>5
    <3> QED
      BY <3>1, <3>2, <3>3 DEF DaemonKnows, Earlier, KnownIn
  <2> QED
    BY <2>6, <2>7
<1> QED
  BY <1>1, <1>2, <1>3, QuietBooks

\* A failed turn is settled with the current report of it, unless an earlier generation had it.
LEMMA SettlesWithReport ==
  ASSUME ToldInv, daemon.phase \in {"settling", "refused"}, daemon.status = "failed"
  PROVE  \/ ObservedFailure(daemon.a, daemon.turn) \in Queueable
         \/ Earlier(daemon.a, daemon.turn)
<1> USE DEF ToldInv
<1>1. CASE daemon.event = None
  BY <1>1 DEF DaemonKnows
<1>2. CASE daemon.event # None
  <2>1. PICK e \in Events : e = daemon.event /\ e \in Reports /\ e \in Queueable
    BY <1>2 DEF OwedInv, IInv, TypeOK, Daemon, DaemonHeard, Reports, Queueable
  <2>2. /\ e.a = daemon.a /\ e.of = daemon.turn /\ e.g \in Nat /\ e.g \in Generations
        /\ e.g <= generation[e.a] /\ AdmittedTo(e) /\ generation[e.a] \in Nat
    BY <1>2, <2>1, EventFields
       DEF DaemonKnows, OwedInv, ReportsTrue, IInv, TypeOK, Generations
  <2>3. CASE e.g = generation[e.a]
    <3>1. e.outcome = "observed"
      BY <2>1 DEF Reports, FromChild
    <3>2. e = [a |-> e.a, g |-> e.g, outcome |-> e.outcome, of |-> e.of]
      BY DEF Events
    <3> QED
      BY <2>1, <2>2, <2>3, <3>1, <3>2 DEF ObservedFailure
  <2>4. CASE e.g < generation[e.a]
    BY <2>2, <2>4 DEF Earlier, KnownIn, AdmittedTo
  <2> QED
    BY <2>2, <2>3, <2>4
<1> QED
  BY <1>1, <1>2

LEMMA ResolvedTells ==
  ASSUME ToldInv, TypeOK', Resolve, daemon.phase \in {"settling", "refused"},
         UNCHANGED <<relVars, host, turnOf, admitted, emitter>>,
         queued \cup intents \cup Queueable \subseteq queued' \cup intents',
         daemon' = NoDaemon
  PROVE  Books' /\ CheckedAreKnown' /\ DaemonKnows' /\ FailureIsAccountedFor'
<1> USE DEF ToldInv, Books, relVars
<1>1. PICK a \in Assignments, t \in Turns :
        /\ a = daemon.a /\ t = daemon.turn /\ settled' = settled \cup {<<a, t>>}
        /\ host[t] = daemon.status /\ host[t] \in {"completed", "failed"}
  BY DEF Resolve, OwedInv, IInv, TypeOK, Daemon, DaemonHeard, TurnStatuses
<1>2. (NothingAhead /\ AdmittedAreBound /\ AnchorsFresh)'
  BY DEF NothingAhead, AdmittedAreBound, AnchorsFresh, KnownIn, Bound
<1>3. SettledHaveEnded'
  BY <1>1 DEF SettledHaveEnded
<1>4. StoredAreKnown'
  BY ResolveFacts DEF StoredAreKnown, KnownIn, OwedInv
<1>5. CheckedAreKnown' /\ DaemonKnows'
  BY DEF CheckedAreKnown, DaemonKnows, KnownIn, NoDaemon
<1>6. host[t] = "failed" => Told(a, t)' \/ Earlier(a, t)
  BY <1>1, SettlesWithReport DEF Told, ObservedFailure
<1>7. ASSUME NEW b \in Assignments, NEW u \in Turns, anchor'[b][generation'[b]] = u,
             <<b, u>> \in settled', host'[u] = "failed"
      PROVE  Told(b, u)'
  <2>1. CASE <<b, u>> \in settled
    BY <1>7, <2>1, ToldStays DEF FailureIsAccountedFor
  <2>2. CASE b = a /\ u = t
    <3>1. ~Earlier(a, t)
      BY <1>7, <2>2 DEF Earlier, AnchorsFresh, OwedInv, IInv, TypeOK
    <3> QED
      BY <1>6, <1>7, <2>2, <3>1
  <2> QED
    BY <1>1, <1>7, <2>1, <2>2
<1>8. ASSUME NEW e \in Events, NEW u \in Turns, stage'[e] = "suppressed",
             e.g = generation'[e.a], NewIn(e)', turnOf'[e] = u
      PROVE  Told(e.a, u)'
  <2>1. NewIn(e) /\ turnOf[e] = u /\ e.g = generation[e.a]
    BY <1>8 DEF NewIn
  <2>2. CASE stage[e] = "suppressed"
    BY <2>1, <2>2, ToldStays DEF FailureIsAccountedFor
  <2>3. CASE stage[e] # "suppressed"
    <3>1. e.a = a /\ u = t /\ e \in Staged(daemon.a, daemon.turn) /\ e \notin Queueable
      BY <1>1, <1>8, <2>1, <2>3 DEF Resolve, Staged
    <3>2. daemon.status # "completed"
      BY <3>1 DEF Queueable, Finalized
    <3>3. ~Earlier(a, t)
      <4>1. \A g \in Generations : g < e.g => g \in 1..(e.g - 1)
        BY EventFields DEF Generations
      <4> QED
        BY <2>1, <3>1, <4>1 DEF Earlier, NewIn, KnownIn
    <3> QED
      BY <1>1, <1>6, <3>1, <3>2, <3>3
  <2> QED
    BY <2>2, <2>3
<1> QED
  BY <1>2, <1>3, <1>4, <1>5, <1>7, <1>8, AccountedNext

LEMMA SettleTells ==
  ASSUME ToldInv, Settle \/ SettleUnqueued
  PROVE  Books' /\ CheckedAreKnown' /\ DaemonKnows' /\ FailureIsAccountedFor'
<1> USE DEF ToldInv
<1>1. TypeOK'
  BY SettleKeeps DEF OwedInv, IInv
<1>2. CASE Settle /\ Resolve /\ queued' = queued \cup Queueable /\ daemon' = NoDaemon
  <2>1. queued \cup intents \cup Queueable \subseteq queued' \cup intents'
    BY <1>2 DEF Settle
  <2> QED
    BY <1>1, <1>2, <2>1, ResolvedTells DEF Settle
<1>3. CASE Settle /\ UNCHANGED <<stage, settled, queued, unqueued>> /\ DaemonAt("refused")
  <2>1. UNCHANGED <<host, generation, anchor, admitted, stage, turnOf, settled, queued, intents,
                    emitter>>
    BY <1>3 DEF Settle, relVars
  <2>2. /\ daemon.phase = "settling" /\ daemon'.phase = "refused" /\ daemon'.event = daemon.event
        /\ daemon'.a = daemon.a /\ daemon'.turn = daemon.turn /\ daemon'.status = daemon.status
    BY <1>3 DEF OwedInv, IInv, TypeOK, Daemon, Settle, DaemonAt
  <2>3. CheckedAreKnown' /\ DaemonKnows'
    BY <2>1, <2>2 DEF CheckedAreKnown, DaemonKnows, KnownIn, Earlier
  <2> QED
    BY <2>1, <2>3, QuietBooks
<1>4. CASE SettleUnqueued
  <2>1. queued \cup intents \cup Queueable \subseteq queued' \cup intents'
    BY <1>4 DEF SettleUnqueued, Wanted
  <2> QED
    BY <1>1, <1>4, <2>1, ResolvedTells DEF SettleUnqueued
<1> QED
  BY <1>2, <1>3, <1>4 DEF Settle

LEMMA ToldNext == ToldInv /\ [Next]_vars => ToldInv'
<1> SUFFICES ASSUME ToldInv, [Next]_vars
             PROVE  Books' /\ CheckedAreKnown' /\ DaemonKnows' /\ FailureIsAccountedFor'
  BY OwedNext DEF ToldInv
<1> DEFINE Goal == Books' /\ CheckedAreKnown' /\ DaemonKnows' /\ FailureIsAccountedFor'
<1>1. PICK a0 \in Assignments, t0 \in Turns, e0 \in Events : TRUE
  BY IntakeAssumption, Defaults DEF Daemon, Emitter
<1>2. ASSUME NEW t \in Turns, TurnEnds(t) PROVE Goal
  BY <1>2, HostTells
<1>3. ASSUME NEW a \in Assignments, PauseOrResume(a) \/ OpenGeneration(a) PROVE Goal
  BY <1>3, RegistryTells
<1>4. ASSUME NEW a \in Assignments, NEW t \in Turns, BindAnchor(a, t) \/ Select(a, t) PROVE Goal
  BY <1>1, <1>4, BindTells, ReadingTells
<1>5. ASSUME NEW p \in Emitters, NEW e \in Events, NEW t \in Turns, ReadTurn(p, e, t) PROVE Goal
  BY <1>5, EmitTells
<1>6. ASSUME NEW p \in Emitters, Check(p) \/ Store(p) \/ EmitQueues(p) \/ EmitStops(p)
      PROVE  Goal
  BY <1>6, CheckTells, StoreTells, QueueingTells
<1>7. CASE DaemonWorks \/ DaemonStops
  BY <1>1, <1>7, ReadingTells, SynthesizeTells, StoreObservationTells, SettleTells DEF DaemonWorks
<1>8. ASSUME NEW e \in Events, IntentDue(e) \/ Requeue(e) PROVE Goal
  BY <1>1, <1>8, ReadingTells
<1>9. CASE UNCHANGED vars
  <2>1. UNCHANGED <<host, generation, anchor, admitted, stage, turnOf, settled, queued, intents,
                    emitter, daemon>>
    BY <1>9 DEF vars, relVars, eventVars, queueVars
  <2>2. CheckedAreKnown'
    BY <2>1 DEF ToldInv, CheckedAreKnown, KnownIn
  <2> QED
    BY <2>1, <2>2, NothingMoves, QuietBooks, KnowsStill DEF ToldInv, OwedInv, IInv
<1> QED
  BY <1>2, <1>3, <1>4, <1>5, <1>6, <1>7, <1>8, <1>9 DEF Next

(***************************************************************************)
(* The safe half of FailuresAreReported: no turn that failed is settled,   *)
(* and no claim suppressed, without the report of the failure queued or    *)
(* owed, however generations open, anchors are bound, claims arrive and    *)
(* the daemon dies or is refused in between (_synthesize,                  *)
(* _commit_settlement).                                                    *)
(***************************************************************************)
THEOREM FailuresAccounted == Spec => []FailureIsAccountedFor
<1>1. ToldInv => FailureIsAccountedFor
  BY DEF ToldInv
<1> QED
  BY ToldInit, ToldNext, <1>1, PTL DEF Spec
=============================================================================
