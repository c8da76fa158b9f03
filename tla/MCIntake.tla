------------------------------ MODULE MCIntake ------------------------------
(***************************************************************************)
(* Model values of Intake for TLC, and the cases it is checked in, one     *)
(* chosen initially.                                                       *)
(*                                                                         *)
(*   shared:      two assignments of one child share a turn, one of them   *)
(*                is paused and resumed;                                   *)
(*   generations: one assignment goes through two generations and turns;   *)
(*   again:       a claim is emitted again, from the same turn or another. *)
(***************************************************************************)
EXTENDS Intake

CONSTANTS a1, a2, t1, t2, v1, x

TwoAssignments == {a1, a2}
TwoTurns    == {t1, t2}
OneRevision == {v1}
OneEmitter  == {x}

VARIABLE case

\* Only a1 acts, and a2 is paused.
Alone ==
  /\ anchor[a1][1] = t1 /\ anchor[a2][1] = t2 /\ ~active[a2] /\ generation[a2] = 1
  /\ daemon.phase # "idle" => daemon.a = a1
  /\ emitter[x].phase # "idle" => Ready(emitter[x].event)

Restricted ==
  /\ emitter[x].phase # "idle" => emitter[x].event.a = a1
  /\ CASE case = "shared" ->
            /\ \A a \in Assignments : generation[a] = 1 /\ anchor[a][1] = t1
            /\ emitter[x].phase # "idle" => emitter[x].turn = t1
            /\ host[t2] = "running" /\ active[a2] /\ emits <= 1
       [] case = "generations" -> Alone /\ pauses + trouble <= 1 /\ emits <= 1
       [] case = "again"       -> Alone /\ pauses = 0 /\ generation[a1] = 1 /\ trouble = 0

MCInit == Init /\ active[a1] /\ case \in {"shared", "generations", "again"} /\ Restricted
In(A) == A /\ UNCHANGED case /\ Restricted'
MCvars == <<vars, case>>

\* The daemon goes on; its rotating cursors bring every turn and every intent round; and a host
\* that can be read again and again is read once.
Fairness ==
  /\ WF_MCvars(In(DaemonWorks)) /\ SF_MCvars(In(Observe))
  /\ \A a \in Assignments, t \in Turns : SF_MCvars(In(Select(a, t)))
  /\ WF_MCvars(In(\E e \in Events : IntentDue(e)))
  /\ SF_MCvars(In(\E e \in Events : Requeue(e)))

MCFairSpec == MCInit /\ [][In(Next)]_MCvars /\ Fairness
=============================================================================
