------------------------------- MODULE Guard -------------------------------
(***************************************************************************)
(* The Stop hook: when a turn of a session ends, each registered copy of   *)
(* the completion adapter asks `guard-evaluate' whether the turn may end,  *)
(* and the guard may hold it, once, when the session is an assignment's    *)
(* child and the turn left out what a child owes.  The coordinator and the *)
(* child publish the facts the guard reads as create-once files, each when *)
(* it gets there.                                                          *)
(*                                                                         *)
(* An evaluation is a process of its own, in a process group of its own:   *)
(* the adapter ends it when it is late, and it outlives an adapter that    *)
(* the host kills.  Only hold mode is here: observe never holds.           *)
(***************************************************************************)
EXTENDS Naturals, Sequences, SequencesExt, FiniteSets

CONSTANTS
  Assignments,  \* dispatch requests of one relationship, one generation each
  Sessions,
  Copies,       \* names of registrations of the adapter in the host's hook file
  Nobody,
  Turns,        \* model bound on the turns of a session
  Window,       \* SESSION_WINDOW_MINUTES, in ticks of the clock
  Ticks,        \* model bound on the clock
  Misses        \* model bound on kills and on reads and writes that fail

ASSUME GuardAssumption == Turns \in Nat \ {0} /\ Window \in Nat

VARIABLES
  declared,      \* the assignments whose intent is published, oldest first
  bound,         \* the session each assignment is bound to
  conflicts,     \* binds that lost, by assignment
  claims,        \* what sessions claimed
  registered,    \* assignments whose relationship is published
  dispositions,  \* what turns declared
  opened,        \* the relay: generations opened, the last one current
  head,          \* the relay: the turn whose receipt is at the current head
  intact,        \* the artifacts still are what that receipt says
  turn, again,   \* each session's turn, and whether it was held already
  stopping,      \* sessions whose host waits for its Stop hooks
  copies,        \* the registrations there are, one or more
  guards,        \* the evaluations that were started
  holds,         \* hold files
  observations,  \* observation files
  now, misses

facts  == <<declared, bound, conflicts, claims, registered, dispositions>>
relay  == <<opened, head, intact>>
host   == <<turn, again, stopping, copies>>
clocks == <<now, misses>>
guardVars == <<facts, relay, host, guards, holds, observations, clocks>>

MaxHoldsPerTurn       == 1
MaxHoldsPerGeneration == 2
MaxHoldsPerWindow     == 3

Omissions == {"managed_unregistered", "receipt_missing", "undeclared_turn_end"}

Evaluations == [session : Sessions, turn : 1..Turns, again : BOOLEAN, copy : Copies]

\* alone is history: the session had claimed one assignment; and so is kept: a
\* hold file could not be removed.
Started(alone) == [phase |-> "asked", at |-> 0, dir |-> Nobody, state |-> "none",
                   answer |-> "none", alone |-> alone, kept |-> FALSE]

NoHead == [session |-> Nobody, turn |-> 0, stage |-> "none"]

Declared  == Range(declared)

Miss      == misses < Misses /\ misses' = misses + 1
NoMiss    == UNCHANGED misses
-----------------------------------------------------------------------------
(* The coordinator                                                         *)

Declare(a) ==
  /\ a \notin Declared
  /\ declared' = Append(declared, a)
  /\ UNCHANGED <<bound, conflicts, claims, registered, dispositions, relay, host, guards, holds,
                 observations, clocks>>

\* One publication wins; a later bind of another session is told of its
\* conflict, which is published beside the bind.
Bind(a, s) ==
  /\ \/ bound[a] = Nobody /\ bound' = [bound EXCEPT ![a] = s] /\ UNCHANGED conflicts
     \/ bound[a] \notin {Nobody, s} /\ conflicts' = conflicts \cup {<<a, s>>} /\ UNCHANGED bound
  /\ UNCHANGED <<declared, claims, registered, dispositions, relay, host, guards, holds,
                 observations, clocks>>

\* dispatch_generation_state: current, not stale and not absent.
OpenedNow(a) == opened # <<>> /\ Last(opened) = a

RegisterRelationship(a) ==
  /\ OpenedNow(a)
  /\ registered' = registered \cup {a}
  /\ UNCHANGED <<declared, bound, conflicts, claims, dispositions, relay, host, guards, holds,
                 observations, clocks>>

\* The relay moves the relationship to the generation of another dispatch.
OpenGeneration(a) ==
  /\ a \notin Range(opened)
  /\ opened' = Append(opened, a)
  /\ head' = NoHead
  /\ intact' = TRUE
  /\ UNCHANGED <<facts, host, guards, holds, observations, clocks>>
-----------------------------------------------------------------------------
(* A child, inside its turn                                                *)

Working(s) == s \notin stopping

PublishClaim(a, s) ==
  /\ Working(s)
  /\ claims' = claims \cup {<<a, s>>}
  /\ UNCHANGED <<declared, bound, conflicts, registered, dispositions, relay, host, guards, holds,
                 observations, clocks>>

Declaration(a, s, t) == {d \in dispositions : d.dir = a /\ d.session = s /\ d.turn = t}

PublishDisposition(a, s, outcome) ==
  /\ Working(s)
  /\ Declaration(a, s, turn[s]) = {}
  /\ dispositions' = dispositions
       \cup {[dir |-> a, session |-> s, turn |-> turn[s], outcome |-> outcome]}
  /\ UNCHANGED <<declared, bound, conflicts, claims, registered, relay, host, guards, holds,
                 observations, clocks>>

\* A receipt emitted inside the turn is staged until the turn is seen to end.
Emit(s) ==
  /\ Working(s) /\ opened # <<>>
  /\ head' = [session |-> s, turn |-> turn[s], stage |-> "staged"]
  /\ intact' = TRUE
  /\ UNCHANGED <<facts, opened, host, guards, holds, observations, clocks>>

Finalize ==
  /\ head.stage = "staged"
  /\ head' = [head EXCEPT !.stage = "final"]
  /\ UNCHANGED <<facts, opened, intact, host, guards, holds, observations, clocks>>

ArtifactsChange ==
  /\ head # NoHead /\ intact
  /\ intact' = FALSE
  /\ UNCHANGED <<facts, opened, head, host, guards, holds, observations, clocks>>
-----------------------------------------------------------------------------
(* The host and the adapter                                                *)

Evaluating(s) == [session : {s}, turn : {turn[s]}, again : {again[s]}, copy : copies]

ClaimsOnlyOne(s) == \E a \in Assignments : {c \in claims : c[2] = s} = {<<a, s>>}

\* The host ends the turn by running every copy that is registered.
Stop(s) ==
  /\ Working(s)
  /\ stopping' = stopping \cup {s}
  /\ guards' = [e \in DOMAIN guards \cup Evaluating(s) |->
                 IF e \in Evaluating(s) THEN Started(ClaimsOnlyOne(s)) ELSE guards[e]]
  /\ UNCHANGED <<facts, relay, turn, again, copies, holds, observations, clocks>>

Waits(e) == guards[e].answer = "none"

AnswerIs(e, answer) == guards' = [guards EXCEPT ![e].answer = answer]

\* outcome_of: a verdict that was printed by a run that ended well.
Delivered(e) == guards[e].phase = "printed"

\* verdict_complaints, hook_output: the decision and what is printed agree.
Holding(e) == Delivered(e) /\ guards[e].state \in Omissions

Answer(e) ==
  /\ Waits(e) /\ guards[e].phase \in {"printed", "ended"}
  /\ AnswerIs(e, IF Holding(e) THEN "block" ELSE "release")
  /\ UNCHANGED <<facts, relay, host, holds, observations, clocks>>

\* invoke_guard: the budget is over, the whole process group is ended.
TimesOut(e) ==
  /\ Waits(e) /\ guards[e].phase \notin {"printed", "ended"}
  /\ Miss
  /\ guards' = [guards EXCEPT ![e].phase = "ended", ![e].answer = "release"]
  /\ UNCHANGED <<facts, relay, host, holds, observations, now>>

\* The guard's process is killed, and the adapter reads how it ended.
GuardDies(e) ==
  /\ guards[e].phase \notin {"printed", "ended"}
  /\ Miss
  /\ guards' = [guards EXCEPT ![e].phase = "ended"]
  /\ UNCHANGED <<facts, relay, host, holds, observations, now>>

\* The host kills the adapter: nothing it prints counts, the guard goes on.
AdapterDies(e) ==
  /\ Waits(e)
  /\ Miss
  /\ AnswerIs(e, "killed")
  /\ UNCHANGED <<facts, relay, host, holds, observations, now>>

\* Every hook has ended: a block continues the turn, with stop_hook_active.
GoOn(s) ==
  /\ s \in stopping
  /\ \A e \in Evaluating(s) : ~Waits(e)
  /\ stopping' = stopping \ {s}
  /\ IF \E e \in Evaluating(s) : guards[e].answer = "block"
     THEN again' = [again EXCEPT ![s] = TRUE] /\ UNCHANGED turn
     ELSE /\ turn[s] < Turns
          /\ turn' = [turn EXCEPT ![s] = @ + 1]
          /\ again' = [again EXCEPT ![s] = FALSE]
  /\ UNCHANGED <<facts, relay, copies, guards, holds, observations, clocks>>

Tick == now < Ticks /\ now' = now + 1
        /\ UNCHANGED <<facts, relay, host, guards, holds, observations, misses>>
-----------------------------------------------------------------------------
(* One evaluation                                                          *)

At(e, phase) == guards[e].phase = phase

Becomes(e, g) == guards' = [guards EXCEPT ![e] = g]

Claimed(s) == {a \in Declared : <<a, s>> \in claims}

\* mutant
NewestOfAll(s) == IF Declared = {} THEN Nobody ELSE Last(declared)

\* select_assignment, _recency: the newest of those it claimed, or the newest.
Selected(s) ==
  LET pool == IF Claimed(s) # {} THEN Claimed(s) ELSE Declared
  IN  IF pool = {} THEN Nobody ELSE declared[Max({i \in DOMAIN declared : declared[i] \in pool})]

\* deliverable_state, of artifacts that can be read.
DeliverableCurrent == intact

\* mutant
OnlyFinal(s, t) ==
  head.session = s /\ head.turn = t /\ head.stage = "final" /\ DeliverableCurrent

\* lookup_receipt: staged or final.
AtHead(s, t) ==
  head.session = s /\ head.turn = t /\ head.stage \in {"staged", "final"} /\ DeliverableCurrent

\* A claim presents the request id itself: publish_claim takes no other.
Correlated(a, s) == <<a, s>> \in claims

Says(a, s, t, outcome) == \E d \in Declaration(a, s, t) : d.outcome = outcome

\* classify_declaration
Classified(a, s, t) ==
  IF Says(a, s, t, "waiting") THEN "declared_waiting"
  ELSE IF ~Says(a, s, t, "ready") THEN "undeclared_turn_end"
  ELSE IF a \in registered /\ AtHead(s, t) THEN "declared_ready_receipted"
  ELSE "receipt_missing"

\* observe_state, of a store that could be read.
StateObserved(a, s, t) ==
  LET declaration == Classified(a, s, t)
  IN  IF a = Nobody THEN "unmanaged"
      ELSE IF bound[a] = Nobody
           THEN IF Correlated(a, s) THEN "correlated_unbound" ELSE "dispatch_uncorrelated"
      ELSE IF bound[a] # s THEN "marker_claimed_by_other_session"
      ELSE IF declaration \in {"declared_waiting", "declared_ready_receipted"} THEN declaration
      ELSE IF <<a, s>> \notin claims THEN "marker_unclaimed"
      ELSE IF a \notin registered THEN "managed_unregistered"
      ELSE declaration

\* The assignment is selected and what it says is read; `now' was read before.
Judge(e) ==
  LET a == Selected(e.session)
  IN  /\ At(e, "asked")
      /\ \/ NoMiss /\ Becomes(e, [guards[e] EXCEPT !.phase = "judged", !.at = now, !.dir = a,
                                        !.state = StateObserved(a, e.session, e.turn)])
         \/ Miss /\ \E dir \in {a, Nobody} :
              Becomes(e, [guards[e] EXCEPT !.phase = "judged", !.at = now, !.dir = dir,
                                           !.state = "state_unreadable"])
      /\ UNCHANGED <<facts, relay, host, holds, observations, now>>

HoldsOf(a)         == {h \in holds : h.dir = a}
HoldsOfTurn(a, e)  == {h \in HoldsOf(a) : h.session = e.session /\ h.turn = e.turn}
\* mutant
HereInWindow(s, at) == {h \in HoldsOf(Selected(s)) : h.session = s /\ h.at + Window > at}

HoldsInWindow(s, at) == {h \in holds : h.session = s /\ h.at + Window > at}

\* decide: exhaustion before what is only busy.
Decided(e, spent) ==
  IF \/ Cardinality(HoldsOf(guards[e].dir)) >= MaxHoldsPerGeneration
     \/ Cardinality(HoldsInWindow(e.session, guards[e].at)) >= MaxHoldsPerWindow
  THEN "unresolved_handoff"
  ELSE IF spent >= MaxHoldsPerTurn \/ e.again THEN "hold_in_flight"
  ELSE guards[e].state

\* hold_counters: only an omission is weighed against the holds there are.
Weigh(e) ==
  /\ At(e, "judged")
  /\ \/ /\ NoMiss
        /\ Becomes(e, [guards[e] EXCEPT !.phase = "weighed",
             !.state = IF guards[e].state \in Omissions
                       THEN Decided(e, Cardinality(HoldsOfTurn(guards[e].dir, e)))
                       ELSE guards[e].state])
     \/ /\ guards[e].state \in Omissions
        /\ Miss
        /\ Becomes(e, [guards[e] EXCEPT !.phase = "weighed", !.state = "state_unreadable"])
  /\ UNCHANGED <<facts, relay, host, holds, observations, now>>

\* Nothing but a decision to hold needs the turn's hold file.
Proceed(e) ==
  /\ At(e, "weighed") /\ guards[e].state \notin Omissions
  /\ Becomes(e, [guards[e] EXCEPT !.phase = "recording"])
  /\ UNCHANGED <<facts, relay, host, holds, observations, clocks>>

\* reserve_hold: create-once, and the loser decides again, of a spent turn.
Reserve(e) ==
  /\ At(e, "weighed") /\ guards[e].state \in Omissions
  /\ IF HoldsOfTurn(guards[e].dir, e) = {}
     THEN /\ holds' = holds \cup {[dir |-> guards[e].dir, session |-> e.session, turn |-> e.turn,
                                   at |-> guards[e].at, by |-> e]}
          /\ Becomes(e, [guards[e] EXCEPT !.phase = "recording"])
     ELSE /\ Becomes(e, [guards[e] EXCEPT !.phase = "recording", !.state = "hold_in_flight"])
          /\ UNCHANGED holds
  /\ UNCHANGED <<facts, relay, host, observations, clocks>>

Observation(e) == [by |-> e, dir |-> guards[e].dir, state |-> guards[e].state,
                   held |-> guards[e].state \in Omissions]

\* record_observation: nothing is recorded where no assignment was selected.
Record(e) ==
  /\ At(e, "recording")
  /\ observations' = IF guards[e].dir = Nobody THEN observations
                     ELSE observations \cup {Observation(e)}
  /\ Becomes(e, [guards[e] EXCEPT !.phase = "printed"])
  /\ UNCHANGED <<facts, relay, host, holds, clocks>>

RecordFails(e) ==
  /\ At(e, "recording") /\ guards[e].dir # Nobody
  /\ Miss
  /\ Becomes(e, [guards[e] EXCEPT !.phase = IF guards[e].state \in Omissions
                                            THEN "giving" ELSE "faulted"])
  /\ UNCHANGED <<facts, relay, host, holds, observations, now>>

\* mutant
KeepsIt(e) == At(e, "giving") /\ NoMiss /\ Becomes(e, [guards[e] EXCEPT !.phase = "faulted"])
              /\ UNCHANGED <<facts, relay, host, holds, observations, now>>

\* release_hold, which says nothing when it fails too.
GiveBack(e) ==
  /\ At(e, "giving")
  /\ \/ /\ NoMiss
        /\ holds' = holds \ HoldsOfTurn(guards[e].dir, e)
        /\ Becomes(e, [guards[e] EXCEPT !.phase = "faulted"])
     \/ /\ Miss
        /\ UNCHANGED holds
        /\ Becomes(e, [guards[e] EXCEPT !.phase = "faulted", !.kept = TRUE])
  /\ UNCHANGED <<facts, relay, host, observations, now>>

\* evaluate: the fault is a release, and is recorded if that is possible.
Fault(e) ==
  /\ At(e, "faulted")
  /\ Becomes(e, [guards[e] EXCEPT !.phase = "printed", !.state = "guard_faulted"])
  /\ \/ NoMiss /\ observations' = observations \cup
          {[by |-> e, dir |-> guards[e].dir, state |-> "guard_faulted", held |-> FALSE]}
     \/ Miss /\ UNCHANGED observations
  /\ UNCHANGED <<facts, relay, host, holds, now>>
-----------------------------------------------------------------------------
GuardInit ==
  /\ declared = <<>>
  /\ bound = [a \in Assignments |-> Nobody]
  /\ conflicts = {} /\ claims = {} /\ registered = {} /\ dispositions = {}
  /\ opened = <<>> /\ head = NoHead /\ intact = TRUE
  /\ turn = [s \in Sessions |-> 1] /\ again = [s \in Sessions |-> FALSE] /\ stopping = {}
  /\ copies \in SUBSET Copies \ {{}}
  /\ guards = <<>>
  /\ holds = {} /\ observations = {}
  /\ now = 0 /\ misses = 0

Evaluate(e) ==
  \/ Judge(e) \/ Weigh(e) \/ Proceed(e) \/ Reserve(e)
  \/ Record(e) \/ RecordFails(e) \/ GiveBack(e) \/ Fault(e)
  \/ Answer(e) \/ TimesOut(e) \/ GuardDies(e) \/ AdapterDies(e)

Publish ==
  \/ \E a \in Assignments :
       \/ Declare(a) \/ RegisterRelationship(a) \/ OpenGeneration(a)
       \/ \E s \in Sessions : Bind(a, s)
  \/ \E a \in Declared, s \in Sessions :
       \/ PublishClaim(a, s)
       \/ \E outcome \in {"waiting", "ready"} : PublishDisposition(a, s, outcome)
  \/ \E s \in Sessions : Emit(s)
  \/ Finalize \/ ArtifactsChange

GuardNext ==
  \/ Publish
  \/ \E s \in Sessions : Stop(s) \/ GoOn(s)
  \/ \E e \in DOMAIN guards : Evaluate(e)
  \/ Tick

GuardSpec == GuardInit /\ [][GuardNext]_guardVars
-----------------------------------------------------------------------------
(* Properties                                                              *)

\* The receipt of this very turn is at the head, and its artifacts are there.
Stands(s, t) == head.session = s /\ head.turn = t /\ intact

Blocked == {e \in DOMAIN guards : guards[e].answer = "block"}

(* A child is not sent back for ever: however its evaluations, two copies   *)
(* of the hook and the turns of one assignment after another overlap, a    *)
(* turn is held once, an assignment twice, and a session three times in    *)
(* any hour (MAX_HOLDS_PER_TURN, _PER_GENERATION, _PER_SESSION_WINDOW).     *)
HoldsAreBounded ==
  /\ \A e, f \in Blocked : e.session = f.session /\ e.turn = f.turn => e = f
  /\ \A a \in Assignments :
       Cardinality({e \in Blocked : guards[e].dir = a}) <= MaxHoldsPerGeneration
  /\ \A e \in Blocked :
       Cardinality({f \in Blocked : /\ f.session = e.session
                                    /\ guards[f].at <= guards[e].at
                                    /\ guards[f].at + Window > guards[e].at}) <= MaxHoldsPerWindow

(* release_hold: a turn's only hold is not spent on nothing.  A hold file   *)
(* whose evaluation blocked nothing on record is that of an evaluation      *)
(* still under way or killed, or of a file that could not be removed; and   *)
(* whatever holds a turn is on record.                                      *)
HoldsAreAccountedFor ==
  /\ \A h \in holds :
       \/ \E o \in observations : o.by = h.by /\ o.held
       \/ guards[h.by].phase \in {"recording", "giving", "ended"}
       \/ guards[h.by].kept
  /\ \A e \in Blocked : \E o \in observations : o.by = e /\ o.held /\ o.dir = guards[e].dir

(* Nobody is held but the child an assignment was bound to and that claimed *)
(* it itself, and not when it declared that it waits; and it is not told of *)
(* a missing receipt while that very turn's stands, staged or final.  (Told *)
(* to register, it may be while the coordinator does: see the README.)      *)
OnlyOmissionsAreHeld ==
  [][\A e \in Blocked' \ Blocked :
       LET a == guards[e].dir
       IN  /\ bound[a] = e.session /\ <<a, e.session>> \in claims
           /\ ~Says(a, e.session, e.turn, "waiting")
           /\ guards[e].state = "receipt_missing" => ~Stands(e.session, e.turn)
    ]_guards

(* select_assignment: a later assignment of the workspace neither releases  *)
(* a child that is still at work nor answers for it.  A turn of a session   *)
(* that had claimed one assignment is on record there, unless its workspace *)
(* could not be read or the record failed.                                  *)
JudgedWhereItClaimed ==
  \A e \in DOMAIN guards :
    guards[e].phase = "printed" /\ guards[e].alone /\ guards[e].dir # Nobody =>
      /\ <<guards[e].dir, e.session>> \in claims
      /\ guards[e].state # "guard_faulted" => \E o \in observations : o.by = e
=============================================================================
