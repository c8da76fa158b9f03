----------------------------- MODULE MCRegistry -----------------------------
(***************************************************************************)
(* Model values of Registry, Tables and Identity for TLC, and the          *)
(* questions they are asked, one chosen initially: the registry, the pure  *)
(* decisions on receipts and lineages, and whose an assignment is.         *)
(*                                                                         *)
(*   tables:       one question of Tables, put once;                       *)
(*   identity:     two coordinators record, bind and adjudicate what two   *)
(*                 sessions claim of one assignment, with two tasks and    *)
(*                 two facts of each numbered kind;                        *)
(*   owners:       who owns the issue, over two children of one parent     *)
(*                 registered, replaced, paused and resumed at once;       *)
(*   generations:  what one relationship goes through, over two requests,  *)
(*                 two turns and three generations.                        *)
(***************************************************************************)
EXTENDS Registry, Identity

CONSTANTS p1, p2, c1, c2, x, y, q1, q2, t1, t2, v1, v2, v3, v4, k1, k2, Questions

OneParent   == {p1}
TwoParents  == {p1, p2}
TwoChildren == {c1, c2}
OneCaller   == {x}
TwoCallers  == {x, y}
OneRequest  == {q1}
TwoRequests == {q1, q2}
OneTurn     == {t1}
TwoTurns    == {t1, t2}

TwoTasks    == {k1, k2}

AllQuestions  == {"tables", "identity", "owners", "generations"}
OwnersAlone   == {"owners"}

VARIABLES question, asked, receipt, graph

Decisions == INSTANCE Tables

tableVars == <<asked, receipt, graph>>

Asked ==
  IF question = "owners"
  THEN /\ \A r \in Rels : generation[r] <= 1 /\ requestOf[r][1] # q2 /\ anchor[r][1] # t2
       /\ \A c \in Callers : caller[c].call \notin {"open", "bind"}
  ELSE /\ \A r \in Rels : Child(r) # c1 => status[r] = "absent"
       /\ \A c \in Callers : caller[c].call # "none" => Child(caller[c].rel) = c1
       /\ changes <= 2

\* Of tasks and sessions that could change places, one is tried; the clock and the registration,
\* which no command reads, move while none runs.
AskedOfIdentity ==
  /\ bound \in {Unbound, [task |-> k1, session |-> c1]}
  /\ \A c \in Callers :
       LET f == command[c].fact IN
       CASE command[c].kind = "conflicts" -> <<f.task, f.session>> = <<k2, c1>>
         [] command[c].kind = "resolutions" -> f.task = k1
         [] command[c].kind = "attempts" -> <<f.outcome, f.task>> \in
              {<<"accepted", k1>>, <<"accepted", k2>>, <<"unknown", k1>>}
         [] OTHER -> TRUE
  /\ Cardinality(DOMAIN files) <= 4
  /\ registered => bound # Unbound
  /\ late => bound = Unbound
  /\ late \/ registered => \A c \in Callers : command[c].phase = "idle"

MCInit == Init /\ Decisions!Init /\ IdentityInit /\ question \in Questions
MCNext ==
  /\ UNCHANGED question
  /\ \/ question = "tables" /\ Decisions!Next /\ UNCHANGED <<vars, identityVars>>
     \/ /\ question = "identity" /\ IdentityNext /\ AskedOfIdentity'
        /\ UNCHANGED <<vars, tableVars>>
     \/ /\ question \in {"owners", "generations"} /\ Next /\ Asked'
        /\ UNCHANGED <<tableVars, identityVars>>
MCSpec == MCInit /\ [][MCNext]_<<vars, tableVars, identityVars, question>>

\* The property of Tables, by a name a configuration can give.
DecisionsAgree == Decisions!DecisionsAgree
=============================================================================
