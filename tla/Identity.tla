------------------------------ MODULE Identity ------------------------------
(***************************************************************************)
(* Who an assignment's child is, from create-once files of one directory.  *)
(* Coordinator processes record what creating the task returned, bind one  *)
(* identity, and adjudicate what competes with it; sessions claim.  Facts  *)
(* of a kind are numbered by a listing that is stale the moment another    *)
(* process publishes, and a coordinator decides over facts it listed a     *)
(* while ago.  Whatever is on record, the state is derived anew.           *)
(***************************************************************************)
EXTENDS Naturals, FiniteSets

CONSTANTS
  Tasks, Sessions, Nobody,
  Coordinators,  \* processes, one command at a time each
  MaxFacts       \* model bound on the facts of one numbered kind

VARIABLES
  files,       \* what is published: a partial function from fact ids
  bound,       \* the published bind, or Unbound
  registered,  \* the relationship is published
  late,        \* the binding window since declaredAt has passed
  command,     \* what each coordinator is doing
  told,        \* history: facts whose publication was answered
  reviewed     \* history: facts listed by whoever decided for an identity

identityVars == <<files, bound, registered, late, command, told, reviewed>>

Pairs   == [task : Tasks, session : Sessions]
Unbound == [task |-> Nobody, session |-> Nobody]

Outcomes == {"accepted", "unknown", "failed"}

\* One shape for every record; adjudicated is the facts a resolution names, each by its id and
\* the digest of its content.
Fact(outcome, pair, adjudicated) ==
  [outcome |-> outcome, task |-> pair.task, session |-> pair.session, adjudicated |-> adjudicated]

Idle == [phase |-> "idle", kind |-> "none", slot |-> 0, fact |-> Fact("none", Unbound, {})]

IdentityInit ==
  /\ files = << >>
  /\ bound = Unbound
  /\ registered = FALSE
  /\ late = FALSE
  /\ command = [c \in Coordinators |-> Idle]
  /\ told = {}
  /\ reviewed = {}
-----------------------------------------------------------------------------
(* Reading: ids and contents                                               *)

Ids(kind)   == {i \in DOMAIN files : i[1] = kind}
Listed(ids) == {<<i, files[i]>> : i \in ids}

Accepted      == {i \in Ids("attempts") : files[i].outcome = "accepted" /\ files[i].task # Nobody}
AcceptedTasks == {files[i].task : i \in Accepted}
Claimants     == {files[i].session : i \in Ids("claims")}
Resolutions   == {files[i] : i \in Ids("resolutions")}

\* mutant: whatever was on record before some resolution is adjudicated by it
CoveredByAny(id, resolutions) == resolutions # {}

Covered(id, resolutions) == \E r \in resolutions : <<id, files[id]>> \in r.adjudicated

\* After a bind: what does not verifiably belong to the bound identity.
CompetingFacts ==
  {i \in Accepted : files[i].task # bound.task}
    \cup {i \in Ids("claims") : files[i].session # bound.session}
    \cup Ids("conflicts")

Choosing(pair) == {r \in Resolutions : r.task = pair.task /\ r.session = pair.session}

IdentityContested ==
  /\ bound # Unbound
  /\ \E i \in CompetingFacts : ~Covered(i, Choosing(bound))

\* Before a bind: one pair, which an acceptance and a claim name, and every fact covered.
AmbiguityResolved ==
  /\ Resolutions # {}
  /\ \A r, s \in Resolutions : r.task = s.task /\ r.session = s.session
  /\ \A r \in Resolutions : r.task \in AcceptedTasks /\ r.session \in Claimants
  /\ \A i \in Accepted \cup Ids("claims") : Covered(i, Resolutions)

Several == Cardinality(AcceptedTasks) > 1 \/ Cardinality(Ids("claims")) > 1

\* The contract's precedence: an unresolved identity needs a decision whether or not the window has
\* closed, and an acceptance that names no task is an acceptance all the same.
AssignmentState ==
  LET outcomes == {files[i].outcome : i \in Ids("attempts")} IN
  IF bound # Unbound THEN IF registered THEN "relationship_registered" ELSE "identity_bound"
  ELSE IF Several /\ ~AmbiguityResolved THEN "ambiguous_identity"
  ELSE IF late THEN "intent_expired"
  ELSE IF "accepted" \in outcomes THEN "creation_accepted"
  ELSE IF "unknown" \in outcomes THEN "creation_unknown"
  ELSE "intent_declared"
-----------------------------------------------------------------------------
(* A coordinator's commands: each publishes one numbered fact              *)

Numbering(kind, fact) == [phase |-> "numbering", kind |-> kind, slot |-> 0, fact |-> fact]

RecordAttempt(c, outcome, t) ==
  /\ command[c] = Idle
  /\ command' = [command EXCEPT ![c] = Numbering("attempts",
       Fact(outcome, [task |-> t, session |-> Nobody], {}))]
  /\ UNCHANGED <<files, bound, registered, late, told, reviewed>>

\* The winner is the bind; a loser that meant another identity goes on to record the conflict.
BindIdentity(c, pair) ==
  /\ command[c] = Idle
  /\ IF bound = Unbound THEN bound' = pair /\ UNCHANGED command
     ELSE /\ bound # pair
          /\ command' = [command EXCEPT ![c] = Numbering("conflicts", Fact("none", pair, {}))]
          /\ UNCHANGED bound
  /\ UNCHANGED <<files, registered, late, told, reviewed>>

\* Someone lists what there is and decides for an identity; the resolution is published later.
Review(c, pair) ==
  /\ command[c] = Idle
  /\ LET seen == Listed(Accepted \cup Ids("claims") \cup Ids("conflicts")) IN
     command' = [command EXCEPT ![c] = Numbering("resolutions", Fact("none", pair, seen))]
  /\ UNCHANGED <<files, bound, registered, late, told, reviewed>>

NextIndex(kind) ==
  IF Ids(kind) = {} THEN 0
  ELSE 1 + CHOOSE n \in {i[2] : i \in Ids(kind)} : \A i \in Ids(kind) : i[2] <= n

List(c) ==
  /\ command[c].phase = "numbering"
  /\ NextIndex(command[c].kind) < MaxFacts
  /\ command' = [command EXCEPT ![c].phase = "linking", ![c].slot = NextIndex(command[c].kind)]
  /\ UNCHANGED <<files, bound, registered, late, told, reviewed>>

Publish(id, fact) == [i \in DOMAIN files \cup {id} |-> IF i = id THEN fact ELSE files[i]]

\* link() refuses a name that exists, and the loser lists again.
Link(c) ==
  LET id   == <<command[c].kind, command[c].slot>>
      fact == command[c].fact
  IN
  /\ command[c].phase = "linking"
  /\ IF id \in DOMAIN files
     THEN /\ command' = [command EXCEPT ![c] = Numbering(id[1], fact)]
          /\ UNCHANGED <<files, told, reviewed>>
     ELSE /\ files' = Publish(id, fact)
          /\ told' = told \cup {<<id, fact>>}
          /\ reviewed' = reviewed \cup
               {<<f, [task |-> fact.task, session |-> fact.session]>> : f \in fact.adjudicated}
          /\ command' = [command EXCEPT ![c] = Idle]
  /\ UNCHANGED <<bound, registered, late>>

Dies(c) ==
  /\ command[c] # Idle
  /\ command' = [command EXCEPT ![c] = Idle]
  /\ UNCHANGED <<files, bound, registered, late, told, reviewed>>
-----------------------------------------------------------------------------
(* Publications that carry no number                                       *)

Claim(s) ==
  /\ <<"claims", s>> \notin DOMAIN files
  /\ files' = Publish(<<"claims", s>>, Fact("none", [task |-> Nobody, session |-> s], {}))
  /\ UNCHANGED <<bound, registered, late, command, told, reviewed>>

RegisterRelationship ==
  /\ registered' = TRUE
  /\ UNCHANGED <<files, bound, late, command, told, reviewed>>

WindowCloses ==
  /\ late' = TRUE
  /\ UNCHANGED <<files, bound, registered, command, told, reviewed>>

IdentityNext ==
  \/ \E c \in Coordinators :
       \/ \E o \in Outcomes, t \in Tasks \cup {Nobody} : RecordAttempt(c, o, t)
       \/ \E p \in Pairs : BindIdentity(c, p) \/ Review(c, p)
       \/ List(c) \/ Link(c) \/ Dies(c)
  \/ \E s \in Sessions : Claim(s)
  \/ RegisterRelationship \/ WindowCloses

IdentitySpec == IdentityInit /\ [][IdentityNext]_identityVars

-----------------------------------------------------------------------------
(***************************************************************************)
(* What competes for an assignment's identity stays on record, and stops   *)
(* counting only when someone has looked at it: a publication a            *)
(* coordinator was told of is never replaced; once a bind stands, nothing  *)
(* competing is silent unless it was listed by whoever decided for the     *)
(* bound identity; and before a bind, several acceptances or claims stop   *)
(* being ambiguous only when every one of them was listed by someone who   *)
(* decided for one and the same identity (intent.py, covered,              *)
(* identity_contested and _ambiguity_resolved).                            *)
(***************************************************************************)
SeenFor(ids, pair) == \A f \in Listed(ids) : <<f, pair>> \in reviewed

NoContestIsLost ==
  /\ \A f \in told : f[1] \in DOMAIN files /\ files[f[1]] = f[2]
  /\ bound # Unbound /\ ~IdentityContested => SeenFor(CompetingFacts, bound)
  /\ bound = Unbound /\ Several /\ AssignmentState # "ambiguous_identity"
       => \E p \in Pairs : /\ SeenFor(Accepted \cup Ids("claims"), p)
                           /\ \A r \in Resolutions : r.task = p.task /\ r.session = p.session
=============================================================================
