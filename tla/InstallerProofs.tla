-------------------------- MODULE InstallerProofs --------------------------
(***************************************************************************)
(* What Installer promises, for any runs, environments and destinations,   *)
(* and however often runs are killed, steps fail and links are moved.      *)
(***************************************************************************)
EXTENDS Installer, TLAPS

Built  == {"none", "part", "whole"}
Claims == {"none", "STAGING", "COMPLETE"}

Dirs == [there : BOOLEAN, by : Runs \cup {None}, built : Built, claim : Claims,
         lockfile : BOOLEAN, held : Runs \cup {None}, torn : BOOLEAN, litter : BOOLEAN]

LinksAt == [to : Environments \cup {Elsewhere, None}, by : {"run", "hand", None}]

Entries == [path : Destinations \cup {None}, placed : BOOLEAN]

Records == [selected : Environments \cup {None}, pointer : Entries,
            installs : SUBSET Environments]

Phases == {"idle", "loaded", "old", "found", "probed", "read", "adopt", "reclaim", "make", "hold",
           "claim", "stage", "build", "ready", "commit", "place", "placed", "settle", "finish",
           "note", "undo link", "undo entry", "undo selection", "failing", "remove", "over", "dead"}

RunStates == [phase : Phases, job : {"install", "finish"}, env : Environments \cup {None},
              path : Destinations \cup {None}, saw : Environments \cup {None}, near : BOOLEAN,
              claim : Claims, prev : Environments \cup {None}, found : Entries,
              before : LinksAt, settled : BOOLEAN, known : BOOLEAN, victim : Runs \cup {None}]

RunsOK ==
  /\ run \in [Runs -> RunStates]
  /\ \A r \in Runs : run[r].phase # "idle" =>
       run[r].env \in Environments /\ run[r].path \in Destinations

Types ==
  /\ dirs \in [Environments -> Dirs] /\ links \in [Destinations -> LinksAt] /\ record \in Records
  /\ promoter \in Runs \cup {None} /\ locks \in [Environments -> LockStates(Runs)]
  /\ RunsOK
  /\ faults \in Nat /\ hands \in Nat /\ kills \in Nat
-----------------------------------------------------------------------------
(***************************************************************************)
(* What a step of a run does to the runs: it is at another phase, knows    *)
(* what it read, and the others stay.                                      *)
(***************************************************************************)
Moves(r, phase) ==
  /\ run' \in [Runs -> RunStates]
  /\ \A q \in Runs : q # r => run'[q] = run[q]
  /\ run'[r].phase = phase /\ run'[r].env \in Environments /\ run'[r].path \in Destinations

SameJob(r) == run'[r].job = run[r].job /\ run'[r].env = run[r].env

LEMMA FieldsOfRun ==
  ASSUME RunsOK, NEW r \in Runs
  PROVE  /\ run[r] \in RunStates
         /\ run[r].phase # "idle" => Env(r) \in Environments /\ run[r].path \in Destinations
BY DEF RunsOK, Env

LEMMA ToIs ==
  ASSUME RunsOK, NEW r \in Runs, NEW phase \in Phases, run[r].phase # "idle", To(r, phase)
  PROVE  /\ Moves(r, phase) /\ SameJob(r)
         /\ run'[r] = [run[r] EXCEPT !.phase = phase]
<1>1. run'[r] = [run[r] EXCEPT !.phase = phase] /\ \A q \in Runs : q # r => run'[q] = run[q]
  BY DEF RunsOK, To
<1>2. run'[r] \in RunStates /\ run' = [run EXCEPT ![r] = [run[r] EXCEPT !.phase = phase]]
  BY <1>1 DEF RunsOK, RunStates, To
<1>3. run' \in [Runs -> RunStates]
  BY <1>1, <1>2 DEF RunsOK
<1> QED
  BY <1>1, <1>3 DEF RunsOK, Moves, SameJob, RunStates

LEMMA BecomesIs ==
  ASSUME RunsOK, NEW r \in Runs, NEW s \in RunStates, s.phase # "idle", s.env \in Environments,
         s.path \in Destinations, run' = [run EXCEPT ![r] = s]
  PROVE  Moves(r, s.phase) /\ run'[r] = s
BY DEF RunsOK, Moves

LEMMA PathIsDestination ==
  ASSUME Types, NEW e \in Environments
  PROVE  PathFor(e) \in Destinations
BY InstallerAssumption DEF Types, Records, Entries, PathFor

\* Where a run that keeps its job goes on to without a word to the directory or its name's lock.
Plain(r, from, phase) ==
  /\ run[r].phase \in from /\ Moves(r, phase) /\ SameJob(r)
  /\ run'[r].victim = run[r].victim
  /\ UNCHANGED <<dirs, locks>>

LEMMA LoadIs ==
  ASSUME Types, NEW r \in Runs, NEW e \in Environments, Load(r, e)
  PROVE  /\ run[r].phase = "idle" /\ Moves(r, "loaded") /\ run'[r].job = run[r].job
         /\ run'[r].victim = run[r].victim
         /\ UNCHANGED <<dirs, locks, links, record, promoter, promoted, reclaimed, kills, faults,
                        hands>>
<1> DEFINE s == [run[r] EXCEPT !.phase = "loaded", !.env = e, !.saw = record.selected,
                               !.path = PathFor(e)]
<1>0. PathFor(e) \in Destinations /\ run[r] \in RunStates
  BY PathIsDestination, FieldsOfRun DEF Types
<1>1. /\ run' = [run EXCEPT ![r] = s] /\ s.job = run[r].job /\ s.victim = run[r].victim
      /\ s \in RunStates /\ s.phase = "loaded" /\ s.env = e /\ s.path \in Destinations
  BY <1>0 DEF Types, RunStates, Phases, Records, Load
<1> HIDE DEF s
<1>2. Moves(r, "loaded") /\ run'[r].job = run[r].job /\ run'[r].victim = run[r].victim
  BY <1>1, BecomesIs DEF Types
<1> QED
  BY <1>2 DEF Load, At, KeepDirs, KeepLinks, KeepRecord, KeepLocks, KeepPast, KeepBounds

LEMMA JudgeIs ==
  ASSUME Types, NEW r \in Runs, Judge(r)
  PROVE  /\ Plain(r, {"ready"}, "commit") /\ promoter = None /\ promoter' = r
         /\ run'[r].prev = record.selected /\ run'[r].found = record.pointer
         /\ run'[r].before = links[run'[r].path] /\ run'[r].path = PathFor(Env(r))
         /\ UNCHANGED <<links, record, promoted, reclaimed, kills, faults, hands>>
<1> DEFINE path == PathFor(Env(r))
           s == [run[r] EXCEPT !.phase = "commit", !.path = path, !.prev = record.selected,
                               !.found = record.pointer, !.before = links[path]]
<1>0. Env(r) \in Environments /\ path \in Destinations /\ run[r] \in RunStates
  BY PathIsDestination, FieldsOfRun DEF Types, Judge, At
<1>1. /\ run' = [run EXCEPT ![r] = s] /\ s.job = run[r].job /\ s.victim = run[r].victim
      /\ s \in RunStates /\ s.phase = "commit" /\ s.env = Env(r) /\ s.path = path
      /\ s.prev = record.selected /\ s.found = record.pointer /\ s.before = links[path]
  BY <1>0 DEF Types, RunStates, Phases, Records, Judge, Enter, Env
<1> HIDE DEF s
<1>2. Moves(r, "commit") /\ run'[r] = s
  BY <1>0, <1>1, BecomesIs DEF Types
<1> QED
  BY <1>1, <1>2 DEF Judge, At, Plain, SameJob, KeepDirs, KeepLinks, KeepRecord, KeepPast,
                    KeepBounds, Env

\* What it found when it entered the promotion lock, and where it places its link.
SameFinds(r) ==
  /\ run'[r].path = run[r].path /\ run'[r].prev = run[r].prev
  /\ run'[r].found = run[r].found /\ run'[r].before = run[r].before

LEMMA ToKeeps ==
  ASSUME RunsOK, NEW r \in Runs, NEW phase \in Phases, run[r].phase # "idle", To(r, phase)
  PROVE  /\ Moves(r, phase) /\ SameJob(r) /\ SameFinds(r) /\ run'[r].settled = run[r].settled
         /\ run'[r].victim = run[r].victim /\ run'[r].known = run[r].known
BY ToIs, FieldsOfRun DEF SameFinds, SameJob, RunStates

LEMMA FailingIs ==
  ASSUME RunsOK, NEW r \in Runs, NEW known \in BOOLEAN, run[r].phase # "idle", Failing(r, known)
  PROVE  /\ Moves(r, "failing") /\ SameJob(r) /\ SameFinds(r) /\ run'[r].known = known
         /\ run'[r].victim = run[r].victim
<1> DEFINE s == [run[r] EXCEPT !.phase = "failing", !.known = known]
<1>0. run[r] \in RunStates
  BY FieldsOfRun
<1>1. /\ run' = [run EXCEPT ![r] = s] /\ s.job = run[r].job /\ s.known = known
      /\ s \in RunStates /\ s.phase = "failing" /\ s.env = Env(r) /\ s.path = run[r].path
      /\ s.prev = run[r].prev /\ s.found = run[r].found /\ s.before = run[r].before
      /\ s.victim = run[r].victim
  BY <1>0 DEF RunsOK, RunStates, Phases, Failing, Env
<1> HIDE DEF s
<1>2. Moves(r, "failing") /\ run'[r] = s
  BY <1>1, BecomesIs, FieldsOfRun
<1> QED
  BY <1>1, <1>2 DEF SameJob, SameFinds, Env

\* The reads of whoever holds the lock of a directory's name.
LEMMA ReadsAre ==
  ASSUME Types, NEW r \in Runs, Probe(r) \/ ReadClaim(r)
  PROVE  /\ Plain(r, {"found"}, "probed") \/ Plain(r, {"probed"}, "read")
         /\ UNCHANGED <<links, record, promoter, promoted, reclaimed, kills, faults, hands>>
<1>0. /\ RunsOK /\ run[r] \in RunStates /\ run[r].phase # "idle" /\ Env(r) \in Environments
      /\ run[r].path \in Destinations
  BY FieldsOfRun DEF Types, Probe, ReadClaim, At
<1>1. CASE Probe(r)
  <2> DEFINE s == [run[r] EXCEPT !.phase = "probed", !.near = Names(DestOf[Env(r)], Env(r))]
  <2>1. /\ run' = [run EXCEPT ![r] = s] /\ s \in RunStates /\ s.phase = "probed"
        /\ s.env = Env(r) /\ s.path = run[r].path /\ s.job = run[r].job
        /\ s.victim = run[r].victim
    BY <1>0, <1>1 DEF RunsOK, RunStates, Phases, Probe, Names, Env
  <2> HIDE DEF s
  <2>2. Moves(r, "probed") /\ run'[r] = s
    BY <1>0, <2>1, BecomesIs
  <2> QED
    BY <1>1, <2>1, <2>2
       DEF Probe, ReadClaim, At, Plain, SameJob, Env, KeepDirs, KeepLinks, KeepRecord, KeepLocks,
           KeepPast, KeepBounds
<1>2. CASE ReadClaim(r)
  <2> DEFINE s == [run[r] EXCEPT !.phase = "read", !.claim = dirs[Env(r)].claim]
  <2>1. /\ run' = [run EXCEPT ![r] = s] /\ s \in RunStates /\ s.phase = "read"
        /\ s.env = Env(r) /\ s.path = run[r].path /\ s.job = run[r].job
        /\ s.victim = run[r].victim
    BY <1>0, <1>2 DEF Types, RunsOK, RunStates, Phases, Dirs, ReadClaim, Env
  <2> HIDE DEF s
  <2>2. Moves(r, "read") /\ run'[r] = s
    BY <1>0, <2>1, BecomesIs
  <2> QED
    BY <1>2, <2>1, <2>2
       DEF Probe, ReadClaim, At, Plain, SameJob, Env, KeepDirs, KeepLinks, KeepRecord, KeepLocks,
           KeepPast, KeepBounds
<1> QED
  BY <1>1, <1>2

LEMMA ResumeIs ==
  ASSUME Types, NEW r \in Runs, Resume(r)
  PROVE  /\ run[r].phase = "read" /\ Moves(r, "finish") /\ run'[r].job = "finish"
         /\ run'[r].env = run[r].env /\ SameFinds(r) /\ run'[r].victim = run[r].victim
         /\ UNCHANGED <<dirs, locks, links, record, promoter, promoted, reclaimed, kills, faults,
                        hands>>
<1> DEFINE s == [run[r] EXCEPT !.phase = "finish", !.job = "finish"]
<1>0. run[r] \in RunStates /\ Env(r) \in Environments /\ run[r].path \in Destinations
  BY FieldsOfRun DEF Types, Resume, At
<1>1. /\ run' = [run EXCEPT ![r] = s] /\ s \in RunStates /\ s.phase = "finish"
      /\ s.env = Env(r) /\ s.path = run[r].path /\ s.job = "finish" /\ s.victim = run[r].victim
      /\ s.prev = run[r].prev /\ s.found = run[r].found /\ s.before = run[r].before
  BY <1>0 DEF Types, RunsOK, RunStates, Phases, Resume, Env
<1> HIDE DEF s
<1>2. Moves(r, "finish") /\ run'[r] = s
  BY <1>0, <1>1, BecomesIs DEF Types
<1> QED
  BY <1>1, <1>2 DEF Resume, At, Env, SameFinds, KeepDirs, KeepLinks, KeepRecord, KeepLocks,
                    KeepPast, KeepBounds

LEMMA TakingAwayIs ==
  ASSUME Types, NEW r \in Runs, Reclaim(r) \/ Release(r)
  PROVE  /\ Reclaim(r) => Plain(r, {"read"}, "reclaim") /\ UNCHANGED record
         /\ Release(r) => Plain(r, {"failing"}, "remove")
                          /\ record' = [record EXCEPT !.installs = @ \ {Env(r)}]
         /\ SameFinds(r) /\ run'[r].known = run[r].known
         /\ UNCHANGED <<links, promoter, promoted, kills, faults, hands>>
<1>1. RunsOK /\ run[r].phase # "idle" /\ {"reclaim", "remove"} \subseteq Phases
  BY DEF Types, Reclaim, Release, At, Phases
<1> QED
  BY <1>1, ToKeeps
     DEF Reclaim, Release, At, Plain, SameJob, SameFinds, Env, KeepDirs, KeepLinks, KeepRecord,
         KeepLocks, KeepBounds

\* The run ends: it is over, what it held is given back, the rest stays.
Ends(r) ==
  /\ Moves(r, "over") /\ SameJob(r)
  /\ dirs' = Unheld(r) /\ promoter' = Without(promoter, r)
  /\ locks' = AllLeft(r)

LEMMA EndIs ==
  ASSUME RunsOK, NEW r \in Runs, run[r].phase # "idle", End(r)
  PROVE  Ends(r)
BY ToIs DEF End, Ends, Phases

LEMMA RefusedIs ==
  ASSUME Types, NEW r \in Runs, Refused(r)
  PROVE  /\ Plain(r, {"ready"}, "failing")
         /\ UNCHANGED <<links, record, promoter, promoted, reclaimed, kills, faults, hands>>
<1>0. /\ RunsOK /\ run[r] \in RunStates /\ run[r].phase = "ready" /\ Env(r) \in Environments
      /\ PathFor(Env(r)) \in Destinations /\ run[r].path \in Destinations
  BY FieldsOfRun, PathIsDestination DEF Types, Refused, At
<1>1. CASE Failing(r, TRUE)
  BY <1>0, <1>1, FailingIs
     DEF Refused, Plain, KeepDirs, KeepLinks, KeepRecord, KeepLocks, KeepPast, KeepBounds
<1>2. CASE run' = [run EXCEPT ![r].phase = "failing", ![r].known = TRUE,
                              ![r].path = PathFor(Env(r))]
  <2> DEFINE s == [run[r] EXCEPT !.phase = "failing", !.known = TRUE, !.path = PathFor(Env(r))]
  <2>1. /\ run' = [run EXCEPT ![r] = s] /\ s \in RunStates /\ s.phase = "failing"
        /\ s.env = Env(r) /\ s.path \in Destinations /\ s.job = run[r].job
        /\ s.victim = run[r].victim
    BY <1>0, <1>2 DEF RunsOK, RunStates, Phases, Env
  <2> HIDE DEF s
  <2>2. Moves(r, "failing") /\ run'[r] = s
    BY <1>0, <2>1, BecomesIs
  <2> QED
    BY <1>0, <2>1, <2>2
       DEF Refused, Plain, SameJob, Env, KeepDirs, KeepLinks, KeepRecord, KeepLocks, KeepPast,
           KeepBounds
<1> QED
  BY <1>1, <1>2 DEF Refused

LEMMA FinishIs ==
  ASSUME Types, NEW r \in Runs, Finish(r)
  PROVE  /\ Plain(r, {"finish"}, "note") /\ promoter = None /\ promoter' = r
         /\ run'[r].found = record.pointer /\ run'[r].before = links[run[r].path]
         /\ run'[r].path = run[r].path
         /\ UNCHANGED <<links, record, promoted, reclaimed, kills, faults, hands>>
<1> DEFINE s == [run[r] EXCEPT !.phase = "note", !.found = record.pointer,
                               !.before = links[run[r].path]]
<1>0. /\ RunsOK /\ run[r] \in RunStates /\ run[r].phase = "finish" /\ Env(r) \in Environments
      /\ run[r].path \in Destinations /\ record.pointer \in Entries
      /\ links[run[r].path] \in LinksAt
  BY FieldsOfRun DEF Types, Records, Finish, At
<1>1. /\ run' = [run EXCEPT ![r] = s] /\ s \in RunStates /\ s.phase = "note"
      /\ s.env = Env(r) /\ s.path = run[r].path /\ s.job = run[r].job
      /\ s.found = record.pointer /\ s.before = links[run[r].path] /\ s.victim = run[r].victim
  BY <1>0 DEF RunsOK, RunStates, Phases, Finish, Env
<1> HIDE DEF s
<1>2. Moves(r, "note") /\ run'[r] = s
  BY <1>0, <1>1, BecomesIs
<1> QED
  BY <1>0, <1>1, <1>2 DEF Finish, Plain, SameJob, Env, KeepDirs, KeepLinks, KeepRecord, KeepPast,
                         KeepBounds

LEMMA UndoLinkIs ==
  ASSUME Types, NEW r \in Runs, UndoLink(r) \/ UndoLinkFails(r)
  PROVE  /\ Plain(r, {"undo link"}, "undo entry") /\ SameFinds(r)
         /\ UndoLink(r) => run'[r].settled = (run[r].before.to # None \/ LinkBack(r).to = None)
         /\ UNCHANGED <<record, promoter, reclaimed, kills, hands>>
<1>0. /\ RunsOK /\ run[r] \in RunStates /\ run[r].phase = "undo link" /\ Env(r) \in Environments
      /\ run[r].path \in Destinations
  BY FieldsOfRun DEF Types, UndoLink, UndoLinkFails, At
<1>1. PICK b \in BOOLEAN :
        /\ run' = [run EXCEPT ![r].phase = "undo entry", ![r].settled = b]
        /\ UndoLink(r) => b = (run[r].before.to # None \/ LinkBack(r).to = None)
  BY DEF UndoLink, UndoLinkFails
<1> DEFINE s == [run[r] EXCEPT !.phase = "undo entry", !.settled = b]
<1>2. /\ run' = [run EXCEPT ![r] = s] /\ s \in RunStates /\ s.phase = "undo entry"
      /\ s.env = Env(r) /\ s.path = run[r].path /\ s.job = run[r].job /\ s.prev = run[r].prev
      /\ s.found = run[r].found /\ s.before = run[r].before /\ s.settled = b
      /\ s.victim = run[r].victim
  BY <1>0, <1>1 DEF RunsOK, RunStates, Phases, Env
<1> HIDE DEF s
<1>3. Moves(r, "undo entry") /\ run'[r] = s
  BY <1>0, <1>2, BecomesIs
<1> QED
  BY <1>0, <1>1, <1>2, <1>3
     DEF UndoLink, UndoLinkFails, Plain, SameJob, SameFinds, Env, KeepDirs, KeepLinks, KeepRecord,
         KeepLocks, KeepPast, KeepBounds, Fault
-----------------------------------------------------------------------------
(***************************************************************************)
(* Whose directory it is.                                                  *)
(***************************************************************************)
\* What a run holds the lock of a directory's name for: what to do with it is being decided.
Deciding == {"found", "probed", "read", "adopt", "reclaim", "make", "hold", "claim"}

Finishing == {"finish", "note", "place", "placed", "settle", "undo link", "undo entry", "over",
              "dead"}

Ended == {"over", "dead"}

\* What a run may be at by the job it does, and when it has begun a removal.
JobsAre ==
  \A r \in Runs :
    /\ run[r].job = "finish" => run[r].phase \in Finishing
    /\ run[r].phase \in {"finish", "note"} => run[r].job = "finish"
    /\ run[r].victim # None => run[r].phase \in {"reclaim", "remove"} \cup Ended

Finishes(r) == run[r].job = "finish" /\ run[r].phase \notin Ended

Holding(r) == run[r].phase \in Deciding \/ Finishes(r)

\* A run that decides, or finishes a promotion, is within the lock of the name, and no other lock.
LocksHeld == \A r \in Runs : Holding(r) => r \in locks[Env(r)].within

InsideIs(r, e) == e = Env(r) /\ (Holding(r) \/ run[r].phase \in {"failing", "remove"})

InsideOnly == \A e \in Environments : \A r \in Runs : r \in locks[e].within => InsideIs(r, e)

OneWithin ==
  \A e \in Environments : ~locks[e].met => \A p, q \in locks[e].within : p = q

\* Whether no two runs met at the name of its directory; what follows is about such names.
Apart(r) == ~locks[Env(r)].met

Inside(r) == r \in locks[Env(r)].within

Wholes == {"ready", "commit", "place", "placed", "settle", "undo link", "undo entry",
           "undo selection"}

\* From the claim to the end of the run, or to where it begins to remove what it built.
Building(r) ==
  /\ run[r].job = "install"
  /\ \/ run[r].phase \in {"claim", "stage", "build"} \cup Wholes
     \/ run[r].phase = "failing" /\ ~Inside(r)
     \/ run[r].phase = "remove" /\ run[r].victim = None /\ ~Inside(r)

Own(r) ==
  LET d == dirs[Env(r)] IN
  /\ d.there /\ d.by = r /\ d.held = r /\ d.lockfile /\ ~d.torn
  /\ d.claim = IF run[r].phase = "claim" THEN "none" ELSE "STAGING"
  /\ run[r].phase \in {"claim", "stage"} => d.built = "none"
  /\ run[r].phase = "build" => d.built = "part"
  /\ run[r].phase \in Wholes => d.built = "whole"

OwnDirs == \A r \in Runs : Building(r) /\ Apart(r) => Own(r)

\* Its directory is made, or a step after that has failed, and it is not out of the lock.
Starts(r) ==
  \/ run[r].phase = "hold"
  \/ run[r].phase = "failing" /\ Inside(r)
  \/ run[r].phase = "remove" /\ run[r].victim = None /\ Inside(r)

Begins(r) ==
  LET d == dirs[Env(r)] IN
  d.built = "none" /\ d.claim = "none" /\ ~d.torn /\ (d.there => d.by = r)

NewDirs == \A r \in Runs : Starts(r) /\ Apart(r) => Begins(r)

OwnVictims == \A r \in Runs : run[r].phase = "remove" /\ Apart(r) => run[r].victim \in {None, r}

\* At a step that would take the directory away, make it again or settle it.
Threatens(r) == run[r].phase \in {"adopt", "reclaim", "make"} \/ Starts(r) \/ Finishes(r)

Alone ==
  \A r, q \in Runs :
    Building(r) /\ Apart(r) /\ q # r /\ Env(q) = Env(r) => ~Threatens(q)

BuildInv ==
  /\ Types /\ JobsAre /\ LocksHeld /\ InsideOnly /\ OneWithin
  /\ OwnDirs /\ NewDirs /\ OwnVictims /\ Alone

\* What a step of r does to the locks: who else is within stays, and it is one where it was one.
Aside(r) ==
  /\ \A e \in Environments : \A q \in Runs :
       q # r => (q \in locks'[e].within <=> q \in locks[e].within)
  /\ \A e \in Environments : locks[e].met => locks'[e].met
  /\ OneWithin'

Outside(r) == \A e \in Environments : r \notin locks'[e].within

LEMMA LocksStay ==
  ASSUME OneWithin, NEW r \in Runs, locks' = locks
  PROVE  Aside(r)
BY DEF Aside, OneWithin

LEMMA LocksLeft ==
  ASSUME Types, OneWithin, NEW r \in Runs,
         locks' = AllLeft(r) \/ locks' = [e \in Environments |-> Abandoned(locks[e], r)]
  PROVE  Aside(r) /\ Outside(r)
<1>1. ASSUME NEW e \in Environments
      PROVE  /\ locks'[e].within = locks[e].within \ {r} /\ locks'[e].met = locks[e].met
  BY DEF AllLeft, Left, Abandoned, Types, LockStates
<1> QED
  BY <1>1 DEF Aside, Outside, OneWithin

LEMMA LockLeft ==
  ASSUME Types, OneWithin, NEW r \in Runs, NEW e \in Environments,
         locks' = [locks EXCEPT ![e] = Left(@, r)]
  PROVE  /\ Aside(r) /\ r \notin locks'[e].within
         /\ \A x \in Environments : x # e => locks'[x] = locks[x]
<1>1. /\ locks'[e].within = locks[e].within \ {r} /\ locks'[e].met = locks[e].met
      /\ \A x \in Environments : x # e => locks'[x] = locks[x]
  BY DEF Left, Types, LockStates
<1>2. ASSUME NEW x \in Environments
      PROVE  locks'[x].within \in {locks[x].within, locks[x].within \ {r}}
             /\ locks'[x].met = locks[x].met
  BY <1>1
<1> QED
  BY <1>1, <1>2 DEF Aside, OneWithin

LEMMA LockCleared ==
  ASSUME Types, OneWithin, NEW r \in Runs, NEW e \in Environments,
         locks' = [locks EXCEPT ![e] = Cleared(@)]
  PROVE  Aside(r) /\ \A x \in Environments : locks'[x].within = locks[x].within
<1>1. ASSUME NEW x \in Environments
      PROVE  locks'[x].within = locks[x].within /\ locks'[x].met = locks[x].met
  BY DEF Cleared, Types, LockStates
<1> QED
  BY <1>1 DEF Aside, OneWithin

LEMMA LockEntered ==
  ASSUME Types, OneWithin, NEW r \in Runs, NEW e \in Environments,
         locks' = [locks EXCEPT ![e] = Entered(@, r)]
  PROVE  /\ Aside(r) /\ r \in locks'[e].within
         /\ \A x \in Environments : x # e => locks'[x] = locks[x]
<1>1. /\ locks'[e].within = locks[e].within \cup {r}
      /\ ~locks'[e].met => locks[e].within = {} /\ ~locks[e].met
      /\ locks[e].met => locks'[e].met
      /\ \A x \in Environments : x # e => locks'[x] = locks[x]
  BY DEF Entered, Types, LockStates
<1>2. OneWithin'
  BY <1>1 DEF OneWithin
<1> QED
  BY <1>1, <1>2 DEF Aside

\* A step of r that leaves to the others what is theirs, and has what it then needs.
Spares(r) ==
  /\ \A q \in Runs : q # r => run'[q] = run[q]
  /\ Aside(r)
  /\ Holding(r)' => Inside(r)'
  /\ \A e \in Environments : r \in locks'[e].within => InsideIs(r, e)'
  /\ \A q \in Runs : q # r /\ Building(q) /\ Apart(q)' => dirs'[Env(q)] = dirs[Env(q)]
  /\ \A q \in Runs : q # r /\ Starts(q) /\ Apart(q)' => Begins(q)'
  /\ Apart(r)' =>
       /\ Building(r)' => Own(r)' /\ \A q \in Runs : q # r /\ Env(q) = Env(r)' => ~Threatens(q)
       /\ Threatens(r)' => \A q \in Runs : q # r /\ Env(q) = Env(r)' => ~Building(q)
       /\ Starts(r)' => Begins(r)'
       /\ run'[r].phase = "remove" => run'[r].victim \in {None, r}
  /\ run'[r].job = "finish" => run'[r].phase \in Finishing
  /\ run'[r].phase \in {"finish", "note"} => run'[r].job = "finish"
  /\ run'[r].victim # None => run'[r].phase \in {"reclaim", "remove"} \cup Ended

\* A run at work has a directory of its own.
LEMMA Workplace ==
  ASSUME Types, JobsAre, NEW r \in Runs,
         Building(r) \/ Starts(r) \/ Threatens(r) \/ Holding(r) \/ run[r].phase = "remove"
  PROVE  Env(r) \in Environments /\ run[r].phase # "idle"
BY FieldsOfRun
   DEF Types, JobsAre, Finishing, Building, Starts, Threatens, Holding, Deciding, Finishes, Ended,
       Wholes

\* What a run is at is nothing that another's step changes.
LEMMA OthersStay ==
  ASSUME Types, JobsAre, NEW r \in Runs, Aside(r), NEW q \in Runs, q # r, run'[q] = run[q]
  PROVE  /\ Env(q)' = Env(q) /\ Holding(q)' = Holding(q)
         /\ Env(q) \in Environments => Inside(q)' = Inside(q) /\ (Apart(q)' => Apart(q))
         /\ Building(q)' = Building(q) /\ Starts(q)' = Starts(q) /\ Threatens(q)' = Threatens(q)
<1>1. Env(q)' = Env(q) /\ Holding(q)' = Holding(q) /\ Finishes(q)' = Finishes(q)
  BY DEF Env, Holding, Finishes
<1>2. Env(q) \in Environments => Inside(q)' = Inside(q) /\ (Apart(q)' => Apart(q))
  BY <1>1 DEF Aside, Inside, Apart
<1>3. run[q].phase \in {"failing", "remove"} => Env(q) \in Environments
  BY FieldsOfRun DEF Types
<1>4. Building(q)' = Building(q) /\ Starts(q)' = Starts(q)
  BY <1>2, <1>3 DEF Building, Starts
<1>5. Threatens(q)' = Threatens(q)
  BY <1>1, <1>4 DEF Threatens
<1> QED
  BY <1>1, <1>2, <1>4, <1>5

LEMMA SparesKeeps ==
  ASSUME BuildInv, NEW r \in Runs, Spares(r)
  PROVE  /\ JobsAre' /\ LocksHeld' /\ InsideOnly' /\ OneWithin'
         /\ OwnDirs' /\ NewDirs' /\ OwnVictims' /\ Alone'
<1>0. Types /\ JobsAre /\ Aside(r) /\ \A q \in Runs : q # r => run'[q] = run[q]
  BY DEF BuildInv, Spares
<1>1. JobsAre' /\ OneWithin'
  BY <1>0 DEF BuildInv, JobsAre, Spares, Aside
<1>2. LocksHeld'
  <2> SUFFICES ASSUME NEW q \in Runs, Holding(q)' PROVE Inside(q)'
    BY DEF LocksHeld, Inside
  <2>1. CASE q = r
    BY <2>1 DEF Spares
  <2>2. CASE q # r
    BY <1>0, <2>2, OthersStay, Workplace DEF BuildInv, LocksHeld, Inside
  <2> QED
    BY <2>1, <2>2
<1>3. InsideOnly'
  <2> SUFFICES ASSUME NEW e \in Environments, NEW q \in Runs, q \in locks'[e].within
               PROVE  InsideIs(q, e)'
    BY DEF InsideOnly
  <2>1. CASE q = r
    BY <2>1 DEF Spares
  <2>2. CASE q # r
    <3>1. InsideIs(q, e)
      BY <1>0, <2>2 DEF BuildInv, InsideOnly, Aside
    <3> QED
      BY <1>0, <2>2, <3>1, OthersStay DEF InsideIs
  <2> QED
    BY <2>1, <2>2
<1>4. OwnDirs'
  <2> SUFFICES ASSUME NEW q \in Runs, Building(q)', Apart(q)' PROVE Own(q)'
    BY DEF OwnDirs
  <2>1. CASE q = r
    BY <2>1 DEF Spares
  <2>2. CASE q # r
    <3>1. Building(q) /\ Apart(q) /\ Env(q)' = Env(q) /\ run'[q] = run[q]
      BY <1>0, <2>2, OthersStay, Workplace
    <3>2. Own(q) /\ dirs'[Env(q)] = dirs[Env(q)]
      BY <2>2, <3>1 DEF BuildInv, OwnDirs, Spares
    <3> QED
      BY <3>1, <3>2 DEF Own
  <2> QED
    BY <2>1, <2>2
<1>5. NewDirs'
  <2> SUFFICES ASSUME NEW q \in Runs, Starts(q)', Apart(q)' PROVE Begins(q)'
    BY DEF NewDirs
  <2>1. CASE q # r
    BY <1>0, <2>1, OthersStay DEF Spares
  <2> QED
    BY <2>1 DEF Spares
<1>6. OwnVictims'
  <2> SUFFICES ASSUME NEW q \in Runs, run'[q].phase = "remove", Apart(q)'
               PROVE  run'[q].victim \in {None, q}
    BY DEF OwnVictims
  <2>1. CASE q # r
    BY <1>0, <2>1, OthersStay, Workplace DEF BuildInv, OwnVictims
  <2> QED
    BY <2>1 DEF Spares
<1>7. Alone'
  <2> SUFFICES ASSUME NEW b \in Runs, NEW q \in Runs, Building(b)', Apart(b)', q # b,
                      Env(q)' = Env(b)'
               PROVE  ~Threatens(q)'
    BY DEF Alone
  <2>1. CASE b = r
    BY <1>0, <2>1, OthersStay DEF Spares
  <2>2. CASE b # r /\ q = r
    BY <1>0, <2>2, OthersStay DEF Spares, Apart
  <2>3. CASE b # r /\ q # r
    BY <1>0, <2>3, OthersStay, Workplace DEF BuildInv, Alone
  <2> QED
    BY <2>1, <2>2, <2>3
<1> QED
  BY <1>1, <1>2, <1>3, <1>4, <1>5, <1>6, <1>7

\* Where r builds, or is at a step that takes away, makes or settles, nobody else is at either.
LEMMA MineAlone ==
  ASSUME BuildInv, NEW r \in Runs, Apart(r), Env(r) \in Environments,
         Building(r) \/ Threatens(r) \/ (Inside(r) /\ ~Live(Env(r))),
         NEW q \in Runs, q # r, Env(q) = Env(r)
  PROVE  ~Building(q) /\ ~Starts(q) /\ ~Threatens(q)
<1>1. Apart(q)
  BY DEF Apart
<1>2. Building(r) => ~Threatens(q) /\ dirs[Env(r)].by = r
  BY DEF BuildInv, Alone, OwnDirs, Own
<1>3. Building(q) => /\ ~Threatens(r) /\ dirs[Env(r)].by = q /\ dirs[Env(r)].there
                     /\ dirs[Env(r)].lockfile /\ dirs[Env(r)].held = q
  BY <1>1 DEF BuildInv, Alone, OwnDirs, Own
<1>4. ~Building(q)
  BY <1>2, <1>3, InstallerAssumption DEF Live
<1>5. (Threatens(r) => Inside(r)) /\ (Threatens(q) => Inside(q))
  BY DEF Threatens, Starts, BuildInv, LocksHeld, Holding, Deciding, Inside
<1>6. Inside(q) => ~Inside(r)
  BY <1>1 DEF Inside, BuildInv, OneWithin, Apart
<1>7. ~Threatens(q)
  BY <1>2, <1>5, <1>6
<1> QED
  BY <1>4, <1>7 DEF Threatens

LEMMA UnheldIs ==
  ASSUME Types, NEW r \in Runs, NEW e \in Environments
  PROVE  /\ Unheld(r) \in [Environments -> Dirs]
         /\ dirs[e].held # r => Unheld(r)[e] = dirs[e]
         /\ Unheld(r)[e].by = dirs[e].by /\ Unheld(r)[e].claim = dirs[e].claim
         /\ Unheld(r)[e].built = dirs[e].built /\ Unheld(r)[e].torn = dirs[e].torn
         /\ Unheld(r)[e].there = dirs[e].there
<1>1. \A x \in Environments : dirs[x] \in Dirs
  BY DEF Types
<1>2. \A x \in Environments : [dirs[x] EXCEPT !.held = None] \in Dirs
  BY <1>1 DEF Dirs
<1> QED
  BY <1>1, <1>2 DEF Unheld, Dirs

\* What the others build in and begin with is theirs.
SparesOthers(r) ==
  /\ \A q \in Runs : q # r /\ Building(q) /\ Apart(q)' => dirs'[Env(q)] = dirs[Env(q)]
  /\ \A q \in Runs : q # r /\ Starts(q) /\ Apart(q)' => Begins(q)'

\* It is theirs as long as only r's directory is touched, and what only r holds.
LEMMA OthersKeep ==
  ASSUME BuildInv, NEW r \in Runs, NEW q \in Runs, q # r, Apart(q)
  PROVE  /\ Building(q) => /\ Unheld(r)[Env(q)] = dirs[Env(q)] /\ Live(Env(q))
                           /\ dirs[Env(q)].by = q /\ dirs[Env(q)].lockfile
         /\ Starts(q) => /\ Begins(q)
                         /\ Unheld(r)[Env(q)].built = "none" /\ Unheld(r)[Env(q)].claim = "none"
                         /\ ~Unheld(r)[Env(q)].torn
                         /\ Unheld(r)[Env(q)].there => Unheld(r)[Env(q)].by = q
<1>1. Building(q) => Own(q) /\ Env(q) \in Environments
  BY Workplace DEF BuildInv, OwnDirs
<1>2. Starts(q) => Begins(q) /\ Env(q) \in Environments
  BY Workplace DEF BuildInv, NewDirs
<1>3. q # None
  BY InstallerAssumption
<1> QED
  BY <1>1, <1>2, <1>3, UnheldIs DEF BuildInv, Own, Live, Begins

LEMMA OthersSpared ==
  ASSUME BuildInv, NEW r \in Runs, Aside(r), \A q \in Runs : q # r => run'[q] = run[q],
         NEW e \in Environments,
         \A x \in Environments : x # e => dirs'[x] \in {dirs[x], Unheld(r)[x]},
         \A q \in Runs : q # r /\ Env(q) = e /\ Apart(q) => ~Building(q) /\ ~Starts(q)
  PROVE  SparesOthers(r)
<1> SUFFICES ASSUME NEW q \in Runs, q # r, Building(q) \/ Starts(q), Apart(q)'
             PROVE  /\ Building(q) => dirs'[Env(q)] = dirs[Env(q)]
                    /\ Starts(q) => Begins(q)'
  BY DEF SparesOthers
<1>1. Env(q) \in Environments /\ Apart(q) /\ Env(q)' = Env(q)
  BY OthersStay, Workplace DEF BuildInv
<1>2. dirs'[Env(q)] \in {dirs[Env(q)], Unheld(r)[Env(q)]}
  BY <1>1
<1> QED
  BY <1>1, <1>2, OthersKeep DEF Begins

LEMMA NothingSpared ==
  ASSUME BuildInv, NEW r \in Runs, Aside(r), \A q \in Runs : q # r => run'[q] = run[q],
         dirs' \in {dirs, Unheld(r)}
  PROVE  SparesOthers(r)
<1> SUFFICES ASSUME NEW q \in Runs, q # r, Building(q) \/ Starts(q), Apart(q)'
             PROVE  /\ Building(q) => dirs'[Env(q)] = dirs[Env(q)]
                    /\ Starts(q) => Begins(q)'
  BY DEF SparesOthers
<1>1. Env(q) \in Environments /\ Apart(q) /\ Env(q)' = Env(q)
  BY OthersStay, Workplace DEF BuildInv
<1> QED
  BY <1>1, OthersKeep DEF Begins

\* A step that is nothing but another phase.
LEMMA PlainSpares ==
  ASSUME BuildInv, NEW r \in Runs, NEW from, NEW phase, Plain(r, from, phase)
  PROVE  /\ \A q \in Runs : q # r => run'[q] = run[q]
         /\ Aside(r) /\ SparesOthers(r)
         /\ run'[r].phase = phase /\ run'[r].job = run[r].job /\ Env(r)' = Env(r)
         /\ run'[r].victim = run[r].victim
         /\ Inside(r)' = Inside(r) /\ Apart(r)' = Apart(r)
         /\ \A e \in Environments : r \in locks'[e].within <=> r \in locks[e].within
         /\ dirs' = dirs
<1>1. /\ \A q \in Runs : q # r => run'[q] = run[q]
      /\ run'[r].phase = phase /\ run'[r].job = run[r].job /\ Env(r)' = Env(r)
      /\ run'[r].victim = run[r].victim /\ dirs' = dirs /\ locks' = locks
  BY DEF Plain, Moves, SameJob, Env
<1>2. Aside(r)
  BY <1>1, LocksStay DEF BuildInv
<1>3. SparesOthers(r)
  BY <1>1, <1>2, NothingSpared
<1> QED
  BY <1>1, <1>2, <1>3 DEF Inside, Apart

\* Steps that go on with what the run is at.
GoesOn(r) ==
  \/ Plain(r, {"loaded"}, "old") \/ Plain(r, {"found"}, "probed") \/ Plain(r, {"probed"}, "read")
  \/ Plain(r, {"ready"}, "commit") \/ Plain(r, {"commit", "note"}, "place")
  \/ Plain(r, {"place"}, "placed") \/ Plain(r, {"placed"}, "settle") \/ Plain(r, {"finish"}, "note")

\* Steps that turn to the undoing of it.
TurnsBack(r) ==
  \/ Plain(r, {"place", "placed"}, "undo link") \/ Plain(r, {"undo link"}, "undo entry")
  \/ Plain(r, {"undo entry"}, "undo selection") /\ run[r].job = "install"
  \/ Plain(r, {"hold", "claim", "stage", "build", "ready", "commit", "undo selection"}, "failing")
  \/ Plain(r, {"settle"}, "failing") /\ run[r].job = "install"
  \/ Plain(r, {"failing"}, "remove")

LEMMA GoesOnSpares ==
  ASSUME BuildInv, NEW r \in Runs, GoesOn(r)
  PROVE  Spares(r)
<1>1. /\ \A q \in Runs : q # r => run'[q] = run[q]
      /\ Aside(r) /\ SparesOthers(r)
      /\ run'[r].job = run[r].job /\ Env(r)' = Env(r) /\ run'[r].victim = run[r].victim
      /\ Inside(r)' = Inside(r) /\ Apart(r)' = Apart(r) /\ dirs' = dirs
      /\ \A e \in Environments : r \in locks'[e].within <=> r \in locks[e].within
  BY PlainSpares DEF GoesOn
<1>2. /\ run'[r].phase \in {"old", "probed", "read", "note", "commit", "place", "placed", "settle"}
      /\ run[r].phase \in {"loaded", "found", "probed", "finish", "note", "ready", "commit",
                           "place", "placed"}
      /\ run'[r].phase \in Wholes <=> run[r].phase \in Wholes \/ run[r].phase = "note"
      /\ run[r].phase \in {"found", "probed"} <=> run'[r].phase \in {"probed", "read"}
      /\ run'[r].phase = "old" <=> run[r].phase = "loaded"
      /\ run'[r].phase = "note" => run[r].phase = "finish"
      /\ run'[r].phase = "commit" => run[r].phase = "ready"
  BY DEF GoesOn, Plain, Moves, Wholes
<1>3. /\ run[r].job = "finish" => run[r].phase \in Finishing
      /\ run[r].phase \in {"finish", "note"} => run[r].job = "finish"
      /\ run[r].victim = None
  BY <1>2 DEF BuildInv, JobsAre, Ended
<1>4. /\ Building(r)' => Building(r) /\ run[r].phase \in Wholes /\ run'[r].phase \in Wholes
      /\ ~Starts(r)' /\ (Threatens(r)' => Threatens(r)) /\ Holding(r)' = Holding(r)
  BY <1>1, <1>2, <1>3
     DEF Building, Starts, Threatens, Holding, Finishes, Finishing, Ended, Wholes, Deciding
<1>5. Apart(r)' /\ Building(r)' => Own(r)'
  <2>1. Apart(r)' /\ Building(r)' => Own(r)
    BY <1>1, <1>4 DEF BuildInv, OwnDirs
  <2> QED
    BY <1>1, <1>2, <1>4, <2>1 DEF Own, Wholes
<1>6. /\ Apart(r) /\ Building(r) => \A q \in Runs : q # r /\ Env(q) = Env(r) => ~Threatens(q)
      /\ Apart(r) /\ Threatens(r) => \A q \in Runs : q # r /\ Env(q) = Env(r) => ~Building(q)
  BY DEF BuildInv, Alone, Apart
<1>7. /\ Holding(r) => Inside(r)
      /\ \A e \in Environments : r \in locks[e].within => InsideIs(r, e)
  BY DEF BuildInv, LocksHeld, InsideOnly, Inside
<1>8. \A e \in Environments : r \in locks'[e].within => InsideIs(r, e)'
  BY <1>1, <1>2, <1>4, <1>7 DEF InsideIs
<1>9. /\ run'[r].job = "finish" => run'[r].phase \in Finishing
      /\ run'[r].phase \in {"finish", "note"} => run'[r].job = "finish"
      /\ run'[r].phase # "remove" /\ run'[r].victim = None
  BY <1>1, <1>2, <1>3 DEF Finishing, Wholes
<1> QED
  BY <1>1, <1>4, <1>5, <1>6, <1>7, <1>8, <1>9 DEF Spares, SparesOthers

LEMMA TurnsBackSpares ==
  ASSUME BuildInv, NEW r \in Runs, TurnsBack(r)
  PROVE  Spares(r)
<1>1. /\ \A q \in Runs : q # r => run'[q] = run[q]
      /\ Aside(r) /\ SparesOthers(r)
      /\ run'[r].job = run[r].job /\ Env(r)' = Env(r) /\ run'[r].victim = run[r].victim
      /\ Inside(r)' = Inside(r) /\ Apart(r)' = Apart(r) /\ dirs' = dirs
      /\ \A e \in Environments : r \in locks'[e].within <=> r \in locks[e].within
  BY PlainSpares DEF TurnsBack
<1>2. /\ run'[r].phase \in {"undo link", "undo entry", "undo selection", "failing", "remove"}
      /\ run'[r].phase \in {"undo link", "undo entry", "undo selection"} =>
           run[r].phase \in {"place", "placed", "undo link", "undo entry"}
      /\ run'[r].phase = "undo selection" => run[r].job = "install"
      /\ run'[r].phase = "failing" =>
           /\ run[r].phase \in {"hold", "claim", "stage", "build", "ready", "commit",
                                "undo selection", "settle"}
           /\ run[r].phase = "settle" => run[r].job = "install"
      /\ run'[r].phase = "remove" => run[r].phase = "failing"
  BY DEF TurnsBack, Plain, Moves
<1>3. /\ run[r].job \in {"install", "finish"} /\ Env(r) \in Environments
      /\ run[r].job = "finish" => run[r].phase \in Finishing
      /\ run[r].victim = None
  BY <1>2, FieldsOfRun DEF BuildInv, JobsAre, Ended, Types, RunStates
<1>4. /\ run[r].job = "install" \/ run'[r].phase \in {"undo link", "undo entry"}
      /\ run[r].phase \notin Ended /\ run'[r].phase \notin Deciding \cup Ended
  BY <1>2, <1>3 DEF Finishing, Ended, Deciding
<1>5. /\ Holding(r) => Inside(r)
      /\ \A e \in Environments : r \in locks[e].within => InsideIs(r, e)
  BY DEF BuildInv, LocksHeld, InsideOnly, Inside
<1>6. Building(r)' => Building(r) /\ run[r].phase # "claim"
  BY <1>1, <1>2, <1>5 DEF Building, Wholes, Holding, Deciding
<1>7. Starts(r)' => Starts(r) \/ (Building(r) /\ run[r].phase = "claim")
  <2>1. Inside(r) => InsideIs(r, Env(r))
    BY <1>3, <1>5 DEF Inside
  <2> QED
    BY <1>1, <1>2, <1>3, <1>4, <2>1
       DEF Starts, Building, InsideIs, Holding, Deciding, Finishes
<1>8. Holding(r)' => Holding(r) /\ Finishes(r) /\ Finishes(r)'
  BY <1>1, <1>4 DEF Holding, Finishes
<1>9. Apart(r)' /\ Building(r)' => Own(r)'
  <2>1. Apart(r)' /\ Building(r)' => Own(r)
    BY <1>1, <1>6 DEF BuildInv, OwnDirs
  <2> QED
    BY <1>1, <1>2, <1>6, <2>1 DEF Own, Wholes
<1>10. Apart(r)' /\ Starts(r)' => Begins(r)'
  <2>1. Apart(r)' /\ Starts(r)' => Begins(r) \/ (Own(r) /\ run[r].phase = "claim")
    BY <1>1, <1>7 DEF BuildInv, OwnDirs, NewDirs
  <2> QED
    BY <1>1, <2>1 DEF Own, Begins
<1>11. /\ Apart(r) /\ Building(r)' => \A q \in Runs : q # r /\ Env(q) = Env(r) => ~Threatens(q)
       /\ Apart(r) /\ Threatens(r)' => \A q \in Runs : q # r /\ Env(q) = Env(r) => ~Building(q)
  <2>1. Threatens(r)' => Threatens(r) \/ Building(r)
    BY <1>2, <1>7, <1>8, <1>1 DEF Threatens, Holding
  <2> QED
    BY <1>3, <1>6, <2>1, MineAlone
<1>12. \A e \in Environments : r \in locks'[e].within => InsideIs(r, e)'
  <2> SUFFICES ASSUME NEW e \in Environments, r \in locks'[e].within PROVE InsideIs(r, e)'
    OBVIOUS
  <2>1. InsideIs(r, e)
    BY <1>1, <1>5
  <2> QED
    BY <1>1, <1>2, <1>3, <1>4, <2>1 DEF InsideIs, Holding, Finishes, Deciding
<1>13. /\ run'[r].job = "finish" => run'[r].phase \in Finishing
       /\ run'[r].phase \notin {"finish", "note"} /\ run'[r].victim = None
  BY <1>1, <1>2, <1>3, <1>4 DEF Finishing
<1> QED
  BY <1>1, <1>5, <1>8, <1>9, <1>10, <1>11, <1>12, <1>13 DEF Spares, SparesOthers

\* A run that goes, leaving the others what is theirs.
LEMMA GoingSpares ==
  ASSUME BuildInv, NEW r \in Runs, run'[r].phase \in Ended,
         \A q \in Runs : q # r => run'[q] = run[q], Aside(r), Outside(r), SparesOthers(r)
  PROVE  Spares(r)
<1>1. ~Building(r)' /\ ~Starts(r)' /\ ~Holding(r)' /\ ~Threatens(r)'
  BY DEF Building, Starts, Threatens, Holding, Finishes, Wholes, Deciding, Ended
<1> QED
  BY <1>1 DEF Spares, SparesOthers, Outside, Finishing, Ended

LEMMA EndsSpares ==
  ASSUME BuildInv, NEW r \in Runs, Ends(r)
  PROVE  Spares(r)
<1>1. /\ \A q \in Runs : q # r => run'[q] = run[q]
      /\ run'[r].phase \in Ended /\ dirs' = Unheld(r) /\ Aside(r) /\ Outside(r)
  BY LocksLeft DEF Ends, Moves, Ended, BuildInv
<1> QED
  BY <1>1, NothingSpared, GoingSpares

\* What a run within the lock may be at.
LEMMA WithinIs ==
  ASSUME BuildInv, NEW r \in Runs
  PROVE  /\ Holding(r) => Inside(r)
         /\ \A e \in Environments : r \in locks[e].within => InsideIs(r, e)
         /\ run[r].job = "finish" => run[r].phase \in Finishing
         /\ run[r].victim # None => run[r].phase \in {"reclaim", "remove"} \cup Ended
BY DEF BuildInv, LocksHeld, InsideOnly, JobsAre, Inside

LEMMA TakeSpares ==
  ASSUME BuildInv, NEW r \in Runs, Take(r)
  PROVE  Spares(r)
<1> DEFINE phase == IF dirs[Env(r)].there THEN "found" ELSE "make"
<1>0. /\ Types /\ Env(r) \in Environments /\ RunsOK /\ run[r].phase = "loaded" /\ To(r, phase)
      /\ phase \in Phases /\ run[r] \in RunStates
  BY FieldsOfRun DEF BuildInv, Types, Take, At, Phases
<1>1. Moves(r, phase) /\ SameJob(r) /\ run'[r].victim = run[r].victim
  BY <1>0, ToKeeps
<1>2. phase \in {"found", "make"} /\ (phase = "make" => ~dirs[Env(r)].there)
  OBVIOUS
<1> HIDE DEF phase
<1>3. /\ \A q \in Runs : q # r => run'[q] = run[q]
      /\ run'[r].phase = phase /\ Env(r)' = Env(r) /\ run'[r].job = run[r].job
      /\ dirs' = dirs /\ locks' = [locks EXCEPT ![Env(r)] = Entered(@, r)]
  BY <1>1 DEF Moves, SameJob, Take, Env, KeepDirs
<1>4. /\ Aside(r) /\ Inside(r)'
      /\ \A x \in Environments : x # Env(r) => locks'[x] = locks[x]
  BY <1>0, <1>3, LockEntered DEF BuildInv, Inside
<1>5. run'[r].job = "install" /\ run'[r].victim = None
  BY <1>0, <1>1, <1>3, WithinIs DEF RunStates, Finishing, Ended
<1>6. /\ ~Building(r)' /\ ~Starts(r)' /\ (Threatens(r)' => ~dirs[Env(r)].there)
      /\ Holding(r)' /\ run'[r].phase # "remove"
  BY <1>2, <1>3, <1>5
     DEF Building, Starts, Threatens, Finishes, Wholes, Holding, Deciding
<1>7. \A e \in Environments : r \in locks'[e].within => InsideIs(r, e)'
  <2> SUFFICES ASSUME NEW e \in Environments, r \in locks'[e].within PROVE e = Env(r)
    BY <1>3, <1>6 DEF InsideIs
  <2>1. ~InsideIs(r, e)
    BY <1>0, <1>3, <1>5 DEF InsideIs, Holding, Deciding, Finishes
  <2> QED
    BY <1>4, <2>1, WithinIs
<1>8. \A q \in Runs : q # r /\ Env(q) = Env(r) /\ Building(q) /\ Apart(r)' => dirs[Env(r)].there
  BY <1>0, <1>3, <1>4 DEF BuildInv, OwnDirs, Own, Apart, Aside
<1>9. SparesOthers(r)
  BY <1>3, <1>4, NothingSpared
<1> QED
  BY <1>2, <1>3, <1>4, <1>5, <1>6, <1>7, <1>8, <1>9 DEF Spares, SparesOthers

LEMMA BreakSpares ==
  ASSUME BuildInv, NEW r \in Runs, Break(r)
  PROVE  Spares(r)
<1>0. /\ Types /\ Env(r) \in Environments /\ RunsOK /\ run[r].phase = "old" /\ To(r, "loaded")
      /\ "loaded" \in Phases /\ run[r] \in RunStates
  BY FieldsOfRun DEF BuildInv, Types, Break, At, Phases
<1>1. Moves(r, "loaded") /\ SameJob(r) /\ run'[r].victim = run[r].victim
  BY <1>0, ToKeeps
<1>2. /\ \A q \in Runs : q # r => run'[q] = run[q]
      /\ run'[r].phase = "loaded" /\ run'[r].job = run[r].job
      /\ dirs' = dirs /\ locks' = [locks EXCEPT ![Env(r)] = Cleared(@)]
  BY <1>1 DEF Moves, SameJob, Break, KeepDirs
<1>3. Aside(r) /\ \A x \in Environments : locks'[x].within = locks[x].within
  BY <1>0, <1>2, LockCleared DEF BuildInv
<1>4. run[r].job = "install" /\ run'[r].victim = None
  BY <1>0, <1>1, WithinIs DEF RunStates, Finishing, Ended
<1>5. ~Building(r)' /\ ~Starts(r)' /\ ~Threatens(r)' /\ ~Holding(r)'
  BY <1>2, <1>4 DEF Building, Starts, Threatens, Finishes, Wholes, Holding, Deciding
<1>6. \A e \in Environments : r \notin locks'[e].within
  <2>1. \A e \in Environments : ~InsideIs(r, e)
    BY <1>0, <1>4 DEF InsideIs, Holding, Deciding, Finishes
  <2> QED
    BY <1>3, <2>1, WithinIs
<1>7. SparesOthers(r)
  BY <1>2, <1>3, NothingSpared
<1> QED
  BY <1>2, <1>3, <1>4, <1>5, <1>6, <1>7 DEF Spares, SparesOthers

LEMMA LoadSpares ==
  ASSUME BuildInv, NEW r \in Runs, NEW e \in Environments, Load(r, e)
  PROVE  Spares(r)
<1>1. /\ run[r].phase = "idle" /\ Moves(r, "loaded") /\ run'[r].job = run[r].job
      /\ run'[r].victim = run[r].victim /\ UNCHANGED <<dirs, locks>>
  BY LoadIs DEF BuildInv
<1>2. run'[r].job = "install" /\ run'[r].victim = None
  BY <1>1, FieldsOfRun DEF BuildInv, JobsAre, Types, RunStates, Finishing, Ended
<1>3. ~Building(r)' /\ ~Starts(r)' /\ ~Holding(r)' /\ ~Threatens(r)'
  BY <1>1, <1>2 DEF Moves, Building, Starts, Threatens, Holding, Finishes, Wholes, Deciding
<1>4. \A x \in Environments : ~InsideIs(r, x)
  BY <1>1, <1>2 DEF InsideIs, Holding, Deciding, Finishes
<1>5. Aside(r) /\ SparesOthers(r)
  BY <1>1, LocksStay, NothingSpared DEF BuildInv, Moves
<1> QED
  BY <1>1, <1>2, <1>3, <1>4, <1>5, WithinIs DEF Spares, SparesOthers, Moves

\* What was decided over a directory nobody is at.
LEMMA DecidedSpares ==
  ASSUME BuildInv, NEW r \in Runs, Adopt(r) \/ Reclaim(r) \/ Resume(r)
  PROVE  Spares(r)
<1>0. /\ run[r].phase = "read" /\ Env(r) \in Environments /\ run[r] \in RunStates /\ RunsOK
      /\ ~Live(Env(r))
  BY FieldsOfRun DEF Adopt, Reclaim, Resume, At, Decision, Decide, BuildInv, Types
<1>1. /\ \A q \in Runs : q # r => run'[q] = run[q]
      /\ Env(r)' = Env(r) /\ run'[r].victim = run[r].victim /\ UNCHANGED <<dirs, locks>>
      /\ \/ run'[r].phase \in {"adopt", "reclaim"} /\ run'[r].job = run[r].job
         \/ run'[r].phase = "finish" /\ run'[r].job = "finish"
  <2>1. CASE Adopt(r)
    <3>1. To(r, "adopt") /\ "adopt" \in Phases /\ UNCHANGED <<dirs, locks>>
      BY <2>1 DEF Adopt, Phases, KeepDirs, KeepLocks
    <3> QED
      BY <1>0, <3>1, ToKeeps DEF Moves, SameJob, Env
  <2>2. CASE Reclaim(r)
    BY <2>2, TakingAwayIs DEF Plain, Moves, SameJob, Env, BuildInv
  <2>3. CASE Resume(r)
    BY <2>3, ResumeIs DEF Moves, Env, BuildInv
  <2> QED
    BY <2>1, <2>2, <2>3
<1>2. Inside(r) /\ run[r].job = "install" /\ run[r].victim = None
  BY <1>0, WithinIs DEF Holding, Deciding, RunStates, Finishing, Ended
<1>3. Aside(r) /\ SparesOthers(r) /\ Inside(r)' /\ (Apart(r)' => Apart(r))
  BY <1>1, <1>2, LocksStay, NothingSpared DEF BuildInv, Inside, Apart
<1>4. Apart(r)' => \A q \in Runs : q # r /\ Env(q) = Env(r) => ~Building(q)
  BY <1>0, <1>2, <1>3, MineAlone
<1>5. ~Building(r)' /\ ~Starts(r)' /\ Holding(r)'
  BY <1>1, <1>2 DEF Building, Starts, Wholes, Holding, Deciding, Finishes, Ended
<1>6. \A e \in Environments : r \in locks'[e].within => InsideIs(r, e)'
  BY <1>1, <1>5, WithinIs DEF InsideIs
<1> QED
  BY <1>1, <1>2, <1>3, <1>4, <1>5, <1>6 DEF Spares, SparesOthers, Finishing

\* What an install does in its own directory: r goes on to a phase, the directory is d.
Within(r, phase, d) ==
  /\ run[r].phase \in {"adopt", "make", "hold", "claim", "stage", "build"}
  /\ \A q \in Runs : q # r => run'[q] = run[q]
  /\ run'[r].phase = phase /\ run[r].job = "install" /\ run'[r].job = "install"
  /\ run'[r].victim = None /\ Env(r) \in Environments /\ Env(r)' = Env(r)
  /\ dirs'[Env(r)] = d /\ \A e \in Environments : e # Env(r) => dirs'[e] = dirs[e]
  /\ Aside(r)
  /\ Building(r) \/ Threatens(r)

LEMMA InPlace ==
  ASSUME BuildInv, NEW r \in Runs, NEW phase \in Phases, NEW d, To(r, phase), Aside(r),
         run[r].phase \in {"adopt", "make", "hold", "claim", "stage", "build"},
         dirs' = [dirs EXCEPT ![Env(r)] = d]
  PROVE  Within(r, phase, d)
<1>1. /\ Env(r) \in Environments /\ run[r].phase # "idle" /\ run[r] \in RunStates
      /\ RunsOK /\ Types
  BY FieldsOfRun DEF BuildInv, Types
<1>2. run[r].job = "install" /\ run[r].victim = None
  BY <1>1, WithinIs DEF Finishing, RunStates, Ended
<1>3. Moves(r, phase) /\ SameJob(r) /\ run'[r].victim = run[r].victim
  BY <1>1, ToKeeps
<1>4. Building(r) \/ Threatens(r)
  BY <1>2 DEF Building, Threatens, Starts
<1> QED
  BY <1>1, <1>2, <1>3, <1>4 DEF Within, Types, Moves, SameJob, Env

LEMMA WithinSpares ==
  ASSUME BuildInv, NEW r \in Runs, NEW phase, NEW d, Within(r, phase, d),
         phase \in {"make", "hold", "claim", "stage", "build", "ready"},
         \/ locks' = locks /\ (run[r].phase \in Deciding <=> phase \in Deciding)
         \/ Outside(r) /\ phase \notin Deciding,
         Apart(r) /\ phase \in {"claim", "stage", "build", "ready"} => Own(r)',
         Apart(r) /\ phase = "hold" => Begins(r)'
  PROVE  Spares(r)
<1>1. Apart(r)' => Apart(r)
  BY DEF Within, Aside, Apart
<1>2. Apart(r) => \A q \in Runs : q # r /\ Env(q) = Env(r) =>
                    ~Building(q) /\ ~Starts(q) /\ ~Threatens(q)
  BY MineAlone DEF Within
<1>3. SparesOthers(r)
  <2>1. \A q \in Runs : q # r /\ Env(q) = Env(r) /\ Apart(q) => ~Building(q) /\ ~Starts(q)
    BY <1>2 DEF Apart
  <2> QED
    BY <2>1, OthersSpared DEF Within
<1>4. Holding(r)' => Inside(r)' /\ Holding(r)
  <2>1. Holding(r)' => phase \in Deciding
    BY DEF Within, Holding, Finishes
  <2>2. phase \in Deciding /\ locks' = locks => Inside(r)' /\ Holding(r)
    BY WithinIs DEF Within, Holding, Inside
  <2> QED
    BY <2>1, <2>2
<1>5. \A e \in Environments : r \in locks'[e].within => InsideIs(r, e)'
  <2> SUFFICES ASSUME NEW e \in Environments, r \in locks'[e].within PROVE InsideIs(r, e)'
    OBVIOUS
  <2>1. locks' = locks /\ InsideIs(r, e) /\ (run[r].phase \in Deciding <=> phase \in Deciding)
    BY WithinIs DEF Outside
  <2> QED
    BY <2>1 DEF InsideIs, Within, Holding, Finishes
<1>6. /\ Building(r)' => phase \in {"claim", "stage", "build", "ready"}
      /\ Starts(r)' => phase = "hold"
  BY DEF Within, Building, Starts, Wholes
<1> QED
  BY <1>1, <1>2, <1>3, <1>4, <1>5, <1>6 DEF Spares, SparesOthers, Within

LEMMA TakeOverSpares ==
  ASSUME BuildInv, NEW r \in Runs, TakeOver(r)
  PROVE  Spares(r)
<1>1. /\ run[r].phase = "adopt" /\ To(r, "make") /\ "make" \in Phases /\ locks' = locks
      /\ dirs' = [dirs EXCEPT ![Env(r)] = NoDir]
  BY DEF TakeOver, At, Phases, KeepLocks
<1>2. Within(r, "make", NoDir)
  BY <1>1, LocksStay, InPlace DEF BuildInv
<1> QED
  BY <1>1, <1>2, WithinSpares DEF Deciding

LEMMA MakeSpares ==
  ASSUME BuildInv, NEW r \in Runs, Make(r)
  PROVE  Spares(r)
<1>1. /\ run[r].phase = "make" /\ To(r, "hold") /\ "hold" \in Phases /\ locks' = locks
      /\ dirs' = [dirs EXCEPT ![Env(r)] = Fresh(r)]
  BY DEF Make, At, Phases, KeepLocks
<1>2. Within(r, "hold", Fresh(r))
  BY <1>1, LocksStay, InPlace DEF BuildInv
<1>3. Begins(r)'
  BY <1>2 DEF Begins, Within, Fresh, NoDir
<1> QED
  BY <1>1, <1>2, <1>3, WithinSpares DEF Deciding

\* What is at a name, or what a write through it makes of nothing.
LEMMA WrittenIs ==
  ASSUME Types, NEW r \in Runs, NEW e \in Environments
  PROVE  /\ Written(e, r) \in Dirs /\ Fresh(r) \in Dirs
         /\ dirs[e].there => Written(e, r) = dirs[e]
         /\ ~dirs[e].there => Written(e, r) = Fresh(r)
BY DEF Types, Written, Fresh, NoDir, Dirs, Built, Claims

LEMMA HoldSpares ==
  ASSUME BuildInv, NEW r \in Runs, Hold(r)
  PROVE  Spares(r)
<1> DEFINE w == Written(Env(r), r)
           d == [w EXCEPT !.lockfile = TRUE, !.held = r]
<1>1. /\ run[r].phase = "hold" /\ To(r, "claim") /\ "claim" \in Phases /\ locks' = locks
      /\ dirs' = [dirs EXCEPT ![Env(r)] = d]
  BY DEF Hold, At, Phases, KeepLocks
<1>2. Within(r, "claim", d)
  BY <1>1, LocksStay, InPlace DEF BuildInv
<1>3. Apart(r) => Begins(r)
  BY <1>1 DEF BuildInv, NewDirs, Starts
<1>4. /\ w \in Dirs /\ w \in {dirs[Env(r)], Fresh(r)} /\ (w # Fresh(r) => dirs[Env(r)].there)
      /\ (w = dirs[Env(r)] \/ w = Fresh(r))
  BY <1>2, WrittenIs DEF Within, BuildInv
<1>5. Apart(r) => w.there /\ w.by = r /\ ~w.torn /\ w.claim = "none" /\ w.built = "none"
  BY <1>3, <1>4 DEF Begins, Fresh, NoDir
<1> HIDE DEF w
<1>6. Apart(r) => Own(r)'
  BY <1>2, <1>4, <1>5 DEF Own, Dirs, Within, Wholes
<1> QED
  BY <1>1, <1>2, <1>6, WithinSpares DEF Deciding

LEMMA ClaimSpares ==
  ASSUME BuildInv, NEW r \in Runs, Claim(r)
  PROVE  Spares(r)
<1> DEFINE w == Written(Env(r), r)
           d == [w EXCEPT !.claim = "STAGING"]
<1>1. /\ run[r].phase = "claim" /\ To(r, "stage") /\ "stage" \in Phases
      /\ Env(r) \in Environments /\ run[r].job = "install"
      /\ locks' = [locks EXCEPT ![Env(r)] = Left(@, r)] /\ dirs' = [dirs EXCEPT ![Env(r)] = d]
  BY FieldsOfRun DEF Claim, At, Phases, BuildInv, Types, JobsAre, Finishing, RunStates
<1>2. /\ Aside(r) /\ r \notin locks'[Env(r)].within
      /\ \A e \in Environments : e # Env(r) => locks'[e] = locks[e]
  BY <1>1, LockLeft DEF BuildInv
<1>3. Outside(r)
  BY <1>2, WithinIs DEF Outside, InsideIs
<1>4. Within(r, "stage", d)
  BY <1>1, <1>2, InPlace
<1>5. Apart(r) => Own(r)
  BY <1>1 DEF BuildInv, OwnDirs, Building
<1>6. Own(r) => w = dirs[Env(r)] /\ w \in Dirs
  BY <1>1, WrittenIs DEF Own, BuildInv
<1> HIDE DEF w
<1>7. Apart(r) => Own(r)'
  BY <1>1, <1>4, <1>5, <1>6 DEF Own, Dirs, Within, Wholes
<1> QED
  BY <1>3, <1>4, <1>7, WithinSpares DEF Deciding

LEMMA StageSpares ==
  ASSUME BuildInv, NEW r \in Runs, Stage(r)
  PROVE  Spares(r)
<1> DEFINE w == Written(Env(r), r)
           d == [w EXCEPT !.built = "part"]
<1>1. /\ run[r].phase = "stage" /\ To(r, "build") /\ "build" \in Phases /\ locks' = locks
      /\ Env(r) \in Environments /\ run[r].job = "install"
      /\ dirs' = [dirs EXCEPT ![Env(r)] = d]
  BY FieldsOfRun
     DEF Stage, At, Phases, BuildInv, Types, JobsAre, Finishing, RunStates, KeepLocks
<1>2. Within(r, "build", d)
  BY <1>1, LocksStay, InPlace DEF BuildInv
<1>3. Apart(r) => Own(r)
  BY <1>1 DEF BuildInv, OwnDirs, Building
<1>4. Own(r) => w = dirs[Env(r)] /\ w \in Dirs
  BY <1>1, WrittenIs DEF Own, BuildInv
<1> HIDE DEF w
<1>5. Apart(r) => Own(r)'
  BY <1>1, <1>2, <1>3, <1>4 DEF Own, Dirs, Within, Wholes
<1> QED
  BY <1>1, <1>2, <1>5, WithinSpares DEF Deciding

LEMMA BuildSpares ==
  ASSUME BuildInv, NEW r \in Runs, Build(r)
  PROVE  Spares(r)
<1> DEFINE d == [dirs[Env(r)] EXCEPT !.built = "whole"]
<1>1. /\ run[r].phase = "build" /\ To(r, "ready") /\ "ready" \in Phases /\ locks' = locks
      /\ Env(r) \in Environments /\ run[r].job = "install" /\ dirs[Env(r)] \in Dirs
      /\ dirs' = [dirs EXCEPT ![Env(r)] = d]
  BY FieldsOfRun
     DEF Build, At, Phases, BuildInv, Types, JobsAre, Finishing, RunStates, KeepLocks
<1>2. Within(r, "ready", d)
  BY <1>1, LocksStay, InPlace DEF BuildInv
<1>3. Apart(r) => Own(r)
  BY <1>1 DEF BuildInv, OwnDirs, Building
<1>4. Apart(r) => Own(r)'
  BY <1>1, <1>2, <1>3 DEF Own, Dirs, Within, Wholes
<1> QED
  BY <1>1, <1>2, <1>4, WithinSpares DEF Deciding

\* One that ends, and leaves something else in its own directory only where nobody else is.
LEMMA LastSpares ==
  ASSUME BuildInv, NEW r \in Runs, run'[r].phase \in Ended,
         \A q \in Runs : q # r => run'[q] = run[q], Aside(r), Outside(r),
         Env(r) \in Environments,
         \A e \in Environments : e # Env(r) => dirs'[e] \in {dirs[e], Unheld(r)[e]},
         Apart(r) => Building(r) \/ Threatens(r)
  PROVE  Spares(r)
<1>1. \A q \in Runs : q # r /\ Env(q) = Env(r) /\ Apart(q) => ~Building(q) /\ ~Starts(q)
  BY MineAlone DEF Apart
<1> QED
  BY <1>1, OthersSpared, GoingSpares

LEMMA NotEmptySpares ==
  ASSUME BuildInv, NEW r \in Runs, NotEmpty(r)
  PROVE  Spares(r)
<1>1. /\ run[r].phase = "adopt" /\ Env(r) \in Environments /\ Types
      /\ To(r, "over") /\ "over" \in Phases /\ locks' = AllLeft(r)
  BY FieldsOfRun DEF NotEmpty, At, BuildInv, Types, Phases
<1>2. \A e \in Environments : e # Env(r) => dirs'[e] = Unheld(r)[e]
  BY <1>1, UnheldIs DEF NotEmpty
<1>3. Moves(r, "over") /\ Aside(r) /\ Outside(r)
  BY <1>1, ToIs, LocksLeft DEF Types, BuildInv
<1> QED
  BY <1>1, <1>2, <1>3, LastSpares DEF Threatens, Moves, Ended

LEMMA SettleSpares ==
  ASSUME BuildInv, NEW r \in Runs, Settle(r)
  PROVE  Spares(r)
<1>1. /\ run[r].phase = "settle" /\ Env(r) \in Environments /\ Types /\ run[r] \in RunStates
      /\ To(r, "over") /\ "over" \in Phases /\ locks' = AllLeft(r)
  BY FieldsOfRun DEF Settle, At, BuildInv, Types, Phases
<1>2. \A e \in Environments : e # Env(r) => dirs'[e] = Unheld(r)[e]
  BY <1>1, UnheldIs DEF Settle
<1>3. Moves(r, "over") /\ Aside(r) /\ Outside(r)
  BY <1>1, ToIs, LocksLeft DEF Types, BuildInv
<1>4. Building(r) \/ Threatens(r)
  BY <1>1 DEF Building, Threatens, Finishes, Wholes, Ended, RunStates
<1> QED
  BY <1>1, <1>2, <1>3, <1>4, LastSpares DEF Moves, Ended

LEMMA KillSpares ==
  ASSUME BuildInv, NEW r \in Runs, Kill(r)
  PROVE  Spares(r)
<1>1. /\ run[r].phase # "idle" /\ Env(r) \in Environments /\ Types /\ run[r] \in RunStates
      /\ To(r, "dead") /\ "dead" \in Phases
      /\ locks' = [e \in Environments |-> Abandoned(locks[e], r)]
  BY FieldsOfRun DEF Kill, Living, BuildInv, Types, Phases
<1>2. Moves(r, "dead") /\ Aside(r) /\ Outside(r)
  BY <1>1, ToIs, LocksLeft DEF Types, BuildInv
<1>3. CASE dirs' = Unheld(r)
  BY <1>2, <1>3, NothingSpared, GoingSpares DEF Moves, Ended
<1>4. CASE dirs' # Unheld(r)
  <2>1. run[r].phase = "claim"
    BY <1>4 DEF Kill, LeftBehind, At
  <2>2. Building(r)
    BY <1>1, <2>1, WithinIs DEF Building, RunStates, Finishing
  <2>3. \A e \in Environments : e # Env(r) => dirs'[e] = Unheld(r)[e]
    BY <1>1, UnheldIs DEF Kill, LeftBehind
  <2> QED
    BY <1>1, <1>2, <2>2, <2>3, LastSpares DEF Moves, Ended
<1> QED
  BY <1>3, <1>4

\* A run in a removal: of what it took over, of what it built, or of the rest of it.
LEMMA RemovesIs ==
  ASSUME BuildInv, NEW r \in Runs, run[r].phase \in {"reclaim", "remove"}
  PROVE  /\ Types /\ RunsOK /\ Env(r) \in Environments /\ run[r] \in RunStates
         /\ run[r].job = "install" /\ dirs[Env(r)] \in Dirs
         /\ run[r].phase = "reclaim" => Threatens(r) /\ Holding(r) /\ Inside(r)
         /\ Apart(r) /\ run[r].phase = "remove" => run[r].victim \in {None, r}
         /\ run[r].phase = "remove" /\ run[r].victim = None => Building(r) \/ Starts(r)
         /\ Starts(r) => Threatens(r)
<1>1. /\ Types /\ RunsOK /\ Env(r) \in Environments /\ run[r] \in RunStates
      /\ dirs[Env(r)] \in Dirs
  BY FieldsOfRun DEF BuildInv, Types
<1>2. run[r].job = "install" /\ (Holding(r) => Inside(r))
  BY <1>1, WithinIs DEF RunStates, Finishing
<1> QED
  BY <1>1, <1>2
     DEF BuildInv, OwnVictims, Threatens, Holding, Deciding, Building, Starts

LEMMA TearSpares ==
  ASSUME BuildInv, NEW r \in Runs, Tear(r)
  PROVE  Spares(r)
<1> DEFINE e == Env(r)
           s == [run[r] EXCEPT !.victim = dirs[e].by]
<1>1. /\ run[r].phase \in {"reclaim", "remove"} /\ locks' = locks
      /\ dirs[e].there /\ (Begun(r) => dirs[e].by = run[r].victim)
      /\ \E d : dirs' = [dirs EXCEPT ![e] = d]
      /\ run' = [run EXCEPT ![r].victim = dirs[e].by]
  BY DEF Tear, KeepLocks
<1>2. /\ Types /\ e \in Environments /\ run[r].job = "install" /\ RunsOK /\ run[r] \in RunStates
      /\ \A x \in Environments : x # e => dirs'[x] = dirs[x]
  BY <1>1, RemovesIs DEF Types
<1>3. /\ \A q \in Runs : q # r => run'[q] = run[q]
      /\ run'[r].phase = run[r].phase /\ run'[r].job = "install" /\ Env(r)' = e
      /\ run'[r].victim = dirs[e].by
  BY <1>1, <1>2 DEF RunsOK, RunStates, Env
<1>4. Aside(r) /\ Inside(r)' = Inside(r) /\ Apart(r)' = Apart(r)
  BY <1>1, <1>3, LocksStay DEF BuildInv, Inside, Apart
<1>5. Apart(r) /\ run[r].phase = "remove" => dirs[e].by = r
  <2>1. ASSUME Apart(r), run[r].phase = "remove", run[r].victim = None PROVE dirs[e].by = r
    BY <1>1, <2>1, RemovesIs DEF BuildInv, OwnDirs, NewDirs, Own, Begins
  <2> QED
    BY <1>1, <2>1, RemovesIs, InstallerAssumption DEF Begun
<1>6. Apart(r) => \A q \in Runs : q # r /\ Env(q) = e => ~Building(q) /\ ~Starts(q)
  <2> SUFFICES ASSUME Apart(r), NEW q \in Runs, q # r, Env(q) = e
               PROVE  ~Building(q) /\ ~Starts(q)
    OBVIOUS
  <2>1. CASE run[r].phase = "reclaim"
    BY <1>2, <2>1, RemovesIs, MineAlone
  <2>2. CASE run[r].phase = "remove"
    BY <1>1, <1>5, <2>2 DEF BuildInv, OwnDirs, NewDirs, Own, Begins, Apart
  <2> QED
    BY <1>1, <2>1, <2>2
<1>7. SparesOthers(r)
  BY <1>2, <1>3, <1>4, <1>6, OthersSpared DEF Apart
<1>8. Apart(r) => ~Building(r)' /\ ~Starts(r)'
  BY <1>1, <1>3, <1>5, InstallerAssumption DEF Building, Starts, Wholes
<1>9. Holding(r)' => Inside(r)
  BY <1>1, <1>2, <1>3, WithinIs DEF Holding, Finishes, Deciding
<1>10. \A x \in Environments : r \in locks'[x].within => InsideIs(r, x)'
  BY <1>1, <1>3, WithinIs DEF InsideIs, Holding, Finishes
<1> QED
  BY <1>1, <1>3, <1>4, <1>5, <1>6, <1>7, <1>8, <1>9, <1>10 DEF Spares, SparesOthers

LEMMA RemoveIs ==
  ASSUME RunsOK, NEW r \in Runs, Remove(r)
  PROVE  /\ run[r].phase \in {"reclaim", "remove"}
         /\ \/ /\ At(r, "reclaim") /\ Moves(r, "make") /\ SameJob(r) /\ run'[r].victim = None
               /\ UNCHANGED <<promoter, locks>> /\ dirs' = [dirs EXCEPT ![Env(r)] = NoDir]
            \/ \E gone \in Gone(r) :
                 /\ Moves(r, "over") /\ SameJob(r) /\ locks' = AllLeft(r)
                 /\ promoter' = Without(promoter, r)
                 /\ dirs' = [Unheld(r) EXCEPT ![Env(r)] = IF gone THEN NoDir
                                                          ELSE Unheld(r)[Env(r)]]
<1>1. /\ run[r].phase \in {"reclaim", "remove"} /\ run[r].phase # "idle" /\ "over" \in Phases
      /\ run[r] \in RunStates
  BY FieldsOfRun DEF Remove, Phases
<1>2. ASSUME At(r, "reclaim"), KeepLocks, dirs' = [dirs EXCEPT ![Env(r)] = NoDir],
             run' = [run EXCEPT ![r].phase = "make", ![r].victim = None]
      PROVE  /\ At(r, "reclaim") /\ Moves(r, "make") /\ SameJob(r) /\ run'[r].victim = None
             /\ UNCHANGED <<promoter, locks>> /\ dirs' = [dirs EXCEPT ![Env(r)] = NoDir]
  <2> DEFINE s == [run[r] EXCEPT !.phase = "make", !.victim = None]
  <2>1. /\ run' = [run EXCEPT ![r] = s] /\ s \in RunStates /\ s.phase = "make"
        /\ s.env = run[r].env /\ s.path = run[r].path /\ s.job = run[r].job /\ s.victim = None
    BY <1>1, <1>2 DEF RunsOK, RunStates, Phases
  <2> HIDE DEF s
  <2>2. Moves(r, "make") /\ run'[r] = s
    BY <1>1, <2>1, FieldsOfRun, BecomesIs DEF Env
  <2> QED
    BY <1>2, <2>1, <2>2 DEF SameJob, KeepLocks
<1>3. To(r, "over") => Moves(r, "over") /\ SameJob(r)
  BY <1>1, ToIs
<1> QED
  BY <1>1, <1>2, <1>3 DEF Remove

LEMMA RemoveSpares ==
  ASSUME BuildInv, NEW r \in Runs, Remove(r)
  PROVE  Spares(r)
<1> DEFINE e == Env(r)
<1>1. run[r].phase \in {"reclaim", "remove"} /\ RunsOK /\ Types /\ e \in Environments
  BY RemovesIs DEF Remove
<1>2. CASE At(r, "reclaim") /\ Moves(r, "make") /\ SameJob(r) /\ run'[r].victim = None
           /\ UNCHANGED <<promoter, locks>> /\ dirs' = [dirs EXCEPT ![e] = NoDir]
  <2>1. /\ \A q \in Runs : q # r => run'[q] = run[q]
        /\ run'[r].phase = "make" /\ Env(r)' = e /\ run'[r].job = "install"
        /\ locks' = locks /\ \A x \in Environments : x # e => dirs'[x] = dirs[x]
    BY <1>1, <1>2, RemovesIs DEF Moves, SameJob, Env, Types
  <2>2. Aside(r) /\ Inside(r)' /\ Threatens(r) /\ Apart(r)' = Apart(r)
    BY <1>2, <2>1, RemovesIs, LocksStay DEF BuildInv, Inside, Apart, At
  <2>3. Apart(r) => \A q \in Runs : q # r /\ Env(q) = e => ~Building(q) /\ ~Starts(q)
    BY <1>1, <2>2, MineAlone
  <2>4. SparesOthers(r)
    BY <1>1, <2>1, <2>2, <2>3, OthersSpared DEF Apart
  <2>5. ~Building(r)' /\ ~Starts(r)' /\ Holding(r)'
    BY <2>1 DEF Building, Starts, Wholes, Holding, Deciding
  <2>6. \A x \in Environments : r \in locks'[x].within => InsideIs(r, x)'
    BY <2>1, <2>5, WithinIs DEF InsideIs, Env
  <2> QED
    BY <1>2, <2>1, <2>2, <2>3, <2>4, <2>5, <2>6 DEF Spares, SparesOthers
<1>3. ASSUME NEW gone \in Gone(r), Moves(r, "over"), locks' = AllLeft(r),
             dirs' = [Unheld(r) EXCEPT ![e] = IF gone THEN NoDir ELSE Unheld(r)[e]]
      PROVE  Spares(r)
  <2>1. /\ \A q \in Runs : q # r => run'[q] = run[q]
        /\ run'[r].phase \in Ended /\ Aside(r) /\ Outside(r)
        /\ \A x \in Environments : x # e => dirs'[x] = Unheld(r)[x]
        /\ dirs'[e] = IF gone THEN NoDir ELSE Unheld(r)[e]
    BY <1>1, <1>3, LocksLeft, UnheldIs DEF Moves, Ended, BuildInv
  <2>2. CASE Apart(r) => Building(r) \/ Threatens(r)
    BY <1>1, <2>1, <2>2, LastSpares
  <2>3. CASE Apart(r) /\ ~Building(r) /\ ~Threatens(r)
    <3>1. run[r].phase = "remove" /\ run[r].victim = r /\ gone = Emptied(r) /\ r # None
      BY <1>1, <1>3, <2>3, RemovesIs, InstallerAssumption DEF Gone, Lock, Apart
    <3> SUFFICES ASSUME NEW q \in Runs, q # r, Building(q) \/ Starts(q), Apart(q)'
                 PROVE  /\ Building(q) => dirs'[Env(q)] = dirs[Env(q)]
                        /\ Starts(q) => Begins(q)'
      BY <2>1, GoingSpares DEF SparesOthers
    <3>2. Env(q) \in Environments /\ Apart(q) /\ Env(q)' = Env(q)
      BY <1>1, <2>1, OthersStay, Workplace DEF BuildInv
    <3>3. Building(q) /\ Env(q) = e => ~gone
      BY <3>1, <3>2, OthersKeep DEF Emptied, Begun
    <3>4. Building(q) => dirs'[Env(q)] = dirs[Env(q)]
      BY <2>1, <3>2, <3>3, OthersKeep
    <3>5. dirs'[Env(q)] \in {NoDir, Unheld(r)[Env(q)]}
      BY <2>1, <3>2
    <3>6. Starts(q) => Begins(q)'
      BY <3>2, <3>5, OthersKeep DEF Begins, NoDir
    <3> QED
      BY <3>4, <3>6
  <2> QED
    BY <2>2, <2>3
<1> QED
  BY <1>1, <1>2, <1>3, RemoveIs
-----------------------------------------------------------------------------
(***************************************************************************)
(* Every step is one of these.                                             *)
(***************************************************************************)
LEMMA NextPhase ==
  ASSUME Types, NEW r \in Runs,
         Commit(r) \/ Note(r) \/ Place(r) \/ PlaceFails(r) \/ Land(r)
  PROVE  /\ Commit(r) => Plain(r, {"commit", "note"}, "place")
         /\ Note(r) => Plain(r, {"commit", "note"}, "place")
         /\ Place(r) => Plain(r, {"place"}, "placed")
         /\ PlaceFails(r) => Plain(r, {"place", "placed"}, "undo link")
         /\ Land(r) => \/ Plain(r, {"placed"}, "settle") /\ Names(run[r].path, Env(r))
                       \/ /\ Plain(r, {"place", "placed"}, "undo link")
                          /\ ~Names(run[r].path, Env(r))
         /\ SameFinds(r)
<1>1. RunsOK /\ {"place", "placed", "undo link", "settle"} \subseteq Phases
  BY DEF Types, Phases
<1>2. UNCHANGED <<dirs, locks>>
  BY DEF Commit, Note, Place, PlaceFails, Land, KeepDirs, KeepLocks
<1>3. run[r].phase \in {"commit", "note", "place", "placed"} /\ run[r].phase # "idle"
  BY DEF Commit, Note, Place, PlaceFails, Land, At
<1>4. CASE Commit(r)
  BY <1>1, <1>2, <1>3, <1>4, ToKeeps DEF Plain, Commit, Note, Place, PlaceFails, Land, At
<1>5. CASE Note(r)
  BY <1>1, <1>2, <1>3, <1>5, ToKeeps DEF Plain, Commit, Note, Place, PlaceFails, Land, At
<1>6. CASE Place(r)
  BY <1>1, <1>2, <1>3, <1>6, ToKeeps DEF Plain, Commit, Note, Place, PlaceFails, Land, At, Moves
<1>7. CASE PlaceFails(r)
  BY <1>1, <1>2, <1>3, <1>7, ToKeeps DEF Plain, Commit, Note, Place, PlaceFails, Land, At, Moves
<1>8. CASE Land(r)
  BY <1>1, <1>2, <1>3, <1>8, ToKeeps DEF Plain, Commit, Note, Place, PlaceFails, Land, At
<1> QED
  BY <1>4, <1>5, <1>6, <1>7, <1>8

LEMMA NoticeIs ==
  ASSUME Types, NEW r \in Runs, Notice(r)
  PROVE  /\ Plain(r, {"loaded"}, "old") /\ SameFinds(r)
         /\ UNCHANGED <<links, record, promoter, promoted, reclaimed, kills, faults, hands>>
BY ToKeeps DEF Types, Phases, Notice, Plain, At, KeepDirs, KeepLinks, KeepRecord, KeepLocks,
               KeepPast, KeepBounds

LEMMA FailsIs ==
  ASSUME Types, NEW r \in Runs,
         \/ NotHad(r) \/ ClaimFails(r) \/ BuildFails(r) \/ CommitFails(r)
         \/ UndoSelection(r) \/ UndoSelectionFails(r)
  PROVE  /\ Plain(r, {"hold", "claim", "stage", "build", "ready", "commit", "undo selection"},
                  "failing")
         /\ SameFinds(r)
<1>1. RunsOK /\ run[r].phase # "idle"
  BY DEF Types, NotHad, ClaimFails, BuildFails, CommitFails, UndoSelection, UndoSelectionFails, At
<1>2. \E known \in BOOLEAN : Failing(r, known)
  BY DEF NotHad, ClaimFails, BuildFails, CommitFails, UndoSelection, UndoSelectionFails
<1>3. UNCHANGED <<dirs, locks>>
  BY DEF NotHad, ClaimFails, BuildFails, CommitFails, UndoSelection, UndoSelectionFails,
         KeepDirs, KeepLocks
<1>4. run[r].phase \in {"hold", "claim", "stage", "build", "ready", "commit", "undo selection"}
  BY DEF NotHad, ClaimFails, BuildFails, CommitFails, UndoSelection, UndoSelectionFails, At
<1> QED
  BY <1>1, <1>2, <1>3, <1>4, FailingIs DEF Plain

LEMMA SettleFailsIs ==
  ASSUME Types, NEW r \in Runs, SettleFails(r)
  PROVE  (Plain(r, {"settle"}, "failing") /\ run[r].job = "install" /\ UNCHANGED promoter)
           \/ Ends(r)
<1>1. RunsOK /\ run[r].phase = "settle"
  BY DEF Types, SettleFails, At
<1>2. CASE run[r].job = "install" /\ Failing(r, FALSE) /\ KeepDirs /\ KeepLocks
  BY <1>1, <1>2, FailingIs DEF Plain, KeepDirs, KeepLocks
<1>3. CASE End(r)
  BY <1>1, <1>3, EndIs
<1> QED
  BY <1>2, <1>3 DEF SettleFails

LEMMA UndoEntryIs ==
  ASSUME Types, NEW r \in Runs, UndoEntry(r) \/ UndoEntryFails(r)
  PROVE  \/ /\ Plain(r, {"undo entry"}, "undo selection") /\ run[r].job = "install"
            /\ SameFinds(r) /\ UNCHANGED promoter
         \/ Ends(r)
<1>1. RunsOK /\ run[r].phase = "undo entry" /\ "undo selection" \in Phases
  BY DEF Types, UndoEntry, UndoEntryFails, At, Phases
<1>2. AfterUndo(r)
  BY DEF UndoEntry, UndoEntryFails
<1>3. CASE run[r].job = "install"
  BY <1>1, <1>2, <1>3, ToKeeps DEF Plain, AfterUndo, KeepDirs, KeepLocks
<1>4. CASE run[r].job # "install"
  BY <1>1, <1>2, <1>4, EndIs DEF AfterUndo
<1> QED
  BY <1>3, <1>4

\* A run that leaves it, or was refused, ends.
Leaves(r) ==
  Busy(r) \/ LeaveIt(r) \/ Exists(r) \/ FinishRefused(r) \/ NoteFails(r) \/ Keep(r)

LEMMA LeavesIs ==
  ASSUME Types, NEW r \in Runs, Leaves(r)
  PROVE  Ends(r) /\ run[r].phase \in {"loaded", "read", "make", "finish", "note", "failing"}
BY EndIs DEF Types, Leaves, Busy, LeaveIt, Exists, FinishRefused, NoteFails, Keep, At

\* The steps that touch a directory, or the lock of its name, otherwise than by ending.
Touches(r) ==
  \/ Take(r) \/ Break(r) \/ TakeOver(r) \/ NotEmpty(r) \/ Make(r) \/ Hold(r) \/ Claim(r)
  \/ Stage(r) \/ Build(r) \/ Settle(r) \/ Tear(r) \/ Remove(r)

\* What it decided to do with the directory it found.
Decides(r) == Adopt(r) \/ Reclaim(r) \/ Resume(r)

LEMMA StepIs ==
  ASSUME Types, NEW r \in Runs, Step(r)
  PROVE  \/ GoesOn(r) \/ TurnsBack(r) \/ Ends(r) \/ Touches(r) \/ Decides(r)
         \/ \E e \in Environments : Load(r, e)
<1>1. CASE Commit(r) \/ Note(r) \/ Place(r) \/ PlaceFails(r) \/ Land(r)
  BY <1>1, NextPhase DEF GoesOn, TurnsBack
<1>2. CASE \/ NotHad(r) \/ ClaimFails(r) \/ BuildFails(r) \/ CommitFails(r)
           \/ UndoSelection(r) \/ UndoSelectionFails(r)
  BY <1>2, FailsIs DEF TurnsBack
<1>3. CASE SettleFails(r) \/ UndoEntry(r) \/ UndoEntryFails(r)
  BY <1>3, SettleFailsIs, UndoEntryIs DEF TurnsBack
<1>4. CASE Leaves(r)
  BY <1>4, LeavesIs
<1>5. CASE Probe(r) \/ ReadClaim(r) \/ Notice(r)
  BY <1>5, ReadsAre, NoticeIs DEF GoesOn
<1>6. CASE Judge(r) \/ Finish(r)
  BY <1>6, JudgeIs, FinishIs DEF GoesOn
<1>7. CASE Refused(r)
  <2>1. Plain(r, {"hold", "claim", "stage", "build", "ready", "commit", "undo selection"},
              "failing")
    BY <1>7, RefusedIs DEF Plain
  <2> QED
    BY <2>1 DEF TurnsBack
<1>8. CASE UndoLink(r) \/ UndoLinkFails(r) \/ Release(r)
  BY <1>8, UndoLinkIs, TakingAwayIs DEF TurnsBack
<1> QED
  BY <1>1, <1>2, <1>3, <1>4, <1>5, <1>6, <1>7, <1>8 DEF Step, Leaves, Touches, Decides

LEMMA StepSpares ==
  ASSUME BuildInv, NEW r \in Runs, Step(r) \/ Kill(r)
  PROVE  Spares(r)
<1>1. CASE GoesOn(r) \/ TurnsBack(r) \/ Ends(r)
  BY <1>1, GoesOnSpares, TurnsBackSpares, EndsSpares
<1>2. CASE Touches(r)
  BY <1>2, TakeSpares, BreakSpares, TakeOverSpares, NotEmptySpares, MakeSpares, HoldSpares,
     ClaimSpares, StageSpares, BuildSpares, SettleSpares, TearSpares, RemoveSpares DEF Touches
<1>3. CASE Decides(r) \/ Kill(r) \/ \E e \in Environments : Load(r, e)
  BY <1>3, DecidedSpares, KillSpares, LoadSpares DEF Decides
<1> QED
  BY <1>1, <1>2, <1>3, StepIs DEF BuildInv
-----------------------------------------------------------------------------
(***************************************************************************)
(* Types.                                                                  *)
(***************************************************************************)
LEMMA RunsTyped ==
  ASSUME Types, NEW r \in Runs, Step(r) \/ Kill(r)
  PROVE  RunsOK'
<1>1. ASSUME NEW phase, Moves(r, phase) PROVE RunsOK'
  BY <1>1 DEF Moves, Types, RunsOK
<1>2. GoesOn(r) \/ TurnsBack(r) \/ Ends(r) => \E phase : Moves(r, phase)
  BY DEF GoesOn, TurnsBack, Ends, Plain
<1>3. Resume(r) \/ (\E e \in Environments : Load(r, e)) \/ Reclaim(r) \/ Remove(r)
        => \E phase : Moves(r, phase)
  BY ResumeIs, LoadIs, TakingAwayIs, RemoveIs DEF Plain, Types
<1>4. CASE (Touches(r) /\ ~Tear(r) /\ ~Remove(r)) \/ Adopt(r) \/ Kill(r)
  <2>1. run[r].phase # "idle" /\ \E phase \in Phases : To(r, phase)
    BY <1>4 DEF Touches, Take, Break, Adopt, TakeOver, NotEmpty, Make, Hold, Claim, Stage, Build,
                Settle, Kill, Phases, At, Living
  <2> QED
    BY <1>1, <2>1, ToIs DEF Types
<1>5. CASE Tear(r)
  <2>1. run[r] \in RunStates /\ Env(r) \in Environments /\ dirs[Env(r)].by \in Runs \cup {None}
    BY <1>5, FieldsOfRun DEF Types, Tear, Dirs
  <2>2. [run[r] EXCEPT !.victim = dirs[Env(r)].by] \in RunStates
    BY <2>1 DEF RunStates
  <2>3. /\ run' = [run EXCEPT ![r] = [run[r] EXCEPT !.victim = dirs[Env(r)].by]]
        /\ [run[r] EXCEPT !.victim = dirs[Env(r)].by].phase = run[r].phase
        /\ [run[r] EXCEPT !.victim = dirs[Env(r)].by].env = run[r].env
        /\ [run[r] EXCEPT !.victim = dirs[Env(r)].by].path = run[r].path
    BY <1>5, <2>1 DEF Tear, RunStates
  <2> QED
    BY <2>2, <2>3 DEF Types, RunsOK
<1> QED
  BY <1>1, <1>2, <1>3, <1>4, <1>5, StepIs DEF Decides

\* The lock states the steps go to.
LEMMA LocksTyped ==
  ASSUME Types, NEW r \in Runs
  PROVE  /\ AllLeft(r) \in [Environments -> LockStates(Runs)]
         /\ [e \in Environments |-> Abandoned(locks[e], r)] \in [Environments -> LockStates(Runs)]
         /\ \A e \in Environments :
              /\ [locks EXCEPT ![e] = Left(@, r)] \in [Environments -> LockStates(Runs)]
              /\ [locks EXCEPT ![e] = Cleared(@)] \in [Environments -> LockStates(Runs)]
              /\ [locks EXCEPT ![e] = Entered(@, r)] \in [Environments -> LockStates(Runs)]
<1>1. ASSUME NEW e \in Environments
      PROVE  /\ Left(locks[e], r) \in LockStates(Runs) /\ Cleared(locks[e]) \in LockStates(Runs)
             /\ Abandoned(locks[e], r) \in LockStates(Runs)
             /\ Entered(locks[e], r) \in LockStates(Runs)
  BY DEF Types, LockStates, Left, Cleared, Abandoned, Entered
<1> QED
  BY <1>1 DEF Types, AllLeft

LEMMA LeftBehindIs ==
  ASSUME NEW r \in Runs, dirs' \in LeftBehind(r)
  PROVE  \/ dirs' = Unheld(r)
         \/ /\ At(r, "claim") /\ dirs[Env(r)].there
            /\ \E c \in {dirs[Env(r)].claim, "STAGING"}, l \in {dirs[Env(r)].litter, TRUE} :
                 dirs' = [Unheld(r) EXCEPT ![Env(r)].claim = c, ![Env(r)].litter = l]
BY DEF LeftBehind

LEMMA DirsTyped ==
  ASSUME Types, NEW r \in Runs, Step(r) \/ Kill(r)
  PROVE  dirs' \in [Environments -> Dirs] /\ locks' \in [Environments -> LockStates(Runs)]
<1>0. /\ dirs \in [Environments -> Dirs] /\ locks \in [Environments -> LockStates(Runs)]
      /\ Unheld(r) \in [Environments -> Dirs]
  <2>1. Unheld(r) \in [Environments -> Dirs]
    <3>1. \A e \in Environments : dirs[e] \in Dirs /\ [dirs[e] EXCEPT !.held = None] \in Dirs
      BY DEF Types, Dirs
    <3> QED
      BY <3>1 DEF Unheld
  <2> QED
    BY <2>1 DEF Types
<1>1. CASE GoesOn(r) \/ TurnsBack(r) \/ Ends(r)
  BY <1>0, <1>1, LocksTyped DEF GoesOn, TurnsBack, Ends, Plain
<1>2. CASE Decides(r) \/ (\E e \in Environments : Load(r, e))
  BY <1>0, <1>2 DEF Decides, Adopt, Resume, Load, Reclaim, KeepDirs, KeepLocks
<1>3. ASSUME Touches(r) \/ Kill(r)
      PROVE  /\ Env(r) \in Environments /\ dirs[Env(r)] \in Dirs /\ NoDir \in Dirs
             /\ Written(Env(r), r) \in Dirs /\ Fresh(r) \in Dirs /\ Unheld(r)[Env(r)] \in Dirs
  <2>1. run[r].phase # "idle"
    BY <1>3 DEF Touches, Take, Break, TakeOver, NotEmpty, Make, Hold, Claim, Stage, Build, Settle,
                Tear, Remove, At, Kill, Living
  <2>2. Env(r) \in Environments
    BY <2>1, FieldsOfRun DEF Types
  <2> QED
    BY <1>0, <2>2, WrittenIs DEF NoDir, Dirs, Built, Claims
<1>4. CASE Kill(r)
  <2>1. \A c \in Claims : \A l \in BOOLEAN :
          [Unheld(r) EXCEPT ![Env(r)].claim = c, ![Env(r)].litter = l] \in [Environments -> Dirs]
    <3> SUFFICES ASSUME NEW c \in Claims, NEW l \in BOOLEAN
                 PROVE  [Unheld(r) EXCEPT ![Env(r)].claim = c, ![Env(r)].litter = l]
                          \in [Environments -> Dirs]
      OBVIOUS
    <3>1. [Unheld(r)[Env(r)] EXCEPT !.claim = c, !.litter = l] \in Dirs
      BY <1>3, <1>4 DEF Dirs
    <3> QED
      BY <1>0, <1>3, <1>4, <3>1
  <2>2. dirs[Env(r)].claim \in Claims /\ "STAGING" \in Claims /\ dirs[Env(r)].litter \in BOOLEAN
    BY <1>3, <1>4 DEF Dirs, Claims
  <2>3. dirs' \in [Environments -> Dirs]
    <3>1. dirs' \in LeftBehind(r)
      BY <1>4 DEF Kill
    <3>2. CASE dirs' = Unheld(r)
      BY <1>0, <3>2
    <3>3. ASSUME NEW c \in {dirs[Env(r)].claim, "STAGING"}, NEW l \in {dirs[Env(r)].litter, TRUE},
                 dirs' = [Unheld(r) EXCEPT ![Env(r)].claim = c, ![Env(r)].litter = l]
          PROVE  dirs' \in [Environments -> Dirs]
      <4>1. c \in Claims /\ l \in BOOLEAN
        BY <2>2
      <4>2. [Unheld(r) EXCEPT ![Env(r)].claim = c, ![Env(r)].litter = l] \in [Environments -> Dirs]
        BY <2>1, <4>1
      <4> QED
        BY <3>3, <4>2
    <3> QED
      BY <3>1, <3>2, <3>3, LeftBehindIs
  <2> QED
    BY <1>4, <2>3, LocksTyped DEF Kill
<1>5. CASE Touches(r)
  <2>0. /\ Env(r) \in Environments /\ dirs[Env(r)] \in Dirs /\ NoDir \in Dirs
        /\ Written(Env(r), r) \in Dirs /\ Fresh(r) \in Dirs /\ Unheld(r)[Env(r)] \in Dirs
    BY <1>3, <1>5
  <2>1. CASE Take(r) \/ Break(r)
    BY <1>0, <2>0, <2>1, LocksTyped DEF Take, Break, KeepDirs
  <2>2. CASE TakeOver(r) \/ Make(r)
    BY <1>0, <2>0, <2>2 DEF TakeOver, Make, KeepLocks
  <2>3. CASE NotEmpty(r)
    <3>1. [Unheld(r)[Env(r)] EXCEPT !.claim = "none", !.lockfile = FALSE] \in Dirs
      BY <2>0 DEF Dirs, Claims
    <3> QED
      BY <1>0, <2>0, <2>3, <3>1, LocksTyped DEF NotEmpty
  <2>4. CASE Hold(r)
    <3>1. [Written(Env(r), r) EXCEPT !.lockfile = TRUE, !.held = r] \in Dirs
      BY <2>0 DEF Dirs
    <3> QED
      BY <1>0, <2>0, <2>4, <3>1 DEF Hold, KeepLocks
  <2>5. CASE Claim(r)
    <3>1. [Written(Env(r), r) EXCEPT !.claim = "STAGING"] \in Dirs
      BY <2>0 DEF Dirs, Claims
    <3> QED
      BY <1>0, <2>0, <2>5, <3>1, LocksTyped DEF Claim
  <2>6. CASE Stage(r) \/ Build(r)
    <3>1. /\ [Written(Env(r), r) EXCEPT !.built = "part"] \in Dirs
          /\ [dirs[Env(r)] EXCEPT !.built = "whole"] \in Dirs
      BY <2>0 DEF Dirs, Built
    <3> QED
      BY <1>0, <2>0, <2>6, <3>1 DEF Stage, Build, KeepLocks
  <2>7. CASE Settle(r)
    <3> DEFINE d == IF dirs[Env(r)].there THEN Unheld(r)[Env(r)] ELSE Fresh(r)
    <3>1. [d EXCEPT !.claim = "COMPLETE"] \in Dirs
      BY <2>0 DEF Dirs, Claims
    <3>2. dirs' = [Unheld(r) EXCEPT ![Env(r)] = [d EXCEPT !.claim = "COMPLETE"]]
      BY <1>0, <2>0, <2>7 DEF Settle
    <3> QED
      BY <1>0, <2>0, <2>7, <3>1, <3>2, LocksTyped DEF Settle
  <2>8. CASE Tear(r)
    <3> DEFINE d == dirs[Env(r)]
               b == IF d.built = "none" THEN "none" ELSE "part"
    <3>1. PICK claim \in {d.claim, "none"}, lockfile \in {d.lockfile, FALSE},
               litter \in {d.litter, FALSE} :
            dirs' = [dirs EXCEPT ![Env(r)] = [d EXCEPT !.claim = claim, !.lockfile = lockfile,
                                                       !.litter = litter, !.built = b,
                                                       !.torn = TRUE]]
      BY <2>8 DEF Tear
    <3>2. [d EXCEPT !.claim = claim, !.lockfile = lockfile, !.litter = litter, !.built = b,
                    !.torn = TRUE] \in Dirs
      BY <2>0 DEF Dirs, Claims, Built
    <3>3. locks' = locks
      BY <2>8 DEF Tear, KeepLocks
    <3> QED
      BY <1>0, <2>0, <3>1, <3>2, <3>3
  <2>9. CASE Remove(r)
    BY <1>0, <2>0, <2>9, RemoveIs, LocksTyped DEF Types
  <2> QED
    BY <1>5, <2>1, <2>2, <2>3, <2>4, <2>5, <2>6, <2>7, <2>8, <2>9 DEF Touches
<1> QED
  BY <1>1, <1>2, <1>4, <1>5, StepIs

\* The steps that write the selection, the ownership entry or a link.
Writes(r) ==
  \/ Commit(r) \/ CommitFails(r) \/ Place(r) \/ PlaceFails(r) \/ Note(r) \/ NoteFails(r)
  \/ UndoLink(r) \/ UndoEntry(r) \/ UndoEntryFails(r) \/ UndoSelection(r)
  \/ UndoSelectionFails(r)

KeepsSelection == record'.selected = record.selected /\ record'.pointer = record.pointer

\* The others write none of it; what a run built or takes away is noted.
LEMMA OthersWriteNothing ==
  ASSUME Types, NEW r \in Runs, Step(r) \/ Kill(r), ~Writes(r)
  PROVE  /\ links' = links /\ KeepsSelection /\ record' \in Records
         /\ faults' = faults \/ faults' = faults + 1
         /\ kills' = kills \/ kills' = kills + 1
         /\ hands' = hands
<1>1. CASE Build(r) \/ Release(r)
  <2>1. PICK s \in SUBSET Environments : record' = [record EXCEPT !.installs = s]
    <3>1. Env(r) \in Environments /\ record.installs \subseteq Environments
      BY <1>1, FieldsOfRun DEF Build, Release, At, Types, Records
    <3>2. CASE Build(r)
      <4>1. record' = [record EXCEPT !.installs = record.installs \cup {Env(r)}]
        BY <3>2 DEF Build
      <4> QED
        BY <3>1, <4>1
    <3>3. CASE Release(r)
      <4>1. record' = [record EXCEPT !.installs = record.installs \ {Env(r)}]
        BY <3>3 DEF Release
      <4> QED
        BY <3>1, <4>1
    <3> QED
      BY <1>1, <3>2, <3>3
  <2> QED
    BY <1>1, <2>1 DEF Build, Release, Types, Records, KeepsSelection, KeepLinks, KeepBounds
<1>2. CASE Kill(r)
  BY <1>2 DEF Kill, Types, KeepsSelection, KeepLinks, KeepRecord
<1>3. CASE \/ \E e \in Environments : Load(r, e)
           \/ Take(r) \/ Notice(r) \/ Break(r) \/ Busy(r) \/ Probe(r) \/ ReadClaim(r) \/ LeaveIt(r)
           \/ Resume(r) \/ Adopt(r) \/ TakeOver(r) \/ NotEmpty(r) \/ Reclaim(r) \/ Make(r)
  BY <1>3 DEF Load, Take, Notice, Break, Busy, Probe, ReadClaim, LeaveIt, Resume, Adopt, TakeOver,
              NotEmpty, Reclaim, Make, Types, KeepsSelection, KeepLinks, KeepRecord, KeepBounds
<1>4. CASE \/ Exists(r) \/ Hold(r) \/ NotHad(r) \/ Claim(r) \/ ClaimFails(r) \/ Stage(r)
           \/ BuildFails(r) \/ Judge(r) \/ Refused(r) \/ Land(r)
  BY <1>4 DEF Exists, Hold, NotHad, Claim, ClaimFails, Stage, BuildFails, Judge, Refused, Land,
              Types, KeepsSelection, KeepLinks, KeepRecord, KeepBounds, Fault
<1>5. CASE \/ Settle(r) \/ SettleFails(r) \/ Finish(r) \/ FinishRefused(r) \/ UndoLinkFails(r)
           \/ Keep(r) \/ Tear(r) \/ Remove(r)
  BY <1>5 DEF Settle, SettleFails, Finish, FinishRefused, UndoLinkFails, Keep, Tear, Remove, Types,
              KeepsSelection, KeepLinks, KeepRecord, KeepBounds, Fault
<1> QED
  BY <1>1, <1>2, <1>3, <1>4, <1>5 DEF Step, Writes

\* What the writers write, and that they are at a phase of the promotion.
LEMMA WritersAre ==
  ASSUME Types, NEW r \in Runs, Writes(r)
  PROVE  /\ run[r].phase \in {"commit", "note", "place", "undo link", "undo entry",
                              "undo selection"}
         /\ RunsOK /\ run[r] \in RunStates /\ Env(r) \in Environments /\ Env(r) # None
         /\ run[r].path \in Destinations /\ run[r].path # None
         /\ links[run[r].path] \in LinksAt /\ run[r].before \in LinksAt
         /\ record \in Records /\ record.pointer \in Entries /\ run[r].found \in Entries
         /\ faults' = faults \/ faults' = faults + 1
         /\ kills' = kills /\ hands' = hands
<1>1. run[r].phase \in {"commit", "note", "place", "undo link", "undo entry", "undo selection"}
  BY DEF Writes, Commit, CommitFails, Place, PlaceFails, Note, NoteFails, UndoLink, UndoEntry,
         UndoEntryFails, UndoSelection, UndoSelectionFails, At
<1>2. /\ run[r] \in RunStates /\ Env(r) \in Environments /\ run[r].path \in Destinations
      /\ RunsOK
  BY <1>1, FieldsOfRun DEF Types
<1>3. /\ faults' = faults \/ faults' = faults + 1
      /\ kills' = kills /\ hands' = hands
  BY DEF Writes, Commit, CommitFails, Place, PlaceFails, Note, NoteFails, UndoLink, UndoEntry,
         UndoEntryFails, UndoSelection, UndoSelectionFails, Fault, KeepBounds
<1> QED
  BY <1>1, <1>2, <1>3, InstallerAssumption DEF Types, Records, RunStates

LEMMA RecordIs ==
  ASSUME Types, NEW r \in Runs, Writes(r)
  PROVE  /\ record' \in Records
         /\ Place(r) \/ PlaceFails(r) \/ UndoLink(r) => record' = record
         /\ Commit(r) => record'.selected = Env(r) /\ record'.pointer = Entry(run[r].path)
         /\ UndoEntry(r) \/ UndoEntryFails(r) =>
              /\ record'.selected = record.selected
              /\ record'.pointer \in {record.pointer, EntryBack(r)}
         /\ UndoEntry(r) /\ run[r].settled /\ record.pointer.path = run[r].path
              => record'.pointer = EntryBack(r)
         /\ UndoSelection(r) \/ UndoSelectionFails(r) =>
              /\ record'.selected \in {record.selected, run[r].prev}
              /\ record'.pointer = record.pointer
         /\ UndoSelection(r) /\ record.selected = Env(r) => record'.selected = run[r].prev
         /\ (UndoSelection(r) \/ UndoSelectionFails(r)) /\ record.selected # Env(r)
              => record'.selected = record.selected
<1>0. /\ record \in Records /\ Env(r) \in Environments /\ Entry(run[r].path) \in Entries
      /\ run[r] \in RunStates /\ EntryBack(r) \in Entries
  <2>1. WithoutPlacement(run[r].found) \in Entries
    BY WritersAre DEF WithoutPlacement, Entries
  <2> QED
    BY <2>1, WritersAre DEF Entry, Entries, EntryBack
<1>1. /\ Selecting(r) \in Records /\ Selecting(r).selected = Env(r)
      /\ Selecting(r).pointer = Entry(run[r].path)
      /\ [record EXCEPT !.pointer = Entry(run[r].path)] \in Records
      /\ [record EXCEPT !.pointer = Entry(run[r].path)].pointer = Entry(run[r].path)
  BY <1>0 DEF Selecting, Records
<1>2. /\ Disclaiming(r) \in Records /\ Disclaiming(r).selected = record.selected
      /\ Disclaiming(r).pointer \in {record.pointer, EntryBack(r)}
      /\ run[r].settled /\ record.pointer.path = run[r].path
           => Disclaiming(r).pointer = EntryBack(r)
  <2>1. /\ [record EXCEPT !.pointer = EntryBack(r)] \in Records
        /\ [record EXCEPT !.pointer = EntryBack(r)].pointer = EntryBack(r)
        /\ [record EXCEPT !.pointer = EntryBack(r)].selected = record.selected
    BY <1>0 DEF Records
  <2> QED
    BY <1>0, <2>1 DEF Disclaiming
<1>3. /\ Deselecting(r) \in Records /\ Deselecting(r).pointer = record.pointer
      /\ record.selected = Env(r) => Deselecting(r).selected = run[r].prev
      /\ record.selected # Env(r) => Deselecting(r) = record
  <2>1. /\ [record EXCEPT !.selected = run[r].prev] \in Records
        /\ [record EXCEPT !.selected = run[r].prev].selected = run[r].prev
        /\ [record EXCEPT !.selected = run[r].prev].pointer = record.pointer
    BY <1>0 DEF Records, RunStates
  <2> QED
    BY <1>0, <2>1 DEF Deselecting
<1>4. CASE Place(r) \/ PlaceFails(r) \/ UndoLink(r)
  BY <1>0, <1>4 DEF Place, PlaceFails, UndoLink, Commit, Note, UndoEntry, UndoEntryFails,
                    UndoSelection, UndoSelectionFails, At, KeepRecord
<1>5. CASE Commit(r) \/ CommitFails(r)
  BY <1>0, <1>1, <1>5 DEF Commit, CommitFails, Place, PlaceFails, UndoLink, Note, UndoEntry,
                          UndoEntryFails, UndoSelection, UndoSelectionFails, At
<1>6. CASE Note(r) \/ NoteFails(r)
  BY <1>0, <1>1, <1>6 DEF Note, NoteFails, Place, PlaceFails, UndoLink, Commit, UndoEntry,
                          UndoEntryFails, UndoSelection, UndoSelectionFails, At
<1>7. CASE UndoEntry(r) \/ UndoEntryFails(r)
  BY <1>0, <1>2, <1>7 DEF UndoEntry, UndoEntryFails, Place, PlaceFails, UndoLink, Commit, Note,
                          UndoSelection, UndoSelectionFails, At
<1>8. CASE UndoSelection(r) \/ UndoSelectionFails(r)
  BY <1>0, <1>3, <1>8 DEF UndoSelection, UndoSelectionFails, Place, PlaceFails, UndoLink, Commit,
                          Note, UndoEntry, UndoEntryFails, At
<1> QED
  BY <1>4, <1>5, <1>6, <1>7, <1>8 DEF Writes

LEMMA LinksAre ==
  ASSUME Types, NEW r \in Runs, Writes(r)
  PROVE  /\ links' \in [Destinations -> LinksAt]
         /\ Commit(r) \/ CommitFails(r) \/ Note(r) \/ NoteFails(r) => links' = links
         /\ UndoEntry(r) \/ UndoEntryFails(r) => links' = links
         /\ UndoSelection(r) \/ UndoSelectionFails(r) => links' = links
         /\ Place(r) => links'[run[r].path] = LinkTo(Env(r))
         /\ PlaceFails(r) => links'[run[r].path] \in {links[run[r].path], LinkTo(Env(r))}
         /\ UndoLink(r) => links'[run[r].path] = LinkBack(r)
<1>0. /\ links \in [Destinations -> LinksAt] /\ run[r].path \in Destinations
      /\ LinkTo(Env(r)) \in LinksAt /\ NoLink \in LinksAt /\ LinkBack(r) \in LinksAt
  <2>1. LinkTo(Env(r)) \in LinksAt /\ NoLink \in LinksAt
    BY WritersAre DEF LinksAt, LinkTo, NoLink
  <2> QED
    BY <2>1, WritersAre DEF LinkBack, Types
<1>1. CASE Commit(r) \/ CommitFails(r) \/ Note(r) \/ NoteFails(r)
  BY <1>0, <1>1 DEF Commit, CommitFails, Note, NoteFails, Place, PlaceFails, UndoLink, UndoEntry,
                    UndoEntryFails, UndoSelection, UndoSelectionFails, At, KeepLinks
<1>2. CASE UndoEntry(r) \/ UndoEntryFails(r) \/ UndoSelection(r) \/ UndoSelectionFails(r)
  BY <1>0, <1>2 DEF Commit, CommitFails, Note, NoteFails, UndoEntry, UndoEntryFails, UndoSelection,
                    UndoSelectionFails, Place, PlaceFails, UndoLink, At, KeepLinks
<1>3. CASE Place(r) \/ PlaceFails(r)
  BY <1>0, <1>3 DEF Place, PlaceFails, Placing, Commit, CommitFails, Note, NoteFails, UndoEntry,
                    UndoEntryFails, UndoSelection, UndoSelectionFails, UndoLink, At
<1>4. CASE UndoLink(r)
  BY <1>0, <1>4 DEF Place, PlaceFails, Commit, CommitFails, Note, NoteFails, UndoEntry,
                    UndoEntryFails, UndoSelection, UndoSelectionFails, UndoLink, At
<1> QED
  BY <1>1, <1>2, <1>3, <1>4 DEF Writes

LEMMA AroundRuns ==
  ASSUME Types, NEW d \in Destinations, NEW t \in Environments \cup {Elsewhere, None},
         HandLink(d, t)
  PROVE  /\ dirs' = dirs /\ run' = run /\ record' = record /\ promoter' = promoter
         /\ locks' = locks /\ faults' = faults /\ kills' = kills /\ hands' = hands + 1
         /\ links' \in [Destinations -> LinksAt]
<1>1. [to |-> t, by |-> IF t = None THEN None ELSE "hand"] \in LinksAt
  BY DEF LinksAt
<1> QED
  BY <1>1 DEF HandLink, Types, KeepDirs, KeepRecord, KeepLocks

LEMMA PromoterTyped ==
  ASSUME Types, NEW r \in Runs, Step(r) \/ Kill(r)
  PROVE  /\ promoter' \in {promoter, None} \/ Judge(r) \/ Finish(r)
         /\ Judge(r) \/ Finish(r) => promoter' = r
<1>0. Judge(r) \/ Finish(r) => promoter' = r
  BY DEF Judge, Finish
<1>1. CASE Kill(r) \/ Leaves(r)
  BY <1>0, <1>1, LeavesIs DEF Kill, Without, Ends
<1>2. CASE SettleFails(r) \/ UndoEntry(r) \/ UndoEntryFails(r)
  BY <1>0, <1>2, SettleFailsIs, UndoEntryIs DEF Ends, Without
<1>3. CASE \/ Judge(r) \/ Finish(r) \/ Probe(r) \/ ReadClaim(r) \/ Resume(r) \/ Refused(r)
           \/ \E e \in Environments : Load(r, e)
  BY <1>0, <1>3, JudgeIs, FinishIs, ReadsAre, ResumeIs, RefusedIs, LoadIs
<1>4. CASE \/ Take(r) \/ Notice(r) \/ Break(r) \/ Adopt(r) \/ TakeOver(r) \/ NotEmpty(r)
           \/ Reclaim(r) \/ Make(r) \/ Hold(r) \/ NotHad(r) \/ Claim(r) \/ ClaimFails(r)
           \/ Stage(r) \/ Build(r) \/ BuildFails(r) \/ Settle(r) \/ Tear(r)
  BY <1>0, <1>4 DEF Take, Notice, Break, Adopt, TakeOver, NotEmpty, Reclaim, Make, Hold, NotHad,
              Claim, ClaimFails, Stage, Build, BuildFails, Settle, Tear, KeepLocks, Without
<1>5. CASE \/ Commit(r) \/ CommitFails(r) \/ Place(r) \/ PlaceFails(r) \/ Land(r) \/ Note(r)
           \/ UndoLink(r) \/ UndoLinkFails(r) \/ UndoSelection(r) \/ UndoSelectionFails(r)
           \/ Release(r)
  BY <1>0, <1>5 DEF Commit, CommitFails, Place, PlaceFails, Land, Note, UndoLink, UndoLinkFails,
              UndoSelection, UndoSelectionFails, Release, KeepLocks
<1>6. CASE Remove(r)
  BY <1>0, <1>6 DEF Remove, KeepLocks, Without
<1> QED
  BY <1>0, <1>1, <1>2, <1>3, <1>4, <1>5, <1>6 DEF Step, Leaves

LEMMA TypesKept ==
  ASSUME Types, [Next]_vars
  PROVE  Types'
<1>1. ASSUME NEW r \in Runs, Step(r) \/ Kill(r) PROVE Types'
  <2>1. RunsOK' /\ dirs' \in [Environments -> Dirs]
        /\ locks' \in [Environments -> LockStates(Runs)] /\ promoter' \in Runs \cup {None}
    BY <1>1, RunsTyped, DirsTyped, PromoterTyped DEF Types
  <2>2. CASE Writes(r)
    <3>1. record' \in Records /\ links' \in [Destinations -> LinksAt]
      BY <2>2, RecordIs, LinksAre
    <3>2. faults' \in Nat /\ kills' \in Nat /\ hands' \in Nat
      <4>1. (faults' = faults \/ faults' = faults + 1) /\ kills' = kills /\ hands' = hands
        BY <2>2, WritersAre
      <4>2. faults \in Nat /\ kills \in Nat /\ hands \in Nat
        BY DEF Types
      <4> QED
        BY <4>1, <4>2
    <3> QED
      BY <2>1, <3>1, <3>2 DEF Types
  <2>3. CASE ~Writes(r)
    BY <1>1, <2>1, <2>3, OthersWriteNothing DEF Types
  <2> QED
    BY <2>2, <2>3
<1>2. CASE \E d \in Destinations, t \in Environments \cup {Elsewhere, None} : HandLink(d, t)
  BY <1>2, AroundRuns DEF Types, RunsOK
<1>3. CASE UNCHANGED vars
  BY <1>3 DEF vars, Types, RunsOK
<1> QED
  BY <1>1, <1>2, <1>3 DEF Next

LEMMA TypesAtFirst ==
  ASSUME Init
  PROVE  Types
<1>1. NoDir \in Dirs /\ NoLink \in LinksAt /\ NoEntry \in Entries /\ Idle \in RunStates
  BY DEF NoDir, Dirs, NoLink, LinksAt, NoEntry, Entries, Idle, RunStates, Phases, Built, Claims
<1>2. ASSUME NEW e \in Environments
      PROVE  /\ Old(e) \in Dirs /\ Kept(e) \in Dirs /\ LinkTo(e) \in LinksAt
             /\ DestOf[e] \in Destinations /\ Entry(DestOf[e]) \in Entries
  BY InstallerAssumption
     DEF Old, Kept, NoDir, Dirs, LinkTo, LinksAt, Entry, Entries, Built, Claims
<1>3. /\ dirs \in [Environments -> Dirs] /\ links \in [Destinations -> LinksAt]
      /\ record \in Records
  <2>1. CASE Clean
    BY <1>1, <2>1 DEF Clean, Records
  <2>2. ASSUME NEW e \in Environments, Legacy(e) \/ Installed(e)
        PROVE  /\ dirs \in [Environments -> Dirs] /\ links \in [Destinations -> LinksAt]
               /\ record \in Records
    BY <1>1, <1>2, <2>2 DEF Legacy, Installed, Records
  <2> QED
    BY <2>1, <2>2 DEF Init
<1>4. RunsOK
  BY <1>1 DEF Init, RunsOK, Idle
<1>5. locks \in [Environments -> LockStates(Runs)]
  BY DEF Init, Unlocked, LockStates
<1> QED
  BY <1>3, <1>4, <1>5 DEF Init, Types

LEMMA BuildInvKept ==
  ASSUME BuildInv, [Next]_vars
  PROVE  BuildInv'
<1>0. Types'
  BY TypesKept DEF BuildInv
<1>1. ASSUME NEW r \in Runs, Step(r) \/ Kill(r) PROVE BuildInv'
  BY <1>0, <1>1, StepSpares, SparesKeeps DEF BuildInv
<1>2. ASSUME dirs' = dirs, run' = run, locks' = locks PROVE BuildInv'
  <2>1. /\ JobsAre' /\ LocksHeld' /\ InsideOnly' /\ OneWithin'
    BY <1>2 DEF BuildInv, JobsAre, LocksHeld, InsideOnly, OneWithin, InsideIs, Holding, Finishes,
                Env
  <2>2. \A r \in Runs : /\ Env(r)' = Env(r) /\ Building(r)' = Building(r) /\ Own(r)' = Own(r)
                         /\ Starts(r)' = Starts(r) /\ Begins(r)' = Begins(r)
                         /\ Threatens(r)' = Threatens(r) /\ Apart(r)' = Apart(r)
    BY <1>2 DEF Env, Building, Own, Starts, Begins, Threatens, Apart, Inside, Finishes
  <2> QED
    BY <1>0, <1>2, <2>1, <2>2 DEF BuildInv, OwnDirs, NewDirs, OwnVictims, Alone
<1> QED
  BY <1>1, <1>2, AroundRuns DEF Next, vars, BuildInv

LEMMA BuildInvAtFirst ==
  ASSUME Init
  PROVE  BuildInv
<1>1. /\ Types /\ locks = [e \in Environments |-> Unlocked]
      /\ \A r \in Runs : run[r].phase = "idle" /\ run[r].job = "install" /\ run[r].victim = None
  BY TypesAtFirst DEF Init, Idle
<1> QED
  BY <1>1 DEF BuildInv, JobsAre, LocksHeld, InsideOnly, OneWithin, OwnDirs, NewDirs, OwnVictims,
              Alone, Holding, Building, Starts, Finishes, Deciding, Wholes, Unlocked

\* What Installer keeps is of its kinds, whatever is killed, fails, or is moved by hand.
THEOREM TypeCorrect == Spec => []TypeOK
<1>1. Init => BuildInv
  BY BuildInvAtFirst
<1>2. BuildInv /\ [Next]_vars => BuildInv'
  BY BuildInvKept
<1>3. BuildInv => TypeOK
  BY DEF BuildInv, Types, TypeOK, Dirs, LinksAt, Records, Entries, Built, Claims
<1> QED
  BY <1>1, <1>2, <1>3, PTL DEF Spec

\* Nobody takes a directory from under the run that builds in it (runtime_install.install and
\* staging.decide), whatever the runs of the same sources find there and wherever they die, as
\* long as no two of them were let into the lock of its name at once.
THEOREM BuildsAreOwn == Spec => []BuildIsItsOwn
<1>1. Init => BuildInv
  BY BuildInvAtFirst
<1>2. BuildInv /\ [Next]_vars => BuildInv'
  BY BuildInvKept
<1>3. BuildInv => BuildIsItsOwn
  <2> SUFFICES ASSUME BuildInv, NEW r \in Runs, run[r].job = "install", Env(r) \notin Crossed,
                      run[r].phase \in {"stage", "build", "ready", "commit", "place", "placed",
                                        "settle"}
               PROVE  LET d == dirs[Env(r)] IN
                      /\ d.by = r /\ d.held = r /\ d.claim = "STAGING" /\ ~d.torn
                      /\ d.built = CASE At(r, "stage") -> "none"
                                     [] At(r, "build") -> "part"
                                     [] OTHER -> "whole"
    BY DEF BuildIsItsOwn
  <2>1. Building(r) /\ Env(r) \in Environments
    BY Workplace DEF BuildInv, Building, Wholes
  <2>2. Apart(r)
    BY <2>1 DEF Crossed, Apart
  <2>3. Own(r)
    BY <2>1, <2>2 DEF BuildInv, OwnDirs
  <2> QED
    BY <2>3 DEF Own, At, Wholes
<1> QED
  BY <1>1, <1>2, <1>3, PTL DEF Spec
-----------------------------------------------------------------------------
(***************************************************************************)
(* Rolling back.                                                           *)
(***************************************************************************)
Promoting == {"commit", "note", "place", "placed", "undo link", "undo entry", "undo selection"}

Undoing == {"undo link", "undo entry", "undo selection", "failing", "remove"}

\* Between Judge or Finish and the end of it the promotion lock is one run's, who keeps it while
\* it fails within.
OnePromotes ==
  \A r \in Runs :
    /\ run[r].phase \in Promoting => promoter = r
    /\ promoter = r => run[r].phase \in Promoting \cup {"failing", "remove"}

\* How far the promotion of r, or the way back from it, has come.
Found(r)  == record.selected = run[r].prev /\ record.pointer = run[r].found
Chosen(r) == record.selected = Env(r) /\ record.pointer = Entry(run[r].path)

Stands(r) ==
  LET link == links[run[r].path] seen == run[r].before phase == run[r].phase IN
  /\ phase = "commit" => Found(r) /\ link = seen
  /\ phase = "note" => record.selected = Env(r) /\ record.pointer = run[r].found /\ link = seen
  /\ phase \in {"place", "placed", "undo link", "undo entry"} => Chosen(r)
  /\ phase = "place" => link = seen
  /\ phase = "placed" => link = LinkTo(Env(r))
  /\ phase = "undo link" => link \in {seen, LinkTo(Env(r))}
  /\ phase = "undo selection" => record.selected = Env(r)

\* With one failure, everything that was gone through on the way back is as it was.
Restored(r) ==
  LET phase == run[r].phase IN
  /\ phase \in Undoing => faults >= 1
  /\ faults = 1 =>
       /\ phase \in Undoing \ {"undo link"} => links[run[r].path].to = run[r].before.to
       /\ phase = "undo entry" => run[r].settled
       /\ phase \in {"undo selection", "failing", "remove"} => record.pointer = EntryBack(r)
       /\ phase \in {"failing", "remove"} => record.selected = run[r].prev

InPromotion(r) == hands = 0 /\ promoter = r

BackInv == BuildInv /\ OnePromotes /\ \A r \in Runs : InPromotion(r) => Stands(r) /\ Restored(r)

\* Whoever is not the promoter writes nothing a promoter looks at.
LEMMA OnlyThePromoter ==
  ASSUME BackInv, NEW r \in Runs, Step(r) \/ Kill(r), promoter # r
  PROVE  /\ KeepsSelection /\ links' = links /\ hands' = hands /\ faults \in Nat
         /\ faults' = faults \/ faults' = faults + 1
<1>1. ~Writes(r)
  BY WritersAre DEF BackInv, BuildInv, OnePromotes, Promoting
<1> QED
  BY <1>1, OthersWriteNothing DEF BackInv, BuildInv, Types

\* What a step makes of the promotion lock.
PassesLock(r) ==
  /\ \A q \in Runs : q # r => run'[q] = run[q]
  /\ run'[r].phase \in Promoting => promoter' = r
  /\ promoter' = r => run'[r].phase \in Promoting \cup {"failing", "remove"}
  /\ \A q \in Runs : q # r => (promoter' = q <=> promoter = q)

LEMMA GivenBack ==
  ASSUME BackInv, NEW r \in Runs, \A q \in Runs : q # r => run'[q] = run[q],
         run'[r].phase \notin Promoting,
         promoter' = Without(promoter, r) \/ (promoter' = None /\ promoter = r)
           \/ (promoter' = promoter /\ run[r].phase \notin Promoting \cup {"failing", "remove"})
  PROVE  PassesLock(r)
<1>1. r # None /\ \A q \in Runs : q # None
  BY InstallerAssumption
<1> QED
  BY <1>1 DEF PassesLock, Without, BackInv, OnePromotes

LEMMA TearIs ==
  ASSUME RunsOK, NEW r \in Runs, Tear(r)
  PROVE  /\ run[r].phase \in {"reclaim", "remove"}
         /\ \A q \in Runs : q # r => run'[q] = run[q]
         /\ run'[r] = [run[r] EXCEPT !.victim = dirs[Env(r)].by]
         /\ run'[r].phase = run[r].phase /\ SameJob(r) /\ SameFinds(r)
         /\ run'[r].settled = run[r].settled /\ run'[r].known = run[r].known
         /\ UNCHANGED <<links, record, promoter, locks, promoted, reclaimed, kills, faults, hands>>
<1>1. /\ run'[r] = [run[r] EXCEPT !.victim = dirs[Env(r)].by] /\ run[r] \in RunStates
      /\ \A q \in Runs : q # r => run'[q] = run[q]
  BY DEF RunsOK, Tear
<1> QED
  BY <1>1 DEF Tear, SameJob, SameFinds, RunStates, KeepLinks, KeepRecord, KeepLocks, KeepPast,
              KeepBounds

LEMMA LockPassed ==
  ASSUME BackInv, NEW r \in Runs, Step(r) \/ Kill(r)
  PROVE  PassesLock(r)
<1>0. Types /\ \A q \in Runs : q # r => run'[q] = run[q]
  BY StepSpares DEF BackInv, BuildInv, Spares
<1>1. ASSUME Ends(r) PROVE PassesLock(r)
  BY <1>0, <1>1, GivenBack DEF Ends, Moves, Promoting
<1>2. CASE Leaves(r)
  BY <1>0, <1>1, <1>2, LeavesIs
<1>3. CASE Judge(r) \/ Finish(r)
  <2>1. promoter = None /\ promoter' = r /\ run'[r].phase \in Promoting
    BY <1>0, <1>3, JudgeIs, FinishIs DEF Plain, Moves, Promoting
  <2> QED
    BY <1>0, <2>1, InstallerAssumption DEF PassesLock
<1>4. ASSUME run[r].phase \in Promoting \cup {"failing", "remove"}, promoter' = promoter,
             promoter = r \/ run'[r].phase \notin Promoting,
             run'[r].phase \in Promoting \cup {"failing", "remove"}
      PROVE  PassesLock(r)
  BY <1>0, <1>4 DEF PassesLock, BackInv, OnePromotes
<1>5. CASE Commit(r) \/ Note(r) \/ Place(r) \/ PlaceFails(r) \/ Land(r)
  <2>1. /\ run[r].phase \in Promoting /\ promoter = r
        /\ \/ run'[r].phase \in Promoting /\ promoter' = promoter
           \/ run'[r].phase = "settle" /\ promoter' = None
    BY <1>0, <1>5, NextPhase
       DEF Plain, Moves, Promoting, Commit, Note, Place, PlaceFails, Land, KeepLocks, BackInv,
           OnePromotes
  <2> QED
    BY <1>0, <1>4, <2>1, GivenBack DEF Promoting
<1>6. CASE SettleFails(r)
  <2>1. CASE Plain(r, {"settle"}, "failing") /\ UNCHANGED promoter
    BY <1>0, <2>1, GivenBack DEF Plain, Moves, Promoting
  <2> QED
    BY <1>0, <1>1, <1>6, <2>1, SettleFailsIs
<1>7. CASE UndoEntry(r) \/ UndoEntryFails(r)
  <2>1. CASE Plain(r, {"undo entry"}, "undo selection") /\ UNCHANGED promoter
    BY <1>4, <2>1 DEF Plain, Moves, Promoting, BackInv, OnePromotes
  <2> QED
    BY <1>0, <1>1, <1>7, <2>1, UndoEntryIs
<1>8. CASE UndoLink(r) \/ UndoLinkFails(r)
  BY <1>0, <1>4, <1>8, UndoLinkIs DEF Plain, Moves, Promoting, BackInv, OnePromotes
<1>9. CASE CommitFails(r) \/ UndoSelection(r) \/ UndoSelectionFails(r)
  <2>1. /\ run[r].phase \in Promoting /\ promoter = r /\ run'[r].phase = "failing"
        /\ promoter' = promoter \/ promoter' = None
    BY <1>0, <1>9, FailsIs
       DEF Plain, Moves, Promoting, CommitFails, UndoSelection, UndoSelectionFails, KeepLocks, At,
           BackInv, OnePromotes
  <2> QED
    BY <1>0, <1>4, <2>1, GivenBack DEF Promoting
<1>10. CASE Release(r)
  BY <1>0, <1>4, <1>10, TakingAwayIs DEF Plain, Moves, Promoting
<1>11. CASE Tear(r)
  <2>1. /\ run'[r].phase = run[r].phase /\ run[r].phase \notin Promoting /\ promoter' = promoter
    BY <1>0, <1>11, TearIs DEF Promoting, Types
  <2> QED
    BY <1>0, <2>1 DEF PassesLock, BackInv, OnePromotes
<1>12. CASE Kill(r) \/ Remove(r) \/ NotEmpty(r)
  <2>1. RunsOK /\ {"dead", "over"} \subseteq Phases
    BY <1>0 DEF Types, Phases
  <2>2. CASE Kill(r) \/ NotEmpty(r)
    <3>1. run[r].phase # "idle" /\ run'[r].phase \in {"dead", "over"}
          /\ promoter' = Without(promoter, r)
      BY <2>1, <2>2, ToIs DEF Kill, NotEmpty, Living, Moves, At
    <3> QED
      BY <1>0, <3>1, GivenBack DEF Promoting
  <2>3. CASE Remove(r)
    <3>1. \/ run'[r].phase = "over" /\ promoter' = Without(promoter, r)
          \/ run[r].phase = "reclaim" /\ run'[r].phase = "make" /\ promoter' = promoter
      BY <2>1, <2>3, RemoveIs DEF Moves, At
    <3> QED
      BY <1>0, <3>1, GivenBack DEF Promoting
  <2> QED
    BY <1>12, <2>2, <2>3
<1>13. CASE \/ Probe(r) \/ ReadClaim(r) \/ Notice(r) \/ Resume(r) \/ Refused(r) \/ Reclaim(r)
            \/ \E e \in Environments : Load(r, e)
  <2>1. /\ run[r].phase \notin Promoting \cup {"failing", "remove"} /\ promoter' = promoter
        /\ run'[r].phase \notin Promoting
    BY <1>0, <1>13, ReadsAre, NoticeIs, ResumeIs, RefusedIs, TakingAwayIs, LoadIs
       DEF Plain, Moves, Promoting
  <2> QED
    BY <1>0, <2>1, GivenBack
<1>14. CASE \/ Take(r) \/ Break(r) \/ Adopt(r) \/ TakeOver(r) \/ Make(r) \/ Hold(r) \/ Claim(r)
            \/ Stage(r) \/ Build(r) \/ Settle(r)
  <2> DEFINE after == {"found", "loaded", "adopt", "make", "hold", "claim", "stage", "build",
                       "ready", "over"}
  <2>1. RunsOK /\ run[r].phase \in {"loaded", "old", "read", "adopt", "make", "hold", "claim",
                                    "stage", "build", "settle"}
    BY <1>0, <1>14 DEF Take, Break, Adopt, TakeOver, Make, Hold, Claim, Stage, Build, Settle, At,
                       Types
  <2>2. \E phase \in after : To(r, phase)
    BY <1>14 DEF Take, Break, Adopt, TakeOver, Make, Hold, Claim, Stage, Build, Settle
  <2>3. run'[r].phase \in after
    BY <2>1, <2>2, ToIs DEF Phases, Moves
  <2>4. promoter' = promoter
    BY <1>14 DEF Take, Break, Adopt, TakeOver, Make, Hold, Claim, Stage, Build, Settle, KeepLocks
  <2> QED
    BY <1>0, <2>1, <2>3, <2>4, GivenBack DEF Promoting
<1>15. CASE NotHad(r) \/ ClaimFails(r) \/ BuildFails(r)
  <2>1. run[r].phase \in {"hold", "claim", "stage", "build", "ready"} /\ promoter' = promoter
        /\ run'[r].phase = "failing"
    BY <1>0, <1>15, FailsIs DEF NotHad, ClaimFails, BuildFails, KeepLocks, Plain, Moves, At
  <2> QED
    BY <1>0, <2>1, GivenBack DEF Promoting
<1> QED
  BY <1>2, <1>3, <1>5, <1>6, <1>7, <1>8, <1>9, <1>10, <1>11, <1>12, <1>13, <1>14, <1>15
     DEF Step, Leaves

LEMMA FaultIs ==
  ASSUME faults \in Nat, Fault
  PROVE  faults' >= 1 /\ (faults >= 1 => faults' # 1)
BY DEF Fault

\* What the promoter does on the way there.
LEMMA PromotionGoesOn ==
  ASSUME BackInv, NEW r \in Runs, InPromotion(r)', promoter = r => InPromotion(r),
         \/ Judge(r) \/ Commit(r) \/ Finish(r) \/ Note(r)
         \/ Place(r) \/ PlaceFails(r) \/ Land(r),
         promoter' = r
  PROVE  Stands(r)' /\ Restored(r)'
<1>0. Types /\ faults \in Nat /\ r # None
  BY InstallerAssumption DEF BackInv, BuildInv, Types
<1>1. CASE Judge(r)
  <2>1. /\ run'[r].phase = "commit" /\ run'[r].prev = record.selected
        /\ run'[r].found = record.pointer /\ run'[r].before = links[run'[r].path]
        /\ links' = links /\ record' = record
    BY <1>0, <1>1, JudgeIs DEF Plain, Moves
  <2> QED
    BY <2>1 DEF Stands, Restored, Found, Undoing
<1>3. CASE Finish(r)
  <2>1. /\ run'[r].phase = "note" /\ run'[r].found = record.pointer /\ run'[r].env = Env(r)
        /\ run'[r].path = run[r].path /\ run'[r].before = links[run[r].path]
        /\ links' = links /\ record' = record /\ record.selected = Env(r)
    BY <1>0, <1>3, FinishIs DEF Plain, Moves, SameJob, Env, Finish, Finishable
  <2> QED
    BY <2>1 DEF Stands, Restored, Undoing, Env
<1>2. CASE Commit(r) \/ Note(r) \/ Place(r) \/ PlaceFails(r) \/ Land(r)
  <2>0. promoter = r /\ InPromotion(r)
    BY <1>2 DEF BackInv, OnePromotes, Commit, Note, Place, PlaceFails, Land, At, Promoting
  <2>1. /\ Stands(r) /\ Restored(r) /\ run'[r].path = run[r].path /\ run'[r].env = Env(r)
        /\ run'[r].prev = run[r].prev /\ run'[r].found = run[r].found
        /\ run'[r].before = run[r].before /\ run[r].path \in Destinations
    BY <1>0, <1>2, <2>0, NextPhase, FieldsOfRun
       DEF BackInv, SameFinds, Plain, SameJob, Env, Commit, Note, Place, PlaceFails, Land, At, Types
  <2>2. CASE Commit(r)
    <3>1. /\ run[r].phase = "commit" /\ run'[r].phase = "place" /\ links' = links
          /\ record'.selected = Env(r) /\ record'.pointer = Entry(run[r].path)
      BY <1>0, <2>2, NextPhase, RecordIs, LinksAre DEF Plain, Moves, Writes, Commit, At
    <3> QED
      BY <2>1, <3>1 DEF Stands, Restored, Chosen, Undoing, Env
  <2>6. CASE Note(r)
    <3>1. /\ run[r].phase = "note" /\ run'[r].phase = "place" /\ links' = links
          /\ record' = [record EXCEPT !.pointer = Entry(run[r].path)]
      BY <1>0, <2>6, NextPhase DEF Plain, Moves, Note, At, KeepLinks
    <3>2. record'.selected = record.selected /\ record'.pointer = Entry(run[r].path)
      BY <1>0, <3>1 DEF Types, Records
    <3> QED
      BY <2>1, <3>1, <3>2 DEF Stands, Restored, Chosen, Undoing, Env
  <2>3. CASE Place(r)
    <3>1. /\ run[r].phase = "place" /\ run'[r].phase = "placed" /\ record' = record
          /\ links'[run[r].path] = LinkTo(Env(r))
      BY <1>0, <2>3, NextPhase, RecordIs, LinksAre DEF Plain, Moves, Writes, Place, At
    <3> QED
      BY <2>1, <3>1 DEF Stands, Restored, Chosen, Undoing, Env
  <2>4. CASE PlaceFails(r)
    <3>1. /\ run[r].phase = "place" /\ run'[r].phase = "undo link" /\ record' = record
          /\ links'[run[r].path] \in {links[run[r].path], LinkTo(Env(r))}
      BY <1>0, <2>4, NextPhase, RecordIs, LinksAre DEF Plain, Moves, Writes, PlaceFails, At
    <3>2. faults' >= 1
      BY <1>0, <2>4, FaultIs DEF PlaceFails
    <3>3. Stands(r)'
      BY <2>1, <3>1 DEF Stands, Chosen, Env
    <3>4. Restored(r)'
      BY <3>1, <3>2 DEF Restored
    <3> QED
      BY <3>3, <3>4
  <2>5. CASE Land(r)
    <3>0. links[run[r].path] = LinkTo(Env(r))
      BY <2>1, <2>5 DEF Stands, Land, At
    <3>1. Names(run[r].path, Env(r))
      BY <3>0 DEF Names, LinkTo
    <3> QED
      BY <1>0, <2>5, <3>1 DEF Land
  <2> QED
    BY <1>2, <2>2, <2>3, <2>4, <2>5, <2>6
<1> QED
  BY <1>1, <1>2, <1>3

\* And on the way back.
LEMMA PromotionGoesBack ==
  ASSUME BackInv, NEW r \in Runs, InPromotion(r), promoter' = r,
         \/ UndoLink(r) \/ UndoLinkFails(r) \/ UndoEntry(r) \/ UndoEntryFails(r)
         \/ UndoSelection(r) \/ UndoSelectionFails(r) \/ Release(r)
  PROVE  Stands(r)' /\ Restored(r)'
<1>0. Types /\ faults \in Nat /\ r # None /\ Stands(r) /\ Restored(r) /\ RunsOK
  BY InstallerAssumption DEF BackInv, BuildInv, Types
<1>1. CASE UndoLink(r) \/ UndoLinkFails(r)
  <2>1. /\ run[r].phase = "undo link" /\ run'[r].phase = "undo entry" /\ record' = record
        /\ run'[r].path = run[r].path /\ run'[r].env = Env(r)
        /\ run'[r].before = run[r].before
        /\ UndoLink(r) => run'[r].settled = (run[r].before.to # None \/ LinkBack(r).to = None)
    BY <1>0, <1>1, UndoLinkIs
       DEF SameFinds, Plain, Moves, SameJob, Env, UndoLink, UndoLinkFails, At
  <2>2. Chosen(r)' /\ faults >= 1
    BY <1>0, <2>1 DEF Stands, Restored, Chosen, Undoing, Env
  <2>3. CASE UndoLink(r)
    <3>1. links'[run[r].path] = LinkBack(r) /\ faults' = faults
      BY <1>0, <2>3, LinksAre DEF Writes, UndoLink, KeepBounds
    <3>a. links[run[r].path] \in {run[r].before, LinkTo(Env(r))}
      BY <1>0, <2>1 DEF Stands
    <3>2. LinkBack(r).to = run[r].before.to
      BY <3>a DEF LinkBack, Names, LinkTo, NoLink
    <3> QED
      BY <1>0, <2>1, <2>2, <2>3, <3>1, <3>2 DEF Stands, Restored, Undoing
  <2>4. CASE UndoLinkFails(r)
    <3>1. faults' >= 1 /\ faults' # 1
      BY <1>0, <2>2, <2>4, FaultIs DEF UndoLinkFails
    <3>2. Stands(r)'
      BY <2>1, <2>2 DEF Stands
    <3>3. Restored(r)'
      BY <3>1 DEF Restored
    <3> QED
      BY <3>2, <3>3
  <2> QED
    BY <1>1, <2>3, <2>4
<1>2. CASE UndoEntry(r) \/ UndoEntryFails(r)
  <2>0. ~Ends(r)
    BY <1>0 DEF Ends, Without
  <2>1. /\ run[r].phase = "undo entry" /\ run'[r].phase = "undo selection" /\ links' = links
        /\ run'[r].path = run[r].path /\ run'[r].env = Env(r)
        /\ run'[r].before = run[r].before /\ run'[r].found = run[r].found
    BY <1>0, <1>2, <2>0, UndoEntryIs
       DEF SameFinds, Plain, Moves, SameJob, Env, UndoEntry, UndoEntryFails, KeepLinks
  <2>2. Chosen(r) /\ faults >= 1 /\ EntryBack(r)' = EntryBack(r)
    BY <1>0, <2>1 DEF Stands, Restored, Undoing, EntryBack
  <2>3. CASE UndoEntry(r)
    <3>1. /\ record'.selected = record.selected /\ faults' = faults
          /\ run[r].settled /\ record.pointer.path = run[r].path
               => record'.pointer = EntryBack(r)
      BY <1>0, <2>3, RecordIs DEF Writes, UndoEntry, KeepBounds
    <3>2. record.pointer.path = run[r].path
      BY <2>2 DEF Chosen, Entry
    <3> QED
      BY <1>0, <2>1, <2>2, <3>1, <3>2 DEF Stands, Restored, Undoing, Chosen, Env
  <2>4. CASE UndoEntryFails(r)
    <3>1. faults' >= 1 /\ faults' # 1
      BY <1>0, <2>2, <2>4, FaultIs DEF UndoEntryFails
    <3>2. record'.selected = record.selected
      BY <1>0, <2>4, RecordIs DEF Writes
    <3>3. Stands(r)'
      BY <2>1, <2>2, <3>2 DEF Stands, Chosen, Env
    <3>4. Restored(r)'
      BY <3>1 DEF Restored
    <3> QED
      BY <3>3, <3>4
  <2> QED
    BY <1>2, <2>3, <2>4
<1>3. CASE UndoSelection(r)
  <2>1. /\ run[r].phase = "undo selection" /\ run'[r].phase = "failing" /\ links' = links
        /\ run'[r].path = run[r].path /\ run'[r].prev = run[r].prev
        /\ run'[r].before = run[r].before /\ run'[r].found = run[r].found
        /\ faults' = faults
    BY <1>0, <1>3, FailsIs
       DEF SameFinds, Plain, Moves, UndoSelection, At, KeepLinks, KeepBounds
  <2>2. /\ record.selected = Env(r) => record'.selected = run[r].prev
        /\ record'.pointer = record.pointer
    BY <1>0, <1>3, RecordIs DEF Writes
  <2>3. record.selected = Env(r) /\ faults >= 1 /\ EntryBack(r)' = EntryBack(r)
    BY <1>0, <2>1 DEF Stands, Restored, Undoing, EntryBack
  <2> QED
    BY <1>0, <2>1, <2>2, <2>3 DEF Stands, Restored, Undoing
<1>4. CASE UndoSelectionFails(r)
  BY <1>0, <1>4 DEF UndoSelectionFails
<1>5. CASE Release(r)
  <2>1. /\ run[r].phase = "failing" /\ run'[r].phase = "remove" /\ links' = links
        /\ run'[r].path = run[r].path /\ run'[r].prev = run[r].prev
        /\ run'[r].before = run[r].before /\ run'[r].found = run[r].found
        /\ faults' = faults
    BY <1>0, <1>5, TakingAwayIs DEF SameFinds, Plain, Moves, Release, At
  <2>2. KeepsSelection
    BY <1>0, <1>5, OthersWriteNothing DEF Step, Writes, Release, Commit, CommitFails, Place,
       PlaceFails, Note, NoteFails, UndoLink, UndoEntry, UndoEntryFails, UndoSelection,
       UndoSelectionFails, At
  <2>3. EntryBack(r)' = EntryBack(r)
    BY <2>1 DEF EntryBack
  <2> QED
    BY <1>0, <2>1, <2>2, <2>3 DEF Stands, Restored, Undoing, KeepsSelection
<1> QED
  BY <1>1, <1>2, <1>3, <1>4, <1>5

LEMMA PromotionIs ==
  ASSUME BackInv, NEW r \in Runs, Step(r) \/ Kill(r), InPromotion(r)'
  PROVE  Stands(r)' /\ Restored(r)'
<1>0. /\ Types /\ promoter' = r /\ r # None /\ hands' = hands /\ hands' = 0
  <2>1. hands' = hands
    BY WritersAre, OthersWriteNothing DEF BackInv, BuildInv
  <2> QED
    BY <2>1, InstallerAssumption DEF InPromotion, BackInv, BuildInv
<1>1. ~Ends(r) /\ ~Kill(r)
  BY <1>0 DEF Ends, Kill, Without
<1>2. CASE Finish(r) \/ Judge(r)
  <2>1. promoter # r
    BY <1>0, <1>2 DEF Finish, Judge
  <2> QED
    BY <1>0, <1>2, <2>1, PromotionGoesOn
<1>4. CASE ~Finish(r) /\ ~Judge(r)
  <2>1. promoter = r /\ run[r].phase \in Promoting \cup {"failing", "remove"}
    BY <1>0, <1>4, PromoterTyped DEF BackInv, OnePromotes
  <2>2. InPromotion(r)
    BY <1>0, <2>1 DEF InPromotion
  <2>3. CASE Commit(r) \/ Note(r) \/ Place(r) \/ PlaceFails(r) \/ Land(r)
    BY <1>0, <2>2, <2>3, PromotionGoesOn
  <2>4. CASE \/ UndoLink(r) \/ UndoLinkFails(r) \/ UndoEntry(r) \/ UndoEntryFails(r)
             \/ UndoSelection(r) \/ UndoSelectionFails(r) \/ Release(r)
    BY <1>0, <2>2, <2>4, PromotionGoesBack
  <2>5. CASE Tear(r)
    <3>1. /\ run'[r].phase = run[r].phase /\ SameJob(r) /\ SameFinds(r)
          /\ run'[r].settled = run[r].settled
          /\ links' = links /\ record' = record /\ faults' = faults
      BY <1>0, <2>5, TearIs DEF Types
    <3>2. Stands(r) /\ Restored(r)
      BY <1>0, <2>2 DEF BackInv
    <3>3. EntryBack(r)' = EntryBack(r) /\ Env(r)' = Env(r)
      BY <3>1 DEF EntryBack, SameFinds, SameJob, Env
    <3> QED
      BY <3>1, <3>2, <3>3 DEF Stands, Restored, Found, Chosen, SameFinds
  <2>7. ~Leaves(r) /\ ~CommitFails(r) /\ ~SettleFails(r)
    <3>2. ~Leaves(r) /\ ~CommitFails(r)
      BY <1>0, <1>1, LeavesIs DEF CommitFails
    <3>3. ~SettleFails(r)
      BY <2>1 DEF SettleFails, At, Promoting
    <3> QED
      BY <3>2, <3>3
  <2>8. ~Remove(r) /\ ~NotEmpty(r)
    BY <1>0, <2>1, RemoveIs DEF NotEmpty, Types, Without, At, Promoting
  <2>9. /\ ~Take(r) /\ ~Notice(r) /\ ~Break(r) /\ ~Probe(r) /\ ~ReadClaim(r) /\ ~Resume(r)
        /\ ~Adopt(r) /\ ~TakeOver(r) /\ ~Reclaim(r) /\ ~Make(r) /\ ~Hold(r) /\ ~NotHad(r)
        /\ ~Claim(r) /\ ~ClaimFails(r) /\ ~Stage(r) /\ ~Build(r) /\ ~BuildFails(r)
        /\ ~Refused(r) /\ ~Settle(r) /\ ~\E e \in Environments : Load(r, e)
    BY <2>1 DEF Take, Notice, Break, Probe, ReadClaim, Resume, Adopt, TakeOver, Reclaim, Make, Hold,
       NotHad, Claim, ClaimFails, Stage, Build, BuildFails, Refused, Settle, Load, At, Promoting
  <2> QED
    BY <1>1, <1>4, <2>3, <2>4, <2>5, <2>7, <2>8, <2>9 DEF Step, Leaves
<1> QED
  BY <1>2, <1>4

LEMMA BackInvKept ==
  ASSUME BackInv, [Next]_vars
  PROVE  BackInv'
<1>0. BuildInv' /\ BuildInv /\ Types /\ hands \in Nat
  BY BuildInvKept DEF BackInv, BuildInv, Types
<1>1. ASSUME NEW r \in Runs, Step(r) \/ Kill(r) PROVE BackInv'
  <2>1. PassesLock(r)
    BY <1>1, LockPassed
  <2>2. OnePromotes'
    BY <2>1 DEF PassesLock, BackInv, OnePromotes
  <2>3. ASSUME NEW q \in Runs, InPromotion(q)' PROVE Stands(q)' /\ Restored(q)'
    <3>1. CASE q = r
      BY <1>1, <2>3, <3>1, PromotionIs
    <3>2. CASE q # r
      <4>1. run'[q] = run[q] /\ promoter = q /\ promoter # r
        BY <2>1, <2>3, <3>2 DEF PassesLock, InPromotion
      <4>2. /\ KeepsSelection /\ links' = links /\ hands' = hands /\ faults \in Nat
            /\ faults' = faults \/ faults' = faults + 1
        BY <1>1, <4>1, OnlyThePromoter
      <4>3. Stands(q) /\ Restored(q)
        BY <2>3, <4>1, <4>2 DEF InPromotion, BackInv
      <4>4. Stands(q)'
        BY <4>1, <4>2, <4>3 DEF Stands, Found, Chosen, Env, KeepsSelection
      <4>5. /\ faults >= 1 => faults' >= 1
            /\ faults >= 1 /\ faults' = 1 => faults = 1
        BY <4>2
      <4>6. EntryBack(q)' = EntryBack(q)
        BY <4>1 DEF EntryBack
      <4>7. Restored(q)'
        BY <4>1, <4>2, <4>3, <4>5, <4>6 DEF Restored, Undoing, KeepsSelection
      <4> QED
        BY <4>4, <4>7
    <3> QED
      BY <3>1, <3>2
  <2> QED
    BY <1>0, <2>2, <2>3 DEF BackInv
<1>2. ASSUME NEW d \in Destinations, NEW t \in Environments \cup {Elsewhere, None}, HandLink(d, t)
      PROVE  BackInv'
  <2>1. /\ run' = run /\ promoter' = promoter /\ hands' # 0
    BY <1>0, <1>2, AroundRuns
  <2> QED
    BY <1>0, <2>1 DEF BackInv, OnePromotes, InPromotion
<1>3. CASE UNCHANGED vars
  BY <1>0, <1>3 DEF vars, BackInv, OnePromotes, InPromotion, Stands, Restored, Found, Chosen, Env,
                    EntryBack
<1> QED
  BY <1>1, <1>2, <1>3 DEF Next

LEMMA BackInvAtFirst ==
  ASSUME Init
  PROVE  BackInv
<1>1. BuildInv /\ promoter = None /\ \A r \in Runs : run[r].phase = "idle"
  BY BuildInvAtFirst DEF Init, Idle
<1> QED
  BY <1>1, InstallerAssumption DEF BackInv, OnePromotes, InPromotion, Promoting

LEMMA BackIsAsFound ==
  ASSUME BackInv
  PROVE  LeftAsFound
<1> SUFFICES ASSUME NEW r \in Runs, run[r].phase \in {"failing", "remove"}, promoter = r,
                    faults <= 1, hands = 0
             PROVE  /\ record.selected = run[r].prev
                    /\ links[run[r].path].to = run[r].before.to
                    /\ record.pointer.placed => links[run[r].path].to # None
                    /\ WithoutPlacement(record.pointer) = WithoutPlacement(run[r].found)
  BY DEF LeftAsFound
<1>1. run[r] \in RunStates /\ faults \in Nat /\ run[r].found \in Entries
  BY FieldsOfRun DEF BackInv, BuildInv, Types, RunStates
<1>3. Restored(r)
  BY DEF BackInv, InPromotion
<1>4. faults >= 1
  BY <1>3 DEF Restored, Undoing
<1>5. faults = 1
  BY <1>1, <1>4
<1>6. /\ links[run[r].path].to = run[r].before.to /\ record.pointer = EntryBack(r)
      /\ record.selected = run[r].prev
  BY <1>3, <1>5 DEF Restored, Undoing
<1>7. /\ WithoutPlacement(run[r].found).placed = FALSE
      /\ WithoutPlacement(WithoutPlacement(run[r].found)) = WithoutPlacement(run[r].found)
  BY <1>1 DEF WithoutPlacement, Entries
<1> QED
  BY <1>6, <1>7 DEF EntryBack

\* A promotion that failed once and was rolled back (_restore_pointer, _restore_selection) leaves
\* the selection, the entry and the link as it found them, and vouches for no link that is not
\* there, whatever other runs do meanwhile and wherever they die.
THEOREM RolledBack == Spec => []LeftAsFound
<1>1. Init => BackInv
  BY BackInvAtFirst
<1>2. BackInv /\ [Next]_vars => BackInv'
  BY BackInvKept
<1>3. BackInv => LeftAsFound
  BY BackIsAsFound
<1> QED
  BY <1>1, <1>2, <1>3, PTL DEF Spec
-----------------------------------------------------------------------------
(***************************************************************************)
(* What is reached.                                                        *)
(***************************************************************************)
Whole(e) == dirs[e].there /\ dirs[e].built = "whole" /\ ~dirs[e].torn

\* At path d there is a link to e that a run placed.
Linked(d, e) == links[d] = LinkTo(e)

BeforeUndo == {"commit", "note", "place", "placed", "undo link"}

\* What the promotion of r found, and goes back to if it fails: a link, a selection.
Recalls(r, e)  == promoter = r /\ run[r].phase \in BeforeUndo /\ run[r].before = LinkTo(e)
Restores(r, e) == /\ promoter = r /\ run[r].phase \in Promoting /\ run[r].job = "install"
                  /\ run[r].prev = e

\* A host reaches e, or may come to reach it without another build.
Counts(e) == \/ record.selected = e
             \/ \E d \in Destinations : Linked(d, e)
             \/ \E r \in Runs : Recalls(r, e) \/ Restores(r, e)

\* What no run took away although it was reached, nor two runs met at.
Spared == Environments \ (reclaimed \cup Crossed)

CountsWhole == \A e \in Spared : Counts(e) => Whole(e)

\* No removal is under way at what counts, but of another directory of its name.
NoneTakes ==
  \A e \in Spared, q \in Runs :
    Counts(e) /\ Env(q) = e
    => run[q].phase # "reclaim" /\ (run[q].phase = "remove" => dirs[e].by # q)

InPast ==
  \A e \in Environments :
    (\E d \in Destinations : Linked(d, e)) \/ (\E r \in Runs : Recalls(r, e)) => e \in promoted

ChosenOnes ==
  \A r \in Runs : run[r].phase \in Promoting \ {"commit"} => record.selected = Env(r)

Nowhere(e) == (\A d \in Destinations : ~Linked(d, e)) /\ (\A q \in Runs : ~Recalls(q, e))

OnlyAt(e, path) ==
  /\ \A d \in Destinations : Linked(d, e) => d = path
  /\ \A q \in Runs : Recalls(q, e) => run[q].path = path

\* Until it places its link there is none to what a run built.
Unlinked ==
  \A r \in Runs :
    /\ Env(r) \in Spared /\ run[r].job = "install"
    /\ run[r].phase \in {"ready", "commit", "place"}
    => Nowhere(Env(r))

\* Past the placing, or failed, and the directory is still the one it built in.
AtPath(r) ==
  /\ Building(r)
  /\ run[r].phase \in {"placed", "settle", "undo link", "undo entry", "undo selection", "failing"}

\* Afterwards there is none but at its path.
LinkedAtPath ==
  \A r \in Runs : Env(r) \in Spared /\ AtPath(r) => OnlyAt(Env(r), run[r].path)

Reaches ==
  CountsWhole /\ NoneTakes /\ InPast /\ ChosenOnes /\ Unlinked /\ LinkedAtPath

ReachInv == BackInv /\ Reaches


\* What a step of r may come to, and by which action.
Comes(r) ==
  LET phase == run'[r].phase IN
  /\ phase = "ready" => Build(r)
  /\ phase = "commit" => Judge(r)
  /\ phase = "note" => Finish(r)
  /\ phase = "place" => Commit(r) \/ Note(r)
  /\ phase = "placed" => Place(r)
  /\ phase = "settle" => Land(r)
  /\ phase = "undo link" => PlaceFails(r) \/ Land(r)
  /\ phase = "undo entry" => UndoLink(r) \/ UndoLinkFails(r)
  /\ phase = "undo selection" => UndoEntry(r) \/ UndoEntryFails(r)
  /\ phase = "failing" => \/ NotHad(r) \/ ClaimFails(r) \/ BuildFails(r) \/ Refused(r)
                          \/ CommitFails(r) \/ UndoSelection(r) \/ UndoSelectionFails(r)
                          \/ SettleFails(r)
  /\ phase = "reclaim" => Reclaim(r) \/ Tear(r)
  /\ phase = "remove" => Release(r) \/ Tear(r)

Named == {"ready", "commit", "note", "place", "placed", "settle", "undo link", "undo entry",
          "undo selection", "failing", "reclaim", "remove"}

LEMMA ComesIs ==
  ASSUME Types, NEW r \in Runs, Step(r) \/ Kill(r)
  PROVE  Comes(r)
<1>0. RunsOK
  BY DEF Types
<1>1. ASSUME run'[r].phase \notin Named PROVE Comes(r)
  BY <1>1 DEF Comes, Named
<1>2. CASE Leaves(r)
  BY <1>1, <1>2, LeavesIs DEF Ends, Moves, Named
<1>3. CASE Probe(r) \/ ReadClaim(r) \/ Notice(r) \/ Resume(r) \/ \E e \in Environments : Load(r, e)
  BY <1>1, <1>3, ReadsAre, NoticeIs, ResumeIs, LoadIs DEF Plain, Moves, Named
<1>4. CASE \/ Take(r) \/ Break(r) \/ Adopt(r) \/ TakeOver(r) \/ NotEmpty(r) \/ Make(r) \/ Hold(r)
           \/ Claim(r) \/ Stage(r) \/ Settle(r) \/ Kill(r)
  <2>1. run[r].phase # "idle"
    BY <1>4 DEF Take, Break, Adopt, TakeOver, NotEmpty, Make, Hold, Claim, Stage, Settle, Kill,
                Living, At
  <2>2. \E phase \in Phases \ Named : To(r, phase)
    BY <1>4 DEF Take, Break, Adopt, TakeOver, NotEmpty, Make, Hold, Claim, Stage, Settle, Kill,
                Phases, Named
  <2> QED
    BY <1>0, <1>1, <2>1, <2>2, ToIs DEF Moves
<1>5. CASE Build(r)
  BY <1>0, <1>5, ToIs DEF Build, At, Phases, Moves, Comes
<1>6. CASE Judge(r) \/ Finish(r)
  BY <1>6, JudgeIs, FinishIs DEF Plain, Moves, Comes
<1>7. CASE Commit(r) \/ Note(r) \/ Place(r) \/ PlaceFails(r) \/ Land(r)
  BY <1>7, NextPhase DEF Plain, Moves, Comes
<1>8. CASE UndoLink(r) \/ UndoLinkFails(r)
  BY <1>8, UndoLinkIs DEF Plain, Moves, Comes
<1>9. CASE UndoEntry(r) \/ UndoEntryFails(r)
  BY <1>1, <1>9, UndoEntryIs DEF Plain, Moves, Comes, Ends, Named
<1>10. CASE \/ NotHad(r) \/ ClaimFails(r) \/ BuildFails(r) \/ CommitFails(r) \/ UndoSelection(r)
            \/ UndoSelectionFails(r) \/ Refused(r) \/ SettleFails(r)
  BY <1>1, <1>10, FailsIs, RefusedIs, SettleFailsIs DEF Plain, Moves, Comes, Ends, Named
<1>11. CASE Reclaim(r) \/ Release(r)
  BY <1>11, TakingAwayIs DEF Plain, Moves, Comes
<1>12. CASE Tear(r)
  BY <1>0, <1>12, TearIs DEF Comes
<1>13. CASE Remove(r)
  BY <1>0, <1>1, <1>13, RemoveIs DEF Moves, Named
<1> QED
  BY <1>2, <1>3, <1>4, <1>5, <1>6, <1>7, <1>8, <1>9, <1>10, <1>11, <1>12, <1>13 DEF Step, Leaves

\* A run finishes a promotion because it decided to.
LEMMA FinishingGoes ==
  ASSUME BuildInv, NEW r \in Runs, Step(r) \/ Kill(r), Finishes(r)'
  PROVE  Resume(r) \/ (Finishes(r) /\ run'[r].env = run[r].env)
<1>0. Types /\ RunsOK
  BY DEF BuildInv, Types
<1>1. CASE GoesOn(r) \/ TurnsBack(r)
  <2>1. SameJob(r) /\ run[r].phase \notin Ended
    BY <1>1 DEF GoesOn, TurnsBack, Plain, Ended
  <2> QED
    BY <2>1 DEF Finishes, SameJob
<1>2. CASE Ends(r)
  BY <1>2 DEF Ends, Moves, Finishes, Ended
<1>3. CASE Touches(r) \/ Kill(r) \/ Adopt(r)
  <2>1. CASE Tear(r) \/ Remove(r)
    BY <1>0, <2>1, TearIs, RemoveIs DEF SameJob, Finishes, Ended
  <2>2. CASE ~Tear(r) /\ ~Remove(r)
    <3>1. run[r].phase \notin {"idle", "over", "dead"} /\ \E phase \in Phases : To(r, phase)
      BY <1>3, <2>2 DEF Touches, Take, Break, Adopt, TakeOver, NotEmpty, Make, Hold, Claim, Stage,
                        Build, Settle, Kill, Living, At, Phases
    <3>2. SameJob(r)
      BY <1>0, <3>1, ToIs
    <3> QED
      BY <3>1, <3>2 DEF Finishes, SameJob, Ended
  <2> QED
    BY <2>1, <2>2
<1>4. CASE Reclaim(r)
  BY <1>0, <1>4, TakingAwayIs DEF Plain, SameJob, Finishes, Ended
<1>5. CASE \E e \in Environments : Load(r, e)
  BY <1>0, <1>5, LoadIs DEF BuildInv, JobsAre, Finishing, Finishes, Moves
<1> QED
  BY <1>0, <1>1, <1>2, <1>3, <1>4, <1>5, StepIs DEF Decides

LEMMA SelectedGoes ==
  ASSUME Types, NEW r \in Runs, Step(r) \/ Kill(r)
  PROVE  \/ record'.selected = record.selected
         \/ run[r].phase = "commit" /\ record'.selected = Env(r)
         \/ run[r].phase = "undo selection" /\ record'.selected = run[r].prev
<1>0. record \in Records
  BY DEF Types
<1>1. CASE ~Writes(r)
  BY <1>1, OthersWriteNothing DEF KeepsSelection
<1>2. CASE Commit(r) \/ CommitFails(r)
  BY <1>0, <1>2 DEF Commit, CommitFails, Selecting, Records, At
<1>3. CASE \/ Place(r) \/ PlaceFails(r) \/ UndoLink(r) \/ UndoEntry(r) \/ UndoEntryFails(r)
           \/ UndoSelection(r) \/ UndoSelectionFails(r)
  BY <1>3, RecordIs DEF Writes, UndoSelection, UndoSelectionFails, At
<1>4. CASE Note(r) \/ NoteFails(r)
  BY <1>0, <1>4 DEF Note, NoteFails, Records
<1> QED
  BY <1>1, <1>2, <1>3, <1>4 DEF Writes

LEMMA LinksGo ==
  ASSUME Types, NEW r \in Runs, Step(r) \/ Kill(r), NEW d \in Destinations,
         NEW e \in Environments, Linked(d, e)'
  PROVE  \/ Linked(d, e)
         \/ /\ run[r].phase = "place" /\ e = Env(r) /\ d = run[r].path
            /\ promoted' = promoted \cup {e}
         \/ UndoLink(r) /\ run[r].before = LinkTo(e) /\ d = run[r].path
<1>0. links \in [Destinations -> LinksAt] /\ e # None
  BY InstallerAssumption DEF Types
<1>1. CASE ~Writes(r)
  BY <1>1, OthersWriteNothing DEF Linked
<1>2. CASE \/ Commit(r) \/ CommitFails(r) \/ Note(r) \/ NoteFails(r) \/ UndoEntry(r)
           \/ UndoEntryFails(r) \/ UndoSelection(r) \/ UndoSelectionFails(r)
  BY <1>2, LinksAre DEF Writes, Linked
<1>3. CASE Place(r) \/ PlaceFails(r)
  <2>1. CASE links' = links
    BY <2>1 DEF Linked
  <2>2. CASE Placing(r)
    <3>1. d # run[r].path => links'[d] = links[d]
      BY <1>0, <2>2 DEF Placing
    <3>2. d = run[r].path => links'[d] = LinkTo(Env(r))
      BY <1>0, <2>2 DEF Placing
    <3>3. LinkTo(Env(r)) = LinkTo(e) => Env(r) = e
      BY DEF LinkTo
    <3> QED
      BY <1>3, <2>2, <3>1, <3>2, <3>3 DEF Linked, Placing, Place, PlaceFails, At
  <2> QED
    BY <1>3, <2>1, <2>2 DEF Place, PlaceFails
<1>4. CASE UndoLink(r)
  <2>1. links' = [links EXCEPT ![run[r].path] = LinkBack(r)]
    BY <1>4 DEF UndoLink
  <2>2. d # run[r].path => links'[d] = links[d]
    BY <1>0, <2>1
  <2>3. d = run[r].path => links'[d] = LinkBack(r)
    BY <1>0, <2>1
  <2>4. NoLink # LinkTo(e)
    BY <1>0 DEF NoLink, LinkTo
  <2>5. LinkBack(r) \in {run[r].before, NoLink, links[run[r].path]}
    BY DEF LinkBack
  <2> QED
    BY <1>4, <2>2, <2>3, <2>4, <2>5 DEF Linked
<1> QED
  BY <1>1, <1>2, <1>3, <1>4 DEF Writes

\* What is taken away although it counts; and what becomes of the past.
LEMMA PastGoes ==
  ASSUME Types, NEW r \in Runs, Step(r) \/ Kill(r)
  PROVE  /\ reclaimed \subseteq reclaimed'
         /\ promoted \subseteq promoted' \/ UndoLink(r)
         /\ Reclaim(r) /\ Env(r) \notin reclaimed'
              => Env(r) \notin promoted \cup {record.selected} \cup ToPutBack
         /\ Release(r) /\ Env(r) \notin reclaimed'
              => Env(r) \notin ToPutBack /\ (Env(r) \in promoted => run[r].known)
<1>0. /\ Reclaim(r) => promoted' = promoted
      /\ Release(r) => promoted' = promoted
  BY DEF Reclaim, Release
<1>1. CASE Reclaim(r)
  <2>1. /\ Env(r) \in promoted \cup {record.selected} \cup ToPutBack =>
             reclaimed' = reclaimed \cup {Env(r)}
        /\ Env(r) \notin promoted \cup {record.selected} \cup ToPutBack => reclaimed' = reclaimed
    BY <1>1 DEF Reclaim
  <2>2. ~Release(r)
    BY <1>1 DEF Reclaim, Release, At
  <2> QED
    BY <1>0, <1>1, <2>1, <2>2
<1>2. CASE Release(r)
  <2> DEFINE wrong == (Env(r) \in promoted /\ ~run[r].known) \/ Env(r) \in ToPutBack
  <2>1. /\ wrong => reclaimed' = reclaimed \cup {Env(r)}
        /\ ~wrong => reclaimed' = reclaimed
    BY <1>2 DEF Release
  <2>2. ~Reclaim(r)
    BY <1>2 DEF Reclaim, Release, At
  <2> QED
    BY <1>0, <1>2, <2>1, <2>2
<1>3. CASE ~Reclaim(r) /\ ~Release(r)
  <2>1. CASE \/ \E e \in Environments : Load(r, e)
             \/ Take(r) \/ Notice(r) \/ Break(r) \/ Busy(r) \/ Probe(r) \/ ReadClaim(r)
             \/ LeaveIt(r)
             \/ Resume(r) \/ Adopt(r) \/ TakeOver(r) \/ NotEmpty(r) \/ Kill(r)
    BY <1>3, <2>1 DEF Load, Take, Notice, Break, Busy, Probe, ReadClaim, LeaveIt, Resume, Adopt,
                      TakeOver, NotEmpty, Kill, KeepPast
  <2>2. CASE \/ Make(r) \/ Exists(r) \/ Hold(r) \/ NotHad(r) \/ Claim(r) \/ ClaimFails(r)
             \/ Stage(r) \/ Build(r) \/ BuildFails(r) \/ Judge(r) \/ Refused(r)
             \/ Land(r) \/ Settle(r) \/ SettleFails(r) \/ Finish(r) \/ FinishRefused(r)
    BY <1>3, <2>2 DEF Make, Exists, Hold, NotHad, Claim, ClaimFails, Stage, Build, BuildFails,
                      Judge, Refused, Land, Settle, SettleFails, Finish, FinishRefused, KeepPast
  <2>3. CASE \/ UndoLinkFails(r) \/ UndoEntry(r) \/ UndoEntryFails(r) \/ UndoSelection(r)
             \/ UndoSelectionFails(r) \/ Keep(r) \/ Tear(r) \/ Remove(r)
    BY <1>3, <2>3 DEF UndoLinkFails, UndoEntry, UndoEntryFails, UndoSelection,
                      UndoSelectionFails, Keep, Tear, Remove, KeepPast
  <2>4. CASE Commit(r) \/ CommitFails(r) \/ Note(r) \/ NoteFails(r)
    BY <1>3, <2>4 DEF Commit, CommitFails, Note, NoteFails, KeepPast
  <2>5. CASE Place(r) \/ PlaceFails(r) \/ UndoLink(r)
    BY <1>3, <2>5 DEF Place, PlaceFails, UndoLink, Placing
  <2> QED
    BY <1>3, <2>1, <2>2, <2>3, <2>4, <2>5 DEF Step
<1> QED
  BY <1>1, <1>2, <1>3

\* What is no longer in the past has no link.
LEMMA ForgottenHasNoLink ==
  ASSUME Types, NEW r \in Runs, UndoLink(r), NEW e \in Environments, e \in promoted,
         NEW d \in Destinations, Linked(d, e)'
  PROVE  e \in promoted'
<1>1. links'[d].to = e
  BY DEF Linked, LinkTo
<1>2. promoted' = IF \E x \in Destinations : links'[x].to = Env(r)
                  THEN promoted ELSE promoted \ {Env(r)}
  BY DEF UndoLink
<1> HIDE DEF UndoLink, Linked
<1>3. CASE e = Env(r)
  BY <1>1, <1>2, <1>3
<1> QED
  BY <1>2, <1>3

LEMMA RecallsGo ==
  ASSUME BackInv, NEW r \in Runs, Step(r) \/ Kill(r), NEW q \in Runs, NEW e \in Environments,
         Recalls(q, e)'
  PROVE  \/ Recalls(q, e) /\ run'[q].path = run[q].path
         \/ /\ q = r /\ run[r].phase \in {"ready", "finish"} /\ links' = links
            /\ promoted' = promoted /\ run'[r].path \in Destinations /\ Linked(run'[r].path, e)
<1>0. Types /\ PassesLock(r)
  BY LockPassed DEF BackInv, BuildInv
<1>1. CASE q # r
  BY <1>0, <1>1 DEF PassesLock, Recalls
<1>2. CASE q = r
  <2>1. run'[r].phase \in BeforeUndo /\ promoter' = r /\ run'[r].before = LinkTo(e)
    BY <1>2 DEF Recalls
  <2>2. CASE Tear(r)
    BY <1>0, <1>2, <2>2, TearIs DEF Types, SameFinds, Recalls
  <2>3. CASE Judge(r)
    <3>1. /\ run[r].phase = "ready" /\ links' = links /\ promoted' = promoted
          /\ run'[r].before = links[run'[r].path] /\ run'[r].path \in Destinations
      BY <1>0, <2>3, JudgeIs DEF Plain, Moves
    <3> QED
      BY <1>2, <2>1, <3>1 DEF Linked
  <2>4. CASE Finish(r)
    <3>1. /\ run[r].phase = "finish" /\ links' = links /\ promoted' = promoted
          /\ run'[r].before = links[run'[r].path] /\ run'[r].path \in Destinations
      BY <1>0, <2>4, FinishIs DEF Plain, Moves
    <3> QED
      BY <1>2, <2>1, <3>1 DEF Linked
  <2>5. CASE Commit(r) \/ Note(r) \/ Place(r) \/ PlaceFails(r) \/ Land(r)
    <3>1. SameFinds(r) /\ run[r].phase \in BeforeUndo
      BY <1>0, <2>5, NextPhase DEF Commit, Note, Place, PlaceFails, Land, At, BeforeUndo
    <3>2. promoter = r
      BY <3>1 DEF BackInv, OnePromotes, Promoting, BeforeUndo
    <3> QED
      BY <1>2, <2>1, <3>1, <3>2 DEF Recalls, SameFinds
  <2> QED
    BY <1>0, <2>1, <2>2, <2>3, <2>4, <2>5, ComesIs DEF Comes, BeforeUndo
<1> QED
  BY <1>1, <1>2

LEMMA RestoresGo ==
  ASSUME BackInv, NEW r \in Runs, Step(r) \/ Kill(r), NEW q \in Runs, NEW e \in Environments,
         Restores(q, e)'
  PROVE  Restores(q, e) \/ record.selected = e
<1>0. Types /\ PassesLock(r)
  BY LockPassed DEF BackInv, BuildInv
<1>1. CASE q # r
  BY <1>0, <1>1 DEF PassesLock, Restores
<1>2. CASE q = r
  <2>1. /\ run'[r].phase \in Promoting /\ promoter' = r /\ run'[r].job = "install"
        /\ run'[r].prev = e
    BY <1>2 DEF Restores
  <2>2. CASE Tear(r)
    BY <1>0, <1>2, <2>2, TearIs DEF Types, SameFinds, SameJob, Restores
  <2>3. CASE Judge(r)
    BY <1>0, <2>1, <2>3, JudgeIs
  <2>4. CASE Finish(r)
    <3>1. run'[r].job = run[r].job /\ run[r].phase = "finish"
      BY <1>0, <2>4, FinishIs DEF Plain, SameJob
    <3> QED
      BY <2>1, <3>1 DEF BackInv, BuildInv, JobsAre
  <2>5. CASE \/ Commit(r) \/ Note(r) \/ Place(r) \/ PlaceFails(r) \/ Land(r) \/ UndoLink(r)
             \/ UndoLinkFails(r) \/ UndoEntry(r) \/ UndoEntryFails(r)
    <3>1. run[r].phase \in Promoting
      BY <2>5 DEF Commit, Note, Place, PlaceFails, Land, UndoLink, UndoLinkFails, UndoEntry,
                  UndoEntryFails, At, Promoting
    <3>2. SameFinds(r) /\ SameJob(r)
      <4>1. CASE Commit(r) \/ Note(r) \/ Place(r) \/ PlaceFails(r) \/ Land(r)
        BY <1>0, <4>1, NextPhase DEF Plain
      <4>2. CASE UndoLink(r) \/ UndoLinkFails(r)
        BY <1>0, <4>2, UndoLinkIs DEF Plain
      <4>3. CASE UndoEntry(r) \/ UndoEntryFails(r)
        BY <1>0, <2>1, <4>3, UndoEntryIs DEF Plain, Ends, Moves, Promoting
      <4> QED
        BY <2>5, <4>1, <4>2, <4>3
    <3>3. promoter = r
      BY <3>1 DEF BackInv, OnePromotes
    <3> QED
      BY <1>2, <2>1, <3>1, <3>2, <3>3 DEF Restores, SameFinds, SameJob
  <2> QED
    BY <1>0, <2>1, <2>2, <2>3, <2>4, <2>5, ComesIs DEF Comes, Promoting
<1> QED
  BY <1>1, <1>2

\* What a step of r makes of the directory of e.
Alike(e) ==
  LET d == dirs[e] n == dirs'[e] IN
  n.there = d.there /\ n.by = d.by /\ n.built = d.built /\ n.torn = d.torn

Same(e) == Alike(e) /\ dirs'[e].claim = dirs[e].claim

\* It writes or drops a claim.
Marks(r) ==
  LET c == dirs'[Env(r)].claim IN
  /\ Alike(Env(r))
  /\ \/ run[r].phase = "claim" /\ c \in {dirs[Env(r)].claim, "STAGING"}
     \/ run[r].phase = "settle" /\ c = "COMPLETE"
     \/ run[r].phase = "adopt" /\ c = "none"

\* It makes the directory, for good or by a write through its name; or takes an empty one away.
Anew(r) ==
  LET n == dirs'[Env(r)] IN
  /\ run[r].phase \in {"adopt", "make", "hold", "claim", "stage", "settle"}
  /\ IF run[r].phase = "adopt" THEN ~Occupied(Env(r)) ELSE ~dirs[Env(r)].there
  /\ n.by \in {r, None} /\ (run[r].phase # "stage" => n.built = "none") /\ n.built # "whole"
  /\ n.claim = "COMPLETE" => run[r].phase = "settle"

Builds(r) ==
  LET d == dirs[Env(r)] n == dirs'[Env(r)] IN
  /\ run[r].phase \in {"stage", "build"} /\ run[r].job = "install"
  /\ n.by = d.by /\ n.claim = d.claim

TakesAway(r) ==
  LET d == dirs[Env(r)] n == dirs'[Env(r)] IN
  /\ run[r].phase \in {"reclaim", "remove"}
  /\ n.by \in {d.by, None} /\ (d.built = "none" => n.built = "none")
  /\ n.claim \in {d.claim, "none"} /\ (n.torn \/ n.by = None) /\ n.built # "whole"
  /\ run[r].victim \in {None, d.by} \/ d.built = "none"

DirGoes(r, e) ==
  \/ Same(e)
  \/ e = Env(r) /\ (Anew(r) \/ Builds(r) \/ TakesAway(r) \/ Marks(r))

LEMMA UnheldGoes ==
  ASSUME Types, NEW r \in Runs, NEW e \in Environments, dirs'[e] = Unheld(r)[e]
  PROVE  Same(e)
BY UnheldIs DEF Same, Alike

\* Of what is in a directory, what a run's own steps make.
LEMMA OwnDirGoes ==
  ASSUME BuildInv, NEW r \in Runs,
         \/ TakeOver(r) \/ NotEmpty(r) \/ Make(r) \/ Hold(r) \/ Claim(r)
         \/ Stage(r) \/ Build(r) \/ Settle(r)
  PROVE  DirGoes(r, Env(r))
<1> DEFINE e == Env(r)
<1>0. /\ Types /\ RunsOK /\ run[r].phase # "idle" /\ e \in Environments
      /\ dirs \in [Environments -> Dirs] /\ dirs[e] \in Dirs
  BY FieldsOfRun DEF BuildInv, Types, TakeOver, NotEmpty, Make, Hold, Claim, Stage, Build, Settle,
                     At
<1>1. /\ Fresh(r) \in Dirs /\ Fresh(r).by = r /\ Fresh(r).built = "none"
      /\ Fresh(r).claim = "none" /\ Unheld(r) \in [Environments -> Dirs] /\ Unheld(r)[e] \in Dirs
      /\ Unheld(r)[e].by = dirs[e].by /\ Unheld(r)[e].claim = dirs[e].claim
      /\ Unheld(r)[e].built = dirs[e].built /\ Unheld(r)[e].torn = dirs[e].torn
      /\ Unheld(r)[e].there = dirs[e].there
  BY <1>0, WrittenIs, UnheldIs DEF Fresh, NoDir
<1>2. CASE TakeOver(r)
  <2>1. dirs'[e] = NoDir /\ run[r].phase = "adopt" /\ ~Occupied(e)
    BY <1>0, <1>2 DEF TakeOver, At
  <2> QED
    BY <2>1 DEF DirGoes, Anew, NoDir
<1>3. CASE NotEmpty(r)
  <2>1. /\ run[r].phase = "adopt"
        /\ dirs'[e] = [Unheld(r)[e] EXCEPT !.claim = "none", !.lockfile = FALSE]
    BY <1>0, <1>1, <1>3 DEF NotEmpty, At
  <2>2. Alike(e) /\ dirs'[e].claim = "none"
    BY <1>1, <2>1 DEF Alike, Dirs
  <2> QED
    BY <2>1, <2>2 DEF DirGoes, Marks
<1>4. CASE Make(r)
  <2>1. dirs'[e] = Fresh(r) /\ run[r].phase = "make" /\ ~dirs[e].there
    BY <1>0, <1>4 DEF Make, At
  <2> QED
    BY <1>1, <2>1 DEF DirGoes, Anew
<1>5. CASE Hold(r)
  <2>1. /\ run[r].phase = "hold"
        /\ dirs'[e] = [Written(e, r) EXCEPT !.lockfile = TRUE, !.held = r]
    BY <1>0, <1>5 DEF Hold, At
  <2>2. CASE dirs[e].there
    <3>1. dirs'[e] = [dirs[e] EXCEPT !.lockfile = TRUE, !.held = r]
      BY <1>0, <2>1, <2>2, WrittenIs
    <3>2. /\ dirs'[e].there = dirs[e].there /\ dirs'[e].by = dirs[e].by
          /\ dirs'[e].built = dirs[e].built /\ dirs'[e].torn = dirs[e].torn
          /\ dirs'[e].claim = dirs[e].claim
      BY <1>0, <3>1 DEF Dirs
    <3> QED
      BY <3>2 DEF DirGoes, Same, Alike
  <2>3. CASE ~dirs[e].there
    <3>1. dirs'[e].by = r /\ dirs'[e].built = "none" /\ dirs'[e].claim = "none"
      BY <1>0, <1>1, <2>1, <2>3, WrittenIs DEF Dirs
    <3> QED
      BY <2>1, <2>3, <3>1 DEF DirGoes, Anew
  <2> QED
    BY <2>2, <2>3
<1>6. CASE Claim(r)
  <2>1. run[r].phase = "claim" /\ dirs'[e] = [Written(e, r) EXCEPT !.claim = "STAGING"]
    BY <1>0, <1>6 DEF Claim, At
  <2>2. CASE dirs[e].there
    <3>1. dirs'[e] = [dirs[e] EXCEPT !.claim = "STAGING"]
      BY <1>0, <2>1, <2>2, WrittenIs
    <3>2. /\ dirs'[e].there = dirs[e].there /\ dirs'[e].by = dirs[e].by
          /\ dirs'[e].built = dirs[e].built /\ dirs'[e].torn = dirs[e].torn
          /\ dirs'[e].claim = "STAGING"
      BY <1>0, <3>1 DEF Dirs
    <3> QED
      BY <2>1, <3>2 DEF DirGoes, Marks, Alike
  <2>3. CASE ~dirs[e].there
    <3>1. dirs'[e].by = r /\ dirs'[e].built = "none" /\ dirs'[e].claim = "STAGING"
      BY <1>0, <1>1, <2>1, <2>3, WrittenIs DEF Dirs
    <3> QED
      BY <2>1, <2>3, <3>1 DEF DirGoes, Anew
  <2> QED
    BY <2>2, <2>3
<1>7. CASE Stage(r)
  <2>1. run[r].phase = "stage" /\ dirs'[e] = [Written(e, r) EXCEPT !.built = "part"]
    BY <1>0, <1>7 DEF Stage, At
  <2>2. CASE dirs[e].there
    <3>1. dirs'[e] = [dirs[e] EXCEPT !.built = "part"]
      BY <1>0, <2>1, <2>2, WrittenIs
    <3>2. dirs'[e].by = dirs[e].by /\ dirs'[e].claim = dirs[e].claim
      BY <1>0, <3>1 DEF Dirs
    <3>3. run[r].job = "install"
      BY <1>0, <2>1, FieldsOfRun DEF BuildInv, JobsAre, Finishing, RunStates
    <3> QED
      BY <2>1, <3>2, <3>3 DEF DirGoes, Builds
  <2>3. CASE ~dirs[e].there
    <3>1. dirs'[e].by = r /\ dirs'[e].built = "part" /\ dirs'[e].claim = "none"
      BY <1>0, <1>1, <2>1, <2>3, WrittenIs DEF Dirs
    <3> QED
      BY <2>1, <2>3, <3>1 DEF DirGoes, Anew
  <2> QED
    BY <2>2, <2>3
<1>8. CASE Build(r)
  <2>1. run[r].phase = "build" /\ dirs'[e] = [dirs[e] EXCEPT !.built = "whole"]
    BY <1>0, <1>8 DEF Build, At
  <2>2. run[r].job = "install"
    BY <1>0, <2>1, FieldsOfRun DEF BuildInv, JobsAre, Finishing, RunStates
  <2> QED
    BY <1>0, <2>1, <2>2 DEF DirGoes, Builds, Dirs
<1>9. CASE Settle(r)
  <2>1. /\ run[r].phase = "settle"
        /\ dirs'[e] = [(IF dirs[e].there THEN Unheld(r)[e] ELSE Fresh(r))
                         EXCEPT !.claim = "COMPLETE"]
    BY <1>0, <1>1, <1>9 DEF Settle, At
  <2>2. CASE dirs[e].there
    <3>1. dirs'[e] = [Unheld(r)[e] EXCEPT !.claim = "COMPLETE"]
      BY <2>1, <2>2
    <3>2. /\ dirs'[e].there = dirs[e].there /\ dirs'[e].by = dirs[e].by
          /\ dirs'[e].built = dirs[e].built /\ dirs'[e].torn = dirs[e].torn
          /\ dirs'[e].claim = "COMPLETE"
      BY <1>1, <3>1 DEF Dirs
    <3> QED
      BY <2>1, <3>2 DEF DirGoes, Marks, Alike
  <2>3. CASE ~dirs[e].there
    <3>1. dirs'[e].by = r /\ dirs'[e].built = "none" /\ dirs'[e].claim = "COMPLETE"
      BY <1>1, <2>1, <2>3 DEF Dirs
    <3> QED
      BY <2>1, <2>3, <3>1 DEF DirGoes, Anew
  <2> QED
    BY <2>2, <2>3
<1> QED
  BY <1>2, <1>3, <1>4, <1>5, <1>6, <1>7, <1>8, <1>9

\* And what a removal makes of it.
LEMMA RemovalGoes ==
  ASSUME BuildInv, NEW r \in Runs, Tear(r) \/ Remove(r)
  PROVE  DirGoes(r, Env(r))
<1> DEFINE e == Env(r) d == dirs[e]
<1>0. /\ Types /\ run[r].phase \in {"reclaim", "remove"} /\ e \in Environments
      /\ dirs \in [Environments -> Dirs] /\ d \in Dirs
  BY FieldsOfRun DEF BuildInv, Types, Tear, Remove, At
<1>1. CASE Tear(r)
  <2> DEFINE b == IF d.built = "none" THEN "none" ELSE "part"
  <2>1. PICK claim \in {d.claim, "none"}, lockfile \in {d.lockfile, FALSE},
             litter \in {d.litter, FALSE} :
          dirs' = [dirs EXCEPT ![e] = [d EXCEPT !.claim = claim, !.lockfile = lockfile,
                                                !.litter = litter, !.built = b, !.torn = TRUE]]
    BY <1>1 DEF Tear
  <2>2. dirs'[e] = [d EXCEPT !.claim = claim, !.lockfile = lockfile, !.litter = litter, !.built = b,
                             !.torn = TRUE]
    BY <1>0, <2>1
  <2>3. /\ dirs'[e].by = d.by /\ dirs'[e].built = b /\ dirs'[e].torn
        /\ dirs'[e].claim \in {d.claim, "none"}
    BY <1>0, <2>2 DEF Dirs
  <2>4. run[r].victim \in {None, d.by}
    BY <1>1 DEF Tear, Begun
  <2> QED
    BY <1>0, <2>3, <2>4 DEF DirGoes, TakesAway
<1>2. CASE Remove(r)
  <2>1. PICK gone \in Gone(r) :
          \/ gone /\ dirs' = [dirs EXCEPT ![e] = NoDir]
          \/ dirs' = [Unheld(r) EXCEPT ![e] = IF gone THEN NoDir ELSE Unheld(r)[e]]
    BY <1>2 DEF Remove
  <2>2. Unheld(r) \in [Environments -> Dirs]
    BY <1>0, UnheldIs
  <2>3. CASE gone
    <3>1. dirs'[e] = NoDir
      BY <1>0, <2>1, <2>2, <2>3
    <3>2. Emptied(r)
      BY <2>1, <2>3 DEF Gone
    <3>3. run[r].victim \in {None, d.by} \/ d.built = "none"
      BY <3>2 DEF Emptied, Begun, Occupied
    <3> QED
      BY <1>0, <3>1, <3>3 DEF DirGoes, TakesAway, NoDir
  <2>4. CASE ~gone
    <3>1. dirs'[e] = Unheld(r)[e]
      BY <1>0, <2>1, <2>2, <2>4
    <3> QED
      BY <1>0, <3>1, UnheldGoes DEF DirGoes
  <2> QED
    BY <2>3, <2>4
<1> QED
  BY <1>1, <1>2

LEMMA KillGoes ==
  ASSUME BuildInv, NEW r \in Runs, Kill(r), NEW e \in Environments
  PROVE  DirGoes(r, e)
<1>0. Types /\ Unheld(r) \in [Environments -> Dirs] /\ Unheld(r)[e] \in Dirs
  BY UnheldIs DEF BuildInv
<1>1. CASE dirs' = Unheld(r)
  BY <1>0, <1>1, UnheldGoes DEF DirGoes
<1>2. CASE /\ At(r, "claim")
           /\ \E c \in {dirs[Env(r)].claim, "STAGING"}, l \in {dirs[Env(r)].litter, TRUE} :
                 dirs' = [Unheld(r) EXCEPT ![Env(r)].claim = c, ![Env(r)].litter = l]
  <2>1. PICK c \in {dirs[Env(r)].claim, "STAGING"}, l \in {dirs[Env(r)].litter, TRUE} :
               dirs' = [Unheld(r) EXCEPT ![Env(r)].claim = c, ![Env(r)].litter = l]
    BY <1>2
  <2>2. CASE e # Env(r)
    <3>1. dirs'[e] = Unheld(r)[e]
      BY <1>0, <2>1, <2>2
    <3> QED
      BY <1>0, <3>1, UnheldGoes DEF DirGoes
  <2>3. CASE e = Env(r)
    <3>1. dirs'[e] = [Unheld(r)[e] EXCEPT !.claim = c, !.litter = l]
      BY <1>0, <2>1, <2>3
    <3>2. /\ dirs'[e].claim = c /\ dirs'[e].there = Unheld(r)[e].there
          /\ dirs'[e].by = Unheld(r)[e].by /\ dirs'[e].built = Unheld(r)[e].built
          /\ dirs'[e].torn = Unheld(r)[e].torn
      BY <1>0, <3>1 DEF Dirs
    <3>3. Alike(e)
      BY <1>0, <3>2, UnheldIs DEF Alike
    <3> QED
      BY <1>2, <2>1, <2>3, <3>2, <3>3 DEF DirGoes, Marks, At
  <2> QED
    BY <2>2, <2>3
<1>3. dirs' \in LeftBehind(r)
  BY DEF Kill
<1> QED
  BY <1>1, <1>2, <1>3, LeftBehindIs

LEMMA DirGoesIs ==
  ASSUME BuildInv, NEW r \in Runs, Step(r) \/ Kill(r), NEW e \in Environments
  PROVE  DirGoes(r, e)
<1>0. /\ Types /\ dirs \in [Environments -> Dirs] /\ dirs[e] \in Dirs
      /\ Unheld(r) \in [Environments -> Dirs]
  BY UnheldIs DEF BuildInv, Types
<1>1. CASE dirs'[e] = dirs[e]
  BY <1>1 DEF DirGoes, Same, Alike
<1>2. CASE dirs'[e] = Unheld(r)[e]
  BY <1>0, <1>2, UnheldGoes DEF DirGoes
<1>3. CASE \/ GoesOn(r) \/ TurnsBack(r) \/ Decides(r) \/ Take(r) \/ Break(r)
           \/ \E x \in Environments : Load(r, x)
  <2>1. dirs' = dirs
    BY <1>0, <1>3, ResumeIs, LoadIs
       DEF GoesOn, TurnsBack, Plain, Decides, Adopt, Reclaim, Take, Break, KeepDirs
  <2> QED
    BY <1>1, <2>1
<1>4. CASE Ends(r)
  BY <1>2, <1>4 DEF Ends
<1>5. CASE Touches(r) /\ e # Env(r) /\ ~Take(r) /\ ~Break(r)
  <2>1. CASE \/ TakeOver(r) \/ Make(r) \/ Hold(r) \/ Claim(r) \/ Stage(r) \/ Build(r) \/ Tear(r)
    <3>1. dirs'[e] = dirs[e]
      BY <1>0, <1>5, <2>1 DEF TakeOver, Make, Hold, Claim, Stage, Build, Tear
    <3> QED
      BY <1>1, <3>1
  <2>2. CASE NotEmpty(r) \/ Settle(r) \/ Remove(r)
    <3>1. dirs'[e] \in {dirs[e], Unheld(r)[e]}
      BY <1>0, <1>5, <2>2 DEF NotEmpty, Settle, Remove
    <3> QED
      BY <1>1, <1>2, <3>1
  <2> QED
    BY <1>5, <2>1, <2>2 DEF Touches
<1>6. CASE Touches(r) /\ e = Env(r) /\ ~Take(r) /\ ~Break(r)
  BY <1>6, OwnDirGoes, RemovalGoes DEF Touches
<1> QED
  BY <1>0, <1>3, <1>4, <1>5, <1>6, StepIs, KillGoes

\* What a step of r makes count, it built; what counts stays whole.
LEMMA CountsGrow ==
  ASSUME BackInv, Reaches, NEW r \in Runs, Step(r) \/ Kill(r), NEW e \in Environments, Counts(e)'
  PROVE  Counts(e) \/ (run[r].phase = "commit" /\ e = Env(r))
<1>0. /\ Types
      /\ run[r].phase \in Promoting => promoter = r
      /\ run[r].phase \in {"commit", "undo selection"} => run[r].job = "install"
  <2>1. run[r] \in RunStates
    BY FieldsOfRun DEF BackInv, BuildInv, Types
  <2> QED
    BY <2>1 DEF BackInv, BuildInv, OnePromotes, JobsAre, Finishing, RunStates
<1>1. CASE record'.selected = e
  <2>1. run[r].phase = "undo selection" /\ run[r].prev = e => Restores(r, e)
    BY <1>0 DEF Restores, Promoting
  <2> QED
    BY <1>0, <1>1, <2>1, SelectedGoes DEF Counts
<1>2. ASSUME NEW d \in Destinations, Linked(d, e)' PROVE Counts(e)
  <2>1. run[r].phase = "place" => record.selected = Env(r)
    BY DEF Reaches, ChosenOnes, Promoting
  <2>2. UndoLink(r) /\ run[r].before = LinkTo(e) => Recalls(r, e)
    BY <1>0 DEF UndoLink, At, Recalls, BeforeUndo, Promoting
  <2> QED
    BY <1>0, <1>2, <2>1, <2>2, LinksGo DEF Counts
<1>3. ASSUME NEW q \in Runs, Recalls(q, e)' PROVE Counts(e)
  BY <1>3, RecallsGo DEF Counts
<1>4. ASSUME NEW q \in Runs, Restores(q, e)' PROVE Counts(e)
  BY <1>4, RestoresGo DEF Counts
<1> QED
  BY <1>1, <1>2, <1>3, <1>4 DEF Counts

LEMMA CountedStays ==
  ASSUME BackInv, Reaches, NEW r \in Runs, Step(r) \/ Kill(r), NEW e \in Spared,
         Counts(e) \/ (run[r].phase = "commit" /\ e = Env(r))
  PROVE  Whole(e)' /\ Whole(e) /\ dirs'[e].by = dirs[e].by
<1>0. BuildInv /\ e \in Environments /\ (Env(r) = e => Apart(r))
  BY DEF BackInv, Spared, Crossed, Apart
<1>1. /\ Whole(e)
      /\ Env(r) = e => /\ run[r].phase # "reclaim"
                       /\ run[r].phase = "remove" => dirs[e].by # r
  <2>1. CASE Counts(e)
    BY <2>1 DEF Reaches, CountsWhole, NoneTakes
  <2>2. CASE run[r].phase = "commit" /\ e = Env(r)
    <3>1. run[r].job = "install"
      BY <1>0, <2>2, FieldsOfRun DEF BuildInv, Types, JobsAre, Finishing, RunStates
    <3> QED
      BY <1>0, <2>2, <3>1 DEF BuildInv, OwnDirs, Own, Building, Wholes, Whole
  <2> QED
    BY <2>1, <2>2
<1>2. Same(e) => Whole(e)' /\ dirs'[e].by = dirs[e].by
  BY <1>1 DEF Same, Alike, Whole
<1>3. e = Env(r) => ~Anew(r)
  BY <1>1 DEF Anew, Whole, Occupied
<1>4. e = Env(r) => ~Builds(r)
  BY <1>0, <1>1 DEF Builds, BuildInv, OwnDirs, Own, Building, Whole
<1>5. ASSUME e = Env(r), TakesAway(r) PROVE FALSE
  <2>1. /\ run[r].phase = "remove" /\ dirs[e].by # r /\ dirs[e].built = "whole"
        /\ run[r].victim \in {None, dirs[e].by} /\ run[r].victim \in {None, r}
        /\ run[r].victim = None => Building(r) \/ Starts(r)
    BY <1>0, <1>1, <1>5, RemovesIs DEF TakesAway, Whole
  <2>2. Building(r) => dirs[e].by = r
    BY <1>0, <1>5 DEF BuildInv, OwnDirs, Own
  <2>3. Starts(r) => dirs[e].built = "none"
    BY <1>0, <1>5 DEF BuildInv, NewDirs, Begins
  <2> QED
    BY <2>1, <2>2, <2>3, InstallerAssumption
<1> QED
  <2>1. e = Env(r) /\ Marks(r) => Whole(e)' /\ dirs'[e].by = dirs[e].by
    BY <1>1 DEF Marks, Alike, Whole
  <2> QED
    BY <1>0, <1>1, <1>2, <1>3, <1>4, <1>5, <2>1, DirGoesIs DEF DirGoes

LEMMA SparedBefore ==
  ASSUME BuildInv, NEW r \in Runs, Step(r) \/ Kill(r), NEW e \in Spared'
  PROVE  e \in Spared /\ e \in Environments /\ ~locks[e].met /\ ~locks'[e].met
<1>1. Types /\ \A x \in Environments : locks[x].met => locks'[x].met
  BY StepSpares DEF BuildInv, Spares, Aside
<1>2. e \in Environments /\ e \notin reclaimed' /\ ~locks'[e].met
  BY DEF Spared, Crossed
<1> QED
  BY <1>1, <1>2, PastGoes DEF Spared, Crossed

LEMMA CountsWholeKept ==
  ASSUME BackInv, Reaches, NEW r \in Runs, Step(r) \/ Kill(r)
  PROVE  CountsWhole'
<1> SUFFICES ASSUME NEW e \in Spared', Counts(e)' PROVE Whole(e)'
  BY DEF CountsWhole
<1>1. e \in Spared /\ e \in Environments
  BY SparedBefore DEF BackInv
<1> QED
  BY <1>1, CountsGrow, CountedStays

\* Nobody takes away what counts but whom `reclaimed' names.
LEMMA ReclaimSparesCounted ==
  ASSUME BackInv, Reaches, NEW r \in Runs, Reclaim(r), Env(r) \notin reclaimed', Counts(Env(r))
  PROVE  FALSE
<1>0. Types /\ Env(r) \in Environments /\ Env(r) # None
  BY FieldsOfRun, InstallerAssumption DEF BackInv, BuildInv, Types, Reclaim, At
<1>1. Env(r) \notin promoted \cup {record.selected} \cup ToPutBack
  BY <1>0, PastGoes DEF Step
<1>2. ASSUME NEW q \in Runs, Restores(q, Env(r)) PROVE FALSE
  <2>1. promoter = q /\ promoter # None /\ run[q].prev = Env(r)
    BY <1>2, InstallerAssumption DEF Restores
  <2> QED
    BY <1>1, <2>1 DEF ToPutBack
<1> QED
  BY <1>0, <1>1, <1>2 DEF Counts, Reaches, InPast

LEMMA ReleaseSparesCounted ==
  ASSUME BackInv, Reaches, NEW r \in Runs, Release(r), Env(r) \in Spared, Env(r) \notin reclaimed',
         Counts(Env(r))
  PROVE  FALSE
<1>0. /\ BuildInv /\ Types /\ Env(r) \in Environments /\ Env(r) # None
      /\ run[r].phase = "failing" /\ run[r].job = "install" /\ Apart(r)
  <2>1. run[r].phase = "failing"
    BY DEF Release, At
  <2>2. Types /\ run[r] \in RunStates /\ Env(r) \in Environments
    BY <2>1, FieldsOfRun DEF BackInv, BuildInv, Types
  <2>3. run[r].job = "install"
    BY <2>1, <2>2 DEF BackInv, BuildInv, JobsAre, Finishing, RunStates
  <2> QED
    BY <2>1, <2>2, <2>3, InstallerAssumption DEF BackInv, Spared, Crossed, Apart
<1>1. Env(r) \notin ToPutBack /\ (Env(r) \in promoted => run[r].known)
  BY <1>0, PastGoes DEF Step
<1>2. record.selected # Env(r) /\ (run[r].known => links[run[r].path].to # Env(r))
  BY DEF Release, InUse, Names
<1>3. ASSUME NEW q \in Runs, Restores(q, Env(r)) \/ Recalls(q, Env(r)) PROVE FALSE
  <2>1. promoter = q /\ promoter # None
    BY <1>3, InstallerAssumption DEF Restores, Recalls
  <2>2. run[q].prev = Env(r) \/ run[q].before.to = Env(r)
    BY <1>3 DEF Restores, Recalls, LinkTo
  <2> QED
    BY <1>1, <2>1, <2>2 DEF ToPutBack
<1>4. ASSUME NEW d \in Destinations, Linked(d, Env(r)) PROVE FALSE
  <2>1. dirs[Env(r)].built # "none"
    BY <1>0 DEF Reaches, CountsWhole, Whole
  <2>2. ~Inside(r)
    BY <1>0, <2>1 DEF BuildInv, NewDirs, Starts, Begins
  <2>3. AtPath(r)
    BY <1>0, <2>2 DEF AtPath, Building
  <2>4. d = run[r].path
    BY <1>4, <2>3 DEF Reaches, LinkedAtPath, OnlyAt
  <2>5. Env(r) \in promoted
    BY <1>0, <1>4 DEF Reaches, InPast
  <2> QED
    BY <1>1, <1>2, <1>4, <2>4, <2>5 DEF Linked, LinkTo
<1> QED
  BY <1>0, <1>2, <1>3, <1>4 DEF Counts

LEMMA NoneTakesKept ==
  ASSUME BackInv, Reaches, NEW r \in Runs, Step(r) \/ Kill(r)
  PROVE  NoneTakes'
<1> SUFFICES ASSUME NEW e \in Spared', NEW q \in Runs, Counts(e)', Env(q)' = e
             PROVE  /\ run'[q].phase # "reclaim"
                    /\ run'[q].phase = "remove" => dirs'[e].by # q
  BY DEF NoneTakes
<1>0. BuildInv /\ Types /\ \A p \in Runs : p # r => run'[p] = run[p]
  BY StepSpares DEF BackInv, BuildInv, Spares
<1>5. e \in Spared /\ e \in Environments /\ e \notin reclaimed' /\ ~locks[e].met
  BY <1>0, SparedBefore DEF Spared
<1>1. Counts(e) \/ (run[r].phase = "commit" /\ e = Env(r))
  BY <1>5, CountsGrow
<1>2. dirs'[e].by = dirs[e].by
  BY <1>5, <1>1, CountedStays
<1>3. CASE run'[q].phase = run[q].phase /\ run'[q].env = run[q].env
  <2>1. Env(q) = e
    BY <1>3 DEF Env
  <2>2. CASE Counts(e)
    BY <1>5, <1>2, <1>3, <2>1, <2>2 DEF Reaches, NoneTakes
  <2>3. CASE run[r].phase = "commit" /\ e = Env(r)
    <3>1. run[r].job = "install" /\ Apart(r)
      BY <1>0, <1>5, <2>3, FieldsOfRun DEF BuildInv, Types, JobsAre, Finishing, RunStates, Apart
    <3>2. Building(r)
      BY <2>3, <3>1 DEF Building, Wholes
    <3>4. dirs[e].by = r
      BY <1>0, <2>3, <3>1, <3>2 DEF BuildInv, OwnDirs, Own
    <3>3. q # r => ~Threatens(q)
      BY <1>0, <2>1, <2>3, <3>1, <3>2 DEF BuildInv, Alone
    <3> QED
      BY <1>2, <1>3, <2>3, <3>3, <3>4 DEF Threatens
  <2> QED
    BY <1>1, <2>2, <2>3
<1>4. CASE q = r /\ ~Tear(r) /\ run'[r].phase \in {"reclaim", "remove"}
  <2>1. CASE Reclaim(r)
    <3>1. Env(r) = e /\ run[r].phase = "read"
      BY <1>0, <1>4, <2>1, TakingAwayIs DEF Plain, SameJob, Env
    <3> QED
      BY <1>5, <1>1, <2>1, <3>1, ReclaimSparesCounted
  <2>2. CASE Release(r)
    <3>1. Env(r) = e /\ run[r].phase = "failing"
      BY <1>0, <1>4, <2>2, TakingAwayIs DEF Plain, SameJob, Env
    <3> QED
      BY <1>5, <1>1, <2>2, <3>1, ReleaseSparesCounted
  <2> QED
    BY <1>0, <1>4, <2>1, <2>2, ComesIs DEF Comes
<1>6. CASE Tear(r) /\ q = r
  BY <1>0, <1>3, <1>6, TearIs DEF Types, SameJob
<1> QED
  BY <1>0, <1>3, <1>4, <1>6

LEMMA InPastKept ==
  ASSUME BackInv, Reaches, NEW r \in Runs, Step(r) \/ Kill(r)
  PROVE  InPast'
<1>0. Types
  BY DEF BackInv, BuildInv
<1> SUFFICES ASSUME NEW e \in Environments,
                    \/ \E d \in Destinations : Linked(d, e)'
                    \/ \E q \in Runs : Recalls(q, e)'
             PROVE  e \in promoted'
  BY DEF InPast
<1>1. ASSUME NEW d \in Destinations, Linked(d, e)' PROVE e \in promoted'
  <2>1. CASE e \in promoted
    BY <1>0, <1>1, <2>1, PastGoes, ForgottenHasNoLink
  <2>2. CASE e \notin promoted
    <3>1. UndoLink(r) /\ run[r].before = LinkTo(e) => Recalls(r, e)
      BY DEF UndoLink, At, Recalls, BeforeUndo, Promoting, BackInv, OnePromotes
    <3> QED
      BY <1>0, <1>1, <2>2, <3>1, LinksGo DEF Reaches, InPast
  <2> QED
    BY <2>1, <2>2
<1>2. ASSUME NEW q \in Runs, Recalls(q, e)' PROVE e \in promoted'
  <2>1. e \in promoted
    BY <1>2, RecallsGo DEF Reaches, InPast
  <2>2. ~UndoLink(r)
    <3> SUFFICES ASSUME UndoLink(r) PROVE FALSE
      OBVIOUS
    <3>1. run[r].phase = "undo link" /\ promoter' = promoter /\ run'[r].phase = "undo entry"
      BY <1>0, UndoLinkIs DEF Plain, Moves, UndoLink, At
    <3>2. promoter = r
      BY <3>1 DEF BackInv, OnePromotes, Promoting
    <3> QED
      BY <1>2, <3>1, <3>2 DEF Recalls, BeforeUndo
  <2> QED
    BY <1>0, <2>1, <2>2, PastGoes
<1> QED
  BY <1>1, <1>2

LEMMA ChosenOnesKept ==
  ASSUME BackInv, Reaches, NEW r \in Runs, Step(r) \/ Kill(r)
  PROVE  ChosenOnes'
<1>0. Types /\ \A p \in Runs : p # r => run'[p] = run[p]
  BY StepSpares DEF BackInv, BuildInv, Spares
<1> SUFFICES ASSUME NEW q \in Runs, run'[q].phase \in Promoting \ {"commit"}
             PROVE  record'.selected = run'[q].env
  BY DEF ChosenOnes, Env
<1>1. CASE q # r
  <2>1. run'[q] = run[q] /\ record.selected = Env(q) /\ promoter = q
    BY <1>0, <1>1 DEF Reaches, ChosenOnes, BackInv, OnePromotes
  <2>2. run[r].phase \notin Promoting
    BY <1>1, <2>1 DEF BackInv, OnePromotes
  <2> QED
    BY <1>0, <2>1, <2>2, SelectedGoes DEF Promoting, Env
<1>2. CASE q = r
  <2>1. CASE Finish(r)
    BY <1>0, <1>2, <2>1, FinishIs DEF Plain, SameJob, Env, Finish, Finishable
  <2>2. CASE Commit(r)
    BY <1>0, <1>2, <2>2, NextPhase, RecordIs DEF Plain, SameJob, Env, Writes
  <2>3. CASE \/ Note(r) \/ Place(r) \/ PlaceFails(r) \/ Land(r) \/ UndoLink(r)
             \/ UndoLinkFails(r) \/ UndoEntry(r) \/ UndoEntryFails(r)
    <3>1. run[r].phase \in Promoting \ {"commit", "undo selection"}
      BY <2>3 DEF Note, Place, PlaceFails, Land, UndoLink, UndoLinkFails, UndoEntry,
                  UndoEntryFails, At, Promoting
    <3>2. SameJob(r)
      <4>1. CASE Note(r) \/ Place(r) \/ PlaceFails(r) \/ Land(r)
        BY <1>0, <4>1, NextPhase DEF Plain
      <4>2. CASE UndoLink(r) \/ UndoLinkFails(r)
        BY <1>0, <4>2, UndoLinkIs DEF Plain
      <4>3. CASE UndoEntry(r) \/ UndoEntryFails(r)
        BY <1>0, <4>3, UndoEntryIs DEF Plain, Ends
      <4> QED
        BY <2>3, <4>1, <4>2, <4>3
    <3>3. record'.selected = record.selected /\ record.selected = Env(r)
      BY <1>0, <3>1, SelectedGoes DEF Reaches, ChosenOnes
    <3> QED
      BY <1>2, <3>2, <3>3 DEF SameJob, Env
  <2> QED
    BY <1>0, <1>2, <2>1, <2>2, <2>3, ComesIs DEF Comes, Promoting
<1> QED
  BY <1>1, <1>2

\* No link to what q built comes from another.
LEMMA OthersPlaceNone ==
  ASSUME BuildInv, NEW r \in Runs, NEW q \in Runs, q # r, run[r].phase = "place",
         Env(r) = Env(q), Building(q), Apart(q)
  PROVE  FALSE
<1>0. run[r] \in RunStates
  BY FieldsOfRun DEF BuildInv, Types
<1>1. CASE run[r].job = "install"
  <2>1. Building(r) /\ Apart(r)
    BY <1>1 DEF Building, Wholes, Apart
  <2>2. dirs[Env(r)].by = r /\ dirs[Env(q)].by = q
    BY <2>1 DEF BuildInv, OwnDirs, Own
  <2> QED
    BY <2>2
<1>2. CASE run[r].job = "finish"
  <2>1. Threatens(r)
    BY <1>2 DEF Threatens, Finishes, Ended
  <2> QED
    BY <2>1 DEF BuildInv, Alone
<1> QED
  BY <1>0, <1>1, <1>2 DEF RunStates

\* Until it places its link there is none to what a run builds, nor does one go back to it.
LEMMA BuiltIsNowhere ==
  ASSUME BackInv, Reaches, NEW r \in Runs, Building(r),
         run[r].phase \in {"stage", "build", "ready", "commit", "place"}, Env(r) \in Spared
  PROVE  Nowhere(Env(r))
<1>1. CASE run[r].phase \in {"stage", "build"}
  <2>1. Env(r) \in Environments /\ Apart(r)
    BY DEF Spared, Crossed, Apart
  <2>2. ~Whole(Env(r))
    BY <1>1, <2>1 DEF BackInv, BuildInv, OwnDirs, Own, Whole
  <2> QED
    BY <2>1, <2>2 DEF Reaches, CountsWhole, Counts, Nowhere
<1>2. CASE run[r].phase \notin {"stage", "build"}
  BY <1>2 DEF Building, Reaches, Unlinked
<1> QED
  BY <1>1, <1>2

LEMMA UnlinkedKept ==
  ASSUME BackInv, Reaches, NEW r \in Runs, Step(r) \/ Kill(r)
  PROVE  Unlinked'
<1>0. BuildInv /\ Types /\ \A p \in Runs : p # r => run'[p] = run[p]
  BY StepSpares DEF BackInv, BuildInv, Spares
<1> SUFFICES ASSUME NEW q \in Runs, run'[q].job = "install", run'[q].env \in Spared',
                    run'[q].phase \in {"ready", "commit", "place"}
             PROVE  /\ \A d \in Destinations : ~Linked(d, Env(q))'
                    /\ \A p \in Runs : ~Recalls(p, Env(q))'
  BY DEF Unlinked, Nowhere, Env
<1>5. run'[q].env \in Spared /\ ~locks[run'[q].env].met
  BY <1>0, SparedBefore
<1>1. /\ run'[q].env = Env(q) /\ Building(q)
      /\ run[q].phase \in {"build", "ready", "commit", "place"}
      /\ q = r => run[r].phase # "place"
  <2>1. CASE q # r
    <3>1. run'[q] = run[q]
      BY <1>0, <2>1
    <3> QED
      BY <2>1, <3>1 DEF Building, Wholes, Env
  <2>2. CASE q = r
    <3>1. CASE Build(r)
      <4>1. run[r].phase = "build" /\ RunsOK /\ "ready" \in Phases
        BY <1>0, <3>1 DEF Build, At, Types, Phases
      <4>2. SameJob(r)
        BY <3>1, <4>1, ToIs DEF Build
      <4> QED
        BY <2>2, <4>1, <4>2 DEF SameJob, Building, Env
    <3>2. CASE Judge(r)
      BY <1>0, <2>2, <3>2, JudgeIs DEF Plain, SameJob, Building, Wholes, Env
    <3>3. CASE Commit(r)
      <4>1. run[r].phase = "commit" /\ SameJob(r)
        BY <1>0, <3>3, NextPhase DEF Plain, Commit, At
      <4> QED
        BY <2>2, <4>1 DEF SameJob, Building, Wholes, Env
    <3>4. CASE Note(r)
      <4>1. run[r].phase = "note" /\ SameJob(r)
        BY <1>0, <3>4, NextPhase DEF Plain, Note, At
      <4> QED
        BY <1>0, <2>2, <4>1 DEF BuildInv, JobsAre, SameJob
    <3> QED
      BY <1>0, <2>2, <3>1, <3>2, <3>3, <3>4, ComesIs DEF Comes
  <2> QED
    BY <2>1, <2>2
<1>2. PICK e \in Environments : e = Env(q) /\ e = run'[q].env
  BY <1>1, <1>5 DEF Spared
<1>6. Nowhere(e) /\ Apart(q)
  BY <1>1, <1>2, <1>5, BuiltIsNowhere DEF Apart
<1>3. ASSUME NEW d \in Destinations, Linked(d, e)' PROVE FALSE
  <2>1. CASE run[r].phase = "place" /\ e = Env(r)
    BY <1>0, <1>1, <1>2, <1>6, <2>1, OthersPlaceNone
  <2>2. CASE UndoLink(r) /\ run[r].before = LinkTo(e)
    <3>1. Recalls(r, e)
      BY <2>2 DEF UndoLink, At, Recalls, BeforeUndo, Promoting, BackInv, OnePromotes
    <3> QED
      BY <1>6, <3>1 DEF Nowhere
  <2> QED
    BY <1>0, <1>6, <1>3, <2>1, <2>2, LinksGo DEF Nowhere
<1>4. ASSUME NEW p \in Runs, Recalls(p, e)' PROVE FALSE
  BY <1>6, <1>4, RecallsGo DEF Nowhere
<1> QED
  BY <1>2, <1>3, <1>4 DEF Linked, Recalls, Env

\* Another's step leaves a run at its path.
LEMMA OthersKeepAtPath ==
  ASSUME BackInv, Reaches, NEW r \in Runs, Step(r) \/ Kill(r), NEW q \in Runs, q # r, AtPath(q)',
         Env(q)' \in Spared'
  PROVE  run'[q] = run[q] /\ OnlyAt(Env(q), run[q].path)'
<1>0. BuildInv /\ Types /\ run'[q] = run[q] /\ Aside(r)
  BY StepSpares DEF BackInv, BuildInv, Spares
<1>1. AtPath(q) /\ Env(q) \in Spared /\ Env(q) \in Environments /\ Apart(q)
  <2>1. Env(q) \in Spared /\ Env(q) \in Environments /\ Apart(q)
    BY <1>0, SparedBefore DEF Env, Apart
  <2>2. Building(q)
    BY <1>0, OthersStay DEF BuildInv, AtPath
  <2> QED
    BY <1>0, <2>1, <2>2 DEF AtPath
<1>2. OnlyAt(Env(q), run[q].path) /\ Building(q)
  BY <1>1 DEF Reaches, LinkedAtPath, AtPath
<1>3. PICK e \in Environments, path \in {run[q].path} : e = Env(q) /\ path = run[q].path
  BY <1>1
<1>4. ASSUME NEW d \in Destinations, Linked(d, e)' PROVE d = path
  <2>1. ~(run[r].phase = "place" /\ e = Env(r))
    BY <1>0, <1>1, <1>2, <1>3, OthersPlaceNone
  <2>2. UndoLink(r) /\ run[r].before = LinkTo(e) => Recalls(r, e)
    BY DEF UndoLink, At, Recalls, BeforeUndo, Promoting, BackInv, OnePromotes
  <2> QED
    BY <1>0, <1>2, <1>3, <1>4, <2>1, <2>2, LinksGo DEF OnlyAt
<1>5. ASSUME NEW p \in Runs, Recalls(p, e)' PROVE run'[p].path = path
  BY <1>2, <1>3, <1>5, RecallsGo DEF OnlyAt
<1>6. run'[q].path = path /\ run'[q].env = e
  BY <1>0, <1>3 DEF Env
<1>7. OnlyAt(e, path)'
  BY <1>4, <1>5, <1>6 DEF OnlyAt, Linked, Recalls
<1> QED
  BY <1>0, <1>1, <1>3, <1>6, <1>7 DEF OnlyAt, Linked, Recalls, Env

\* A run comes to be past its placing, or to have failed, from where it built.
LEMMA ComesFromBuilding ==
  ASSUME BuildInv, NEW r \in Runs, Step(r) \/ Kill(r), AtPath(r)'
  PROVE  /\ Building(r) /\ run[r].phase \in {"stage", "build"} \cup Wholes
         /\ run'[r].env = Env(r)
         /\ run'[r].path = run[r].path \/ run[r].phase = "ready"
<1>0. Types /\ RunsOK
  BY DEF BuildInv, Types
<1>1. /\ SameJob(r) /\ locks' = locks
      /\ run[r].phase \in {"hold", "claim", "stage", "build"} \cup Wholes
      /\ run'[r].path = run[r].path \/ run[r].phase = "ready"
      /\ run[r].phase \in {"hold", "claim"} => run'[r].phase = "failing"
  <2>1. CASE Place(r) \/ PlaceFails(r) \/ Land(r) \/ UndoLink(r) \/ UndoLinkFails(r)
    BY <1>0, <2>1, NextPhase, UndoLinkIs DEF Plain, SameFinds, Wholes
  <2>2. CASE UndoEntry(r) \/ UndoEntryFails(r)
    BY <1>0, <2>2, UndoEntryIs DEF Plain, SameFinds, Wholes, Ends, Moves, AtPath
  <2>3. CASE NotHad(r) \/ ClaimFails(r) \/ BuildFails(r) \/ CommitFails(r) \/ UndoSelection(r)
             \/ UndoSelectionFails(r)
    BY <1>0, <2>3, FailsIs DEF Plain, Moves, SameFinds, Wholes
  <2>4. CASE Refused(r)
    BY <1>0, <2>4, RefusedIs DEF Plain, Wholes
  <2>5. CASE SettleFails(r)
    <3>1. run[r].phase = "settle"
      BY <2>5 DEF SettleFails, At
    <3>2. ~End(r)
      BY <1>0, <3>1, EndIs DEF Ends, Moves, AtPath
    <3>3. Failing(r, FALSE) /\ locks' = locks
      BY <2>5, <3>2 DEF SettleFails, KeepLocks
    <3> QED
      BY <1>0, <3>1, <3>3, FailingIs DEF SameFinds, Wholes
  <2> QED
    BY <1>0, <2>1, <2>2, <2>3, <2>4, <2>5, ComesIs DEF Comes, AtPath
<1>2. run[r].job = "install" /\ run'[r].env = Env(r)
  BY <1>1 DEF SameJob, AtPath, Building, Env
<1>3. run[r].phase \notin {"hold", "claim"}
  <2>1. run[r].phase \in {"hold", "claim"} => Inside(r)'
    BY <1>1, <1>2 DEF BuildInv, LocksHeld, Holding, Deciding, Inside, Env
  <2> QED
    BY <1>1, <2>1 DEF AtPath, Building, Wholes
<1> QED
  BY <1>1, <1>2, <1>3 DEF Building

\* How r comes to be at its path.
LEMMA ComesToItsPath ==
  ASSUME BackInv, Reaches, NEW r \in Runs, Step(r) \/ Kill(r), AtPath(r)', Env(r)' \in Spared'
  PROVE  /\ Env(r) \in Environments /\ run'[r].env = Env(r) /\ OnlyAt(Env(r), run[r].path)
         /\ run'[r].path = run[r].path \/ (Nowhere(Env(r)) /\ run[r].phase # "place")
<1>0. BuildInv
  BY DEF BackInv
<1>1. /\ Building(r) /\ run[r].phase \in {"stage", "build"} \cup Wholes
      /\ run'[r].env = Env(r)
      /\ run'[r].path = run[r].path \/ run[r].phase = "ready"
  BY <1>0, ComesFromBuilding
<1>2. Env(r) \in Spared /\ Env(r) \in Environments
  BY <1>0, <1>1, SparedBefore DEF Env
<1>3. CASE run[r].phase \in {"stage", "build", "ready", "commit", "place"}
  <2>1. Nowhere(Env(r))
    BY <1>1, <1>2, <1>3, BuiltIsNowhere
  <2> QED
    BY <1>1, <1>2, <2>1 DEF Nowhere, OnlyAt
<1>4. CASE run[r].phase \notin {"stage", "build", "ready", "commit", "place"}
  <2>1. AtPath(r)
    BY <1>1, <1>4 DEF AtPath, Wholes
  <2> QED
    BY <1>1, <1>2, <1>4, <2>1 DEF Reaches, LinkedAtPath
<1> QED
  BY <1>3, <1>4

LEMMA LinkedAtPathKept ==
  ASSUME BackInv, Reaches, NEW r \in Runs, Step(r) \/ Kill(r)
  PROVE  LinkedAtPath'
<1>0. Types
  BY DEF BackInv, BuildInv
<1>1. ASSUME NEW q \in Runs, AtPath(q)', Env(q)' \in Spared' PROVE OnlyAt(Env(q), run[q].path)'
  <2>1. CASE q # r
    <3>1. run'[q] = run[q] /\ OnlyAt(Env(q), run[q].path)'
      BY <1>1, <2>1, OthersKeepAtPath
    <3> QED
      BY <3>1
  <2>2. CASE q = r
    <3>1. /\ Env(r) \in Environments /\ run'[r].env = Env(r) /\ OnlyAt(Env(r), run[r].path)
          /\ run'[r].path = run[r].path \/ (Nowhere(Env(r)) /\ run[r].phase # "place")
      BY <1>1, <2>2, ComesToItsPath
    <3>2. PICK e \in Environments : e = Env(r) /\ e = run'[r].env
      BY <3>1
    <3>3. ASSUME NEW d \in Destinations, Linked(d, e)' PROVE d = run'[r].path
      <4>1. UndoLink(r) /\ run[r].before = LinkTo(e) => Recalls(r, e)
        BY DEF UndoLink, At, Recalls, BeforeUndo, Promoting, BackInv, OnePromotes
      <4> QED
        BY <1>0, <3>1, <3>2, <3>3, <4>1, LinksGo DEF OnlyAt, Nowhere
    <3>4. ASSUME NEW p \in Runs, Recalls(p, e)' PROVE run'[p].path = run'[r].path
      BY <3>1, <3>2, <3>4, RecallsGo DEF OnlyAt, Nowhere
    <3> QED
      BY <2>2, <3>2, <3>3, <3>4 DEF OnlyAt, Linked, Recalls, Env
  <2> QED
    BY <2>1, <2>2
<1> QED
  BY <1>1 DEF LinkedAtPath

LEMMA ReachesKept ==
  ASSUME BackInv, Reaches, NEW r \in Runs, Step(r) \/ Kill(r)
  PROVE  Reaches'
BY CountsWholeKept, NoneTakesKept, InPastKept, ChosenOnesKept, UnlinkedKept, LinkedAtPathKept
   DEF Reaches

\* A link that is moved by hand is none that a run placed.
LEMMA AroundCounts ==
  ASSUME Types,
         NEW x \in Destinations, NEW t \in Environments \cup {Elsewhere, None}, HandLink(x, t)
  PROVE  /\ \A d \in Destinations, e \in Environments : Linked(d, e)' => Linked(d, e)
         /\ \A e \in Environments : Counts(e)' => Counts(e)
<1>1. run' = run /\ record' = record /\ promoter' = promoter
  BY AroundRuns
<1>2. ASSUME NEW d \in Destinations, NEW e \in Environments, Linked(d, e)' PROVE Linked(d, e)
  <2>2. links' = [links EXCEPT ![x] = [to |-> t, by |-> IF t = None THEN None ELSE "hand"]]
    BY DEF HandLink
  <2>3. x = d => links'[d] = [to |-> t, by |-> IF t = None THEN None ELSE "hand"]
    BY <2>2 DEF Types
  <2>4. x # d => links'[d] = links[d]
    BY <2>2 DEF Types
  <2>5. x # d
    BY <1>2, <2>3, InstallerAssumption DEF Linked, LinkTo
  <2> QED
    BY <1>2, <2>4, <2>5 DEF Linked
<1>3. \A r \in Runs, e \in Environments : /\ Recalls(r, e)' = Recalls(r, e)
                                          /\ Restores(r, e)' = Restores(r, e)
  BY <1>1 DEF Recalls, Restores
<1>4. \A e \in Environments : Counts(e)' => Counts(e)
  BY <1>1, <1>2, <1>3 DEF Counts
<1> QED
  BY <1>2, <1>4

\* Where nothing comes to count, and the rest stays.
AllButLinks ==
  /\ dirs' = dirs /\ run' = run /\ record' = record /\ promoter' = promoter /\ locks' = locks
  /\ promoted' = promoted /\ reclaimed' = reclaimed

LEMMA AroundReaches ==
  ASSUME Types, Reaches, AllButLinks,
         \A d \in Destinations, e \in Environments : Linked(d, e)' => Linked(d, e),
         \A e \in Environments : Counts(e)' => Counts(e)
  PROVE  Reaches' /\ Spared' = Spared
<1>1. AllButLinks
  OBVIOUS
<1>3. /\ \A d \in Destinations, e \in Environments : Linked(d, e)' => Linked(d, e)
      /\ \A e \in Environments : Counts(e)' => Counts(e)
  OBVIOUS
<1>4. \A r \in Runs, e \in Environments : Recalls(r, e)' = Recalls(r, e)
  BY <1>1 DEF AllButLinks, Recalls
<1>6. Spared \subseteq Environments /\ Spared' = Spared
  BY <1>1 DEF AllButLinks, Spared, Crossed
<1>7. CountsWhole' /\ NoneTakes'
  BY <1>1, <1>3, <1>6 DEF AllButLinks, Reaches, CountsWhole, Whole, NoneTakes, Env
<1>9. InPast'
  BY <1>1, <1>3, <1>4 DEF AllButLinks, Reaches, InPast
<1>10. ChosenOnes'
  BY <1>1 DEF AllButLinks, Reaches, ChosenOnes, Env
<1>11. \A e \in Environments : Nowhere(e) => Nowhere(e)'
  BY <1>3, <1>4 DEF Nowhere
<1>12. Unlinked'
  BY <1>1, <1>6, <1>11 DEF AllButLinks, Reaches, Unlinked, Env
<1>13. LinkedAtPath'
  <2> SUFFICES ASSUME NEW r \in Runs, AtPath(r)', Env(r)' \in Spared'
               PROVE  OnlyAt(Env(r), run[r].path)'
    BY DEF LinkedAtPath
  <2>1. AtPath(r) /\ Env(r) \in Spared /\ Env(r) \in Environments /\ run'[r].env = Env(r)
    BY <1>1, <1>6 DEF AllButLinks, AtPath, Building, Inside, Env
  <2>2. OnlyAt(Env(r), run[r].path)
    BY <2>1 DEF Reaches, LinkedAtPath
  <2> QED
    BY <1>1, <1>3, <1>4, <2>1, <2>2 DEF AllButLinks, OnlyAt, Env
<1> QED
  BY <1>6, <1>7, <1>9, <1>10, <1>12, <1>13 DEF Reaches

LEMMA ReachInvKept ==
  ASSUME ReachInv, [Next]_vars
  PROVE  ReachInv'
<1>0. BackInv' /\ BackInv /\ Types
  BY BackInvKept DEF ReachInv, BackInv, BuildInv
<1>1. ASSUME NEW r \in Runs, Step(r) \/ Kill(r) PROVE ReachInv'
  BY <1>0, <1>1, ReachesKept DEF ReachInv
<1>2. ASSUME NEW d \in Destinations, NEW t \in Environments \cup {Elsewhere, None}, HandLink(d, t)
      PROVE  ReachInv'
  <2>1. AllButLinks
    BY <1>0, <1>2, AroundRuns DEF AllButLinks, HandLink, KeepPast
  <2> QED
    BY <1>0, <1>2, <2>1, AroundCounts, AroundReaches DEF ReachInv
<1>3. CASE UNCHANGED vars
  <2>1. AllButLinks /\ links' = links
    BY <1>3 DEF vars, AllButLinks
  <2>2. /\ \A d \in Destinations, e \in Environments : Linked(d, e)' => Linked(d, e)
        /\ \A e \in Environments : Counts(e)' => Counts(e)
    BY <2>1 DEF AllButLinks, Linked, Counts, Recalls, Restores
  <2> QED
    BY <1>0, <2>1, <2>2, AroundReaches DEF ReachInv
<1> QED
  BY <1>1, <1>2, <1>3 DEF Next

LEMMA CountsAtFirst ==
  ASSUME Init, NEW e \in Environments, Counts(e)
  PROVE  Whole(e) /\ record.selected = e /\ e \in record.installs
<1>1. promoter = None /\ \A r \in Runs : r # promoter
  BY InstallerAssumption DEF Init
<1>2. CASE Clean
  BY <1>1, <1>2, InstallerAssumption DEF Clean, Counts, Linked, Recalls, Restores, NoLink, LinkTo
<1>3. ASSUME NEW x \in Environments, Legacy(x)
      PROVE  Whole(e) /\ record.selected = e /\ e \in record.installs
  <2>1. e = x /\ record.selected = x /\ record.installs = {x}
    BY <1>1, <1>3, InstallerAssumption
       DEF Legacy, Counts, Linked, Recalls, Restores, NoLink, LinkTo
  <2> QED
    BY <1>3, <2>1 DEF Legacy, Whole, Old, NoDir
<1>4. ASSUME NEW x \in Environments, Installed(x)
      PROVE  Whole(e) /\ record.selected = e /\ e \in record.installs
  <2>1. e = x /\ record.selected = x /\ record.installs = {x}
    BY <1>1, <1>4, InstallerAssumption
       DEF Installed, Counts, Linked, Recalls, Restores, NoLink, LinkTo
  <2> QED
    BY <1>4, <2>1 DEF Installed, Whole, Kept, Old, NoDir
<1> QED
  BY <1>2, <1>3, <1>4 DEF Init

LEMMA ReachInvAtFirst ==
  ASSUME Init
  PROVE  ReachInv
<1>1. promoter = None /\ \A r \in Runs : run[r].phase = "idle" /\ r # promoter
  BY InstallerAssumption DEF Init, Idle
<1>2. \A e \in Environments : Counts(e) => Whole(e) /\ record.selected = e
  BY CountsAtFirst
<1>3. InPast
  <2> SUFFICES ASSUME NEW e \in Environments, NEW d \in Destinations, Linked(d, e)
               PROVE  e \in promoted
    BY <1>1 DEF InPast, Recalls
  <2>1. CASE Clean
    BY <2>1, InstallerAssumption DEF Clean, Linked, NoLink, LinkTo
  <2>2. ASSUME NEW x \in Environments, Legacy(x) PROVE FALSE
    BY <2>2, InstallerAssumption DEF Legacy, Linked, NoLink, LinkTo
  <2>3. ASSUME NEW x \in Environments, Installed(x) PROVE e \in promoted
    BY <2>3, InstallerAssumption DEF Installed, Linked, NoLink, LinkTo
  <2> QED
    BY <2>1, <2>2, <2>3 DEF Init
<1>4. CountsWhole /\ NoneTakes
  BY <1>1, <1>2 DEF CountsWhole, NoneTakes, Spared
<1>5. ChosenOnes /\ Unlinked /\ LinkedAtPath
  BY <1>1 DEF ChosenOnes, Unlinked, LinkedAtPath, AtPath, Promoting
<1> QED
  BY <1>3, <1>4, <1>5, BackInvAtFirst DEF ReachInv, Reaches

\* What the record selects, and what a host reaches through a link a run placed, was built to its
\* end and is being taken away by nobody (install, _finish_promotion, staging.decide and
\* release_candidate), except for a directory that was taken away although it was reached, or
\* whose name two runs were let into the lock of at once.
THEOREM ReachesWhole == Spec => []ReachedIsWhole
<1>1. Init => ReachInv
  BY ReachInvAtFirst
<1>2. ReachInv /\ [Next]_vars => ReachInv'
  BY ReachInvKept
<1>3. ReachInv => ReachedIsWhole
  BY DEF ReachInv, Reaches, CountsWhole, Counts, Linked, Whole, Spared, ReachedIsWhole
<1> QED
  BY <1>1, <1>2, <1>3, PTL DEF Spec
-----------------------------------------------------------------------------
(***************************************************************************)
(* What can be put right.                                                  *)
(***************************************************************************)
\* One failure, and no link moved by hand.
Quiet == hands = 0 /\ faults <= 1

\* The claim of e says that a promotion of it came to its end, or is about to.
Sealed(e) ==
  /\ e \notin Crossed
  /\ dirs[e].claim = "COMPLETE" \/ \E q \in Runs : At(q, "settle") /\ Env(q) = e

Reached(e) == \E d \in Destinations : Names(d, e)

\* Going back, the promotion of r leads to a link to e.
LeadsBack(e, r) ==
  run[r].before.to = e \/ \E d \in Destinations : d # run[r].path /\ Names(d, e)

SealedIsReached ==
  Quiet /\ record.selected # None /\ Sealed(record.selected) => Reached(record.selected)

\* Who promotes remembers the link to what was selected, and to what it finishes.
Remembers ==
  Quiet => \A r \in Runs : run[r].phase \in Promoting =>
    /\ run[r].job = "install" /\ run[r].prev # None /\ Sealed(run[r].prev)
         => LeadsBack(run[r].prev, r)
    /\ run[r].job = "finish" /\ Sealed(Env(r)) => LeadsBack(Env(r), r)

\* Links are those that runs placed.
ByRun(link) == link.to # None => link.to \in Environments /\ link = LinkTo(link.to)

OnlyRuns ==
  hands = 0 =>
    /\ \A d \in Destinations : ByRun(links[d])
    /\ \A r \in Runs : run[r].phase \in Promoting => ByRun(run[r].before)

\* Who takes over what it found has found nothing in it, nor has anybody put something there.
AdoptsEmpty ==
  \A r \in Runs : run[r].phase = "adopt" /\ Apart(r) => dirs[Env(r)].built = "none"

\* What a run built, and no removal has begun at, is claimed.
FilledIsClaimed ==
  \A e \in Environments \ Crossed :
    dirs[e].by # None /\ ~dirs[e].torn /\ dirs[e].built # "none" => dirs[e].claim # "none"

PlacedIsPast ==
  \A r \in Runs : run[r].phase \in {"placed", "settle"} /\ Apart(r) => Env(r) \in promoted

CompleteIsPast ==
  Quiet => \A e \in Environments \ Crossed :
             dirs[e].by # None /\ dirs[e].claim = "COMPLETE" => e \in promoted

SealInv ==
  /\ ReachInv /\ SealedIsReached /\ Remembers /\ OnlyRuns /\ AdoptsEmpty /\ FilledIsClaimed
  /\ PlacedIsPast /\ CompleteIsPast

LEMMA QuietBefore ==
  ASSUME Types, NEW r \in Runs, Step(r) \/ Kill(r)
  PROVE  hands' = hands /\ (Quiet' => Quiet)
<1>1. hands' = hands /\ (faults' = faults \/ faults' = faults + 1) /\ faults \in Nat
  BY OthersWriteNothing, WritersAre DEF Types
<1> QED
  BY <1>1 DEF Quiet

\* What a step of r makes of a link.
LEMMA LinkGoes ==
  ASSUME Types, NEW r \in Runs, Step(r) \/ Kill(r), NEW d \in Destinations
  PROVE  \/ links'[d] = links[d]
         \/ run[r].phase = "place" /\ d = run[r].path /\ links'[d] = LinkTo(Env(r))
         \/ UndoLink(r) /\ d = run[r].path /\ links'[d] = LinkBack(r)
<1>0. links \in [Destinations -> LinksAt]
  BY DEF Types
<1>1. CASE ~Writes(r)
  BY <1>1, OthersWriteNothing
<1>2. CASE \/ Commit(r) \/ CommitFails(r) \/ Note(r) \/ NoteFails(r)
           \/ UndoEntry(r) \/ UndoEntryFails(r) \/ UndoSelection(r) \/ UndoSelectionFails(r)
  BY <1>2 DEF Commit, CommitFails, Note, NoteFails, UndoEntry, UndoEntryFails, UndoSelection,
              UndoSelectionFails, KeepLinks
<1>3. CASE Place(r) \/ PlaceFails(r)
  <2>1. links' = links \/ links' = [links EXCEPT ![run[r].path] = LinkTo(Env(r))]
    BY <1>3 DEF Place, PlaceFails, Placing
  <2> QED
    BY <1>0, <1>3, <2>1 DEF Place, PlaceFails, At
<1>4. CASE UndoLink(r)
  BY <1>0, <1>4 DEF UndoLink
<1> QED
  BY <1>1, <1>2, <1>3, <1>4 DEF Writes

\* A name no two runs have met at by now is one they had not met at.
LEMMA UncrossedBefore ==
  ASSUME BuildInv, NEW r \in Runs, Step(r) \/ Kill(r), NEW e \in Environments, e \notin Crossed'
  PROVE  e \notin Crossed /\ ~locks[e].met /\ ~locks'[e].met
<1>1. locks[e].met => locks'[e].met
  BY StepSpares DEF Spares, Aside
<1> QED
  BY <1>1 DEF Crossed

\* Who makes the claim of a directory complete.
LEMMA ClaimGoes ==
  ASSUME BuildInv, NEW r \in Runs, Step(r) \/ Kill(r), NEW e \in Environments,
         dirs'[e].claim = "COMPLETE"
  PROVE  \/ dirs[e].claim = "COMPLETE" /\ dirs'[e].by \in {dirs[e].by, None}
         \/ run[r].phase = "settle" /\ e = Env(r)
<1>1. DirGoes(r, e)
  BY DirGoesIs
<1>2. CASE Same(e)
  BY <1>2 DEF Same, Alike
<1>3. CASE e = Env(r) /\ (Anew(r) \/ Builds(r) \/ TakesAway(r))
  BY <1>3 DEF Anew, Builds, TakesAway
<1>4. CASE e = Env(r) /\ Marks(r)
  BY <1>4 DEF Marks, Alike
<1> QED
  BY <1>1, <1>2, <1>3, <1>4 DEF DirGoes

LEMMA SealedGoes ==
  ASSUME BuildInv, NEW r \in Runs, Step(r) \/ Kill(r), NEW e \in Environments, Sealed(e)'
  PROVE  Sealed(e) \/ (Land(r) /\ e = Env(r) /\ run'[r].phase = "settle")
<1>0. Types /\ \A q \in Runs : q # r => run'[q] = run[q]
  BY StepSpares DEF BuildInv, Spares
<1>3. e \notin Crossed
  BY UncrossedBefore DEF Sealed
<1>1. CASE dirs'[e].claim = "COMPLETE"
  BY <1>1, <1>3, ClaimGoes DEF Sealed, At
<1>2. ASSUME NEW q \in Runs, run'[q].phase = "settle", run'[q].env = e
      PROVE  Sealed(e) \/ (Land(r) /\ e = Env(r) /\ run'[r].phase = "settle")
  <2>1. CASE run'[q] = run[q]
    BY <1>2, <1>3, <2>1 DEF Sealed, At, Env
  <2>2. CASE q = r /\ run'[r] # run[r]
    <3>1. Land(r)
      BY <1>0, <1>2, <2>2, ComesIs DEF Comes
    <3>2. run'[r].env = run[r].env
      BY <1>0, <3>1, NextPhase DEF Plain, SameJob
    <3> QED
      BY <1>2, <2>2, <3>1, <3>2 DEF Env
  <2> QED
    BY <1>0, <2>1, <2>2
<1> QED
  BY <1>1, <1>2 DEF Sealed, At, Env

\* What a run builds, or lives in after it failed, is not sealed.
LEMMA NotYetSealed ==
  ASSUME BuildInv, NEW r \in Runs, run[r].job = "install",
         run[r].phase \in {"ready", "commit", "place", "placed", "undo link", "undo entry",
                           "undo selection"}
  PROVE  ~Sealed(Env(r))
<1>1. Building(r) /\ Env(r) \in Environments
  <2>1. Building(r)
    BY DEF Building, Wholes
  <2> QED
    BY <2>1, Workplace DEF BuildInv
<1> SUFFICES ASSUME Sealed(Env(r)) PROVE FALSE
  OBVIOUS
<1>2. Apart(r)
  BY <1>1 DEF Sealed, Apart, Crossed
<1>3. dirs[Env(r)].claim = "STAGING"
  BY <1>1, <1>2 DEF BuildInv, OwnDirs, Own
<1>4. ASSUME NEW q \in Runs, At(q, "settle"), Env(q) = Env(r) PROVE FALSE
  <2>1. q # r /\ run[q] \in RunStates
    BY <1>4, FieldsOfRun DEF At, BuildInv, Types
  <2>2. Building(q) \/ Finishes(q)
    BY <1>4, <2>1 DEF At, Building, Wholes, Finishes, Ended, RunStates
  <2> QED
    BY <1>1, <1>2, <1>4, <2>1, <2>2, MineAlone DEF Threatens
<1> QED
  BY <1>3, <1>4 DEF Sealed

\* Taking back its link, a run that finishes leaves one to what was promoted before.
LEMMA UndoLeavesOne ==
  ASSUME SealInv, NEW r \in Runs, UndoLink(r), Quiet, Sealed(Env(r)), Env(r) \in Environments
  PROVE  \E d \in Destinations : links'[d].to = Env(r)
<1>0. /\ Types /\ BuildInv /\ Reaches /\ run[r].phase = "undo link" /\ Env(r) # None
      /\ run[r] \in RunStates /\ run[r].path \in Destinations
  BY FieldsOfRun, InstallerAssumption DEF SealInv, ReachInv, BackInv, BuildInv, Types, UndoLink, At
<1>1. run[r].job = "finish"
  BY <1>0, NotYetSealed DEF RunStates
<1>2. LeadsBack(Env(r), r)
  BY <1>0, <1>1 DEF SealInv, Remembers, Promoting
<1>3. links' = [links EXCEPT ![run[r].path] = LinkBack(r)] /\ links \in [Destinations -> LinksAt]
  BY <1>0 DEF UndoLink, Types
<1>4. CASE run[r].before.to = Env(r)
  <2>1. links'[run[r].path] = run[r].before
    BY <1>0, <1>3, <1>4 DEF LinkBack
  <2> QED
    BY <1>0, <1>4, <2>1
<1>5. ASSUME NEW d \in Destinations, d # run[r].path, Names(d, Env(r))
      PROVE  \E x \in Destinations : links'[x].to = Env(r)
  BY <1>3, <1>5 DEF Names
<1> QED
  BY <1>2, <1>4, <1>5 DEF LeadsBack

LEMMA SealedIsReachedKept ==
  ASSUME SealInv, NEW r \in Runs, Step(r) \/ Kill(r)
  PROVE  SealedIsReached'
<1>0. /\ Types /\ BuildInv /\ BackInv /\ Reaches /\ (run[r].phase \in Promoting => promoter = r)
      /\ Types'
  BY TypesKept DEF SealInv, ReachInv, BackInv, BuildInv, OnePromotes, Next
<1> SUFFICES ASSUME Quiet', NEW s \in Environments, record'.selected = s, Sealed(s)'
             PROVE  \E d \in Destinations : links'[d].to = s
  <2>1. record'.selected \in Environments \cup {None}
    BY <1>0 DEF Types, Records
  <2> QED
    BY <2>1 DEF SealedIsReached, Reached, Names
<1>1. Quiet /\ s # None
  BY <1>0, QuietBefore, InstallerAssumption
<1>2. CASE record.selected = s
  <2>1. CASE Land(r) /\ s = Env(r) /\ run'[r].phase = "settle"
    <3>1. Names(run[r].path, Env(r)) /\ run[r].phase = "placed"
      BY <1>0, <2>1, NextPhase DEF Plain, Moves
    <3>2. run[r].path \in Destinations /\ links' = links
      BY <1>0, <2>1, <3>1, FieldsOfRun DEF Types, Land, KeepLinks
    <3> QED
      BY <2>1, <3>1, <3>2 DEF Names
  <2>2. CASE Sealed(s)
    <3>1. PICK d \in Destinations : links[d].to = s
      BY <1>1, <1>2, <2>2 DEF SealInv, SealedIsReached, Reached, Names
    <3>2. run[r].phase \in {"place", "undo link"} => s = Env(r)
      BY <1>2 DEF SealInv, ReachInv, Reaches, ChosenOnes, Promoting
    <3>3. CASE UndoLink(r)
      <4>1. s = Env(r)
        BY <3>2, <3>3 DEF UndoLink, At
      <4> QED
        BY <1>1, <2>2, <3>3, <4>1, UndoLeavesOne
    <3>4. CASE ~UndoLink(r)
      <4>1. \/ links'[d] = links[d]
            \/ run[r].phase = "place" /\ links'[d] = LinkTo(Env(r))
        BY <1>0, <3>4, LinkGoes
      <4>2. LinkTo(Env(r)).to = Env(r)
        BY DEF LinkTo
      <4> QED
        BY <3>1, <3>2, <4>1, <4>2
    <3> QED
      BY <3>3, <3>4
  <2> QED
    BY <1>0, <2>1, <2>2, SealedGoes
<1>3. CASE run[r].phase = "commit" /\ s = Env(r)
  <2>1. run[r].job = "install" /\ ~Land(r)
    BY <1>0, <1>3, FieldsOfRun DEF BuildInv, JobsAre, Finishing, Types, RunStates, Land, At
  <2> QED
    BY <1>0, <1>3, <2>1, SealedGoes, NotYetSealed
<1>4. CASE run[r].phase = "undo selection" /\ s = run[r].prev
  <2>1. /\ run[r].job = "install" /\ ~Land(r) /\ ~UndoLink(r) /\ run[r].path \in Destinations
        /\ promoter = r
    BY <1>0, <1>4, FieldsOfRun
       DEF BuildInv, JobsAre, Finishing, Types, RunStates, Land, UndoLink, At, Promoting
  <2>2. LeadsBack(s, r)
    BY <1>0, <1>1, <1>4, <2>1, SealedGoes DEF SealInv, Remembers, Promoting
  <2>3. \A d \in Destinations : links'[d] = links[d]
    BY <1>0, <1>4, <2>1, LinkGoes
  <2>4. links[run[r].path].to = run[r].before.to
    <3>1. Restored(r)
      BY <1>0, <1>1, <2>1 DEF BackInv, InPromotion, Quiet
    <3>2. faults = 1
      <4>1. faults >= 1
        BY <1>4, <3>1 DEF Restored, Undoing
      <4>2. faults \in Nat /\ faults <= 1
        BY <1>0, <1>1 DEF Quiet, Types
      <4> QED
        BY <4>1, <4>2
    <3> QED
      BY <1>4, <3>1, <3>2 DEF Restored, Undoing
  <2> QED
    BY <2>1, <2>2, <2>3, <2>4 DEF LeadsBack, Names
<1> QED
  BY <1>0, <1>2, <1>3, <1>4, SelectedGoes

\* Who promotes did so before, or has the lock from this step on.
LEMMA PromotingGoes ==
  ASSUME BackInv, NEW r \in Runs, Step(r) \/ Kill(r), NEW q \in Runs, run'[q].phase \in Promoting
  PROVE  \/ /\ run[q].phase \in Promoting /\ promoter = q
            /\ run'[q].job = run[q].job /\ run'[q].env = run[q].env /\ SameFinds(q)
         \/ q = r /\ (Judge(r) \/ Finish(r))
<1>0. Types /\ PassesLock(r)
  BY LockPassed DEF BackInv, BuildInv
<1>1. CASE q # r
  BY <1>0, <1>1 DEF PassesLock, SameFinds, BackInv, OnePromotes
<1>2. CASE q = r
  <2>1. CASE Tear(r)
    BY <1>0, <1>2, <2>1, TearIs DEF Types, SameJob, BackInv, OnePromotes
  <2>2. CASE \/ Commit(r) \/ Note(r) \/ Place(r) \/ PlaceFails(r) \/ Land(r) \/ UndoLink(r)
             \/ UndoLinkFails(r) \/ UndoEntry(r) \/ UndoEntryFails(r)
    <3>1. run[r].phase \in Promoting
      BY <2>2 DEF Commit, Note, Place, PlaceFails, Land, UndoLink, UndoLinkFails, UndoEntry,
                  UndoEntryFails, At, Promoting
    <3>2. SameFinds(r) /\ SameJob(r)
      <4>1. CASE Commit(r) \/ Note(r) \/ Place(r) \/ PlaceFails(r) \/ Land(r)
        BY <1>0, <4>1, NextPhase DEF Plain
      <4>2. CASE UndoLink(r) \/ UndoLinkFails(r)
        BY <1>0, <4>2, UndoLinkIs DEF Plain
      <4>3. CASE UndoEntry(r) \/ UndoEntryFails(r)
        BY <1>0, <1>2, <4>3, UndoEntryIs DEF Plain, Ends, Moves, Promoting
      <4> QED
        BY <2>2, <4>1, <4>2, <4>3
    <3> QED
      BY <1>2, <3>1, <3>2 DEF SameJob, BackInv, OnePromotes
  <2> QED
    BY <1>0, <1>2, <2>1, <2>2, ComesIs DEF Comes, Promoting
<1> QED
  BY <1>1, <1>2

LEMMA RemembersKept ==
  ASSUME SealInv, NEW r \in Runs, Step(r) \/ Kill(r)
  PROVE  Remembers'
<1>0. /\ BackInv /\ BuildInv /\ Types /\ OnePromotes /\ Types'
  BY TypesKept DEF SealInv, ReachInv, BackInv, BuildInv, Next
<1> SUFFICES ASSUME Quiet', NEW q \in Runs, run'[q].phase \in Promoting, NEW e \in Environments,
                    Sealed(e)',
                    (run'[q].job = "install" /\ run'[q].prev = e)
                      \/ (run'[q].job = "finish" /\ run'[q].env = e)
             PROVE  run'[q].before.to = e
                      \/ \E d \in Destinations : d # run'[q].path /\ links'[d].to = e
  <2>1. ASSUME NEW q \in Runs, run'[q].phase \in Promoting
        PROVE  run'[q].prev \in Environments \cup {None} /\ run'[q].env \in Environments
    <3>1. run' \in [Runs -> RunStates] /\ (run'[q].phase # "idle" => run'[q].env \in Environments)
      BY <1>0 DEF Types, RunsOK
    <3> QED
      BY <2>1, <3>1 DEF RunStates, Promoting
  <2> QED
    BY <2>1 DEF Remembers, LeadsBack, Names, Env
<1>1. Quiet
  BY <1>0, QuietBefore
<1>2. CASE /\ run[q].phase \in Promoting /\ promoter = q
           /\ run'[q].job = run[q].job /\ run'[q].env = run[q].env /\ SameFinds(q)
  <2>1. Sealed(e)
    <3>1. CASE Land(r) /\ run'[r].phase = "settle"
      <4>1. promoter = r
        BY <1>0, <3>1 DEF Land, At, OnePromotes, Promoting
      <4> QED
        BY <1>2, <3>1, <4>1 DEF Promoting
    <3> QED
      BY <1>0, <3>1, SealedGoes
  <2>2. LeadsBack(e, q)
    <3>1. e # None
      BY InstallerAssumption
    <3> QED
      BY <1>1, <1>2, <2>1, <3>1 DEF SealInv, Remembers, SameFinds, Env
  <2>3. ASSUME NEW d \in Destinations, d # run[q].path PROVE links'[d] = links[d]
    <3>1. CASE run[r].phase = "place" \/ UndoLink(r)
      <4>1. promoter = r
        BY <1>0, <3>1 DEF UndoLink, At, OnePromotes, Promoting
      <4> QED
        BY <1>0, <1>2, <2>3, <4>1, LinkGoes
    <3> QED
      BY <1>0, <3>1, LinkGoes
  <2> QED
    BY <1>2, <2>2, <2>3 DEF LeadsBack, Names, SameFinds
<1>3. CASE q = r /\ Judge(r)
  <2>1. /\ run[r].phase = "ready" /\ run'[r].job = run[r].job /\ run'[r].prev = record.selected
        /\ run'[r].before = links[run'[r].path] /\ links' = links
    BY <1>0, <1>3, JudgeIs DEF Plain, SameJob
  <2>2. run[r].job # "finish"
    BY <1>0, <2>1 DEF BuildInv, JobsAre, Finishing
  <2>3. Sealed(e)
    <3>1. ~Land(r)
      BY <2>1 DEF Land, At
    <3> QED
      BY <1>0, <3>1, SealedGoes
  <2>4. PICK d \in Destinations : links[d].to = e
    <3>1. record.selected = e /\ e # None
      BY <1>3, <2>1, <2>2, InstallerAssumption
    <3> QED
      BY <1>1, <2>3, <3>1 DEF SealInv, SealedIsReached, Reached, Names
  <2> QED
    BY <1>3, <2>1, <2>4
<1>4. CASE q = r /\ Finish(r)
  <2>1. /\ run[r].phase = "finish" /\ run'[r].job = run[r].job /\ run'[r].env = Env(r)
        /\ run'[r].before = links[run'[r].path] /\ links' = links /\ record.selected = Env(r)
    BY <1>0, <1>4, FinishIs DEF Plain, SameJob, Env, Finish, Finishable
  <2>2. run[r].job = "finish"
    BY <1>0, <2>1 DEF BuildInv, JobsAre
  <2>3. Sealed(e)
    <3>1. ~Land(r)
      BY <2>1 DEF Land, At
    <3> QED
      BY <1>0, <3>1, SealedGoes
  <2>4. PICK d \in Destinations : links[d].to = e
    <3>1. record.selected = e /\ e # None
      BY <1>4, <2>1, <2>2, InstallerAssumption
    <3> QED
      BY <1>1, <2>3, <3>1 DEF SealInv, SealedIsReached, Reached, Names
  <2> QED
    BY <1>4, <2>1, <2>4
<1> QED
  BY <1>0, <1>2, <1>3, <1>4, PromotingGoes

LEMMA OnlyRunsKept ==
  ASSUME SealInv, NEW r \in Runs, Step(r) \/ Kill(r)
  PROVE  OnlyRuns'
<1>0. BackInv /\ Types /\ hands' = hands
  BY QuietBefore DEF SealInv, ReachInv, BackInv, BuildInv
<1> SUFFICES ASSUME hands = 0
             PROVE  /\ \A d \in Destinations : ByRun(links'[d])
                    /\ \A q \in Runs : run'[q].phase \in Promoting => ByRun(run'[q].before)
  BY <1>0 DEF OnlyRuns, ByRun, LinkTo
<1>1. /\ \A d \in Destinations : ByRun(links[d])
      /\ \A q \in Runs : run[q].phase \in Promoting => ByRun(run[q].before)
  BY DEF SealInv, OnlyRuns
<1>2. ASSUME NEW d \in Destinations PROVE ByRun(links'[d])
  <2>1. CASE run[r].phase = "place" /\ links'[d] = LinkTo(Env(r))
    <3>1. Env(r) \in Environments
      BY <1>0, <2>1, FieldsOfRun DEF Types
    <3>2. LinkTo(Env(r)).to = Env(r)
      BY DEF LinkTo
    <3> QED
      BY <2>1, <3>1, <3>2 DEF ByRun
  <2>2. CASE UndoLink(r) /\ links'[d] = LinkBack(r)
    <3>1. run[r].phase = "undo link" /\ run[r].path \in Destinations
      BY <1>0, <2>2, FieldsOfRun DEF UndoLink, At, Types
    <3>2. ByRun(run[r].before) /\ ByRun(links[run[r].path])
      BY <1>1, <3>1 DEF Promoting
    <3>3. ByRun(NoLink)
      BY DEF ByRun, NoLink
    <3> QED
      BY <2>2, <3>2, <3>3 DEF LinkBack
  <2> QED
    BY <1>0, <1>1, <2>1, <2>2, LinkGoes
<1>3. ASSUME NEW q \in Runs, run'[q].phase \in Promoting PROVE ByRun(run'[q].before)
  <2>1. CASE run[q].phase \in Promoting /\ SameFinds(q)
    BY <1>1, <2>1 DEF SameFinds
  <2>2. CASE q = r /\ Judge(r)
    <3>1. run'[r].before = links[run'[r].path] /\ run'[r].path \in Destinations
      BY <1>0, <2>2, JudgeIs DEF Plain, Moves
    <3> QED
      BY <1>1, <2>2, <3>1
  <2>3. CASE q = r /\ Finish(r)
    <3>1. run'[r].before = links[run'[r].path] /\ run'[r].path \in Destinations
      BY <1>0, <2>3, FinishIs DEF Plain, Moves
    <3> QED
      BY <1>1, <2>3, <3>1
  <2> QED
    BY <1>0, <1>3, <2>1, <2>2, <2>3, PromotingGoes
<1> QED
  BY <1>2, <1>3

\* A run takes over what it found by deciding to.
LEMMA AdoptComes ==
  ASSUME BuildInv, NEW r \in Runs, Step(r) \/ Kill(r), run'[r].phase = "adopt"
  PROVE  Adopt(r)
<1>0. Types /\ RunsOK
  BY DEF BuildInv, Types
<1>1. CASE GoesOn(r) \/ TurnsBack(r) \/ Ends(r) \/ \E e \in Environments : Load(r, e)
  BY <1>0, <1>1, LoadIs DEF GoesOn, TurnsBack, Plain, Ends, Moves
<1>2. CASE Touches(r) \/ Kill(r)
  <2>1. CASE Tear(r) \/ Remove(r)
    BY <1>0, <2>1, TearIs, RemoveIs DEF Moves
  <2>2. CASE ~Tear(r) /\ ~Remove(r)
    <3>1. run[r].phase # "idle" /\ \E phase \in Phases \ {"adopt"} : To(r, phase)
      BY <1>2, <2>2 DEF Touches, Take, Break, TakeOver, NotEmpty, Make, Hold, Claim, Stage,
                        Build, Settle, Kill, Living, At, Phases
    <3> QED
      BY <1>0, <3>1, ToIs DEF Moves
  <2> QED
    BY <2>1, <2>2
<1>3. CASE Reclaim(r) \/ Resume(r)
  BY <1>0, <1>3, TakingAwayIs, ResumeIs DEF Plain, Moves
<1> QED
  BY <1>0, <1>1, <1>2, <1>3, StepIs DEF Decides

LEMMA AdoptsEmptyKept ==
  ASSUME SealInv, NEW r \in Runs, Step(r) \/ Kill(r)
  PROVE  AdoptsEmpty'
<1>0. BuildInv /\ Types /\ Types' /\ JobsAre /\ JobsAre'
  BY TypesKept, BuildInvKept DEF SealInv, ReachInv, BackInv, BuildInv, Next
<1> SUFFICES ASSUME NEW q \in Runs, run'[q].phase = "adopt", ~locks'[run'[q].env].met
             PROVE  dirs'[run'[q].env].built = "none"
  BY DEF AdoptsEmpty, Apart, Env
<1>1. CASE q = r
  <2>1. Adopt(r)
    BY <1>0, <1>1, AdoptComes
  <2>2. run[r].phase = "read" /\ dirs' = dirs /\ ~Occupied(Env(r)) /\ To(r, "adopt")
    BY <2>1 DEF Adopt, At, KeepDirs, Decision, Decide
  <2>3. run'[r].env = Env(r)
    BY <1>0, <2>2, ToIs DEF Types, Phases, SameJob, Env
  <2> QED
    BY <1>1, <2>2, <2>3 DEF Occupied
<1>2. CASE q # r
  <2>1. /\ run'[q] = run[q] /\ Env(q) \in Environments /\ Threatens(q)
        /\ Env(q) \notin Crossed'
    <3>1. run'[q] = run[q]
      BY <1>0, <1>2, StepSpares DEF Spares
    <3>2. Threatens(q)
      BY <3>1 DEF Threatens
    <3> QED
      BY <1>0, <3>1, <3>2, Workplace DEF Crossed, Env
  <2>2. Apart(q) /\ dirs[Env(q)].built = "none" /\ dirs[Env(q)] \in Dirs
    BY <1>0, <2>1, UncrossedBefore DEF SealInv, AdoptsEmpty, Apart, Types
  <2>3. CASE Env(q) = Env(r) /\ run[r].phase \in {"stage", "build"}
    <3>1. run[r].job = "install"
      BY <1>0, <2>3, FieldsOfRun DEF JobsAre, Finishing, Types, RunStates
    <3>2. Building(r) /\ Apart(r)
      BY <2>2, <2>3, <3>1 DEF Building, Apart
    <3> QED
      BY <1>0, <1>2, <2>1, <2>3, <3>2, MineAlone
  <2>4. CASE ~(Env(q) = Env(r) /\ run[r].phase \in {"stage", "build"})
    <3>1. DirGoes(r, Env(q))
      BY <1>0, <2>1, DirGoesIs
    <3>2. dirs'[Env(q)].built = "none"
      BY <2>2, <2>4, <3>1 DEF DirGoes, Same, Alike, Marks, Anew, Builds, TakesAway
    <3> QED
      BY <2>1, <3>2 DEF Env
  <2> QED
    BY <2>3, <2>4
<1> QED
  BY <1>1, <1>2

LEMMA FilledIsClaimedKept ==
  ASSUME SealInv, NEW r \in Runs, Step(r) \/ Kill(r)
  PROVE  FilledIsClaimed'
<1> SUFFICES ASSUME NEW e \in Environments, e \notin Crossed', dirs'[e].by # None, ~dirs'[e].torn,
                    dirs'[e].built # "none"
             PROVE  dirs'[e].claim # "none"
  BY DEF FilledIsClaimed
<1>0. BuildInv /\ DirGoes(r, e) /\ e \notin Crossed /\ ~locks[e].met /\ JobsAre /\ Types
  BY DirGoesIs, UncrossedBefore DEF SealInv, ReachInv, BackInv, BuildInv
<1>1. CASE Same(e)
  BY <1>0, <1>1 DEF SealInv, FilledIsClaimed, Same, Alike
<1>2. CASE e = Env(r) /\ run[r].phase \in {"stage", "build"}
  <2>1. run[r].job = "install"
    BY <1>0, <1>2, FieldsOfRun DEF JobsAre, Finishing, Types, RunStates
  <2>2. Own(r)
    BY <1>0, <1>2, <2>1 DEF Building, Apart, BuildInv, OwnDirs
  <2>3. dirs[e].there /\ dirs[e].claim = "STAGING"
    BY <1>2, <2>2 DEF Own
  <2>4. Builds(r) \/ Same(e)
    BY <1>0, <1>2, <2>3 DEF DirGoes, Anew, TakesAway, Marks
  <2> QED
    BY <1>1, <1>2, <2>3, <2>4 DEF Builds
<1>3. CASE /\ e = Env(r) /\ run[r].phase \notin {"stage", "build"}
           /\ (Anew(r) \/ TakesAway(r) \/ Builds(r))
  BY <1>3 DEF Anew, TakesAway, Builds
<1>4. CASE e = Env(r) /\ Marks(r)
  <2>1. CASE run[r].phase = "adopt"
    BY <1>0, <1>4, <2>1 DEF SealInv, AdoptsEmpty, Apart, Marks, Alike
  <2>2. CASE run[r].phase = "claim" /\ dirs'[e].claim = dirs[e].claim
    BY <1>0, <1>1, <1>4, <2>2 DEF Marks, Same
  <2> QED
    BY <1>4, <2>1, <2>2 DEF Marks
<1> QED
  BY <1>0, <1>1, <1>2, <1>3, <1>4 DEF DirGoes

\* What is promoted no longer is what the link taken back named, and no link names.
LEMMA PastStays ==
  ASSUME Types, NEW r \in Runs, Step(r) \/ Kill(r), NEW e \in promoted, e \notin promoted'
  PROVE  UndoLink(r) /\ e = Env(r) /\ \A d \in Destinations : links'[d].to # e
<1>1. UndoLink(r)
  BY PastGoes
<1>2. CASE \E d \in Destinations : links'[d].to = Env(r)
  BY <1>1, <1>2 DEF UndoLink
<1>3. CASE ~\E d \in Destinations : links'[d].to = Env(r)
  BY <1>1, <1>3 DEF UndoLink
<1> QED
  BY <1>2, <1>3

LEMMA PlacedIsPastKept ==
  ASSUME SealInv, NEW r \in Runs, Step(r) \/ Kill(r)
  PROVE  PlacedIsPast'
<1>0. BackInv /\ BuildInv /\ Types /\ Reaches /\ OnePromotes
  BY DEF SealInv, ReachInv, BackInv, BuildInv
<1> SUFFICES ASSUME NEW q \in Runs, run'[q].phase \in {"placed", "settle"},
                    ~locks'[run'[q].env].met
             PROVE  run'[q].env \in promoted'
  BY DEF PlacedIsPast, Env, Apart
<1>3. /\ run'[q].env \in Environments
      /\ run'[q].env \notin Crossed /\ ~locks[run'[q].env].met
  <2>1. run'[q].env \in Environments
    BY <1>0, TypesKept DEF Next, Types, RunsOK
  <2>2. run'[q].env \notin Crossed'
    BY DEF Crossed
  <2> QED
    BY <1>0, <2>1, <2>2, UncrossedBefore
<1>1. CASE run'[q] = run[q]
  <2>1. /\ Env(q) \in promoted /\ run[q] \in RunStates /\ run[q].phase \in {"placed", "settle"}
        /\ Apart(q)
    BY <1>0, <1>1, <1>3, FieldsOfRun DEF SealInv, PlacedIsPast, Types, Apart, Env
  <2>2. ASSUME UndoLink(r), Env(q) = Env(r) PROVE FALSE
    <3>1. /\ run[r].phase = "undo link" /\ q # r /\ promoter = r /\ run[r] \in RunStates
          /\ Env(q) \in Environments
      BY <1>0, <1>1, <1>3, <2>1, <2>2, FieldsOfRun
         DEF UndoLink, At, OnePromotes, Promoting, Types, Env
    <3>2. run[q].phase = "settle"
      BY <1>0, <2>1, <3>1 DEF OnePromotes, Promoting
    <3>3. Building(q) \/ Finishes(q)
      BY <2>1, <3>2 DEF Building, Wholes, Finishes, Ended, RunStates
    <3>4. Building(r) \/ Finishes(r)
      BY <3>1 DEF Building, Wholes, Finishes, Ended, RunStates
    <3> QED
      BY <1>0, <2>1, <2>2, <3>1, <3>3, <3>4, MineAlone DEF Threatens, Apart
  <2> QED
    BY <1>0, <1>1, <2>1, <2>2, PastStays DEF Env
<1>2. CASE run'[q] # run[q]
  <2>0. q = r
    BY <1>0, <1>2, StepSpares DEF Spares
  <2>1. CASE Place(r)
    <3>1. run'[r].env = run[r].env /\ promoted' = promoted \cup {Env(r)}
      BY <1>0, <2>1, NextPhase DEF Plain, SameJob, Place, Placing
    <3> QED
      BY <2>0, <3>1 DEF Env
  <2>2. CASE Land(r)
    <3>1. run'[r].env = run[r].env /\ promoted' = promoted /\ run[r].phase = "placed"
      BY <1>0, <2>2, NextPhase DEF Plain, SameJob, Land, At, KeepPast
    <3> QED
      BY <1>3, <2>0, <3>1 DEF SealInv, PlacedIsPast, Env, Apart
  <2> QED
    BY <1>0, <2>0, <2>1, <2>2, ComesIs DEF Comes
<1> QED
  BY <1>1, <1>2

LEMMA CompleteIsPastKept ==
  ASSUME SealInv, NEW r \in Runs, Step(r) \/ Kill(r)
  PROVE  CompleteIsPast'
<1>0. BackInv /\ BuildInv /\ Types /\ Reaches
  BY DEF SealInv, ReachInv, BackInv, BuildInv
<1> SUFFICES ASSUME Quiet', NEW e \in Environments, e \notin Crossed', dirs'[e].by # None,
                    dirs'[e].claim = "COMPLETE", e \notin promoted'
             PROVE  FALSE
  BY DEF CompleteIsPast
<1>1. Quiet /\ e \notin Crossed /\ ~locks[e].met
  BY <1>0, QuietBefore, UncrossedBefore
<1>2. e \in promoted
  <2>1. CASE dirs[e].claim = "COMPLETE" /\ dirs[e].by # None
    BY <1>1, <2>1 DEF SealInv, CompleteIsPast
  <2>2. CASE run[r].phase = "settle" /\ e = Env(r)
    BY <1>1, <2>2 DEF SealInv, PlacedIsPast, Apart
  <2> QED
    BY <1>0, <2>1, <2>2, ClaimGoes
<1>3. UndoLink(r) /\ e = Env(r) /\ \A d \in Destinations : links'[d].to # e
  BY <1>0, <1>2, PastStays
<1>4. Sealed(Env(r))
  BY <1>0, <1>1, <1>3, ClaimGoes DEF UndoLink, At, Sealed
<1> QED
  BY <1>1, <1>3, <1>4, UndoLeavesOne

LEMMA AroundSeals ==
  ASSUME SealInv, NEW x \in Destinations, NEW t \in Environments \cup {Elsewhere, None},
         HandLink(x, t)
  PROVE  SealInv'
<1>0. Types /\ ReachInv'
  BY ReachInvKept DEF SealInv, ReachInv, BackInv, BuildInv, Next
<1>1. /\ dirs' = dirs /\ run' = run /\ promoted' = promoted /\ locks' = locks
      /\ hands' = hands + 1
  BY <1>0, AroundRuns DEF HandLink, KeepPast
<1>2. FilledIsClaimed' /\ PlacedIsPast' /\ AdoptsEmpty'
  BY <1>1 DEF SealInv, FilledIsClaimed, PlacedIsPast, AdoptsEmpty, Apart, Crossed, Env
<1>3. hands' # 0 /\ ~Quiet'
  BY <1>0, <1>1 DEF Types, Quiet
<1> QED
  BY <1>0, <1>2, <1>3 DEF SealInv, SealedIsReached, Remembers, OnlyRuns, CompleteIsPast

LEMMA SealInvKept ==
  ASSUME SealInv, [Next]_vars
  PROVE  SealInv'
<1>0. ReachInv'
  BY ReachInvKept DEF SealInv
<1>1. ASSUME NEW r \in Runs, Step(r) \/ Kill(r) PROVE SealInv'
  BY <1>0, <1>1, SealedIsReachedKept, RemembersKept, OnlyRunsKept, AdoptsEmptyKept,
     FilledIsClaimedKept, PlacedIsPastKept, CompleteIsPastKept DEF SealInv
<1>2. CASE UNCHANGED vars
  BY <1>0, <1>2
     DEF vars, SealInv, SealedIsReached, Remembers, OnlyRuns, AdoptsEmpty, FilledIsClaimed,
         PlacedIsPast, CompleteIsPast, Quiet, Sealed, Reached, LeadsBack, Names, Env, At, Apart,
         Crossed
<1> QED
  BY <1>1, <1>2, AroundSeals DEF Next

LEMMA SealInvAtFirst ==
  ASSUME Init
  PROVE  SealInv
<1>1. /\ \A r \in Runs : run[r].phase = "idle"
      /\ Clean \/ \E e \in Environments : Legacy(e) \/ Installed(e)
  BY DEF Init, Idle
<1>2. ASSUME NEW e \in Environments PROVE dirs[e].by = None
  <2>1. NoDir.by = None /\ \A x \in Environments : Old(x).by = None /\ Kept(x).by = None
    BY DEF NoDir, Old, Kept
  <2>2. CASE Clean
    BY <2>1, <2>2 DEF Clean
  <2>3. ASSUME NEW x \in Environments, Legacy(x) PROVE dirs[e].by = None
    BY <2>1, <2>3 DEF Legacy
  <2>4. ASSUME NEW x \in Environments, Installed(x) PROVE dirs[e].by = None
    BY <2>1, <2>4 DEF Installed
  <2> QED
    BY <1>1, <2>2, <2>3, <2>4
<1>3. /\ \A d \in Destinations : ByRun(links[d])
      /\ \A e \in Environments : dirs[e].claim = "COMPLETE" => Reached(e)
  <2>1. CASE Clean
    BY <2>1 DEF Clean, ByRun, NoLink, NoDir
  <2>2. ASSUME NEW x \in Environments, Legacy(x)
        PROVE  /\ \A d \in Destinations : ByRun(links[d])
               /\ \A e \in Environments : dirs[e].claim # "COMPLETE"
    BY <2>2 DEF Legacy, ByRun, NoLink, NoDir, Old
  <2>3. ASSUME NEW x \in Environments, Installed(x)
        PROVE  /\ \A d \in Destinations : ByRun(links[d])
               /\ \A e \in Environments : dirs[e].claim = "COMPLETE" => Reached(e)
    <3>1. /\ DestOf[x] \in Destinations /\ links[DestOf[x]] = LinkTo(x)
          /\ \A d \in Destinations : links[d] \in {LinkTo(x), NoLink}
      BY <2>3, InstallerAssumption DEF Installed
    <3>2. LinkTo(x).to = x /\ NoLink.to = None
      BY DEF LinkTo, NoLink
    <3>3. \A e \in Environments : dirs[e].claim = "COMPLETE" => e = x
      BY <2>3 DEF Installed, NoDir
    <3> QED
      BY <3>1, <3>2, <3>3 DEF ByRun, Reached, Names
  <2> QED
    BY <1>1, <2>1, <2>2, <2>3
<1>4. record.selected \in Environments \cup {None}
  BY <1>1 DEF Clean, Legacy, Installed
<1> QED
  BY <1>1, <1>2, <1>3, <1>4, ReachInvAtFirst
     DEF SealInv, SealedIsReached, Remembers, OnlyRuns, AdoptsEmpty, FilledIsClaimed,
         PlacedIsPast, CompleteIsPast, Sealed, At, Promoting

LEMMA NothingRefusedForGood ==
  ASSUME SealInv
  PROVE  NoPermanentRefusal
<1> SUFFICES ASSUME NEW e \in Environments, e \notin Crossed, hands = 0, faults <= 1,
                    e \notin promoted \cup reclaimed, dirs[e].by # None, ~dirs[e].torn,
                    ~Unsigned(e)
             PROVE  DecidedNow(e) \in {"RESUME", "RECLAIM", "ADOPT"}
  BY DEF NoPermanentRefusal
<1>1. dirs[e].claim \in {"none", "STAGING"}
  <2>1. dirs[e] \in Dirs
    BY DEF SealInv, ReachInv, BackInv, BuildInv, Types
  <2>2. dirs[e].claim # "COMPLETE"
    BY DEF SealInv, CompleteIsPast, Quiet
  <2> QED
    BY <2>1, <2>2 DEF Dirs, Claims
<1>2. dirs[e].claim = "none" => ~Occupied(e)
  BY DEF SealInv, FilledIsClaimed, Occupied, Unsigned
<1>3. ~Names(DestOf[e], e)
  <2>1. DestOf[e] \in Destinations /\ e # None
    BY InstallerAssumption
  <2>2. \A d \in Destinations : links[d] # LinkTo(e)
    BY DEF SealInv, ReachInv, Reaches, InPast, Linked
  <2> QED
    BY <2>1, <2>2 DEF Names, SealInv, OnlyRuns, ByRun
<1>4. record.selected = e => Occupied(e)
  BY DEF SealInv, ReachInv, Reaches, CountsWhole, Counts, Spared, Whole, Occupied
<1> QED
  BY <1>1, <1>2, <1>3, <1>4 DEF DecidedNow, Decide

\* Of every runtime that counts, and of what a run built, the record keeps that it is installed.
Noted ==
  /\ \A e \in Spared : Counts(e) => e \in record.installs
  /\ \A r \in Runs :
       run[r].job = "install" /\ run[r].phase \in Wholes /\ Apart(r)
       => Env(r) \in record.installs

\* Before the first failure.
Calm == hands = 0 /\ faults = 0 /\ reclaimed \cup Crossed = {}

\* A runtime from before there were claims.
Predates(e) ==
  /\ e \notin Crossed
  /\ dirs[e].there /\ dirs[e].by = None /\ dirs[e].built = "whole" /\ dirs[e].claim = "none"

\* One that is selected no more, and that nobody is finishing.
Passed(e) ==
  /\ Predates(e) /\ record.selected # e
  /\ \A q \in Runs :
       Env(q) = e /\ run[q].job = "finish" => run[q].phase \in {"finish", "over", "dead"}

Deliberating == {"loaded", "old", "found", "probed", "read", "finish", "note"}

\* Without an entry the selection is from before there were entries, and still what runs read.
NoEntryYet ==
  Calm /\ record.pointer.path = None =>
    /\ record.selected # None => Predates(record.selected)
    /\ \A r \in Runs :
         /\ run[r].phase \in Deliberating /\ run[r].saw # None => run[r].saw = record.selected
         /\ run[r].phase \notin {"place", "placed", "settle"}

\* Who read that its runtime is selected has the path of the entry.
PathsStand ==
  Calm => \A r \in Runs :
            run[r].phase \in Deliberating /\ run[r].saw = Env(r)
            => run[r].path = PathFor(Env(r)) \/ Passed(Env(r))

\* Nobody takes away what has no claim.
OldIsLeft ==
  \A r \in Runs :
    run[r].phase \in {"read", "reclaim"} /\ Predates(Env(r))
    => At(r, "read") /\ run[r].claim = "none"

FinishesWhatItSaw == \A r \in Runs : run[r].phase \in {"finish", "note"} => run[r].saw = Env(r)

\* An entry without evidence is about a path with no link; so is the one gone back to.
Unhurt == Quiet /\ reclaimed \cup Crossed = {}

EntryIsTrue ==
  Unhurt /\ record.pointer.path # None /\ ~record.pointer.placed
  => links[record.pointer.path].to = None

FoundIsTrue ==
  Unhurt => \A r \in Runs :
    run[r].phase \in Promoting /\ (faults = 0 \/ run[r].phase \in Undoing) =>
      /\ run[r].found.path \in {None, run[r].path}
      /\ run[r].found.path # None /\ ~run[r].found.placed => run[r].before.to = None

RepairInv ==
  /\ SealInv /\ Noted /\ NoEntryYet /\ PathsStand /\ OldIsLeft /\ FinishesWhatItSaw
  /\ EntryIsTrue /\ FoundIsTrue


LEMMA InstallsGo ==
  ASSUME Types, NEW r \in Runs, Step(r) \/ Kill(r)
  PROVE  /\ \A e \in record.installs : e \in record'.installs \/ (Release(r) /\ e = Env(r))
         /\ Build(r) => Env(r) \in record'.installs
<1>0. record \in Records
  BY DEF Types
<1>1. CASE Build(r)
  <2>1. record'.installs = record.installs \cup {Env(r)}
    BY <1>0, <1>1 DEF Build, Records
  <2> QED
    BY <2>1
<1>2. CASE Release(r)
  <2>1. record'.installs = record.installs \ {Env(r)} /\ ~Build(r)
    BY <1>0, <1>2 DEF Release, Records, Build, At
  <2> QED
    BY <1>2, <2>1
<1>3. CASE Writes(r)
  <2>1. record'.installs = record.installs
    BY <1>0, <1>3
       DEF Writes, Commit, CommitFails, Place, PlaceFails, Note, NoteFails, UndoLink, UndoEntry,
           UndoEntryFails, UndoSelection, UndoSelectionFails, Selecting, Disclaiming,
           Deselecting, KeepRecord, Records
  <2>2. ~Build(r)
    BY <1>3, WritersAre DEF Build, At
  <2> QED
    BY <2>1, <2>2
<1>4. CASE ~Writes(r) /\ ~Build(r) /\ ~Release(r)
  <2>1. CASE \/ \E e \in Environments : Load(r, e)
             \/ Take(r) \/ Notice(r) \/ Break(r) \/ Busy(r) \/ Probe(r) \/ ReadClaim(r)
             \/ LeaveIt(r) \/ Resume(r) \/ Adopt(r) \/ TakeOver(r) \/ NotEmpty(r) \/ Reclaim(r)
    BY <1>4, <2>1 DEF Load, Take, Notice, Break, Busy, Probe, ReadClaim, LeaveIt, Resume, Adopt,
                      TakeOver, NotEmpty, Reclaim, KeepRecord
  <2>2. CASE \/ ClaimFails(r) \/ Stage(r) \/ BuildFails(r) \/ Judge(r) \/ Refused(r) \/ Land(r)
             \/ Settle(r) \/ SettleFails(r) \/ Finish(r) \/ FinishRefused(r)
    BY <1>4, <2>2 DEF ClaimFails, Stage, BuildFails, Judge, Refused, Land, Settle, SettleFails,
                      Finish, FinishRefused, KeepRecord
  <2>3. CASE \/ Make(r) \/ Exists(r) \/ Hold(r) \/ NotHad(r) \/ Claim(r) \/ UndoLinkFails(r)
             \/ Keep(r) \/ Tear(r) \/ Remove(r) \/ Kill(r)
    BY <1>4, <2>3 DEF Make, Exists, Hold, NotHad, Claim, UndoLinkFails, Keep, Tear, Remove, Kill,
                      KeepRecord
  <2> QED
    BY <1>4, <2>1, <2>2, <2>3 DEF Step, Writes
<1> QED
  BY <1>1, <1>2, <1>3, <1>4

LEMMA NotedKept ==
  ASSUME ReachInv, Noted, NEW r \in Runs, Step(r) \/ Kill(r)
  PROVE  Noted'
<1>0. BackInv /\ BuildInv /\ Types /\ Reaches /\ JobsAre /\ RunsOK
  BY DEF ReachInv, BackInv, BuildInv, Types
<1>1. ASSUME NEW e \in Environments, e \in Spared', Counts(e)' PROVE e \in record'.installs
  <2>1. e \in Spared
    BY <1>0, <1>1, SparedBefore
  <2>2. e \in record.installs
    <3>1. run[r].phase = "commit" => run[r].job = "install"
      BY <1>0, FieldsOfRun DEF JobsAre, Finishing, RunStates
    <3> QED
      BY <1>0, <1>1, <2>1, <3>1, CountsGrow DEF Noted, Wholes, Apart, Spared, Crossed
  <2>3. ASSUME Release(r), e = Env(r) PROVE FALSE
    <3>1. Counts(e)
      BY <1>0, <1>1, <2>3, CountsGrow DEF Release, At
    <3>5. Env(r) \notin reclaimed'
      BY <1>1, <2>3 DEF Spared
    <3> QED
      BY <1>0, <2>1, <2>3, <3>1, <3>5, ReleaseSparesCounted
  <2> QED
    BY <1>0, <2>2, <2>3, InstallsGo
<1>2. ASSUME NEW q \in Runs, run'[q].job = "install", run'[q].phase \in Wholes,
             ~locks'[run'[q].env].met
      PROVE  run'[q].env \in record'.installs
  <2>0. run'[q].env \in Environments /\ ~locks[run'[q].env].met
    <3>1. run'[q].env \in Environments
      BY <1>0, <1>2, TypesKept DEF Next, Types, RunsOK, Wholes
    <3> QED
      BY <1>0, <1>2, <3>1, UncrossedBefore DEF Crossed
  <2>1. CASE run'[q] = run[q]
    <3>1. Env(q) \in record.installs /\ Apart(q)
      BY <1>2, <2>0, <2>1 DEF Noted, Apart, Env
    <3>2. ASSUME Release(r), Env(q) = Env(r) PROVE FALSE
      <4>1. run[r].phase = "failing" /\ run[r].job = "install"
        BY <1>0, <3>2, FieldsOfRun DEF Release, At, JobsAre, Finishing, RunStates
      <4>2. q # r /\ Building(q) /\ Env(q) \in Environments
        BY <1>2, <2>0, <2>1, <4>1 DEF Building, Wholes, Env
      <4>3. Building(r) \/ Starts(r)
        BY <4>1 DEF Building, Starts
      <4> QED
        BY <1>0, <3>1, <3>2, <4>2, <4>3, MineAlone
    <3> QED
      BY <1>0, <2>1, <3>1, <3>2, InstallsGo DEF Env
  <2>2. CASE run'[q] # run[q]
    <3>0. q = r
      BY <1>0, <2>2, StepSpares DEF Spares
    <3>1. CASE Build(r)
      <4>1. run'[r].env = Env(r)
        <5>1. run[r].phase # "idle" /\ To(r, "ready")
          BY <3>1 DEF Build, At
        <5> QED
          BY <1>0, <5>1, ToIs DEF SameJob, Env, Phases
      <4> QED
        BY <1>0, <3>0, <3>1, <4>1, InstallsGo
    <3>2. CASE \/ Judge(r) \/ Commit(r) \/ Note(r) \/ Place(r) \/ PlaceFails(r) \/ Land(r)
               \/ UndoLink(r) \/ UndoLinkFails(r) \/ UndoEntry(r) \/ UndoEntryFails(r)
      <4>1. SameJob(r)
        BY <1>0, <3>2, JudgeIs, NextPhase, UndoLinkIs, UndoEntryIs DEF Plain, Ends
      <4>2. run[r].phase \in Wholes \/ Note(r)
        BY <3>2 DEF Judge, Commit, Place, PlaceFails, Land, UndoLink, UndoLinkFails, UndoEntry,
                    UndoEntryFails, At, Wholes
      <4>3. ~Note(r)
        BY <1>0, <1>2, <3>0, <4>1 DEF Note, At, SameJob, JobsAre
      <4>4. Env(r) \in record.installs /\ ~Release(r)
        BY <1>2, <2>0, <3>0, <4>1, <4>2, <4>3 DEF Noted, SameJob, Release, At, Wholes, Apart, Env
      <4> QED
        BY <1>0, <3>0, <4>1, <4>4, InstallsGo DEF SameJob, Env
    <3> QED
      BY <1>0, <1>2, <3>0, <3>1, <3>2, ComesIs DEF Comes, Wholes
  <2> QED
    BY <2>1, <2>2
<1>3. Spared' \subseteq Environments
  BY DEF Spared
<1> QED
  BY <1>1, <1>2, <1>3 DEF Noted, Env, Apart

LEMMA CalmBefore ==
  ASSUME BackInv, NEW r \in Runs, Step(r) \/ Kill(r)
  PROVE  /\ Unhurt' => Unhurt
         /\ Calm' => Calm /\ (KeepsSelection \/ Commit(r) \/ Note(r)) /\ ~Fault
                     /\ run[r].phase # "undo selection"
<1>0. /\ Types /\ hands' = hands
      /\ reclaimed \cup Crossed \subseteq reclaimed' \cup Crossed'
      /\ faults' = faults \/ faults' = faults + 1
      /\ faults \in Nat
  BY PastGoes, QuietBefore, OthersWriteNothing, WritersAre, UncrossedBefore
     DEF BackInv, BuildInv, Types, Crossed
<1>1. Unhurt' => Unhurt
  BY <1>0, QuietBefore DEF Unhurt
<1>2. ASSUME Calm'
      PROVE  Calm /\ (KeepsSelection \/ Commit(r) \/ Note(r)) /\ ~Fault
             /\ run[r].phase # "undo selection"
  <2>1. Calm /\ ~Fault
    BY <1>0, <1>2 DEF Calm, Fault
  <2>2. ASSUME run[r].phase \in {"undo entry", "undo selection"} PROVE FALSE
    <3>1. Restored(r)
      BY <2>1, <2>2 DEF BackInv, InPromotion, OnePromotes, Promoting, Calm
    <3>2. faults >= 1
      BY <2>2, <3>1 DEF Restored, Undoing
    <3> QED
      BY <2>1, <3>2 DEF Calm
  <2>3. CASE ~Writes(r)
    BY <1>0, <2>1, <2>2, <2>3, OthersWriteNothing
  <2>4. CASE Writes(r)
    <3>1. /\ ~CommitFails(r) /\ ~PlaceFails(r) /\ ~NoteFails(r) /\ ~UndoEntry(r)
          /\ ~UndoEntryFails(r) /\ ~UndoSelection(r) /\ ~UndoSelectionFails(r)
      BY <2>1, <2>2 DEF CommitFails, PlaceFails, NoteFails, UndoEntry, UndoEntryFails,
                        UndoSelection, UndoSelectionFails, At
    <3>2. CASE Place(r) \/ UndoLink(r)
      BY <1>0, <2>1, <2>2, <2>4, <3>2, RecordIs DEF KeepsSelection
    <3> QED
      BY <2>1, <2>2, <2>4, <3>1, <3>2 DEF Writes
  <2> QED
    BY <2>3, <2>4
<1> QED
  BY <1>1, <1>2

\* Who deliberates has just read the record, or knows what it read then.
LEMMA DeliberatingGoes ==
  ASSUME Types, NEW r \in Runs, Step(r) \/ Kill(r), run'[r] # run[r],
         run'[r].phase \in Deliberating
  PROVE  /\ \/ (\E e \in Environments : Load(r, e)) /\ run'[r].phase = "loaded"
            \/ /\ run[r].phase \in Deliberating /\ run'[r].env = run[r].env
               /\ run'[r].path = run[r].path /\ run'[r].saw = run[r].saw
         /\ run'[r].phase = "read" => ReadClaim(r) /\ run'[r].claim = dirs[Env(r)].claim
         /\ run'[r].phase = "finish" => Resume(r)
         /\ run'[r].phase = "note" => Finish(r)
<1>0. RunsOK /\ run \in [Runs -> RunStates] /\ run[r] \in RunStates
  BY DEF Types, RunsOK
<1>1. ASSUME NEW phase \in Phases \ Deliberating, Moves(r, phase) PROVE FALSE
  BY <1>1 DEF Moves
<1>2. CASE \E e \in Environments : Load(r, e)
  BY <1>2, LoadIs DEF Moves
<1>3. CASE Take(r)
  <2>1. /\ run'[r] = [run[r] EXCEPT !.phase = IF dirs[Env(r)].there THEN "found" ELSE "make"]
        /\ run[r].phase = "loaded"
    BY <1>0, <1>3 DEF Take, To, At
  <2>2. /\ run'[r].env = run[r].env /\ run'[r].path = run[r].path /\ run'[r].saw = run[r].saw
        /\ run'[r].phase \in {"found", "make"}
    BY <1>0, <2>1 DEF RunStates
  <2> QED
    BY <2>1, <2>2 DEF Deliberating
<1>4. CASE Probe(r)
  <2>1. /\ run'[r] = [run[r] EXCEPT !.phase = "probed", !.near = Names(DestOf[Env(r)], Env(r))]
        /\ run[r].phase = "found"
    BY <1>0, <1>4 DEF Probe, At
  <2> QED
    BY <1>0, <2>1 DEF RunStates, Deliberating
<1>5. CASE ReadClaim(r)
  <2>1. /\ run'[r] = [run[r] EXCEPT !.phase = "read", !.claim = dirs[Env(r)].claim]
        /\ run[r].phase = "probed"
    BY <1>0, <1>5 DEF ReadClaim, At
  <2> QED
    BY <1>0, <1>5, <2>1 DEF RunStates, Deliberating
<1>6. CASE Resume(r)
  <2>1. /\ run'[r] = [run[r] EXCEPT !.phase = "finish", !.job = "finish"]
        /\ run[r].phase = "read"
    BY <1>0, <1>6 DEF Resume, At
  <2> QED
    BY <1>0, <1>6, <2>1 DEF RunStates, Deliberating
<1>7. CASE Finish(r)
  <2>1. /\ run'[r] = [run[r] EXCEPT !.phase = "note", !.found = record.pointer,
                                    !.before = links[run[r].path]]
        /\ run[r].phase = "finish"
    BY <1>0, <1>7 DEF Finish, At
  <2> QED
    BY <1>0, <1>7, <2>1 DEF RunStates, Deliberating
<1>8. CASE \/ Adopt(r) \/ TakeOver(r) \/ NotEmpty(r) \/ Make(r) \/ Hold(r) \/ Claim(r) \/ Stage(r)
           \/ Build(r) \/ Settle(r) \/ Kill(r)
  <2>1. run[r].phase # "idle" /\ \E phase \in Phases \ Deliberating : To(r, phase)
    BY <1>8 DEF Adopt, TakeOver, NotEmpty, Make, Hold, Claim, Stage, Build, Settle, Kill, Living,
                At, Phases, Deliberating
  <2> QED
    BY <1>0, <1>1, <2>1, ToIs
<1>9. CASE Leaves(r) \/ Reclaim(r) \/ Release(r)
  BY <1>1, <1>9, LeavesIs, TakingAwayIs DEF Ends, Plain, Phases, Deliberating
<1>12. CASE Tear(r) \/ Remove(r)
  BY <1>0, <1>12, TearIs, RemoveIs DEF Moves, Deliberating
<1>13. CASE Notice(r) \/ Break(r)
  <2>1. \E phase \in {"old", "loaded"} : run'[r] = [run[r] EXCEPT !.phase = phase]
    BY <1>0, <1>13 DEF Notice, Break, To
  <2>2. run[r].phase \in {"loaded", "old"}
    BY <1>13 DEF Notice, Break, At
  <2> QED
    BY <1>0, <2>1, <2>2 DEF RunStates, Deliberating
<1>10. CASE \/ Judge(r) \/ Commit(r) \/ Note(r) \/ Place(r) \/ PlaceFails(r) \/ Land(r)
            \/ UndoLink(r) \/ UndoLinkFails(r)
  BY <1>1, <1>10, JudgeIs, NextPhase, UndoLinkIs DEF Plain, Phases, Deliberating
<1>11. CASE \/ UndoEntry(r) \/ UndoEntryFails(r)
            \/ NotHad(r) \/ ClaimFails(r) \/ BuildFails(r) \/ CommitFails(r) \/ UndoSelection(r)
            \/ UndoSelectionFails(r) \/ Refused(r) \/ SettleFails(r)
  BY <1>1, <1>11, UndoEntryIs, FailsIs, RefusedIs, SettleFailsIs
     DEF Plain, Ends, Phases, Deliberating
<1> QED
  BY <1>0, <1>2, <1>3, <1>4, <1>5, <1>6, <1>7, <1>8, <1>9, <1>10, <1>11, <1>12, <1>13
     DEF Step, Leaves

\* No run builds in, or began, what was there before.
LEMMA OldIsNobodys ==
  ASSUME BuildInv, NEW r \in Runs, Predates(Env(r)), Env(r) \in Environments
  PROVE  ~Building(r) /\ ~Starts(r)
<1>1. Apart(r)
  BY DEF Predates, Apart, Crossed
<1>2. Building(r) => dirs[Env(r)].by = r
  BY <1>1 DEF BuildInv, OwnDirs, Own
<1>3. Starts(r) => dirs[Env(r)].built = "none"
  BY <1>1 DEF BuildInv, NewDirs, Begins
<1> QED
  BY <1>2, <1>3, InstallerAssumption DEF Predates

LEMMA OldWasOld ==
  ASSUME SealInv, NEW r \in Runs, Step(r) \/ Kill(r), NEW e \in Environments, Predates(e)'
  PROVE  Predates(e)
<1>0. /\ BuildInv /\ DirGoes(r, e) /\ JobsAre /\ Types
      /\ e \notin Crossed /\ ~locks[e].met
  BY DirGoesIs, UncrossedBefore DEF SealInv, ReachInv, BackInv, BuildInv, Predates
<1>1. CASE Same(e)
  BY <1>0, <1>1 DEF Same, Alike, Predates
<1>2. CASE e = Env(r) /\ (Anew(r) \/ TakesAway(r))
  BY <1>2 DEF Anew, TakesAway, Predates
<1>3. CASE e = Env(r) /\ Marks(r)
  <2>1. CASE run[r].phase = "adopt"
    BY <1>0, <1>3, <2>1 DEF Marks, Alike, Predates, SealInv, AdoptsEmpty, Apart
  <2>2. CASE run[r].phase = "claim" /\ dirs'[e].claim = dirs[e].claim
    BY <1>1, <1>3, <2>2 DEF Marks, Same
  <2> QED
    BY <1>3, <2>1, <2>2 DEF Marks, Predates
<1>4. CASE e = Env(r) /\ Builds(r)
  <2>1. Own(r)
    BY <1>0, <1>4 DEF Builds, Building, BuildInv, OwnDirs, Apart
  <2>2. dirs'[e].by = r
    BY <1>4, <2>1 DEF Builds, Own
  <2> QED
    BY <2>2, InstallerAssumption DEF Predates
<1> QED
  BY <1>0, <1>1, <1>2, <1>3, <1>4 DEF DirGoes

LEMMA OldStays ==
  ASSUME RepairInv, NEW r \in Runs, Step(r) \/ Kill(r), NEW e \in Environments, Predates(e),
         e \notin Crossed', e = Env(r) /\ run[r].job = "finish" => run[r].phase # "settle"
  PROVE  Predates(e)'
<1>0. BuildInv /\ DirGoes(r, e) /\ JobsAre /\ Types
  BY DirGoesIs DEF RepairInv, SealInv, ReachInv, BackInv, BuildInv
<1>1. CASE Same(e)
  BY <1>1 DEF Same, Alike, Predates
<1>2. CASE e = Env(r) /\ Anew(r)
  BY <1>2 DEF Anew, Predates, Occupied
<1>3. e = Env(r) => ~Building(r) /\ ~Starts(r)
  BY <1>0, OldIsNobodys
<1>4. CASE e = Env(r) /\ Builds(r)
  BY <1>3, <1>4 DEF Builds, Building
<1>5. CASE e = Env(r) /\ TakesAway(r)
  <2>1. run[r].phase = "remove"
    BY <1>5 DEF TakesAway, RepairInv, OldIsLeft, At
  <2>2. run[r].victim = None
    BY <1>5 DEF TakesAway, Predates
  <2> QED
    BY <1>0, <1>3, <1>5, <2>1, <2>2, RemovesIs
<1>6. CASE e = Env(r) /\ Marks(r)
  <2>1. CASE run[r].phase = "adopt"
    BY <1>1, <1>6, <2>1 DEF Marks, Same, Predates
  <2>2. CASE run[r].phase \in {"claim", "settle"}
    <3>1. run[r].job = "install"
      BY <1>0, <1>6, <2>2, FieldsOfRun DEF JobsAre, Finishing, Types, RunStates
    <3> QED
      BY <1>3, <1>6, <2>2, <3>1 DEF Building, Wholes
  <2> QED
    BY <1>6, <2>1, <2>2 DEF Marks
<1> QED
  BY <1>0, <1>1, <1>2, <1>4, <1>5, <1>6 DEF DirGoes

LEMMA OldIsLeftKept ==
  ASSUME RepairInv, NEW r \in Runs, Step(r) \/ Kill(r)
  PROVE  OldIsLeft'
<1>0. Types /\ BuildInv /\ BackInv /\ PassesLock(r)
  BY LockPassed DEF RepairInv, SealInv, ReachInv, BackInv, BuildInv
<1> SUFFICES ASSUME NEW q \in Runs, run'[q].phase \in {"read", "reclaim"},
                    NEW e \in Environments, run'[q].env = e, Predates(e)'
             PROVE  run'[q].phase = "read" /\ run'[q].claim = "none"
  <2>1. \A q \in Runs : run'[q].phase \in {"read", "reclaim"} => run'[q].env \in Environments
    BY <1>0, TypesKept DEF Next, Types, RunsOK
  <2> QED
    BY <2>1 DEF OldIsLeft, At, Env, Predates
<1>1. Predates(e)
  BY OldWasOld DEF RepairInv
<1>2. CASE run'[q] = run[q]
  BY <1>1, <1>2 DEF RepairInv, OldIsLeft, At, Env
<1>3. CASE run'[q] # run[q]
  <2>1. q = r
    BY <1>0, <1>3 DEF PassesLock
  <2>4. ASSUME Tear(r), run'[q].phase \in {"read", "reclaim"} PROVE FALSE
    <3>1. run[r].phase = "reclaim" /\ run'[r].env = run[r].env
      BY <1>0, <2>1, <2>4, TearIs DEF Types, SameJob
    <3> QED
      BY <1>1, <2>1, <3>1 DEF RepairInv, OldIsLeft, At, Env
  <2>2. CASE run'[q].phase = "read"
    <3>1. run'[r].claim = dirs[Env(r)].claim /\ run'[r].env = run[r].env
      BY <1>0, <1>3, <2>1, <2>2, DeliberatingGoes, LoadIs DEF Deliberating, Moves
    <3> QED
      BY <1>1, <2>1, <2>2, <3>1 DEF Predates, Env
  <2>3. CASE run'[q].phase = "reclaim"
    <3>1. Reclaim(r) /\ run'[r].env = run[r].env
      BY <1>0, <2>1, <2>3, <2>4, ComesIs, TakingAwayIs DEF Comes, Plain, SameJob
    <3>2. run[r].phase = "read" /\ Predates(Env(r))
      BY <1>1, <2>1, <3>1 DEF Reclaim, At, Env
    <3>3. run[r].claim = "none" /\ Occupied(Env(r))
      BY <3>2 DEF RepairInv, OldIsLeft, Predates, Occupied
    <3>4. Decision(r) # "RECLAIM"
      BY <3>3 DEF Decision, Decide
    <3> QED
      BY <3>1, <3>4 DEF Reclaim
  <2> QED
    BY <2>2, <2>3
<1> QED
  BY <1>2, <1>3

LEMMA FinishesWhatItSawKept ==
  ASSUME RepairInv, NEW r \in Runs, Step(r) \/ Kill(r)
  PROVE  FinishesWhatItSaw'
<1>0. Types /\ BackInv /\ PassesLock(r)
  BY LockPassed DEF RepairInv, SealInv, ReachInv, BackInv, BuildInv
<1> SUFFICES ASSUME NEW q \in Runs, run'[q].phase \in {"finish", "note"}
             PROVE  run'[q].saw = run'[q].env
  BY DEF FinishesWhatItSaw, Env
<1>1. CASE run'[q] = run[q]
  BY <1>1 DEF RepairInv, FinishesWhatItSaw, Env
<1>2. CASE run'[q] # run[q]
  <2>1. q = r
    BY <1>0, <1>2 DEF PassesLock
  <2>2. /\ run'[r].phase = "finish" => Resume(r)
        /\ run'[r].phase = "note" => Finish(r)
        /\ run'[r].env = run[r].env /\ run'[r].saw = run[r].saw
    BY <1>0, <1>2, <2>1, DeliberatingGoes DEF Deliberating
  <2>3. run[r].saw = Env(r)
    <3>1. CASE Finish(r)
      BY <3>1 DEF Finish, At, RepairInv, FinishesWhatItSaw
    <3>2. CASE Resume(r)
      BY <3>2 DEF Resume, Decision, Decide
    <3> QED
      BY <2>1, <2>2, <3>1, <3>2
  <2> QED
    BY <2>1, <2>2, <2>3 DEF Env
<1> QED
  BY <1>1, <1>2

LEMMA NoEntryYetKept ==
  ASSUME RepairInv, NEW r \in Runs, Step(r) \/ Kill(r)
  PROVE  NoEntryYet'
<1>0. Types /\ Types' /\ BackInv /\ PassesLock(r)
  BY LockPassed, TypesKept DEF RepairInv, SealInv, ReachInv, BackInv, BuildInv, Next
<1> SUFFICES ASSUME Calm', record'.pointer.path = None PROVE NoEntryYet'
  BY DEF NoEntryYet
<1>1. Calm /\ KeepsSelection
  <2>1. ASSUME Commit(r) \/ Note(r) PROVE FALSE
    <3>1. run[r].path \in Destinations /\ record \in Records
      BY <1>0, <2>1, FieldsOfRun DEF Commit, Note, At, Types
    <3>2. record'.pointer = Entry(run[r].path)
      BY <2>1, <3>1 DEF Commit, Note, Selecting, Records
    <3> QED
      BY <3>1, <3>2, InstallerAssumption DEF Entry
  <2> QED
    BY <1>0, <2>1, CalmBefore
<1>2. record.pointer.path = None
  BY <1>1 DEF KeepsSelection
<1>3. ASSUME record.selected # None PROVE Predates(record.selected)'
  <2>1. Predates(record.selected) /\ record.selected \in Environments
    BY <1>0, <1>1, <1>2, <1>3 DEF RepairInv, NoEntryYet, Types, Records
  <2>2. run[r].phase # "settle"
    BY <1>1, <1>2 DEF RepairInv, NoEntryYet
  <2>3. \A e \in Environments : Predates(e) => Predates(e)'
    BY <2>2, OldStays DEF Calm
  <2> QED
    BY <1>1, <2>1, <2>3 DEF KeepsSelection, Predates
<1>4. ASSUME NEW q \in Runs, run'[q].phase \in Deliberating, run'[q].saw # None
      PROVE  run'[q].saw = record.selected
  <2>1. CASE run'[q] = run[q]
    BY <1>1, <1>2, <1>4, <2>1 DEF RepairInv, NoEntryYet
  <2>2. CASE run'[q] # run[q]
    <3>1. q = r
      BY <1>0, <2>2 DEF PassesLock
    <3>2. ASSUME NEW e \in Environments, Load(r, e) PROVE run'[r].saw = record.selected
      <4>1. run'[r] = [run[r] EXCEPT !.phase = "loaded", !.env = e, !.saw = record.selected,
                                     !.path = PathFor(e)]
        BY <1>0, <3>2 DEF Load, Types, RunsOK
      <4>2. run[r] \in RunStates
        BY <1>0, FieldsOfRun DEF Types
      <4> QED
        BY <4>1, <4>2 DEF RunStates
    <3>3. CASE run[r].phase \in Deliberating /\ run'[r].saw = run[r].saw
      BY <1>1, <1>2, <1>4, <3>1, <3>3 DEF RepairInv, NoEntryYet
    <3> QED
      BY <1>0, <1>4, <2>2, <3>1, <3>2, <3>3, DeliberatingGoes
  <2> QED
    BY <2>1, <2>2
<1>5. ASSUME NEW q \in Runs PROVE run'[q].phase \notin {"place", "placed", "settle"}
  <2>1. CASE run'[q] = run[q]
    BY <1>1, <1>2, <2>1 DEF RepairInv, NoEntryYet
  <2>2. CASE run'[q] # run[q]
    <3>1. q = r
      BY <1>0, <2>2 DEF PassesLock
    <3>2. run[r].phase \notin {"place", "placed", "settle"}
      BY <1>1, <1>2 DEF RepairInv, NoEntryYet
    <3>3. ASSUME Commit(r) \/ Note(r) PROVE FALSE
      <4>1. run[r].path \in Destinations /\ record \in Records
        BY <1>0, <3>3, FieldsOfRun DEF Commit, Note, At, Types
      <4>2. record'.pointer = Entry(run[r].path)
        BY <3>3, <4>1 DEF Commit, Note, Selecting, Records
      <4> QED
        BY <4>1, <4>2, InstallerAssumption DEF Entry
    <3> QED
      BY <1>0, <3>1, <3>2, <3>3, ComesIs DEF Comes, Place, Land, At
  <2> QED
    BY <2>1, <2>2
<1> QED
  BY <1>1, <1>3, <1>4, <1>5 DEF NoEntryYet, KeepsSelection

LEMMA PassedStays ==
  ASSUME RepairInv, NEW r \in Runs, Step(r) \/ Kill(r), Calm', NEW e \in Environments, Passed(e)
  PROVE  Passed(e)'
<1>0. /\ Types /\ BuildInv /\ BackInv /\ BuildInv' /\ PassesLock(r) /\ JobsAre'
  <2>1. BackInv /\ BackInv'
    BY BackInvKept DEF RepairInv, SealInv, ReachInv, Next
  <2> QED
    BY <2>1, LockPassed DEF BackInv, BuildInv
<1>1. Predates(e)'
  BY OldStays DEF Passed, Calm
<1>2. record'.selected # e
  <2>1. ASSUME run[r].phase = "commit", Env(r) = e PROVE FALSE
    <3>1. Building(r)
      BY <1>0, <2>1, FieldsOfRun
         DEF Types, BuildInv, JobsAre, Finishing, RunStates, Building, Wholes
    <3>2. dirs[e].by = r
      BY <1>0, <2>1, <3>1 DEF Passed, Predates, Crossed, Apart, BuildInv, OwnDirs, Own
    <3> QED
      BY <3>2, InstallerAssumption DEF Passed, Predates
  <2>2. run[r].phase # "undo selection"
    BY <1>0, CalmBefore
  <2> QED
    BY <1>0, <2>1, <2>2, SelectedGoes DEF Passed
<1>3. ASSUME NEW q \in Runs, run'[q].env = e, run'[q].job = "finish"
      PROVE  run'[q].phase \in {"finish", "over", "dead"}
  <2>1. CASE run'[q] = run[q]
    BY <1>3, <2>1 DEF Passed, Env
  <2>2. CASE run'[q] # run[q] /\ run'[q].phase \notin {"finish", "over", "dead"}
    <3>1. q = r
      BY <1>0, <2>2 DEF PassesLock
    <3>2. run'[r].phase \in {"note", "place", "placed", "settle", "undo link", "undo entry"}
      BY <1>0, <1>3, <2>2, <3>1 DEF JobsAre, Finishing
    <3>3. Finishes(r) /\ Env(r) = e
      <4>1. Finishes(r)'
        BY <1>3, <3>1, <3>2 DEF Finishes, Ended
      <4>2. ~Resume(r)
        BY <1>0, <3>2, ResumeIs DEF Moves
      <4> QED
        BY <1>0, <1>3, <3>1, <4>1, <4>2, FinishingGoes DEF Env
    <3>4. run[r].phase = "finish"
      BY <3>3 DEF Passed, Finishes, Ended
    <3>5. Finish(r)
      BY <1>0, <3>1, <3>2, <3>4, ComesIs
         DEF Comes, Commit, Note, Place, PlaceFails, Land, UndoLink, UndoLinkFails, At
    <3> QED
      BY <3>3, <3>5 DEF Finish, Finishable, Passed
  <2> QED
    BY <2>1, <2>2
<1> QED
  BY <1>1, <1>2, <1>3 DEF Passed, Env

\* The entry a run writes is for the path it found in the entry, if there was one.
LEMMA EntryKeepsPath ==
  ASSUME RepairInv, NEW r \in Runs, Commit(r) \/ Note(r), Calm
  PROVE  /\ record.pointer.path \in {None, run[r].path} /\ promoter = r
         /\ Note(r) => record.selected = Env(r) /\ run[r].path = PathFor(Env(r))
<1>0. Types /\ BackInv /\ promoter = r /\ Stands(r)
  BY DEF RepairInv, SealInv, ReachInv, BackInv, BuildInv, Commit, Note, At, OnePromotes, Promoting,
         InPromotion, Calm
<1>1. CASE Commit(r)
  <2>1. run[r].phase = "commit" /\ record.pointer = run[r].found /\ ~Note(r)
    BY <1>0, <1>1 DEF Commit, Note, At, Stands, Found
  <2>2. Unhurt
    BY DEF Calm, Unhurt, Quiet
  <2> QED
    BY <1>0, <2>1, <2>2 DEF RepairInv, FoundIsTrue, Promoting, Calm
<1>2. CASE Note(r)
  <2>1. run[r].phase = "note" /\ record.selected = Env(r)
    BY <1>0, <1>2 DEF Note, At, Stands
  <2>2. run[r].path = PathFor(Env(r))
    BY <2>1 DEF RepairInv, FinishesWhatItSaw, PathsStand, Deliberating, Passed
  <2> QED
    BY <1>0, <2>1, <2>2 DEF PathFor
<1> QED
  BY <1>1, <1>2

LEMMA PathsStandKept ==
  ASSUME RepairInv, NEW r \in Runs, Step(r) \/ Kill(r)
  PROVE  PathsStand'
<1>0. Types /\ Types' /\ BuildInv /\ BackInv /\ PassesLock(r) /\ JobsAre /\ OnePromotes
  BY LockPassed, TypesKept DEF RepairInv, SealInv, ReachInv, BackInv, BuildInv, Next
<1> SUFFICES ASSUME Calm', NEW q \in Runs, run'[q].phase \in Deliberating,
                    NEW e \in Environments, run'[q].saw = e, run'[q].env = e
             PROVE  run'[q].path = PathFor(e)' \/ Passed(e)'
  <2>1. \A q \in Runs : run'[q].phase \in Deliberating => run'[q].env \in Environments
    BY <1>0 DEF Types, RunsOK, Deliberating
  <2> QED
    BY <2>1 DEF PathsStand, Env
<1>1. Calm /\ (KeepsSelection \/ Commit(r) \/ Note(r))
  BY <1>0, CalmBefore
<1>2. CASE q = r /\ run'[r].phase = "loaded" /\ \E x \in Environments : Load(r, x)
  <2>1. PICK x \in Environments : Load(r, x)
    BY <1>2
  <2>2. run'[r] = [run[r] EXCEPT !.phase = "loaded", !.env = x, !.saw = record.selected,
                                 !.path = PathFor(x)]
    BY <1>0, <2>1 DEF Load, Types, RunsOK
  <2>3. run[r] \in RunStates
    BY <1>0, FieldsOfRun DEF Types
  <2>4. run'[r].env = x /\ run'[r].path = PathFor(x)
    BY <2>2, <2>3 DEF RunStates
  <2>5. record' = record
    BY <2>1 DEF Load, KeepRecord
  <2> QED
    BY <1>2, <2>4, <2>5 DEF PathFor
<1>3. CASE /\ run[q].phase \in Deliberating /\ run'[q].env = run[q].env
           /\ run'[q].path = run[q].path /\ run'[q].saw = run[q].saw
  <2>0. /\ run[q].path = PathFor(e) \/ Passed(e)
        /\ Env(q) = e /\ run[q].saw = e
    BY <1>1, <1>3 DEF RepairInv, PathsStand, Env
  <2>1. Passed(e) => Passed(e)'
    BY PassedStays
  <2>2. CASE record'.pointer.path = record.pointer.path
    BY <1>3, <2>0, <2>1, <2>2 DEF PathFor
  <2>3. CASE record'.pointer.path # record.pointer.path
    <3>1. Commit(r) \/ Note(r)
      BY <1>1, <2>3 DEF KeepsSelection
    <3>2. record'.pointer.path = run[r].path /\ run[r].path \in Destinations
      <4>1. run[r].path \in Destinations /\ record \in Records
        BY <1>0, <3>1, FieldsOfRun DEF Commit, Note, At, Types
      <4>2. record'.pointer = Entry(run[r].path)
        BY <3>1, <4>1 DEF Commit, Note, Selecting, Records
      <4> QED
        BY <4>1, <4>2 DEF Entry
    <3>3. record.pointer.path = None /\ promoter = r
      BY <1>1, <2>3, <3>1, <3>2, EntryKeepsPath
    <3>4. record.selected = e /\ Predates(e)
      <4>1. e # None
        BY InstallerAssumption
      <4> QED
        BY <1>1, <1>3, <2>0, <3>3, <4>1 DEF RepairInv, NoEntryYet
    <3>5. CASE Note(r)
      <4>1. Env(r) = e /\ run[r].path = PathFor(e)
        BY <1>1, <3>4, <3>5, EntryKeepsPath
      <4>2. run[q].path = PathFor(e)
        BY <2>0, <3>4 DEF Passed
      <4>3. PathFor(e)' = run[r].path
        BY <3>2, InstallerAssumption DEF PathFor
      <4> QED
        BY <1>3, <4>1, <4>2, <4>3
    <3>6. CASE Commit(r)
      <4>1. Env(r) # e
        <5>1. Building(r)
          BY <1>0, <3>6, FieldsOfRun
             DEF Commit, At, Types, JobsAre, Finishing, RunStates, Building, Wholes
        <5>2. dirs[Env(r)].by = r
          BY <1>0, <1>1, <5>1, Workplace DEF Calm, Crossed, Apart, BuildInv, OwnDirs, Own
        <5> QED
          BY <3>4, <5>2, InstallerAssumption DEF Predates
      <4>2. Predates(e)'
        BY <3>4, <4>1, OldStays DEF Calm
      <4>3. record'.selected = Env(r)
        BY <1>0, <3>6 DEF Commit, Selecting, Types, Records
      <4>4. ASSUME NEW x \in Runs, run'[x].env = e, run'[x].job = "finish"
            PROVE  run'[x].phase \in {"finish", "over", "dead"}
        <5>1. run'[r].env = Env(r)
          BY <1>0, <3>6, NextPhase DEF Plain, SameJob, Env
        <5>2. x # r /\ run'[x] = run[x] /\ run[x].phase \in Finishing
          BY <1>0, <4>1, <4>4, <5>1 DEF PassesLock, JobsAre
        <5>3. run[x].phase \notin Promoting
          BY <1>0, <3>3, <5>2 DEF OnePromotes
        <5>4. run[x].phase # "settle"
          BY <1>1, <3>3 DEF RepairInv, NoEntryYet
        <5> QED
          BY <5>2, <5>3, <5>4 DEF Finishing, Promoting
      <4> QED
        BY <4>1, <4>2, <4>3, <4>4 DEF Passed, Env
    <3> QED
      BY <3>1, <3>5, <3>6
  <2> QED
    BY <2>2, <2>3
<1>4. q # r => run'[q] = run[q]
  BY <1>0 DEF PassesLock
<1> QED
  BY <1>0, <1>2, <1>3, <1>4, DeliberatingGoes

LEMMA PointerGoes ==
  ASSUME Types, NEW r \in Runs, Step(r) \/ Kill(r)
  PROVE  \/ record'.pointer = record.pointer
         \/ record'.pointer.placed
         \/ /\ UndoEntry(r) \/ UndoEntryFails(r)
            /\ run[r].settled /\ record'.pointer = EntryBack(r) /\ links' = links
<1>0. record \in Records
  BY DEF Types
<1>1. CASE ~Writes(r)
  BY <1>1, OthersWriteNothing DEF KeepsSelection
<1>2. CASE Place(r) \/ PlaceFails(r) \/ UndoLink(r)
  BY <1>2, RecordIs DEF Writes
<1>3. CASE Commit(r) \/ CommitFails(r) \/ Note(r) \/ NoteFails(r)
  <2>1. record'.pointer \in {record.pointer, Entry(run[r].path)}
    BY <1>0, <1>3 DEF Commit, CommitFails, Note, NoteFails, Selecting, Records
  <2> QED
    BY <2>1 DEF Entry
<1>4. CASE UndoEntry(r) \/ UndoEntryFails(r)
  <2>1. record' \in {record, Disclaiming(r)} /\ links' = links
    BY <1>4 DEF UndoEntry, UndoEntryFails, KeepLinks
  <2>2. CASE run[r].settled /\ record.pointer.path = run[r].path
    <3>1. Disclaiming(r).pointer = EntryBack(r)
      BY <1>0, <2>2 DEF Disclaiming, Records
    <3> QED
      BY <1>4, <2>1, <2>2, <3>1
  <2>3. CASE ~(run[r].settled /\ record.pointer.path = run[r].path)
    BY <2>1, <2>3 DEF Disclaiming
  <2> QED
    BY <2>2, <2>3
<1>5. CASE UndoSelection(r) \/ UndoSelectionFails(r)
  BY <1>5, RecordIs DEF Writes
<1> QED
  BY <1>1, <1>2, <1>3, <1>4, <1>5 DEF Writes

LEMMA EntryIsTrueKept ==
  ASSUME RepairInv, NEW r \in Runs, Step(r) \/ Kill(r)
  PROVE  EntryIsTrue'
<1>0. Types /\ Types' /\ BackInv /\ OnePromotes
  BY TypesKept DEF RepairInv, SealInv, ReachInv, BackInv, BuildInv, Next
<1> SUFFICES ASSUME Unhurt', NEW d \in Destinations, record'.pointer.path = d,
                    ~record'.pointer.placed
             PROVE  links'[d].to = None
  BY <1>0 DEF EntryIsTrue, Types, Records, Entries
<1>1. Unhurt
  BY <1>0, CalmBefore
<1>2. CASE record'.pointer = record.pointer
  <2>1. links[d].to = None
    BY <1>1, <1>2, InstallerAssumption DEF RepairInv, EntryIsTrue
  <2>2. ASSUME run[r].phase = "place" \/ UndoLink(r) PROVE FALSE
    <3>1. run[r].phase \in {"place", "undo link"} /\ InPromotion(r)
      BY <1>0, <1>1, <2>2 DEF UndoLink, At, OnePromotes, Promoting, InPromotion, Unhurt, Quiet
    <3>2. record.pointer = Entry(run[r].path)
      BY <1>0, <3>1 DEF BackInv, Stands, Chosen
    <3> QED
      BY <1>2, <3>2 DEF Entry
  <2> QED
    BY <1>0, <2>1, <2>2, LinkGoes
<1>3. CASE /\ UndoEntry(r) \/ UndoEntryFails(r)
           /\ run[r].settled /\ record'.pointer = EntryBack(r)
           /\ links' = links
  <2>1. run[r].phase = "undo entry" /\ Restored(r) /\ run[r] \in RunStates
    BY <1>0, <1>1, <1>3, FieldsOfRun
       DEF UndoEntry, UndoEntryFails, At, OnePromotes, Promoting, InPromotion, Unhurt, Quiet,
           BackInv, Types
  <2>2. faults = 1
    <3>1. faults >= 1
      BY <2>1 DEF Restored, Undoing
    <3>2. faults \in Nat /\ faults <= 1
      BY <1>0, <1>1 DEF Types, Unhurt, Quiet
    <3> QED
      BY <3>1, <3>2
  <2>3. links[run[r].path].to = run[r].before.to
    BY <2>1, <2>2 DEF Restored, Undoing
  <2>4. /\ run[r].found.path \in {None, run[r].path}
        /\ run[r].found.path # None /\ ~run[r].found.placed => run[r].before.to = None
    BY <1>1, <2>1 DEF RepairInv, FoundIsTrue, Promoting, Undoing
  <2>5. d # None
    BY InstallerAssumption
  <2>6. CASE run[r].before.to # None
    BY <1>3, <2>4, <2>5, <2>6 DEF EntryBack
  <2>7. CASE run[r].before.to = None
    <3>1. record'.pointer = WithoutPlacement(run[r].found)
      BY <1>3, <2>7 DEF EntryBack
    <3>2. WithoutPlacement(run[r].found).path = run[r].found.path
      BY <2>1 DEF WithoutPlacement, RunStates, Entries
    <3> QED
      BY <1>3, <2>3, <2>4, <2>5, <2>7, <3>1, <3>2
  <2> QED
    BY <2>6, <2>7
<1> QED
  BY <1>0, <1>2, <1>3, PointerGoes

LEMMA FoundIsTrueKept ==
  ASSUME RepairInv, NEW r \in Runs, Step(r) \/ Kill(r)
  PROVE  FoundIsTrue'
<1>0. Types /\ BackInv /\ OnePromotes /\ PassesLock(r)
  BY LockPassed DEF RepairInv, SealInv, ReachInv, BackInv, BuildInv
<1> SUFFICES ASSUME Unhurt', NEW q \in Runs, run'[q].phase \in Promoting,
                    faults' = 0 \/ run'[q].phase \in Undoing
             PROVE  /\ run'[q].found.path \in {None, run'[q].path}
                    /\ run'[q].found.path # None /\ ~run'[q].found.placed
                         => run'[q].before.to = None
  BY DEF FoundIsTrue
<1>1. Unhurt /\ faults \in Nat /\ (faults' = faults \/ faults' = faults + 1) /\ faults' <= 1
  BY <1>0, CalmBefore, OthersWriteNothing, WritersAre DEF Types, Unhurt, Quiet
<1>2. CASE run[q].phase \in Promoting /\ SameFinds(q)
  <2>1. faults = 0 \/ run[q].phase \in Undoing
    <3>1. CASE run'[q] = run[q] \/ faults' = 0
      BY <1>1, <3>1
    <3>2. CASE run'[q] # run[q] /\ run[q].phase \notin Undoing /\ run'[q].phase \in Undoing
      <4>1. q = r /\ InPromotion(r)
        BY <1>0, <1>1, <1>2, <3>2 DEF PassesLock, InPromotion, OnePromotes, Unhurt, Quiet
      <4>2. PlaceFails(r) \/ Land(r)
        BY <1>0, <1>2, <3>2, <4>1, ComesIs
           DEF Comes, Undoing, Promoting, UndoLink, UndoLinkFails, UndoEntry, UndoEntryFails, At
      <4>3. CASE PlaceFails(r)
        <5>1. faults' = faults + 1
          BY <4>3 DEF PlaceFails, Fault
        <5> QED
          BY <1>1, <5>1
      <4>4. CASE Land(r)
        <5>1. links[run[r].path] = LinkTo(Env(r))
          BY <1>0, <4>1, <4>4 DEF BackInv, Stands, Land, At
        <5>2. Names(run[r].path, Env(r))
          BY <5>1 DEF Names, LinkTo
        <5>3. run'[r].phase = "settle"
          BY <1>0, <4>4, <5>2, NextPhase DEF Plain, Moves
        <5> QED
          BY <3>2, <4>1, <5>3 DEF Undoing
      <4> QED
        BY <4>2, <4>3, <4>4
    <3> QED
      BY <1>1, <3>1, <3>2
  <2> QED
    BY <1>1, <1>2, <2>1 DEF RepairInv, FoundIsTrue, SameFinds
<1>3. CASE q = r /\ Judge(r)
  <2>1. /\ run'[r].found = record.pointer /\ run'[r].before = links[run'[r].path]
        /\ run'[r].path = PathFor(Env(r))
    BY <1>0, <1>3, JudgeIs
  <2>2. record.pointer.path \in {None, run'[r].path}
    BY <2>1 DEF PathFor
  <2> QED
    BY <1>1, <1>3, <2>1, <2>2 DEF RepairInv, EntryIsTrue
<1>4. CASE q = r /\ Finish(r)
  <2>1. /\ run'[r].found = record.pointer /\ run'[r].before = links[run[r].path]
        /\ run'[r].path = run[r].path /\ faults' = faults /\ run'[r].phase = "note"
        /\ run[r].phase = "finish" /\ record.selected = Env(r)
    BY <1>0, <1>4, FinishIs DEF Plain, Moves, Finish, Finishable
  <2>2. Calm
    BY <1>1, <1>4, <2>1 DEF Unhurt, Quiet, Calm, Undoing
  <2>3. run[r].path = PathFor(Env(r))
    BY <2>1, <2>2 DEF RepairInv, FinishesWhatItSaw, PathsStand, Deliberating, Passed
  <2>4. record.pointer.path \in {None, run[r].path}
    BY <2>3 DEF PathFor
  <2> QED
    BY <1>1, <1>4, <2>1, <2>4 DEF RepairInv, EntryIsTrue
<1> QED
  BY <1>0, <1>2, <1>3, <1>4, PromotingGoes

LEMMA AroundRepairs ==
  ASSUME RepairInv, NEW x \in Destinations, NEW t \in Environments \cup {Elsewhere, None},
         HandLink(x, t)
  PROVE  RepairInv'
<1>0. Types /\ SealInv'
  BY AroundSeals DEF RepairInv, SealInv, ReachInv, BackInv, BuildInv
<1>1. /\ dirs' = dirs /\ run' = run /\ record' = record /\ locks' = locks
      /\ reclaimed' = reclaimed /\ hands' = hands + 1
  BY <1>0, AroundRuns DEF HandLink, KeepPast
<1>2. Noted'
  <2>1. \A e \in Environments : Counts(e)' => Counts(e)
    BY <1>0, AroundCounts
  <2> QED
    BY <1>1, <2>1 DEF RepairInv, Noted, Spared, Crossed, Apart, Env
<1>3. OldIsLeft' /\ FinishesWhatItSaw'
  BY <1>1 DEF RepairInv, OldIsLeft, FinishesWhatItSaw, Predates, Crossed, Env, At
<1>4. hands' # 0 /\ ~Calm' /\ ~Unhurt'
  BY <1>0, <1>1 DEF Types, Calm, Unhurt, Quiet
<1> QED
  BY <1>0, <1>2, <1>3, <1>4 DEF RepairInv, NoEntryYet, PathsStand, EntryIsTrue, FoundIsTrue

LEMMA RepairInvKept ==
  ASSUME RepairInv, [Next]_vars
  PROVE  RepairInv'
<1>0. SealInv' /\ ReachInv
  BY SealInvKept DEF RepairInv, SealInv
<1>1. ASSUME NEW r \in Runs, Step(r) \/ Kill(r) PROVE RepairInv'
  <2>1. Noted'
    BY <1>0, <1>1, NotedKept DEF RepairInv
  <2>2. NoEntryYet' /\ PathsStand' /\ OldIsLeft' /\ FinishesWhatItSaw'
    BY <1>1, NoEntryYetKept, PathsStandKept, OldIsLeftKept, FinishesWhatItSawKept
  <2>3. EntryIsTrue' /\ FoundIsTrue'
    BY <1>1, EntryIsTrueKept, FoundIsTrueKept
  <2> QED
    BY <1>0, <2>1, <2>2, <2>3 DEF RepairInv
<1>2. CASE UNCHANGED vars
  <2>1. /\ dirs' = dirs /\ links' = links /\ record' = record /\ promoter' = promoter
        /\ run' = run /\ reclaimed' = reclaimed /\ faults' = faults /\ hands' = hands
        /\ locks' = locks
    BY <1>2 DEF vars
  <2>2. Noted'
    BY <2>1 DEF RepairInv, Noted, Spared, Crossed, Counts, Linked, Recalls, Restores, Apart, Env
  <2> QED
    BY <1>0, <2>1, <2>2
       DEF RepairInv, NoEntryYet, PathsStand, OldIsLeft, FinishesWhatItSaw, EntryIsTrue,
           FoundIsTrue, Calm, Unhurt, Quiet, Predates, Crossed, Passed, PathFor, Env, At
<1> QED
  BY <1>0, <1>1, <1>2, AroundRepairs DEF Next

LEMMA RepairInvAtFirst ==
  ASSUME Init
  PROVE  RepairInv
<1>1. /\ \A r \in Runs : run[r].phase = "idle"
      /\ Clean \/ \E e \in Environments : Legacy(e) \/ Installed(e)
  BY DEF Init, Idle
<1>2. Noted
  BY <1>1, CountsAtFirst DEF Noted, Spared, Wholes
<1>3. NoEntryYet
  <2> SUFFICES ASSUME record.pointer.path = None, record.selected # None
               PROVE  Predates(record.selected)
    BY <1>1 DEF NoEntryYet, Deliberating
  <2>1. ~Clean
    BY DEF Clean
  <2>2. ASSUME NEW x \in Environments, Legacy(x) PROVE Predates(record.selected)
    BY <2>2 DEF Legacy, Predates, Old, NoDir, Init, Unlocked, Crossed
  <2>3. ASSUME NEW x \in Environments, Installed(x) PROVE FALSE
    BY <2>3, InstallerAssumption DEF Installed, Entry
  <2> QED
    BY <1>1, <2>1, <2>2, <2>3
<1>4. EntryIsTrue
  <2>1. record.pointer.path = None \/ record.pointer.placed
    BY <1>1 DEF Clean, Legacy, Installed, NoEntry, Entry
  <2> QED
    BY <2>1 DEF EntryIsTrue
<1>5. PathsStand /\ OldIsLeft /\ FinishesWhatItSaw /\ FoundIsTrue
  BY <1>1 DEF PathsStand, OldIsLeft, FinishesWhatItSaw, FoundIsTrue, Deliberating, Promoting
<1> QED
  BY <1>2, <1>3, <1>4, <1>5, SealInvAtFirst DEF RepairInv

LEMMA InterruptedIsFinishable ==
  ASSUME RepairInv
  PROVE  InterruptedIsRepairable
<1> SUFFICES ASSUME NEW e \in Environments, record.selected = e, hands = 0, faults <= 1,
                    reclaimed \cup Crossed = {}, \A d \in Destinations : ~Names(d, e)
             PROVE  /\ DecidedNow(e) \in {"RESUME", "RECORDED"}
                    /\ Finishable(e, PathFor(e)) /\ dirs[e].built = "whole"
  <2>1. record.selected \in Environments \cup {None}
    BY DEF RepairInv, SealInv, ReachInv, BackInv, BuildInv, Types, Records
  <2> QED
    BY <2>1 DEF InterruptedIsRepairable
<1>0. /\ Types /\ Reaches /\ OnlyRuns /\ Noted /\ Quiet /\ Unhurt
      /\ \A x \in Environments : x \in Spared
  BY DEF RepairInv, SealInv, ReachInv, BackInv, BuildInv, Quiet, Unhurt, Spared
<1>1. dirs[e].built = "whole" /\ Occupied(e)
  BY <1>0 DEF Reaches, CountsWhole, Counts, Whole, Occupied
<1>2. DecidedNow(e) \in {"RESUME", "RECORDED"}
  <2>1. dirs[e].claim \in {"none", "STAGING", "COMPLETE"}
    BY <1>0 DEF Types, Dirs, Claims
  <2>2. dirs[e].claim # "COMPLETE"
    BY <1>0, InstallerAssumption DEF RepairInv, SealInv, SealedIsReached, Sealed, Reached
  <2> QED
    BY <1>1, <2>1, <2>2 DEF DecidedNow, Decide
<1>3. Finishable(e, PathFor(e))
  <2> SUFFICES ASSUME NEW d \in Destinations, PathFor(e) = d, links[d].to # None
               PROVE  Accounted(links[d]) /\ ~Disowned(d)
    BY <1>0, PathIsDestination DEF Finishable
  <2>1. links[d].to \in Environments /\ Linked(d, links[d].to)
    BY <1>0 DEF OnlyRuns, ByRun, Linked
  <2>2. Accounted(links[d])
    BY <1>0, <2>1 DEF Noted, Counts, Accounted
  <2>3. ~Disowned(d)
    BY <1>0, InstallerAssumption DEF RepairInv, EntryIsTrue, Disowned
  <2> QED
    BY <2>2, <2>3
<1> QED
  BY <1>1, <1>2, <1>3

\* What a run was killed or failed at can be put right by running it again (cmd_install,
\* staging.decide, _finish_promotion): the selected runtime is reached, or a run of the same
\* sources is let finish its promotion; and no name is left behind at which every run is refused.
THEOREM Repairable == Spec => []RepairIsPossible
<1>1. Init => RepairInv
  BY RepairInvAtFirst
<1>2. RepairInv /\ [Next]_vars => RepairInv'
  BY RepairInvKept
<1>3. RepairInv => RepairIsPossible
  BY InterruptedIsFinishable, NothingRefusedForGood DEF RepairInv, RepairIsPossible
<1> QED
  BY <1>1, <1>2, <1>3, PTL DEF Spec
=============================================================================
