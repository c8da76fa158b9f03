----------------------------- MODULE Installer -----------------------------
(***************************************************************************)
(* `runtime_install.py install': runs that build a runtime into a          *)
(* directory named after its sources, select it in the host record and     *)
(* move one owned link to it (crw_runtime/staging.py, pointer.py and       *)
(* hostrecord.py are its helpers).  A run may be killed at any step, a     *)
(* step of it may fail, and the next run finds what was left.              *)
(*                                                                         *)
(* Three locks: the lock file of a directory's name (Locked), held while   *)
(* what to do with the directory is decided; the flock in the directory    *)
(* (Held), held for the run; the flock of promotion (Exclusive).  A killed *)
(* run drops the flocks, its lock file stays until it is old, and two runs *)
(* that wait for it may both be let in.  The components of a runtime are   *)
(* selected together and are one here.                                     *)
(***************************************************************************)
EXTENDS Naturals, FiniteSets, Locked

CONSTANTS
  Runs,          \* processes that run install, each once
  Environments,  \* directories a runtime is built into
  Destinations,  \* --dest; each has one path for the link, <dest>/current
  DestOf,        \* the destination of an environment
  Elsewhere,     \* a target that is none of the environments
  None,
  Kills,         \* model bound on runs killed
  Faults,        \* model bound on failed steps
  Hands          \* model bound on links an operator moves

ASSUME InstallerAssumption ==
  /\ DestOf \in [Environments -> Destinations]
  /\ None \notin Runs \cup Environments \cup Destinations /\ Elsewhere \notin Environments
  /\ Kills \in Nat /\ Faults \in Nat /\ Hands \in Nat

VARIABLES
  dirs,       \* what is in the directory of an environment
  links,      \* what is at the path of a destination's link
  record,     \* the host record: selection, ownership entry, installs
  promoter,   \* who holds the promotion lock
  locks,      \* the lock of an environment's name
  run,        \* the runs
  promoted,   \* history: environments a host could reach through the link
  reclaimed,  \* history: those a run took away although a host reached them, the record
              \* selected them, or a promotion under way might go back to them
  kills, faults, hands

vars == <<dirs, links, record, promoter, locks, run, promoted, reclaimed, kills, faults, hands>>

\* `by' is the run that made it (an inode), `torn' that its removal has begun, `litter' a lock
\* file or a temporary file of a claim that was being written.
NoDir    == [there |-> FALSE, by |-> None, built |-> "none", claim |-> "none", lockfile |-> FALSE,
             held |-> None, torn |-> FALSE, litter |-> FALSE]
Fresh(r) == [NoDir EXCEPT !.there = TRUE, !.by = r]

\* A write through the name makes the directory again if it is gone.
Written(e, r) == IF dirs[e].there THEN dirs[e] ELSE Fresh(r)

NoLink     == [to |-> None, by |-> None]
LinkTo(e)  == [to |-> e, by |-> "run"]
NoEntry    == [path |-> None, placed |-> FALSE]
Entry(d)   == [path |-> d, placed |-> TRUE]

\* hostrecord.without_placement: the path stays, the evidence of a link does not.
WithoutPlacement(entry) == [entry EXCEPT !.placed = FALSE]

\* pointer.names
Names(d, e) == links[d].to = e

Idle == [phase |-> "idle", job |-> "install", env |-> None, path |-> None, saw |-> None,
         near |-> FALSE, claim |-> "none", prev |-> None, found |-> NoEntry, before |-> NoLink,
         settled |-> FALSE, known |-> FALSE, victim |-> None]

Living(r) == run[r].phase \notin {"idle", "over", "dead"}
Env(r)    == run[r].env
At(r, phase) == run[r].phase = phase
To(r, phase) == run' = [run EXCEPT ![r].phase = phase]

KeepDirs   == UNCHANGED dirs
KeepRecord == UNCHANGED record
KeepLinks  == UNCHANGED links
KeepLocks  == UNCHANGED <<promoter, locks>>
KeepPast   == UNCHANGED <<promoted, reclaimed>>
KeepBounds == UNCHANGED <<kills, faults, hands>>

\* What the operating system takes back when a process ends.
Unheld(r) == [e \in Environments |-> IF dirs[e].held = r THEN [dirs[e] EXCEPT !.held = None]
                                     ELSE dirs[e]]
Without(flock, r) == IF flock = r THEN None ELSE flock

\* The locks of names, when r is out of every `with' of theirs.
AllLeft(r) == [e \in Environments |-> Left(locks[e], r)]

\* The run ends; every `with' and `finally' is left.
End(r) ==
  /\ To(r, "over")
  /\ dirs' = Unheld(r)
  /\ promoter' = Without(promoter, r)
  /\ locks' = AllLeft(r)

\* A step fails where the code has an answer for it.
Fault == /\ faults < Faults /\ faults' = faults + 1 /\ UNCHANGED <<kills, hands>>

\* _install_failed is called; `known' is whether it is handed the path of the link.
Failing(r, known) == run' = [run EXCEPT ![r].phase = "failing", ![r].known = known]
-----------------------------------------------------------------------------
(* Deciding what to do with the directory, under the lock of its name.     *)

\* staging.decide, where every reading could be made.
Decide(claim, live, occupied, protected, selected) ==
  IF live THEN "OCCUPIED" ELSE
  CASE claim = "none" /\ occupied -> IF selected THEN "RECORDED" ELSE "FOREIGN"
    [] claim = "none" /\ ~occupied -> IF protected THEN "KEEP" ELSE "ADOPT"
    [] claim = "COMPLETE" -> IF selected THEN "SETTLED" ELSE "KEEP"
    [] OTHER -> IF selected THEN "RESUME" ELSE IF protected THEN "KEEP" ELSE "RECLAIM"

NobodyLives(e) == FALSE   \* mutant

Live(e) == dirs[e].there /\ dirs[e].lockfile /\ dirs[e].held # None   \* owner_liveness

Occupied(e) == dirs[e].built # "none" \/ dirs[e].litter   \* directory_occupied

\* The lock of the name, and a run beside r that asks for the flock just now (owner_liveness).
Lock(r)   == locks[Env(r)]
Asked(r)  == \E q \in Lock(r).within \ {r} : At(q, "read")

\* The path the run works with, as the record it read has it.
PathFor(e) == IF record.pointer.path # None THEN record.pointer.path ELSE DestOf[e]

\* cmd_install up to the lock of the directory's name: the record is read once.
Load(r, e) ==
  /\ At(r, "idle")
  /\ run' = [run EXCEPT ![r].phase = "loaded", ![r].env = e, ![r].saw = record.selected,
                        ![r].path = PathFor(e)]
  /\ KeepDirs /\ KeepLinks /\ KeepRecord /\ KeepLocks /\ KeepPast /\ KeepBounds

Take(r) ==
  /\ At(r, "loaded") /\ Free(Lock(r))
  /\ locks' = [locks EXCEPT ![Env(r)] = Entered(@, r)]
  /\ To(r, IF dirs[Env(r)].there THEN "found" ELSE "make")
  /\ KeepDirs /\ KeepLinks /\ KeepRecord /\ UNCHANGED promoter /\ KeepPast /\ KeepBounds

\* The age of the file is read: it is old.
Notice(r) ==
  /\ At(r, "loaded") /\ OutOfDate(Lock(r))
  /\ To(r, "old")
  /\ KeepDirs /\ KeepLinks /\ KeepRecord /\ KeepLocks /\ KeepPast /\ KeepBounds

\* Whatever has the name by now is unlinked, and the run tries again.
Break(r) ==
  /\ At(r, "old")
  /\ locks' = [locks EXCEPT ![Env(r)] = Cleared(@)]
  /\ To(r, "loaded")
  /\ KeepDirs /\ KeepLinks /\ KeepRecord /\ UNCHANGED promoter /\ KeepPast /\ KeepBounds

\* Ten seconds are over.
Busy(r) ==
  /\ At(r, "loaded") /\ ~Free(Lock(r))
  /\ End(r)
  /\ KeepLinks /\ KeepRecord /\ KeepPast /\ KeepBounds

\* protected_environment: the link of the destination given, and the record read earlier.
Probe(r) ==
  /\ At(r, "found")
  /\ run' = [run EXCEPT ![r].phase = "probed", ![r].near = Names(DestOf[Env(r)], Env(r))]
  /\ KeepDirs /\ KeepLinks /\ KeepRecord /\ KeepLocks /\ KeepPast /\ KeepBounds

ReadClaim(r) ==
  /\ At(r, "probed")
  /\ run' = [run EXCEPT ![r].phase = "read", ![r].claim = dirs[Env(r)].claim]
  /\ KeepDirs /\ KeepLinks /\ KeepRecord /\ KeepLocks /\ KeepPast /\ KeepBounds

Decision(r) ==
  LET e == Env(r) mine == run[r].saw = Env(r) IN
  Decide(run[r].claim, Live(e), Occupied(e), mine \/ run[r].near, mine)

\* SETTLED, and every refusal: OCCUPIED, FOREIGN, KEEP, what vanished meanwhile.
LeaveIt(r) ==
  /\ At(r, "read")
  /\ \/ Decision(r) \in {"SETTLED", "OCCUPIED", "FOREIGN", "KEEP"}
     \/ Decision(r) \in {"ADOPT", "RECLAIM"} /\ ~dirs[Env(r)].there
     \/ dirs[Env(r)].lockfile /\ Asked(r)
  /\ End(r)
  /\ KeepLinks /\ KeepRecord /\ KeepPast /\ KeepBounds

\* RESUME and RECORDED
Resume(r) ==
  /\ At(r, "read")
  /\ Decision(r) \in {"RESUME", "RECORDED"}
  /\ run' = [run EXCEPT ![r].phase = "finish", ![r].job = "finish"]
  /\ KeepDirs /\ KeepLinks /\ KeepRecord /\ KeepLocks /\ KeepPast /\ KeepBounds

Adopt(r) ==
  /\ At(r, "read") /\ dirs[Env(r)].there
  /\ Decision(r) = "ADOPT"
  /\ To(r, "adopt")
  /\ KeepDirs /\ KeepLinks /\ KeepRecord /\ KeepLocks /\ KeepPast /\ KeepBounds

\* clear_own and rmdir
TakeOver(r) ==
  /\ At(r, "adopt") /\ dirs[Env(r)].there /\ ~Occupied(Env(r))
  /\ dirs' = [dirs EXCEPT ![Env(r)] = NoDir]
  /\ To(r, "make")
  /\ KeepLinks /\ KeepRecord /\ KeepLocks /\ KeepPast /\ KeepBounds

\* rmdir is refused, after the two files are gone.
NotEmpty(r) ==
  /\ At(r, "adopt") /\ ~(dirs[Env(r)].there /\ ~Occupied(Env(r)))
  /\ To(r, "over")
  /\ dirs' = [Unheld(r) EXCEPT ![Env(r)].claim = "none", ![Env(r)].lockfile = FALSE]
  /\ promoter' = Without(promoter, r)
  /\ locks' = AllLeft(r)
  /\ KeepLinks /\ KeepRecord /\ KeepPast /\ KeepBounds

\* What the promotion under way found, and goes back to if it fails.
ToPutBack ==
  IF promoter = None THEN {} ELSE {run[promoter].prev, run[promoter].before.to}

Reclaim(r) ==
  /\ At(r, "read") /\ dirs[Env(r)].there
  /\ Decision(r) = "RECLAIM"
  /\ To(r, "reclaim")
  /\ reclaimed' = IF Env(r) \in promoted \cup {record.selected} \cup ToPutBack
                  THEN reclaimed \cup {Env(r)} ELSE reclaimed
  /\ KeepDirs /\ KeepLinks /\ KeepRecord /\ KeepLocks /\ UNCHANGED promoted /\ KeepBounds

\* mkdir without exist_ok
Make(r) ==
  /\ At(r, "make") /\ ~dirs[Env(r)].there
  /\ dirs' = [dirs EXCEPT ![Env(r)] = Fresh(r)]
  /\ To(r, "hold")
  /\ KeepLinks /\ KeepRecord /\ KeepLocks /\ KeepPast /\ KeepBounds

Exists(r) ==
  /\ At(r, "make") /\ dirs[Env(r)].there
  /\ End(r)
  /\ KeepLinks /\ KeepRecord /\ KeepPast /\ KeepBounds

\* Held.take
Hold(r) ==
  /\ At(r, "hold") /\ ~Live(Env(r))
  /\ dirs' = [dirs EXCEPT ![Env(r)] = [Written(Env(r), r) EXCEPT !.lockfile = TRUE, !.held = r]]
  /\ To(r, "claim")
  /\ KeepLinks /\ KeepRecord /\ KeepLocks /\ KeepPast /\ KeepBounds

\* Another holds it, if only to ask whether it is held.
NotHad(r) ==
  /\ At(r, "hold")
  /\ Live(Env(r)) \/ (dirs[Env(r)].lockfile /\ Asked(r))
  /\ Failing(r, FALSE)
  /\ KeepDirs /\ KeepLinks /\ KeepRecord /\ KeepLocks /\ KeepPast /\ KeepBounds

\* write_claim STAGING; the lock of the name is left.
Claim(r) ==
  /\ At(r, "claim")
  /\ dirs' = [dirs EXCEPT ![Env(r)] = [Written(Env(r), r) EXCEPT !.claim = "STAGING"]]
  /\ locks' = [locks EXCEPT ![Env(r)] = Left(@, r)]
  /\ To(r, "stage")
  /\ KeepLinks /\ KeepRecord /\ UNCHANGED promoter /\ KeepPast /\ KeepBounds

ClaimFails(r) ==
  /\ run[r].phase \in {"hold", "claim"} /\ Fault
  /\ Failing(r, FALSE)
  /\ KeepDirs /\ KeepLinks /\ KeepRecord /\ KeepLocks /\ KeepPast
-----------------------------------------------------------------------------
(* Building, and promotion under the promotion lock.                       *)

\* venv
Stage(r) ==
  /\ At(r, "stage")
  /\ dirs' = [dirs EXCEPT ![Env(r)] = [Written(Env(r), r) EXCEPT !.built = "part"]]
  /\ To(r, "build")
  /\ KeepLinks /\ KeepRecord /\ KeepLocks /\ KeepPast /\ KeepBounds

\* What was staged is still there.
Staged(e) == dirs[e].there /\ dirs[e].built # "none"

\* Installed and read back, recorded, measured.
Build(r) ==
  /\ At(r, "build") /\ Staged(Env(r))
  /\ dirs' = [dirs EXCEPT ![Env(r)].built = "whole"]
  /\ record' = [record EXCEPT !.installs = @ \cup {Env(r)}]
  /\ To(r, "ready")
  /\ KeepLinks /\ KeepLocks /\ KeepPast /\ KeepBounds

BuildFails(r) ==
  /\ \/ run[r].phase \in {"stage", "build", "ready"} /\ Fault
     \/ At(r, "build") /\ ~Staged(Env(r)) /\ KeepBounds
  /\ Failing(r, FALSE)
  /\ KeepDirs /\ KeepLinks /\ KeepRecord /\ KeepLocks /\ KeepPast

\* A link may be replaced that the record says a run placed and that names the selected
\* runtime (placement_recorded, pointer_conflict_of).
Replaceable(link) ==
  link.to # None => record.pointer.placed /\ record.selected # None /\ link.to = record.selected

\* The lock, the fresh record, and everything judged on it.
Enter(r, path) ==
  run' = [run EXCEPT ![r].phase = "commit", ![r].path = path, ![r].prev = record.selected,
                     ![r].found = record.pointer, ![r].before = links[path]]

Judge(r) ==
  LET path == PathFor(Env(r)) IN
  /\ At(r, "ready") /\ promoter = None
  /\ Replaceable(links[path])
  /\ promoter' = r
  /\ Enter(r, path)
  /\ KeepDirs /\ KeepLinks /\ KeepRecord /\ UNCHANGED locks /\ KeepPast /\ KeepBounds

\* The swap gate or the classification says no, the link is another's, or the lock is not
\* had within a minute.
Refused(r) ==
  /\ At(r, "ready")
  /\ \/ Failing(r, TRUE)
     \/ run' = [run EXCEPT ![r].phase = "failing", ![r].known = TRUE, ![r].path = PathFor(Env(r))]
  /\ KeepDirs /\ KeepLinks /\ KeepRecord /\ KeepLocks /\ KeepPast /\ KeepBounds

\* The selection and the ownership entry, in one write, before the link.
Selecting(r) == [record EXCEPT !.selected = Env(r), !.pointer = Entry(run[r].path)]

Commit(r) ==
  /\ At(r, "commit")
  /\ record' = Selecting(r)
  /\ To(r, "place")
  /\ KeepDirs /\ KeepLinks /\ KeepLocks /\ KeepPast /\ KeepBounds

\* update raises, before or after it saved, and the promotion lock is left with it.
CommitFails(r) ==
  /\ At(r, "commit") /\ Fault
  /\ record' \in {record, Selecting(r)}
  /\ Failing(r, TRUE)
  /\ promoter' = None
  /\ KeepDirs /\ KeepLinks /\ UNCHANGED locks /\ KeepPast

\* pointer.place: a temporary link, renamed over the path.
Placing(r) ==
  /\ links' = [links EXCEPT ![run[r].path] = LinkTo(Env(r))]
  /\ promoted' = promoted \cup {Env(r)}

Place(r) ==
  /\ At(r, "place")
  /\ Placing(r)
  /\ To(r, "placed")
  /\ KeepDirs /\ KeepRecord /\ KeepLocks /\ UNCHANGED reclaimed /\ KeepBounds

PlaceFails(r) ==
  /\ At(r, "place") /\ Fault
  /\ Placing(r) \/ UNCHANGED <<links, promoted>>
  /\ To(r, "undo link")
  /\ KeepDirs /\ KeepRecord /\ KeepLocks /\ UNCHANGED reclaimed

\* The link is read back; the promotion lock is left.
Land(r) ==
  /\ At(r, "placed")
  /\ IF Names(run[r].path, Env(r))
     THEN To(r, "settle") /\ promoter' = None
     ELSE To(r, "undo link") /\ UNCHANGED promoter
  /\ KeepDirs /\ KeepLinks /\ KeepRecord /\ UNCHANGED locks /\ KeepPast /\ KeepBounds

\* write_claim COMPLETE
Settle(r) ==
  /\ At(r, "settle")
  /\ To(r, "over")
  /\ dirs' = [Unheld(r) EXCEPT ![Env(r)] = [(IF dirs[Env(r)].there THEN @ ELSE Fresh(r))
                                             EXCEPT !.claim = "COMPLETE"]]
  /\ locks' = AllLeft(r)
  /\ KeepLinks /\ KeepRecord /\ UNCHANGED promoter /\ KeepPast /\ KeepBounds

SettleFails(r) ==
  /\ At(r, "settle") /\ Fault
  /\ \/ run[r].job = "install" /\ Failing(r, FALSE) /\ KeepDirs /\ KeepLocks
     \/ run[r].job = "finish" /\ End(r)
  /\ KeepLinks /\ KeepRecord /\ KeepPast
-----------------------------------------------------------------------------
(* _finish_promotion: the half a killed run did not write.                 *)

Accounted(link) == link.to \in record.installs   \* _target_is_recorded

Disowned(path) == record.pointer.path = path /\ ~record.pointer.placed

\* What the record, read under the lock, and the link say to finishing e through path.
Finishable(e, path) ==
  /\ record.selected = e
  /\ links[path].to # None => Accounted(links[path]) /\ ~Disowned(path)

Finish(r) ==
  /\ At(r, "finish") /\ promoter = None
  /\ Finishable(Env(r), run[r].path)
  /\ promoter' = r
  /\ run' = [run EXCEPT ![r].phase = "note", ![r].found = record.pointer,
                        ![r].before = links[run[r].path]]
  /\ KeepDirs /\ KeepLinks /\ KeepRecord /\ UNCHANGED locks /\ KeepPast /\ KeepBounds

\* The same where the lock is not had in time.
FinishRefused(r) ==
  /\ At(r, "finish")
  /\ promoter # None \/ ~Finishable(Env(r), run[r].path)
  /\ End(r)
  /\ KeepLinks /\ KeepRecord /\ KeepPast /\ KeepBounds

Note(r) ==
  /\ At(r, "note")
  /\ record' = [record EXCEPT !.pointer = Entry(run[r].path)]
  /\ To(r, "place")
  /\ KeepDirs /\ KeepLinks /\ KeepLocks /\ KeepPast /\ KeepBounds

NoteFails(r) ==
  /\ At(r, "note") /\ Fault
  /\ record' \in {record, [record EXCEPT !.pointer = Entry(run[r].path)]}
  /\ End(r)
  /\ KeepLinks /\ KeepPast
-----------------------------------------------------------------------------
(* Rolling back, and releasing what the run built.                         *)

\* _restore_pointer: back to the link that was found, or to none.  pointer.remove takes away
\* only what names this environment.
LinkBack(r) ==
  IF run[r].before.to # None THEN run[r].before
  ELSE IF Names(run[r].path, Env(r)) THEN NoLink ELSE links[run[r].path]

UndoLink(r) ==
  /\ At(r, "undo link")
  /\ links' = [links EXCEPT ![run[r].path] = LinkBack(r)]
  /\ run' = [run EXCEPT ![r].phase = "undo entry",
                        ![r].settled = run[r].before.to # None \/ LinkBack(r).to = None]
  /\ promoted' = IF \E d \in Destinations : links'[d].to = Env(r)
                 THEN promoted ELSE promoted \ {Env(r)}
  /\ KeepDirs /\ KeepRecord /\ KeepLocks /\ UNCHANGED reclaimed /\ KeepBounds

UndoLinkFails(r) ==
  /\ At(r, "undo link") /\ Fault
  /\ run' = [run EXCEPT ![r].phase = "undo entry", ![r].settled = run[r].before.to # None]
  /\ KeepDirs /\ KeepLinks /\ KeepRecord /\ KeepLocks /\ KeepPast

KeepsPlacement(r) == run[r].found   \* mutant

\* The entry as it was found, without its evidence when the link turned out absent.
EntryBack(r) ==
  IF run[r].before.to # None THEN run[r].found ELSE WithoutPlacement(run[r].found)

AfterUndo(r) == IF run[r].job = "install" THEN To(r, "undo selection") /\ KeepDirs /\ KeepLocks
                ELSE End(r)

\* Only over the entry this run wrote (drop_pointer, restore_pointer).
Disclaiming(r) ==
  IF run[r].settled /\ record.pointer.path = run[r].path
  THEN [record EXCEPT !.pointer = EntryBack(r)] ELSE record

UndoEntry(r) ==
  /\ At(r, "undo entry")
  /\ record' = Disclaiming(r)
  /\ AfterUndo(r)
  /\ KeepLinks /\ KeepPast /\ KeepBounds

\* update raises, before or after it saved.
UndoEntryFails(r) ==
  /\ At(r, "undo entry") /\ run[r].settled /\ Fault
  /\ record' \in {record, Disclaiming(r)}
  /\ AfterUndo(r)
  /\ KeepLinks /\ KeepPast

\* _restore_selection: only what still names this run's runtime.
Deselecting(r) ==
  IF record.selected = Env(r) THEN [record EXCEPT !.selected = run[r].prev] ELSE record

UndoSelection(r) ==
  /\ At(r, "undo selection")
  /\ record' = Deselecting(r)
  /\ Failing(r, TRUE)
  /\ KeepDirs /\ KeepLinks /\ KeepLocks /\ KeepPast /\ KeepBounds

\* The same, and the promotion lock is left with it.
UndoSelectionFails(r) ==
  /\ At(r, "undo selection") /\ Fault
  /\ record' \in {record, Deselecting(r)}
  /\ Failing(r, TRUE)
  /\ promoter' = None
  /\ KeepDirs /\ KeepLinks /\ UNCHANGED locks /\ KeepPast

DropsAnyway(r) == record.selected = Env(r)   \* mutant

AsksOnlyTheLink(r) == run[r].known /\ Names(run[r].path, Env(r))   \* mutant

\* release_candidate, under the record's lock
InUse(r) == record.selected = Env(r) \/ (run[r].known /\ Names(run[r].path, Env(r)))

Keep(r) ==
  /\ At(r, "failing") /\ InUse(r)
  /\ End(r)
  /\ KeepLinks /\ KeepRecord /\ KeepPast /\ KeepBounds

Release(r) ==
  /\ At(r, "failing") /\ ~InUse(r)
  /\ record' = [record EXCEPT !.installs = @ \ {Env(r)}]
  /\ To(r, "remove")
  /\ reclaimed' = IF (Env(r) \in promoted /\ ~run[r].known) \/ Env(r) \in ToPutBack
                  THEN reclaimed \cup {Env(r)} ELSE reclaimed
  /\ KeepDirs /\ KeepLinks /\ KeepLocks /\ UNCHANGED promoted /\ KeepBounds

\* rmtree takes the entries in any order, the directory last.  The one it found at the name
\* when it began it goes through by its inode.
Begun(r) == run[r].victim # None

Tear(r) ==
  LET d == dirs[Env(r)] IN
  /\ run[r].phase \in {"reclaim", "remove"}
  /\ d.there /\ ~d.torn /\ (Begun(r) => d.by = run[r].victim)
  /\ \E claim \in {d.claim, "none"}, lockfile \in {d.lockfile, FALSE}, litter \in {d.litter, FALSE}:
       dirs' = [dirs EXCEPT ![Env(r)] =
                  [d EXCEPT !.claim = claim, !.lockfile = lockfile, !.litter = litter,
                            !.built = IF d.built = "none" THEN "none" ELSE "part", !.torn = TRUE]]
  /\ run' = [run EXCEPT ![r].victim = d.by]
  /\ KeepLinks /\ KeepRecord /\ KeepLocks /\ KeepPast /\ KeepBounds

\* The directory goes by its name, if nothing is in it.
Emptied(r) ==
  LET d == dirs[Env(r)] IN
  /\ d.there
  /\ Begun(r) /\ d.by # run[r].victim => ~Occupied(Env(r)) /\ d.claim = "none" /\ ~d.lockfile

\* What another run wrote into it while it was taken away stays.
Gone(r) == IF Lock(r).met THEN {Emptied(r), FALSE} ELSE {Emptied(r)}

Remove(r) ==
  LET e == Env(r) IN
  /\ run[r].phase \in {"reclaim", "remove"}
  /\ \E gone \in Gone(r) :
       \/ At(r, "reclaim") /\ gone /\ KeepLocks
          /\ run' = [run EXCEPT ![r].phase = "make", ![r].victim = None]
          /\ dirs' = [dirs EXCEPT ![e] = NoDir]
       \/ ~(At(r, "reclaim") /\ gone) /\ To(r, "over")
          /\ dirs' = [Unheld(r) EXCEPT ![e] = IF gone THEN NoDir ELSE Unheld(r)[e]]
          /\ promoter' = Without(promoter, r)
          /\ locks' = AllLeft(r)
  /\ KeepLinks /\ KeepRecord /\ KeepPast /\ KeepBounds
-----------------------------------------------------------------------------
(* What happens around the runs.                                           *)

\* One killed while it writes its claim leaves any part of what it writes there.
LeftBehind(r) ==
  LET d == dirs[Env(r)] IN
  IF At(r, "claim") /\ d.there
  THEN {[Unheld(r) EXCEPT ![Env(r)].claim = claim, ![Env(r)].litter = litter] :
          claim \in {d.claim, "STAGING"}, litter \in {d.litter, TRUE}}
  ELSE {Unheld(r)}

Kill(r) ==
  /\ Living(r) /\ kills < Kills
  /\ kills' = kills + 1
  /\ To(r, "dead")
  /\ dirs' \in LeftBehind(r)
  /\ promoter' = Without(promoter, r)
  /\ locks' = [e \in Environments |-> Abandoned(locks[e], r)]
  /\ KeepLinks /\ KeepRecord /\ UNCHANGED <<faults, hands>> /\ KeepPast

\* An operator moves or removes a link.
HandLink(d, target) ==
  /\ hands < Hands /\ hands' = hands + 1
  /\ links' = [links EXCEPT ![d] = [to |-> target, by |-> IF target = None THEN None ELSE "hand"]]
  /\ UNCHANGED run /\ KeepDirs /\ KeepRecord /\ KeepLocks /\ KeepPast /\ UNCHANGED <<kills, faults>>
-----------------------------------------------------------------------------
Step(r) ==
  \/ \E e \in Environments : Load(r, e)
  \/ Take(r) \/ Notice(r) \/ Break(r) \/ Busy(r) \/ Probe(r) \/ ReadClaim(r) \/ LeaveIt(r)
  \/ Resume(r) \/ Adopt(r) \/ TakeOver(r) \/ NotEmpty(r) \/ Reclaim(r) \/ Make(r) \/ Exists(r)
  \/ Hold(r) \/ NotHad(r) \/ Claim(r) \/ ClaimFails(r)
  \/ Stage(r) \/ Build(r) \/ BuildFails(r) \/ Judge(r) \/ Refused(r) \/ Commit(r)
  \/ CommitFails(r) \/ Place(r) \/ PlaceFails(r) \/ Land(r) \/ Settle(r) \/ SettleFails(r)
  \/ Finish(r) \/ FinishRefused(r) \/ Note(r) \/ NoteFails(r)
  \/ UndoLink(r) \/ UndoLinkFails(r) \/ UndoEntry(r) \/ UndoEntryFails(r) \/ UndoSelection(r)
  \/ UndoSelectionFails(r) \/ Keep(r) \/ Release(r) \/ Tear(r) \/ Remove(r)

Next ==
  \/ \E r \in Runs : Step(r) \/ Kill(r)
  \/ \E d \in Destinations, t \in Environments \cup {Elsewhere, None} : HandLink(d, t)

\* A runtime may be there from before there were claims, links and entries, or since.
Old(e)  == [NoDir EXCEPT !.there = TRUE, !.built = "whole"]
Kept(e) == [Old(e) EXCEPT !.claim = "COMPLETE", !.lockfile = TRUE]

Clean == /\ dirs = [e \in Environments |-> NoDir]
         /\ record = [selected |-> None, pointer |-> NoEntry, installs |-> {}]
         /\ links = [d \in Destinations |-> NoLink] /\ promoted = {}
Legacy(e) == /\ dirs = [x \in Environments |-> IF x = e THEN Old(e) ELSE NoDir]
             /\ record = [selected |-> e, pointer |-> NoEntry, installs |-> {e}]
             /\ links = [d \in Destinations |-> NoLink] /\ promoted = {}
Installed(e) == /\ dirs = [x \in Environments |-> IF x = e THEN Kept(e) ELSE NoDir]
                /\ record = [selected |-> e, pointer |-> Entry(DestOf[e]), installs |-> {e}]
                /\ links = [d \in Destinations |-> IF d = DestOf[e] THEN LinkTo(e) ELSE NoLink]
                /\ promoted = {e}

Init ==
  /\ Clean \/ \E e \in Environments : Legacy(e) \/ Installed(e)
  /\ promoter = None /\ locks = [e \in Environments |-> Unlocked]
  /\ run = [r \in Runs |-> Idle] /\ reclaimed = {}
  /\ kills = 0 /\ faults = 0 /\ hands = 0

Spec == Init /\ [][Next]_vars
-----------------------------------------------------------------------------
TypeOK ==
  /\ dirs \in [Environments ->
       [there : BOOLEAN, by : Runs \cup {None}, built : {"none", "part", "whole"},
        claim : {"none", "STAGING", "COMPLETE"}, lockfile : BOOLEAN,
        held : Runs \cup {None}, torn : BOOLEAN, litter : BOOLEAN]]
  /\ links \in [Destinations -> [to : Environments \cup {Elsewhere, None},
                                 by : {"run", "hand", None}]]
  /\ record.selected \in Environments \cup {None} /\ record.installs \subseteq Environments
  /\ record.pointer \in [path : Destinations \cup {None}, placed : BOOLEAN]
  /\ promoter \in Runs \cup {None} /\ locks \in [Environments -> LockStates(Runs)]

\* Names whose lock let a run in while another was in it (README, disagreements): every property
\* that rests on that lock exempts them.
Crossed == {e \in Environments : locks[e].met}

\* Nobody takes a directory from under the run that builds in it: from its claim to its end
\* the directory is the one it made, holds what it built so far, and is claimed and held,
\* unless two runs met in the lock of its name.
\* The name of a directory is shared by every run of the same sources, and what a run finds
\* at it may be a build, a build left behind, a half taken directory, or nothing yet.
BuildIsItsOwn ==
  \A r \in Runs :
    LET d == dirs[Env(r)] IN
    /\ run[r].job = "install" /\ Env(r) \notin Crossed
    /\ run[r].phase \in {"stage", "build", "ready", "commit", "place", "placed", "settle"}
    => /\ d.by = r /\ d.held = r /\ d.claim = "STAGING" /\ ~d.torn
       /\ d.built = CASE At(r, "stage") -> "none" [] At(r, "build") -> "part" [] OTHER -> "whole"

\* What the record selects, and what a host reaches through a link a run placed, is a runtime
\* that was built to its end, unless a run took just that directory away although it was in use,
\* or two runs met in the lock of its name (README, disagreements).
ReachedIsWhole ==
  \A e \in Environments \ (reclaimed \cup Crossed) :
    record.selected = e \/ (\E d \in Destinations : links[d] = LinkTo(e))
    => dirs[e].there /\ dirs[e].built = "whole" /\ ~dirs[e].torn

\* A promotion that failed and was rolled back without a second failure leaves selection,
\* ownership entry and link as it found them, except that it does not vouch for a link that
\* is not there.
LeftAsFound ==
  \A r \in Runs :
    LET seen == run[r] IN
    /\ seen.phase \in {"failing", "remove"} /\ promoter = r /\ faults <= 1 /\ hands = 0
    => /\ record.selected = seen.prev
       /\ links[seen.path].to = seen.before.to
       /\ record.pointer.placed => links[seen.path].to # None
       /\ WithoutPlacement(record.pointer) = WithoutPlacement(seen.found)

Idles(e) == ~Live(e) /\ \A r \in Runs : Living(r) => Env(r) # e

DecidedNow(e) ==
  LET mine == record.selected = e IN
  Decide(dirs[e].claim, FALSE, Occupied(e), mine \/ Names(DestOf[e], e), mine)

\* A promotion cut short anywhere is one the next run of the same sources will finish: the
\* selected runtime is reached by some link, or, once nobody is at it, a run is let finish it.
InterruptedIsRepairable ==
  LET e == record.selected IN
  /\ e # None /\ hands = 0 /\ faults <= 1 /\ reclaimed \cup Crossed = {} /\ promoter = None
  /\ Idles(e) /\ \A d \in Destinations : ~Names(d, e)
  => /\ DecidedNow(e) \in {"RESUME", "RECORDED"}
     /\ Finishable(e, PathFor(e)) /\ dirs[e].built = "whole"

\* Its run was killed while it wrote the first claim: the directory has files in it, and
\* nothing says whose (README, disagreements).
Unsigned(e) == dirs[e].litter /\ dirs[e].claim = "none"

\* The name a run leaves behind is never in the way for good: whatever else a run was killed or
\* failed at, another run of the same sources is not refused, unless the runtime was promoted
\* once, a removal was cut short, or two runs met in the lock of its name.
NoPermanentRefusal ==
  \A e \in Environments \ Crossed :
    /\ dirs[e].there /\ Idles(e) /\ promoter = None /\ hands = 0 /\ faults <= 1
    /\ e \notin promoted \cup reclaimed /\ dirs[e].by # None /\ ~dirs[e].torn /\ ~Unsigned(e)
    => DecidedNow(e) \in {"RESUME", "RECLAIM", "ADOPT"}

\* What a run was killed or failed at can be put right by running it again.
RepairIsPossible == InterruptedIsRepairable /\ NoPermanentRefusal

\* staging.decide: what is removed is a build left behind "that nothing is using", and "a
\* finished environment is never deleted here however its selection has moved".
ReclaimedWasUnused == reclaimed = {}

\* hostrecord.Locked: "two runs of these commands cannot interleave their own
\* read-modify-write".
LocksExclude == Crossed = {}
=============================================================================
