------------------------------- MODULE Locked -------------------------------
(***************************************************************************)
(* hostrecord.Locked: a lock that is a file created exclusively at a name. *)
(* Whoever finds the name taken looks how old the file is and, in a later  *)
(* step, unlinks whatever has the name by then; whoever leaves unlinks it  *)
(* too.  The age counts from when the file was made, so that the file of a *)
(* process that died gets old; no process stays inside for as long as      *)
(* STALE_LOCK_SECONDS.                                                     *)
(*                                                                         *)
(* file:   the lock file, as the set of who made it: nobody or one         *)
(* within: who was let in and neither left nor died                        *)
(* met:    history: one was let in while another was within                *)
(***************************************************************************)
LockStates(S) == [file : SUBSET S, within : SUBSET S, met : BOOLEAN]

Unlocked == [file |-> {}, within |-> {}, met |-> FALSE]

Free(lock) == lock.file = {}

\* O_CREAT | O_EXCL
Entered(lock, p) ==
  [file |-> {p}, within |-> lock.within \cup {p}, met |-> lock.met \/ lock.within # {}]

\* Its maker died: whoever leaves takes the file along.
OutOfDate(lock) == lock.file # {} /\ lock.file \cap lock.within = {}

Cleared(lock) == [lock EXCEPT !.file = {}]

\* __exit__, of one that is within.
Left(lock, p) ==
  IF p \in lock.within THEN [lock EXCEPT !.file = {}, !.within = @ \ {p}] ELSE lock

\* The process died, and its file stays.
Abandoned(lock, p) == [lock EXCEPT !.within = @ \ {p}]
=============================================================================
