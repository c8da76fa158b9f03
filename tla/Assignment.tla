----------------------------- MODULE Assignment ------------------------------
(***************************************************************************)
(* Where an assignment stands, and the mark of a merge                     *)
(* (codex_session_relay/assignment.py).  The state is derived from the     *)
(* records of module Review at every look; the one stored fact is the      *)
(* mark, which names the event that was integrated.                        *)
(*                                                                         *)
(* A look is several reads and no transaction: the relationship, the head  *)
(* and its ruling come first, the criteria in force, the marks and the     *)
(* claims after them.  An operator integrates what a look reports as       *)
(* verified, and marks it later, in one transaction.                       *)
(***************************************************************************)
EXTENDS Review

VARIABLES
  looking,      \* what the look under way has read so far
  marks,        \* events marked merged
  integrated    \* history: events an operator integrated

assignmentVars == <<looking, marks, integrated>>

NotLooking == [head |-> Unread]

Look == [active: BOOLEAN, generation: 1..MaxGeneration, ambiguous: BOOLEAN,
         head: Events \cup {None}, verdict: Verdict]

AssignmentTypeOK ==
  looking \in Look \cup {NotLooking} /\ marks \subseteq Events /\ integrated \subseteq Events

AssignmentInit == looking = NotLooking /\ marks = {} /\ integrated = {}

CurrentHead ==
  IF Head(generation) = None THEN None ELSE <<generation, Head(generation)>>

Ambiguous == Reviewable(generation) # {} /\ CurrentHead = None

VerdictFor(e) == IF e = None THEN NoVerdict ELSE verdict[e]

FirstReads ==
  [active |-> active, generation |-> generation, ambiguous |-> Ambiguous,
   head |-> CurrentHead, verdict |-> VerdictFor(CurrentHead)]

-----------------------------------------------------------------------------
(* What a look reports                                                       *)

CriteriaCurrent(v) == v.ruling # None => v.digest = digest

MarkOf(l) == l.head \in marks

CurrentMark(l) == l.verdict.ruling = "verified" /\ CriteriaCurrent(l.verdict) /\ MarkOf(l)

SentBackBefore(g) == \E e \in Events : Generation(e) < g /\ verdict[e].ruling = "needs_changes"

AnyReceipt == \E e \in Events : stage[e] # "absent"

Claimed(e) == holder[e] # None

HeadState(l) ==
  IF l.verdict.ruling = "verified"
  THEN IF ~CriteriaCurrent(l.verdict) THEN "re_review_needed"
       ELSE IF CurrentMark(l) THEN "merged" ELSE "verified"
  ELSE IF SentBackBefore(l.generation) THEN "corrected"
  ELSE IF Claimed(l.head) THEN "verifying" ELSE "received"

State(l) ==
  IF ~l.active THEN "paused"
  ELSE IF l.ambiguous THEN "ambiguous"
  ELSE IF l.head # None THEN HeadState(l)
  ELSE IF SentBackBefore(l.generation) THEN "needs_changes"
  ELSE IF AnyReceipt THEN "received" ELSE "requested"

-----------------------------------------------------------------------------
(* Looking, integrating and marking                                          *)

BeginLook ==
  /\ looking = NotLooking
  /\ looking' = FirstReads
  /\ UNCHANGED <<vars, marks, integrated>>

\* The operator integrates what is reported verified, the next action being its own.
EndLook ==
  /\ looking # NotLooking
  /\ looking' = NotLooking
  /\ integrated' = IF State(looking) = "verified" THEN integrated \cup {looking.head}
                   ELSE integrated
  /\ UNCHANGED <<vars, marks>>

MarkedUnnamed(e) == TRUE   \* mutant: whatever is current by now is marked

Names(e) == CurrentHead = e

\* The event is compared with the current verified head inside the write transaction.
Mark(e) ==
  /\ e \in integrated
  /\ active /\ CurrentHead # None /\ Names(e)
  /\ verdict[CurrentHead].ruling = "verified" /\ CriteriaCurrent(verdict[CurrentHead])
  /\ marks' = marks \cup {CurrentHead}
  /\ UNCHANGED <<vars, looking, integrated>>

AssignmentNext ==
  \/ Next /\ UNCHANGED assignmentVars
  \/ BeginLook \/ EndLook
  \/ \E e \in Events : Mark(e)

AssignmentSpec == Init /\ AssignmentInit /\ [][AssignmentNext]_<<vars, assignmentVars>>

-----------------------------------------------------------------------------
(* Properties.                                                               *)

(* An assignment is merged only as the revision somebody integrated, and only while that very    *)
(* revision is the head, ruled verified under the criteria in force: neither a newer revision    *)
(* nor a later generation inherits the merge of an older one (mark, _current_mark).              *)
MergedIsWhatWasIntegrated ==
  State(FirstReads) = "merged" =>
    /\ CurrentHead \in integrated
    /\ Current(CurrentHead) /\ verdict[CurrentHead].ruling = "verified"
    /\ verdict[CurrentHead].digest = digest

(* An assignment reported as needing another review can have it: a claim would be let through,   *)
(* or the reviewer already let through is covered to rule, and the ruling of record gives way.   *)
(* The view, the claim and the ruling decide this apart (_resolve, _re_review_open, coverage).   *)
ReReviewCanProceed ==
  State(FirstReads) = "re_review_needed" =>
    /\ Proceeds(CurrentHead) \/ Covered(CurrentHead, "verified", digest)
    /\ MayRule(CurrentHead, "verified", digest)
=============================================================================
