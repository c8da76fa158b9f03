------------------------------ MODULE MCReview ------------------------------
(***************************************************************************)
(* Model values of Review for TLC, and the concerns its runs look into,    *)
(* one chosen initially; each keeps to few of the things the others vary.  *)
(*                                                                         *)
(*   acks:      two turns of the parent, a pause, a host that fails once;  *)
(*   rulings:   two reviewers, the criteria edited twice;                  *)
(*   wording:   one reviewer, the criteria edited three times, so that an  *)
(*              earlier wording comes back, a second revision once the     *)
(*              first is claimed;                                          *)
(*   merging:   two revisions of one generation, ruled on, integrated and  *)
(*              marked while the criteria are edited twice;                *)
(*   finishing: two reviewers, three edits, one generation;                *)
(*   waiting:   acknowledgements without a host, two pauses.               *)
(***************************************************************************)
EXTENDS Assignment

CONSTANTS v1, v2, t1, t2, p1, p2, d1, d2, Concerns

OneRevision    == {v1}
TwoRevisions   == {v1, v2}
TwoTurns       == {t1, t2}
TwoReviewers   == {p1, p2}
TwoDigests     == {d1, d2}
LivelyConcerns == {"finishing", "waiting"}
AllConcerns    == {"acks", "rulings", "wording", "merging"} \cup LivelyConcerns

VARIABLE concern

About(names) == concern \in names

Concerned ==
  /\ ~About({"wording", "merging"}) /\ checked # NoReceipt =>
       Revision(checked.event) = v1 /\ checked.supersedes = None
  /\ About({"rulings"}) /\ checked # NoReceipt => Generation(checked.event) = 1
  /\ ~About({"acks", "waiting"}) => pauses = 0 /\ hostFailures = 0
  /\ ~About({"acks", "waiting", "merging"}) => t2 \notin begun /\ acks <= 1 /\ acking[t2] = NotAcking
  /\ About({"acks"}) => pauses <= 1 /\ generation <= 2
  /\ About({"acks", "waiting"}) => edits = 0
  /\ About({"rulings"}) => edits <= 2
  /\ About({"acks"}) => \A p \in Reviewers, e \in Events : read[p][e] = Unread
  /\ ~About({"rulings", "finishing"}) => \A e \in Events : read[p2][e] = Unread
  /\ About({"wording", "finishing", "waiting"}) => generation = 1
  /\ About({"wording"}) /\ stage[<<1, v2>>] # "absent" => holder[<<1, v1>>] # None
  /\ ~About({"merging"}) => looking = NotLooking
  /\ About({"merging"}) =>
       /\ edits <= 2 /\ generation <= 2 /\ (generation = 2 => edits = 0 /\ Judged(<<1, v1>>))
       /\ Cardinality({e \in Events : stage[e] # "absent"}) <= 2
       /\ \A e \in Events : stage[e] \in {"absent", "final"} /\ verdict[e].ruling \notin {"unverified", "aborted"}
       /\ \A t \in Turns : acking[t] # NotAcking => acking[t].verified /\ acking[t].accepted
       /\ pending = NotPending
       /\ looking # NotLooking => looking.verdict # NoVerdict
       /\ stage[<<1, v2>>] # "absent" => supersedes[<<1, v2>>] # None /\ Judged(<<1, v1>>)
       /\ stage[<<1, v1>>] # "absent" => supersedes[<<1, v1>>] = None

MCInit == Init /\ AssignmentInit /\ concern \in Concerns
In(A) == A /\ UNCHANGED concern /\ Concerned'
InReview(A) == In(A /\ UNCHANGED assignmentVars)
MCvars == <<vars, assignmentVars, concern>>
MCSpec == MCInit /\ [][In(AssignmentNext)]_MCvars

\* The one event of those concerns.
First == <<1, v1>>

Timely(A) == About(LivelyConcerns) /\ InReview(A)

\* The daemon's passes come round; a reviewer claims what it may, and rules on what it has read.
Fairness ==
  /\ WF_MCvars(Timely(DaemonReads)) /\ WF_MCvars(Timely(PendingSettle))
  /\ \A p \in Reviewers : WF_MCvars(Timely(Claim(p, First))) /\ WF_MCvars(Timely(RulesOn(p, First)))

MCFairSpec == MCSpec /\ Fairness

(* A review can be finished: after any number of edits to the criteria, an accepted revision     *)
(* that awaits its ruling gets it, or is left behind (claim_verification's reason to reclaim).   *)
ReviewFinishes == (About({"finishing"}) /\ AwaitsRuling(First)) ~> ~AwaitsRuling(First)

(* An acknowledgement authored without a host is completed by the daemon, or cannot be.          *)
PendingAckSettles == (About({"waiting"}) /\ AwaitsHost(First)) ~> ~AwaitsHost(First)
=============================================================================
