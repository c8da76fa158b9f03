------------------------------ MODULE Review -------------------------------
(***************************************************************************)
(* The review of one assignment (codex_session_relay/ack.py, criteria.py,  *)
(* currency.py and the part of receipts.py that stores and settles         *)
(* completions): a child reports revisions, the parent acknowledges them   *)
(* from a turn of its own, claims the review, rules, and a ruling of       *)
(* needs_changes opens the next generation for the correction.             *)
(*                                                                         *)
(* The parent's turns and the daemon are processes of their own over one   *)
(* store.  What one of them reads before its transaction is kept in a      *)
(* variable until the transaction; a call that reads and writes inside one *)
(* transaction is one step.  Refusals change nothing and are left out.     *)
(***************************************************************************)
EXTENDS Integers, FiniteSets

CONSTANTS
  Revisions,          \* revision hashes
  Turns,              \* turns of the parent, which author acknowledgements
  Reviewers,          \* turns of the parent that claim and rule
  Digests,            \* digests of registered criteria sets
  None,               \* no revision, turn, digest, event or reviewer
  Unread,             \* a reviewer has not read the criteria for an event
  MaxGeneration,      \* model bounds on: execution generations,
  MaxEdits,           \*   registrations of a criteria set,
  MaxPauses,          \*   pauses and resumptions,
  MaxAcks,            \*   acknowledge calls,
  MaxHostFailures     \*   failed reads of the host by the daemon

Events == (1..MaxGeneration) \X Revisions   \* event ids digest generation and revision

Rulings == {"verified", "needs_changes", "unverified", "aborted"}

ASSUME ReviewAssumption ==
  /\ {None, Unread} \cap (Revisions \cup Turns \cup Digests \cup Reviewers \cup Events) = {}
  /\ None # Unread /\ None \notin Rulings
  /\ MaxGeneration \in Nat \ {0}
  /\ {MaxEdits, MaxPauses, MaxAcks, MaxHostFailures} \subseteq Nat

Generation(e) == e[1]
Revision(e) == e[2]

VARIABLES
  \* relationship and generations
  active, generation, openedBy, anchored,
  \* events and their lineage; a receipt that passed the checks before it is stored
  stage, supersedes, checked,
  \* deliveries, and the host's turns: begun, and begun after a delivery
  delivered, begun, after,
  \* acknowledgements; what an acknowledging caller and the daemon read of the host
  ack, acking, pending,
  \* criteria in force, claims and the set each review is bound to
  digest, holder, bound,
  \* the set each reviewer read for an event
  read,
  verdict,
  \* history: reviewers told to proceed since the set in force last changed; events whose
  \* acknowledgement was written again while the daemon was reading its turn
  proceeded, reauthored,
  edits, pauses, acks, hostFailures

relVars == <<active, generation, openedBy, anchored, pauses>>
eventVars == <<stage, supersedes, checked>>
hostVars == <<delivered, begun, after>>
ackVars == <<ack, acking, pending, reauthored, acks, hostFailures>>
claimVars == <<holder, bound, read, proceeded>>
setVars == <<digest, edits>>

vars == <<relVars, eventVars, hostVars, ackVars, claimVars, setVars, verdict>>

Receipt == [event: Events, supersedes: Revisions \cup {None}, live: BOOLEAN]
NoReceipt == [event |-> None]

Ack == [turn: Turns \cup {None}, accepted: BOOLEAN, verified: BOOLEAN]
NoAck == [turn |-> None, accepted |-> FALSE, verified |-> FALSE]

Verdict == [ruling: Rulings \cup {None}, digest: Digests \cup {None}, read: Digests \cup {None}]
NoVerdict == [ruling |-> None, digest |-> None, read |-> None]

TypeOK ==
  /\ active \in BOOLEAN /\ generation \in 1..MaxGeneration
  /\ openedBy \in [1..MaxGeneration -> Events \cup {None}]
  /\ anchored \in SUBSET (1..generation)
  /\ stage \in [Events -> {"absent", "staged", "final", "suppressed"}]
  /\ supersedes \in [Events -> Revisions \cup {None}]
  /\ checked \in Receipt \cup {NoReceipt}
  /\ delivered \in [Events -> {"none", "dispatched", "acknowledged"}]
  /\ begun \in SUBSET Turns /\ after \in [Events -> SUBSET begun]
  /\ ack \in [Events -> Ack]
  /\ acking \in [Turns -> [event: Events \cup {None}, accepted: BOOLEAN, verified: BOOLEAN]]
  /\ pending \in [event: Events \cup {None}, found: BOOLEAN]
  /\ digest \in Digests \cup {None}
  /\ holder \in [Events -> Reviewers \cup {None}]
  /\ bound \in [Events -> Digests \cup {None}]
  /\ read \in [Reviewers -> [Events -> Digests \cup {None, Unread}]]
  /\ verdict \in [Events -> Verdict]
  /\ proceeded \in [Events -> SUBSET Reviewers] /\ reauthored \in SUBSET Events
  /\ edits \in 0..MaxEdits /\ pauses \in 0..MaxPauses
  /\ acks \in 0..MaxAcks /\ hostFailures \in 0..MaxHostFailures
  /\ \A e \in Events : delivered[e] # "none" => stage[e] = "final"
  /\ \A e \in Events : ack[e].turn # None => delivered[e] # "none"
  /\ \A e \in Events : delivered[e] = "acknowledged" <=> ack[e].verified

NotAcking == [event |-> None, accepted |-> FALSE, verified |-> FALSE]
NotPending == [event |-> None, found |-> FALSE]

Init ==
  /\ active = TRUE /\ generation = 1
  /\ openedBy = [g \in 1..MaxGeneration |-> None]
  /\ anchored = {1}
  /\ stage = [e \in Events |-> "absent"]
  /\ supersedes = [e \in Events |-> None]
  /\ checked = NoReceipt
  /\ delivered = [e \in Events |-> "none"]
  /\ begun = {} /\ after = [e \in Events |-> {}]
  /\ ack = [e \in Events |-> NoAck]
  /\ acking = [t \in Turns |-> NotAcking]
  /\ pending = NotPending
  /\ digest = None
  /\ holder = [e \in Events |-> None]
  /\ bound = [e \in Events |-> None]
  /\ read = [p \in Reviewers |-> [e \in Events |-> Unread]]
  /\ verdict = [e \in Events |-> NoVerdict]
  /\ proceeded = [e \in Events |-> {}] /\ reauthored = {}
  /\ edits = 0 /\ pauses = 0 /\ acks = 0 /\ hostFailures = 0

-----------------------------------------------------------------------------
(* The head revision                                                         *)

L == INSTANCE Lineage

Reviewable(g) == {v \in Revisions : stage[<<g, v>>] \in {"staged", "final"}}

Declared(g) == [v \in Revisions |-> supersedes[<<g, v>>]]

\* The result whose ruling opened this correction, in the generation just before.
Requested(g) ==
  {v \in Revisions : /\ g > 1 /\ openedBy[g] = <<g - 1, v>>
                     /\ stage[<<g - 1, v>>] = "final"}

Head(g) == L!HeadOf(Reviewable(g), Declared(g), Requested(g))

Current(e) ==
  /\ active
  /\ Generation(e) = generation
  /\ Head(generation) = Revision(e)

-----------------------------------------------------------------------------
(* The child's receipts                                                      *)

\* The checks of emit, which precede the transaction that stores the receipt.
BeginEmit(e, s, live) ==
  /\ checked = NoReceipt
  /\ active /\ Generation(e) = generation /\ generation \in anchored
  /\ stage[e] = "absent" /\ s # Revision(e)
  /\ checked' = [event |-> e, supersedes |-> s, live |-> live]
  /\ UNCHANGED <<relVars, stage, supersedes, hostVars, ackVars, claimVars, setVars, verdict>>

\* A receipt from a turn in progress is staged until the turn ends.
Emit ==
  /\ checked # NoReceipt
  /\ stage' = [stage EXCEPT ![checked.event] = IF checked.live THEN "staged" ELSE "final"]
  /\ supersedes' = [supersedes EXCEPT ![checked.event] = checked.supersedes]
  /\ checked' = NoReceipt
  /\ UNCHANGED <<relVars, hostVars, ackVars, claimVars, setVars, verdict>>

\* The child's turn ends: every claim staged in it is settled in one transaction.
ResolveStaged(completed) ==
  /\ \E e \in Events : stage[e] = "staged"
  /\ stage' = [e \in Events |-> IF stage[e] # "staged" THEN stage[e]
                                ELSE IF completed THEN "final" ELSE "suppressed"]
  /\ UNCHANGED <<relVars, supersedes, checked, hostVars, ackVars, claimVars, setVars, verdict>>

\* The daemon hands a final completion to the parent (module Delivery).
Dispatch(e) ==
  /\ active /\ stage[e] = "final" /\ delivered[e] = "none"
  /\ delivered' = [delivered EXCEPT ![e] = "dispatched"]
  /\ UNCHANGED <<relVars, eventVars, begun, after, ackVars, claimVars, setVars, verdict>>

\* A turn of the parent begins; one within a second of the send counts as after it.
StartTurn(t) ==
  /\ t \notin begun
  /\ begun' = begun \cup {t}
  /\ after' = [e \in Events |-> IF delivered[e] = "none" THEN after[e] ELSE after[e] \cup {t}]
  /\ UNCHANGED <<relVars, eventVars, delivered, ackVars, claimVars, setVars, verdict>>

-----------------------------------------------------------------------------
(* Acknowledgement                                                           *)

\* What evaluate() answers None to, besides a settled acknowledgement.
Acceptable(e) == active /\ Generation(e) = generation

\* Before the transaction: the delivery, then the turn on the host, if there is one.
\* A turn known to be older than the delivery is refused.
BeginAck(t, e, accepted, host) ==
  /\ acking[t] = NotAcking /\ acks < MaxAcks /\ acks' = acks + 1
  /\ delivered[e] = "dispatched" /\ ~ack[e].verified
  /\ host => t \notin begun \ after[e]
  /\ acking' = [acking EXCEPT ![t] = [event |-> e, accepted |-> accepted,
                                      verified |-> host /\ t \in after[e]]]
  /\ UNCHANGED <<relVars, eventVars, hostVars, ack, pending, reauthored, hostFailures,
                 claimVars, setVars, verdict>>

AsFirstRead(e) == FALSE   \* mutant: settled is not asked again inside the transaction

Settled(e) == ack[e].verified

WritesAck(t) ==
  LET e == acking[t].event
      a == [turn |-> t, accepted |-> acking[t].accepted, verified |-> acking[t].verified]
  IN
  /\ ack' = [ack EXCEPT ![e] = a]
  /\ delivered' = IF a.verified THEN [delivered EXCEPT ![e] = "acknowledged"] ELSE delivered
  /\ reauthored' = IF pending.event = e /\ ack[e].turn # t THEN reauthored \cup {e} ELSE reauthored

\* The transaction of acknowledge; the record that settled first stands.
Acknowledge(t) ==
  LET e == acking[t].event IN
  /\ acking[t] # NotAcking
  /\ acking' = [acking EXCEPT ![t] = NotAcking]
  /\ IF ~Settled(e) /\ (acking[t].accepted => Acceptable(e))
     THEN WritesAck(t)
     ELSE UNCHANGED <<ack, delivered, reauthored>>
  /\ UNCHANGED <<relVars, eventVars, begun, after, pending, acks, hostFailures,
                 claimVars, setVars, verdict>>

OutstandingUnlessWithheld(e) ==   \* mutant: one withheld is not looked at again
  ack[e].turn # None /\ ~ack[e].verified /\ hostFailures = 0

Outstanding(e) == ack[e].turn # None /\ ~ack[e].verified

\* verify_pending_acks reads the turn of an acknowledgement authored without a host.
PendingRead(e, found) ==
  /\ pending = NotPending
  /\ Outstanding(e)
  /\ found => ack[e].turn \in after[e]
  /\ hostFailures' = IF ~found /\ ack[e].turn \in after[e] THEN hostFailures + 1 ELSE hostFailures
  /\ hostFailures' <= MaxHostFailures
  /\ pending' = [event |-> e, found |-> found]
  /\ UNCHANGED <<relVars, eventVars, hostVars, ack, acking, reauthored, acks,
                 claimVars, setVars, verdict>>

StillAcceptable(e) == ack[e].accepted => Acceptable(e)

TurnFound == pending.found

PendingSettle ==
  LET e == pending.event IN
  /\ pending # NotPending
  /\ pending' = NotPending
  /\ IF ~ack[e].verified /\ StillAcceptable(e) /\ TurnFound
     THEN /\ ack' = [ack EXCEPT ![e].verified = TRUE]
          /\ delivered' = [delivered EXCEPT ![e] = "acknowledged"]
     ELSE UNCHANGED <<ack, delivered>>
  /\ UNCHANGED <<relVars, eventVars, begun, after, acking, reauthored, acks, hostFailures,
                 claimVars, setVars, verdict>>

-----------------------------------------------------------------------------
(* Claiming the review                                                       *)

OnlyUnruled(e, decided) ==   \* mutant: a verified ruling is never looked at again
  verdict[e].ruling = None /\ decided # digest /\ Current(e)

\* The set moved under a review of the current revision, ruled verified or not yet ruled.
ReReviewOpen(e, decided) ==
  /\ verdict[e].ruling \in {None, "verified"}
  /\ decided # digest
  /\ Current(e)

RulingIsCurrent(e) == verdict[e].ruling # None /\ verdict[e].digest = digest

Reclaimable(e) == ~RulingIsCurrent(e) /\ ReReviewOpen(e, bound[e])

KeptBinding(e) == IF holder[e] = None THEN digest ELSE bound[e]   \* mutant

\* The stale binding is deleted first, so the set in force is bound.
Rebound(e) == digest

Proceeds(e) == holder[e] = None \/ Reclaimable(e)

\* A claim that is not answered already_claimed. Its reviewer then reads the criteria.
Claim(p, e) ==
  /\ stage[e] # "absent" /\ Proceeds(e)
  /\ holder' = [holder EXCEPT ![e] = p]
  /\ bound' = [bound EXCEPT ![e] = Rebound(e)]
  /\ read' = [read EXCEPT ![p][e] = digest]
  /\ proceeded' = [proceeded EXCEPT ![e] = @ \cup {p}]
  /\ UNCHANGED <<relVars, eventVars, hostVars, ackVars, setVars, verdict>>

\* A reviewer without the claim reads the criteria, to name the digest in its ruling.
ReadCriteria(p, e) ==
  /\ delivered[e] # "none" /\ holder[e] # p /\ read[p][e] # digest
  /\ read' = [read EXCEPT ![p][e] = digest]
  /\ UNCHANGED <<relVars, eventVars, hostVars, ackVars, holder, bound, proceeded, setVars, verdict>>

\* criteria register replaces the set, and makes the assignment a managed one.
RegisterCriteria(d) ==
  /\ edits < MaxEdits /\ edits' = edits + 1
  /\ d \in Digests \ {digest}
  /\ digest' = d
  /\ proceeded' = [e \in Events |-> {}]
  /\ UNCHANGED <<relVars, eventVars, hostVars, ackVars, holder, bound, read, verdict>>

-----------------------------------------------------------------------------
(* Ruling                                                                    *)

\* coverage: the set this ruling is decided on is the one the review is bound to, or named.
Covered(e, ruling, named) ==
  digest # None =>
    /\ bound[e] \in {None, digest} /\ named \in {None, digest}
    /\ (bound[e] = None /\ named = None) => ruling \notin {"verified", "needs_changes"}

\* No ruling yet, or a re-review of a verified one that names the set it read.
MayRule(e, ruling, named) ==
  verdict[e].ruling # None =>
    /\ ReReviewOpen(e, verdict[e].digest)
    /\ ruling \in {"verified", "needs_changes"} /\ named # None

Accepted(e) == ack[e].accepted /\ ack[e].verified

StaleToo(e, ruling) == TRUE   \* mutant

RuledWhileCurrent(e, ruling) == ruling \in {"verified", "needs_changes"} => Current(e)

\* One transaction: the verdict, and for needs_changes the generation and correction it opens.
Rule(p, e, ruling, names) ==
  LET named == IF names THEN read[p][e] ELSE None IN
  /\ read[p][e] # Unread
  /\ MayRule(e, ruling, named)
  /\ Accepted(e) /\ active
  /\ RuledWhileCurrent(e, ruling)
  /\ Covered(e, ruling, named)
  /\ verdict' = [verdict EXCEPT ![e] = [ruling |-> ruling, digest |-> digest,
                                        read |-> read[p][e]]]
  /\ IF ruling = "needs_changes"
     THEN /\ generation < MaxGeneration
          /\ generation' = generation + 1
          /\ openedBy' = [openedBy EXCEPT ![generation + 1] = e]
     ELSE UNCHANGED <<generation, openedBy>>
  /\ UNCHANGED <<active, anchored, pauses, eventVars, hostVars, ackVars, claimVars, setVars>>

-----------------------------------------------------------------------------
(* The registry's part                                                       *)

OpenGeneration ==
  /\ active /\ generation < MaxGeneration
  /\ generation' = generation + 1
  /\ UNCHANGED <<active, openedBy, anchored, pauses, eventVars, hostVars, ackVars, claimVars,
                 setVars, verdict>>

\* The correction was dispatched, or the dispatch turn was supplied.
BindAnchor(g) ==
  /\ g \in (1..generation) \ anchored
  /\ anchored' = anchored \cup {g}
  /\ UNCHANGED <<active, generation, openedBy, pauses, eventVars, hostVars, ackVars, claimVars,
                 setVars, verdict>>

PauseOrResume ==
  /\ pauses < MaxPauses /\ pauses' = pauses + 1
  /\ active' = ~active
  /\ UNCHANGED <<generation, openedBy, anchored, eventVars, hostVars, ackVars, claimVars,
                 setVars, verdict>>

-----------------------------------------------------------------------------
Next ==
  \/ \E e \in Events :
       \/ \E s \in Revisions \cup {None}, live \in BOOLEAN : BeginEmit(e, s, live)
       \/ Dispatch(e)
       \/ \E t \in Turns, accepted, host \in BOOLEAN : BeginAck(t, e, accepted, host)
       \/ \E found \in BOOLEAN : PendingRead(e, found)
       \/ \E p \in Reviewers :
            \/ Claim(p, e) \/ ReadCriteria(p, e)
            \/ \E ruling \in Rulings, names \in BOOLEAN : Rule(p, e, ruling, names)
  \/ Emit \/ \E completed \in BOOLEAN : ResolveStaged(completed)
  \/ \E t \in Turns : StartTurn(t) \/ Acknowledge(t)
  \/ PendingSettle
  \/ \E d \in Digests : RegisterCriteria(d)
  \/ OpenGeneration \/ PauseOrResume
  \/ \E g \in 1..MaxGeneration : BindAnchor(g)

Spec == Init /\ [][Next]_vars

\* The daemon runs its passes; a reviewer claims what it may, and rules on what it has read,
\* naming the set.
DaemonReads == \E e \in Events, found \in BOOLEAN : PendingRead(e, found)

RulesOn(p, e) == \E ruling \in {"verified", "needs_changes"} : Rule(p, e, ruling, TRUE)

-----------------------------------------------------------------------------
(* Properties.                                                               *)

(* A verified acknowledgement is settled: nobody who disposed of the event at the same time      *)
(* replaces it (acknowledge, _settle_pending_ack).                                               *)
SettledAckKept == [][\A e \in Events : ack[e].verified => ack'[e] = ack[e]]_vars

(* No acceptance takes effect on a generation that was left behind or while the assignment is    *)
(* paused, whether its turn is established at once or by the daemon later (evaluate).            *)
AcceptedOnlyWhileCurrent ==
  [][\A e \in Events : ~Accepted(e) /\ Accepted(e)' => Acceptable(e)]_vars

(* Only a real turn of the parent that began after the delivery closes it (I-50, I-52).          *)
AckTurnConfirmed == \A e \in Events : ack[e].verified => ack[e].turn \in after[e]

(* The same for acknowledgements nobody wrote again while the daemon was reading their turn.     *)
AckTurnConfirmedUnlessReauthored ==
  \A e \in Events \ reauthored : ack[e].verified => ack[e].turn \in after[e]

(* Every correction is the next generation after the one result whose ruling asked for it, which *)
(* is what head_revision takes as its predecessor; no result is sent back twice.                 *)
CorrectionIsAnchored ==
  \A g \in 2..MaxGeneration : openedBy[g] # None =>
    /\ Generation(openedBy[g]) = g - 1
    /\ verdict[openedBy[g]].ruling = "needs_changes"

(* A ruling is replaced by nothing but a re-review of a verified one on another criteria set.    *)
ReplacedOnlyByReReview ==
  [][\A e \in Events : verdict[e].ruling # None /\ verdict'[e] # verdict[e] =>
       /\ verdict[e].ruling = "verified" /\ verdict'[e].ruling \in {"verified", "needs_changes"}
       /\ verdict'[e].digest # verdict[e].digest]_vars

Judged(e) == verdict[e].ruling \in {"verified", "needs_changes"}

\* Only one reviewer ever looked at the event.
ReviewedAlone(e) ==
  \A p, q \in Reviewers : read[p][e] # Unread /\ read[q][e] # Unread => p = q

(* Findings made against one wording are not used to certify another (criteria.bind_review), by  *)
(* a reviewer nobody claimed the review from: however often the criteria move, back to an earlier *)
(* wording included, its ruling is recorded against the set it read.                             *)
JudgedAsReadAlone ==
  \A e \in Events : Judged(e) /\ ReviewedAlone(e) => verdict[e].digest = verdict[e].read

(* While the set in force stands, at most one reviewer of an event is told to proceed (I-54).    *)
OneHolder == \A e \in Events : Cardinality(proceeded[e]) <= 1

(* An acknowledgement has a real turn of the parent behind it, is not replaced once it has one,   *)
(* and accepts nothing that was left behind.                                                     *)
AcksStand == []AckTurnConfirmedUnlessReauthored /\ SettledAckKept /\ AcceptedOnlyWhileCurrent

(* However reviewers, edits to the criteria and generations interleave: one reviewer at a time,   *)
(* rulings on what was read, replaced only by a re-review, and each correction following from    *)
(* the one ruling that asked for it.                                                             *)
RulingsStand ==
  /\ [](CorrectionIsAnchored /\ JudgedAsReadAlone /\ OneHolder)
  /\ ReplacedOnlyByReReview

\* The current revision was accepted, and no ruling on it stands against the set in force.
AwaitsRuling(e) ==
  Current(e) /\ Accepted(e) /\ verdict[e].ruling \in {None, "verified"} /\ ~RulingIsCurrent(e)

\* An authored acknowledgement whose turn is real and which could take effect.
AwaitsHost(e) ==
  ack[e].turn \in after[e] /\ ~ack[e].verified /\ StillAcceptable(e)
=============================================================================
