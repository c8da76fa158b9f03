---------------------------- MODULE ReviewProofs ----------------------------
(***************************************************************************)
(* What holds of the review of an assignment, and of what its view reports *)
(* and marks, for any revisions, turns, reviewers and criteria sets, and   *)
(* any bounds of the model.                                                *)
(***************************************************************************)
EXTENDS Assignment, TLAPS, FiniteSetTheorems

(***************************************************************************)
(* Acknowledgements: what a caller or the daemon read of the host and      *)
(* carries to its transaction is still so there.                           *)
(***************************************************************************)
CheckedIsAbsent == checked # NoReceipt => checked.event \in Events /\ stage[checked.event] = "absent"

CallersHaveRead ==
  \A t \in Turns : acking[t] # NotAcking =>
    LET e == acking[t].event IN
    /\ e \in Events /\ delivered[e] # "none"
    /\ acking[t].verified => t \in after[e]

DaemonHasRead ==
  pending # NotPending =>
    LET e == pending.event IN
    /\ e \in Events /\ ack[e].turn # None
    /\ pending.found /\ e \notin reauthored => ack[e].turn \in after[e]

AckInv ==
  /\ TypeOK /\ CheckedIsAbsent /\ CallersHaveRead /\ DaemonHasRead
  /\ AckTurnConfirmedUnlessReauthored

LEMMA ConstantTypes ==
  /\ None # "needs_changes" /\ None # "verified"
  /\ None \notin Events /\ None \notin Turns /\ None \notin Reviewers /\ None \notin Digests
  /\ None \notin Revisions /\ Unread # None /\ Unread \notin Digests
  /\ 1 \in 1..MaxGeneration /\ MaxGeneration \in Nat
  /\ \A e \in Events : e[1] \in 1..MaxGeneration /\ e[2] \in Revisions
BY ReviewAssumption DEF Events, Rulings

LEMMA InitAck == Init => AckInv
<1> SUFFICES ASSUME Init PROVE AckInv
  OBVIOUS
<1> USE ConstantTypes, ReviewAssumption DEF Init
<1>1. TypeOK
  BY DEF TypeOK, NoReceipt, NoAck, Ack, NotAcking, NotPending, NoVerdict, Verdict
<1> QED
  BY <1>1 DEF AckInv, CheckedIsAbsent, CallersHaveRead, DaemonHasRead,
              AckTurnConfirmedUnlessReauthored, NoAck

\* A step that only lets turns begin, besides what it does to other records.
LEMMA AckAlone ==
  ASSUME AckInv, TypeOK', UNCHANGED <<ack, acking, pending, reauthored, delivered>>,
         \A e \in Events : after[e] \subseteq after'[e]
  PROVE  CallersHaveRead' /\ DaemonHasRead' /\ AckTurnConfirmedUnlessReauthored'
BY DEF AckInv, CallersHaveRead, DaemonHasRead, AckTurnConfirmedUnlessReauthored

LEMMA CheckedAlone ==
  ASSUME AckInv, UNCHANGED <<checked, stage>>
  PROVE  CheckedIsAbsent'
BY DEF AckInv, CheckedIsAbsent

\* Nothing of an acknowledgement changes when the child reports, a reviewer claims or rules, or
\* the registry moves.
LEMMA OthersKeepAck ==
  ASSUME AckInv,
         \/ \E e \in Events, s \in Revisions \cup {None}, live \in BOOLEAN : BeginEmit(e, s, live)
         \/ Emit \/ (\E completed \in BOOLEAN : ResolveStaged(completed))
         \/ \E t \in Turns : StartTurn(t)
         \/ \E p \in Reviewers, e \in Events : Claim(p, e) \/ ReadCriteria(p, e)
         \/ \E p \in Reviewers, e \in Events, ruling \in Rulings, names \in BOOLEAN :
              Rule(p, e, ruling, names)
         \/ \E d \in Digests : RegisterCriteria(d)
         \/ OpenGeneration \/ PauseOrResume \/ \E g \in 1..MaxGeneration : BindAnchor(g)
  PROVE  AckInv'
<1> USE DEF relVars, eventVars, hostVars, ackVars, claimVars, setVars
<1>0. TypeOK /\ generation \in Nat /\ edits \in Nat /\ pauses \in Nat
  BY ConstantTypes DEF AckInv, TypeOK
<1> USE <1>0, ConstantTypes
<1>1. ASSUME NEW e \in Events, NEW s \in Revisions \cup {None}, NEW live \in BOOLEAN,
             BeginEmit(e, s, live)
      PROVE  AckInv'
  <2>1. checked' = [event |-> e, supersedes |-> s, live |-> live] /\ stage[e] = "absent"
        /\ UNCHANGED <<relVars, stage, supersedes, hostVars, ackVars, claimVars, setVars, verdict>>
    BY <1>1 DEF BeginEmit
  <2>2. TypeOK'
    BY <2>1 DEF TypeOK, Receipt
  <2>3. CheckedIsAbsent'
    BY <2>1 DEF CheckedIsAbsent
  <2> QED
    BY <2>1, <2>2, <2>3, AckAlone DEF AckInv
<1>2. CASE Emit
  <2> DEFINE e == checked.event
             now == IF checked.live THEN "staged" ELSE "final"
             s == checked.supersedes
  <2>1. /\ checked \in Receipt /\ e \in Events /\ stage[e] = "absent"
        /\ now \in {"staged", "final"} /\ s \in Revisions \cup {None}
    BY <1>2 DEF Emit, AckInv, CheckedIsAbsent, TypeOK, Receipt
  <2>2. /\ stage' = [stage EXCEPT ![e] = now] /\ supersedes' = [supersedes EXCEPT ![e] = s]
        /\ checked' = NoReceipt
        /\ UNCHANGED <<relVars, hostVars, ackVars, claimVars, setVars, verdict>>
    BY <1>2 DEF Emit
  <2> HIDE DEF e, now, s
  <2>3. TypeOK'
    BY <2>1, <2>2 DEF TypeOK
  <2>4. CheckedIsAbsent'
    BY <2>2 DEF CheckedIsAbsent
  <2> QED
    BY <2>2, <2>3, <2>4, AckAlone DEF AckInv
<1>3. ASSUME NEW completed \in BOOLEAN, ResolveStaged(completed) PROVE AckInv'
  <2>1. /\ stage' \in [Events -> {"absent", "staged", "final", "suppressed"}]
        /\ \A e \in Events : stage[e] \in {"final", "absent"} => stage'[e] = stage[e]
        /\ UNCHANGED <<relVars, supersedes, checked, hostVars, ackVars, claimVars, setVars, verdict>>
    BY <1>3 DEF ResolveStaged, TypeOK
  <2>2. TypeOK'
    BY <2>1 DEF TypeOK
  <2>3. CheckedIsAbsent'
    BY <2>1 DEF AckInv, CheckedIsAbsent
  <2> QED
    BY <2>1, <2>2, <2>3, AckAlone DEF AckInv
<1>4. ASSUME NEW t \in Turns, StartTurn(t) PROVE AckInv'
  <2>1. /\ begun' = begun \cup {t} /\ after' \in [Events -> SUBSET begun']
        /\ \A e \in Events : after[e] \subseteq after'[e]
        /\ UNCHANGED <<relVars, eventVars, delivered, ackVars, claimVars, setVars, verdict>>
    BY <1>4 DEF StartTurn, TypeOK
  <2>2. TypeOK'
    BY <2>1 DEF TypeOK
  <2> QED
    BY <2>1, <2>2, AckAlone, CheckedAlone DEF AckInv
<1>5. ASSUME NEW p \in Reviewers, NEW e \in Events, Claim(p, e) \/ ReadCriteria(p, e)
      PROVE  AckInv'
  <2>1. /\ holder' \in [Events -> Reviewers \cup {None}] /\ bound' \in [Events -> Digests \cup {None}]
        /\ read' \in [Reviewers -> [Events -> Digests \cup {None, Unread}]]
        /\ proceeded' \in [Events -> SUBSET Reviewers]
        /\ UNCHANGED <<relVars, eventVars, hostVars, ackVars, setVars, verdict>>
    <3> DEFINE mine == [read[p] EXCEPT ![e] = digest]
    <3>1. mine \in [Events -> Digests \cup {None, Unread}]
      BY DEF TypeOK
    <3>2. /\ read' = [read EXCEPT ![p] = mine]
          /\ UNCHANGED <<relVars, eventVars, hostVars, ackVars, setVars, verdict>>
      BY <1>5 DEF Claim, ReadCriteria
    <3>3. /\ holder' \in [Events -> Reviewers \cup {None}]
          /\ bound' \in [Events -> Digests \cup {None}]
          /\ proceeded' \in [Events -> SUBSET Reviewers]
      <4>1. CASE Claim(p, e)
        <5>1. /\ holder' = [holder EXCEPT ![e] = p] /\ bound' = [bound EXCEPT ![e] = digest]
              /\ proceeded' = [proceeded EXCEPT ![e] = proceeded[e] \cup {p}]
          BY <4>1 DEF Claim, Rebound
        <5>2. /\ holder \in [Events -> Reviewers \cup {None}] /\ digest \in Digests \cup {None}
              /\ bound \in [Events -> Digests \cup {None}]
              /\ proceeded \in [Events -> SUBSET Reviewers]
          BY DEF TypeOK
        <5> QED
          BY <5>1, <5>2
      <4>2. CASE ReadCriteria(p, e)
        BY <4>2 DEF ReadCriteria, TypeOK
      <4> QED
        BY <1>5, <4>1, <4>2
    <3> HIDE DEF mine
    <3>4. read' \in [Reviewers -> [Events -> Digests \cup {None, Unread}]]
      BY <3>1, <3>2 DEF TypeOK
    <3> QED
      BY <3>2, <3>3, <3>4
  <2>2. TypeOK'
    BY <2>1 DEF TypeOK
  <2> QED
    BY <2>1, <2>2, AckAlone, CheckedAlone DEF AckInv
<1>6. ASSUME NEW p \in Reviewers, NEW e \in Events, NEW ruling \in Rulings, NEW names \in BOOLEAN,
             Rule(p, e, ruling, names)
      PROVE  AckInv'
  <2> DEFINE v == [ruling |-> ruling, digest |-> digest, read |-> read[p][e]]
  <2>1. v \in Verdict
    BY <1>6 DEF Rule, Verdict, TypeOK
  <2>2. /\ verdict' = [verdict EXCEPT ![e] = v]
        /\ generation' \in 1..MaxGeneration /\ generation <= generation'
        /\ openedBy' \in [1..MaxGeneration -> Events \cup {None}]
        /\ UNCHANGED <<active, anchored, pauses, eventVars, hostVars, ackVars, claimVars, setVars>>
    <3>1. /\ verdict' = [verdict EXCEPT ![e] = v]
          /\ UNCHANGED <<active, anchored, pauses, eventVars, hostVars, ackVars, claimVars, setVars>>
          /\ \/ /\ generation < MaxGeneration /\ generation' = generation + 1
                /\ openedBy' = [openedBy EXCEPT ![generation + 1] = e]
             \/ UNCHANGED <<generation, openedBy>>
      BY <1>6 DEF Rule
    <3>2. openedBy' \in [1..MaxGeneration -> Events \cup {None}]
      <4>1. openedBy \in [1..MaxGeneration -> Events \cup {None}]
        BY DEF TypeOK
      <4>2. CASE openedBy' = [openedBy EXCEPT ![generation + 1] = e]
        BY <4>1, <4>2
      <4> QED
        BY <3>1, <4>1, <4>2
    <3>3. generation' \in 1..MaxGeneration /\ generation <= generation'
      BY <3>1 DEF TypeOK
    <3> QED
      BY <3>1, <3>2, <3>3
  <2> HIDE DEF v
  <2>3. TypeOK'
    BY <2>1, <2>2 DEF TypeOK
  <2> QED
    BY <2>2, <2>3, AckAlone, CheckedAlone DEF AckInv
<1>7. ASSUME NEW d \in Digests, RegisterCriteria(d) PROVE AckInv'
  <2>1. TypeOK'
    BY <1>7, ReviewAssumption DEF RegisterCriteria, TypeOK
  <2> QED
    BY <1>7, <2>1, AckAlone, CheckedAlone DEF AckInv, RegisterCriteria
<1>8. CASE OpenGeneration \/ PauseOrResume \/ \E g \in 1..MaxGeneration : BindAnchor(g)
  <2>1. /\ generation' \in 1..MaxGeneration /\ anchored' \subseteq 1..generation'
        /\ active' \in BOOLEAN /\ pauses' \in 0..MaxPauses
        /\ UNCHANGED <<openedBy, eventVars, hostVars, ackVars, claimVars, setVars, verdict>>
    <3>1. generation \in 1..MaxGeneration /\ anchored \subseteq 1..generation
          /\ active \in BOOLEAN /\ pauses \in 0..MaxPauses /\ MaxPauses \in Nat
      BY ReviewAssumption DEF TypeOK
    <3>2. CASE OpenGeneration
      BY <3>1, <3>2 DEF OpenGeneration
    <3>3. CASE PauseOrResume
      BY <3>1, <3>3 DEF PauseOrResume
    <3>4. CASE \E g \in 1..MaxGeneration : BindAnchor(g)
      BY <3>1, <3>4 DEF BindAnchor
    <3> QED
      BY <1>8, <3>2, <3>3, <3>4
  <2>2. TypeOK'
    BY <2>1 DEF TypeOK
  <2> QED
    BY <2>1, <2>2, AckAlone, CheckedAlone DEF AckInv
<1> QED
  BY <1>1, <1>2, <1>3, <1>4, <1>5, <1>6, <1>7, <1>8

LEMMA DispatchKeepsAck ==
  ASSUME AckInv, NEW e \in Events, Dispatch(e)
  PROVE  AckInv'
<1> USE DEF relVars, eventVars, hostVars, ackVars, claimVars, setVars
<1>1. /\ delivered' = [delivered EXCEPT ![e] = "dispatched"]
      /\ delivered[e] = "none" /\ stage[e] = "final"
      /\ UNCHANGED <<relVars, eventVars, begun, after, ackVars, claimVars, setVars, verdict>>
  BY DEF Dispatch
<1>2. TypeOK
  BY DEF AckInv
<1>3. \A f \in Events : delivered'[f] = IF f = e THEN "dispatched" ELSE delivered[f]
  BY <1>1, <1>2 DEF TypeOK
<1>4. ~ack[e].verified
  BY <1>1, <1>2 DEF TypeOK
<1>5. TypeOK'
  BY <1>1, <1>2, <1>3, <1>4 DEF TypeOK
<1>6. CallersHaveRead'
  BY <1>1, <1>3 DEF AckInv, CallersHaveRead
<1>7. DaemonHasRead' /\ AckTurnConfirmedUnlessReauthored'
  BY <1>1 DEF AckInv, DaemonHasRead, AckTurnConfirmedUnlessReauthored
<1> QED
  BY <1>1, <1>5, <1>6, <1>7, CheckedAlone DEF AckInv

LEMMA BeginAckKeepsAck ==
  ASSUME AckInv, NEW t \in Turns, NEW e \in Events, NEW accepted \in BOOLEAN, NEW host \in BOOLEAN,
         BeginAck(t, e, accepted, host)
  PROVE  AckInv'
<1> USE DEF relVars, eventVars, hostVars, ackVars, claimVars, setVars
<1> DEFINE verified == host /\ t \in after[e]
           reading == [event |-> e, accepted |-> accepted, verified |-> verified]
<1>1. /\ acking' = [acking EXCEPT ![t] = reading] /\ delivered[e] = "dispatched"
      /\ acks' = acks + 1 /\ acks < MaxAcks
      /\ UNCHANGED <<relVars, eventVars, hostVars, ack, pending, reauthored, hostFailures,
                     claimVars, setVars, verdict>>
  BY DEF BeginAck
<1>2. TypeOK
  BY DEF AckInv
<1>3. /\ reading.event = e /\ (reading.verified => t \in after[e])
      /\ reading \in [event: Events \cup {None}, accepted: BOOLEAN, verified: BOOLEAN]
  OBVIOUS
<1> HIDE DEF reading
<1>4. TypeOK'
  <2>1. acks' \in 0..MaxAcks
    BY <1>1, <1>2, ReviewAssumption DEF TypeOK
  <2>2. acking' \in [Turns -> [event: Events \cup {None}, accepted: BOOLEAN, verified: BOOLEAN]]
    BY <1>1, <1>2, <1>3 DEF TypeOK
  <2> QED
    BY <1>1, <1>2, <2>1, <2>2 DEF TypeOK
<1>5. CallersHaveRead'
  BY <1>1, <1>2, <1>3 DEF AckInv, CallersHaveRead, TypeOK
<1>6. DaemonHasRead' /\ AckTurnConfirmedUnlessReauthored'
  BY <1>1 DEF AckInv, DaemonHasRead, AckTurnConfirmedUnlessReauthored
<1> QED
  BY <1>1, <1>4, <1>5, <1>6, CheckedAlone DEF AckInv

\* The transaction that writes what its caller read, unless the event is settled.
LEMMA WritesKeepAck ==
  ASSUME AckInv, NEW t \in Turns, Acknowledge(t), WritesAck(t), ~Settled(acking[t].event)
  PROVE  AckInv'
<1> USE DEF relVars, eventVars, hostVars, ackVars, claimVars, setVars
<1> DEFINE e == acking[t].event
           a == [turn |-> t, accepted |-> acking[t].accepted, verified |-> acking[t].verified]
<1>0. TypeOK
  BY DEF AckInv
<1>1. /\ acking[t] # NotAcking /\ acking' = [acking EXCEPT ![t] = NotAcking]
      /\ ack' = [ack EXCEPT ![e] = a]
      /\ delivered' = IF a.verified THEN [delivered EXCEPT ![e] = "acknowledged"] ELSE delivered
      /\ reauthored' = IF pending.event = e /\ ack[e].turn # t THEN reauthored \cup {e} ELSE reauthored
      /\ ~ack[e].verified
      /\ UNCHANGED <<relVars, eventVars, begun, after, pending, acks, hostFailures, claimVars,
                     setVars, verdict>>
  BY DEF Acknowledge, WritesAck, Settled
<1>2. e \in Events /\ delivered[e] # "none" /\ (acking[t].verified => t \in after[e])
  BY <1>1 DEF AckInv, CallersHaveRead
<1>3. /\ a \in Ack /\ a.turn = t /\ a.turn # None /\ a.verified = acking[t].verified
      /\ a.verified \in BOOLEAN
  BY <1>0, ConstantTypes DEF TypeOK, Ack
<1> HIDE DEF a, e
<1>4. \A f \in Events : ack'[f] = IF f = e THEN a ELSE ack[f]
  BY <1>0, <1>1 DEF TypeOK
<1>5. \A f \in Events : delivered'[f] = IF f = e /\ a.verified THEN "acknowledged" ELSE delivered[f]
  BY <1>0, <1>1, <1>3 DEF TypeOK
<1>6. TypeOK'
  <2>1. /\ ack' \in [Events -> Ack]
        /\ delivered' \in [Events -> {"none", "dispatched", "acknowledged"}]
        /\ reauthored' \in SUBSET Events
    BY <1>0, <1>1, <1>2, <1>3 DEF TypeOK
  <2>2. acking' \in [Turns -> [event: Events \cup {None}, accepted: BOOLEAN, verified: BOOLEAN]]
    BY <1>0, <1>1 DEF TypeOK, NotAcking
  <2>3. \A f \in Events : delivered'[f] # "none" => stage'[f] = "final"
    BY <1>0, <1>1, <1>2, <1>5 DEF TypeOK
  <2>4. \A f \in Events : ack'[f].turn # None => delivered'[f] # "none"
    BY <1>0, <1>2, <1>4, <1>5 DEF TypeOK
  <2>5. \A f \in Events : delivered'[f] = "acknowledged" <=> ack'[f].verified
    <3>1. delivered[e] # "acknowledged"
      BY <1>0, <1>1, <1>2 DEF TypeOK
    <3> QED
      BY <1>0, <1>3, <1>4, <1>5, <3>1 DEF TypeOK
  <2> QED
    BY <1>0, <1>1, <2>1, <2>2, <2>3, <2>4, <2>5 DEF TypeOK
<1>7. CallersHaveRead'
  <2> SUFFICES ASSUME NEW u \in Turns, acking'[u] # NotAcking
               PROVE  /\ acking'[u].event \in Events /\ delivered'[acking'[u].event] # "none"
                      /\ acking'[u].verified => u \in after'[acking'[u].event]
    BY DEF CallersHaveRead
  <2>1. acking'[u] = acking[u]
    BY <1>0, <1>1 DEF TypeOK
  <2>2. /\ acking[u].event \in Events /\ delivered[acking[u].event] # "none"
        /\ acking[u].verified => u \in after[acking[u].event]
    BY <2>1 DEF AckInv, CallersHaveRead
  <2> QED
    BY <1>1, <1>5, <2>1, <2>2
<1>8. DaemonHasRead'
  <2> SUFFICES ASSUME pending # NotPending
               PROVE  /\ pending.event \in Events /\ ack'[pending.event].turn # None
                      /\ pending.found /\ pending.event \notin reauthored' =>
                           ack'[pending.event].turn \in after[pending.event]
    BY <1>1 DEF DaemonHasRead
  <2>1. /\ pending.event \in Events /\ ack[pending.event].turn # None
        /\ pending.found /\ pending.event \notin reauthored =>
             ack[pending.event].turn \in after[pending.event]
    BY DEF AckInv, DaemonHasRead
  <2>2. CASE pending.event = e
    BY <1>1, <1>3, <1>4, <2>1, <2>2
  <2>3. CASE pending.event # e
    BY <1>1, <1>4, <2>1, <2>3
  <2> QED
    BY <2>2, <2>3
<1>9. AckTurnConfirmedUnlessReauthored'
  BY <1>1, <1>2, <1>3, <1>4 DEF AckInv, AckTurnConfirmedUnlessReauthored
<1> QED
  BY <1>1, <1>6, <1>7, <1>8, <1>9, CheckedAlone DEF AckInv

LEMMA AcknowledgeKeepsAck ==
  ASSUME AckInv, NEW t \in Turns, Acknowledge(t)
  PROVE  AckInv'
<1> USE DEF relVars, eventVars, hostVars, ackVars, claimVars, setVars
<1>0. TypeOK
  BY DEF AckInv
<1>1. CASE WritesAck(t) /\ ~Settled(acking[t].event)
  BY <1>1, WritesKeepAck
<1>2. CASE UNCHANGED <<ack, delivered, reauthored>>
  <2>1. /\ acking' = [acking EXCEPT ![t] = NotAcking]
        /\ UNCHANGED <<relVars, eventVars, begun, after, pending, acks, hostFailures, claimVars,
                       setVars, verdict>>
    BY DEF Acknowledge
  <2>2. TypeOK'
    BY <1>0, <1>2, <2>1 DEF TypeOK, NotAcking
  <2>3. CallersHaveRead'
    BY <1>0, <1>2, <2>1 DEF AckInv, CallersHaveRead, TypeOK
  <2>4. DaemonHasRead' /\ AckTurnConfirmedUnlessReauthored'
    BY <1>2, <2>1 DEF AckInv, DaemonHasRead, AckTurnConfirmedUnlessReauthored
  <2> QED
    BY <2>1, <2>2, <2>3, <2>4, CheckedAlone DEF AckInv
<1> QED
  BY <1>1, <1>2 DEF Acknowledge

LEMMA PendingReadKeepsAck ==
  ASSUME AckInv, NEW e \in Events, NEW found \in BOOLEAN, PendingRead(e, found)
  PROVE  AckInv'
<1> USE DEF relVars, eventVars, hostVars, ackVars, claimVars, setVars
<1>0. TypeOK
  BY DEF AckInv
<1>1. /\ ack[e].turn # None /\ (found => ack[e].turn \in after[e])
      /\ hostFailures' \in {hostFailures, hostFailures + 1} /\ hostFailures' <= MaxHostFailures
      /\ pending' = [event |-> e, found |-> found]
      /\ UNCHANGED <<relVars, eventVars, hostVars, ack, acking, reauthored, acks, claimVars,
                     setVars, verdict>>
  BY DEF PendingRead, Outstanding
<1>2. TypeOK'
  <2>1. hostFailures' \in 0..MaxHostFailures
    BY <1>0, <1>1, ReviewAssumption DEF TypeOK
  <2>2. pending' \in [event: Events \cup {None}, found: BOOLEAN]
    BY <1>1
  <2> QED
    BY <1>0, <1>1, <2>1, <2>2 DEF TypeOK
<1>3. DaemonHasRead'
  BY <1>1 DEF DaemonHasRead
<1>4. CallersHaveRead' /\ AckTurnConfirmedUnlessReauthored'
  BY <1>1 DEF AckInv, CallersHaveRead, AckTurnConfirmedUnlessReauthored
<1> QED
  BY <1>1, <1>2, <1>3, <1>4, CheckedAlone DEF AckInv

LEMMA PendingSettleKeepsAck ==
  ASSUME AckInv, PendingSettle
  PROVE  AckInv'
<1> USE DEF relVars, eventVars, hostVars, ackVars, claimVars, setVars
<1> DEFINE e == pending.event
           a == [ack[e] EXCEPT !.verified = TRUE]
<1>0. TypeOK
  BY DEF AckInv
<1>1. /\ pending # NotPending /\ pending' = NotPending
      /\ UNCHANGED <<relVars, eventVars, begun, after, acking, reauthored, acks, hostFailures,
                     claimVars, setVars, verdict>>
      /\ \/ /\ pending.found
            /\ ack' = [ack EXCEPT ![e] = a]
            /\ delivered' = [delivered EXCEPT ![e] = "acknowledged"]
         \/ UNCHANGED <<ack, delivered>>
  BY DEF PendingSettle, TurnFound
<1>2. /\ e \in Events /\ ack[e].turn # None /\ delivered[e] # "none" /\ stage[e] = "final"
      /\ pending.found /\ e \notin reauthored => ack[e].turn \in after[e]
  BY <1>0, <1>1 DEF AckInv, DaemonHasRead, TypeOK
<1>a. ack[e] \in Ack
  BY <1>0, <1>2 DEF TypeOK
<1>3. a \in Ack /\ a.turn = ack[e].turn /\ a.verified
  BY <1>a DEF Ack
<1>p. NotPending \in [event: Events \cup {None}, found: BOOLEAN]
  BY DEF NotPending
<1> HIDE DEF a, e
<1>4. CASE UNCHANGED <<ack, delivered>>
  <2>1. TypeOK'
    BY <1>0, <1>1, <1>4, <1>p DEF TypeOK
  <2>2. CallersHaveRead' /\ DaemonHasRead' /\ AckTurnConfirmedUnlessReauthored'
    BY <1>1, <1>4 DEF AckInv, CallersHaveRead, DaemonHasRead, AckTurnConfirmedUnlessReauthored
  <2> QED
    BY <1>1, <2>1, <2>2, CheckedAlone DEF AckInv
<1>5. CASE /\ pending.found /\ ack' = [ack EXCEPT ![e] = a]
           /\ delivered' = [delivered EXCEPT ![e] = "acknowledged"]
  <2>1. /\ \A f \in Events : ack'[f] = IF f = e THEN a ELSE ack[f]
        /\ \A f \in Events : delivered'[f] = IF f = e THEN "acknowledged" ELSE delivered[f]
    BY <1>0, <1>5 DEF TypeOK
  <2>2. TypeOK'
    <3>1. /\ ack' \in [Events -> Ack]
          /\ delivered' \in [Events -> {"none", "dispatched", "acknowledged"}]
      BY <1>0, <1>2, <1>3, <1>5 DEF TypeOK
    <3>2. \A f \in Events : /\ delivered'[f] # "none" => stage'[f] = "final"
                            /\ ack'[f].turn # None => delivered'[f] # "none"
                            /\ delivered'[f] = "acknowledged" <=> ack'[f].verified
      BY <1>0, <1>1, <1>2, <1>3, <2>1 DEF TypeOK
    <3> QED
      BY <1>0, <1>1, <1>p, <3>1, <3>2 DEF TypeOK
  <2>3. CallersHaveRead'
    BY <1>1, <2>1 DEF AckInv, CallersHaveRead
  <2>4. DaemonHasRead'
    BY <1>1 DEF DaemonHasRead
  <2>5. AckTurnConfirmedUnlessReauthored'
    BY <1>1, <1>2, <1>3, <1>5, <2>1 DEF AckInv, AckTurnConfirmedUnlessReauthored
  <2> QED
    BY <1>1, <2>2, <2>3, <2>4, <2>5, CheckedAlone DEF AckInv
<1> QED
  BY <1>1, <1>4, <1>5

LEMMA NextKeepsAck == AckInv /\ [Next]_vars => AckInv'
<1> SUFFICES ASSUME AckInv, [Next]_vars PROVE AckInv'
  OBVIOUS
<1>1. CASE UNCHANGED vars
  <2>1. UNCHANGED <<relVars, eventVars, hostVars, ackVars, claimVars, setVars, verdict>>
    BY <1>1 DEF vars
  <2>2. TypeOK'
    BY <2>1 DEF AckInv, TypeOK, relVars, eventVars, hostVars, ackVars, claimVars, setVars
  <2> QED
    BY <2>1, <2>2, AckAlone, CheckedAlone DEF AckInv, eventVars, hostVars, ackVars
<1>2. CASE Next
  <2>1. ASSUME NEW e \in Events, Dispatch(e) PROVE AckInv'
    BY <2>1, DispatchKeepsAck
  <2>2. ASSUME NEW e \in Events, NEW t \in Turns, NEW accepted \in BOOLEAN, NEW host \in BOOLEAN,
               BeginAck(t, e, accepted, host)
        PROVE  AckInv'
    BY <2>2, BeginAckKeepsAck
  <2>3. ASSUME NEW e \in Events, NEW found \in BOOLEAN, PendingRead(e, found) PROVE AckInv'
    BY <2>3, PendingReadKeepsAck
  <2>4. ASSUME NEW t \in Turns, Acknowledge(t) PROVE AckInv'
    BY <2>4, AcknowledgeKeepsAck
  <2>5. CASE PendingSettle
    BY <2>5, PendingSettleKeepsAck
  <2>6. CASE \/ \E e \in Events, s \in Revisions \cup {None}, live \in BOOLEAN : BeginEmit(e, s, live)
             \/ Emit \/ (\E completed \in BOOLEAN : ResolveStaged(completed))
             \/ \E t \in Turns : StartTurn(t)
             \/ \E p \in Reviewers, e \in Events : Claim(p, e) \/ ReadCriteria(p, e)
             \/ \E p \in Reviewers, e \in Events, ruling \in Rulings, names \in BOOLEAN :
                  Rule(p, e, ruling, names)
             \/ \E d \in Digests : RegisterCriteria(d)
             \/ OpenGeneration \/ PauseOrResume \/ \E g \in 1..MaxGeneration : BindAnchor(g)
    BY <2>6, OthersKeepAck
  <2> QED
    BY <1>2, <2>1, <2>2, <2>3, <2>4, <2>5, <2>6 DEF Next
<1> QED
  BY <1>1, <1>2

-----------------------------------------------------------------------------
(***************************************************************************)
(* Rulings: the set a review is bound to is the one its holder read, and   *)
(* at most its holder was told to proceed.                                 *)
(***************************************************************************)
HolderIsBound ==
  \A e \in Events :
    /\ holder[e] # None => read[holder[e]][e] = bound[e]
    /\ holder[e] = None => bound[e] = None /\ proceeded[e] = {}
    /\ \A p \in proceeded[e] : p = holder[e] /\ bound[e] = digest

\* Until a set is registered nobody has read one.
NothingToRead ==
  digest = None => \A p \in Reviewers, e \in Events : read[p][e] \in {None, Unread}

RuleInv ==
  /\ TypeOK /\ HolderIsBound /\ NothingToRead
  /\ CorrectionIsAnchored /\ JudgedAsReadAlone

LEMMA InitRule == Init => RuleInv
<1> SUFFICES ASSUME Init PROVE RuleInv
  OBVIOUS
<1>1. TypeOK
  BY InitAck DEF AckInv
<1>2. HolderIsBound /\ NothingToRead
  BY DEF Init, HolderIsBound, NothingToRead
<1>3. CorrectionIsAnchored
  BY DEF Init, CorrectionIsAnchored
<1>4. JudgedAsReadAlone
  BY DEF Init, JudgedAsReadAlone, Judged, NoVerdict
<1> QED
  BY <1>1, <1>2, <1>3, <1>4 DEF RuleInv

LEMMA RuleAlone ==
  ASSUME RuleInv, TypeOK', UNCHANGED <<claimVars, digest, verdict, openedBy>>
  PROVE  RuleInv'
<1> USE DEF claimVars
<1>1. HolderIsBound' /\ NothingToRead'
  BY DEF RuleInv, HolderIsBound, NothingToRead
<1>2. CorrectionIsAnchored' /\ JudgedAsReadAlone'
  BY DEF RuleInv, CorrectionIsAnchored, JudgedAsReadAlone, Judged, ReviewedAlone
<1> QED
  BY <1>1, <1>2 DEF RuleInv

\* Whoever reads more makes nobody the only reader.
LEMMA ReadersStay ==
  ASSUME RuleInv, UNCHANGED verdict,
         \A p \in Reviewers, e \in Events : read[p][e] # Unread => read'[p][e] # Unread
  PROVE  JudgedAsReadAlone'
BY DEF RuleInv, JudgedAsReadAlone, Judged, ReviewedAlone

LEMMA ClaimKeepsRule ==
  ASSUME RuleInv, TypeOK', NEW p \in Reviewers, NEW e \in Events, Claim(p, e)
  PROVE  RuleInv'
<1>1. TypeOK /\ p # None /\ digest # Unread
  BY ConstantTypes DEF RuleInv, TypeOK
<1>2. /\ holder' = [holder EXCEPT ![e] = p] /\ bound' = [bound EXCEPT ![e] = digest]
      /\ read' = [read EXCEPT ![p] = [read[p] EXCEPT ![e] = digest]]
      /\ proceeded' = [proceeded EXCEPT ![e] = proceeded[e] \cup {p}]
      /\ UNCHANGED <<digest, verdict, openedBy>>
  BY DEF Claim, Rebound, relVars, setVars
<1>3. proceeded[e] = {}
  <2>1. holder[e] = None \/ bound[e] # digest
    BY DEF Claim, Proceeds, Reclaimable, ReReviewOpen
  <2> QED
    BY <1>1, <2>1 DEF RuleInv, HolderIsBound, TypeOK
<1>4. \A q \in Reviewers, f \in Events :
        read'[q][f] = IF q = p /\ f = e THEN digest ELSE read[q][f]
  BY <1>1, <1>2 DEF TypeOK
<1>5. HolderIsBound'
  <2> SUFFICES ASSUME NEW f \in Events
               PROVE  /\ holder'[f] # None => read'[holder'[f]][f] = bound'[f]
                      /\ holder'[f] = None => bound'[f] = None /\ proceeded'[f] = {}
                      /\ \A q \in proceeded'[f] : q = holder'[f] /\ bound'[f] = digest'
    BY DEF HolderIsBound
  <2>1. CASE f = e
    <3>1. holder'[f] = p /\ bound'[f] = digest /\ proceeded'[f] = {p}
      BY <1>1, <1>2, <1>3, <2>1 DEF TypeOK
    <3> QED
      BY <1>1, <1>2, <1>4, <2>1, <3>1
  <2>2. CASE f # e
    <3>1. holder'[f] = holder[f] /\ bound'[f] = bound[f] /\ proceeded'[f] = proceeded[f]
      BY <1>1, <1>2, <2>2 DEF TypeOK
    <3>2. holder[f] # None => holder[f] \in Reviewers
      BY <1>1 DEF TypeOK
    <3> QED
      BY <1>2, <1>4, <2>2, <3>1, <3>2 DEF RuleInv, HolderIsBound
  <2> QED
    BY <2>1, <2>2
<1>6. NothingToRead'
  BY <1>2, <1>4 DEF RuleInv, NothingToRead
<1>7. CorrectionIsAnchored'
  BY <1>2 DEF RuleInv, CorrectionIsAnchored
<1>8. JudgedAsReadAlone'
  BY <1>1, <1>2, <1>4, ReadersStay
<1> QED
  BY <1>5, <1>6, <1>7, <1>8 DEF RuleInv

LEMMA ReadKeepsRule ==
  ASSUME RuleInv, TypeOK', NEW p \in Reviewers, NEW e \in Events, ReadCriteria(p, e)
  PROVE  RuleInv'
<1>1. TypeOK /\ digest # Unread
  BY ConstantTypes DEF RuleInv, TypeOK
<1>2. /\ read' = [read EXCEPT ![p] = [read[p] EXCEPT ![e] = digest]] /\ holder[e] # p
      /\ UNCHANGED <<holder, bound, proceeded, digest, verdict, openedBy>>
  BY DEF ReadCriteria, relVars, setVars
<1>3. \A q \in Reviewers, f \in Events :
        read'[q][f] = IF q = p /\ f = e THEN digest ELSE read[q][f]
  BY <1>1, <1>2 DEF TypeOK
<1>4. \A f \in Events : holder[f] # None => holder[f] \in Reviewers
  BY <1>1 DEF TypeOK
<1>5. HolderIsBound'
  BY <1>2, <1>3, <1>4 DEF RuleInv, HolderIsBound
<1>6. NothingToRead'
  BY <1>2, <1>3 DEF RuleInv, NothingToRead
<1>7. CorrectionIsAnchored'
  BY <1>2 DEF RuleInv, CorrectionIsAnchored
<1>8. JudgedAsReadAlone'
  BY <1>1, <1>2, <1>3, ReadersStay
<1> QED
  BY <1>5, <1>6, <1>7, <1>8 DEF RuleInv

LEMMA RegisterKeepsRule ==
  ASSUME RuleInv, TypeOK', NEW d \in Digests, RegisterCriteria(d)
  PROVE  RuleInv'
<1>1. /\ digest' = d /\ d # None /\ proceeded' = [e \in Events |-> {}]
      /\ UNCHANGED <<holder, bound, read, verdict, openedBy>>
  BY ConstantTypes DEF RegisterCriteria, relVars
<1>2. HolderIsBound' /\ NothingToRead'
  BY <1>1 DEF RuleInv, HolderIsBound, NothingToRead
<1>3. CorrectionIsAnchored'
  BY <1>1 DEF RuleInv, CorrectionIsAnchored
<1>4. JudgedAsReadAlone'
  BY <1>1, ReadersStay
<1> QED
  BY <1>2, <1>3, <1>4 DEF RuleInv

\* What a ruling is decided on is what its reviewer read, when nobody else has read anything.
LEMMA RuledOnWhatWasRead ==
  ASSUME RuleInv, NEW p \in Reviewers, NEW e \in Events, NEW ruling \in Rulings,
         NEW names \in BOOLEAN, Rule(p, e, ruling, names),
         ruling \in {"verified", "needs_changes"}, ReviewedAlone(e)
  PROVE  read[p][e] = digest
<1> DEFINE named == IF names THEN read[p][e] ELSE None
<1>1. read[p][e] # Unread /\ Covered(e, ruling, named)
  BY DEF Rule
<1>2. CASE digest = None
  BY <1>1, <1>2 DEF RuleInv, NothingToRead
<1>3. CASE digest # None /\ named = digest
  BY <1>3
<1>4. CASE digest # None /\ named # digest
  <2>1. bound[e] = digest
    BY <1>1, <1>4 DEF Covered
  <2>2. holder[e] # None /\ read[holder[e]][e] = digest
    BY <1>4, <2>1 DEF RuleInv, HolderIsBound
  <2>3. holder[e] \in Reviewers /\ digest # Unread
    BY <2>2, ConstantTypes DEF RuleInv, TypeOK
  <2>4. holder[e] = p
    BY <1>1, <2>2, <2>3 DEF ReviewedAlone
  <2> QED
    BY <2>2, <2>4
<1> QED
  BY <1>2, <1>3, <1>4

LEMMA RuleKeepsRule ==
  ASSUME RuleInv, TypeOK', NEW p \in Reviewers, NEW e \in Events, NEW ruling \in Rulings,
         NEW names \in BOOLEAN, Rule(p, e, ruling, names)
  PROVE  RuleInv'
<1> DEFINE v == [ruling |-> ruling, digest |-> digest, read |-> read[p][e]]
<1>1. TypeOK
  BY DEF RuleInv
<1>2. /\ verdict' = [verdict EXCEPT ![e] = v]
      /\ v.ruling = ruling /\ v.digest = digest /\ v.read = read[p][e]
      /\ verdict[e].ruling \in {None, "verified"}
      /\ UNCHANGED <<claimVars, digest>>
      /\ ruling = "needs_changes" =>
           /\ Generation(e) = generation
           /\ openedBy' = [openedBy EXCEPT ![generation + 1] = e]
      /\ ruling # "needs_changes" => UNCHANGED openedBy
  BY DEF Rule, MayRule, ReReviewOpen, RuledWhileCurrent, Current, setVars
<1> HIDE DEF v
<1>3. \A f \in Events : verdict'[f] = IF f = e THEN v ELSE verdict[f]
  BY <1>1, <1>2 DEF TypeOK
<1>4. HolderIsBound' /\ NothingToRead'
  BY <1>2 DEF RuleInv, HolderIsBound, NothingToRead, claimVars
<1>5. CorrectionIsAnchored'
  <2> SUFFICES ASSUME NEW g \in 2..MaxGeneration, openedBy'[g] # None
               PROVE  /\ Generation(openedBy'[g]) = g - 1
                      /\ verdict'[openedBy'[g]].ruling = "needs_changes"
    BY DEF CorrectionIsAnchored
  <2>1. g \in 1..MaxGeneration /\ g \in Nat /\ generation \in Nat
    BY <1>1, ConstantTypes DEF TypeOK
  <2>2. CASE openedBy'[g] = openedBy[g]
    <3>1. /\ openedBy[g] \in Events /\ Generation(openedBy[g]) = g - 1
          /\ verdict[openedBy[g]].ruling = "needs_changes"
      BY <1>1, <2>1, <2>2 DEF RuleInv, CorrectionIsAnchored, TypeOK
    <3>2. openedBy[g] # e
      BY <1>2, <3>1, ConstantTypes
    <3> QED
      BY <1>3, <2>2, <3>1, <3>2
  <2>3. CASE openedBy'[g] # openedBy[g]
    <3>1. ruling = "needs_changes" /\ g = generation + 1 /\ openedBy'[g] = e
      BY <1>1, <1>2, <2>1, <2>3 DEF TypeOK
    <3> QED
      BY <1>2, <1>3, <2>1, <3>1
  <2> QED
    BY <2>2, <2>3
<1>6. JudgedAsReadAlone'
  <2> SUFFICES ASSUME NEW f \in Events, Judged(f)', ReviewedAlone(f)'
               PROVE  verdict'[f].digest = verdict'[f].read
    BY DEF JudgedAsReadAlone
  <2>1. ReviewedAlone(f)
    BY <1>2 DEF ReviewedAlone, claimVars
  <2>2. CASE f # e
    BY <1>3, <2>1, <2>2 DEF RuleInv, JudgedAsReadAlone, Judged
  <2>3. CASE f = e
    <3>1. ruling \in {"verified", "needs_changes"}
      BY <1>2, <1>3, <2>3 DEF Judged
    <3> QED
      BY <1>2, <1>3, <2>1, <2>3, <3>1, RuledOnWhatWasRead
  <2> QED
    BY <2>2, <2>3
<1> QED
  BY <1>4, <1>5, <1>6 DEF RuleInv

LEMMA NextKeepsRule == RuleInv /\ TypeOK' /\ [Next]_vars => RuleInv'
<1> SUFFICES ASSUME RuleInv, TypeOK', [Next]_vars PROVE RuleInv'
  OBVIOUS
<1> USE DEF relVars, eventVars, hostVars, ackVars, setVars
<1>1. ASSUME UNCHANGED <<claimVars, digest, verdict, openedBy>> PROVE RuleInv'
  BY <1>1, RuleAlone
<1>2. ASSUME NEW p \in Reviewers, NEW e \in Events,
             \/ Claim(p, e) \/ ReadCriteria(p, e)
             \/ \E ruling \in Rulings, names \in BOOLEAN : Rule(p, e, ruling, names)
      PROVE  RuleInv'
  BY <1>2, ClaimKeepsRule, ReadKeepsRule, RuleKeepsRule
<1>3. ASSUME NEW d \in Digests, RegisterCriteria(d) PROVE RuleInv'
  BY <1>3, RegisterKeepsRule
<1>4. ASSUME NEW e \in Events,
             \/ \E s \in Revisions \cup {None}, live \in BOOLEAN : BeginEmit(e, s, live)
             \/ Dispatch(e)
             \/ \E t \in Turns, accepted, host \in BOOLEAN : BeginAck(t, e, accepted, host)
             \/ \E found \in BOOLEAN : PendingRead(e, found)
      PROVE  UNCHANGED <<claimVars, digest, verdict, openedBy>>
  BY <1>4 DEF BeginEmit, Dispatch, BeginAck, PendingRead
<1>5. CASE \/ Emit \/ (\E completed \in BOOLEAN : ResolveStaged(completed))
           \/ (\E t \in Turns : StartTurn(t) \/ Acknowledge(t)) \/ PendingSettle
  BY <1>1, <1>5 DEF Emit, ResolveStaged, StartTurn, Acknowledge, PendingSettle
<1>6. CASE OpenGeneration \/ PauseOrResume \/ \E g \in 1..MaxGeneration : BindAnchor(g)
  BY <1>1, <1>6 DEF OpenGeneration, PauseOrResume, BindAnchor
<1>7. CASE UNCHANGED vars
  BY <1>1, <1>7 DEF vars
<1> QED
  BY <1>1, <1>2, <1>3, <1>4, <1>5, <1>6, <1>7 DEF Next

(***************************************************************************)
(* The properties.                                                         *)
(***************************************************************************)

\* A settled acknowledgement is not written again, and an acceptance takes effect only while the
\* caller or the daemon finds it current inside the transaction.
LEMMA StepKeepsAcks ==
  ASSUME AckInv, [Next]_vars, NEW e \in Events
  PROVE  /\ ack[e].verified => ack'[e] = ack[e]
         /\ ~Accepted(e) /\ Accepted(e)' => Acceptable(e)
<1> USE DEF relVars, eventVars, hostVars, ackVars, claimVars, setVars
<1> DEFINE Goal == /\ ack[e].verified => ack'[e] = ack[e]
                   /\ ~Accepted(e) /\ Accepted(e)' => Acceptable(e)
<1>0. ack \in [Events -> Ack]
  BY DEF AckInv, TypeOK
<1>1. ASSUME UNCHANGED ack PROVE Goal
  BY <1>1 DEF Accepted
<1>2. ASSUME NEW t \in Turns, Acknowledge(t) PROVE Goal
  <2> DEFINE f == acking[t].event
             a == [turn |-> t, accepted |-> acking[t].accepted, verified |-> acking[t].verified]
  <2>1. CASE UNCHANGED ack
    BY <1>1, <2>1
  <2>2. CASE ack' # ack
    <3>1. /\ ack' = [ack EXCEPT ![f] = a] /\ ~ack[f].verified
          /\ a.accepted => Acceptable(f)
      BY <1>2, <2>2 DEF Acknowledge, WritesAck, Settled
    <3> HIDE DEF f, a
    <3>2. CASE f = e
      BY <1>0, <3>1, <3>2 DEF Accepted
    <3>3. CASE f # e
      BY <1>0, <3>1, <3>3 DEF Accepted
    <3> QED
      BY <3>2, <3>3
  <2> QED
    BY <2>1, <2>2
<1>3. ASSUME PendingSettle PROVE Goal
  <2> DEFINE f == pending.event
             a == [ack[f] EXCEPT !.verified = TRUE]
  <2>1. CASE UNCHANGED ack
    BY <1>1, <2>1
  <2>2. CASE ack' # ack
    <3>1. /\ pending # NotPending /\ ~ack[f].verified
          /\ ack[f].accepted => Acceptable(f)
          /\ ack' = [ack EXCEPT ![f] = a]
      BY <1>3, <2>2 DEF PendingSettle, StillAcceptable
    <3>2. f \in Events
      BY <3>1 DEF AckInv, DaemonHasRead
    <3>3. ack[f] \in Ack
      BY <1>0, <3>2
    <3>4. a.accepted = ack[f].accepted
      BY <3>3 DEF Ack
    <3> HIDE DEF f, a
    <3>5. CASE f = e
      BY <1>0, <3>1, <3>4, <3>5 DEF Accepted
    <3>6. CASE f # e
      BY <1>0, <3>1, <3>6 DEF Accepted
    <3> QED
      BY <3>5, <3>6
  <2> QED
    BY <2>1, <2>2
<1>4. ASSUME NEW d \in Events,
             \/ \E s \in Revisions \cup {None}, live \in BOOLEAN : BeginEmit(d, s, live)
             \/ Dispatch(d)
             \/ \E t \in Turns, accepted, host \in BOOLEAN : BeginAck(t, d, accepted, host)
             \/ \E found \in BOOLEAN : PendingRead(d, found)
      PROVE  UNCHANGED ack
  BY <1>4 DEF BeginEmit, Dispatch, BeginAck, PendingRead
<1>5. ASSUME NEW p \in Reviewers, NEW d \in Events,
             \/ Claim(p, d) \/ ReadCriteria(p, d)
             \/ \E ruling \in Rulings, names \in BOOLEAN : Rule(p, d, ruling, names)
      PROVE  UNCHANGED ack
  BY <1>5 DEF Claim, ReadCriteria, Rule
<1>6. ASSUME \/ Emit \/ (\E completed \in BOOLEAN : ResolveStaged(completed))
             \/ (\E t \in Turns : StartTurn(t)) \/ (\E d \in Digests : RegisterCriteria(d))
      PROVE  Goal
  BY <1>1, <1>6 DEF Emit, ResolveStaged, StartTurn, RegisterCriteria
<1>7. ASSUME OpenGeneration \/ PauseOrResume \/ \E g \in 1..MaxGeneration : BindAnchor(g)
      PROVE  Goal
  BY <1>1, <1>7 DEF OpenGeneration, PauseOrResume, BindAnchor
<1>8. ASSUME UNCHANGED vars PROVE Goal
  BY <1>1, <1>8 DEF vars
<1> HIDE DEF Goal
<1>9. Goal
  BY <1>1, <1>2, <1>3, <1>4, <1>5, <1>6, <1>7, <1>8 DEF Next
<1> QED
  BY <1>9 DEF Goal

\* Only a ruling writes a verdict, and over one that stands only as a re-review.
LEMMA StepKeepsVerdicts ==
  ASSUME RuleInv, [Next]_vars, NEW e \in Events,
         verdict[e].ruling # None, verdict'[e] # verdict[e]
  PROVE  /\ verdict[e].ruling = "verified" /\ verdict'[e].ruling \in {"verified", "needs_changes"}
         /\ verdict'[e].digest # verdict[e].digest
<1> USE DEF relVars, eventVars, hostVars, ackVars, claimVars, setVars
<1> DEFINE Goal == /\ verdict[e].ruling = "verified"
                   /\ verdict'[e].ruling \in {"verified", "needs_changes"}
                   /\ verdict'[e].digest # verdict[e].digest
<1>1. verdict' # verdict
  OBVIOUS
<1>2. ASSUME NEW p \in Reviewers, NEW d \in Events, NEW ruling \in Rulings, NEW names \in BOOLEAN,
             Rule(p, d, ruling, names)
      PROVE  Goal
  <2> DEFINE v == [ruling |-> ruling, digest |-> digest, read |-> read[p][d]]
  <2>1. /\ verdict' = [verdict EXCEPT ![d] = v] /\ v.ruling = ruling /\ v.digest = digest
        /\ verdict[d].ruling # None =>
             /\ verdict[d].ruling = "verified" /\ verdict[d].digest # digest
             /\ ruling \in {"verified", "needs_changes"}
    BY <1>2 DEF Rule, MayRule, ReReviewOpen
  <2>2. verdict \in [Events -> Verdict]
    BY DEF RuleInv, TypeOK
  <2> HIDE DEF v
  <2>3. d = e
    BY <2>1, <2>2
  <2> QED
    BY <2>1, <2>2, <2>3
<1>3. ASSUME NEW d \in Events,
             \/ \E s \in Revisions \cup {None}, live \in BOOLEAN : BeginEmit(d, s, live)
             \/ Dispatch(d)
             \/ \E t \in Turns, accepted, host \in BOOLEAN : BeginAck(t, d, accepted, host)
             \/ \E found \in BOOLEAN : PendingRead(d, found)
             \/ \E p \in Reviewers : Claim(p, d) \/ ReadCriteria(p, d)
      PROVE  Goal
  BY <1>1, <1>3 DEF BeginEmit, Dispatch, BeginAck, PendingRead, Claim, ReadCriteria
<1>4. ASSUME \/ Emit \/ (\E completed \in BOOLEAN : ResolveStaged(completed))
             \/ (\E t \in Turns : StartTurn(t) \/ Acknowledge(t)) \/ PendingSettle
             \/ (\E d \in Digests : RegisterCriteria(d))
      PROVE  Goal
  BY <1>1, <1>4 DEF Emit, ResolveStaged, StartTurn, Acknowledge, PendingSettle, RegisterCriteria
<1>5. ASSUME OpenGeneration \/ PauseOrResume \/ \E g \in 1..MaxGeneration : BindAnchor(g)
      PROVE  Goal
  BY <1>1, <1>5 DEF OpenGeneration, PauseOrResume, BindAnchor
<1>6. ASSUME UNCHANGED vars PROVE Goal
  BY <1>1, <1>6 DEF vars
<1> HIDE DEF Goal
<1>7. Goal
  BY <1>2, <1>3, <1>4, <1>5, <1>6 DEF Next
<1> QED
  BY <1>7 DEF Goal

\* Whoever was told to proceed holds the review.
LEMMA ProceededAlone == RuleInv => OneHolder
<1> SUFFICES ASSUME RuleInv, NEW e \in Events PROVE Cardinality(proceeded[e]) <= 1
  BY DEF OneHolder
<1>1. proceeded[e] \in SUBSET {holder[e]}
  BY DEF RuleInv, HolderIsBound
<1>2. IsFiniteSet({holder[e]}) /\ Cardinality({holder[e]}) = 1
  BY FS_Singleton
<1>3. Cardinality(proceeded[e]) <= Cardinality({holder[e]})
  BY <1>1, <1>2, FS_Subset
<1> QED
  BY <1>2, <1>3

\* Every variable of the review keeps its type, and no acknowledgement is verified without its
\* delivery being closed with it.
THEOREM TypeCorrect == Spec => []TypeOK
<1>1. Init => AckInv
  BY InitAck
<1>2. AckInv /\ [Next]_vars => AckInv'
  BY NextKeepsAck
<1>3. AckInv => TypeOK
  BY DEF AckInv
<1> QED
  BY <1>1, <1>2, <1>3, PTL DEF Spec

\* However the parent's turns and the daemon interleave between what they read of the host and
\* what they write, a settled acknowledgement has a real turn behind it, is not replaced and
\* accepts nothing that was left behind.
THEOREM AcksStandForGood == Spec => AcksStand
<1>1. Init => AckInv
  BY InitAck
<1>2. AckInv /\ [Next]_vars => AckInv'
  BY NextKeepsAck
<1>3. AckInv => AckTurnConfirmedUnlessReauthored
  BY DEF AckInv
<1>4. AckInv /\ [Next]_vars => [\A e \in Events : ack[e].verified => ack'[e] = ack[e]]_vars
  BY StepKeepsAcks
<1>5. AckInv /\ [Next]_vars
        => [\A e \in Events : ~Accepted(e) /\ Accepted(e)' => Acceptable(e)]_vars
  BY StepKeepsAcks
<1> QED
  BY <1>1, <1>2, <1>3, <1>4, <1>5, PTL
  DEF Spec, AcksStand, SettledAckKept, AcceptedOnlyWhileCurrent

\* However claims, edits to the criteria, generations and rulings interleave, one reviewer at a
\* time proceeds, rules on what it read, and is overruled only by a re-review.
THEOREM RulingsStandForGood == Spec => RulingsStand
<1>1. Init => RuleInv
  BY InitRule
<1>2. RuleInv /\ TypeOK' /\ [Next]_vars => RuleInv'
  BY NextKeepsRule
<1>3. Spec => []TypeOK
  BY TypeCorrect
<1>4. RuleInv => CorrectionIsAnchored /\ JudgedAsReadAlone /\ OneHolder
  BY ProceededAlone DEF RuleInv
<1>5. RuleInv /\ [Next]_vars =>
        [\A e \in Events : verdict[e].ruling # None /\ verdict'[e] # verdict[e] =>
           /\ verdict[e].ruling = "verified" /\ verdict'[e].ruling \in {"verified", "needs_changes"}
           /\ verdict'[e].digest # verdict[e].digest]_vars
  BY StepKeepsVerdicts
<1> QED
  BY <1>1, <1>2, <1>3, <1>4, <1>5, PTL DEF Spec, RulingsStand, ReplacedOnlyByReReview

-----------------------------------------------------------------------------
(***************************************************************************)
(* The view of an assignment, and the mark of its merge.                   *)
(***************************************************************************)

\* Until a set is registered no ruling names one.
NothingNamed == digest = None => \A e \in Events : verdict[e].digest = None

MarkInv ==
  /\ RuleInv /\ NothingNamed /\ AssignmentTypeOK
  /\ marks \subseteq integrated

\* The head of a generation is one of its revisions.
LEMMA HeadIsRevision ==
  ASSUME NEW g \in 1..MaxGeneration
  PROVE  Head(g) \in Revisions \cup {None}
<1> DEFINE nodes == Reviewable(g)
           tips == L!Tips(nodes, Declared(g))
<1>1. CASE L!HasHead(nodes, Declared(g), Requested(g))
  <2>1. Cardinality(tips) = 1
    BY <1>1 DEF L!HasHead, L!Cardinality, Cardinality
  <2>2. \E v \in nodes : v \in tips
    <3>1. tips # {}
      BY <2>1, FS_EmptySet
    <3> QED
      BY <3>1 DEF L!Tips
  <2>3. (CHOOSE v \in nodes : v \in tips) \in nodes
    BY <2>2
  <2>4. nodes \subseteq Revisions
    BY DEF Reviewable
  <2> QED
    BY <1>1, <2>3, <2>4 DEF Head, L!HeadOf
<1>2. CASE ~L!HasHead(nodes, Declared(g), Requested(g))
  BY <1>2 DEF Head, L!HeadOf
<1> QED
  BY <1>1, <1>2

LEMMA CurrentHeadIsCurrent ==
  ASSUME TypeOK
  PROVE  /\ CurrentHead \in Events \cup {None}
         /\ CurrentHead # None /\ active => Current(CurrentHead)
<1>1. generation \in 1..MaxGeneration
  BY DEF TypeOK
<1>2. Head(generation) \in Revisions \cup {None}
  BY <1>1, HeadIsRevision
<1>3. CASE Head(generation) = None
  BY <1>3 DEF CurrentHead
<1>4. CASE Head(generation) # None
  <2>1. CurrentHead = <<generation, Head(generation)>> /\ CurrentHead \in Events
    BY <1>1, <1>2, <1>4 DEF CurrentHead, Events
  <2> QED
    BY <2>1 DEF Current, Generation, Revision
<1> QED
  BY <1>3, <1>4

\* What a look reads first is a look.
LEMMA FirstReadsTyped == TypeOK => FirstReads \in Look
<1> SUFFICES ASSUME TypeOK PROVE FirstReads \in Look
  OBVIOUS
<1>1. CurrentHead \in Events \cup {None}
  BY CurrentHeadIsCurrent
<1>2. VerdictFor(CurrentHead) \in Verdict
  BY <1>1 DEF VerdictFor, TypeOK, Verdict, NoVerdict
<1>3. Ambiguous \in BOOLEAN /\ active \in BOOLEAN /\ generation \in 1..MaxGeneration
  BY DEF Ambiguous, TypeOK
<1> HIDE DEF CurrentHead
<1> QED
  BY <1>1, <1>2, <1>3 DEF FirstReads, Look

LEMMA NamedOnlyWhenRegistered ==
  ASSUME RuleInv, NothingNamed, [Next]_vars
  PROVE  NothingNamed'
<1> USE DEF relVars, eventVars, hostVars, ackVars, claimVars, setVars
<1>1. ASSUME UNCHANGED <<digest, verdict>> PROVE NothingNamed'
  BY <1>1 DEF NothingNamed
<1>2. ASSUME NEW p \in Reviewers, NEW d \in Events, NEW ruling \in Rulings, NEW names \in BOOLEAN,
             Rule(p, d, ruling, names)
      PROVE  NothingNamed'
  <2> DEFINE v == [ruling |-> ruling, digest |-> digest, read |-> read[p][d]]
  <2>1. verdict' = [verdict EXCEPT ![d] = v] /\ v.digest = digest /\ UNCHANGED digest
    BY <1>2 DEF Rule
  <2>2. verdict \in [Events -> Verdict]
    BY DEF RuleInv, TypeOK
  <2> HIDE DEF v
  <2>3. \A e \in Events : verdict'[e] = IF e = d THEN v ELSE verdict[e]
    BY <2>1, <2>2
  <2> QED
    BY <2>1, <2>3 DEF NothingNamed
<1>3. ASSUME NEW d \in Digests, RegisterCriteria(d) PROVE NothingNamed'
  BY <1>3, ConstantTypes DEF RegisterCriteria, NothingNamed
<1>4. ASSUME NEW d \in Events,
             \/ \E s \in Revisions \cup {None}, live \in BOOLEAN : BeginEmit(d, s, live)
             \/ Dispatch(d)
             \/ \E t \in Turns, accepted, host \in BOOLEAN : BeginAck(t, d, accepted, host)
             \/ \E found \in BOOLEAN : PendingRead(d, found)
             \/ \E p \in Reviewers : Claim(p, d) \/ ReadCriteria(p, d)
      PROVE  NothingNamed'
  BY <1>1, <1>4 DEF BeginEmit, Dispatch, BeginAck, PendingRead, Claim, ReadCriteria
<1>5. ASSUME \/ Emit \/ (\E completed \in BOOLEAN : ResolveStaged(completed))
             \/ (\E t \in Turns : StartTurn(t) \/ Acknowledge(t)) \/ PendingSettle
      PROVE  NothingNamed'
  BY <1>1, <1>5 DEF Emit, ResolveStaged, StartTurn, Acknowledge, PendingSettle
<1>6. ASSUME OpenGeneration \/ PauseOrResume \/ \E g \in 1..MaxGeneration : BindAnchor(g)
      PROVE  NothingNamed'
  BY <1>1, <1>6 DEF OpenGeneration, PauseOrResume, BindAnchor
<1>7. ASSUME UNCHANGED vars PROVE NothingNamed'
  BY <1>1, <1>7 DEF vars
<1> QED
  BY <1>2, <1>3, <1>4, <1>5, <1>6, <1>7 DEF Next

LEMMA InitMark == Init /\ AssignmentInit => AckInv /\ MarkInv
<1> SUFFICES ASSUME Init, AssignmentInit PROVE AckInv /\ MarkInv
  OBVIOUS
<1>1. AckInv /\ RuleInv
  BY InitAck, InitRule
<1>2. NothingNamed
  BY DEF Init, NothingNamed, NoVerdict
<1>3. AssignmentTypeOK /\ marks \subseteq integrated
  BY DEF AssignmentInit, AssignmentTypeOK
<1> QED
  BY <1>1, <1>2, <1>3 DEF MarkInv

\* Looking and marking are no steps of the review, and a mark names what was integrated.
LEMMA NextKeepsMark ==
  ASSUME AckInv, MarkInv, [AssignmentNext]_<<vars, assignmentVars>>
  PROVE  [Next]_vars /\ AckInv' /\ MarkInv'
<1>1. [Next]_vars
  BY DEF AssignmentNext, BeginLook, EndLook, Mark
<1>2. AckInv' /\ TypeOK /\ TypeOK'
  BY <1>1, NextKeepsAck DEF AckInv
<1>3. RuleInv' /\ NothingNamed'
  BY <1>1, <1>2, NextKeepsRule, NamedOnlyWhenRegistered DEF MarkInv
<1>4. AssignmentTypeOK' /\ (marks \subseteq integrated)'
  <2>1. CASE UNCHANGED assignmentVars
    BY <2>1 DEF MarkInv, AssignmentTypeOK, assignmentVars
  <2>2. CASE BeginLook
    BY <1>2, <2>2, FirstReadsTyped DEF BeginLook, MarkInv, AssignmentTypeOK
  <2>3. CASE EndLook
    <3>1. looking \in Look /\ UNCHANGED marks /\ looking' = NotLooking
      BY <2>3 DEF EndLook, MarkInv, AssignmentTypeOK
    <3>2. State(looking) = "verified" => looking.head \in Events
      BY <3>1 DEF State, Look
    <3> QED
      BY <2>3, <3>1, <3>2 DEF EndLook, MarkInv, AssignmentTypeOK
  <2>4. ASSUME NEW e \in Events, Mark(e) PROVE AssignmentTypeOK' /\ (marks \subseteq integrated)'
    BY <2>4 DEF Mark, Names, MarkInv, AssignmentTypeOK
  <2> QED
    BY <2>1, <2>2, <2>3, <2>4 DEF AssignmentNext
<1> QED
  BY <1>1, <1>2, <1>3, <1>4 DEF MarkInv

LEMMA AssignmentInvariant == AssignmentSpec => [](AckInv /\ MarkInv)
<1>1. Init /\ AssignmentInit => AckInv /\ MarkInv
  BY InitMark
<1>2. (AckInv /\ MarkInv) /\ [AssignmentNext]_<<vars, assignmentVars>> => (AckInv /\ MarkInv)'
  BY NextKeepsMark
<1> QED
  BY <1>1, <1>2, PTL DEF AssignmentSpec

\* The view adds no behaviour to the review: whatever is proved of Review holds beside it.
THEOREM ViewOnlyLooks == AssignmentSpec => Spec
<1>1. AckInv /\ MarkInv /\ [AssignmentNext]_<<vars, assignmentVars>> => [Next]_vars
  BY NextKeepsMark
<1> QED
  BY <1>1, AssignmentInvariant, PTL DEF AssignmentSpec, Spec

\* An assignment reported merged is the revision an operator integrated, is still the head, and
\* is still ruled verified under the criteria in force (assignment.py: mark, _current_mark).
THEOREM MergeIsItsOwn == AssignmentSpec => []MergedIsWhatWasIntegrated
<1>1. AckInv /\ MarkInv => MergedIsWhatWasIntegrated
  <2> SUFFICES ASSUME AckInv, MarkInv, State(FirstReads) = "merged"
               PROVE  /\ CurrentHead \in integrated
                      /\ Current(CurrentHead) /\ verdict[CurrentHead].ruling = "verified"
                      /\ verdict[CurrentHead].digest = digest
    BY DEF MergedIsWhatWasIntegrated
  <2>1. /\ FirstReads.active = active /\ FirstReads.head = CurrentHead
        /\ FirstReads.verdict = VerdictFor(CurrentHead)
    BY DEF FirstReads
  <2> HIDE DEF FirstReads, CurrentHead
  <2>2. active /\ CurrentHead # None /\ CurrentMark(FirstReads)
    BY <2>1 DEF State, HeadState
  <2>3. /\ CurrentHead \in marks /\ verdict[CurrentHead].ruling = "verified"
        /\ CriteriaCurrent(verdict[CurrentHead])
    BY <2>1, <2>2 DEF CurrentMark, MarkOf, VerdictFor
  <2>4. Current(CurrentHead)
    BY <2>2, CurrentHeadIsCurrent DEF AckInv
  <2> QED
    BY <2>3, <2>4, ConstantTypes DEF CriteriaCurrent, MarkInv
<1> QED
  BY <1>1, AssignmentInvariant, PTL

\* An assignment reported as needing another review can have one: a claim would be let through,
\* or who claimed already is covered to rule, and the ruling of record gives way to it
\* (assignment.py: _resolve; ack.py: _re_review_open, claim_verification).
THEOREM ReReviewIsOpen == AssignmentSpec => []ReReviewCanProceed
<1>1. AckInv /\ MarkInv => ReReviewCanProceed
  <2> SUFFICES ASSUME AckInv, MarkInv, State(FirstReads) = "re_review_needed"
               PROVE  /\ Proceeds(CurrentHead) \/ Covered(CurrentHead, "verified", digest)
                      /\ MayRule(CurrentHead, "verified", digest)
    BY DEF ReReviewCanProceed
  <2>1. /\ FirstReads.active = active /\ FirstReads.head = CurrentHead
        /\ FirstReads.verdict = VerdictFor(CurrentHead)
    BY DEF FirstReads
  <2>2. CurrentHead \in Events \cup {None} /\ (CurrentHead # None /\ active => Current(CurrentHead))
    BY CurrentHeadIsCurrent DEF AckInv
  <2> HIDE DEF FirstReads, CurrentHead
  <2>3. /\ active /\ CurrentHead # None /\ VerdictFor(CurrentHead).ruling = "verified"
        /\ ~CriteriaCurrent(VerdictFor(CurrentHead))
    BY <2>1 DEF State, HeadState
  <2> DEFINE e == CurrentHead
  <2>4. /\ e \in Events /\ Current(e) /\ verdict[e].ruling = "verified"
        /\ verdict[e].digest # digest
    BY <2>2, <2>3 DEF VerdictFor, CriteriaCurrent
  <2>5. digest # None
    BY <2>4 DEF MarkInv, NothingNamed
  <2> HIDE DEF e
  <2>6. MayRule(e, "verified", digest)
    BY <2>4, <2>5 DEF MayRule, ReReviewOpen
  <2>7. Proceeds(e) \/ Covered(e, "verified", digest)
    BY <2>4, <2>5 DEF Proceeds, Reclaimable, RulingIsCurrent, ReReviewOpen, Covered
  <2> QED
    BY <2>6, <2>7 DEF e
<1> QED
  BY <1>1, AssignmentInvariant, PTL
=============================================================================
