----------------------------- MODULE SyncProofs -----------------------------
(***************************************************************************)
(* What holds of the outbox for any subjects, documents and writers, and   *)
(* any bound of the model.                                                 *)
(***************************************************************************)
EXTENDS Sync, TLAPS

(***************************************************************************)
(* The strengthening.  A record that is in a document stays there until    *)
(* somebody edits it: every replacement under way was issued by a writer   *)
(* that did not see its own record, and lands on what it read or not at    *)
(* all.  So what a writer has seen is still there when it reports it.      *)
(***************************************************************************)

JobsAreSound ==
  \A j \in Jobs :
    /\ jobs[j].state = "absent" => ~jobs[j].leased /\ ~jobs[j].backoff
    /\ jobs[j].state = "failed" => jobs[j].token = Nobody
    /\ jobs[j].leased => ~jobs[j].backoff
    /\ jobs[j].attempts <= MaxAttempts + retries
    /\ jobs[j].state # "failed" => jobs[j].attempts < MaxAttempts + retries

SeenIsThere ==
  edits = 0 =>
    \A w \in Writers : writer[w].phase # "claimed" =>
      \A s \in Subjects : writer[w].saw[s] = "good" => doc[<<s, writer[w].ref>>] = "good"

ReadWithoutRecord ==
  \A w \in Writers : writer[w].phase = "read" => writer[w].saw[writer[w].job[1]] # "good"

RequestsWithoutRecord == \A q \in inflight : q.base[q.job[1]] # "good"

DocInv == SeenIsThere /\ ReadWithoutRecord /\ RequestsWithoutRecord /\ ConfirmedIsThere

IInv == TypeOK /\ JobsAreSound /\ DocInv

-----------------------------------------------------------------------------

LEMMA Resting == NoJob \in Job /\ NoRead \in Container /\ Idle \in Writer /\ Idle.phase = "idle"
                 /\ Idle.saw = NoRead
<1>1. PICK r \in Refs : TRUE
  BY OutboxAssumption
<1>2. <<Progress, r>> \in Jobs
  BY <1>1 DEF Jobs, Subjects
<1>3. NoRead \in Container
  BY DEF NoRead, Container, Blocks
<1> QED
  BY <1>1, <1>2, <1>3 DEF NoJob, Job, JobStates, Idle, Writer, Phases

LEMMA Pairs ==
  ASSUME NEW j \in Jobs
  PROVE  j[1] \in Subjects /\ j[2] \in Refs /\ j = <<j[1], j[2]>>
BY DEF Jobs

LEMMA InitInvariant == Init => IInv
<1> SUFFICES ASSUME Init PROVE IInv
  OBVIOUS
<1>1. TypeOK
  BY Resting, OutboxAssumption DEF Init, TypeOK, Blocks, NoJob
<1>2. JobsAreSound
  BY OutboxAssumption DEF Init, JobsAreSound, NoJob
<1>3. DocInv
  BY Resting DEF Init, DocInv, SeenIsThere, ReadWithoutRecord, RequestsWithoutRecord,
     ConfirmedIsThere, NoJob, NoRead
<1> QED
  BY <1>1, <1>2, <1>3 DEF IInv

-----------------------------------------------------------------------------
(* A step that changes one job.                                              *)

LEMMA JobMoves ==
  ASSUME IInv, NEW j \in Jobs, NEW new \in Job, jobs' = [jobs EXCEPT ![j] = new],
         retries' \in 0..Retries, retries <= retries',
         new.state = "absent" => ~new.leased /\ ~new.backoff,
         new.state = "failed" => new.token = Nobody,
         new.leased => ~new.backoff,
         new.attempts <= MaxAttempts + retries',
         new.state # "failed" => new.attempts < MaxAttempts + retries'
  PROVE  /\ jobs' \in [Jobs -> Job] /\ JobsAreSound'
         /\ \A k \in Jobs : jobs'[k].attempts <= MaxAttempts + Retries
         /\ jobs'[j] = new /\ \A k \in Jobs : k # j => jobs'[k] = jobs[k]
<1>1. jobs' \in [Jobs -> Job] /\ jobs'[j] = new /\ \A k \in Jobs : k # j => jobs'[k] = jobs[k]
  BY DEF IInv, TypeOK
<1>2. \A k \in Jobs : jobs[k].attempts \in Nat /\ jobs'[k].attempts \in Nat
  BY <1>1 DEF IInv, TypeOK, Job
<1>3. retries \in Nat /\ retries' \in Nat /\ MaxAttempts \in Nat /\ Retries \in Nat
  BY OutboxAssumption DEF IInv, TypeOK
<1>4. ASSUME NEW k \in Jobs
      PROVE  /\ jobs'[k].attempts <= MaxAttempts + retries'
             /\ jobs'[k].state # "failed" => jobs'[k].attempts < MaxAttempts + retries'
  BY <1>1, <1>2, <1>3 DEF IInv, JobsAreSound
<1>5. JobsAreSound'
  BY <1>1, <1>4 DEF IInv, JobsAreSound
<1>6. \A k \in Jobs : jobs'[k].attempts <= MaxAttempts + Retries
  BY <1>2, <1>3, <1>4
<1> QED
  BY <1>1, <1>5, <1>6

\* The documents and who reads them are not disturbed by a job that is not newly confirmed.
LEMMA DocFrame ==
  ASSUME DocInv, UNCHANGED <<doc, inflight, writer, edits>>,
         \A j \in Jobs : jobs'[j].state = "confirmed" => jobs[j].state = "confirmed"
  PROVE  DocInv'
BY DEF DocInv, SeenIsThere, ReadWithoutRecord, RequestsWithoutRecord, ConfirmedIsThere

\* Nor by a writer that neither claims to have read nor learns anything.
LEMMA WriterMoves ==
  ASSUME IInv, NEW w \in Writers, NEW new \in Writer, writer' = [writer EXCEPT ![w] = new],
         UNCHANGED <<doc, inflight, edits>>,
         \A j \in Jobs : jobs'[j].state = "confirmed" => jobs[j].state = "confirmed",
         new.phase = "read" => new.saw[new.job[1]] # "good",
         edits = 0 /\ new.phase # "claimed" =>
           \A s \in Subjects : new.saw[s] = "good" => doc[<<s, new.ref>>] = "good"
  PROVE  writer' \in [Writers -> Writer] /\ DocInv'
<1>1. writer' \in [Writers -> Writer] /\ writer'[w] = new
      /\ \A v \in Writers : v # w => writer'[v] = writer[v]
  BY DEF IInv, TypeOK
<1>2. SeenIsThere' /\ ReadWithoutRecord'
  BY <1>1 DEF IInv, DocInv, SeenIsThere, ReadWithoutRecord
<1>3. RequestsWithoutRecord' /\ ConfirmedIsThere'
  BY DEF IInv, DocInv, RequestsWithoutRecord, ConfirmedIsThere
<1> QED
  BY <1>1, <1>2, <1>3 DEF DocInv

\* What a replacement that lands leaves of the records in the documents.
LEMMA LandsKeepsRecords ==
  ASSUME IInv, NEW q \in inflight, Lands(q), NEW j \in Jobs, doc[j] = "good"
  PROVE  doc'[j] = "good"
<1>1. q.job \in Jobs /\ q.base \in Container /\ q.base[q.job[1]] # "good"
  BY DEF IInv, TypeOK, DocInv, RequestsWithoutRecord, Request
<1>2. q.base = ContainerOf(q.job[2])
  BY DEF Lands, StillReads
<1>3. PICK block \in Blocks : Store(q, block)
  BY DEF Lands, Blocks
<1>4. doc'[j] = IF j[2] = q.job[2] THEN Replaced(q, block)[j[1]] ELSE doc[j]
  BY <1>3 DEF Store
<1>5. CASE j[2] = q.job[2]
  <2>1. q.base[j[1]] = doc[j]
    BY <1>2, <1>5, Pairs DEF ContainerOf
  <2>2. j[1] # q.job[1]
    BY <1>1, <2>1
  <2>3. Replaced(q, block)[j[1]] = q.base[j[1]]
    BY <1>1, <2>2, Pairs DEF Replaced, Container
  <2> QED
    BY <1>4, <1>5, <2>1, <2>3
<1> QED
  BY <1>4, <1>5

-----------------------------------------------------------------------------
(* The steps                                                                 *)

LEMMA SetTargetKeeps == ASSUME IInv, NEW r \in Refs, SetTarget(r) PROVE IInv'
<1>1. TypeOK' /\ JobsAreSound'
  BY DEF IInv, SetTarget, TypeOK, JobsAreSound, bounds
<1>2. DocInv'
  BY DocFrame DEF IInv, SetTarget, bounds
<1> QED
  BY <1>1, <1>2 DEF IInv

LEMMA EnqueueKeeps ==
  ASSUME IInv, NEW s \in Subjects, EnqueueIn(s),
         UNCHANGED <<target, doc, inflight, writer, bounds>>
  PROVE  IInv'
<1>1. CASE UNCHANGED jobs
  <2>1. TypeOK' /\ JobsAreSound'
    BY <1>1 DEF IInv, TypeOK, JobsAreSound, bounds
  <2>2. DocInv'
    BY <1>1, DocFrame DEF IInv, bounds
  <2> QED
    BY <2>1, <2>2 DEF IInv
<1>2. CASE ~UNCHANGED jobs
  <2> DEFINE j   == <<s, target>>
             new == [NoJob EXCEPT !.state = "pending"]
  <2>1. j \in Jobs /\ jobs' = [jobs EXCEPT ![j] = new]
    BY <1>2 DEF EnqueueIn, IInv, TypeOK, Jobs
  <2>2. new \in Job /\ new.state = "pending" /\ ~new.leased /\ new.attempts = 0
    BY Resting DEF NoJob, Job, JobStates
  <2> HIDE DEF j, new
  <2>3. /\ retries' \in 0..Retries /\ retries <= retries'
        /\ new.attempts < MaxAttempts + retries' /\ new.attempts <= MaxAttempts + retries'
    BY <2>2, OutboxAssumption DEF IInv, TypeOK, bounds
  <2>4. /\ jobs' \in [Jobs -> Job] /\ JobsAreSound'
        /\ \A k \in Jobs : jobs'[k].attempts <= MaxAttempts + Retries
        /\ jobs'[j] = new /\ \A k \in Jobs : k # j => jobs'[k] = jobs[k]
    BY <2>1, <2>2, <2>3, JobMoves
  <2>5. TypeOK'
    BY <2>4 DEF IInv, TypeOK, bounds
  <2>6. DocInv'
    BY <2>2, <2>4, DocFrame DEF IInv, bounds
  <2> QED
    BY <2>4, <2>5, <2>6 DEF IInv
<1> QED
  BY <1>1, <1>2

\* A job the outbox has, as a record.
LEMMA JobAt ==
  ASSUME IInv, NEW j \in Jobs
  PROVE  jobs[j] \in Job /\ jobs[j].attempts \in Nat /\ retries \in Nat /\ MaxAttempts \in Nat
         /\ retries \in 0..Retries /\ retries <= retries
BY OutboxAssumption DEF IInv, TypeOK, Job

LEMMA WriterAt ==
  ASSUME IInv, NEW w \in Writers
  PROVE  /\ writer[w] \in Writer /\ writer[w].job \in Jobs /\ writer[w].ref \in Refs
         /\ writer[w].saw \in Container /\ writer[w].phase \in Phases
BY DEF IInv, TypeOK, Writer

\* A job moves, and nothing else but the bounds.
LEMMA OneJobMoves ==
  ASSUME IInv, NEW j \in Jobs, NEW new \in Job, jobs' = [jobs EXCEPT ![j] = new],
         retries' \in 0..Retries, retries <= retries', trouble' \in 0..Trouble,
         UNCHANGED <<target, doc, inflight, writer, edits>>,
         new.state = "absent" => ~new.leased /\ ~new.backoff,
         new.state = "failed" => new.token = Nobody,
         new.leased => ~new.backoff,
         new.attempts <= MaxAttempts + retries',
         new.state # "failed" => new.attempts < MaxAttempts + retries',
         new.state = "confirmed" => jobs[j].state = "confirmed"
  PROVE  IInv'
<1>1. /\ jobs' \in [Jobs -> Job] /\ JobsAreSound'
      /\ \A k \in Jobs : jobs'[k].attempts <= MaxAttempts + Retries
      /\ jobs'[j] = new /\ \A k \in Jobs : k # j => jobs'[k] = jobs[k]
  BY JobMoves
<1>2. TypeOK'
  BY <1>1 DEF IInv, TypeOK
<1>3. DocInv'
  BY <1>1, DocFrame DEF IInv
<1> QED
  BY <1>1, <1>2, <1>3 DEF IInv

LEMMA ClaimKeeps ==
  ASSUME IInv, NEW w \in Writers, NEW j \in Jobs, Claim(w, j)
  PROVE  IInv'
<1> DEFINE new  == [jobs[j] EXCEPT !.state = "claimed", !.token = w, !.leased = TRUE]
           mine == [Idle EXCEPT !.phase = "claimed", !.job = j, !.ref = j[2]]
<1>1. /\ jobs[j].state \in {"pending", "claimed", "written"} /\ ~jobs[j].backoff
      /\ UNCHANGED <<target, doc, inflight, bounds>>
  BY DEF Claim, CanClaim
<1>2. jobs' = [jobs EXCEPT ![j] = new] /\ writer' = [writer EXCEPT ![w] = mine]
  BY DEF Claim
<1>3. new \in Job /\ new.state = "claimed" /\ ~new.backoff /\ new.attempts = jobs[j].attempts
  BY <1>1, JobAt DEF Job, JobStates
<1>4. mine \in Writer /\ mine.phase = "claimed"
  BY Resting, Pairs DEF Writer, Phases
<1> HIDE DEF new, mine
<1>5. /\ jobs' \in [Jobs -> Job] /\ JobsAreSound'
      /\ \A k \in Jobs : jobs'[k].attempts <= MaxAttempts + Retries
      /\ jobs'[j] = new /\ \A k \in Jobs : k # j => jobs'[k] = jobs[k]
  BY <1>1, <1>2, <1>3, JobAt, JobMoves DEF bounds, IInv, JobsAreSound
<1>6. writer' \in [Writers -> Writer] /\ DocInv'
  BY <1>1, <1>2, <1>3, <1>4, <1>5, WriterMoves DEF bounds
<1> QED
  BY <1>1, <1>5, <1>6 DEF IInv, TypeOK, bounds

LEMMA LeaseExpiresKeeps ==
  ASSUME IInv, NEW j \in Jobs, LeaseExpires(j)
  PROVE  IInv'
<1> DEFINE new == [jobs[j] EXCEPT !.leased = FALSE]
<1>1. /\ jobs' = [jobs EXCEPT ![j] = new] /\ trouble' \in 0..Trouble
      /\ UNCHANGED <<target, doc, inflight, writer, edits, retries>>
  BY OutboxAssumption DEF LeaseExpires, IInv, TypeOK
<1>2. /\ new \in Job /\ new.state = jobs[j].state /\ new.token = jobs[j].token /\ ~new.leased
      /\ new.backoff = jobs[j].backoff /\ new.attempts = jobs[j].attempts
  BY JobAt DEF Job
<1> HIDE DEF new
<1> QED
  BY <1>1, <1>2, JobAt, OneJobMoves DEF IInv, JobsAreSound

LEMMA BackoffEndsKeeps ==
  ASSUME IInv, NEW j \in Jobs, BackoffEnds(j)
  PROVE  IInv'
<1> DEFINE new == [jobs[j] EXCEPT !.backoff = FALSE]
<1>1. /\ jobs' = [jobs EXCEPT ![j] = new] /\ trouble' \in 0..Trouble /\ jobs[j].backoff
      /\ UNCHANGED <<target, doc, inflight, writer, edits, retries>>
  BY DEF BackoffEnds, IInv, TypeOK, bounds
<1>2. /\ new \in Job /\ new.state = jobs[j].state /\ new.token = jobs[j].token /\ ~new.backoff
      /\ new.leased = jobs[j].leased /\ new.attempts = jobs[j].attempts
  BY JobAt DEF Job
<1> HIDE DEF new
<1> QED
  BY <1>1, <1>2, JobAt, OneJobMoves DEF IInv, JobsAreSound

LEMMA RetryKeeps ==
  ASSUME IInv, NEW j \in Jobs, Retry(j)
  PROVE  IInv'
<1> DEFINE new == [jobs[j] EXCEPT !.state = "pending", !.backoff = FALSE, !.leased = FALSE,
                                  !.token = Nobody]
<1>1. /\ jobs' = [jobs EXCEPT ![j] = new] /\ trouble' \in 0..Trouble
      /\ retries' = retries + 1 /\ retries' \in 0..Retries
      /\ UNCHANGED <<target, doc, inflight, writer, edits>>
  BY OutboxAssumption DEF Retry, IInv, TypeOK
<1>2. /\ new \in Job /\ new.state = "pending" /\ ~new.backoff /\ ~new.leased
      /\ new.attempts = jobs[j].attempts
  BY JobAt DEF Job, JobStates
<1>3. new.attempts < MaxAttempts + retries'
  BY <1>1, <1>2, JobAt DEF IInv, JobsAreSound
<1> HIDE DEF new
<1>4. retries <= retries' /\ new.attempts <= MaxAttempts + retries'
  BY <1>1, <1>2, <1>3, JobAt
<1> QED
  BY <1>1, <1>2, <1>3, <1>4, OneJobMoves

LEMMA EditedByHandKeeps ==
  ASSUME IInv, NEW j \in Jobs, EditedByHand(j)
  PROVE  IInv'
<1>1. TypeOK' /\ JobsAreSound'
  BY OutboxAssumption DEF EditedByHand, IInv, TypeOK, JobsAreSound
<1>2. edits' # 0
  BY DEF EditedByHand, IInv, TypeOK
<1>3. DocInv'
  BY <1>2 DEF EditedByHand, IInv, DocInv, SeenIsThere, ReadWithoutRecord, RequestsWithoutRecord,
              ConfirmedIsThere
<1> QED
  BY <1>1, <1>3 DEF IInv

\* What a document shows when it is read.
LEMMA Shown ==
  ASSUME IInv, NEW r \in Refs
  PROVE  /\ ContainerOf(r) \in Container
         /\ \A s \in Subjects : ContainerOf(r)[s] = doc[<<s, r>>]
BY DEF IInv, TypeOK, Jobs, ContainerOf, Container

LEMMA ReadKeeps ==
  ASSUME IInv, NEW w \in Writers, Read(w)
  PROVE  IInv'
<1> DEFINE seen == ContainerOf(writer[w].ref)
           phase == IF Reconcile(writer[w].job, seen) = "already_written"
                    THEN "readback" ELSE "read"
           new  == [writer[w] EXCEPT !.saw = seen, !.phase = phase]
<1>1. writer' = [writer EXCEPT ![w] = new] /\ UNCHANGED <<target, jobs, doc, inflight, bounds>>
  BY DEF Read
<1>2. seen \in Container /\ \A s \in Subjects : seen[s] = doc[<<s, writer[w].ref>>]
  BY WriterAt, Shown
<1>3. phase \in {"read", "readback"} /\ (phase = "read" => seen[writer[w].job[1]] # "good")
  BY DEF Reconcile
<1> HIDE DEF seen, phase
<1>4. /\ new \in Writer /\ new.phase = phase /\ new.saw = seen /\ new.ref = writer[w].ref
      /\ new.job = writer[w].job
  BY <1>2, <1>3, WriterAt DEF Writer, Phases
<1> HIDE DEF new
<1>5. writer' \in [Writers -> Writer] /\ DocInv'
  BY <1>1, <1>2, <1>3, <1>4, WriterMoves DEF bounds
<1> QED
  BY <1>1, <1>5 DEF IInv, TypeOK, JobsAreSound, bounds

LEMMA IssueKeeps ==
  ASSUME IInv, NEW w \in Writers, Issue(w)
  PROVE  IInv'
<1> DEFINE q   == [job |-> writer[w].job, base |-> writer[w].saw]
           new == [writer[w] EXCEPT !.phase = "waiting"]
<1>1. /\ writer' = [writer EXCEPT ![w] = new] /\ inflight' = inflight \cup {q}
      /\ writer[w].phase = "read" /\ UNCHANGED <<target, jobs, doc, bounds>>
  BY DEF Issue
<1>2. /\ new \in Writer /\ new.phase = "waiting" /\ new.saw = writer[w].saw
      /\ new.ref = writer[w].ref
  BY WriterAt DEF Writer, Phases
<1>3. q \in Request /\ q.base[q.job[1]] # "good"
  BY <1>1, WriterAt DEF Request, IInv, DocInv, ReadWithoutRecord
<1> HIDE DEF new, q
<1>4. TypeOK' /\ JobsAreSound'
  BY <1>1, <1>2, <1>3 DEF IInv, TypeOK, JobsAreSound, bounds
<1>5. writer'[w] = new /\ \A v \in Writers : v # w => writer'[v] = writer[v]
  BY <1>1 DEF IInv, TypeOK
<1>6. SeenIsThere' /\ ReadWithoutRecord'
  BY <1>1, <1>2, <1>5 DEF IInv, DocInv, SeenIsThere, ReadWithoutRecord, bounds
<1>7. RequestsWithoutRecord' /\ ConfirmedIsThere'
  BY <1>1, <1>3 DEF IInv, DocInv, RequestsWithoutRecord, ConfirmedIsThere, bounds
<1> QED
  BY <1>4, <1>6, <1>7 DEF IInv, DocInv

LEMMA LandsKeeps ==
  ASSUME IInv, NEW q \in inflight, Lands(q)
  PROVE  IInv'
<1>1. PICK block \in Blocks : Store(q, block)
  BY DEF Lands, Blocks
<1>2. doc' \in [Jobs -> Blocks]
  <2>1. q.base \in Container
    BY DEF IInv, TypeOK, Request
  <2>2. Replaced(q, block) \in Container
    BY <2>1 DEF Replaced, Container
  <2> QED
    BY <1>1, <2>2, Pairs DEF Store, Container, IInv, TypeOK
<1>3. /\ inflight' \subseteq inflight /\ trouble' \in 0..Trouble
      /\ UNCHANGED <<target, jobs, writer, edits, retries>>
  BY OutboxAssumption DEF Lands, IInv, TypeOK
<1>4. TypeOK' /\ JobsAreSound'
  BY <1>2, <1>3 DEF IInv, TypeOK, JobsAreSound
<1>5. \A j \in Jobs : doc[j] = "good" => doc'[j] = "good"
  BY LandsKeepsRecords
<1>6. \A w \in Writers, s \in Subjects : <<s, writer[w].ref>> \in Jobs
  BY WriterAt DEF Jobs
<1>7. SeenIsThere' /\ ConfirmedIsThere'
  BY <1>3, <1>5, <1>6 DEF IInv, DocInv, SeenIsThere, ConfirmedIsThere
<1>8. ReadWithoutRecord' /\ RequestsWithoutRecord'
  BY <1>3 DEF IInv, DocInv, ReadWithoutRecord, RequestsWithoutRecord
<1> QED
  BY <1>4, <1>7, <1>8 DEF IInv, DocInv

LEMMA RequestGone ==
  ASSUME IInv, NEW q \in inflight, Rejected(q) \/ Lost(q)
  PROVE  IInv'
<1>1. /\ inflight' \subseteq inflight /\ trouble' \in 0..Trouble
      /\ UNCHANGED <<target, jobs, doc, writer, edits, retries>>
  BY OutboxAssumption DEF Rejected, Lost, IInv, TypeOK, bounds
<1>2. TypeOK' /\ JobsAreSound'
  BY <1>1 DEF IInv, TypeOK, JobsAreSound
<1>3. DocInv'
  BY <1>1 DEF IInv, DocInv, SeenIsThere, ReadWithoutRecord, RequestsWithoutRecord,
              ConfirmedIsThere
<1> QED
  BY <1>2, <1>3 DEF IInv

LEMMA ReadBackKeeps ==
  ASSUME IInv, NEW w \in Writers, NEW r \in Refs, ReadBack(w, r)
  PROVE  IInv'
<1> DEFINE new == [writer[w] EXCEPT !.phase = "readback", !.ref = r, !.saw = ContainerOf(r)]
<1>0. (trouble < Trouble /\ trouble' = trouble + 1) \/ trouble' = trouble
  BY DEF ReadBack
<1>1. /\ writer' = [writer EXCEPT ![w] = new] /\ trouble' \in 0..Trouble
      /\ UNCHANGED <<target, jobs, doc, inflight, edits, retries>>
  <2>1. trouble' \in 0..Trouble
    BY <1>0, OutboxAssumption DEF IInv, TypeOK
  <2> QED
    BY <2>1 DEF ReadBack
<1>2. /\ new \in Writer /\ new.phase = "readback" /\ new.saw = ContainerOf(r) /\ new.ref = r
  BY WriterAt, Shown DEF Writer, Phases
<1> HIDE DEF new
<1>3. writer' \in [Writers -> Writer] /\ DocInv'
  BY <1>1, <1>2, Shown, WriterMoves
<1> QED
  BY <1>1, <1>3 DEF IInv, TypeOK, JobsAreSound

\* A writer that goes on with what it saw, to a phase in which it has not yet read or is done.
LEMMA GoesOnKeeps ==
  ASSUME IInv, NEW w \in Writers, NEW phase \in {"readback", "settled", "claimed"},
         NEW ref \in Refs, ref = writer[w].ref \/ phase = "claimed",
         writer[w].phase = "claimed" => phase = "claimed",
         writer' = [writer EXCEPT ![w].phase = phase, ![w].ref = ref],
         trouble' \in 0..Trouble, UNCHANGED <<target, jobs, doc, inflight, edits, retries>>
  PROVE  IInv'
<1> DEFINE new == [writer[w] EXCEPT !.phase = phase, !.ref = ref]
<1>1. writer' = [writer EXCEPT ![w] = new]
  OBVIOUS
<1>2. /\ new \in Writer /\ new.phase = phase /\ new.saw = writer[w].saw /\ new.ref = ref
  BY WriterAt DEF Writer, Phases
<1> HIDE DEF new
<1>3. edits = 0 /\ new.phase # "claimed" =>
        \A s \in Subjects : new.saw[s] = "good" => doc[<<s, new.ref>>] = "good"
  BY <1>2 DEF IInv, DocInv, SeenIsThere
<1>4. writer' \in [Writers -> Writer] /\ DocInv'
  BY <1>1, <1>2, <1>3, WriterMoves
<1> QED
  BY <1>4 DEF IInv, TypeOK, JobsAreSound

LEMMA CompleteKeeps ==
  ASSUME IInv, NEW w \in Writers, Complete(w)
  PROVE  IInv'
<1> DEFINE j    == writer[w].job
           mine == [writer[w] EXCEPT !.phase = "settled"]
           seen == [jobs[j] EXCEPT !.state = "confirmed", !.backoff = FALSE, !.leased = FALSE]
           wait == [jobs[j] EXCEPT !.state = "written", !.leased = FALSE]
<1>1. /\ writer[w].phase = "readback" /\ writer' = [writer EXCEPT ![w] = mine]
      /\ UNCHANGED <<target, doc, inflight, bounds>>
  BY DEF Complete
<1>2. /\ j \in Jobs /\ mine \in Writer /\ mine.phase = "settled" /\ mine.saw = writer[w].saw
      /\ mine.ref = writer[w].ref
  BY WriterAt DEF Writer, Phases
<1>3. \/ UNCHANGED jobs
      \/ /\ jobs' = [jobs EXCEPT ![j] = seen] /\ ShowsRecord(w) /\ j[2] = writer[w].ref
         /\ Fenced(j, w) /\ jobs[j].state # "confirmed"
      \/ /\ jobs' = [jobs EXCEPT ![j] = wait] /\ Fenced(j, w) /\ jobs[j].state # "confirmed"
  BY DEF Complete
<1>4. ShowsRecord(w) /\ j[2] = writer[w].ref /\ edits = 0 => doc[j] = "good"
  BY <1>1, <1>2, Pairs DEF ShowsRecord, IInv, DocInv, SeenIsThere
<1>5. Fenced(j, w) => jobs[j].state # "failed"
  BY <1>2, OutboxAssumption DEF Fenced, IInv, JobsAreSound
<1>6. seen \in Job /\ wait \in Job /\ seen.state = "confirmed" /\ wait.state = "written"
      /\ ~seen.leased /\ ~wait.leased /\ seen.attempts = jobs[j].attempts
      /\ wait.attempts = jobs[j].attempts
  BY <1>2, JobAt DEF Job, JobStates
<1> HIDE DEF j, mine, seen, wait
<1>7. ASSUME NEW new \in {seen, wait}, jobs' = [jobs EXCEPT ![j] = new],
             Fenced(j, w), jobs[j].state # "confirmed"
      PROVE  /\ jobs' \in [Jobs -> Job] /\ JobsAreSound'
             /\ \A k \in Jobs : jobs'[k].attempts <= MaxAttempts + Retries
             /\ jobs'[j] = new /\ \A k \in Jobs : k # j => jobs'[k] = jobs[k]
  BY <1>1, <1>2, <1>5, <1>6, <1>7, JobAt, JobMoves DEF bounds, IInv, JobsAreSound
<1>8. /\ jobs' \in [Jobs -> Job] /\ JobsAreSound'
      /\ \A k \in Jobs : jobs'[k].attempts <= MaxAttempts + Retries
  <2>1. CASE UNCHANGED jobs
    BY <1>1, <2>1 DEF IInv, TypeOK, JobsAreSound, bounds
  <2> QED
    BY <1>3, <1>7, <2>1
<1>9. edits = 0 => \A k \in Jobs : jobs'[k].state = "confirmed" => doc[k] = "good"
  <2>1. CASE UNCHANGED jobs
    BY <2>1 DEF IInv, DocInv, ConfirmedIsThere
  <2>2. CASE jobs' = [jobs EXCEPT ![j] = seen] /\ ShowsRecord(w) /\ j[2] = writer[w].ref
             /\ Fenced(j, w) /\ jobs[j].state # "confirmed"
    BY <1>4, <1>7, <2>2 DEF IInv, DocInv, ConfirmedIsThere
  <2>3. CASE jobs' = [jobs EXCEPT ![j] = wait] /\ Fenced(j, w) /\ jobs[j].state # "confirmed"
    BY <1>6, <1>7, <2>3 DEF IInv, DocInv, ConfirmedIsThere
  <2> QED
    BY <1>3, <2>1, <2>2, <2>3
<1>10. writer' \in [Writers -> Writer] /\ writer'[w] = mine
       /\ \A v \in Writers : v # w => writer'[v] = writer[v]
  BY <1>1, <1>2 DEF IInv, TypeOK
<1>11. SeenIsThere' /\ ReadWithoutRecord'
  BY <1>1, <1>2, <1>10 DEF IInv, DocInv, SeenIsThere, ReadWithoutRecord, bounds
<1>12. RequestsWithoutRecord' /\ ConfirmedIsThere'
  BY <1>1, <1>9 DEF IInv, DocInv, RequestsWithoutRecord, ConfirmedIsThere, bounds
<1>13. TypeOK'
  BY <1>1, <1>8, <1>10 DEF IInv, TypeOK, bounds
<1> QED
  BY <1>8, <1>11, <1>12, <1>13 DEF IInv, DocInv

LEMMA FailKeeps ==
  ASSUME IInv, NEW w \in Writers, Fail(w)
  PROVE  IInv'
<1> DEFINE j    == writer[w].job
           n    == jobs[j].attempts + 1
           mine == [writer[w] EXCEPT !.phase = "settled"]
           new  == [jobs[j] EXCEPT !.state = IF n >= MaxAttempts THEN "failed" ELSE "pending",
                                   !.attempts = n, !.backoff = TRUE, !.leased = FALSE,
                                   !.token = Nobody]
<1>1. /\ writer[w].phase # "claimed" /\ writer' = [writer EXCEPT ![w] = mine]
      /\ jobs' = [jobs EXCEPT ![j] = new] /\ Fenced(j, w)
      /\ UNCHANGED <<target, doc, inflight, bounds>>
  BY DEF Fail
<1>2. /\ j \in Jobs /\ mine \in Writer /\ mine.phase = "settled" /\ mine.saw = writer[w].saw
      /\ mine.ref = writer[w].ref
  BY WriterAt DEF Writer, Phases
<1>3. jobs[j].attempts \in Nat /\ jobs[j].attempts < MaxAttempts + retries
  BY <1>1, <1>2, JobAt, OutboxAssumption DEF Fenced, IInv, JobsAreSound
<1>4. /\ new \in Job /\ ~new.leased /\ new.token = Nobody /\ new.attempts = n
      /\ new.state = IF n >= MaxAttempts THEN "failed" ELSE "pending"
  <2> DEFINE st == IF n >= MaxAttempts THEN "failed" ELSE "pending"
  <2>1. n \in Nat /\ jobs[j] \in Job
    BY <1>2, <1>3, JobAt
  <2>2. st \in {"failed", "pending"}
    OBVIOUS
  <2>3. new = [jobs[j] EXCEPT !.state = st, !.attempts = n, !.backoff = TRUE, !.leased = FALSE,
                              !.token = Nobody]
    OBVIOUS
  <2> HIDE DEF n, st, new
  <2>4. new \in Job /\ ~new.leased /\ new.token = Nobody /\ new.attempts = n /\ new.state = st
    BY <2>1, <2>2, <2>3 DEF Job, JobStates
  <2> QED
    BY <2>4 DEF st
<1>5. /\ n <= MaxAttempts + retries /\ (new.state # "failed" => n < MaxAttempts + retries)
      /\ new.state \in {"failed", "pending"} /\ n \in Nat
  BY <1>2, <1>3, <1>4, JobAt
<1> HIDE DEF j, n, mine, new
<1>6. /\ jobs' \in [Jobs -> Job] /\ JobsAreSound'
      /\ \A k \in Jobs : jobs'[k].attempts <= MaxAttempts + Retries
      /\ jobs'[j] = new /\ \A k \in Jobs : k # j => jobs'[k] = jobs[k]
  BY <1>1, <1>2, <1>4, <1>5, JobAt, JobMoves DEF bounds
<1>7. edits = 0 /\ mine.phase # "claimed" =>
        \A s \in Subjects : mine.saw[s] = "good" => doc[<<s, mine.ref>>] = "good"
  BY <1>1, <1>2 DEF IInv, DocInv, SeenIsThere
<1>8. writer' \in [Writers -> Writer] /\ DocInv'
  BY <1>1, <1>2, <1>5, <1>6, <1>7, WriterMoves DEF bounds
<1> QED
  BY <1>1, <1>6, <1>8 DEF IInv, TypeOK, bounds

\* A writer leaves, or dies.
LEMMA IdleAgainKeeps ==
  ASSUME IInv, NEW w \in Writers, writer' = [writer EXCEPT ![w] = Idle],
         trouble' \in 0..Trouble, UNCHANGED <<target, jobs, doc, inflight, edits, retries>>
  PROVE  IInv'
<1>1. \A s \in Subjects : NoRead[s] # "good"
  BY DEF NoRead
<1>2. writer' \in [Writers -> Writer] /\ DocInv'
  BY <1>1, Resting, WriterMoves
<1> QED
  BY <1>2 DEF IInv, TypeOK, JobsAreSound

LEMMA SettledMovesKeeps ==
  ASSUME IInv, NEW w \in Writers, LooksAgain(w) \/ RepeatsCall(w) \/ Leaves(w) \/ Crash(w)
  PROVE  IInv'
<1>1. trouble' \in 0..Trouble /\ UNCHANGED <<target, jobs, doc, inflight, edits, retries>>
  BY OutboxAssumption DEF LooksAgain, RepeatsCall, Leaves, Crash, IInv, TypeOK, bounds
<1>2. CASE LooksAgain(w)
  <2>1. writer[w].job[2] \in Refs
    BY WriterAt, Pairs
  <2> QED
    BY <1>1, <1>2, <2>1, GoesOnKeeps DEF LooksAgain
<1>3. CASE RepeatsCall(w)
  <2>1. writer' = [writer EXCEPT ![w].phase = "readback", ![w].ref = writer[w].ref]
    <3>1. writer[w] \in Writer /\ writer \in [Writers -> Writer]
      BY DEF IInv, TypeOK
    <3>2. [writer[w] EXCEPT !.phase = "readback"]
            = [writer[w] EXCEPT !.phase = "readback", !.ref = writer[w].ref]
      BY <3>1 DEF Writer
    <3> QED
      BY <1>3, <3>1, <3>2 DEF RepeatsCall
  <2> QED
    BY <1>1, <1>3, <2>1, WriterAt, GoesOnKeeps DEF RepeatsCall
<1>4. CASE Leaves(w) \/ Crash(w)
  BY <1>1, <1>4, IdleAgainKeeps DEF Leaves, Crash
<1> QED
  BY <1>2, <1>3, <1>4

LEMMA StutterKeeps == ASSUME IInv, UNCHANGED vars PROVE IInv'
BY DocFrame DEF IInv, TypeOK, JobsAreSound, vars, bounds

LEMMA NextKeeps == IInv /\ [Next]_vars => IInv'
<1> SUFFICES ASSUME IInv, [Next]_vars PROVE IInv'
  OBVIOUS
<1>1. CASE UNCHANGED vars
  BY <1>1, StutterKeeps
<1>2. ASSUME NEW r \in Refs, SetTarget(r) PROVE IInv'
  BY <1>2, SetTargetKeeps
<1>3. ASSUME NEW v \in Verdicts, EnqueueVerdict(v) PROVE IInv'
  BY <1>3, EnqueueKeeps DEF EnqueueVerdict, Subjects
<1>4. CASE SyncProgress
  BY <1>4, EnqueueKeeps DEF SyncProgress, Subjects
<1>5. ASSUME NEW j \in Jobs, LeaseExpires(j) \/ BackoffEnds(j) \/ Retry(j) \/ EditedByHand(j)
      PROVE  IInv'
  BY <1>5, LeaseExpiresKeeps, BackoffEndsKeeps, RetryKeeps, EditedByHandKeeps
<1>6. ASSUME NEW w \in Writers, WriterSteps(w) PROVE IInv'
  BY <1>6, ClaimKeeps, ReadKeeps, IssueKeeps, CompleteKeeps, FailKeeps, SettledMovesKeeps,
     ReadBackKeeps
     DEF WriterSteps
<1>7. ASSUME NEW w \in Writers, LooksAgain(w) \/ RepeatsCall(w) \/ Crash(w) PROVE IInv'
  BY <1>7, SettledMovesKeeps
<1>8. ASSUME NEW q \in inflight, Lands(q) \/ Rejected(q) \/ Lost(q) PROVE IInv'
  BY <1>8, LandsKeeps, RequestGone
<1> QED
  BY <1>1, <1>2, <1>3, <1>4, <1>5, <1>6, <1>7, <1>8 DEF Next

\* What a writer has seen of the record it owes is still in the document, until somebody edits that
\* by hand (the packet's protocol, complete).
THEOREM Inductive == Spec => []IInv
BY InitInvariant, NextKeeps, PTL DEF Spec

\* Jobs, documents, replacements and writers are of their types; the attempts made on a job are
\* bounded by MAX_ATTEMPTS and the operator's retries.
THEOREM TypeCorrect == Spec => []TypeOK
<1>1. IInv => TypeOK
  BY DEF IInv
<1> QED
  BY <1>1, Inductive, PTL

-----------------------------------------------------------------------------
(* What a step may do to a job                                               *)

LEMMA StepsOnJobs ==
  ASSUME IInv, [Next]_vars, NEW j \in Jobs, jobs'[j] # jobs[j]
  PROVE  \/ \E w \in Writers : Complete(w) /\ writer[w].job = j /\ Fenced(j, w)
                               /\ jobs[j].state # "confirmed"
         \/ \E w \in Writers : Fail(w) /\ writer[w].job = j /\ Fenced(j, w)
                               /\ jobs[j].state # "confirmed"
         \/ \E w \in Writers : Claim(w, j)
         \/ LeaseExpires(j) \/ BackoffEnds(j) \/ Retry(j)
         \/ jobs[j].state = "absent"
<1> USE DEF bounds
<1>1. jobs \in [Jobs -> Job]
  BY DEF IInv, TypeOK
<1>2. ASSUME NEW w \in Writers, NEW k \in Jobs, Claim(w, k) PROVE k = j
  BY <1>1, <1>2 DEF Claim
<1>3. ASSUME NEW k \in Jobs, LeaseExpires(k) \/ BackoffEnds(k) \/ Retry(k) PROVE k = j
  BY <1>1, <1>3 DEF LeaseExpires, BackoffEnds, Retry
<1>4. ASSUME NEW s \in Subjects, EnqueueIn(s) PROVE jobs[j].state = "absent"
  BY <1>1, <1>4 DEF EnqueueIn
<1>5. ASSUME NEW w \in Writers, Complete(w)
      PROVE  writer[w].job = j /\ Fenced(j, w) /\ jobs[j].state # "confirmed"
  BY <1>1, <1>5, WriterAt DEF Complete
<1>6. ASSUME NEW w \in Writers, Fail(w)
      PROVE  writer[w].job = j /\ Fenced(j, w) /\ jobs[j].state # "confirmed"
  BY <1>1, <1>6, WriterAt DEF Fail, MayFail
<1>7. ASSUME NEW k \in Jobs, EditedByHand(k) PROVE FALSE
  BY <1>7 DEF EditedByHand
<1>8. ASSUME NEW w \in Writers,
             \/ Read(w) \/ Issue(w) \/ Leaves(w) \/ (\E r \in Refs : ReadBack(w, r))
             \/ LooksAgain(w) \/ RepeatsCall(w) \/ Crash(w)
      PROVE  FALSE
  BY <1>8 DEF Read, Issue, Leaves, ReadBack, LooksAgain, RepeatsCall, Crash
<1>9. ASSUME NEW q \in inflight, Lands(q) \/ Rejected(q) \/ Lost(q) PROVE FALSE
  BY <1>9 DEF Lands, Rejected, Lost
<1>10. ASSUME NEW r \in Refs, SetTarget(r) PROVE FALSE
  BY <1>10 DEF SetTarget
<1>11. ASSUME SyncProgress \/ \E v \in Verdicts : EnqueueVerdict(v)
       PROVE  jobs[j].state = "absent"
  BY <1>4, <1>11 DEF SyncProgress, EnqueueVerdict, Subjects
<1>12. ~UNCHANGED vars
  BY DEF vars
<1> QED
  BY <1>2, <1>3, <1>5, <1>6, <1>7, <1>8, <1>9, <1>10, <1>11, <1>12 DEF Next, WriterSteps

LEMMA ConfirmedStep ==
  ASSUME IInv, [Next]_vars, NEW j \in Jobs, jobs[j].state = "confirmed"
  PROVE  jobs'[j].state = "confirmed"
<1>1. CASE LeaseExpires(j) \/ BackoffEnds(j)
  BY <1>1 DEF LeaseExpires, BackoffEnds, IInv, TypeOK, Job
<1>2. ~Retry(j) /\ \A w \in Writers : ~Claim(w, j)
  BY DEF Retry, Claim, CanClaim
<1> QED
  BY <1>1, <1>2, StepsOnJobs

LEMMA LeaseStep ==
  ASSUME IInv, [Next]_vars, NEW j \in Jobs, jobs[j].leased, jobs'[j] # jobs[j]
  PROVE  \/ jobs'[j] = [jobs[j] EXCEPT !.leased = FALSE]
         \/ Complete(jobs[j].token) \/ Fail(jobs[j].token)
         \/ retries' # retries
<1>1. jobs[j].state # "absent" /\ ~jobs[j].backoff
  BY DEF IInv, JobsAreSound
<1>2. ~BackoffEnds(j) /\ \A w \in Writers : ~Claim(w, j)
  BY <1>1 DEF BackoffEnds, Claim, CanClaim
<1>3. LeaseExpires(j) => jobs'[j] = [jobs[j] EXCEPT !.leased = FALSE]
  BY DEF LeaseExpires, IInv, TypeOK
<1>4. Retry(j) => retries' # retries
  BY DEF Retry, IInv, TypeOK
<1> QED
  BY <1>1, <1>2, <1>3, <1>4, StepsOnJobs DEF Fenced

\* A confirmed summary is in its document for as long as nobody edits that by hand, stays
\* confirmed, and is brought there only by the claimant of its job (claim, complete, fail, retry).
THEOREM ConfirmationsStand == Spec => ConfirmedStays
<1>1. IInv => ConfirmedIsThere
  BY DEF IInv, DocInv
<1>2. IInv /\ [Next]_vars =>
        [\A j \in Jobs : jobs[j].state = "confirmed" => jobs'[j].state = "confirmed"]_vars
  BY ConfirmedStep
<1>3. IInv /\ [Next]_vars =>
        [\A j \in Jobs : jobs[j].leased /\ jobs'[j] # jobs[j] =>
           \/ jobs'[j] = [jobs[j] EXCEPT !.leased = FALSE]
           \/ Complete(jobs[j].token) \/ Fail(jobs[j].token)
           \/ retries' # retries]_vars
  BY LeaseStep
<1> QED
  BY <1>1, <1>2, <1>3, Inductive, PTL
     DEF Spec, ConfirmedStays, ConfirmedForGood, LeaseIsHeld
=============================================================================
