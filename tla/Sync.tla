-------------------------------- MODULE Sync --------------------------------
(***************************************************************************)
(* The outbox between a recorded decision and its summary in an external   *)
(* coordination document (codex_session_relay/sync.py).  The relay only    *)
(* keeps the queue; a writer - an agent holding an authenticated connector *)
(* - claims a job, reads the document, replaces the relationship's         *)
(* container on condition that it still reads as it did, reads it back     *)
(* and settles the job.  The replacement carries no idempotency key: it    *)
(* may land after the writer stopped waiting for it.                       *)
(*                                                                         *)
(* One relationship.  A job is a subject and the document it is owed to    *)
(* (the sync id digests both), and a document is what it holds for each    *)
(* subject.                                                                *)
(***************************************************************************)
EXTENDS Integers, FiniteSets

CONSTANTS
  Verdicts,     \* decisions the verdict transaction queues a summary of
  Progress,     \* the progress summary of one head revision (sync-progress)
  Refs,         \* documents sync-target may name
  Writers,      \* agents that execute jobs
  Nobody,       \* no token
  MaxAttempts,  \* MAX_ATTEMPTS
  Trouble,      \* model bound on crashes, lost requests, garbled writes and slow writers
  Edits,        \* model bound on edits of the document by hand
  Retries       \* model bound on sync-retry

ASSUME OutboxAssumption ==
  /\ Progress \notin Verdicts /\ Nobody \notin Writers
  /\ Refs # {}
  /\ MaxAttempts \in Nat \ {0}
  /\ Trouble \in Nat /\ Edits \in Nat /\ Retries \in Nat

Subjects == Verdicts \cup {Progress}
Jobs     == Subjects \X Refs

JobStates == {"absent", "pending", "claimed", "written", "confirmed", "failed"}

\* What parse_document says of a job's block: not there, valid and carrying the job's record,
\* valid in shape only, there twice, or unterminated.
Blocks == {"absent", "good", "stale", "duplicate", "malformed"}

VARIABLES
  target,    \* sync_targets.target_ref of the relationship
  jobs,      \* sync_outbox rows: state, token, lease, backoff, attempts
  doc,       \* external: the block of every job in its own document
  inflight,  \* external: container replacements that were issued and not yet decided
  writer,    \* each writer: what it does, its job, the document it last read and what it read
  trouble, edits, retries

vars == <<target, jobs, doc, inflight, writer, trouble, edits, retries>>

bounds == <<trouble, edits, retries>>

Job == [state: JobStates, token: Writers \cup {Nobody}, leased: BOOLEAN, backoff: BOOLEAN,
        attempts: Nat]

NoJob == [state |-> "absent", token |-> Nobody, leased |-> FALSE, backoff |-> FALSE,
          attempts |-> 0]

Container == [Subjects -> Blocks]

ContainerOf(r) == [s \in Subjects |-> doc[<<s, r>>]]

NoRead == [s \in Subjects |-> "absent"]

\* A container replacement: whose block it writes, and the exact text it replaces.
Request == [job: Jobs, base: Container]

Phases == {"idle", "claimed", "read", "waiting", "readback", "settled"}

Writer == [phase: Phases, job: Jobs, ref: Refs, saw: Container]

Idle == [phase |-> "idle", job |-> CHOOSE j \in Jobs : TRUE, ref |-> CHOOSE r \in Refs : TRUE,
         saw |-> NoRead]

TypeOK ==
  /\ target \in Refs \cup {Nobody}
  /\ jobs \in [Jobs -> Job]
  /\ \A j \in Jobs : jobs[j].attempts <= MaxAttempts + Retries
  /\ doc \in [Jobs -> Blocks]
  /\ inflight \in SUBSET Request
  /\ writer \in [Writers -> Writer]
  /\ trouble \in 0..Trouble /\ edits \in 0..Edits /\ retries \in 0..Retries

Init ==
  /\ target = Nobody
  /\ jobs = [j \in Jobs |-> NoJob]
  /\ doc = [j \in Jobs |-> "absent"]
  /\ inflight = {}
  /\ writer = [w \in Writers |-> Idle]
  /\ trouble = 0 /\ edits = 0 /\ retries = 0

-----------------------------------------------------------------------------
(* Enqueueing, inside the transaction of the caller.                         *)

SetTarget(r) ==
  /\ target' = r
  /\ UNCHANGED <<jobs, doc, inflight, writer, bounds>>

\* INSERT OR IGNORE: a job that is already queued keeps its row.
EnqueueIn(s) ==
  jobs' = IF target = Nobody \/ jobs[<<s, target>>].state # "absent" THEN jobs
          ELSE [jobs EXCEPT ![<<s, target>>] = [NoJob EXCEPT !.state = "pending"]]

\* enqueue_verdict_in: the verdict's own transaction, which records one verdict of an event once.
EnqueueVerdict(v) ==
  /\ v \in Verdicts
  /\ \A r \in Refs : jobs[<<v, r>>].state = "absent"
  /\ target # Nobody
  /\ EnqueueIn(v)
  /\ UNCHANGED <<target, doc, inflight, writer, bounds>>

SyncProgress ==
  /\ EnqueueIn(Progress)
  /\ UNCHANGED <<target, doc, inflight, writer, bounds>>

-----------------------------------------------------------------------------
(* The queue.                                                                *)

CanClaimUnclaimed(j) ==   \* mutant: a dead writer's claim is never offered again
  /\ jobs[j].state \in {"pending", "written"}
  /\ ~jobs[j].backoff /\ ~jobs[j].leased

\* next and claim: neither confirmed nor failed, not backing off, no live lease.
CanClaim(j) ==
  /\ jobs[j].state \in {"pending", "claimed", "written"}
  /\ ~jobs[j].backoff /\ ~jobs[j].leased

Claim(w, j) ==
  /\ writer[w].phase = "idle"
  /\ CanClaim(j)
  /\ jobs' = [jobs EXCEPT ![j].state = "claimed", ![j].token = w, ![j].leased = TRUE]
  /\ writer' = [writer EXCEPT ![w] = [Idle EXCEPT !.phase = "claimed", !.job = j, !.ref = j[2]]]
  /\ UNCHANGED <<target, doc, inflight, bounds>>

\* The lease of a writer that is gone runs out, or that of a live one that was slow.
LeaseExpires(j) ==
  /\ jobs[j].leased
  /\ jobs' = [jobs EXCEPT ![j].leased = FALSE]
  /\ LET w == jobs[j].token
         alive == w # Nobody /\ writer[w].phase # "idle" /\ writer[w].job = j
     IN  IF alive THEN trouble < Trouble /\ trouble' = trouble + 1 ELSE trouble' = trouble
  /\ UNCHANGED <<target, doc, inflight, writer, edits, retries>>

BackoffEnds(j) ==
  /\ jobs[j].backoff
  /\ jobs' = [jobs EXCEPT ![j].backoff = FALSE]
  /\ UNCHANGED <<target, doc, inflight, writer, bounds>>

Fenced(j, w) == jobs[j].token = w

-----------------------------------------------------------------------------
(* The writer, as the packet's protocol tells it to work.                    *)

\* reconcile: answered from the document before anything is written.
Reconcile(j, text) == IF text[j[1]] = "good" THEN "already_written" ELSE text[j[1]]

Read(w) ==
  /\ writer[w].phase = "claimed"
  /\ writer' = [writer EXCEPT ![w].saw = ContainerOf(writer[w].ref),
                   ![w].phase = IF Reconcile(writer[w].job, ContainerOf(writer[w].ref))
                                     = "already_written" THEN "readback" ELSE "read"]
  /\ UNCHANGED <<target, jobs, doc, inflight, bounds>>

Issue(w) ==
  /\ writer[w].phase = "read"
  /\ inflight' = inflight \cup {[job |-> writer[w].job, base |-> writer[w].saw]}
  /\ writer' = [writer EXCEPT ![w].phase = "waiting"]
  /\ UNCHANGED <<target, jobs, doc, bounds>>

\* The new text: the owned block replaced whole, every other block kept as it was read.
Replaced(q, block) == [q.base EXCEPT ![q.job[1]] = block]

StillReads(q) == q.base = ContainerOf(q.job[2])

Store(q, block) ==
  doc' = [j \in Jobs |-> IF j[2] = q.job[2] THEN Replaced(q, block)[j[1]] ELSE doc[j]]

\* The connector lands the replacement, now or after its writer stopped waiting.
Lands(q) ==
  /\ StillReads(q)
  /\ inflight' = inflight \ {q}
  /\ \/ Store(q, "good") /\ trouble' = trouble
     \/ \* the connector normalises the text it stores
        /\ trouble < Trouble /\ trouble' = trouble + 1
        /\ \E block \in {"stale", "malformed"} : Store(q, block)
  /\ UNCHANGED <<target, jobs, writer, edits, retries>>

Rejected(q) ==
  /\ ~StillReads(q)
  /\ inflight' = inflight \ {q}
  /\ UNCHANGED <<target, jobs, doc, writer, bounds>>

Lost(q) ==
  /\ trouble < Trouble /\ trouble' = trouble + 1
  /\ inflight' = inflight \ {q}
  /\ UNCHANGED <<target, jobs, doc, writer, edits, retries>>

\* The answer came, or the writer gave up waiting for one; either way it reads the document back.
\* It may read the wrong document, and says which one it read.
ReadBack(w, r) ==
  /\ writer[w].phase = "waiting"
  /\ LET pending == [job |-> writer[w].job, base |-> writer[w].saw] \in inflight
         wrong   == r # writer[w].job[2]
     IN  IF pending \/ wrong THEN trouble < Trouble /\ trouble' = trouble + 1
                             ELSE trouble' = trouble
  /\ writer' = [writer EXCEPT ![w].phase = "readback", ![w].ref = r, ![w].saw = ContainerOf(r)]
  /\ UNCHANGED <<target, jobs, doc, inflight, edits, retries>>

\* complete's reading of the text it was given, and of the document that text is said to be from.
ShowsRecord(w) == writer[w].saw[writer[w].job[1]] = "good"

\* complete: one fenced transaction.  What was confirmed stays so, and a refused readback is
\* recorded under the same fence, keeping the token.
Complete(w) ==
  LET j == writer[w].job IN
  /\ writer[w].phase = "readback"
  /\ writer' = [writer EXCEPT ![w].phase = "settled"]
  /\ jobs' = IF ~Fenced(j, w) \/ jobs[j].state = "confirmed" \/ j[2] # writer[w].ref THEN jobs
             ELSE IF ShowsRecord(w)
                  THEN [jobs EXCEPT ![j].state = "confirmed", ![j].backoff = FALSE,
                                    ![j].leased = FALSE]
                  ELSE [jobs EXCEPT ![j].state = "written", ![j].leased = FALSE]
  /\ UNCHANGED <<target, doc, inflight, bounds>>

MayFailAfterAll(j) == TRUE   \* mutant: fail does not look at what was confirmed

MayFail(j) == jobs[j].state # "confirmed"

\* fail: what the writer reports when the connector refused or it gave up, at any point.
Fail(w) ==
  LET j == writer[w].job
      n == jobs[j].attempts + 1
  IN
  /\ writer[w].phase \in {"read", "waiting", "readback", "settled"}
  /\ writer' = [writer EXCEPT ![w].phase = "settled"]
  /\ Fenced(j, w) /\ MayFail(j)
  /\ jobs' = [jobs EXCEPT ![j] = [@ EXCEPT !.state = IF n >= MaxAttempts THEN "failed"
                                                     ELSE "pending",
                                           !.attempts = n, !.backoff = TRUE, !.leased = FALSE,
                                           !.token = Nobody]]
  /\ UNCHANGED <<target, doc, inflight, bounds>>

\* A settled writer may look again at what it could not confirm, repeat the call it is not sure
\* of, or leave.
LooksAgain(w) ==
  /\ writer[w].phase = "settled"
  /\ Fenced(writer[w].job, w) /\ jobs[writer[w].job].state = "written"
  /\ writer' = [writer EXCEPT ![w].phase = "claimed", ![w].ref = writer[w].job[2]]
  /\ UNCHANGED <<target, jobs, doc, inflight, bounds>>

RepeatsCall(w) ==
  /\ writer[w].phase = "settled"
  /\ trouble < Trouble /\ trouble' = trouble + 1
  /\ writer' = [writer EXCEPT ![w].phase = "readback"]
  /\ UNCHANGED <<target, jobs, doc, inflight, edits, retries>>

Leaves(w) ==
  /\ writer[w].phase = "settled"
  /\ writer' = [writer EXCEPT ![w] = Idle]
  /\ UNCHANGED <<target, jobs, doc, inflight, bounds>>

Crash(w) ==
  /\ writer[w].phase # "idle"
  /\ trouble < Trouble /\ trouble' = trouble + 1
  /\ writer' = [writer EXCEPT ![w] = Idle]
  /\ UNCHANGED <<target, jobs, doc, inflight, edits, retries>>

\* retry, by an operator, of whatever is not confirmed; the attempts already made still count.
Retry(j) ==
  /\ jobs[j].state \notin {"absent", "confirmed"}
  /\ retries < Retries /\ retries' = retries + 1
  /\ jobs' = [jobs EXCEPT ![j] = [@ EXCEPT !.state = "pending", !.backoff = FALSE,
                                           !.leased = FALSE, !.token = Nobody]]
  /\ UNCHANGED <<target, doc, inflight, writer, trouble, edits>>

\* Somebody edits the document by hand.
EditedByHand(j) ==
  /\ edits < Edits /\ edits' = edits + 1
  /\ \E block \in Blocks : doc' = [doc EXCEPT ![j] = block]
  /\ UNCHANGED <<target, jobs, inflight, writer, trouble, retries>>

WriterSteps(w) ==
  \/ \E j \in Jobs : Claim(w, j)
  \/ Read(w) \/ Issue(w) \/ Complete(w) \/ Fail(w) \/ Leaves(w)
  \/ \E r \in Refs : ReadBack(w, r)

Next ==
  \/ \E r \in Refs : SetTarget(r)
  \/ \E v \in Verdicts : EnqueueVerdict(v)
  \/ SyncProgress
  \/ \E j \in Jobs : LeaseExpires(j) \/ BackoffEnds(j) \/ Retry(j) \/ EditedByHand(j)
  \/ \E w \in Writers : WriterSteps(w) \/ LooksAgain(w) \/ RepeatsCall(w) \/ Crash(w)
  \/ \E q \in inflight : Lands(q) \/ Rejected(q) \/ Lost(q)

Spec == Init /\ [][Next]_vars

-----------------------------------------------------------------------------
(* Properties.                                                               *)

(* As long as nobody edits the document by hand, a job that complete confirmed has its record  *)
(* in its document, whatever replacements of other jobs, or abandoned ones of its own, land     *)
(* afterwards.                                                                                  *)
ConfirmedIsThere ==
  edits = 0 => \A j \in Jobs : jobs[j].state = "confirmed" => doc[j] = "good"

(* Confirmation is monotonic: neither the writer that confirmed a job, calling again, nor an    *)
(* older claimant, nor an operator's retry moves it back (complete, fail, retry).               *)
ConfirmedForGood ==
  [][\A j \in Jobs : jobs[j].state = "confirmed" => jobs'[j].state = "confirmed"]_vars

(* A leased job changes by what its holder does, by the end of the lease or by an operator's    *)
(* retry: a writer whose claim was taken over is fenced out of complete and fail.               *)
LeaseIsHeld ==
  [][\A j \in Jobs : jobs[j].leased /\ jobs'[j] # jobs[j] =>
       \/ jobs'[j] = [jobs[j] EXCEPT !.leased = FALSE]
       \/ Complete(jobs[j].token) \/ Fail(jobs[j].token)
       \/ retries' # retries]_vars

(* What was confirmed stays, in the document and in the queue, and only its claimant brings a   *)
(* job there.                                                                                    *)
ConfirmedStays == []ConfirmedIsThere /\ ConfirmedForGood /\ LeaseIsHeld

(* Every queued summary is in the end confirmed in its document or failed where an operator     *)
(* sees it, although writers may die holding a claim and writes may be lost or garbled.         *)
EverySummarySettles ==
  \A j \in Jobs : jobs[j].state = "pending" ~> jobs[j].state \in {"confirmed", "failed"}
=============================================================================
