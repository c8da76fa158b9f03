# A TLA+ model of workflow-skills

This directory specifies the concurrent core of workflow-skills in TLA+: the session relay,
the thread bridge, the completion guard, the daemon's supervisor and the runtime installer. TLC
model-checks the modules on small instances and TLAPS proves the main safety properties for all
instances. The source it describes is under `src/`; paths below are relative to
`src/packages/codex-session-relay/src/codex_session_relay/` unless they start with `src/`.

## 1. The system

workflow-skills lets independent Codex tasks work as parent and child. The child reports a
finished revision; the parent acknowledges it, reviews it and rules on it; a ruling of
"needs changes" opens the next execution generation. The two tasks are separate processes
with separate harnesses. Between them stand the *session relay* (a SQLite store, a command
line used by both tasks and by operators, and a daemon) and the *thread bridge* (the only
program that writes to the Codex App Server). A runtime installer and a plugin put these on
a host.

Every write of the relay is a `BEGIN IMMEDIATE` transaction. What makes it hard is what
happens outside: code that reads first and writes in a later transaction, calls to the host
between two transactions, a transport worker that goes on after its caller gave up, and
any number of command-line processes beside the daemon.

### Parts

| Part | State | Operations | Hard behaviour | Correct when | Module |
|---|---|---|---|---|---|
| delivery (`delivery.py`, `policy.py`) | `deliveries`, `attempts`, `recipient_rate`, `delivery_supersession` | enqueue, attempt (reschedule, defer, withhold, suppress, claim, send, settle) | snapshot before the claim; lost answers; caps and rates; a crash after the claim | an event becomes one turn at most; no attempt is lost; a queued delivery is decided | `Delivery` |
| reconciler (`reconcile.py`) | the same rows | reconcile_attempt (receipt, item scan, write) | stale snapshot; bounded scan; races with the sender and with an operator's reconcile | only evidence moves a delivery, and only its current attempt | `Delivery` |
| host transport (`bridge_adapter.py`), bridge ledger (`src/packages/codex-thread-bridge/.../ledger.py`, `bridge.py`) | operation receipts, one worker per process, a lock per recipient | send_message, _guarded_send | the caller's budget ends first; turn/start is on the wire when the process dies | a receipt says nothing untrue of the host | `Delivery` |
| receipt classification (`transport.py`) | none | classify_operation_receipt | the method prefix misleads; an unfinished receipt looks like a refusal | retry-safe only if nothing was started | `Transport` |
| registry (`registry.py`) | `relationships`, `generations` | register, open_generation, bind_anchor, set_status, resume | two callers between check and write; replacement; resume of an old view | one responsible child per issue; one generation per dispatch request | `Registry` |
| acknowledgement, claim, verdict (`ack.py`), criteria (`criteria.py`) | `acks`, `verification_claims`, `verdicts`, `criteria`, bindings | acknowledge, verify_pending_acks, claim_verification, record_verdict, criteria register | two turns acknowledging; a host read while the row moves; criteria edited under a review | settled stays settled; one reviewer proceeds; a ruling is on the set that was read | `Review` |
| currency (`currency.py`) | none | head_revision, annotate_predecessors_in | revisions in any order, forks, cycles, unknown predecessors | the head is the end of the one declared chain | `Lineage` |
| receipt intake (`receipts.py`, `admission.py`, `cli.py` emit) | `events`, `generation_turns`, `delivery_intent`, `assignment_settlements` | emit (admit, accept, enqueue), resolve_staged, daemon_observation | transactions of their own; staged events; a child turn that ends without a receipt | every accepted completion is queued, owed by an intent or visibly settled | `Intake` |
| daemon (`daemon.py`) | cursors, polled turns | tick: reconcile, deliver, observe, verify acks, bind anchors | bounded passes over listings that change under their cursors | every pass comes round; a failed turn is reported to each of its assignments | observing and requeueing in `Intake`; the turns of reconcile and deliver in `Rotation` |
| sync outbox (`sync.py`) | `sync_targets`, `sync_outbox` | enqueue, next, claim, complete, fail, retry | a write without idempotency key that lands late; expired leases; dead writers | what is confirmed is in the document; every summary is confirmed or failed | `Sync` |
| assignment view (`assignment.py`) | `assignment_marks` | state, mark | a look is two reads; the head, its ruling and the criteria move before the mark | what is marked merged is what was integrated; a re-review the view asks for can be had | `Assignment` |
| intent and adjudication (`intent.py`, `marker.py`) | create-once files, numbered by kind | attempt, bind, conflict, resolve, claim, register | numbers and facts listed before others publish theirs; killed coordinators | a contest nobody decided stays visible | `Identity` |
| completion guard (`guard.py`, `intent.py`, `src/scripts/crw_runtime/completion.py`) | observations, holds | a Stop: adapter, evaluation, reservation, record, release | two copies; an evaluation that outlives its adapter; facts that arrive meanwhile | holds stay within their bounds and on the books; only an omission is held | `Guard` |
| service supervisor (`service.py`) | locks of a directory and of a socket, record, intent, stop request | start, supervise, spawn, stop, restart, enable, disable | two launches; orphans; records that outlive their process, pid and boot | one server per directory and socket; stop tells the truth and ends nobody else's process | `Service` |
| thread bridge's tools (`src/packages/codex-thread-bridge/.../bridge.py`, `ledger.py`, `effects.py`, `rpc.py`, `worktrees.py`) | ledger, effects begun | create, create in a worktree, send, steer, pause | a retry of an effect that happened; lost answers, cancellations, kills | an effect happens once per request; a receipt is true | `Bridge` |
| runtime installer (`src/scripts/runtime_install.py`, `src/scripts/crw_runtime/`) | environments with claims and locks, host record, link | install; register-mcp; hook | a kill between two writes; decisions on readings gone stale; a dead run's lock file that two waiters take over; two owners of one registration | a runtime a host reaches is whole; a registration has one owner | `Locked`, `Installer`, `Registration` |
| store, schema (`store.py`) | SQLite file | migrations, transactions | – | – | assumed: a transaction is a step |
| scope, settings, restoration, manifest, report | none | pure decisions and rendering | – | – | not modelled |
| hook comparison, plugin, CI | files | comparison, probing, validation | – | – | not modelled, but for who owns a hook (`Registration`) |

### How they interact

A child's `emit` stores an event and enqueues a delivery. The daemon's sender claims the
delivery and hands it to the host transport, whose worker writes the bridge ledger and
talks to the App Server. The reconciler reads ledger and host for attempts whose outcome
nobody recorded. The parent's turn, woken by the message, acknowledges (which closes the
delivery), claims the review, reads the criteria and rules. A ruling queues a summary in
the sync outbox in its own transaction, and for needs_changes opens a generation, in the
same transaction, annotating the deliveries it leaves behind. The registry's status and
generation guard every one of these steps.

Before any of this a coordinator records whom it gave the assignment to, and the child claims
it: the intent files. When the child's turn ends, the Stop hook's adapter asks the guard, which
reads these files and the store, whether the turn may end. The parent creates and wakes tasks
through the thread bridge's tools. The supervisor keeps one daemon per directory and socket, and
the installer puts all of it on a host and registers the bridge and the hook.

## 2. The modules

Each row of a table is a variable indexed by the row's key; a column that no property tells
apart is left out. A transaction is one action. What the code reads before its transaction
is kept in a variable of the process that read it (`view[p]` in Delivery, `caller[c]` in
Registry, `acking`, `pending`, `checked` in Review, `writer[w]` in Sync) and may be stale when
it is used.

* **Transport** is `classify_operation_receipt`: a receipt has the five features the code
  looks at, and `Classify` is its table.
* **Lineage** is `head_revision` over a graph of declarations, with a reference definition
  (`IsChainEnd`): one chain, written down newest first.
* **Delivery** is delivery, reconciler and host transport. A sender goes through
  `looked, clear, unsuppressed, calling, waiting, returned`, which are the points of
  `DeliveryService.attempt` between two transactions or host calls. A reconciler goes
  through `opened, scanning, writing`. A request is a pair of event and attempt number, as
  `derive_request_id` makes it, and has a ledger row (`op`), perhaps a turn on the host
  (`turns`) and perhaps a live worker (`worker`). `Crash` ends a process and its worker
  between any two steps; store, ledger and host keep what they have.
* **Handoff** is what delivery promises and nothing of how: given once, reported only if
  given, never withdrawn after it was given, closed once. `Delivery!Promise` is the
  refinement mapping.
* **DeliveryProofs**, **InstallerProofs**, **IntakeProofs**, **RegistryProofs**, **ReviewProofs**,
  **ServiceProofs** and **SyncProofs** hold the theorems about the modules they are named after;
  ReviewProofs has those of Assignment, DeliveryProofs the refinement of Handoff, SessionsProofs
  the theorems about Bridge and Guard, RegistryProofs also those of Identity and Registration.
* **Registry** is the registry of one issue: relationships of a parent and a child, their
  status, supersession, generations and anchors.
* **Review** is one assignment from stored revision to ruling: acknowledgements with and
  without a host, claims and the criteria set they bind, rulings, generations. The daemon's
  `verify_pending_acks` is a process of two steps around its host read.
* **Intake** goes from the end of a child's turn to a queued delivery. An emit command is
  a process whose phases are the points between its host read and its transactions
  (`read`, `checked`, `stored`); the daemon's observing pass goes through `selected,
  observed, asserting, settling, refused`, the points of `_observe`, `_synthesize` and
  `_settle_turn` between which another process, or a crash, may come. An event has a stage and
  the turn it was first stored with; a settlement is a pair of assignment and turn.
* **Sync** is the outbox with its writers, which follow the protocol printed in the packet,
  and the external document, which may take a replacement late, lose it or garble it.
* **Assignment** extends Review by the derived state of an assignment and the mark of a merge.
  `looking` is what a look has read so far; `EndLook` is its second half.
* **Rotation** is a pass of the daemon: listings of parents and of a parent's rows, a persisted
  cursor for each, a budget dealt one row of each parent in turn. It says what Delivery's fairness
  leaves unsaid: how a pass over more rows than its budget comes round.
* **Tables** asks the pure decisions of Transport and Lineage every question there is, and
  compares them with the published table and a reference definition.
* **Identity** is the intent ledger of one assignment. A coordinator's command lists what is on
  record, chooses a number and publishes, in separate steps between which the others publish; the
  state is derived anew at every look, as in `derive_assignment_state`.
* **Guard** is a Stop: a turn ends, each registered copy of the adapter starts an evaluation,
  which selects the assignment, reads what the child declared, counts the holds, reserves one and
  records it. The adapter may end it, and an adapter that is killed leaves it behind.
* **Service** is the supervisor and the commands beside it: two locks which workers inherit, a
  record that names a pid, a launch and a boot, and files for what is wanted and asked.
* **Bridge** runs the plan of effects of each mutating tool behind the ledger's reservation. An
  effect handed to the host happens, is refused, or is decided after its caller is gone; what was
  begun is in the memory of a process and dies with it, and the checkpoints do not.
* **Locked** is the lock file of `hostrecord.Locked`, as operators on a record: who made the file,
  who is within, and whether two ever were (`met`). A killed process leaves its file, a waiter that
  reads that it is old (`OutOfDate`) unlinks in a later step whatever has the name by then
  (`Cleared`), and whoever leaves unlinks it too (`Left`).
* **Installer** is `install`: the lock of a directory's name (Locked), the flock and the claim in it,
  the build, selection in the host record and the link that makes it reachable, with the decision
  table of `staging.decide`, the flock of promotion, kills and failing steps. `Take`, `Notice`,
  `Break` and `Busy` are the ways through `Locked.__enter__`. A directory has the run that made it
  (`by`, for its inode) and may hold half a claim (`litter`). Two runs that met in the lock of a name
  go on as the code has it: they take over, make, remove and write under each other, and a removal
  that began with one inode may end at another (`Tear`, `Emptied`, `Gone`).
  **Registration** is `register-mcp`, under such a lock (`Acquire`, `FindOld`, `Unlink`, `GiveUp`),
  and `hook`, under none: who owns a registration.
* The **MC modules** give the constants values and choose a *scenario* in the initial state, each
  of which keeps to a part of the actions; one run covers the scenarios side by side, and between
  them every action is taken. MCProcesses has Delivery and Rotation; MCRegistry has Registry,
  Tables and Identity; MCReview has Review with Assignment; MCSessions has Bridge and Guard;
  MCHost has Installer and Registration. Modules side by side share no state, unless one
  extends the other.

External to `src/`, and modelled from its use: the App Server (may start a turn that was
written to it, at any later time or never), git, the operating system's locks, pids and kills,
and the connector and document of Sync.

### Abstractions

Refusals that change nothing are mostly no step. Times are booleans: a backoff or lease that
has not ended, sends within the interval, sends within the hour. Delivery: one recipient, so
that every event competes for one lock and one rate row; whatever a host snapshot says is a
nondeterministic choice. Registry: one issue; scope conflicts refuse before they write; the
method `supersede` has no caller in the package. Review: findings, restoration blocks and
evidence are inputs whose refusal is no step; a turn that began within the clock's second of
the delivery counts as after it, as in the code; a reviewer reads the criteria when it
claims. Intake: failed and interrupted are one status; a claim's bytes and scope are
checked or refused before anything is written; the host never forgets a turn, and an
unreadable one is a turn nothing is learnt of. Sync: one relationship, whose container already exists in the document.

Rotation: a tick is one step; one refused or put off delivery ends its parent's turn of the tick,
as in the code. Assignment: cancelled, archived and superseded assignments and the listing by
issue are left out. Identity: claims are published under their own path; a resolution names a
pair; the 64 tries at a number and malformed records are left out. Guard: hold mode only, since
observe never holds; one relationship for all assignments; a malformed record counts as
unreadable; a claim names a declared assignment; the disposition and the receipt are read in the
step that selects; attempts, resolutions and contests are Identity's; the journal is left out.
Service: a probe of a lock is one step; boot ids are known; no `--deadline` or
`--max-segments`. Bridge: the resolution of settings is an input that may refuse. Installer: the
two components are selected together and are one; an unreadable reading is a refusal and left
out; the swap gate and what of the classification does not look at link
or selection may refuse at will. Registration: only runs that apply; every command carries the
bridge's own name.

Locked: no process stays inside for `STALE_LOCK_SECONDS` (300), so that a file gets old only after
its maker died. The comment at `src/scripts/crw_runtime/hostrecord.py:318-324` says promotions did,
and have a flock since; what is left under such a file is decided within seconds, except on a stalled
machine. Two of these locks are modelled, those under which a run decides: of a directory's name and
of the bridge's ownership. Those around a single file (host record, claim, Codex configuration, hook
settings, bridge record) are not: their read-modify-write is one step, so that what two writers in
one of them do to each other after a kill there (one update is lost), and a writer that gives up
after ten seconds where the code does not foresee it, are left out.

## 3. The runs

| Run | Question | Bounds |
|---|---|---|
| delivery_daemon | One daemon, one crash, pauses, generations, revisions: does it implement Handoff, keep every unresolved send findable and every stale outstanding delivery annotated, settle what is in flight, and decide what is queued? | one event, two attempts (cap 1, busy cap 2), one send an hour |
| delivery_processes | What survives when a command sends or reconciles beside the daemon, or two events share a recipient's lock? Does a pass over more than its budget look at every row before long? | two senders; two events of one attempt each; an operator reconciling by hand, one crash; three parents of two rows, a budget of two, one row that arrives and one that is put off |
| delivery_twice (violation) | Is it still exactly once, whoever runs? | two senders and a reconciler, three attempts |
| rotation (violation) | Is a row ever stepped over? | one parent, five deliveries, every other one withheld for three ticks at a time, two put forward per tick: the policy's own numbers |
| registry | Two callers register, replace, pause, resume; open, bind and resume generations beside verdict and reconciler. Do the pure decisions give the published answers? Is a contest over an assignment ever lost? | two children, three status changes; one relationship, three generations, two requests, two turns; 500 receipts; every graph of declarations over four revisions, dangling ones included; two coordinators, two tasks, two sessions, two facts of each kind and four in all |
| registry_replace (violation) | One responsible child under two parents? | two parents, two children, one caller |
| review | Acknowledgements, claims, rulings and corrections under two turns, two reviewers, moving criteria; looks and marks beside them; can a review always be finished and a pending acknowledgement always be completed? | two revisions, three generations, three edits, two pauses, one host failure |
| intake | Claims from running, ended and foreign turns; a shared turn; pauses between observation and settlement; a crash: is what was accepted queued or owed, and every failure told? | two assignments and one turn; one assignment, two turns, two generations; one claim emitted twice; two pauses, one crash |
| sync_outbox | Late, lost and garbled writes, dead writers, hand edits, a moved target | two writers, two subjects, three pieces of trouble, one edit, one retry |
| service | Who serves, what stop may signal and what it may say, and does what was disabled come to rest? | two runs and two commands of one installation; another installation's supervisor or daemon in the directory; another directory on the socket; a reboot; two workers, two asks, one crash |
| host | Three installs of one version, two of two versions, two destinations, an operator who moves a link; three registrations of the bridge or the hook: is what the host reaches whole, and a registration its owner's? | two kills, two faults, two of both together; one link moved; one edit by hand and one loss |
| sessions | One request id at two servers, one destination wanted twice, an alias of the socket; a child that leaves something out four times, two copies of the hook, two sessions and two assignments in any order | three attempts, two deaths; four turns, a window of two ticks, two misses |

The bounds are the smallest in which each hazard occurs. A second attempt is needed to send
twice and a third to see a settlement of the first land on the second; both caps are met
below the attempt bound; one send an hour makes the rate limit bite at once; two callers are
what a read and a write can be separated by; three edits of two criteria sets bring back the
first wording; three installs are what a decision, a change and a second change take, and a
killed run and two waiters at its lock file; four turns exceed
the holds of a window and of an assignment; three pieces of trouble are a lost write, an expired lease and a repeated call
in one history. Every counter bound is a named constant and a guard of its action.
Deadlock is not checked where the system may rest: nothing queued, bounds used up. It is
checked in sync_outbox, whose outbox is never at rest while a target may be set.

Scenario restrictions are the operators `Deployed`, `Situated`, `Asked`, `AskedOfIdentity`,
`Concerned`, `Met` and `Restricted` of the MC modules. They restrict which inputs arrive, never what the code does with one.

### Properties

Each is stated with its meaning next to its definition. In short:

* Delivery. `OneTurnUnlessOvertaken`; `HandedOffOnce` (refinement); `SendsAreSound` (a
  dispatch has its turn, a retry-safe answer is true, an attempt is opened only over dead ones,
  the hour's cap is kept); `DispatchNotDraggedBackUnlessOvertaken`; `NothingIsForgotten` (an
  unresolved send is findable, a stale outstanding delivery is annotated); `InFlightSettles`,
  `QueuedIsDecided`.
* Rotation. `NoRowWaitsLong`.
* Tables. `DecisionsAgree`.
* Registry. `OwnersAreRightful` (one child per issue unless revived; reactivated only as
  restated), `GenerationsAreRightful` (one generation per request; an anchor moves only under a
  bind).
* Identity. `NoContestIsLost`.
* Review and Assignment. `AcksStand` (a settled acknowledgement is kept, confirmed of the turn it
  names, accepted only while current), `RulingsStand` (one reviewer, on what it read, replaced only
  by a re-review, its correction anchored), `MergedIsWhatWasIntegrated`, `ReReviewCanProceed`,
  `ReviewFinishes`, `PendingAckSettles`.
* Intake. `ReadyEndedNormally`, `FinalIsQueuedOrOwed`, `FailuresAreReported` (accounted for at
  every moment, and told in the end), `ClaimsSettle`.
* Sync. `ConfirmedStays` (confirmed is in the document, for good, under a lease that is held),
  `EverySummarySettles`.
* Service. `ServesAlone`, `OrphanIsReachable`, `SignalsOnlyItsOwn`, `StoppedIsTrue`,
  `DisabledComesToRest`.
* Bridge. `EffectHappensOnce`, `ReceiptsHold`.
* Guard. `HoldsAreBounded`, `HoldsAreAccountedFor`, `JudgedWhereItClaimed`,
  `OnlyOmissionsAreHeld`.
* Installer and Registration. `BuildIsItsOwn`, `ReachedIsWhole`, `LeftAsFound`,
  `RepairIsPossible`, `RegistrationsAgree`.

The `Unless` in a name is a weakening the code forces: the unweakened property is violated,
and a history variable records exactly the step that breaks it, so that the rest is still shown to
hold. So do some properties without it in the name:

* `overtaken` (Delivery), `revived` (Registry) and `reauthored` (Review);
* `unqueued` (Intake): a claim whose emit command ended before it queued, and a report passed over
  by a settlement under a later generation. `FinalIsQueuedOrOwed` is about every other final event;
* `reclaimed` (Installer): an environment a run took away though it was in use. `ReachedIsWhole` and
  `RepairIsPossible` exempt it;
* `met` (Locked): two were let into a lock file. `BuildIsItsOwn`, `ReachedIsWhole` and
  `RepairIsPossible` exempt the directories whose name's lock it is (`Crossed`), and `OneBridge` no
  longer asks of a run what only that lock can give. What the promotion's flock, the inode and the
  files themselves protect is still asked (`LeftAsFound`, the other parts of `RegistrationsAgree`).

Each exemption is a disagreement of section 5, as is `Unsigned`, a state `NoPermanentRefusal` leaves
out. What the code says there is written down beside the properties, and in no run since the code
does not keep it: `LocksExclude`, `ReclaimedWasUnused` (Installer), `StoredReportIsFound` (Intake).
As an invariant of Host.cfg or Intake.cfg, TLC finds each violated.

### Fairness

* Delivery (one daemon): the clock runs; a started step of a process is finished (weak
  fairness); the transport deadline ends every send; the daemon looks at every delivery and
  every unresolved attempt again and again, because its passes keep persisted rotating
  cursors (strong fairness on `Look` and `OpenUnresolved`); and a recipient that can take a
  message again and again is found so once. The cursors justify this for the one event of
  the run, and for several as far as `NoRowWaitsLong` goes; that they do not when deliveries
  keep being put off is the finding of run rotation. Nothing is assumed of operators, of the host's
  answers, or of a crash not happening.
* Review: the daemon's acknowledgement pass comes round, a reviewer claims a review it may
  claim, and rules on what it has read. That a reviewer goes on is an assumption about
  tasks; the code has no timeout for a claim (see the hazards in PROJECT.json).
* Intake: the daemon finishes what it began, its rotating cursors bring every turn worth
  reading and every due intent round (strong fairness on `Select` and `Requeue`), and a turn
  that has ended and can be read again and again is read once (strong fairness on
  `Observe`). Nothing is assumed of emit commands or of the child's turns.
* Sync: writers keep claiming and finish or leave, the clock that ends leases and backoffs
  goes on, and the connector decides what it was given.
* Service: the supervisors and workers run (one weak fairness over all their steps); nothing is
  assumed of commands.
* Rotation: the daemon ticks.

## 4. The proofs

`DeliveryProofs` proves, for any events, senders, reconcilers, operators, caps and bounds:
`TypeCorrect`, `Inductive`, `OneTurn`, `DispatchedHasItsTurn`, `RetrySafeReceipts`,
`RetrySafeAnswers`, `RetryOverDead`, `NotDraggedBack`, and `SendsSound`, which puts the parts of
`SendsAreSound` together. The only assumption is
`PolicyAssumption` of Delivery: there is an event, nobody is not a process, and the limits are
naturals (positive caps, busy cap not below the attempt cap) as `policy.py` demands.

None of these properties is inductive. The invariant is `IInv`, and the idea that carries
it is `Dead`: a request is dead when it has no turn, no worker, nothing on the wire and no
sender about to submit it. Four facts make the induction go through:

1. a dead request stays dead (`Retires`, `ReadsOn`, and the `...Core` lemmas, one for
   each kind of process);
2. a ledger row that is retry safe belongs to a dead request (`LedgerTruthful`,
   `RetrySafeRow`), so whoever carries it carries the truth however late it uses it
   (`ReadingsTrue`);
3. every write that makes a delivery claimable again carries such a reading
   (`VerdictTrue`, `SettleRows`, `WriteRows`), or finds the row claimable already;
4. hence every attempt behind the last is dead (`DeadBehind`), and two turns of an event
   would be two live attempts.

Step 3 fails for exactly one write, the settlement of a sender whose attempt another process
already settled or retried. `overtaken` names these events. The proof is laid out action by
action: `CoreStep` for ledger, host and processes, then `RowMoves` with one lemma for each
kind of write to the deliveries table.

It also proves that Delivery implements Handoff. `PromiseKept`: while nothing is overtaken,
every step of any senders, reconcilers, operators and workers is a step of Handoff or a stutter, and
an initial state is one of Handoff. `NoneOvertaken`: with `OneDaemon` (the only sender is the only
reconciler, and no operator) nothing is ever overtaken, since between its claim and its settlement
the attempt stays in flight and last (`StillItsOwn`). Together: `OneDaemonKeepsThePromise`. To `IInv`
the proof adds `Mapped`: what was withdrawn, left in the inbox or closed without a turn is `Quiet`,
all its attempts dead, so that no turn/start on the wire can still give it; a turn is named by
dispatched deliveries alone; and the row of an attempt in flight says so. A step is then mapped by
the one turn its event has, that of the last attempt (`OneIsGiven`): the host's start of it is `Hand`
(`HostHands`), a settlement or reconciliation that names it is `Report` (`OutcomeReports`).
`NothingForgotten` and `OneDaemonForgetsNothing` prove `NothingIsForgotten` under the same
conditions; the invariant is `InSight`, and `LeftBehind`: a reconciler that settles an attempt without
moving its delivery looked at one that was superseded by another or whose delivery had moved on.

`IntakeProofs` proves, for any assignments, turns, revisions and emit commands: `TypeCorrect`,
`OnlyNormalEndingsAreReady`, `NothingIsLost` (`FinalIsQueuedOrOwed`) and `FailuresAccounted`
(`FailureIsAccountedFor`, the safe half of `FailuresAreReported`). It assumes
`IntakeAssumption`: there is an assignment and a turn, `None` is none of the data, turns and
revisions differ, the bounds are naturals. Three invariants carry it, all checked by TLC on the
run's states before they were proved.

1. `IInv`: whoever acts on the ending of a turn has it from the host (`EmitterHeard`,
   `DaemonHeard`), an ended turn stays as it ended, and a report of the daemon is never
   staged, so no settlement takes it back.
2. `OwedInv`: a report is of a failed turn admitted to the generation it names
   (`ReportsTrue`), and a daemon about to settle a failed turn holds the one report of
   it that is current (`DaemonReports`). A settlement queues or records that one, and passes
   over those of earlier generations, which it counts as `unqueued` (`PassedOver`,
   `ResolvedOwes`); every other step leaves the turn worth polling (`QuietStep`). So the theorem
   says that a report of the current generation is never lost, and not that every report is found.
3. `ToldInv`: a turn is known to an assignment in a generation by its anchor or an admission,
   never ahead of the current generation (`NothingAhead`), and an anchor is fresh when it is
   bound (`AnchorsFresh`). A failed turn that the daemon settles without a current report was
   therefore known to an earlier generation (`DaemonKnows`, `SettlesWithReport`): it is not the
   anchor in force, and no claim of it is new.

`RegistryProofs` proves, for any parents, children, callers, requests and turns: `Inductive`,
`GenerationsStand` and, where one parent registers, `OwnersStand`. `RegistryAssumption` says there is
a relationship and that `None` and `Pending` are none of the data. `IInv` adds to the types what a
caller holds between its read and its transaction, and that nothing precedes a registration;
that is enough for `GenerationsAreRightful`, since the request is looked up again in
the transaction. With it `OneChildUnlessRevived` is inductive: `register` looks at one rival, and
if that is in `revived`, so is, after the step, what replaces it; else it was the only owner outside
`revived`. `OneParentRegisters` is
necessary: with two parents an issue may have two owners of one child, `register` fetches one of
them, and a third child becomes the second owner (the finding of registry_replace).

It proves the same of Identity, for any tasks, sessions, coordinators and crashes: `ContestsAreKept`
(`NoContestIsLost`). What a published resolution covers was listed by its author, who decided for
the identity it names (`ResolutionsReviewed`), and nothing published is replaced. And of
Registration, for any runs, tables, commands and settings: `HostRegistrationsAgree`
(`RegistrationsAgree`), under `RegistrationAssumption`, by which `Unset` is none of the data. What a
register-mcp run knows is tied to the ownership lock (`Knows`): it is within, alone unless two met
(`OneWithin`), and then, until an operator edits the file, the configuration is what the run read, so
that a table is appended to none. That a user's record is of a table needs no lock: a run records the
table it found or wrote, and no run changes one. The hook runs
have no lock; a run of the plugin that found no registration may rely on it until there are
settings, and a run that registers has settings that are never written over (`Relies`). Whoever
registered second has yet to read back, said so, or was killed (`Noticed`).

`SyncProofs` proves, for any subjects, documents and writers: `TypeCorrect` and
`ConfirmationsStand` (`ConfirmedStays`). A confirmed job's record could be taken away by a
replacement of another job, or an abandoned one of its own, that lands later. `DocInv` says why
not: every replacement under way was issued by a writer that did not see its own record
(`RequestsWithoutRecord`) and lands on the text it was made from or not at all, so that what a
writer saw stays there (`SeenIsThere`) until it reports it, unless the document is edited by hand.
Confirming is fenced, and `JobsAreSound` gives the bound on attempts.

`ServiceProofs` proves, for any directories, supervisors, commands, crashes and boots:
`TypeCorrect`, `Alone`, `OrphansAreReachable`, `SignalsAreOwn` and `StopsAreTrue`. A supervisor
holds the lock of its directory and then that of the socket, and a worker inherits both
(`LockIsHeld`, `ScopeIsHeld`); a supervisor writes the record only under the first lock, hence
past its publication the record is its own (`RecordIsOwn`), and a worker that outlives it is still named there. A
command that goes on has in hand a record of its own installation and of this boot, and while that
launch's record stands it stays of this boot (`Sound`): signals and answers follow from this.

`ReviewProofs` proves, for any revisions, turns, reviewers and criteria sets: `TypeCorrect`,
`AcksStandForGood` (`AcksStand`) and `RulingsStandForGood` (`RulingsStand`). `ReviewAssumption` says
that `None` and `Unread` are none of the data and no ruling, and that the bounds are naturals. Two
invariants carry them. `AckInv`: what a caller or the daemon read of the host before its transaction
is still so inside it (`CallersHaveRead`, `DaemonHasRead`), for a turn that began after a delivery
has for good; the daemon's reading is of the turn the row names, unless the acknowledgement was
written again meanwhile, which is the exception the property names. `RuleInv`: the set a review
is bound to is the one its holder read, and whoever was told to proceed under the set in force is
that holder (`HolderIsBound`), so that there is one (`OneHolder`), and a ruling by the only reader
is on the set it read: the bound set, checked by `Covered`, or a set it named.
About Assignment it proves `ViewOnlyLooks` (every behaviour of the view beside the review is one of
the review), `MergeIsItsOwn` (`MergedIsWhatWasIntegrated`) and `ReReviewIsOpen`
(`ReReviewCanProceed`), from `MarkInv`: a revision marked was integrated, until a set of criteria
is registered no ruling names one (`NothingNamed`), and the head is a revision (`HeadIsRevision`).

`SessionsProofs` proves about Bridge, for any servers, request ids, uses, destinations, attempts
and crashes: `BridgeTypes`, `EffectOnce` (`EffectHappensOnce`) and `ReceiptsHoldForGood` (`ReceiptsHold`).
`BridgeAssumption` types the uses, `ReceiptAssumption` says that `None` is no receipt. The
invariant is `BInv`. A request whose row is in progress is run by one server at most (`OneWorker`),
which noted what it began before it began it: whatever has happened or is on its way is in its
`begun` (`BegunIsHeld`), and of the step it is at only while it waits for it. A step is therefore
handed over once in an attempt, and an attempt is repeated only over a row that says
not_attempted, of which nothing was begun (`RowTrue`). The rest ties the receipt in hand to what
happened (`AnswerIsHeld`, `ReceiptIsHeld`), the row to the receipt in hand (`RowIsHeld`), and a
receipt about to be annotated to the row (`NotesTrue`). `WriteKeeps` is the step common to every
action that saves, `Calm` what the others leave alone. A row of the alias counts from the first
server on (`Imported`), for no server is up before it was copied.

`SessionsProofs` proves about Guard, for any assignments, sessions, turns, copies of the hook,
window and clock, and however often a process dies or a file cannot be read or written:
`GuardTypes`, `Bounded`
(`HoldsAreBounded`), `AccountedFor` (`HoldsAreAccountedFor`), `JudgedThere` (`JudgedWhereItClaimed`)
and `OnlyOmissions` (`OnlyOmissionsAreHeld`). `GuardAssumption` says that there is a turn and that
the window is a natural. In the invariant, what a child left out stays left out while its host
waits for an answer (`Owes`, `OfItsTurn`), since only the session's own turn declares and the state
it was judged in is read from the very assignment it claimed (`NewestThere`, `Omitted`). Each hold
was made by one evaluation in one turn of the session and is recorded by it (`Held`, `Accounted`).
The bound follows from two facts: an evaluation that goes on to reserve counted the blocks of
earlier turns, and there was room for one more (`Spent`); and the hold of a turn is reserved once,
so that a turn is blocked once (`OnceATurn`) and a block finds no other of its turn. With those of
the earlier turns it is within the bound (`FewEnough`). `ClaimedAlone` is what `JudgedThere` adds.
A block on the screen has its
hold (`BlocksPrinted`).

`InstallerProofs` proves, for any runs, environments and destinations, and however often runs are
killed, steps fail and links are moved by hand: `TypeCorrect`, `BuildsAreOwn` (`BuildIsItsOwn`),
`RolledBack` (`LeftAsFound`), `ReachesWhole` (`ReachedIsWhole`) and `Repairable`
(`RepairIsPossible`). `InstallerAssumption` gives an environment its destination and says that
`None` is none of the data. Five invariants are built on each other, and each is inductive.

`BuildInv` carries the builds. A run between its look at a name and its claim is within the lock of
that name (`LocksHeld`), within no other and not past that (`InsideOnly`), and alone in it until two
met (`OneWithin`). Nothing keeps them from meeting: the invariant says of a name what holds while they
have not (`Apart`), and once they have it is silent about that name, and still speaks of the others.
The directory of a run that builds is its own, as far as it got (`OwnDirs`); that of one that
has only made it is empty of a build (`NewDirs`); a removal after a failure goes through the inode the
run made (`OwnVictims`); and no run that takes over, reclaims, makes, begins or finishes is at the
name of one that builds (`Alone`): before it made up its mind it was within the lock, alone, and found
a builder alive.

`BackInv` carries the way back: the
promotion lock is held from judgement to release (`OnePromotes`), and how far the promotion of its
holder, or the way back, has come says what selection, entry and link are (`Stands`, `Restored`). Each
action has a lemma that says what it writes (`JudgeIs`, ...); a run that is not the promoter writes
nothing a promoter looks at (`OnlyThePromoter`).

`ReachInv` adds, for every environment neither in `reclaimed` nor `Crossed` (`Spared`), what is reached
(`Reaches`).
What counts (`Counts`) is selected, linked to, or what the promoter would put back: a link it found
(`Recalls`), a selection
(`Restores`); what is put back is reached without being built again. What counts is whole
(`CountsWhole`) and nobody takes it away (`NoneTakes`). The other parts say why no step makes this
false. `InPast`: what is linked to, or may be again, is in `promoted`, so that a removal of it is in
`reclaimed`. `ChosenOnes` and `Unlinked`: whoever promotes has selected its runtime, and what it
built has no link before its own. `LinkedAtPath`: the links to what a failed run built are at its
path, where `release_candidate` looks. Nothing comes to count but
what was just built (`CountsGrow`), and what counts changes only in who holds it (`CountedStays`,
from `DirGoesIs`, the ways a step may change a directory).

`SealInv` adds, while one step failed at most and no link is moved by hand (`Quiet`), that a claim
may be believed: what is selected and sealed, its claim being complete or about to be, is linked to
(`SealedIsReached`). A promotion takes the selection off a sealed runtime and may put it back, so
whoever promotes remembers the link the way back leads to (`Remembers`); every link is one a run
placed (`OnlyRuns`), who takes a directory over found it empty (`AdoptsEmpty`), what was built is
claimed (`FilledIsClaimed`), and what was placed or completed
is in `promoted` (`PlacedIsPast`, `CompleteIsPast`). Hence `NoPermanentRefusal`: a runtime that was
never promoted is neither complete nor linked to, and what was built of it is claimed, so that
`decide` neither keeps it nor takes it for another's.

`RepairInv` adds what the next run needs to finish a promotion that was cut short: what counts is
installed (`Noted`), and the destination it derives may be written. An entry without evidence is
about a path with no link (`EntryIsTrue`), as is one gone back to (`FoundIsTrue`). While there is no
entry, nothing but a runtime from before there were claims is selected (`NoEntryYet`), and nobody
takes that away (`OldIsLeft`). A run that read its own runtime as the selected one has the path of
the entry (`PathsStand`), unless that runtime has been passed over (`Passed`). Hence
`InterruptedIsRepairable`: a selected runtime that no link reaches is whole and not sealed, its
claim lets a run in, and that run may finish it.

Only model-checked: the liveness properties (fairness and ENABLED are outside the prover's
reach); of Rotation, `NoRowWaitsLong`, whose bound is one of the
instance; and of Tables `DecisionsAgree`: receipts are finitely many, and that a head is the end of
the one chain is an induction over graphs, which the provers at hand cannot do. TLC asks it of all
graphs of four revisions. No module declares a RECURSIVE operator.

## 5. Where code and documents disagree

Three disagreements are runs that expect a violation, each with its finding in PROJECT.json.

* **delivery_twice**: `_settle` (`delivery.py:921`) writes without asking whether the attempt
  is still its own. One daemon never gets there; a second process can.
* **registry_replace**: `register` (`registry.py:135`) fetches one rival of possibly several.
* **rotation**: the cursor over a parent's deliveries counts rows of a listing that deliveries
  leave when they are put off and come back to (`daemon.py:772`). With five deliveries, of which
  the first, third and fifth are withheld for a minute whenever they are tried, and a tick every
  twenty seconds, the daemon tries these three in turn and never the second and fourth, although
  both are eligible all the time. The comment above the line says no row is ever stepped over.

Others were met while modelling and are noted here without a run.

* `transport.py:116` classifies settings refusals after a resume as retry safe; the table in
  protocol-v1.md (lines 92-104) has no such row. `AsPublishedButSettings` excepts them.
* `delivery.py:837-839` promises that a stale observation never drags a dispatched row back;
  `_settle` (`delivery.py:922`) can, for an overtaken attempt.
* `invariants.md:56` (I-37): a by-hand reconcile rewrites a settled attempt row
  (`reconcile.py:273`).
* `invariants.md:106` (I-62): the minimum interval is looked up in the current hour's row and is
  lost when the hour turns (`delivery.py:819`).
* The identity of a progress summary ignores the state it reports (`cli.py:602`), against
  `sync.py:379`.
* `set_status` (`registry.py:453-457`) pauses a released assignment, which then owns its issue
  again; compare `registry.py:392`.
* The daemon's `bind_pending_anchors` (`ack.py:874-876`) reads a pending anchor and may overwrite one
  bound meanwhile, through `registry.py:312`. `GenerationsAreRightful` bounds this.
* A final event whose emit command ends between accepting and enqueueing has neither a
  delivery nor an intent (`cli.py:402`); only the child's retry queues it.
  `FinalIsQueuedOrOwed` excepts these too (`unqueued`).
* A claim suppressed with its failed turn and emitted again from a later turn is a duplicate of
  the suppressed one and stays suppressed (`receipts.py:482-498`).
* A claim for the new generation, made from a failed turn of the earlier one between the
  daemon's refusal to report that turn and its settlement, is suppressed without a report
  (`daemon.py:463-468`; `NewIn` in `FailuresAreReported`).
* A settlement refused at the queue records an intent for an event another process may have queued
  (`daemon.py:544`), and `enqueue_in` deletes none: such a row is never removed, which is what the
  comment at `delivery.py:137-141` set out to prevent.
* A pending acknowledgement authored again while its turn is read is settled on the reading
  of the old turn (`ack.py:819`, `invariants.md:82`).
* Re-claiming does not end the first reviewer's standing (`ack.py:118`), and its ruling on the
  old wording is recorded against the new set; `criteria.py:251-254` says it cannot be.
* A look of the assignment view is two reads (`assignment.py:64-78`). When the criteria go
  away and come back and a needs_changes ruling falls in between, it may report a revision as
  verified that was already sent back; `mark` refuses it in its own transaction.
* A stop writes its request after it decided who owns the daemon (`service.py:857`); a launch that
  cleared requests earlier finds it and ends, though stop reports that it "was left untouched
  and is still running" (`service.py:891-894`).
* `start` may answer that a launch is up which already died, when a command or another run holds
  the lock meanwhile (`service.py:1111-1140`).
* `ScopeRegistry.claim` reads the registration before it takes the lock (`service.py:165-176`), so
  a launch may overwrite another store's registration without a takeover.
* The installer loads the record once, before the directory's lock, and reads the claim before
  liveness (`src/scripts/runtime_install.py:2395`); a removal decided so may take an environment just
  promoted, which the docstring of `staging.decide` (lines 273-280) rules out. `ReachedIsWhole`
  exempts just these (`reclaimed`). One kind needs four runs: while a promotion that failed goes back
  (`_restore_selection`), the record still selects what it promoted, and another run may reclaim the
  runtime that is about to be put back; killed amid this, it leaves a selection of half a runtime,
  and the next run finishes that promotion without asking whether it is whole
  (`_finish_promotion`, lines 2987-2992: "it is built, it is selected"). The same happens to a
  runtime killed between its link and its claim's completion once another version is promoted, and
  when the write that completes the claim fails beside a run that selected and has not yet linked.
* `_finish_promotion` uses a path derived before its lock (line 2987): with four runs it may take the
  ownership entry to another path than the one the selected runtime is linked at, and a kill there
  leaves the entry without a link. `InterruptedIsRepairable` asks for repair only where no link
  reaches the selected runtime; whether the entry names the link it does not ask.
* `Locked` (`src/scripts/crw_runtime/hostrecord.py:271`) says that "two runs of these commands cannot interleave their own
  read-modify-write", and so do `src/scripts/runtime_install.py:2445-2452` of directories and
  `src/scripts/runtime_install.py:4089-4096` of the bridge's owner. Its file is taken over by name: a waiter reads
  its age (line 299) and unlinks it in a later step (line 303). After a kill two waiters may both find
  it old; the second then unlinks the file the first has just made, and both are within, as may be a
  third, for whoever leaves unlinks the file of whoever is within by then (line 314). Two installs of
  the same sources may then remove what the other builds or has promoted, and a user's registration
  and the plugin's may both be made, without any edit by hand. The flock of promotion, which replaced
  such a file (lines 318-324), still keeps two promotions apart. `LocksExclude` is what the code says,
  `Crossed` and `met` exempt what follows from its failing.
* `_synthesize` (`daemon.py:485-487`) stores its report of a failed turn before the settlement:
  "If queuing it then fails, _requeue_missing finds it, which is why storing it separately does not
  lose it." `_requeue_missing` reads `delivery_intent` alone. If the daemon dies between the two and a
  generation is opened before it is back, the turn is no longer one of the current generation,
  `_check_turn_identity` refuses a report of it, and the turn is settled without the stored one, which
  is then neither queued nor owed for good. `StoredReportIsFound` is what the comment says;
  `FinalIsQueuedOrOwed` excepts such a report through `unqueued`.
* A run killed inside `write_claim`, of its first claim (`src/scripts/crw_runtime/staging.py:155-162`),
  may leave the claim's lock
  file or a temporary file in the directory, and no claim. `directory_occupied` counts both as
  somebody's work, so that every later run answers FOREIGN. The docstring of `clear_own`
  (`staging.py:368-377`) calls such a leftover, which "blocked the deterministic destination for ever",
  "the failure this whole path exists to remove". `Unsigned` names the state.
* A kill amid the removal of an environment may lose its claim before its contents; the directory is
  then nobody's for ever (`staging.py`, FOREIGN).
* `protected_environment` looks at the link of the given destination, not at the recorded one.
* A coordinator may register between a guard's readings: the child is held as unregistered though
  by then it is registered.
* Registration is refused for a stale generation (`intent.py:818-829`), but a generation opened
  later lets the older assignment's guard accept receipts of the live one.
* `marker.py` promises a reader amid a race a valid earlier state; `read_assignment` reads the bind
  before the claims, so it may see a mix. The consequence is a release, never a hold.
* A coordinator that loses the bind and is killed before it records its conflict leaves a contest
  nobody sees (`intent.py:733-787`).

## 6. Not modelled, and why

Rendering and reading of documents (report, manifest, packet layout), argument parsing and
output, SQLite schema and migrations, JSON-RPC framing, git and session files are
input and output without a protocol of their own. Pure decisions whose outcome is an input here
(scope overlap, settings, restoration blocks, lifecycle of a host snapshot, comparison of hook
definitions) could join Tables. The cursors of the daemon's observing and discovery passes are
not modelled. The lock files around a single file (host record, claim, configuration, settings,
bridge record) are not either: see Abstractions. The plugin's own files and continuous integration
are probing and checking.

Two hazards have no property. A connector that garbles every write keeps a job between written
and offered for ever without a count (`sync.py:726`): the model bounds the garbled writes, and the
code promises nothing. A reviewer that claims and ends without ruling holds its claim for ever
(`ack.py:107`): no claim expires, and `ReviewFinishes` assumes that reviewers go on.

## 7. Plan

1. Further tables: backoff, lifecycle of a recipient, scope overlap, hook comparison.
2. The lock files around the host record and the bridge record, as Locked has them, with the
   read-modify-write under them in two steps.
3. The rotation of the observing pass, whose share of one alternates (`daemon.py`, _alternate).
4. A bound for `NoRowWaitsLong` that holds for any number of rows, and the induction over chains of
   receipts that `DecisionsAgree` needs, should a prover for it be at hand.

Composition: Delivery instantiates Transport (by EXTENDS) and Handoff; Review instantiates
Lineage and Assignment extends Review; Installer and Registration extend Locked; Tables checks
Transport and Lineage on their own. Registry's
`VerdictOpens` and Review's `OpenGeneration` are the two ends of one call, as are Delivery's
`AdvanceGeneration`, `SetStatus` and `Acknowledge`, Delivery's `Enqueue` and Intake's queueing, and
Guard's facts and Identity's: each module lets the other's step happen at any time it may.
