------------------------------- MODULE Bridge -------------------------------
(***************************************************************************)
(* The thread bridge's own tools (codex_thread_bridge: bridge.py,          *)
(* ledger.py, effects.py, rpc.py, worktrees.py): create_thread,            *)
(* create_worktree_thread, send_message_to_thread, steer_thread and        *)
(* pause_goal.  Each is a plan of questions and effects that _mutate runs  *)
(* under one lock per process, behind a ledger keyed by the caller's       *)
(* request id which several processes may share.  What was begun is        *)
(* recorded in memory before it is begun, and it is what tells a request   *)
(* that may be tried again from one that may have happened.                *)
(*                                                                         *)
(* The App Server and git are external: an effect that was handed over     *)
(* happens, is refused, or is decided after its caller gave up or died.    *)
(***************************************************************************)
EXTENDS Naturals, Sequences, SequencesExt, FiniteSets

CONSTANTS
  Processes,    \* servers that share one state directory
  Requests,     \* request ids
  Asks,         \* what an id may be used for: a tool and the arguments that matter
  Destinations, \* directories worktrees are asked for
  None,
  Attempts,     \* model bound on the attempts of one request
  Crashes       \* model bound on processes that die

Tools == {"create_thread", "create_worktree_thread", "send_message_to_thread", "steer_thread",
          "pause_goal"}

ASSUME BridgeAssumption ==
  /\ Asks \subseteq [tool: Tools, titled: BOOLEAN, prompted: BOOLEAN, project: BOOLEAN,
                     destination: Destinations]
  /\ None \notin Asks \cup Processes \cup Requests
  /\ Attempts \in Nat /\ Crashes \in Nat

Statuses == {"in_progress_or_unknown", "accepted", "failed", "outcome_unknown", "not_attempted"}

RetryableUnknown == {"not_attempted", "outcome_unknown"}   \* mutant

\* RETRYABLE_STATUSES: the receipts that answer nothing.
Retryable == {"not_attempted"}

Questions == {"validate", "inspect", "project/read", "thread/read", "thread/goal/get"}
HostEffects == {"thread/start", "thread/resume", "thread/name/set", "turn/start", "turn/steer",
                "thread/goal/set"}
LocalEffects == {"worktree/reserve", "worktree/create", "worktree/checkout"}
Effects == HostEffects \cup LocalEffects

\* OBSERVATIONS: Effects.sent files such a method under what was merely observed.
Observed == Questions

\* What each tool does, in order.
CreatePlan   == <<"project/read", "thread/start", "thread/name/set", "turn/start">>
WorktreePlan == <<"validate", "project/read", "worktree/reserve", "worktree/create",
                  "worktree/checkout", "inspect", "thread/start", "thread/name/set", "inspect",
                  "turn/start">>
SendPlan     == <<"thread/read", "thread/resume", "turn/start">>
SteerPlan    == <<"thread/read", "turn/steer">>
PausePlan    == <<"thread/goal/get", "thread/goal/set">>

Plan(a) ==
  CASE a.tool = "create_thread"          -> CreatePlan
    [] a.tool = "create_worktree_thread" -> WorktreePlan
    [] a.tool = "send_message_to_thread" -> SendPlan
    [] a.tool = "steer_thread"           -> SteerPlan
    [] a.tool = "pause_goal"             -> PausePlan

\* Steps that are taken only when asked for.
Asked(a, do) ==
  /\ do = "project/read" => a.project
  /\ do = "thread/name/set" => a.titled
  /\ do = "turn/start" => a.prompted \/ a.tool = "send_message_to_thread"

\* Step j comes after step i: what lies between was not asked for.  The end comes after the last.
Follows(a, i, j) ==
  /\ j \in (i + 1)..(Len(Plan(a)) + 1)
  /\ j <= Len(Plan(a)) => Asked(a, Plan(a)[j])
  /\ \A k \in (i + 1)..(j - 1) : ~Asked(a, Plan(a)[k])

EffectsOf(a) == {e \in ToSet(Plan(a)) \cap Effects : Asked(a, e)}

Worktree(a) == a.tool = "create_worktree_thread"

\* The answers whose content can fail the caller's contract: settings other than requested, a turn
\* steered that was not the guarded one, a goal that moved under the pause.
Judged == {"thread/start", "thread/resume", "turn/steer", "thread/goal/set"}

VARIABLES
  ledger,   \* operations: one receipt per request id
  legacy,   \* the ledger an alias of the socket left behind
  work,     \* each process: the request it runs under its lock, if it is up
  allowed,  \* each process: what its execution policy lets through
  noting,   \* accepted receipts whose annotation has not been written yet
  wire,     \* effects handed to the host or to git and not yet decided
  happened, \* how often each effect of each request has happened
  tree,     \* the request that made a destination
  crashes

vars == <<ledger, legacy, work, allowed, noting, wire, happened, tree, crashes>>

\* A receipt: what it is for, and what it says.  prompt is initialPrompt.state, recovery is
\* recoveryRequired; thread and turn say whether their ids are in it.
Receipt ==
  [ask: Asks, status: Statuses, begun: SUBSET Effects, attempt: Nat,
   prompt: {"none", "not_sent", "outcome_unknown", "accepted", "rejected"},
   recovery: BOOLEAN, thread: BOOLEAN, turn: BOOLEAN, noted: BOOLEAN]

ASSUME ReceiptAssumption == None \notin Receipt

Fresh(a, n) ==
  [ask |-> a, status |-> "in_progress_or_unknown", begun |-> {}, attempt |-> n,
   prompt |-> "none", recovery |-> FALSE, thread |-> FALSE, turn |-> FALSE, noted |-> FALSE]

\* What a process does: how far it is in its plan, what it has begun, what it was answered.
Running ==
  [req: Requests \cup {None}, at: Nat, phase: {"down", "idle", "ready", "waiting"},
   begun: SUBSET Effects, answer: {"none", "ok", "amiss", "refused"},
   receipt: Receipt \cup {None}]

Resting(phase) ==
  [req |-> None, at |-> 0, phase |-> phase, begun |-> {}, answer |-> "none", receipt |-> None]

Handed == [by: Processes, req: Requests, do: Effects]
Note   == [by: Processes, req: Requests, receipt: Receipt]

TypeOK ==
  /\ ledger \in [Requests -> Receipt \cup {None}]
  /\ legacy \in [Requests -> Receipt \cup {None}]
  /\ work \in [Processes -> Running]
  /\ allowed \in [Processes -> SUBSET Asks]
  /\ noting \subseteq Note
  /\ wire \subseteq Handed
  /\ happened \in [Requests -> [Effects -> Nat]]
  /\ tree \in [Destinations -> Requests \cup {None}]
  /\ crashes \in 0..Crashes

Busy(p) == work[p].phase \in {"ready", "waiting"}
Do(p)   == Plan(work[p].receipt.ask)[work[p].at]
Done(p) == work[p].at > Len(Plan(work[p].receipt.ask))

-----------------------------------------------------------------------------
(* Opening the ledger.                                                       *)

\* import_legacy: rows of the alias are copied, a row both ledgers hold must be the same.
Conflicting(r) == legacy[r] # None /\ ledger[r] # None /\ legacy[r] # ledger[r]

\* open_endpoint_ledger, and the policy the server was started with.
Start(p) ==
  /\ work[p].phase = "down"
  /\ \A r \in Requests : ~Conflicting(r)
  /\ ledger' = [r \in Requests |-> IF legacy[r] # None THEN legacy[r] ELSE ledger[r]]
  /\ work' = [work EXCEPT ![p] = Resting("idle")]
  /\ \E policy \in SUBSET Asks : allowed' = [allowed EXCEPT ![p] = policy]
  /\ UNCHANGED <<legacy, noting, wire, happened, tree, crashes>>

Crash(p) ==
  /\ work[p].phase # "down" /\ crashes < Crashes
  /\ crashes' = crashes + 1
  /\ work' = [work EXCEPT ![p] = Resting("down")]
  /\ noting' = {n \in noting : n.by # p}
  /\ UNCHANGED <<ledger, legacy, allowed, wire, happened, tree>>

-----------------------------------------------------------------------------
(* _mutate: the replay lookup, the authorisation, the row, the plan.         *)

\* Ledger.begin: an id that is new, or whose receipt says that nothing was begun.  A receipt of
\* other arguments refuses, any other receipt is the answer; neither changes anything.
MayBegin(r, a) ==
  ledger[r] # None => ledger[r].ask = a /\ ledger[r].status \in Retryable

\* What checkpoint() writes on reaching a step: the destination may exist from reserving on, and
\* a prompt's outcome is unknown before it goes out.
DemandsFrom == "worktree/reserve"

Reaching(receipt, do) ==
  IF ~Worktree(receipt.ask) THEN receipt
  ELSE [receipt EXCEPT
          !.recovery = IF do = DemandsFrom THEN TRUE ELSE @,
          !.prompt = IF do = "turn/start" THEN "outcome_unknown" ELSE @]

\* What an answer adds.
Learning(receipt, do) ==
  [receipt EXCEPT
     !.thread = @ \/ do = "thread/start",
     !.turn = @ \/ do = "turn/start",
     !.prompt = IF do = "turn/start" /\ Worktree(receipt.ask) THEN "accepted" ELSE @]

\* checkpoint("complete").
Completing(receipt) ==
  IF Worktree(receipt.ask) THEN [receipt EXCEPT !.recovery = FALSE] ELSE receipt

Entering(receipt, at) ==
  IF at > Len(Plan(receipt.ask)) THEN Completing(receipt)
  ELSE Reaching(receipt, Plan(receipt.ask)[at])

First(a, n, at) ==
  Entering([Fresh(a, n) EXCEPT !.prompt =
              IF ~Worktree(a) THEN "none" ELSE IF a.prompted THEN "not_sent" ELSE @], at)

Call(p, r, a) ==
  /\ work[p].phase = "idle"
  /\ a \in allowed[p]
  /\ MayBegin(r, a)
  /\ \E at \in 1..Len(Plan(a)) :
       LET n     == IF ledger[r] = None THEN 1 ELSE ledger[r].attempt + 1
           first == First(a, n, at)
       IN
        /\ n <= Attempts /\ Follows(a, 0, at)
        /\ ledger' = [ledger EXCEPT ![r] = first]
        /\ work' = [work EXCEPT ![p] = [req |-> r, at |-> at, phase |-> "ready", begun |-> {},
                                        answer |-> "none", receipt |-> first]]
  /\ UNCHANGED <<legacy, allowed, noting, wire, happened, tree, crashes>>

\* The next step of the plan is reached.  Only the worktree tool saves after its last answer; the
\* others leave that to the end of the operation.
Saves(receipt, do) == Worktree(receipt.ask) \/ do # "turn/start"

Advance(p, receipt, do) ==
  \E at \in 1..(Len(Plan(receipt.ask)) + 1) :
     LET entered == Entering(receipt, at) IN
     /\ Follows(receipt.ask, work[p].at, at)
     /\ work' = [work EXCEPT ![p] = [@ EXCEPT !.at = at, !.phase = "ready",
                                              !.answer = "none", !.receipt = entered]]
     /\ ledger' = IF Saves(receipt, do) THEN [ledger EXCEPT ![work[p].req] = entered] ELSE ledger

\* settled: the evidence is added, and the action corrects what it wrote down in advance.
Reconciled(receipt) ==
  IF receipt.prompt # "outcome_unknown" THEN receipt
  ELSE IF "turn/start" \notin receipt.begun THEN [receipt EXCEPT !.prompt = "not_sent"]
  ELSE IF receipt.status = "failed" THEN [receipt EXCEPT !.prompt = "rejected"]
  ELSE receipt

End(p, receipt, status) ==
  /\ ledger' = [ledger EXCEPT ![work[p].req] =
                  Reconciled([receipt EXCEPT !.status = status, !.begun = work[p].begun])]
  /\ work' = [work EXCEPT ![p] = Resting("idle")]

\* RpcError or WorktreeError: the host or git said no, or its answer was not what was asked for.
Fail(p, receipt) == End(p, receipt, "failed")

\* Cancelled, disconnected, timed out: interrupted() answers from what was begun.
Interrupted(p) ==
  End(p, work[p].receipt, IF work[p].begun = {} THEN "not_attempted" ELSE "outcome_unknown")

\* A question is asked and answered; its answer may refuse, or end the operation early.
Ask(p) ==
  /\ Busy(p) /\ ~Done(p) /\ Do(p) \in Questions
  /\ \/ /\ Do(p) = "validate" => tree[work[p].receipt.ask.destination] = None
        /\ Advance(p, work[p].receipt, Do(p))
     \/ Fail(p, work[p].receipt)
     \/ /\ Do(p) = "thread/goal/get"
        /\ work' = [work EXCEPT ![p].at = Len(Plan(work[p].receipt.ask)) + 1]
        /\ UNCHANGED ledger
  /\ UNCHANGED <<legacy, allowed, noting, wire, happened, tree, crashes>>

\* mark_sent and mark_local come before the frame is written or the directory is made.
Marked(p) == IF Do(p) \in Observed THEN work[p].begun ELSE work[p].begun \cup {Do(p)}

HandOver(p) ==
  /\ Busy(p) /\ ~Done(p) /\ work[p].phase = "ready" /\ Do(p) \in Effects
  /\ work' = [work EXCEPT ![p].phase = "waiting", ![p].begun = Marked(p)]
  /\ wire' = wire \cup {[by |-> p, req |-> work[p].req, do |-> Do(p)]}
  /\ UNCHANGED <<ledger, legacy, allowed, noting, happened, tree, crashes>>

\* The connection cannot be made, or the caller cancels, with the next step not begun.
Unsent(p) ==
  /\ Busy(p) /\ ~Done(p) /\ work[p].phase = "ready"
  /\ Interrupted(p)
  /\ UNCHANGED <<legacy, allowed, noting, wire, happened, tree, crashes>>

\* The answer does not arrive in time or the connection closes - over another request's oversized
\* frame too.  A git process is killed and waited for, a frame cannot be taken back.
Lost(p) ==
  /\ Busy(p) /\ work[p].phase = "waiting"
  /\ Interrupted(p)
  /\ wire' = IF Do(p) \in LocalEffects
             THEN wire \ {[by |-> p, req |-> work[p].req, do |-> Do(p)]} ELSE wire
  /\ UNCHANGED <<legacy, allowed, noting, happened, tree, crashes>>

Answered(p) ==
  /\ Busy(p) /\ work[p].phase = "waiting" /\ work[p].answer # "none"
  /\ CASE work[p].answer = "ok" -> Advance(p, Learning(work[p].receipt, Do(p)), Do(p))
       [] work[p].answer = "amiss" -> Fail(p, Learning(work[p].receipt, Do(p)))
       [] work[p].answer = "refused" -> Fail(p, work[p].receipt)
  /\ UNCHANGED <<legacy, allowed, noting, wire, happened, tree, crashes>>

\* The turn was dispatched with a contract to report on afterwards (_annotate_dispatch).
Annotates(receipt) ==
  receipt.turn /\ receipt.ask.tool \in {"create_thread", "create_worktree_thread",
                                         "send_message_to_thread"}

UnfinishedInHand(p) == [work[p].receipt EXCEPT !.begun = work[p].begun]   \* mutant

\* What save returned: the receipt as it was accepted.
AcceptedInHand(p) == [work[p].receipt EXCEPT !.status = "accepted", !.begun = work[p].begun]

Accept(p) ==
  /\ Busy(p) /\ Done(p)
  /\ End(p, work[p].receipt, "accepted")
  /\ noting' = IF Annotates(work[p].receipt)
               THEN noting \cup {[by |-> p, req |-> work[p].req, receipt |-> AcceptedInHand(p)]}
               ELSE noting
  /\ UNCHANGED <<legacy, allowed, wire, happened, tree, crashes>>

\* The thread is read again outside the lock, and the receipt in hand is saved with what it says -
\* or is left alone, when the read fails or is cancelled.
Annotate(n) ==
  /\ n \in noting
  /\ noting' = noting \ {n}
  /\ ledger' \in {ledger, [ledger EXCEPT ![n.req] = [n.receipt EXCEPT !.noted = TRUE]]}
  /\ UNCHANGED <<legacy, work, allowed, wire, happened, tree, crashes>>

-----------------------------------------------------------------------------
(* The host and git.                                                         *)

\* Whoever handed h over and is still waiting for it is answered; nobody else is told.
Tell(h, answer) ==
  IF /\ Busy(h.by) /\ work[h.by].req = h.req
     /\ work[h.by].phase = "waiting" /\ Do(h.by) = h.do
  THEN work' = [work EXCEPT ![h.by].answer = answer] ELSE UNCHANGED work

DestinationOf(r) == ledger[r].ask.destination

\* An exclusive mkdir: a destination that exists is not adopted.
CanHappen(h) == h.do = "worktree/reserve" => tree[DestinationOf(h.req)] = None

Happens(h) ==
  /\ h \in wire /\ CanHappen(h)
  /\ wire' = wire \ {h}
  /\ happened' = [happened EXCEPT ![h.req][h.do] = @ + 1]
  /\ tree' = IF h.do = "worktree/reserve" THEN [tree EXCEPT ![DestinationOf(h.req)] = h.req]
             ELSE tree
  /\ \E answer \in {"ok"} \cup (IF h.do \in Judged THEN {"amiss"} ELSE {}) : Tell(h, answer)
  /\ UNCHANGED <<ledger, legacy, allowed, noting, crashes>>

\* The host refuses a call, git fails; mkdir does not refuse, it raises (Lost).
Refused(h) ==
  /\ h \in wire /\ h.do # "worktree/reserve"
  /\ wire' = wire \ {h}
  /\ Tell(h, "refused")
  /\ UNCHANGED <<ledger, legacy, allowed, noting, happened, tree, crashes>>

-----------------------------------------------------------------------------
\* A receipt an earlier bridge may have left under an alias of the socket, of an operation whose
\* answer was lost after everything had happened.
LeftBehind ==
  {f \in [Requests -> {None} \cup {[Fresh(a, 1) EXCEPT !.status = "outcome_unknown"] :
                                     a \in {b \in Asks : ~Worktree(b)}}] :
     Cardinality({r \in Requests : f[r] # None}) <= 1}

Init ==
  /\ ledger = [r \in Requests |-> None]
  /\ legacy \in LeftBehind
  /\ work = [p \in Processes |-> Resting("down")]
  /\ allowed = [p \in Processes |-> {}]
  /\ noting = {} /\ wire = {}
  /\ happened = [r \in Requests |-> [e \in Effects |->
                   IF legacy[r] # None /\ e \in EffectsOf(legacy[r].ask) THEN 1 ELSE 0]]
  /\ tree = [d \in Destinations |-> None]
  /\ crashes = 0

Step(p) ==
  \/ Ask(p) \/ HandOver(p) \/ Unsent(p) \/ Lost(p) \/ Answered(p) \/ Accept(p)

Next ==
  \/ \E p \in Processes : Start(p) \/ Crash(p) \/ Step(p)
  \/ \E p \in Processes, r \in Requests, a \in Asks : Call(p, r, a)
  \/ \E n \in noting : Annotate(n)
  \/ \E h \in wire : Happens(h) \/ Refused(h)

Spec == Init /\ [][Next]_vars

-----------------------------------------------------------------------------
(* Properties.                                                               *)

Pending(r, e) == \E h \in wire : h.req = r /\ h.do = e

Began(r, e) == happened[r][e] > 0 \/ Pending(r, e)

\* The ledger's purpose ("durable request deduplication, including interrupted and partial
\* operations"): however often a request id is repeated - after a lost answer, beside another
\* server on the same ledger, across crashes and under an alias - each of its effects happens
\* once at most, and is not handed over again while it may still happen.
EffectHappensOnce ==
  \A r \in Requests, e \in Effects :
    happened[r][e] + Cardinality({h \in wire : h.req = r /\ h.do = e}) <= 1

\* effects.py and interrupted(): a receipt that says not_attempted, which is what invites another
\* attempt, belongs to a request of which nothing happened and nothing is on its way.
NotAttemptedIsTrue ==
  \A r \in Requests :
    ledger[r] # None /\ ledger[r].status = "not_attempted" => \A e \in Effects : ~Began(r, e)

\* reconcile() of create_worktree_thread: a prompt reported withheld or refused was not and will
\* not be given, one reported accepted was - in a receipt a crash left behind, too.
PromptStateIsTrue ==
  \A r \in Requests : ledger[r] # None =>
    /\ ledger[r].prompt \in {"not_sent", "rejected"} => ~Began(r, "turn/start")
    /\ ledger[r].prompt = "accepted" => happened[r]["turn/start"] = 1

\* The recovery demand of create_worktree_thread: while a directory, a worktree or a thread may
\* exist of an operation that did not complete, its receipt asks for recovery.
RecoveryIsDemanded ==
  \A r \in Requests : ledger[r] # None /\ Worktree(ledger[r].ask) /\ ~ledger[r].recovery =>
    \/ \A e \in Effects : ~Began(r, e)
    \/ \A e \in EffectsOf(ledger[r].ask) : happened[r][e] = 1

ReceiptsTellTheTruth == NotAttemptedIsTrue /\ PromptStateIsTrue /\ RecoveryIsDemanded

\* _mutate and _annotate_dispatch: a thread or turn once recorded stays recorded, and an accepted
\* request stays accepted - whatever is cancelled, repeated or annotated afterwards - with each of
\* its effects done (pausing a paused goal excepted, which has none).
AcceptedForGood ==
  [][\A r \in Requests : ledger[r] # None =>
       /\ ledger'[r] # None
       /\ ledger[r].thread => ledger'[r].thread
       /\ ledger[r].turn => ledger'[r].turn
       /\ ledger[r].status = "accepted" =>
            /\ ledger'[r].status = "accepted"
            /\ ledger[r].ask.tool # "pause_goal" =>
                 \A e \in EffectsOf(ledger[r].ask) : happened[r][e] = 1]_vars

\* What a receipt says is so when it is read, and stays so.
ReceiptsHold == []ReceiptsTellTheTruth /\ AcceptedForGood
=============================================================================
