--------------------------- MODULE SessionsProofs ---------------------------
(***************************************************************************)
(* What reaches into sessions from outside them, for all constants.        *)
(* First the thread bridge: any servers, request ids, uses, destinations,  *)
(* attempts and crashes.  Then the guard of the Stop hook: any             *)
(* assignments, sessions, copies of the hook, turns, window and clock, and *)
(* however often a process dies or a file cannot be read or written.       *)
(***************************************************************************)
EXTENDS Bridge, Guard, TLAPS, FiniteSetTheorems

AllDone(r, a) == \A e \in EffectsOf(a) : happened[r][e] = 1

NothingBegan(r) == \A e \in Effects : ~Began(r, e)

\* What the row of a request says of what happened.
RowTrue(r, row) ==
  /\ row.status = "not_attempted" => ~row.thread /\ ~row.turn /\ NothingBegan(r)
  /\ row.prompt \in {"not_sent", "rejected"} => ~Began(r, "turn/start")
  /\ row.prompt = "accepted" => happened[r]["turn/start"] = 1
  /\ Worktree(row.ask) /\ ~row.recovery => NothingBegan(r) \/ AllDone(r, row.ask)
  /\ row.status = "accepted" /\ row.ask.tool # "pause_goal" => AllDone(r, row.ask)

RowsTrue == \A r \in Requests : ledger[r] # None => RowTrue(r, ledger[r])

\* The alias's ledger: its rows answer, and are there once a server is up.
Imported ==
  \A r \in Requests :
    /\ legacy[r] # None =>
         /\ legacy[r].status = "outcome_unknown" /\ legacy[r].prompt = "none"
         /\ ~Worktree(legacy[r].ask)
         /\ \A p \in Processes : work[p].phase # "down" => ledger[r] # None
    /\ ledger[r] = None =>
         /\ \A h \in wire : h.req # r
         /\ legacy[r] = None => NothingBegan(r)

Once ==
  /\ \A r \in Requests, e \in Effects : happened[r][e] \in {0, 1}
  /\ \A h \in wire : happened[h.req][h.do] = 0
  /\ \A g, h \in wire : g.req = h.req /\ g.do = h.do => g = h

\* What a process holds of the request it runs.
UnderLock(w) ==
  LET a == w.receipt.ask IN
  /\ w.req \in Requests /\ w.receipt \in Receipt /\ w.at \in 1..(Len(Plan(a)) + 1)
  /\ w.receipt.status = "in_progress_or_unknown"

RowIsHeld(w, row) ==
  /\ row # None /\ row.status = "in_progress_or_unknown" /\ row.ask = w.receipt.ask
  /\ row.thread => w.receipt.thread
  /\ row.turn => w.receipt.turn
  /\ Worktree(row.ask) => row = w.receipt
  /\ ~Worktree(row.ask) => row.prompt = "none"

\* It noted what it began, and it began what it reached.
BegunIsHeld(w) ==
  LET plan == Plan(w.receipt.ask) IN
  /\ \A e \in w.begun : \E j \in 1..w.at : /\ j <= Len(plan) /\ plan[j] = e
                                           /\ j = w.at => w.phase = "waiting"
  /\ \A e \in Effects : Began(w.req, e) => e \in w.begun
  /\ w.phase = "waiting" => w.at <= Len(plan) /\ plan[w.at] \in w.begun

\* What it was answered is so, and so is what it went past.
AnswerIsHeld(w) ==
  LET plan == Plan(w.receipt.ask) IN
  /\ w.answer # "none" => w.phase = "waiting"
  /\ w.answer = "amiss" => plan[w.at] \in Judged
  /\ w.answer \in {"ok", "amiss"} => happened[w.req][plan[w.at]] = 1
  /\ w.answer = "refused" => ~Began(w.req, plan[w.at])
  /\ w.receipt.ask.tool # "pause_goal" =>
       \A j \in 1..(w.at - 1) :
         plan[j] \in EffectsOf(w.receipt.ask) => happened[w.req][plan[j]] = 1

ReceiptIsHeld(w) ==
  LET rec == w.receipt
      plan == Plan(rec.ask)
  IN
  /\ rec.thread => "thread/start" \in w.begun
  /\ rec.turn => "turn/start" \in w.begun
  /\ ~Worktree(rec.ask) => rec.prompt = "none"
  /\ rec.prompt # "rejected"
  /\ rec.prompt = "not_sent" => "turn/start" \notin w.begun
  /\ rec.prompt = "outcome_unknown" => w.at <= Len(plan) /\ plan[w.at] = "turn/start"
  /\ rec.prompt = "accepted" => happened[w.req]["turn/start"] = 1
  /\ Worktree(rec.ask) =>
       /\ w.at <= Len(plan) /\ plan[w.at] = "turn/start" => rec.prompt = "outcome_unknown"
       /\ w.at \in 3..Len(plan) => rec.recovery

WorkIsTrue(w) ==
  UnderLock(w) /\ RowIsHeld(w, ledger[w.req]) /\ BegunIsHeld(w) /\ AnswerIsHeld(w) /\ ReceiptIsHeld(w)

WorksTrue == \A p \in Processes : Busy(p) => WorkIsTrue(work[p])

OneWorker ==
  \A p, q \in Processes : Busy(p) /\ Busy(q) /\ work[p].req = work[q].req => p = q

Agree(x, y) ==
  /\ x.ask = y.ask /\ x.status = y.status /\ x.prompt = y.prompt
  /\ x.recovery = y.recovery /\ x.thread = y.thread /\ x.turn = y.turn

\* A receipt about to be annotated is the one on record.
NotesTrue ==
  \A n \in noting :
    /\ ledger[n.req] # None /\ n.receipt.status = "accepted"
    /\ Agree(n.receipt, ledger[n.req])

BInv ==
  TypeOK /\ RowsTrue /\ Imported /\ Once /\ WorksTrue /\ OneWorker /\ NotesTrue

-----------------------------------------------------------------------------
(***************************************************************************)
(* What the plans are like.                                                *)
(***************************************************************************)
LEMMA AskTypes ==
  ASSUME NEW a \in Asks
  PROVE  /\ a.tool \in Tools /\ a.titled \in BOOLEAN /\ a.prompted \in BOOLEAN
         /\ a.project \in BOOLEAN /\ a.destination \in Destinations /\ a # None
BY BridgeAssumption

LEMMA NoneIsApart == None \notin Requests /\ None \notin Processes /\ None \notin Asks
BY BridgeAssumption

\* A tool takes each of its steps once, except for questions it asks again.
LEMMA EveryStepOnce ==
  ASSUME NEW a \in Asks
  PROVE  /\ Len(Plan(a)) \in Nat /\ Len(Plan(a)) >= 2
         /\ \A i \in 1..Len(Plan(a)) : Plan(a)[i] \in Questions \cup Effects
         /\ \A i, j \in 1..Len(Plan(a)) :
              Plan(a)[i] \in Effects /\ Plan(a)[i] = Plan(a)[j] => i = j
<1>1. a.tool \in Tools
  BY AskTypes
<1> USE DEF Questions, Effects, HostEffects, LocalEffects
<1>2. CASE a.tool = "create_thread"
  BY <1>2 DEF Plan, CreatePlan
<1>3. CASE a.tool = "create_worktree_thread"
  BY <1>3 DEF Plan, WorktreePlan
<1>4. CASE a.tool = "send_message_to_thread"
  BY <1>4 DEF Plan, SendPlan
<1>5. CASE a.tool = "steer_thread"
  BY <1>5 DEF Plan, SteerPlan
<1>6. CASE a.tool = "pause_goal"
  BY <1>6 DEF Plan, PausePlan
<1> QED
  BY <1>1, <1>2, <1>3, <1>4, <1>5, <1>6 DEF Tools

\* A prompt goes out last; a worktree is reserved before anything else is done.
LEMMA PromptLastReserveFirst ==
  ASSUME NEW a \in Asks
  PROVE  /\ \A i \in 1..Len(Plan(a)) : Plan(a)[i] = "turn/start" => i = Len(Plan(a))
         /\ Worktree(a) =>
              /\ Len(Plan(a)) = 10 /\ Plan(a)[3] = "worktree/reserve"
              /\ Plan(a)[1] \notin Effects /\ Plan(a)[2] \notin Effects
              /\ Plan(a)[10] = "turn/start"
         /\ (\E i \in 1..Len(Plan(a)) : Plan(a)[i] = "thread/goal/get") => a.tool = "pause_goal"
<1>1. a.tool \in Tools
  BY AskTypes
<1> USE DEF Questions, Effects, HostEffects, LocalEffects, Worktree
<1>2. CASE a.tool = "create_thread"
  BY <1>2 DEF Plan, CreatePlan
<1>3. CASE a.tool = "create_worktree_thread"
  BY <1>3 DEF Plan, WorktreePlan
<1>4. CASE a.tool = "send_message_to_thread"
  BY <1>4 DEF Plan, SendPlan
<1>5. CASE a.tool = "steer_thread"
  BY <1>5 DEF Plan, SteerPlan
<1>6. CASE a.tool = "pause_goal"
  BY <1>6 DEF Plan, PausePlan
<1> QED
  BY <1>1, <1>2, <1>3, <1>4, <1>5, <1>6 DEF Tools

\* An effect that is asked for is a step of the plan, and no step that is asked for is passed over.
LEMMA NothingPassedOver ==
  ASSUME NEW a \in Asks, NEW i \in Nat, NEW j \in Nat, Follows(a, i, j), i <= Len(Plan(a))
  PROVE  /\ j \in 1..(Len(Plan(a)) + 1) /\ i < j
         /\ \A k \in 1..(j - 1) : k > i => Plan(a)[k] \notin EffectsOf(a)
         /\ Worktree(a) /\ i < 3 => j <= 3
<1>1. Len(Plan(a)) \in Nat
  BY EveryStepOnce
<1>2. Worktree(a) => Len(Plan(a)) = 10 /\ Plan(a)[3] = "worktree/reserve"
  BY PromptLastReserveFirst
<1>3. Worktree(a) => Asked(a, "worktree/reserve")
  BY DEF Asked
<1> QED
  BY <1>1, <1>2, <1>3 DEF Follows, EffectsOf

LEMMA EffectsAreSteps ==
  ASSUME NEW a \in Asks, NEW e \in EffectsOf(a)
  PROVE  e \in Effects /\ \E j \in 1..Len(Plan(a)) : Plan(a)[j] = e
<1>1. e \in Effects /\ e \in ToSet(Plan(a))
  BY DEF EffectsOf
<1>2. DOMAIN Plan(a) = 1..Len(Plan(a))
  <2>1. CASE a.tool = "create_thread"
    BY <2>1 DEF Plan, CreatePlan
  <2>2. CASE a.tool = "create_worktree_thread"
    BY <2>2 DEF Plan, WorktreePlan
  <2>3. CASE a.tool = "send_message_to_thread"
    BY <2>3 DEF Plan, SendPlan
  <2>4. CASE a.tool = "steer_thread"
    BY <2>4 DEF Plan, SteerPlan
  <2>5. CASE a.tool = "pause_goal"
    BY <2>5 DEF Plan, PausePlan
  <2> QED
    BY <2>1, <2>2, <2>3, <2>4, <2>5, AskTypes DEF Tools
<1> QED
  BY <1>1, <1>2 DEF ToSet

-----------------------------------------------------------------------------
(***************************************************************************)
(* Where nothing new begins, what was true stays true.                     *)
(***************************************************************************)
Calm(r) ==
  /\ \A e \in Effects : Began(r, e)' => Began(r, e)
  /\ \A e \in Effects : happened[r][e] = 1 => happened'[r][e] = 1

LEMMA KnownEffects ==
  /\ "turn/start" \in Effects /\ "thread/start" \in Effects /\ "worktree/reserve" \in Effects
  /\ Questions \cap Effects = {}
  /\ Judged \subseteq Effects /\ "turn/start" \notin Judged
  /\ "thread/goal/get" \notin Effects
BY DEF Effects, HostEffects, LocalEffects, Questions, Judged

LEMMA RowStays ==
  ASSUME NEW r \in Requests, Calm(r), ledger'[r] = ledger[r], RowTrue(r, ledger[r])
  PROVE  RowTrue(r, ledger[r])'
<1>1. "turn/start" \in Effects
  BY KnownEffects
<1>2. NothingBegan(r) => NothingBegan(r)'
  BY DEF NothingBegan, Calm
<1>3. AllDone(r, ledger[r].ask) => AllDone(r, ledger[r].ask)'
  BY DEF AllDone, Calm, EffectsOf
<1>4. /\ ~Began(r, "turn/start") => ~Began(r, "turn/start")'
      /\ happened[r]["turn/start"] = 1 => happened'[r]["turn/start"] = 1
  BY <1>1 DEF Calm
<1> QED
  BY <1>2, <1>3, <1>4 DEF RowTrue

\* The same of what a process holds, on the step on which it comes to hold it, too.
LEMMA HoldStays ==
  ASSUME NEW w \in Running, UnderLock(w), Calm(w.req), BegunIsHeld(w), AnswerIsHeld(w), ReceiptIsHeld(w)
  PROVE  BegunIsHeld(w)' /\ AnswerIsHeld(w)' /\ ReceiptIsHeld(w)'
<1> DEFINE a == w.receipt.ask
           plan == Plan(a)
<1>1. /\ a \in Asks /\ w.at \in 1..(Len(plan) + 1) /\ Len(plan) \in Nat
      /\ \A e \in Effects : Began(w.req, e)' => Began(w.req, e)
      /\ \A e \in Effects : happened[w.req][e] = 1 => happened'[w.req][e] = 1
  BY EveryStepOnce DEF UnderLock, Calm, Receipt
<1>2. w.answer \in {"none", "ok", "amiss", "refused"} /\ w.begun \subseteq Effects
  BY DEF Running
<1> HIDE DEF plan, a
<1>3. BegunIsHeld(w)'
  BY <1>1 DEF BegunIsHeld
<1>4. AnswerIsHeld(w)'
  <2>1. w.answer # "none" => plan[w.at] \in Effects
    BY <1>2 DEF BegunIsHeld, AnswerIsHeld, plan, a
  <2>2. \A e \in EffectsOf(a) : e \in Effects
    BY DEF EffectsOf
  <2> QED
    BY <1>1, <1>2, <2>1, <2>2 DEF AnswerIsHeld, plan, a
<1>5. ReceiptIsHeld(w)'
  BY <1>1, KnownEffects DEF ReceiptIsHeld
<1> QED
  BY <1>3, <1>4, <1>5

LEMMA WorkStays ==
  ASSUME BInv, NEW p \in Processes, Busy(p), work'[p] = work[p], Calm(work[p].req),
         ledger'[work[p].req] = ledger[work[p].req]
  PROVE  WorkIsTrue(work[p])'
<1> DEFINE w == work[p]
<1>1. w \in Running /\ WorkIsTrue(w)
  BY DEF BInv, TypeOK, WorksTrue
<1>2. BegunIsHeld(w)' /\ AnswerIsHeld(w)' /\ ReceiptIsHeld(w)'
  <2>1. ASSUME NEW v \in Running, v = w, v = w'
        PROVE  BegunIsHeld(v)' /\ AnswerIsHeld(v)' /\ ReceiptIsHeld(v)'
    BY <1>1, <2>1, HoldStays DEF WorkIsTrue
  <2> QED
    BY <1>1, <2>1
<1> QED
  BY <1>1, <1>2 DEF WorkIsTrue, UnderLock, RowIsHeld

-----------------------------------------------------------------------------
(***************************************************************************)
(* A process writes the row of the request it runs: what it writes must be *)
(* true, and what it then holds.                                           *)
(***************************************************************************)
LEMMA AlwaysTyped ==
  ASSUME BInv, NEW p \in Processes
  PROVE  /\ work[p] \in Running /\ TypeOK
         /\ work[p].phase \in {"down", "idle", "ready", "waiting"}
         /\ Busy(p) => /\ work[p].req \in Requests /\ ledger[work[p].req] \in Receipt
                       /\ ledger[work[p].req] # None
                       /\ ledger[work[p].req].status = "in_progress_or_unknown"
<1>1. work[p] \in Running /\ TypeOK
  BY DEF BInv, TypeOK
<1>2. Busy(p) => WorkIsTrue(work[p])
  BY DEF BInv, WorksTrue
<1> QED
  BY <1>1, <1>2 DEF WorkIsTrue, UnderLock, RowIsHeld, TypeOK, Running

LEMMA FewerIsCalm ==
  ASSUME UNCHANGED happened, wire' \subseteq wire
  PROVE  \A r \in Requests : Calm(r)
BY DEF Calm, Began, Pending

LEMMA WriteKeeps ==
  ASSUME BInv, NEW p \in Processes, Busy(p), NEW row \in Receipt, NEW w \in Running,
         ledger' = [ledger EXCEPT ![work[p].req] = row],
         work' = [work EXCEPT ![p] = w],
         UNCHANGED <<legacy, allowed, happened, tree, crashes>>, wire' \subseteq wire,
         noting' \subseteq Note, row # None, RowTrue(work[p].req, row),
         \/ w.phase = "idle"
         \/ /\ w.phase = "ready" /\ w.req = work[p].req /\ UnderLock(w) /\ RowIsHeld(w, row)
            /\ BegunIsHeld(w) /\ AnswerIsHeld(w) /\ ReceiptIsHeld(w)
  PROVE  TypeOK' /\ RowsTrue' /\ Imported' /\ Once' /\ WorksTrue' /\ OneWorker'
<1> DEFINE r == work[p].req
<1>1. /\ r \in Requests /\ ledger[r] # None /\ work[p].phase # "down" /\ TypeOK
  BY AlwaysTyped DEF Busy
<1>2. /\ \A s \in Requests : ledger'[s] = IF s = r THEN row ELSE ledger[s]
      /\ \A q \in Processes : work'[q] = IF q = p THEN w ELSE work[q]
  BY <1>1 DEF TypeOK
<1>3. \A s \in Requests : Calm(s)
  BY FewerIsCalm
<1>4. TypeOK'
  BY <1>1 DEF TypeOK
<1>5. RowsTrue'
  <2> SUFFICES ASSUME NEW s \in Requests, ledger'[s] # None PROVE RowTrue(s, ledger[s])'
    BY DEF RowsTrue
  <2>1. CASE s = r
    <3>1. ASSUME NEW t \in Receipt, RowTrue(s, t), Calm(s) PROVE RowTrue(s, t)'
      <4>1. NothingBegan(s) => NothingBegan(s)'
        BY <3>1 DEF NothingBegan, Calm
      <4>2. AllDone(s, t.ask) => AllDone(s, t.ask)'
        BY <3>1 DEF AllDone, Calm, EffectsOf
      <4> QED
        BY <3>1, <4>1, <4>2, KnownEffects DEF RowTrue, Calm
    <3>2. RowTrue(s, row)'
      BY <1>3, <2>1, <3>1
    <3> QED
      BY <1>2, <2>1, <3>2 DEF RowTrue
  <2>2. CASE s # r
    BY <1>2, <1>3, <2>2, RowStays DEF BInv, RowsTrue
  <2> QED
    BY <2>1, <2>2
<1>6. Imported'
  <2> SUFFICES ASSUME NEW s \in Requests
               PROVE  /\ legacy[s] # None =>
                           /\ legacy[s].status = "outcome_unknown" /\ legacy[s].prompt = "none"
                           /\ ~Worktree(legacy[s].ask)
                           /\ \A q \in Processes : work'[q].phase # "down" => ledger'[s] # None
                      /\ ledger'[s] = None =>
                           /\ \A h \in wire' : h.req # s
                           /\ legacy[s] = None => NothingBegan(s)'
    BY DEF Imported
  <2>1. NothingBegan(s) => NothingBegan(s)'
    BY <1>3 DEF NothingBegan, Calm
  <2> QED
    BY <1>1, <1>2, <2>1 DEF BInv, Imported
<1>7. Once'
  BY DEF BInv, Once
<1>8. WorksTrue'
  <2> SUFFICES ASSUME NEW q \in Processes, Busy(q)' PROVE WorkIsTrue(work[q])'
    BY DEF WorksTrue
  <2>1. CASE q = p
    <3>1. /\ w.phase = "ready" /\ w.req = r /\ UnderLock(w) /\ RowIsHeld(w, row)
          /\ BegunIsHeld(w) /\ AnswerIsHeld(w) /\ ReceiptIsHeld(w)
      BY <1>2, <2>1 DEF Busy
    <3>2. BegunIsHeld(w)' /\ AnswerIsHeld(w)' /\ ReceiptIsHeld(w)'
      BY <1>1, <1>3, <3>1, HoldStays
    <3>3. work'[q] = w /\ ledger'[work'[q].req] = row
      BY <1>1, <1>2, <2>1, <3>1
    <3>4. BegunIsHeld(work[q])'
      BY <3>2, <3>3 DEF BegunIsHeld, Began, Pending
    <3>5. AnswerIsHeld(work[q])'
      BY <3>2, <3>3 DEF AnswerIsHeld, Began, Pending
    <3>6. ReceiptIsHeld(work[q])'
      BY <3>2, <3>3 DEF ReceiptIsHeld
    <3> QED
      BY <3>1, <3>3, <3>4, <3>5, <3>6 DEF WorkIsTrue, UnderLock, RowIsHeld
  <2>2. CASE q # p
    <3>1. Busy(q) /\ work'[q] = work[q]
      BY <1>2, <2>2 DEF Busy
    <3>2. work[q].req # r /\ work[q].req \in Requests
      BY <2>2, <3>1, AlwaysTyped DEF BInv, OneWorker
    <3> QED
      BY <1>2, <1>3, <3>1, <3>2, WorkStays
  <2> QED
    BY <2>1, <2>2
<1>9. OneWorker'
  BY <1>1, <1>2 DEF BInv, OneWorker, Busy
<1> QED
  BY <1>4, <1>5, <1>6, <1>7, <1>8, <1>9

LEMMA NotesStay ==
  ASSUME BInv, NEW p \in Processes, Busy(p), NEW row \in Receipt,
         ledger' = [ledger EXCEPT ![work[p].req] = row], noting' = noting
  PROVE  NotesTrue'
<1>1. /\ work[p].req \in Requests /\ ledger[work[p].req].status = "in_progress_or_unknown" /\ TypeOK
  BY AlwaysTyped
<1>2. \A n \in noting : n.req \in Requests /\ n.receipt.status = "accepted"
                        /\ n.receipt.status = ledger[n.req].status
  BY <1>1 DEF BInv, NotesTrue, TypeOK, Note, Agree
<1>3. \A n \in noting : ledger'[n.req] = ledger[n.req]
  BY <1>1, <1>2 DEF TypeOK
<1> QED
  BY <1>3 DEF BInv, NotesTrue

-----------------------------------------------------------------------------
(***************************************************************************)
(* Going on to the next step.                                              *)
(***************************************************************************)
LEMMA EnteredFields ==
  ASSUME NEW rec \in Receipt, NEW at \in 1..(Len(Plan(rec.ask)) + 1)
  PROVE  LET n    == Entering(rec, at)
             plan == Plan(rec.ask)
         IN
         /\ n \in Receipt /\ n # None /\ n.ask = rec.ask /\ n.status = rec.status
         /\ n.thread = rec.thread /\ n.turn = rec.turn /\ n.begun = rec.begun
         /\ ~Worktree(rec.ask) => n = rec
         /\ Worktree(rec.ask) =>
              /\ n.prompt = IF at <= Len(plan) /\ plan[at] = "turn/start" THEN "outcome_unknown"
                            ELSE rec.prompt
              /\ n.recovery = IF at > Len(plan) THEN FALSE
                              ELSE IF plan[at] = "worktree/reserve" THEN TRUE ELSE rec.recovery
<1> DEFINE n == Entering(rec, at)
           plan == Plan(rec.ask)
<1>1. rec.ask \in Asks /\ Len(plan) \in Nat
  BY EveryStepOnce DEF Receipt
<1>2. rec.prompt \in {"none", "not_sent", "outcome_unknown", "accepted", "rejected"}
  BY DEF Receipt
<1> HIDE DEF plan
<1>3. CASE ~Worktree(rec.ask)
  BY <1>3, ReceiptAssumption DEF Entering, Completing, Reaching
<1>4. CASE Worktree(rec.ask)
  <2> DEFINE prompt == IF at <= Len(plan) /\ plan[at] = "turn/start" THEN "outcome_unknown"
                       ELSE rec.prompt
             demands == IF at > Len(plan) THEN FALSE
                        ELSE IF plan[at] = "worktree/reserve" THEN TRUE ELSE rec.recovery
  <2>1. /\ prompt \in {"none", "not_sent", "outcome_unknown", "accepted", "rejected"}
        /\ demands \in BOOLEAN
    BY <1>2 DEF Receipt
  <2>2. CASE at > Len(plan)
    <3>1. n = [rec EXCEPT !.recovery = FALSE]
      BY <1>4, <2>2 DEF Entering, Completing, plan
    <3>2. prompt = rec.prompt /\ demands = FALSE
      BY <1>1, <2>2
    <3> HIDE DEF n, prompt, demands
    <3>3. /\ n \in Receipt
          /\ n.ask = rec.ask /\ n.status = rec.status /\ n.thread = rec.thread
          /\ n.turn = rec.turn /\ n.begun = rec.begun /\ n.prompt = prompt /\ n.recovery = demands
      BY <3>1, <3>2 DEF Receipt
    <3> QED
      BY <1>4, <3>3, ReceiptAssumption DEF prompt, demands, n, plan
  <2>3. CASE ~(at > Len(plan))
    <3> DEFINE sent == IF plan[at] = "turn/start" THEN "outcome_unknown" ELSE rec.prompt
               marked == IF plan[at] = "worktree/reserve" THEN TRUE ELSE rec.recovery
    <3>1. n = [rec EXCEPT !.recovery = marked, !.prompt = sent]
      BY <1>4, <2>3 DEF Entering, Reaching, DemandsFrom, plan
    <3>2. prompt = sent /\ demands = marked
      BY <1>1, <2>3
    <3> HIDE DEF n, prompt, demands, sent, marked
    <3>3. /\ n \in Receipt
          /\ n.ask = rec.ask /\ n.status = rec.status /\ n.thread = rec.thread
          /\ n.turn = rec.turn /\ n.begun = rec.begun /\ n.prompt = prompt /\ n.recovery = demands
      BY <2>1, <3>1, <3>2 DEF Receipt
    <3> QED
      BY <1>4, <3>3, ReceiptAssumption DEF prompt, demands, n, plan
  <2> QED
    BY <2>2, <2>3
<1> QED
  BY <1>3, <1>4

\* The receipt in a process's hands is true.
LEMMA HeldReceiptTrue ==
  ASSUME NEW w \in Running, UnderLock(w), BegunIsHeld(w), AnswerIsHeld(w), ReceiptIsHeld(w)
  PROVE  RowTrue(w.req, w.receipt)
<1> DEFINE a == w.receipt.ask
           plan == Plan(a)
<1>1. /\ a \in Asks /\ w.at \in 1..(Len(plan) + 1) /\ Len(plan) \in Nat
      /\ w.receipt.status = "in_progress_or_unknown" /\ w.begun \subseteq Effects
      /\ \A i \in 1..Len(plan) : plan[i] \in Questions \cup Effects
  BY EveryStepOnce DEF UnderLock, Receipt, Running
<1>2. /\ w.receipt.prompt # "rejected"
      /\ w.receipt.prompt = "accepted" => happened[w.req]["turn/start"] = 1
  BY DEF ReceiptIsHeld
<1>3. w.receipt.prompt = "not_sent" => ~Began(w.req, "turn/start")
  BY KnownEffects DEF ReceiptIsHeld, BegunIsHeld
<1>4. ASSUME Worktree(a), ~w.receipt.recovery PROVE NothingBegan(w.req) \/ AllDone(w.req, a)
  <2>1. /\ Len(plan) = 10 /\ plan[1] \notin Effects /\ plan[2] \notin Effects
        /\ a.tool # "pause_goal"
    BY <1>1, <1>4, PromptLastReserveFirst DEF Worktree
  <2>2. w.at < 3 \/ w.at = Len(plan) + 1
    BY <1>1, <1>4, <2>1 DEF ReceiptIsHeld
  <2>3. CASE w.at < 3
    <3>1. \A e \in w.begun : FALSE
      BY <1>1, <2>1, <2>3 DEF BegunIsHeld
    <3> QED
      BY <3>1 DEF NothingBegan, BegunIsHeld
  <2>4. CASE w.at = Len(plan) + 1
    <3>1. ASSUME NEW e \in EffectsOf(a) PROVE happened[w.req][e] = 1
      <4>1. PICK j \in 1..Len(plan) : plan[j] = e
        BY <1>1, <3>1, EffectsAreSteps
      <4> QED
        BY <1>1, <2>1, <2>4, <3>1, <4>1 DEF AnswerIsHeld
    <3> QED
      BY <3>1 DEF AllDone
  <2> QED
    BY <2>2, <2>3, <2>4
<1> QED
  BY <1>1, <1>2, <1>3, <1>4 DEF RowTrue

\* What a process holds when step at follows the one it was answered on with the receipt rec.
LEMMA GoesOn ==
  ASSUME BInv, NEW p \in Processes, Busy(p), ~Done(p), NEW rec \in Receipt,
         NEW at \in 1..(Len(Plan(rec.ask)) + 1), Follows(rec.ask, work[p].at, at),
         rec.ask = work[p].receipt.ask, rec.status = "in_progress_or_unknown",
         rec.recovery = work[p].receipt.recovery,
         rec.thread => "thread/start" \in work[p].begun,
         rec.turn => "turn/start" \in work[p].begun,
         ~Worktree(rec.ask) => rec.prompt = "none",
         rec.prompt \notin {"rejected", "outcome_unknown"},
         rec.prompt = "not_sent" => "turn/start" \notin work[p].begun,
         rec.prompt = "accepted" => happened[work[p].req]["turn/start"] = 1,
         Do(p) \in Effects => happened[work[p].req][Do(p)] = 1,
         NEW w \in Running, w.req = work[p].req, w.at = at, w.phase = "ready",
         w.begun = work[p].begun, w.answer = "none", w.receipt = Entering(rec, at)
  PROVE  UnderLock(w) /\ BegunIsHeld(w) /\ AnswerIsHeld(w) /\ ReceiptIsHeld(w)
<1> DEFINE v == work[p]
           a == rec.ask
           plan == Plan(a)
<1>1. /\ a \in Asks /\ Len(plan) \in Nat /\ v \in Running /\ v.at \in 1..Len(plan)
      /\ at \in 1..(Len(plan) + 1) /\ Do(p) = plan[v.at]
      /\ UnderLock(v) /\ BegunIsHeld(v) /\ AnswerIsHeld(v) /\ ReceiptIsHeld(v)
  BY EveryStepOnce, AlwaysTyped DEF BInv, WorksTrue, WorkIsTrue, UnderLock, Receipt, Done, Do
<1>2. /\ v.at < at /\ \A k \in 1..(at - 1) : k > v.at => plan[k] \notin EffectsOf(a)
      /\ Worktree(a) /\ v.at < 3 => at <= 3
  BY <1>1, NothingPassedOver
<1>3. /\ w.receipt \in Receipt /\ w.receipt.ask = a /\ w.receipt.status = rec.status
      /\ w.receipt.thread = rec.thread /\ w.receipt.turn = rec.turn
      /\ ~Worktree(a) => w.receipt = rec
      /\ Worktree(a) =>
           /\ w.receipt.prompt = IF at <= Len(plan) /\ plan[at] = "turn/start"
                                 THEN "outcome_unknown" ELSE rec.prompt
           /\ w.receipt.recovery = IF at > Len(plan) THEN FALSE
                                   ELSE IF plan[at] = "worktree/reserve" THEN TRUE ELSE rec.recovery
  <2> DEFINE n == Entering(rec, at)
  <2>1. /\ n \in Receipt /\ n.ask = a /\ n.status = rec.status
        /\ n.thread = rec.thread /\ n.turn = rec.turn
        /\ ~Worktree(a) => n = rec
        /\ Worktree(a) =>
             /\ n.prompt = IF at <= Len(plan) /\ plan[at] = "turn/start"
                           THEN "outcome_unknown" ELSE rec.prompt
             /\ n.recovery = IF at > Len(plan) THEN FALSE
                             ELSE IF plan[at] = "worktree/reserve" THEN TRUE ELSE rec.recovery
    BY EnteredFields
  <2>2. w.receipt = n
    OBVIOUS
  <2> HIDE DEF n, plan
  <2> QED
    BY <2>1, <2>2
<1>4. Worktree(a) => Len(plan) = 10 /\ plan[3] = "worktree/reserve"
  BY <1>1, PromptLastReserveFirst
<1> HIDE DEF plan, v
<1>5. UnderLock(w)
  BY <1>1, <1>3 DEF UnderLock, plan, v
<1>6. BegunIsHeld(w)
  <2>1. \A e \in w.begun : \E j \in 1..at : j <= Len(plan) /\ plan[j] = e /\ j # at
    BY <1>1, <1>2 DEF BegunIsHeld, plan, v
  <2> QED
    BY <1>1, <1>3, <2>1 DEF BegunIsHeld, plan, v
<1>7. AnswerIsHeld(w)
  <2>1. ASSUME a.tool # "pause_goal", NEW j \in 1..(at - 1), plan[j] \in EffectsOf(a)
        PROVE  happened[w.req][plan[j]] = 1
    <3>1. CASE j < v.at
      BY <1>1, <2>1, <3>1 DEF AnswerIsHeld, plan, v
    <3>2. CASE j = v.at
      BY <1>1, <2>1, <3>2 DEF EffectsOf, v
    <3>3. CASE j > v.at
      BY <1>2, <2>1, <3>3
    <3> QED
      BY <1>1, <3>1, <3>2, <3>3
  <2> QED
    BY <1>3, <2>1 DEF AnswerIsHeld, plan
<1>8. ReceiptIsHeld(w)
  <2>1. ASSUME Worktree(a), at \in 3..Len(plan) PROVE w.receipt.recovery
    <3>1. CASE v.at < 3
      <4>1. at = 3
        BY <1>1, <1>2, <2>1, <3>1
      <4>2. ~(at > Len(plan)) /\ plan[at] = "worktree/reserve"
        BY <1>4, <2>1, <4>1
      <4> QED
        BY <1>3, <2>1, <4>2
    <3>2. CASE v.at >= 3
      <4>1. v.at \in 3..Len(plan)
        BY <1>1, <3>2
      <4>2. rec.recovery
        BY <1>1, <2>1, <4>1 DEF ReceiptIsHeld, plan, v
      <4> QED
        <5>1. ~(at > Len(plan))
          BY <1>1, <2>1
        <5> QED
          BY <1>3, <2>1, <4>2, <5>1
    <3> QED
      BY <1>1, <3>1, <3>2
  <2>2. w.receipt.prompt \in {rec.prompt, "outcome_unknown"}
        /\ w.receipt.prompt = "outcome_unknown" => at <= Len(plan) /\ plan[at] = "turn/start"
    BY <1>3
  <2>3. /\ w.receipt.thread => "thread/start" \in w.begun
        /\ w.receipt.turn => "turn/start" \in w.begun
        /\ ~Worktree(a) => w.receipt.prompt = "none"
        /\ w.receipt.prompt # "rejected"
        /\ w.receipt.prompt = "not_sent" => "turn/start" \notin w.begun
        /\ w.receipt.prompt = "accepted" => happened[w.req]["turn/start"] = 1
    BY <1>3, <2>2
  <2> QED
    BY <1>3, <2>1, <2>2, <2>3 DEF ReceiptIsHeld, plan
<1> QED
  BY <1>5, <1>6, <1>7, <1>8

\* A thread or turn on record stays there, and an accepted request stays accepted.
Gains ==
  \A r \in Requests : ledger[r] # None =>
    /\ ledger'[r] # None
    /\ ledger[r].thread => ledger'[r].thread
    /\ ledger[r].turn => ledger'[r].turn
    /\ ledger[r].status = "accepted" => ledger'[r].status = "accepted"

LEMMA WriteGains ==
  ASSUME BInv, NEW p \in Processes, Busy(p), NEW row \in Receipt,
         ledger' = [ledger EXCEPT ![work[p].req] = row],
         ledger[work[p].req].thread => row.thread, ledger[work[p].req].turn => row.turn
  PROVE  Gains
<1>1. /\ work[p].req \in Requests /\ ledger[work[p].req].status = "in_progress_or_unknown" /\ TypeOK
  BY AlwaysTyped
<1> QED
  BY <1>1, ReceiptAssumption DEF Gains, TypeOK

\* What a process adds to its receipt when it is answered.
Learned(p, rec) ==
  LET w == work[p] IN
  /\ rec \in Receipt /\ rec.ask = w.receipt.ask /\ rec.status = "in_progress_or_unknown"
  /\ rec.recovery = w.receipt.recovery
  /\ w.receipt.thread => rec.thread
  /\ w.receipt.turn => rec.turn
  /\ rec.thread => "thread/start" \in w.begun
  /\ rec.turn => "turn/start" \in w.begun
  /\ ~Worktree(rec.ask) => rec.prompt = "none"
  /\ rec.prompt # "rejected"
  /\ rec.prompt = "not_sent" => "turn/start" \notin w.begun
  /\ rec.prompt = "accepted" => happened[w.req]["turn/start"] = 1

LEMMA NothingLearned ==
  ASSUME BInv, NEW p \in Processes, Busy(p)
  PROVE  Learned(p, work[p].receipt)
BY DEF BInv, WorksTrue, WorkIsTrue, UnderLock, ReceiptIsHeld, Learned

LEMMA AdvanceKeeps ==
  ASSUME BInv, NEW p \in Processes, Busy(p), ~Done(p), NEW rec, Learned(p, rec),
         rec.prompt # "outcome_unknown",
         Do(p) \in Effects => happened[work[p].req][Do(p)] = 1,
         Advance(p, rec, Do(p)),
         UNCHANGED <<legacy, allowed, noting, wire, happened, tree, crashes>>
  PROVE  BInv' /\ Gains
<1> DEFINE r == work[p].req
<1>1. PICK at \in 1..(Len(Plan(rec.ask)) + 1) :
        /\ Follows(rec.ask, work[p].at, at)
        /\ work' = [work EXCEPT ![p] = [work[p] EXCEPT !.at = at, !.phase = "ready",
                                         !.answer = "none", !.receipt = Entering(rec, at)]]
        /\ ledger' = IF Saves(rec, Do(p)) THEN [ledger EXCEPT ![r] = Entering(rec, at)] ELSE ledger
  BY DEF Advance
<1> DEFINE n == Entering(rec, at)
           w == [work[p] EXCEPT !.at = at, !.phase = "ready", !.answer = "none", !.receipt = n]
<1>2. /\ work[p] \in Running /\ WorkIsTrue(work[p]) /\ r \in Requests /\ TypeOK
      /\ ledger[r] # None /\ ledger[r] \in Receipt /\ rec \in Receipt
  BY AlwaysTyped DEF BInv, WorksTrue, Learned
<1>3. /\ n \in Receipt /\ n # None /\ n.ask = rec.ask /\ n.status = rec.status
      /\ n.thread = rec.thread /\ n.turn = rec.turn
      /\ ~Worktree(rec.ask) => n = rec
  BY <1>2, EnteredFields
<1>4. at \in Nat
  BY <1>2, EveryStepOnce DEF Receipt
<1> HIDE DEF n
<1>5. /\ w \in Running /\ w.req = r /\ w.at = at /\ w.phase = "ready" /\ w.begun = work[p].begun
      /\ w.answer = "none" /\ w.receipt = n
  BY <1>2, <1>3, <1>4 DEF Running
<1> HIDE DEF w
<1>6. UnderLock(w) /\ BegunIsHeld(w) /\ AnswerIsHeld(w) /\ ReceiptIsHeld(w)
  <2>1. w.receipt = Entering(rec, at)
    BY <1>5 DEF n
  <2> QED
    BY <1>1, <1>2, <1>5, <2>1, GoesOn DEF Learned
<1>7. RowTrue(r, n)
  BY <1>5, <1>6, HeldReceiptTrue
<1>8. work' = [work EXCEPT ![p] = w] /\ noting' \subseteq Note /\ wire' \subseteq wire
  BY <1>1, <1>2 DEF w, n, TypeOK
<1>9. CASE Saves(rec, Do(p))
  <2>1. ledger' = [ledger EXCEPT ![r] = n]
    BY <1>1, <1>9 DEF n
  <2>2. RowIsHeld(w, n)
    BY <1>3, <1>5, <1>6 DEF RowIsHeld, UnderLock, ReceiptIsHeld
  <2>3. TypeOK' /\ RowsTrue' /\ Imported' /\ Once' /\ WorksTrue' /\ OneWorker'
    BY <1>3, <1>5, <1>6, <1>7, <1>8, <2>1, <2>2, WriteKeeps
  <2>4. NotesTrue'
    BY <1>3, <2>1, NotesStay
  <2>5. ledger[r].thread => n.thread
    BY <1>2, <1>3 DEF WorkIsTrue, RowIsHeld, Learned
  <2>6. ledger[r].turn => n.turn
    BY <1>2, <1>3 DEF WorkIsTrue, RowIsHeld, Learned
  <2> QED
    BY <1>3, <2>1, <2>3, <2>4, <2>5, <2>6, WriteGains DEF BInv
<1>10. CASE ~Saves(rec, Do(p))
  <2>1. ledger' = [ledger EXCEPT ![r] = ledger[r]] /\ ledger' = ledger
    BY <1>1, <1>2, <1>10 DEF TypeOK
  <2>2. ~Worktree(rec.ask)
    BY <1>10 DEF Saves
  <2>3. RowIsHeld(w, ledger[r])
    BY <1>2, <1>3, <1>5, <2>2 DEF WorkIsTrue, RowIsHeld, Learned
  <2>4. RowTrue(r, ledger[r])
    BY <1>2 DEF BInv, RowsTrue
  <2>5. TypeOK' /\ RowsTrue' /\ Imported' /\ Once' /\ WorksTrue' /\ OneWorker'
    BY <1>2, <1>5, <1>6, <1>8, <2>1, <2>3, <2>4, WriteKeeps
  <2>6. NotesTrue'
    BY <1>2, <2>1, NotesStay
  <2> QED
    BY <1>2, <2>1, <2>5, <2>6, WriteGains DEF BInv
<1> QED
  BY <1>9, <1>10

-----------------------------------------------------------------------------
(***************************************************************************)
(* Ending an operation.                                                    *)
(***************************************************************************)
LEMMA ReconciledFields ==
  ASSUME NEW rec \in Receipt
  PROVE  LET n == Reconciled(rec) IN
         /\ n \in Receipt /\ n # None /\ n.ask = rec.ask /\ n.status = rec.status
         /\ n.thread = rec.thread /\ n.turn = rec.turn /\ n.recovery = rec.recovery
         /\ n.prompt = IF rec.prompt # "outcome_unknown" THEN rec.prompt
                       ELSE IF "turn/start" \notin rec.begun THEN "not_sent"
                       ELSE IF rec.status = "failed" THEN "rejected" ELSE rec.prompt
BY ReceiptAssumption DEF Reconciled, Receipt

LEMMA EndKeeps ==
  ASSUME BInv, NEW p \in Processes, Busy(p), NEW rec, Learned(p, rec),
         NEW status \in Statuses,
         status = "not_attempted" => work[p].begun = {},
         status = "accepted" => Done(p),
         status = "failed" /\ rec.prompt = "outcome_unknown" /\ "turn/start" \in work[p].begun
           => ~Began(work[p].req, "turn/start"),
         rec.prompt = "outcome_unknown" => work[p].receipt.prompt = "outcome_unknown",
         End(p, rec, status), wire' \subseteq wire, noting' \subseteq Note,
         UNCHANGED <<legacy, allowed, happened, tree, crashes>>
  PROVE  /\ TypeOK' /\ RowsTrue' /\ Imported' /\ Once' /\ WorksTrue' /\ OneWorker' /\ Gains
         /\ noting' = noting => NotesTrue'
<1> DEFINE r == work[p].req
           begun == work[p].begun
           ended == [rec EXCEPT !.status = status, !.begun = begun]
           n == Reconciled(ended)
           rest == Resting("idle")
<1>1. /\ work[p] \in Running /\ WorkIsTrue(work[p]) /\ r \in Requests /\ begun \subseteq Effects
      /\ ledger[r] # None /\ ledger[r] \in Receipt /\ rec \in Receipt /\ rec.ask \in Asks
  BY AlwaysTyped DEF BInv, WorksTrue, Learned, Running, Receipt
<1>2. ledger' = [ledger EXCEPT ![r] = n] /\ work' = [work EXCEPT ![p] = rest]
  BY DEF End
<1>3. /\ ended \in Receipt /\ ended.ask = rec.ask /\ ended.status = status /\ ended.begun = begun
      /\ ended.thread = rec.thread /\ ended.turn = rec.turn /\ ended.recovery = rec.recovery
      /\ ended.prompt = rec.prompt
  BY <1>1 DEF Receipt
<1> HIDE DEF ended
<1>4. /\ n \in Receipt /\ n # None /\ n.ask = rec.ask /\ n.status = status
      /\ n.thread = rec.thread /\ n.turn = rec.turn /\ n.recovery = rec.recovery
      /\ n.prompt = IF rec.prompt # "outcome_unknown" THEN rec.prompt
                    ELSE IF "turn/start" \notin begun THEN "not_sent"
                    ELSE IF status = "failed" THEN "rejected" ELSE rec.prompt
  BY <1>3, ReconciledFields
<1> HIDE DEF n
<1>5. /\ rest \in Running /\ rest.phase = "idle"
  BY DEF Resting, Running
<1> HIDE DEF rest
<1>6. RowTrue(r, n)
  <2>1. BegunIsHeld(work[p]) /\ AnswerIsHeld(work[p]) /\ ReceiptIsHeld(work[p]) /\ UnderLock(work[p])
    BY <1>1 DEF WorkIsTrue
  <2>2. \A e \in Effects : Began(r, e) => e \in begun
    BY <2>1 DEF BegunIsHeld
  <2>3. n.status = "not_attempted" => ~n.thread /\ ~n.turn /\ NothingBegan(r)
    BY <1>4, <2>2 DEF Learned, NothingBegan
  <2>4. n.prompt \in {"not_sent", "rejected"} => ~Began(r, "turn/start")
    BY <1>4, <2>2, KnownEffects DEF Learned
  <2>5. n.prompt = "accepted" => happened[r]["turn/start"] = 1
    BY <1>4 DEF Learned
  <2>6. Worktree(n.ask) /\ ~n.recovery => NothingBegan(r) \/ AllDone(r, n.ask)
    <3>1. RowTrue(r, work[p].receipt)
      BY <1>1, <2>1, HeldReceiptTrue
    <3> QED
      BY <1>4, <3>1 DEF RowTrue, Learned
  <2>7. ASSUME n.status = "accepted", n.ask.tool # "pause_goal", NEW e \in EffectsOf(n.ask)
        PROVE  happened[r][e] = 1
    <3>1. n.ask \in Asks /\ n.ask = work[p].receipt.ask
      BY <1>1, <1>4 DEF Learned
    <3>2. PICK j \in 1..Len(Plan(n.ask)) : Plan(n.ask)[j] = e
      BY <2>7, <3>1, EffectsAreSteps
    <3>3. Len(Plan(n.ask)) \in Nat /\ work[p].at = Len(Plan(n.ask)) + 1
      BY <1>4, <2>1, <2>7, <3>1, EveryStepOnce DEF Done, UnderLock
    <3> QED
      BY <2>1, <2>7, <3>1, <3>2, <3>3 DEF AnswerIsHeld
  <2> QED
    BY <2>3, <2>4, <2>5, <2>6, <2>7 DEF RowTrue, AllDone
<1>7. TypeOK' /\ RowsTrue' /\ Imported' /\ Once' /\ WorksTrue' /\ OneWorker'
  BY <1>2, <1>4, <1>5, <1>6, WriteKeeps
<1>8. Gains
  <2>1. (ledger[r].thread => n.thread) /\ (ledger[r].turn => n.turn)
    BY <1>1, <1>4 DEF WorkIsTrue, RowIsHeld, Learned
  <2> QED
    BY <1>2, <1>4, <2>1, WriteGains
<1>9. noting' = noting => NotesTrue'
  BY <1>2, <1>4, NotesStay
<1> QED
  BY <1>7, <1>8, <1>9

-----------------------------------------------------------------------------
(***************************************************************************)
(* The steps of an operation.                                              *)
(***************************************************************************)
LEMMA InHand ==
  ASSUME BInv, NEW p \in Processes, Busy(p)
  PROVE  LET w == work[p] IN
         /\ w \in Running /\ UnderLock(w) /\ RowIsHeld(w, ledger[w.req])
         /\ BegunIsHeld(w) /\ AnswerIsHeld(w) /\ ReceiptIsHeld(w)
         /\ w.req \in Requests /\ w.receipt \in Receipt /\ w.receipt.ask \in Asks
         /\ w.begun \subseteq Effects /\ Len(Plan(w.receipt.ask)) \in Nat
         /\ w.at \in 1..(Len(Plan(w.receipt.ask)) + 1)
         /\ w.phase = "waiting" => ~Done(p) /\ Do(p) \in Effects
         /\ ~Done(p) => Do(p) = Plan(w.receipt.ask)[w.at] /\ w.at \in 1..Len(Plan(w.receipt.ask))
         /\ w.receipt.prompt = "outcome_unknown" =>
              ~Done(p) /\ Do(p) = "turn/start" /\ Worktree(w.receipt.ask)
<1> DEFINE w == work[p]
<1>1. w \in Running /\ WorkIsTrue(w)
  BY AlwaysTyped DEF BInv, WorksTrue
<1>2. /\ w.req \in Requests /\ w.receipt \in Receipt /\ w.receipt.ask \in Asks
      /\ w.begun \subseteq Effects /\ w.at \in 1..(Len(Plan(w.receipt.ask)) + 1)
  BY <1>1 DEF WorkIsTrue, UnderLock, Running, Receipt
<1>3. Len(Plan(w.receipt.ask)) \in Nat
  BY <1>2, EveryStepOnce
<1>4. ~Done(p) => Do(p) = Plan(w.receipt.ask)[w.at] /\ w.at \in 1..Len(Plan(w.receipt.ask))
  BY <1>2, <1>3 DEF Done, Do
<1>5. w.phase = "waiting" => ~Done(p) /\ Do(p) \in Effects
  BY <1>1, <1>2, <1>3 DEF WorkIsTrue, BegunIsHeld, Done, Do
<1>6. w.receipt.prompt = "outcome_unknown" =>
        ~Done(p) /\ Do(p) = "turn/start" /\ Worktree(w.receipt.ask)
  BY <1>1, <1>2, <1>3 DEF WorkIsTrue, ReceiptIsHeld, Done, Do
<1> QED
  BY <1>1, <1>2, <1>3, <1>4, <1>5, <1>6 DEF WorkIsTrue

LEMMA AskKeeps ==
  ASSUME BInv, NEW p \in Processes, Ask(p)
  PROVE  BInv' /\ Gains
<1> DEFINE v == work[p]
           plan == Plan(v.receipt.ask)
<1>1. /\ Busy(p) /\ ~Done(p) /\ Do(p) \in Questions /\ Do(p) \notin Effects
      /\ UNCHANGED <<legacy, allowed, noting, wire, happened, tree, crashes>>
      /\ v.receipt.prompt # "outcome_unknown" /\ Learned(p, v.receipt)
  BY InHand, NothingLearned, KnownEffects DEF Ask
<1>2. CASE Advance(p, v.receipt, Do(p))
  BY <1>1, <1>2, AdvanceKeeps
<1>3. CASE Fail(p, v.receipt)
  <2>1. noting' \subseteq Note /\ wire' \subseteq wire
    BY <1>1 DEF BInv, TypeOK
  <2>2. "failed" \in Statuses
    BY DEF Statuses
  <2> QED
    BY <1>1, <1>3, <2>1, <2>2, EndKeeps DEF Fail, BInv
<1>4. CASE /\ Do(p) = "thread/goal/get" /\ work' = [work EXCEPT ![p].at = Len(plan) + 1]
           /\ UNCHANGED ledger
  <2> DEFINE w == [v EXCEPT !.at = Len(plan) + 1]
             r == v.req
  <2>1. /\ v \in Running /\ UnderLock(v) /\ RowIsHeld(v, ledger[r])
        /\ BegunIsHeld(v) /\ AnswerIsHeld(v) /\ ReceiptIsHeld(v)
        /\ r \in Requests /\ v.receipt \in Receipt /\ v.receipt.ask \in Asks
        /\ Len(plan) \in Nat /\ v.at \in 1..Len(plan) /\ Do(p) = plan[v.at]
        /\ v.phase # "waiting" /\ TypeOK
        /\ ledger[r] \in Receipt /\ ledger[r] # None
    BY <1>1, InHand, AlwaysTyped
  <2>2. v.receipt.ask.tool = "pause_goal" /\ ~Worktree(v.receipt.ask)
    BY <1>4, <2>1, PromptLastReserveFirst DEF Worktree
  <2>3. v.phase = "ready" /\ v.answer = "none"
    BY <1>1, <2>1 DEF Busy, AnswerIsHeld
  <2>4. /\ w \in Running /\ w.req = r /\ w.at = Len(plan) + 1 /\ w.phase = "ready"
        /\ w.begun = v.begun /\ w.answer = "none" /\ w.receipt = v.receipt
    BY <2>1, <2>3 DEF Running
  <2>5. work' = [work EXCEPT ![p] = w] /\ ledger' = [ledger EXCEPT ![r] = ledger[r]]
    BY <1>4, <2>1 DEF TypeOK
  <2> HIDE DEF w
  <2>6. UnderLock(w) /\ RowIsHeld(w, ledger[r])
    BY <2>1, <2>4 DEF UnderLock, RowIsHeld
  <2>7. BegunIsHeld(w)
    BY <2>1, <2>3, <2>4 DEF BegunIsHeld
  <2>8. AnswerIsHeld(w)
    BY <2>2, <2>4 DEF AnswerIsHeld
  <2>9. ReceiptIsHeld(w)
    BY <1>1, <2>1, <2>2, <2>4 DEF ReceiptIsHeld
  <2>10. RowTrue(r, ledger[r]) /\ noting' \subseteq Note /\ wire' \subseteq wire
    BY <1>1, <2>1 DEF BInv, RowsTrue, TypeOK
  <2>11. TypeOK' /\ RowsTrue' /\ Imported' /\ Once' /\ WorksTrue' /\ OneWorker'
    BY <1>1, <2>1, <2>4, <2>5, <2>6, <2>7, <2>8, <2>9, <2>10, WriteKeeps
  <2>12. NotesTrue' /\ Gains
    BY <1>1, <2>1, <2>5, NotesStay, WriteGains
  <2> QED
    BY <2>11, <2>12 DEF BInv
<1> QED
  BY <1>2, <1>3, <1>4 DEF Ask

LEMMA InterruptedKeeps ==
  ASSUME BInv, NEW p \in Processes, Busy(p), Interrupted(p), wire' \subseteq wire,
         UNCHANGED <<legacy, allowed, noting, happened, tree, crashes>>
  PROVE  BInv' /\ Gains
<1> DEFINE status == IF work[p].begun = {} THEN "not_attempted" ELSE "outcome_unknown"
<1>1. /\ End(p, work[p].receipt, status) /\ status \in Statuses
      /\ status = "not_attempted" => work[p].begun = {}
      /\ status \notin {"failed", "accepted"}
  BY DEF Interrupted, Statuses
<1>2. Learned(p, work[p].receipt) /\ noting' \subseteq Note
  BY NothingLearned DEF BInv, TypeOK
<1> HIDE DEF status
<1> QED
  BY <1>1, <1>2, EndKeeps DEF BInv

LEMMA AnsweredKeeps ==
  ASSUME BInv, NEW p \in Processes, Answered(p)
  PROVE  BInv' /\ Gains
<1> DEFINE v == work[p]
           rec == v.receipt
           more == Learning(rec, Do(p))
<1>1. /\ Busy(p) /\ v.phase = "waiting" /\ v.answer # "none"
      /\ UNCHANGED <<legacy, allowed, noting, wire, happened, tree, crashes>>
      /\ v.answer = "ok" => Advance(p, more, Do(p))
      /\ v.answer = "amiss" => Fail(p, more)
      /\ v.answer = "refused" => Fail(p, rec)
  BY DEF Answered
<1>2. /\ v \in Running /\ UnderLock(v) /\ BegunIsHeld(v) /\ AnswerIsHeld(v) /\ ReceiptIsHeld(v)
      /\ rec \in Receipt /\ ~Done(p) /\ Do(p) = Plan(rec.ask)[v.at]
      /\ rec.prompt = "outcome_unknown" => Do(p) = "turn/start" /\ Worktree(rec.ask)
      /\ Do(p) \in v.begun /\ Learned(p, rec)
  BY <1>1, InHand, NothingLearned DEF BegunIsHeld
<1>3. v.answer \in {"ok", "amiss"} => happened[v.req][Do(p)] = 1
  BY <1>2 DEF AnswerIsHeld
<1>4. v.answer \in {"ok", "amiss"} => Learned(p, more) /\ more.prompt # "outcome_unknown"
  <2>1. /\ more \in Receipt /\ more.ask = rec.ask /\ more.status = rec.status
        /\ more.recovery = rec.recovery
        /\ more.thread = (rec.thread \/ Do(p) = "thread/start")
        /\ more.turn = (rec.turn \/ Do(p) = "turn/start")
        /\ more.prompt = IF Do(p) = "turn/start" /\ Worktree(rec.ask) THEN "accepted"
                         ELSE rec.prompt
    BY <1>2 DEF Learning, Receipt
  <2> HIDE DEF more
  <2> QED
    BY <1>2, <1>3, <2>1 DEF Learned
<1>5. /\ noting' \subseteq Note /\ wire' \subseteq wire /\ "failed" \in Statuses
      /\ v.answer \in {"ok", "amiss", "refused"}
  BY <1>1, <1>2 DEF BInv, TypeOK, Statuses, Running
<1> HIDE DEF more
<1>6. CASE v.answer = "ok"
  BY <1>1, <1>2, <1>3, <1>4, <1>6, AdvanceKeeps
<1>7. CASE v.answer = "amiss"
  BY <1>1, <1>2, <1>4, <1>5, <1>7, EndKeeps DEF Fail, BInv
<1>8. CASE v.answer = "refused"
  <2>1. ~Began(v.req, Do(p))
    BY <1>2, <1>8 DEF AnswerIsHeld
  <2> QED
    BY <1>1, <1>2, <1>5, <1>8, <2>1, EndKeeps DEF Fail, BInv
<1> QED
  BY <1>5, <1>6, <1>7, <1>8

LEMMA AcceptKeeps ==
  ASSUME BInv, NEW p \in Processes, Accept(p)
  PROVE  BInv' /\ Gains
<1> DEFINE v == work[p]
           r == v.req
           hand == AcceptedInHand(p)
           n == [by |-> p, req |-> r, receipt |-> hand]
<1>1. /\ Busy(p) /\ Done(p) /\ End(p, v.receipt, "accepted")
      /\ noting' \in {noting, noting \cup {n}}
      /\ UNCHANGED <<legacy, allowed, wire, happened, tree, crashes>>
  BY DEF Accept
<1>2. /\ v \in Running /\ r \in Requests /\ v.receipt \in Receipt /\ v.begun \subseteq Effects
      /\ v.receipt.prompt # "outcome_unknown" /\ Learned(p, v.receipt) /\ TypeOK
  BY <1>1, InHand, NothingLearned, AlwaysTyped
<1>3. hand = [v.receipt EXCEPT !.status = "accepted", !.begun = v.begun]
  BY DEF AcceptedInHand
<1> HIDE DEF hand
<1>4. hand \in Receipt /\ hand.status = "accepted" /\ hand.prompt = v.receipt.prompt
  BY <1>2, <1>3 DEF Receipt, Statuses
<1>5. ledger' = [ledger EXCEPT ![r] = hand]
  <2>1. Reconciled(hand) = hand
    BY <1>2, <1>4 DEF Reconciled
  <2> QED
    BY <1>1, <1>3, <2>1 DEF End
<1>6. noting' \subseteq Note /\ wire' \subseteq wire /\ "accepted" \in Statuses
  BY <1>1, <1>2, <1>4 DEF TypeOK, Note, Statuses
<1>7. TypeOK' /\ RowsTrue' /\ Imported' /\ Once' /\ WorksTrue' /\ OneWorker' /\ Gains
  BY <1>1, <1>2, <1>6, EndKeeps
<1>8. NotesTrue'
  <2>1. ledger[r].status = "in_progress_or_unknown"
    BY <1>1, AlwaysTyped
  <2>2. ASSUME NEW m \in noting
        PROVE  /\ m.req \in Requests /\ m.req # r /\ ledger'[m.req] = ledger[m.req]
               /\ ledger'[m.req] # None /\ m.receipt.status = "accepted"
               /\ Agree(m.receipt, ledger'[m.req])
    <3>1. /\ m.req \in Requests /\ ledger[m.req] # None /\ m.receipt.status = "accepted"
          /\ Agree(m.receipt, ledger[m.req])
      BY <1>2 DEF BInv, NotesTrue, TypeOK, Note
    <3>2. m.receipt.status = ledger[m.req].status
      BY <3>1 DEF Agree
    <3>3. m.req # r
      BY <2>1, <3>1, <3>2
    <3>4. ledger'[m.req] = ledger[m.req]
      BY <1>2, <1>5, <3>1, <3>3 DEF TypeOK
    <3> QED
      BY <3>1, <3>3, <3>4
  <2>3. n.req = r /\ n.receipt = hand /\ ledger'[r] = hand
    BY <1>2, <1>5 DEF TypeOK
  <2> HIDE DEF n
  <2> QED
    BY <1>1, <1>4, <2>2, <2>3, ReceiptAssumption DEF NotesTrue, Agree
<1> QED
  BY <1>7, <1>8 DEF BInv

\* An annotation is of the receipt on record, and changes none of what it says.
LEMMA AnnotateKeeps ==
  ASSUME BInv, NEW n \in noting, Annotate(n)
  PROVE  BInv' /\ Gains
<1> DEFINE r == n.req
           row == [n.receipt EXCEPT !.noted = TRUE]
<1>1. /\ noting' = noting \ {n} /\ ledger' \in {ledger, [ledger EXCEPT ![r] = row]}
      /\ UNCHANGED <<legacy, work, allowed, wire, happened, tree, crashes>>
  BY DEF Annotate
<1>2. /\ TypeOK /\ r \in Requests /\ n.receipt \in Receipt /\ ledger[r] # None
      /\ ledger[r] \in Receipt /\ n.receipt.status = "accepted"
      /\ Agree(n.receipt, ledger[r])
  BY DEF BInv, NotesTrue, TypeOK, Note
<1>3. /\ row \in Receipt /\ row # None /\ row.ask = ledger[r].ask /\ row.status = ledger[r].status
      /\ row.prompt = ledger[r].prompt /\ row.recovery = ledger[r].recovery
      /\ row.thread = ledger[r].thread /\ row.turn = ledger[r].turn /\ row.status = "accepted"
  BY <1>2, ReceiptAssumption DEF Receipt, Agree
<1> HIDE DEF row
<1>4. \A s \in Requests : /\ ledger'[s] = None <=> ledger[s] = None
                          /\ s # r => ledger'[s] = ledger[s]
                          /\ ledger'[r] \in {ledger[r], row}
  BY <1>1, <1>2, <1>3 DEF TypeOK
<1>5. \A s \in Requests :
        /\ ledger'[s].ask = ledger[s].ask /\ ledger'[s].status = ledger[s].status
        /\ ledger'[s].prompt = ledger[s].prompt /\ ledger'[s].recovery = ledger[s].recovery
        /\ ledger'[s].thread = ledger[s].thread /\ ledger'[s].turn = ledger[s].turn
  BY <1>3, <1>4
<1>6. \A s \in Requests : Calm(s)
  BY <1>1, FewerIsCalm
<1>7. TypeOK'
  BY <1>1, <1>2, <1>3 DEF TypeOK
<1>8. RowsTrue'
  <2> SUFFICES ASSUME NEW s \in Requests, ledger'[s] # None PROVE RowTrue(s, ledger[s])'
    BY DEF RowsTrue
  <2>1. RowTrue(s, ledger[s])
    BY <1>4 DEF BInv, RowsTrue
  <2> QED
    BY <1>1, <1>5, <2>1 DEF RowTrue, NothingBegan, AllDone, Began, Pending, Worktree
<1>9. Imported' /\ Once'
  BY <1>1, <1>4 DEF BInv, Imported, Once, NothingBegan, Began, Pending
<1>10. WorksTrue'
  <2> SUFFICES ASSUME NEW q \in Processes, Busy(q)' PROVE WorkIsTrue(work[q])'
    BY DEF WorksTrue
  <2>1. Busy(q) /\ work'[q] = work[q]
    BY <1>1 DEF Busy
  <2>2. work[q].req \in Requests /\ ledger[work[q].req].status = "in_progress_or_unknown"
    BY <2>1, AlwaysTyped
  <2>3. ledger'[work[q].req] = ledger[work[q].req]
    BY <1>2, <1>3, <1>4, <2>2
  <2> QED
    BY <1>6, <2>1, <2>2, <2>3, WorkStays
<1>11. OneWorker'
  BY <1>1 DEF BInv, OneWorker, Busy
<1>12. NotesTrue'
  <2>1. \A m \in noting : m.req \in Requests
    BY <1>2 DEF TypeOK, Note
  <2> QED
    BY <1>1, <1>4, <1>5, <2>1 DEF BInv, NotesTrue, Agree
<1>13. Gains
  BY <1>4, <1>5 DEF Gains
<1> QED
  BY <1>7, <1>8, <1>9, <1>10, <1>11, <1>12, <1>13 DEF BInv

-----------------------------------------------------------------------------
(***************************************************************************)
(* Handing over, and the host.                                             *)
(***************************************************************************)
LEMMA HandOverKeeps ==
  ASSUME BInv, NEW p \in Processes, HandOver(p)
  PROVE  BInv' /\ Gains
<1> DEFINE v == work[p]
           r == v.req
           do == Do(p)
           plan == Plan(v.receipt.ask)
           w == [v EXCEPT !.phase = "waiting", !.begun = v.begun \cup {do}]
           h == [by |-> p, req |-> r, do |-> do]
<1>1. /\ Busy(p) /\ ~Done(p) /\ v.phase = "ready" /\ do \in Effects
      /\ work' = [work EXCEPT ![p] = w] /\ wire' = wire \cup {h}
      /\ UNCHANGED <<ledger, legacy, allowed, noting, happened, tree, crashes>>
  <2>1. HandOver(p)
    OBVIOUS
  <2>2. do \notin Observed
    BY KnownEffects DEF HandOver, Observed
  <2>3. Marked(p) = v.begun \cup {do}
    BY <2>2 DEF Marked
  <2>4. [work EXCEPT ![p].phase = "waiting", ![p].begun = Marked(p)] = [work EXCEPT ![p] = w]
    BY <2>3, AlwaysTyped DEF TypeOK, Running
  <2> QED
    BY <2>1, <2>4 DEF HandOver
<1>2. /\ v \in Running /\ UnderLock(v) /\ RowIsHeld(v, ledger[r]) /\ BegunIsHeld(v)
      /\ AnswerIsHeld(v) /\ ReceiptIsHeld(v)
      /\ r \in Requests /\ v.receipt \in Receipt /\ v.receipt.ask \in Asks
      /\ v.begun \subseteq Effects
      /\ Len(plan) \in Nat /\ v.at \in 1..Len(plan) /\ do = plan[v.at]
      /\ TypeOK /\ ledger[r] # None /\ ledger[r].status = "in_progress_or_unknown"
  BY <1>1, InHand, AlwaysTyped
\* It was not begun before: a plan takes an effect once.
<1>3. do \notin v.begun /\ ~Began(r, do)
  <2>1. ASSUME NEW j \in 1..v.at, plan[j] = do PROVE j = v.at
    BY <1>1, <1>2, <2>1, EveryStepOnce
  <2> QED
    BY <1>1, <1>2, <2>1 DEF BegunIsHeld
<1>4. /\ w \in Running /\ w.req = r /\ w.at = v.at /\ w.phase = "waiting" /\ w.answer = v.answer
      /\ w.receipt = v.receipt /\ w.begun = v.begun \cup {do}
  BY <1>1, <1>2 DEF Running
<1>5. h \in Handed /\ h.req = r /\ h.do = do
  BY <1>1, <1>2 DEF Handed
<1> HIDE DEF w, h
<1>6. /\ \A s \in Requests, e \in Effects :
           Began(s, e)' <=> (Began(s, e) \/ (s = r /\ e = do))
      /\ \A s \in Requests : s # r => Calm(s)
  <2>1. \A s \in Requests, e \in Effects : Pending(s, e)' <=> (Pending(s, e) \/ (s = r /\ e = do))
    BY <1>1, <1>5 DEF Pending
  <2> QED
    BY <1>1, <2>1 DEF Began, Calm
<1> HIDE DEF plan, v, do
<1>7. TypeOK'
  BY <1>1, <1>2, <1>4, <1>5 DEF TypeOK
<1>8. RowsTrue'
  <2> SUFFICES ASSUME NEW s \in Requests, ledger'[s] # None PROVE RowTrue(s, ledger[s])'
    BY DEF RowsTrue
  <2>1. RowTrue(s, ledger[s]) /\ ledger'[s] = ledger[s]
    BY <1>1 DEF BInv, RowsTrue
  <2>2. CASE s # r
    BY <1>6, <2>1, <2>2, RowStays
  <2>3. CASE s = r
    <3>1. ledger[r].prompt \in {"not_sent", "rejected"} => do # "turn/start"
      BY <1>1, <1>2 DEF RowIsHeld, ReceiptIsHeld, Worktree, plan, v, do
    <3>2. Worktree(ledger[r].ask) => ledger[r].recovery
      <4>1. ASSUME Worktree(v.receipt.ask) PROVE v.receipt.recovery
        <5>1. Len(plan) = 10 /\ plan[1] \notin Effects /\ plan[2] \notin Effects
          BY <1>2, <4>1, PromptLastReserveFirst DEF plan, v
        <5>2. v.at \in 3..Len(plan)
          BY <1>1, <1>2, <5>1
        <5> QED
          BY <1>2, <4>1, <5>2 DEF ReceiptIsHeld, plan, v
      <4> QED
        BY <1>2, <4>1 DEF RowIsHeld, v
    <3>3. ledger[s].prompt = "accepted" => happened'[s]["turn/start"] = 1
      BY <1>1, <2>1, <2>3 DEF RowTrue
    <3>4. ledger[s].prompt \in {"not_sent", "rejected"} => ~Began(s, "turn/start")'
      BY <1>6, <2>1, <2>3, <3>1, KnownEffects DEF RowTrue
    <3>5. /\ ledger[s].status = "in_progress_or_unknown"
          /\ Worktree(ledger[s].ask) => ledger[s].recovery
      BY <1>2, <2>3, <3>2
    <3> QED
      BY <2>1, <3>3, <3>4, <3>5 DEF RowTrue, Worktree
  <2> QED
    BY <2>2, <2>3
<1>9. Imported'
  <2>1. \A q \in Processes : work'[q].phase # "down" => work[q].phase # "down"
    BY <1>1, <1>2 DEF TypeOK, v
  <2>2. \A s \in Requests : ledger[s] = None => s # r
    BY <1>2
  <2>3. \A s \in Requests : s # r => (NothingBegan(s) => NothingBegan(s)')
    BY <1>6 DEF NothingBegan
  <2> QED
    BY <1>1, <1>5, <2>1, <2>2, <2>3 DEF BInv, Imported
<1>10. Once'
  <2>1. happened[r][do] = 0 /\ \A g \in wire : ~(g.req = r /\ g.do = do)
    BY <1>1, <1>2, <1>3 DEF Began, Pending, BInv, Once
  <2> QED
    BY <1>1, <1>5, <2>1 DEF BInv, Once
<1>11. WorksTrue'
  <2> SUFFICES ASSUME NEW q \in Processes, Busy(q)' PROVE WorkIsTrue(work[q])'
    BY DEF WorksTrue
  <2>1. CASE q # p
    <3>1. Busy(q) /\ work'[q] = work[q]
      BY <1>1, <2>1 DEF TypeOK, BInv, Busy
    <3>2. work[q].req # r /\ work[q].req \in Requests
      BY <1>1, <2>1, <3>1, AlwaysTyped DEF BInv, OneWorker, v
    <3> QED
      BY <1>1, <1>6, <3>1, <3>2, WorkStays
  <2>2. CASE q = p
    <3>1. PICK u \in Running : u = w /\ work'[q] = u
      BY <1>1, <1>2, <1>4, <2>2 DEF TypeOK
    <3>2. /\ u.req = r /\ u.at = v.at /\ u.phase = "waiting" /\ u.answer = "none"
          /\ u.receipt = v.receipt /\ u.begun = v.begun \cup {do} /\ ledger'[u.req] = ledger[r]
      BY <1>1, <1>2, <1>4, <3>1 DEF AnswerIsHeld
    <3>3. UnderLock(u) /\ RowIsHeld(u, ledger'[u.req])
      BY <1>2, <3>2 DEF UnderLock, RowIsHeld
    <3>4. BegunIsHeld(u)'
      <4>1. \A e \in u.begun : \E j \in 1..u.at : j <= Len(plan) /\ plan[j] = e
        BY <1>2, <3>2 DEF BegunIsHeld, plan, v
      <4>2. \A e \in Effects : Began(u.req, e)' => e \in u.begun
        BY <1>2, <1>6, <3>2 DEF BegunIsHeld, v
      <4>3. Plan(u.receipt.ask) = plan /\ u.at <= Len(plan) /\ plan[u.at] \in u.begun
        BY <1>2, <3>2 DEF plan
      <4> QED
        BY <3>2, <4>1, <4>2, <4>3 DEF BegunIsHeld
    <3>5. AnswerIsHeld(u)'
      BY <1>1, <1>2, <3>2 DEF AnswerIsHeld, v
    <3>6. ReceiptIsHeld(u)'
      <4>1. v.receipt.prompt = "not_sent" => do # "turn/start"
        BY <1>1, <1>2, KnownEffects DEF ReceiptIsHeld, plan, v
      <4> QED
        BY <1>1, <1>2, <3>2, <4>1 DEF ReceiptIsHeld, v
    <3>7. BegunIsHeld(work[q])'
      BY <3>1, <3>4 DEF BegunIsHeld, Began, Pending
    <3>8. AnswerIsHeld(work[q])'
      BY <3>1, <3>5 DEF AnswerIsHeld, Began, Pending
    <3>9. ReceiptIsHeld(work[q])'
      BY <3>1, <3>6 DEF ReceiptIsHeld
    <3> QED
      BY <3>1, <3>3, <3>7, <3>8, <3>9 DEF WorkIsTrue, UnderLock, RowIsHeld
  <2> QED
    BY <2>1, <2>2
<1>12. OneWorker'
  <2>1. \A q \in Processes : (Busy(q)' <=> Busy(q)) /\ work'[q].req = work[q].req
    BY <1>1, <1>2, <1>4 DEF TypeOK, Busy, v
  <2> QED
    BY <2>1 DEF BInv, OneWorker
<1>13. NotesTrue' /\ Gains
  BY <1>1 DEF BInv, NotesTrue, Gains, Agree
<1> QED
  BY <1>7, <1>8, <1>9, <1>10, <1>11, <1>12, <1>13 DEF BInv

\* The host carries out or refuses what it was handed, and tells whoever waits for it.
LEMMA HostKeeps ==
  ASSUME BInv, NEW h \in wire, NEW answer \in {"ok", "amiss", "refused"}, Tell(h, answer),
         wire' = wire \ {h}, UNCHANGED <<ledger, legacy, allowed, noting, crashes>>,
         tree' \in [Destinations -> Requests \cup {None}],
         \/ answer = "refused" /\ UNCHANGED happened
         \/ /\ answer # "refused" /\ (answer = "amiss" => h.do \in Judged)
            /\ happened' = [happened EXCEPT ![h.req][h.do] = @ + 1]
  PROVE  BInv' /\ Gains
<1>1. /\ TypeOK /\ h.req \in Requests /\ h.do \in Effects /\ h.by \in Processes
      /\ happened[h.req][h.do] = 0 /\ \A g \in wire : g.req = h.req /\ g.do = h.do => g = h
  BY DEF BInv, TypeOK, Once, Handed
<1>2. /\ happened' \in [Requests -> [Effects -> Nat]]
      /\ \A s \in Requests, e \in Effects :
           happened'[s][e] = IF answer # "refused" /\ s = h.req /\ e = h.do THEN 1
                             ELSE happened[s][e]
  <2>1. CASE answer = "refused"
    BY <1>1, <2>1 DEF TypeOK
  <2>2. CASE answer # "refused"
    <3>1. happened' = [happened EXCEPT ![h.req] = [happened[h.req] EXCEPT ![h.do] = 1]]
      BY <1>1, <2>2 DEF TypeOK
    <3> QED
      BY <1>1, <2>2, <3>1 DEF TypeOK
  <2> QED
    BY <2>1, <2>2
<1>3. /\ \A s \in Requests : Calm(s)
      /\ answer = "refused" => ~Began(h.req, h.do)'
  BY <1>1, <1>2 DEF Calm, Began, Pending
<1>4. \A q \in Processes :
        LET told == /\ q = h.by /\ Busy(q) /\ work[q].req = h.req
                    /\ work[q].phase = "waiting" /\ Do(q) = h.do
        IN
        /\ told => work'[q] = [work[q] EXCEPT !.answer = answer]
        /\ ~told => work'[q] = work[q]
  BY <1>1 DEF TypeOK, Tell
<1>5. \A q \in Processes : /\ work'[q] \in Running /\ work'[q].req = work[q].req
                           /\ work'[q].phase = work[q].phase
  <2> SUFFICES ASSUME NEW q \in Processes
               PROVE  /\ work'[q] \in Running /\ work'[q].req = work[q].req
                      /\ work'[q].phase = work[q].phase
    OBVIOUS
  <2>1. work[q] \in Running
    BY <1>1 DEF TypeOK
  <2>2. CASE work'[q] = work[q]
    BY <2>1, <2>2
  <2>3. CASE work'[q] = [work[q] EXCEPT !.answer = answer]
    BY <2>1, <2>3 DEF Running
  <2> QED
    BY <1>4, <2>2, <2>3
<1>6. TypeOK'
  <2>1. work' \in [Processes -> Running]
    BY <1>1, <1>5 DEF TypeOK, Tell
  <2> QED
    BY <1>1, <1>2, <2>1 DEF TypeOK
<1>7. RowsTrue'
  BY <1>3, RowStays DEF BInv, RowsTrue
<1>8. Imported'
  <2>1. \A s \in Requests : NothingBegan(s) => NothingBegan(s)'
    BY <1>3 DEF NothingBegan, Calm
  <2> QED
    BY <1>5, <2>1 DEF BInv, Imported
<1>9. Once'
  BY <1>1, <1>2 DEF BInv, Once, TypeOK, Handed
<1>10. WorksTrue'
  <2> SUFFICES ASSUME NEW q \in Processes, Busy(q)' PROVE WorkIsTrue(work[q])'
    BY DEF WorksTrue
  <2>1. Busy(q)
    BY <1>5 DEF Busy
  <2>2. CASE work'[q] = work[q]
    <3>1. work[q].req \in Requests
      BY <2>1, InHand
    <3> QED
      BY <1>3, <2>1, <2>2, <3>1, WorkStays
  <2>3. CASE work'[q] # work[q]
    <3>1. /\ q = h.by /\ work[q].req = h.req /\ work[q].phase = "waiting" /\ Do(q) = h.do
          /\ work'[q] = [work[q] EXCEPT !.answer = answer]
      BY <1>4, <2>3
    <3>2. PICK v \in Running : v = work[q]
      BY <2>1, InHand
    <3>3. PICK u \in Running : u = work'[q]
      BY <1>5
    <3>4. /\ UnderLock(v) /\ RowIsHeld(v, ledger[v.req]) /\ BegunIsHeld(v) /\ AnswerIsHeld(v)
          /\ ReceiptIsHeld(v) /\ v.req \in Requests /\ Do(q) = Plan(v.receipt.ask)[v.at]
      BY <2>1, <3>1, <3>2, InHand
    <3>5. BegunIsHeld(v)' /\ AnswerIsHeld(v)' /\ ReceiptIsHeld(v)'
      BY <1>3, <3>4, HoldStays
    <3>6. /\ u.req = v.req /\ u.at = v.at /\ u.phase = v.phase /\ u.begun = v.begun
          /\ u.receipt = v.receipt /\ u.answer = answer
      BY <3>1, <3>2, <3>3 DEF Running
    <3>7. UnderLock(u) /\ RowIsHeld(u, ledger'[u.req])
      BY <3>4, <3>6 DEF UnderLock, RowIsHeld
    <3>8. BegunIsHeld(u)'
      BY <3>5, <3>6 DEF BegunIsHeld
    <3>9. AnswerIsHeld(u)'
      <4>1. Plan(u.receipt.ask)[u.at] = h.do /\ u.req = h.req /\ u.phase = "waiting"
        BY <3>1, <3>2, <3>4, <3>6
      <4>2. u.answer = "amiss" => h.do \in Judged
        BY <3>6
      <4>3. u.answer \in {"ok", "amiss"} => happened'[u.req][h.do] = 1
        BY <1>1, <1>2, <3>6, <4>1
      <4>4. u.answer = "refused" => ~Began(u.req, h.do)'
        <5>1. PICK e \in Effects : e = h.do
          BY <1>1
        <5>2. u.answer = "refused" => ~Began(u.req, e)'
          BY <1>1, <1>2, <3>6, <4>1, <5>1 DEF Began, Pending
        <5> QED
          BY <5>1, <5>2
      <4> QED
        BY <3>5, <3>6, <4>1, <4>2, <4>3, <4>4 DEF AnswerIsHeld
    <3>10. ReceiptIsHeld(u)'
      BY <3>5, <3>6 DEF ReceiptIsHeld
    <3>11. BegunIsHeld(work[q])'
      BY <3>3, <3>8 DEF BegunIsHeld, Began, Pending
    <3>12. AnswerIsHeld(work[q])'
      BY <3>3, <3>9 DEF AnswerIsHeld, Began, Pending
    <3>13. ReceiptIsHeld(work[q])'
      BY <3>3, <3>10 DEF ReceiptIsHeld
    <3> QED
      BY <3>3, <3>7, <3>11, <3>12, <3>13 DEF WorkIsTrue, UnderLock, RowIsHeld
  <2> QED
    BY <2>2, <2>3
<1>11. OneWorker'
  BY <1>5 DEF BInv, OneWorker, Busy
<1>12. NotesTrue' /\ Gains
  BY DEF BInv, NotesTrue, Gains, Agree
<1> QED
  BY <1>6, <1>7, <1>8, <1>9, <1>10, <1>11, <1>12 DEF BInv

LEMMA HappensKeeps ==
  ASSUME BInv, NEW h \in wire, Happens(h) \/ Refused(h)
  PROVE  BInv' /\ Gains
<1>1. TypeOK /\ h \in Handed
  BY DEF BInv, TypeOK
<1>2. CASE Happens(h)
  <2>1. PICK answer \in {"ok"} \cup (IF h.do \in Judged THEN {"amiss"} ELSE {}) : Tell(h, answer)
    BY <1>2 DEF Happens
  <2>2. tree' \in [Destinations -> Requests \cup {None}]
    BY <1>1, <1>2 DEF Happens, TypeOK, Handed
  <2>3. /\ answer \in {"ok", "amiss", "refused"} /\ answer # "refused"
        /\ answer = "amiss" => h.do \in Judged
    BY <2>1
  <2> QED
    BY <1>2, <2>1, <2>2, <2>3, HostKeeps DEF Happens
<1>3. CASE Refused(h)
  BY <1>1, <1>3, HostKeeps DEF Refused, TypeOK
<1> QED
  BY <1>2, <1>3

-----------------------------------------------------------------------------
(***************************************************************************)
(* Servers come and go, and take calls.                                    *)
(***************************************************************************)
LEMMA StartKeeps ==
  ASSUME BInv, NEW p \in Processes, Start(p)
  PROVE  BInv' /\ Gains
<1>1. /\ work[p].phase = "down" /\ \A r \in Requests : ~Conflicting(r)
      /\ ledger' = [r \in Requests |-> IF legacy[r] # None THEN legacy[r] ELSE ledger[r]]
      /\ work' = [work EXCEPT ![p] = Resting("idle")] /\ allowed' \in [Processes -> SUBSET Asks]
      /\ UNCHANGED <<legacy, noting, wire, happened, tree, crashes>> /\ TypeOK
  BY DEF Start, BInv, TypeOK
<1>2. \A r \in Requests : /\ ledger[r] # None => ledger'[r] = ledger[r]
                          /\ ledger[r] = None => ledger'[r] = legacy[r]
  BY <1>1 DEF Conflicting
<1>3. \A r \in Requests : Calm(r)
  BY <1>1, FewerIsCalm
<1>4. Resting("idle") \in Running /\ Resting("idle").phase = "idle"
  BY DEF Resting, Running
<1>5. \A q \in Processes : IF q = p THEN ~Busy(q) /\ ~Busy(q)' ELSE work'[q] = work[q]
  BY <1>1, <1>4 DEF TypeOK, Busy
<1>6. TypeOK'
  BY <1>1, <1>4 DEF TypeOK
<1>7. RowsTrue'
  <2> SUFFICES ASSUME NEW r \in Requests, ledger'[r] # None PROVE RowTrue(r, ledger[r])'
    BY DEF RowsTrue
  <2>1. CASE ledger[r] # None
    BY <1>2, <1>3, <2>1, RowStays DEF BInv, RowsTrue
  <2>2. CASE ledger[r] = None
    <3>1. /\ ledger'[r].status = "outcome_unknown" /\ ledger'[r].prompt = "none"
          /\ ~Worktree(ledger'[r].ask)
      BY <1>2, <2>2 DEF BInv, Imported
    <3> QED
      BY <3>1 DEF RowTrue, Worktree
  <2> QED
    BY <2>1, <2>2
<1>8. Imported'
  <2>1. \A r \in Requests : NothingBegan(r) => NothingBegan(r)'
    BY <1>3 DEF NothingBegan, Calm
  <2> QED
    BY <1>1, <1>2, <2>1 DEF BInv, Imported
<1>9. Once'
  BY <1>1 DEF BInv, Once
<1>10. WorksTrue'
  <2> SUFFICES ASSUME NEW q \in Processes, Busy(q)' PROVE WorkIsTrue(work[q])'
    BY DEF WorksTrue
  <2>1. Busy(q) /\ work'[q] = work[q]
    BY <1>5 DEF Busy
  <2>2. work[q].req \in Requests /\ ledger[work[q].req] # None
    BY <2>1, AlwaysTyped
  <2> QED
    BY <1>2, <1>3, <2>1, <2>2, WorkStays
<1>11. OneWorker'
  BY <1>5 DEF BInv, OneWorker, Busy
<1>12. NotesTrue' /\ Gains
  <2>1. \A n \in noting : n.req \in Requests
    BY <1>1 DEF TypeOK, Note
  <2> QED
    BY <1>1, <1>2, <2>1 DEF BInv, NotesTrue, Gains
<1> QED
  BY <1>6, <1>7, <1>8, <1>9, <1>10, <1>11, <1>12 DEF BInv

LEMMA CrashKeeps ==
  ASSUME BInv, NEW p \in Processes, Crash(p)
  PROVE  BInv' /\ Gains
<1>1. /\ work' = [work EXCEPT ![p] = Resting("down")] /\ noting' \subseteq noting
      /\ crashes' \in 0..Crashes
      /\ UNCHANGED <<ledger, legacy, allowed, wire, happened, tree>> /\ TypeOK
  BY BridgeAssumption DEF Crash, BInv, TypeOK
<1>2. \A r \in Requests : Calm(r)
  BY <1>1, FewerIsCalm
<1>3. Resting("down") \in Running /\ Resting("down").phase = "down"
  BY DEF Resting, Running
<1>4. \A q \in Processes : IF q = p THEN ~Busy(q)' /\ work'[q].phase = "down"
                           ELSE work'[q] = work[q]
  BY <1>1, <1>3 DEF TypeOK, Busy
<1>5. TypeOK'
  BY <1>1, <1>3 DEF TypeOK
<1>6. RowsTrue'
  BY <1>1, <1>2, RowStays DEF BInv, RowsTrue
<1>7. Imported'
  <2>1. \A r \in Requests : NothingBegan(r) => NothingBegan(r)'
    BY <1>2 DEF NothingBegan, Calm
  <2> QED
    BY <1>1, <1>4, <2>1 DEF BInv, Imported
<1>8. Once'
  BY <1>1 DEF BInv, Once
<1>9. WorksTrue'
  <2> SUFFICES ASSUME NEW q \in Processes, Busy(q)' PROVE WorkIsTrue(work[q])'
    BY DEF WorksTrue
  <2>1. Busy(q) /\ work'[q] = work[q]
    BY <1>4 DEF Busy
  <2>2. work[q].req \in Requests
    BY <2>1, AlwaysTyped
  <2> QED
    BY <1>1, <1>2, <2>1, <2>2, WorkStays
<1>10. OneWorker'
  BY <1>4 DEF BInv, OneWorker, Busy
<1>11. NotesTrue' /\ Gains
  BY <1>1 DEF BInv, NotesTrue, Gains
<1> QED
  BY <1>5, <1>6, <1>7, <1>8, <1>9, <1>10, <1>11 DEF BInv

\* The first receipt of an attempt, before anything was begun.
LEMMA FirstFields ==
  ASSUME NEW a \in Asks, NEW n \in Nat, NEW at \in 1..Len(Plan(a))
  PROVE  LET f == First(a, n, at) IN
         /\ f \in Receipt /\ f # None /\ f.ask = a /\ f.status = "in_progress_or_unknown"
         /\ ~f.thread /\ ~f.turn
         /\ ~Worktree(a) => f.prompt = "none"
         /\ Worktree(a) =>
              /\ f.prompt = IF Plan(a)[at] = "turn/start" THEN "outcome_unknown"
                            ELSE IF a.prompted THEN "not_sent" ELSE "none"
              /\ Plan(a)[at] = "worktree/reserve" => f.recovery
<1> DEFINE prompt == IF ~Worktree(a) THEN "none" ELSE IF a.prompted THEN "not_sent" ELSE "none"
           raw == [Fresh(a, n) EXCEPT !.prompt = prompt]
<1>1. /\ raw \in Receipt /\ raw.ask = a /\ raw.status = "in_progress_or_unknown"
      /\ ~raw.thread /\ ~raw.turn /\ raw.prompt = prompt /\ raw.recovery = FALSE
  BY DEF Fresh, Receipt, Statuses
<1>2. First(a, n, at) = Entering(raw, at)
  BY DEF First, Fresh
<1>3. Len(Plan(a)) \in Nat /\ at \in 1..(Len(Plan(a)) + 1) /\ at <= Len(Plan(a))
  BY EveryStepOnce
<1>4. PICK t \in Receipt : t = raw
  BY <1>1
<1> DEFINE f == Entering(t, at)
           plan == Plan(t.ask)
<1>5. /\ f \in Receipt /\ f # None /\ f.ask = t.ask /\ f.status = t.status
      /\ f.thread = t.thread /\ f.turn = t.turn
      /\ ~Worktree(t.ask) => f = t
      /\ Worktree(t.ask) =>
           /\ f.prompt = IF at <= Len(plan) /\ plan[at] = "turn/start" THEN "outcome_unknown"
                         ELSE t.prompt
           /\ f.recovery = IF at > Len(plan) THEN FALSE
                           ELSE IF plan[at] = "worktree/reserve" THEN TRUE ELSE t.recovery
  BY <1>1, <1>3, <1>4, EnteredFields
<1>6. /\ t.ask = a /\ t.status = "in_progress_or_unknown" /\ ~t.thread /\ ~t.turn
      /\ t.prompt = prompt /\ t.recovery = FALSE /\ plan = Plan(a) /\ First(a, n, at) = f
  BY <1>1, <1>2, <1>4
<1> HIDE DEF raw, f, plan
<1>7. /\ f \in Receipt /\ f # None /\ f.ask = a /\ f.status = "in_progress_or_unknown"
      /\ ~f.thread /\ ~f.turn
      /\ ~Worktree(a) => f.prompt = "none"
  BY <1>5, <1>6
<1>8. Worktree(a) /\ plan[at] = "worktree/reserve" => f.recovery
  <2>1. ~(at > Len(plan))
    BY <1>3, <1>6
  <2> QED
    BY <1>5, <1>6, <2>1
<1>9. Worktree(a) => f.prompt = IF plan[at] = "turn/start" THEN "outcome_unknown"
                                ELSE IF a.prompted THEN "not_sent" ELSE "none"
  <2>1. ASSUME Worktree(a)
        PROVE  f.prompt = IF plan[at] = "turn/start" THEN "outcome_unknown" ELSE prompt
    <3>1. f.prompt = IF at <= Len(plan) /\ plan[at] = "turn/start" THEN "outcome_unknown"
                     ELSE t.prompt
      BY <1>5, <1>6, <2>1
    <3> QED
      BY <1>3, <1>6, <3>1
  <2> QED
    BY <2>1
<1> QED
  BY <1>6, <1>7, <1>8, <1>9

\* A call begins where nothing of its request has, and nobody else works on it.
LEMMA CallKeeps ==
  ASSUME BInv, NEW p \in Processes, NEW r \in Requests, NEW a \in Asks, Call(p, r, a)
  PROVE  BInv' /\ Gains
<1>1. /\ TypeOK /\ work[p].phase = "idle" /\ MayBegin(r, a)
      /\ UNCHANGED <<legacy, allowed, noting, wire, happened, tree, crashes>>
  BY DEF Call, BInv
<1>2. /\ NothingBegan(r)
      /\ ledger[r] # None => /\ ledger[r] \in Receipt /\ ledger[r].status = "not_attempted"
                             /\ ~ledger[r].thread /\ ~ledger[r].turn
  <2>1. CASE ledger[r] = None
    BY <1>1, <2>1 DEF BInv, Imported
  <2>2. CASE ledger[r] # None
    <3>1. ledger[r] \in Receipt /\ ledger[r].status = "not_attempted"
      BY <1>1, <2>2 DEF TypeOK, MayBegin, Retryable
    <3> QED
      BY <2>2, <3>1 DEF BInv, RowsTrue, RowTrue
  <2> QED
    BY <2>1, <2>2
<1>3. PICK at \in 1..Len(Plan(a)) :
        \E n \in Nat :
          /\ Follows(a, 0, at) /\ ledger' = [ledger EXCEPT ![r] = First(a, n, at)]
          /\ work' = [work EXCEPT ![p] = [req |-> r, at |-> at, phase |-> "ready", begun |-> {},
                                          answer |-> "none", receipt |-> First(a, n, at)]]
  <2> DEFINE n == IF ledger[r] = None THEN 1 ELSE ledger[r].attempt + 1
  <2>1. n \in Nat
    BY <1>2 DEF Receipt
  <2> HIDE DEF n
  <2> QED
    BY <2>1 DEF Call, n
<1>4. PICK n \in Nat :
        /\ Follows(a, 0, at) /\ ledger' = [ledger EXCEPT ![r] = First(a, n, at)]
        /\ work' = [work EXCEPT ![p] = [req |-> r, at |-> at, phase |-> "ready", begun |-> {},
                                        answer |-> "none", receipt |-> First(a, n, at)]]
  BY <1>3
<1> DEFINE f == First(a, n, at)
           plan == Plan(a)
           new == [req |-> r, at |-> at, phase |-> "ready", begun |-> {},
                   answer |-> "none", receipt |-> f]
<1>5. /\ f \in Receipt /\ f # None /\ f.ask = a /\ f.status = "in_progress_or_unknown"
      /\ ~f.thread /\ ~f.turn
      /\ ~Worktree(a) => f.prompt = "none"
      /\ Worktree(a) =>
           /\ f.prompt = IF plan[at] = "turn/start" THEN "outcome_unknown"
                         ELSE IF a.prompted THEN "not_sent" ELSE "none"
           /\ plan[at] = "worktree/reserve" => f.recovery
  BY FirstFields
<1>6. /\ Len(plan) \in Nat /\ at \in 1..Len(plan)
      /\ \A k \in 1..(at - 1) : plan[k] \notin EffectsOf(a)
      /\ Worktree(a) => at <= 3 /\ plan[3] = "worktree/reserve"
  <2>1. Len(plan) \in Nat /\ 0 \in Nat /\ 0 <= Len(plan) /\ at \in Nat
    BY EveryStepOnce
  <2>2. /\ \A k \in 1..(at - 1) : k > 0 => plan[k] \notin EffectsOf(a)
        /\ Worktree(a) /\ 0 < 3 => at <= 3
    BY <1>4, <2>1, NothingPassedOver
  <2>3. Worktree(a) => plan[3] = "worktree/reserve"
    BY PromptLastReserveFirst
  <2> QED
    BY <2>1, <2>2, <2>3
<1>7. ledger' = [ledger EXCEPT ![r] = f] /\ work' = [work EXCEPT ![p] = new]
  BY <1>4
<1> HIDE DEF f, plan
<1>8. /\ new \in Running /\ new.req = r /\ new.at = at /\ new.phase = "ready" /\ new.begun = {}
      /\ new.answer = "none" /\ new.receipt = f
  BY <1>5, <1>6 DEF Running
<1> HIDE DEF new
<1>9. PICK w \in Running : w = new
  BY <1>8
<1>10. /\ \A s \in Requests : ledger'[s] = IF s = r THEN f ELSE ledger[s]
       /\ \A q \in Processes : work'[q] = IF q = p THEN w ELSE work[q]
  BY <1>1, <1>7, <1>9 DEF TypeOK
<1>11. UnderLock(w) /\ RowIsHeld(w, f) /\ BegunIsHeld(w) /\ AnswerIsHeld(w) /\ ReceiptIsHeld(w)
  <2>1. w.req = r /\ w.at = at /\ w.phase = "ready" /\ w.begun = {} /\ w.answer = "none"
        /\ w.receipt = f
    BY <1>8, <1>9
  <2>2. UnderLock(w)
    BY <1>5, <1>6, <2>1 DEF UnderLock, plan
  <2>3. RowIsHeld(w, f)
    BY <1>5, <2>1 DEF RowIsHeld
  <2>4. BegunIsHeld(w)
    BY <1>2, <2>1 DEF BegunIsHeld, NothingBegan
  <2>5. AnswerIsHeld(w)
    BY <1>5, <1>6, <2>1 DEF AnswerIsHeld, plan
  <2>6. ReceiptIsHeld(w)
    <3>1. Worktree(a) /\ at \in 3..Len(plan) => f.recovery
      BY <1>5, <1>6
    <3>2. /\ f.prompt \notin {"rejected", "accepted"}
          /\ f.prompt = "outcome_unknown" => plan[at] = "turn/start"
          /\ Worktree(a) /\ plan[at] = "turn/start" => f.prompt = "outcome_unknown"
      BY <1>5
    <3> QED
      BY <1>5, <1>6, <2>1, <3>1, <3>2 DEF ReceiptIsHeld, plan
  <2> QED
    BY <2>2, <2>3, <2>4, <2>5, <2>6
<1>12. RowTrue(r, f)
  BY <1>8, <1>9, <1>11, HeldReceiptTrue
<1>13. \A s \in Requests : Calm(s)
  BY <1>1, FewerIsCalm
<1>14. \A q \in Processes : Busy(q) => q # p /\ work[q].req # r /\ work[q].req \in Requests
  <2> SUFFICES ASSUME NEW q \in Processes, Busy(q)
               PROVE  q # p /\ work[q].req # r /\ work[q].req \in Requests
    OBVIOUS
  <2>1. /\ work[q].req \in Requests /\ ledger[work[q].req] # None
        /\ ledger[work[q].req].status = "in_progress_or_unknown"
    BY AlwaysTyped
  <2> QED
    BY <1>1, <1>2, <2>1 DEF Busy
<1>15. TypeOK'
  BY <1>1, <1>5, <1>7, <1>8 DEF TypeOK
<1>16. RowsTrue'
  <2> SUFFICES ASSUME NEW s \in Requests, ledger'[s] # None PROVE RowTrue(s, ledger[s])'
    BY DEF RowsTrue
  <2>1. CASE s = r
    <3>1. RowTrue(s, f)'
      BY <1>1, <1>12, <2>1 DEF RowTrue, NothingBegan, AllDone, Began, Pending
    <3> QED
      BY <1>10, <2>1, <3>1 DEF RowTrue
  <2>2. CASE s # r
    BY <1>10, <1>13, <2>2, RowStays DEF BInv, RowsTrue
  <2> QED
    BY <2>1, <2>2
<1>17. Imported'
  <2>1. \A s \in Requests : NothingBegan(s) => NothingBegan(s)'
    BY <1>13 DEF NothingBegan, Calm
  <2>2. \A q \in Processes : work'[q].phase # "down" => work[q].phase # "down"
    BY <1>1, <1>10
  <2> QED
    BY <1>1, <1>5, <1>10, <2>1, <2>2 DEF BInv, Imported
<1>18. Once'
  BY <1>1 DEF BInv, Once
<1>19. WorksTrue'
  <2> SUFFICES ASSUME NEW q \in Processes, Busy(q)' PROVE WorkIsTrue(work[q])'
    BY DEF WorksTrue
  <2>1. CASE q = p
    <3>1. work'[q] = w /\ w.req = r /\ ledger'[w.req] = f
      BY <1>8, <1>9, <1>10, <2>1
    <3>2. BegunIsHeld(w)' /\ AnswerIsHeld(w)' /\ ReceiptIsHeld(w)'
      BY <1>1, <1>11 DEF BegunIsHeld, AnswerIsHeld, ReceiptIsHeld, Began, Pending
    <3>3. BegunIsHeld(work[q])'
      BY <3>1, <3>2 DEF BegunIsHeld, Began, Pending
    <3>4. AnswerIsHeld(work[q])'
      BY <3>1, <3>2 DEF AnswerIsHeld, Began, Pending
    <3>5. ReceiptIsHeld(work[q])'
      BY <3>1, <3>2 DEF ReceiptIsHeld
    <3> QED
      BY <1>11, <3>1, <3>3, <3>4, <3>5 DEF WorkIsTrue, UnderLock, RowIsHeld
  <2>2. CASE q # p
    <3>1. Busy(q) /\ work'[q] = work[q]
      BY <1>10, <2>2 DEF Busy
    <3>2. work[q].req # r /\ work[q].req \in Requests
      BY <1>14, <3>1
    <3> QED
      BY <1>10, <1>13, <3>1, <3>2, WorkStays
  <2> QED
    BY <2>1, <2>2
<1>20. OneWorker'
  <2>1. w.req = r /\ \A q \in Processes : q # p => (Busy(q)' <=> Busy(q)) /\ work'[q] = work[q]
    BY <1>8, <1>9, <1>10 DEF Busy
  <2> QED
    BY <1>10, <1>14, <2>1 DEF BInv, OneWorker
<1>21. NotesTrue'
  <2>1. \A m \in noting : m.req \in Requests /\ m.req # r
    BY <1>1, <1>2 DEF BInv, NotesTrue, TypeOK, Note, Agree
  <2> QED
    BY <1>1, <1>10, <2>1 DEF BInv, NotesTrue, Agree
<1>22. Gains
  BY <1>2, <1>5, <1>10 DEF Gains
<1> QED
  BY <1>15, <1>16, <1>17, <1>18, <1>19, <1>20, <1>21, <1>22 DEF BInv

-----------------------------------------------------------------------------
(***************************************************************************)
(* The invariant holds, and every step gains.                              *)
(***************************************************************************)
LEMMA InitBridge == Init => BInv
<1> SUFFICES ASSUME Init PROVE BInv
  OBVIOUS
<1>1. /\ \A r \in Requests : ledger[r] = None
      /\ \A p \in Processes : work[p] = Resting("down")
      /\ noting = {} /\ wire = {}
  BY DEF Init
<1>2. Resting("down") \in Running /\ Resting("down").phase = "down"
  BY DEF Resting, Running
<1>3. \A r \in Requests : legacy[r] # None =>
        /\ legacy[r] \in Receipt /\ legacy[r].status = "outcome_unknown"
        /\ legacy[r].prompt = "none" /\ ~Worktree(legacy[r].ask)
  <2> SUFFICES ASSUME NEW r \in Requests, legacy[r] # None
               PROVE  /\ legacy[r] \in Receipt /\ legacy[r].status = "outcome_unknown"
                      /\ legacy[r].prompt = "none" /\ ~Worktree(legacy[r].ask)
    OBVIOUS
  <2>1. PICK a \in {b \in Asks : ~Worktree(b)} :
          legacy[r] = [Fresh(a, 1) EXCEPT !.status = "outcome_unknown"]
    BY DEF Init, LeftBehind
  <2>2. Fresh(a, 1) \in Receipt /\ Fresh(a, 1).ask = a /\ Fresh(a, 1).prompt = "none"
    BY DEF Fresh, Receipt, Statuses
  <2>3. PICK t \in Receipt : t = Fresh(a, 1)
    BY <2>2
  <2>4. legacy[r] = [t EXCEPT !.status = "outcome_unknown"] /\ t.ask = a /\ t.prompt = "none"
    BY <2>1, <2>2, <2>3
  <2>5. /\ legacy[r] \in Receipt /\ legacy[r].status = "outcome_unknown"
        /\ legacy[r].prompt = "none" /\ legacy[r].ask = a
    BY <2>4 DEF Receipt, Statuses
  <2> QED
    BY <2>1, <2>5
<1>4. legacy \in [Requests -> Receipt \cup {None}]
  <2>1. legacy \in [Requests -> {None} \cup {[Fresh(a, 1) EXCEPT !.status = "outcome_unknown"] :
                                               a \in {b \in Asks : ~Worktree(b)}}]
    BY DEF Init, LeftBehind
  <2> QED
    BY <1>3, <2>1
<1>5. \A r \in Requests, e \in Effects :
        /\ happened[r][e] \in {0, 1}
        /\ legacy[r] = None => happened[r][e] = 0
  BY DEF Init
<1>6. TypeOK
  <2>1. happened \in [Requests -> [Effects -> Nat]]
    BY DEF Init
  <2>2. /\ ledger \in [Requests -> Receipt \cup {None}]
        /\ work \in [Processes -> Running] /\ allowed \in [Processes -> SUBSET Asks]
        /\ tree \in [Destinations -> Requests \cup {None}] /\ crashes \in 0..Crashes
    BY <1>2, BridgeAssumption DEF Init
  <2> QED
    BY <1>1, <1>4, <2>1, <2>2 DEF TypeOK
<1>7. RowsTrue
  BY <1>1 DEF RowsTrue
<1>8. Imported
  BY <1>1, <1>2, <1>3, <1>5 DEF Imported, NothingBegan, Began, Pending
<1>9. Once
  BY <1>1, <1>5 DEF Once
<1>10. WorksTrue /\ OneWorker
  BY <1>1, <1>2 DEF WorksTrue, OneWorker, Busy
<1>11. NotesTrue
  BY <1>1 DEF NotesTrue
<1> QED
  BY <1>6, <1>7, <1>8, <1>9, <1>10, <1>11 DEF BInv

LEMMA StutterKeeps ==
  ASSUME BInv, UNCHANGED vars
  PROVE  BInv' /\ Gains
<1>1. UNCHANGED <<ledger, legacy, work, allowed, noting, wire, happened, tree, crashes>>
  BY DEF vars
<1>2. TypeOK' /\ Once' /\ NotesTrue' /\ Gains
  BY <1>1 DEF BInv, TypeOK, Once, NotesTrue, Gains
<1>3. RowsTrue' /\ Imported'
  BY <1>1 DEF BInv, RowsTrue, RowTrue, Imported, NothingBegan, AllDone, Began, Pending
<1>4. OneWorker'
  BY <1>1 DEF BInv, OneWorker, Busy
<1>5. WorksTrue'
  BY <1>1 DEF BInv, WorksTrue, Busy, WorkIsTrue, UnderLock, RowIsHeld, BegunIsHeld, AnswerIsHeld,
              ReceiptIsHeld, Began, Pending
<1> QED
  BY <1>2, <1>3, <1>4, <1>5 DEF BInv

LEMMA NextKeeps == BInv /\ [Next]_vars => BInv' /\ Gains
<1> SUFFICES ASSUME BInv, [Next]_vars PROVE BInv' /\ Gains
  OBVIOUS
<1>1. ASSUME NEW p \in Processes, Start(p) PROVE BInv' /\ Gains
  BY <1>1, StartKeeps
<1>2. ASSUME NEW p \in Processes, Crash(p) PROVE BInv' /\ Gains
  BY <1>2, CrashKeeps
<1>3. ASSUME NEW p \in Processes, Ask(p) PROVE BInv' /\ Gains
  BY <1>3, AskKeeps
<1>4. ASSUME NEW p \in Processes, HandOver(p) PROVE BInv' /\ Gains
  BY <1>4, HandOverKeeps
<1>5. ASSUME NEW p \in Processes, Unsent(p) \/ Lost(p) PROVE BInv' /\ Gains
  <2>1. /\ Busy(p) /\ Interrupted(p) /\ wire' \subseteq wire
        /\ UNCHANGED <<legacy, allowed, noting, happened, tree, crashes>>
    BY <1>5 DEF Unsent, Lost
  <2> QED
    BY <2>1, InterruptedKeeps
<1>6. ASSUME NEW p \in Processes, Answered(p) PROVE BInv' /\ Gains
  BY <1>6, AnsweredKeeps
<1>7. ASSUME NEW p \in Processes, Accept(p) PROVE BInv' /\ Gains
  BY <1>7, AcceptKeeps
<1>8. ASSUME NEW p \in Processes, NEW r \in Requests, NEW a \in Asks, Call(p, r, a)
      PROVE  BInv' /\ Gains
  BY <1>8, CallKeeps
<1>9. ASSUME NEW n \in noting, Annotate(n) PROVE BInv' /\ Gains
  BY <1>9, AnnotateKeeps
<1>10. ASSUME NEW h \in wire, Happens(h) \/ Refused(h) PROVE BInv' /\ Gains
  BY <1>10, HappensKeeps
<1>11. CASE UNCHANGED vars
  BY <1>11, StutterKeeps
<1> QED
  BY <1>1, <1>2, <1>3, <1>4, <1>5, <1>6, <1>7, <1>8, <1>9, <1>10, <1>11 DEF Next, Step

-----------------------------------------------------------------------------
(***************************************************************************)
(* The theorems.                                                           *)
(***************************************************************************)
LEMMA BridgeInvariant == Spec => []BInv
<1> QED
  BY InitBridge, NextKeeps, PTL DEF Spec

\* Every variable keeps its type.
THEOREM BridgeTypes == Spec => []TypeOK
<1>1. BInv => TypeOK
  BY DEF BInv
<1> QED
  BY <1>1, BridgeInvariant, PTL

\* However often a request id is called - on any server of the ledger, after a lost answer, across
\* crashes, or for a row an earlier bridge left behind - an effect of it happens once at most and
\* is never on its way a second time (ledger.py: begin; bridge.py: _mutate).
THEOREM EffectOnce == Spec => []EffectHappensOnce
<1>1. BInv => EffectHappensOnce
  <2> SUFFICES ASSUME BInv, NEW r \in Requests, NEW e \in Effects
               PROVE  happened[r][e] + Cardinality({h \in wire : h.req = r /\ h.do = e}) <= 1
    BY DEF EffectHappensOnce
  <2> DEFINE S == {h \in wire : h.req = r /\ h.do = e}
  <2>1. happened[r][e] \in {0, 1}
    BY DEF BInv, Once
  <2>2. CASE S = {}
    BY <2>1, <2>2, FS_EmptySet
  <2>3. CASE S # {}
    <3>1. PICK h \in wire : h.req = r /\ h.do = e
      BY <2>3
    <3>2. S = {h} /\ happened[r][e] = 0
      BY <3>1 DEF BInv, Once
    <3>3. Cardinality(S) = 1
      BY <3>2, FS_Singleton
    <3> QED
      BY <3>2, <3>3
  <2> QED
    BY <2>2, <2>3
<1> QED
  BY <1>1, BridgeInvariant, PTL

\* What a receipt says is so when it is read - nothing of a request not attempted has happened or
\* is on its way, a prompt's state is the prompt's, an unfinished worktree asks for recovery - and
\* stays so: a thread or turn recorded stays recorded, an accepted request stays accepted, with
\* everything it asked for done (bridge.py: interrupted, reconcile, _annotate_dispatch).
THEOREM ReceiptsHoldForGood == Spec => ReceiptsHold
<1> DEFINE Lasts ==
      \A r \in Requests : ledger[r] # None =>
        /\ ledger'[r] # None
        /\ ledger[r].thread => ledger'[r].thread
        /\ ledger[r].turn => ledger'[r].turn
        /\ ledger[r].status = "accepted" =>
             /\ ledger'[r].status = "accepted"
             /\ ledger[r].ask.tool # "pause_goal" =>
                  \A e \in EffectsOf(ledger[r].ask) : happened[r][e] = 1
<1>1. BInv => ReceiptsTellTheTruth
  <2> SUFFICES ASSUME BInv PROVE ReceiptsTellTheTruth
    OBVIOUS
  <2>1. NotAttemptedIsTrue
    BY DEF BInv, RowsTrue, RowTrue, NotAttemptedIsTrue, NothingBegan
  <2>2. PromptStateIsTrue
    BY DEF BInv, RowsTrue, RowTrue, PromptStateIsTrue
  <2>3. RecoveryIsDemanded
    BY DEF BInv, RowsTrue, RowTrue, RecoveryIsDemanded, NothingBegan, AllDone
  <2> QED
    BY <2>1, <2>2, <2>3 DEF ReceiptsTellTheTruth
<1>2. BInv /\ [Next]_vars => Lasts
  <2> SUFFICES ASSUME BInv, Gains PROVE Lasts
    BY NextKeeps
  <2> QED
    BY DEF BInv, RowsTrue, RowTrue, AllDone, Gains
<1>3. BInv /\ [Next]_vars => [Lasts]_vars
  BY <1>2
<1> QED
  BY <1>1, <1>3, BridgeInvariant, PTL DEF Spec, ReceiptsHold, AcceptedForGood

-----------------------------------------------------------------------------
(* The guard.                                                              *)

Phases == {"asked", "judged", "weighed", "recording", "giving", "faulted", "printed", "ended"}

States == Omissions \cup
  {"none", "unmanaged", "correlated_unbound", "dispatch_uncorrelated",
   "marker_claimed_by_other_session", "marker_unclaimed", "declared_waiting",
   "declared_ready_receipted", "state_unreadable", "unresolved_handoff", "hold_in_flight",
   "guard_faulted"}

Guards == [phase : Phases, at : Nat, dir : Assignments \cup {Nobody}, state : States,
           answer : {"none", "block", "release", "killed"}, alone : BOOLEAN, kept : BOOLEAN]

Holds == [dir : Assignments \cup {Nobody}, session : Sessions, turn : 1..Turns, at : Nat,
          by : Evaluations]

Observations == [by : Evaluations, dir : Assignments \cup {Nobody}, state : States,
                 held : BOOLEAN]

FactsOK ==
  /\ declared \in Seq(Assignments)
  /\ bound \in [Assignments -> Sessions \cup {Nobody}]
  /\ conflicts \subseteq Assignments \X Sessions
  /\ claims \subseteq Declared \X Sessions
  /\ registered \subseteq Assignments
  /\ dispositions \subseteq [dir : Assignments, session : Sessions, turn : 1..Turns,
                             outcome : {"waiting", "ready"}]

RelayOK ==
  /\ opened \in Seq(Assignments)
  /\ head \in {NoHead} \cup [session : Sessions, turn : 1..Turns, stage : {"staged", "final"}]
  /\ intact \in BOOLEAN

HostOK ==
  /\ turn \in [Sessions -> 1..Turns]
  /\ again \in [Sessions -> BOOLEAN]
  /\ stopping \subseteq Sessions
  /\ copies \subseteq Copies

GuardsOK ==
  /\ DOMAIN guards \subseteq Evaluations
  /\ guards \in [DOMAIN guards -> Guards]
  /\ holds \subseteq Holds
  /\ observations \subseteq Observations

ClocksOK == now \in Nat /\ misses \in Nat

GuardTypeOK == FactsOK /\ RelayOK /\ HostOK /\ GuardsOK /\ ClocksOK

(***************************************************************************)
(* The strengthening, a part at a time.                                    *)
(***************************************************************************)
Past(e, phases) == guards[e].phase \in phases
Omits(e)        == guards[e].state \in Omissions
Weighed         == {"weighed", "recording", "giving", "printed"}

\* Of any assignments one was published last.
NewestThere ==
  \A P \in SUBSET Assignments :
    P \cap Declared # {} =>
      \E i \in DOMAIN declared :
        declared[i] \in P /\ \A j \in DOMAIN declared : declared[j] \in P => j <= i

\* The adapter that still waits is one of those of the Stop under way.
Current(e) ==
  /\ e.copy \in copies
  /\ e.turn <= turn[e.session]
  /\ e.turn = turn[e.session] /\ e.again => again[e.session]
  /\ Waits(e) => e.session \in stopping /\ e \in Evaluating(e.session)

OfItsTurn ==
  /\ \A e \in DOMAIN guards : Current(e)
  /\ \A s \in Sessions \ stopping : Evaluating(s) \cap DOMAIN guards = {}
  /\ \A s \in stopping : Evaluating(s) \subseteq DOMAIN guards

Unasked(e) == At(e, "asked") => guards[e].state = "none" /\ guards[e].dir = Nobody

\* What was left out was left out by the child of the assignment it claimed, and while the
\* adapter waits it still is.
Owes(e) ==
  LET a == guards[e].dir
  IN  /\ a # Nobody /\ bound[a] # Nobody
      /\ bound[a] = e.session /\ <<a, e.session>> \in claims
      /\ e.session \in stopping /\ e \in Evaluating(e.session) => a = Selected(e.session)
      /\ Waits(e) => /\ ~Says(a, e.session, e.turn, "waiting")
                     /\ guards[e].state = "receipt_missing" => ~Stands(e.session, e.turn)

Omitted ==
  \A e \in DOMAIN guards :
    /\ Unasked(e)
    /\ Omits(e) => Owes(e)
    /\ Omits(e) /\ Past(e, Weighed) => ~e.again
    /\ At(e, "giving") => Omits(e)

\* A hold is its evaluation's, one of a turn, and who is about to hold has one.
IsOf(h, e) ==
  h.by = e /\ h.dir = guards[e].dir /\ h.session = e.session /\ h.turn = e.turn
  /\ h.at = guards[e].at

Held ==
  /\ IsFiniteSet(holds)
  /\ \A h \in holds :
       /\ h.by \in DOMAIN guards /\ IsOf(h, h.by)
       /\ Past(h.by, {"recording", "giving", "faulted", "printed", "ended"})
       /\ At(h.by, "recording") => Omits(h.by)
  /\ \A h, k \in holds : h.dir = k.dir /\ h.session = k.session /\ h.turn = k.turn => h = k
  /\ \A e \in DOMAIN guards :
       Omits(e) /\ Past(e, {"recording", "giving", "printed"}) => \E h \in holds : h.by = e

BlocksPrinted == \A e \in Blocked : At(e, "printed") /\ Omits(e)

\* What blocked before, when this evaluation weighed its hold.
EarlierIn(e)  == {f \in Blocked : /\ f.session = e.session /\ f.turn < e.turn
                                  /\ guards[f].dir = guards[e].dir}
EarlierNear(e) == {f \in Blocked : /\ f.session = e.session /\ f.turn < e.turn
                                   /\ guards[f].at + Window > guards[e].at}

Spent ==
  \A e \in DOMAIN guards :
    Waits(e) /\ Omits(e) /\ Past(e, Weighed) =>
      /\ IsFiniteSet(EarlierIn(e)) /\ Cardinality(EarlierIn(e)) <= 1
      /\ IsFiniteSet(EarlierNear(e)) /\ Cardinality(EarlierNear(e)) <= 2

\* What an evaluation leaves behind.
OnRecord(e) == \E o \in observations : o.by = e /\ o.held /\ o.dir = guards[e].dir

Accounted ==
  /\ \A h \in holds :
       \/ OnRecord(h.by)
       \/ Past(h.by, {"recording", "giving", "ended"})
       \/ guards[h.by].kept
  /\ \A e \in DOMAIN guards : Omits(e) /\ At(e, "printed") => OnRecord(e)

ClaimedAlone ==
  \A e \in DOMAIN guards :
    /\ guards[e].alone => \E a \in Declared : <<a, e.session>> \in claims
    /\ guards[e].alone /\ guards[e].dir # Nobody => <<guards[e].dir, e.session>> \in claims
    /\ At(e, "printed") /\ guards[e].dir # Nobody /\ guards[e].state # "guard_faulted" =>
         \E o \in observations : o.by = e

OnceATurn == \A e, f \in Blocked : e.session = f.session /\ e.turn = f.turn => e = f

InGeneration(a) == {e \in Blocked : guards[e].dir = a}
InWindow(e) == {f \in Blocked : /\ f.session = e.session
                                /\ guards[f].at <= guards[e].at
                                /\ guards[f].at + Window > guards[e].at}

FewEnough ==
  /\ IsFiniteSet(Blocked)
  /\ \A a \in Assignments : Cardinality(InGeneration(a)) <= MaxHoldsPerGeneration
  /\ \A e \in Blocked : Cardinality(InWindow(e)) <= MaxHoldsPerWindow
-----------------------------------------------------------------------------
(***************************************************************************)
(* What a step of one evaluation does to it, and to the others nothing.    *)
(***************************************************************************)
Others(e) ==
  /\ DOMAIN guards' = DOMAIN guards
  /\ \A f \in DOMAIN guards : f # e => guards'[f] = guards[f]

Goes(e, phase) == guards'[e].phase = phase /\ guards'[e].alone = guards[e].alone

\* Its assignment and clock are settled, and what it told the adapter is not touched.
Settled(e) == guards'[e].dir = guards[e].dir /\ guards'[e].at = guards[e].at

SameAnswer(e) == guards'[e].answer = guards[e].answer

\* The step of an evaluation, apart from what it reads and writes elsewhere.
Advances(e, phase, state) ==
  /\ Others(e) /\ guards'[e] \in Guards /\ Goes(e, phase) /\ Settled(e) /\ SameAnswer(e)
  /\ guards'[e].state = state

LEMMA BecomesIs ==
  ASSUME NEW e \in DOMAIN guards, guards \in [DOMAIN guards -> Guards],
         NEW g \in Guards, Becomes(e, g)
  PROVE  Others(e) /\ guards'[e] = g /\ guards' \in [DOMAIN guards' -> Guards]
BY DEF Becomes, Others

LEMMA OmissionsAreStates == Omissions \subseteq States
BY DEF States

LEMMA DecidedIsState ==
  ASSUME NEW e, NEW spent, guards[e].state \in Omissions
  PROVE  Decided(e, spent) \in {"unresolved_handoff", "hold_in_flight", guards[e].state}
BY DEF Decided

LEMMA WeighIs ==
  ASSUME GuardsOK, NEW e \in DOMAIN guards, Weigh(e)
  PROVE  /\ guards[e].phase = "judged" /\ Advances(e, "weighed", guards'[e].state)
         /\ guards' \in [DOMAIN guards' -> Guards] /\ guards'[e].kept = guards[e].kept
         /\ UNCHANGED <<facts, relay, host, holds, observations, now>>
         /\ guards'[e].state \in Omissions =>
              /\ guards[e].state \in Omissions /\ guards'[e].state = guards[e].state
              /\ guards'[e].state = Decided(e, Cardinality(HoldsOfTurn(guards[e].dir, e)))
<1>1. guards[e] \in Guards
  BY DEF GuardsOK
<1> DEFINE d == IF guards[e].state \in Omissions
                THEN Decided(e, Cardinality(HoldsOfTurn(guards[e].dir, e)))
                ELSE guards[e].state
           g == [guards[e] EXCEPT !.phase = "weighed", !.state = d]
           u == [guards[e] EXCEPT !.phase = "weighed", !.state = "state_unreadable"]
<1>2. d \in States
  BY <1>1, DecidedIsState, OmissionsAreStates DEF Guards, States
<1>3. d \in Omissions => guards[e].state \in Omissions /\ d = guards[e].state
  BY DecidedIsState DEF Omissions
<1>3a. guards[e].state \in Omissions =>
        d = Decided(e, Cardinality(HoldsOfTurn(guards[e].dir, e)))
  OBVIOUS
<1> HIDE DEF d
<1>4. /\ g \in Guards /\ g.phase = "weighed" /\ g.state = d /\ g.alone = guards[e].alone
      /\ g.dir = guards[e].dir /\ g.at = guards[e].at /\ g.answer = guards[e].answer
      /\ g.kept = guards[e].kept
  BY <1>1, <1>2 DEF Guards, Phases
<1>5. /\ u \in Guards /\ u.phase = "weighed" /\ u.state = "state_unreadable"
      /\ u.alone = guards[e].alone /\ u.dir = guards[e].dir /\ u.at = guards[e].at
      /\ u.answer = guards[e].answer /\ u.kept = guards[e].kept
  BY <1>1 DEF Guards, Phases, States
<1>6. /\ guards[e].phase = "judged"
      /\ Becomes(e, g) \/ Becomes(e, u)
      /\ UNCHANGED <<facts, relay, host, holds, observations, now>>
  BY DEF Weigh, At, d
<1>6a. guards[e].phase = "judged" /\ UNCHANGED <<facts, relay, host, holds, observations, now>>
  BY DEF Weigh, At
<1> HIDE DEF g, u
<1>7. CASE Becomes(e, g)
  <2>1. Others(e) /\ guards'[e] = g /\ guards' \in [DOMAIN guards' -> Guards]
    BY <1>4, <1>7, BecomesIs DEF GuardsOK
  <2> QED
    BY <2>1, <1>3, <1>3a, <1>4, <1>6a DEF Advances, Goes, Settled, SameAnswer
<1>8. CASE Becomes(e, u)
  <2>1. Others(e) /\ guards'[e] = u /\ guards' \in [DOMAIN guards' -> Guards]
    BY <1>5, <1>8, BecomesIs DEF GuardsOK
  <2> QED
    BY <2>1, <1>5, <1>6a DEF Advances, Goes, Settled, SameAnswer, Omissions
<1> QED
  BY <1>6, <1>7, <1>8

LEMMA PhaseIs ==
  ASSUME GuardsOK, NEW e \in DOMAIN guards, NEW p \in Phases,
         Becomes(e, [guards[e] EXCEPT !.phase = p])
  PROVE  /\ Advances(e, p, guards[e].state) /\ guards' \in [DOMAIN guards' -> Guards]
         /\ guards'[e].kept = guards[e].kept
<1>1. guards[e] \in Guards
  BY DEF GuardsOK
<1> DEFINE g == [guards[e] EXCEPT !.phase = p]
<1>2. /\ g \in Guards /\ g.phase = p /\ g.state = guards[e].state /\ g.alone = guards[e].alone
      /\ g.dir = guards[e].dir /\ g.at = guards[e].at /\ g.answer = guards[e].answer
      /\ g.kept = guards[e].kept
  BY <1>1 DEF Guards
<1>3. Becomes(e, g)
  OBVIOUS
<1> HIDE DEF g
<1>4. Others(e) /\ guards'[e] = g /\ guards' \in [DOMAIN guards' -> Guards]
  BY <1>2, <1>3, BecomesIs DEF GuardsOK
<1> QED
  BY <1>2, <1>4 DEF Advances, Goes, Settled, SameAnswer

LEMMA PhaseStateIs ==
  ASSUME GuardsOK, NEW e \in DOMAIN guards, NEW p \in Phases, NEW t \in States,
         Becomes(e, [guards[e] EXCEPT !.phase = p, !.state = t])
  PROVE  /\ Advances(e, p, t) /\ guards' \in [DOMAIN guards' -> Guards]
         /\ guards'[e].kept = guards[e].kept
<1>1. guards[e] \in Guards
  BY DEF GuardsOK
<1> DEFINE g == [guards[e] EXCEPT !.phase = p, !.state = t]
<1>2. /\ g \in Guards /\ g.phase = p /\ g.state = t /\ g.alone = guards[e].alone
      /\ g.dir = guards[e].dir /\ g.at = guards[e].at /\ g.answer = guards[e].answer
      /\ g.kept = guards[e].kept
  BY <1>1 DEF Guards
<1>3. Becomes(e, g)
  OBVIOUS
<1> HIDE DEF g
<1>4. Others(e) /\ guards'[e] = g /\ guards' \in [DOMAIN guards' -> Guards]
  BY <1>2, <1>3, BecomesIs DEF GuardsOK
<1> QED
  BY <1>2, <1>4 DEF Advances, Goes, Settled, SameAnswer

LEMMA JudgeIs ==
  ASSUME FactsOK, GuardsOK, ClocksOK, NEW e \in DOMAIN guards, Judge(e),
         Selected(e.session) \in Assignments \cup {Nobody}
  PROVE  /\ guards[e].phase = "asked"
         /\ Others(e) /\ guards'[e] \in Guards /\ Goes(e, "judged") /\ SameAnswer(e)
         /\ guards' \in [DOMAIN guards' -> Guards] /\ guards'[e].kept = guards[e].kept
         /\ UNCHANGED <<facts, relay, host, holds, observations, now>>
         /\ guards'[e].dir \in {Selected(e.session), Nobody}
         /\ guards'[e].state \in Omissions =>
              /\ guards'[e].dir = Selected(e.session)
              /\ guards'[e].state = StateObserved(Selected(e.session), e.session, e.turn)
<1> DEFINE a == Selected(e.session)
           t == StateObserved(a, e.session, e.turn)
<1>1. guards[e] \in Guards /\ now \in Nat
  BY DEF GuardsOK, ClocksOK
<1>2. t \in States
  BY DEF StateObserved, Classified, States, Omissions
<1>3. /\ guards[e].phase = "asked" /\ UNCHANGED <<facts, relay, host, holds, observations, now>>
      /\ \/ Becomes(e, [guards[e] EXCEPT !.phase = "judged", !.at = now, !.dir = a, !.state = t])
         \/ \E dir \in {a, Nobody} :
              Becomes(e, [guards[e] EXCEPT !.phase = "judged", !.at = now, !.dir = dir,
                                           !.state = "state_unreadable"])
  BY DEF Judge, At
<1> HIDE DEF a, t
<1>4. \A dir \in {a, Nobody}, u \in States :
        LET g == [guards[e] EXCEPT !.phase = "judged", !.at = now, !.dir = dir, !.state = u]
        IN  Becomes(e, g) =>
              /\ Others(e) /\ guards'[e] \in Guards /\ Goes(e, "judged") /\ SameAnswer(e)
              /\ guards' \in [DOMAIN guards' -> Guards] /\ guards'[e].kept = guards[e].kept
              /\ guards'[e].dir = dir /\ guards'[e].state = u
  <2> SUFFICES ASSUME NEW dir \in {a, Nobody}, NEW u \in States,
                      Becomes(e, [guards[e] EXCEPT !.phase = "judged", !.at = now, !.dir = dir,
                                                   !.state = u])
               PROVE  /\ Others(e) /\ guards'[e] \in Guards /\ Goes(e, "judged") /\ SameAnswer(e)
                      /\ guards' \in [DOMAIN guards' -> Guards]
                      /\ guards'[e].kept = guards[e].kept
                      /\ guards'[e].dir = dir /\ guards'[e].state = u
    OBVIOUS
  <2> DEFINE g == [guards[e] EXCEPT !.phase = "judged", !.at = now, !.dir = dir, !.state = u]
  <2>0. a \in Assignments \cup {Nobody}
    BY DEF a
  <2>1. /\ g \in Guards /\ g.phase = "judged" /\ g.state = u /\ g.alone = guards[e].alone
        /\ g.dir = dir /\ g.answer = guards[e].answer /\ g.kept = guards[e].kept
    BY <1>1, <2>0 DEF Guards, Phases
  <2>2. Becomes(e, g)
    OBVIOUS
  <2> HIDE DEF g
  <2>3. Others(e) /\ guards'[e] = g /\ guards' \in [DOMAIN guards' -> Guards]
    BY <2>1, <2>2, BecomesIs DEF GuardsOK
  <2> QED
    BY <2>1, <2>3 DEF Goes, SameAnswer
<1>5. CASE Becomes(e, [guards[e] EXCEPT !.phase = "judged", !.at = now, !.dir = a, !.state = t])
  <2>1. /\ Others(e) /\ guards'[e] \in Guards /\ Goes(e, "judged") /\ SameAnswer(e)
        /\ guards' \in [DOMAIN guards' -> Guards] /\ guards'[e].kept = guards[e].kept
        /\ guards'[e].dir = a /\ guards'[e].state = t
    BY <1>2, <1>4, <1>5
  <2> QED
    BY <1>3, <2>1 DEF a, t
<1>6. CASE \E dir \in {a, Nobody} :
             Becomes(e, [guards[e] EXCEPT !.phase = "judged", !.at = now, !.dir = dir,
                                          !.state = "state_unreadable"])
  <2>1. "state_unreadable" \in States /\ "state_unreadable" \notin Omissions
    BY DEF States, Omissions
  <2>2. PICK dir \in {a, Nobody} :
          /\ Others(e) /\ guards'[e] \in Guards /\ Goes(e, "judged") /\ SameAnswer(e)
          /\ guards' \in [DOMAIN guards' -> Guards] /\ guards'[e].kept = guards[e].kept
          /\ guards'[e].dir = dir /\ guards'[e].state = "state_unreadable"
    BY <1>4, <1>6, <2>1
  <2> QED
    BY <1>3, <2>1, <2>2 DEF a
<1> QED
  BY <1>3, <1>5, <1>6

LEMMA AnswersIs ==
  ASSUME GuardsOK, NEW e \in DOMAIN guards, NEW answer \in {"block", "release", "killed"},
         AnswerIs(e, answer)
  PROVE  /\ Others(e) /\ guards'[e] \in Guards /\ Goes(e, guards[e].phase) /\ Settled(e)
         /\ guards'[e].state = guards[e].state /\ guards'[e].answer = answer
         /\ guards' \in [DOMAIN guards' -> Guards] /\ guards'[e].kept = guards[e].kept
<1>1. guards[e] \in Guards /\ guards' = [guards EXCEPT ![e] = [guards[e] EXCEPT !.answer = answer]]
  BY DEF GuardsOK, AnswerIs
<1> DEFINE g == [guards[e] EXCEPT !.answer = answer]
<1>2. /\ g \in Guards /\ g.phase = guards[e].phase /\ g.state = guards[e].state
      /\ g.alone = guards[e].alone /\ g.dir = guards[e].dir /\ g.at = guards[e].at
      /\ g.answer = answer /\ g.kept = guards[e].kept
  BY <1>1 DEF Guards
<1>3. Becomes(e, g)
  BY <1>1 DEF Becomes
<1> HIDE DEF g
<1>4. Others(e) /\ guards'[e] = g /\ guards' \in [DOMAIN guards' -> Guards]
  BY <1>2, <1>3, BecomesIs DEF GuardsOK
<1> QED
  BY <1>2, <1>4 DEF Goes, Settled

LEMMA TimesOutIs ==
  ASSUME GuardsOK, NEW e \in DOMAIN guards, TimesOut(e)
  PROVE  /\ guards[e].answer = "none" /\ guards[e].phase \notin {"printed", "ended"}
         /\ Others(e) /\ guards'[e] \in Guards /\ Goes(e, "ended") /\ Settled(e)
         /\ guards'[e].state = guards[e].state /\ guards'[e].answer = "release"
         /\ guards' \in [DOMAIN guards' -> Guards] /\ guards'[e].kept = guards[e].kept
         /\ UNCHANGED <<facts, relay, host, holds, observations, now>>
<1>1. /\ guards[e] \in Guards
      /\ guards' = [guards EXCEPT ![e] = [guards[e] EXCEPT !.phase = "ended", !.answer = "release"]]
      /\ guards[e].answer = "none" /\ guards[e].phase \notin {"printed", "ended"}
      /\ UNCHANGED <<facts, relay, host, holds, observations, now>>
  BY DEF GuardsOK, TimesOut, Waits
<1> DEFINE g == [guards[e] EXCEPT !.phase = "ended", !.answer = "release"]
<1>2. /\ g \in Guards /\ g.phase = "ended" /\ g.state = guards[e].state
      /\ g.alone = guards[e].alone /\ g.dir = guards[e].dir /\ g.at = guards[e].at
      /\ g.answer = "release" /\ g.kept = guards[e].kept
  BY <1>1 DEF Guards, Phases
<1>3. Becomes(e, g)
  BY <1>1 DEF Becomes
<1> HIDE DEF g
<1>4. Others(e) /\ guards'[e] = g /\ guards' \in [DOMAIN guards' -> Guards]
  BY <1>2, <1>3, BecomesIs DEF GuardsOK
<1> QED
  BY <1>1, <1>2, <1>4 DEF Goes, Settled
-----------------------------------------------------------------------------
(***************************************************************************)
(* The selection of an assignment.                                         *)
(***************************************************************************)
LEMMA NewestIs ==
  ASSUME NewestThere, FactsOK, NEW pool \in SUBSET Declared, pool # {}
  PROVE  declared[Max({i \in DOMAIN declared : declared[i] \in pool})] \in pool
<1> DEFINE S == {i \in DOMAIN declared : declared[i] \in pool}
<1>1. pool \subseteq Assignments /\ pool \cap Declared # {}
  BY DEF FactsOK, Declared, Range
<1>2. PICK i \in DOMAIN declared :
        declared[i] \in pool /\ \A j \in DOMAIN declared : declared[j] \in pool => j <= i
  BY <1>1 DEF NewestThere
<1>3. i \in S /\ \A j \in S : i >= j
  BY <1>2 DEF FactsOK
<1>4. Max(S) \in S
  BY <1>3 DEF Max
<1> QED
  BY <1>4

LEMMA SelectedIs ==
  ASSUME NewestThere, FactsOK, NEW s \in Sessions
  PROVE  /\ Selected(s) \in Assignments \cup {Nobody}
         /\ Claimed(s) # {} => Selected(s) \in Claimed(s)
<1>1. Claimed(s) \subseteq Declared /\ Declared \subseteq Assignments
  BY DEF Claimed, FactsOK, Declared, Range
<1>2. CASE Claimed(s) # {}
  BY <1>1, <1>2, NewestIs DEF Selected
<1>3. CASE Claimed(s) = {} /\ Declared # {}
  <2>1. Selected(s) \in Declared
    BY <1>3, NewestIs DEF Selected
  <2> QED
    BY <1>1, <1>3, <2>1
<1>4. CASE Claimed(s) = {} /\ Declared = {}
  BY <1>4 DEF Selected
<1> QED
  BY <1>2, <1>3, <1>4

LEMMA DeclareIs ==
  ASSUME FactsOK, NEW a \in Assignments, Declare(a)
  PROVE  /\ declared' \in Seq(Assignments) /\ Declared' = Declared \cup {a} /\ a \notin Declared
         /\ DOMAIN declared' = DOMAIN declared \cup {Len(declared) + 1}
         /\ Len(declared) + 1 \notin DOMAIN declared /\ declared'[Len(declared) + 1] = a
         /\ \A i \in DOMAIN declared : declared'[i] = declared[i] /\ i <= Len(declared) + 1
<1>1. declared \in Seq(Assignments) /\ declared' = Append(declared, a) /\ a \notin Declared
  BY DEF FactsOK, Declare
<1>2. /\ declared' \in Seq(Assignments) /\ Len(declared) \in Nat
      /\ DOMAIN declared' = 1..(Len(declared) + 1) /\ DOMAIN declared = 1..Len(declared)
      /\ \A i \in 1..Len(declared) : declared'[i] = declared[i]
      /\ declared'[Len(declared) + 1] = a
  BY <1>1
<1>3. DOMAIN declared' = DOMAIN declared \cup {Len(declared) + 1}
  BY <1>2
<1>4. Declared' = Declared \cup {a}
  BY <1>2, <1>3 DEF Declared, Range
<1> QED
  BY <1>1, <1>2, <1>3, <1>4

LEMMA NewestKept ==
  ASSUME FactsOK, NewestThere, [GuardNext]_guardVars
  PROVE  NewestThere'
<1>1. CASE UNCHANGED declared
  BY <1>1 DEF NewestThere, Declared
<1>2. ASSUME NEW a \in Assignments, Declare(a)
      PROVE  NewestThere'
  <2> SUFFICES ASSUME NEW P \in SUBSET Assignments, P \cap Declared' # {}
               PROVE  \E i \in DOMAIN declared' :
                        declared'[i] \in P /\ \A j \in DOMAIN declared' : declared'[j] \in P => j <= i
    BY DEF NewestThere
  <2> DEFINE n == Len(declared) + 1
  <2>0. n \in Nat
    BY DEF FactsOK
  <2>1. /\ Declared' = Declared \cup {a} /\ a \notin Declared
        /\ DOMAIN declared' = DOMAIN declared \cup {n}
        /\ n \notin DOMAIN declared /\ declared'[n] = a
        /\ \A i \in DOMAIN declared : declared'[i] = declared[i] /\ i <= n
    BY <1>2, DeclareIs
  <2> HIDE DEF n
  <2>2. CASE a \in P
    <3>1. n \in DOMAIN declared' /\ declared'[n] \in P /\ \A j \in DOMAIN declared' : j <= n
      BY <2>0, <2>1, <2>2
    <3> QED
      BY <3>1
  <2>3. CASE a \notin P
    <3>1. P \cap Declared # {}
      BY <2>1, <2>3
    <3>2. PICK i \in DOMAIN declared :
            declared[i] \in P /\ \A j \in DOMAIN declared : declared[j] \in P => j <= i
      BY <3>1 DEF NewestThere
    <3>3. i \in DOMAIN declared' /\ declared'[i] \in P
      BY <2>1, <3>2
    <3>4. \A j \in DOMAIN declared' : declared'[j] \in P => j <= i
      BY <2>1, <2>3, <3>2
    <3> QED
      BY <3>3, <3>4
  <2> QED
    BY <2>2, <2>3
<1>3. UNCHANGED declared \/ \E a \in Assignments : Declare(a)
  BY DEF GuardNext, Publish, Evaluate, Bind, RegisterRelationship, OpenGeneration, PublishClaim,
     PublishDisposition, Emit, Finalize, ArtifactsChange, Stop, GoOn, Tick, Judge, Weigh, Proceed,
     Reserve, Record, RecordFails, GiveBack, Fault, Answer, TimesOut, GuardDies, AdapterDies,
     facts, guardVars
<1> QED
  BY <1>1, <1>2, <1>3

-----------------------------------------------------------------------------
(***************************************************************************)
(* The other steps: facts come and stay, turns end and begin.              *)
(***************************************************************************)

\* Facts are published once, and nothing of the host or of an evaluation moves with them.
FactsGrow ==
  /\ Declared \subseteq Declared' /\ claims \subseteq claims' /\ registered \subseteq registered'
  /\ \A a \in Assignments : bound[a] # Nobody => bound'[a] = bound[a]

Aside == UNCHANGED <<host, guards, holds, observations>>

LEMMA PublishIs ==
  ASSUME FactsOK, Publish
  PROVE  FactsGrow /\ Aside /\ UNCHANGED clocks
<1>1. ASSUME NEW a \in Assignments, Declare(a)
      PROVE  FactsGrow /\ Aside /\ UNCHANGED clocks
  BY <1>1, DeclareIs DEF Declare, FactsGrow, Aside, host, clocks, relay
<1>2. ASSUME NEW a \in Assignments, RegisterRelationship(a)
      PROVE  FactsGrow /\ Aside /\ UNCHANGED clocks
  BY <1>2 DEF RegisterRelationship, FactsGrow, Aside, host, clocks, relay, Declared
<1>3. ASSUME NEW a \in Assignments, OpenGeneration(a)
      PROVE  FactsGrow /\ Aside /\ UNCHANGED clocks
  BY <1>3 DEF OpenGeneration, FactsGrow, Aside, host, clocks, facts, Declared
<1>4. ASSUME NEW a \in Assignments, NEW s \in Sessions, Bind(a, s)
      PROVE  FactsGrow /\ Aside /\ UNCHANGED clocks
  <2>1. Aside /\ UNCHANGED <<clocks, declared, claims, registered>>
    BY <1>4 DEF Bind, Aside, host, clocks, relay
  <2>2. bound' = bound \/ (bound[a] = Nobody /\ bound' = [bound EXCEPT ![a] = s])
    BY <1>4 DEF Bind
  <2> QED
    BY <2>1, <2>2 DEF FactsGrow, FactsOK, Declared
<1>5. ASSUME NEW a \in Declared, NEW s \in Sessions, PublishClaim(a, s)
      PROVE  FactsGrow /\ Aside /\ UNCHANGED clocks
  BY <1>5 DEF PublishClaim, FactsGrow, Aside, host, clocks, relay, Declared
<1>6. ASSUME NEW a \in Declared, NEW s \in Sessions, NEW outcome, PublishDisposition(a, s, outcome)
      PROVE  FactsGrow /\ Aside /\ UNCHANGED clocks
  BY <1>6 DEF PublishDisposition, FactsGrow, Aside, host, clocks, relay, Declared
<1>7. ASSUME (\E s \in Sessions : Emit(s)) \/ Finalize \/ ArtifactsChange
      PROVE  FactsGrow /\ Aside /\ UNCHANGED clocks
  BY <1>7 DEF Emit, Finalize, ArtifactsChange, FactsGrow, Aside, host, clocks, facts, Declared
<1> QED
  BY <1>1, <1>2, <1>3, <1>4, <1>5, <1>6, <1>7 DEF Publish

LEMMA StopIs ==
  ASSUME GuardsOK, NEW s \in Sessions, Stop(s)
  PROVE  /\ s \notin stopping /\ stopping' = stopping \cup {s}
         /\ UNCHANGED <<facts, relay, turn, again, copies, holds, observations, clocks>>
         /\ DOMAIN guards' = DOMAIN guards \cup Evaluating(s)
         /\ \A e \in Evaluating(s) : guards'[e] = Started(ClaimsOnlyOne(s))
         /\ \A e \in DOMAIN guards : e \notin Evaluating(s) => guards'[e] = guards[e]
         /\ Started(ClaimsOnlyOne(s)) \in Guards
<1>1. /\ s \notin stopping /\ stopping' = stopping \cup {s}
      /\ UNCHANGED <<facts, relay, turn, again, copies, holds, observations, clocks>>
  BY DEF Stop, Working
<1>2. guards' = [e \in DOMAIN guards \cup Evaluating(s) |->
                   IF e \in Evaluating(s) THEN Started(ClaimsOnlyOne(s)) ELSE guards[e]]
  BY DEF Stop
<1>3. ClaimsOnlyOne(s) \in BOOLEAN
  BY DEF ClaimsOnlyOne
<1>4. Started(ClaimsOnlyOne(s)) \in Guards
  BY <1>3 DEF Started, Guards, Phases, States
<1>5. DOMAIN guards' = DOMAIN guards \cup Evaluating(s)
  BY <1>2
<1> QED
  BY <1>1, <1>2, <1>4, <1>5

-----------------------------------------------------------------------------
(***************************************************************************)
(* The steps of an evaluation, one by one.                                 *)
(***************************************************************************)
Elsewhere == UNCHANGED <<facts, relay, host, now>>

LEMMA ProceedIs ==
  ASSUME GuardsOK, NEW e \in DOMAIN guards, Proceed(e)
  PROVE  /\ guards[e].phase = "weighed" /\ guards[e].state \notin Omissions
         /\ Advances(e, "recording", guards[e].state) /\ guards'[e].kept = guards[e].kept
         /\ guards' \in [DOMAIN guards' -> Guards]
         /\ Elsewhere /\ UNCHANGED <<holds, observations, misses>>
<1>1. /\ guards[e].phase = "weighed" /\ guards[e].state \notin Omissions
      /\ Becomes(e, [guards[e] EXCEPT !.phase = "recording"])
      /\ Elsewhere /\ UNCHANGED <<holds, observations, misses>>
  BY DEF Proceed, At, Elsewhere, clocks
<1> QED
  BY <1>1, PhaseIs DEF Phases

NewHold(e) == [dir |-> guards[e].dir, session |-> e.session, turn |-> e.turn,
               at |-> guards[e].at, by |-> e]

LEMMA ReserveIs ==
  ASSUME GuardsOK, NEW e \in DOMAIN guards, Reserve(e)
  PROVE  /\ guards[e].phase = "weighed" /\ guards[e].state \in Omissions
         /\ \/ /\ HoldsOfTurn(guards[e].dir, e) = {} /\ holds' = holds \cup {NewHold(e)}
               /\ Advances(e, "recording", guards[e].state)
            \/ UNCHANGED holds /\ Advances(e, "recording", "hold_in_flight")
         /\ guards'[e].kept = guards[e].kept /\ guards' \in [DOMAIN guards' -> Guards]
         /\ Elsewhere /\ UNCHANGED <<observations, misses>>
<1>1. /\ guards[e].phase = "weighed" /\ guards[e].state \in Omissions
      /\ Elsewhere /\ UNCHANGED <<observations, misses>>
  BY DEF Reserve, At, Elsewhere, clocks
<1>2. CASE HoldsOfTurn(guards[e].dir, e) = {}
  <2>1. /\ holds' = holds \cup {NewHold(e)}
        /\ Becomes(e, [guards[e] EXCEPT !.phase = "recording"])
    BY <1>2 DEF Reserve, NewHold
  <2> QED
    BY <1>1, <1>2, <2>1, PhaseIs DEF Phases
<1>3. CASE HoldsOfTurn(guards[e].dir, e) # {}
  <2>1. /\ UNCHANGED holds
        /\ Becomes(e, [guards[e] EXCEPT !.phase = "recording", !.state = "hold_in_flight"])
    BY <1>3 DEF Reserve
  <2> QED
    BY <1>1, <2>1, PhaseStateIs DEF Phases, States
<1> QED
  BY <1>2, <1>3

LEMMA RecordIs ==
  ASSUME GuardsOK, NEW e \in DOMAIN guards, Record(e)
  PROVE  /\ guards[e].phase = "recording"
         /\ Advances(e, "printed", guards[e].state) /\ guards'[e].kept = guards[e].kept
         /\ guards' \in [DOMAIN guards' -> Guards]
         /\ observations' = IF guards[e].dir = Nobody THEN observations
                            ELSE observations \cup {Observation(e)}
         /\ Elsewhere /\ UNCHANGED <<holds, misses>>
<1>1. /\ guards[e].phase = "recording"
      /\ Becomes(e, [guards[e] EXCEPT !.phase = "printed"])
      /\ observations' = IF guards[e].dir = Nobody THEN observations
                         ELSE observations \cup {Observation(e)}
      /\ Elsewhere /\ UNCHANGED <<holds, misses>>
  BY DEF Record, At, Elsewhere, clocks
<1> QED
  BY <1>1, PhaseIs DEF Phases

LEMMA RecordFailsIs ==
  ASSUME GuardsOK, NEW e \in DOMAIN guards, RecordFails(e)
  PROVE  /\ guards[e].phase = "recording" /\ guards[e].dir # Nobody
         /\ \/ guards[e].state \in Omissions /\ Advances(e, "giving", guards[e].state)
            \/ guards[e].state \notin Omissions /\ Advances(e, "faulted", guards[e].state)
         /\ guards'[e].kept = guards[e].kept /\ guards' \in [DOMAIN guards' -> Guards]
         /\ Elsewhere /\ UNCHANGED <<holds, observations>>
<1> DEFINE p == IF guards[e].state \in Omissions THEN "giving" ELSE "faulted"
<1>1. /\ guards[e].phase = "recording" /\ guards[e].dir # Nobody
      /\ Becomes(e, [guards[e] EXCEPT !.phase = p])
      /\ Elsewhere /\ UNCHANGED <<holds, observations>>
  BY DEF RecordFails, At, Elsewhere
<1>2. p \in Phases
  BY DEF Phases
<1>3. /\ Advances(e, p, guards[e].state) /\ guards' \in [DOMAIN guards' -> Guards]
      /\ guards'[e].kept = guards[e].kept
  BY <1>1, <1>2, PhaseIs
<1> QED
  BY <1>1, <1>3

LEMMA GiveBackIs ==
  ASSUME GuardsOK, NEW e \in DOMAIN guards, GiveBack(e)
  PROVE  /\ guards[e].phase = "giving"
         /\ \/ /\ holds' = holds \ HoldsOfTurn(guards[e].dir, e)
               /\ guards'[e].kept = guards[e].kept
            \/ UNCHANGED holds /\ guards'[e].kept = TRUE
         /\ Advances(e, "faulted", guards[e].state) /\ guards' \in [DOMAIN guards' -> Guards]
         /\ Elsewhere /\ UNCHANGED observations
<1>1. /\ guards[e].phase = "giving" /\ Elsewhere /\ UNCHANGED observations
  BY DEF GiveBack, At, Elsewhere
<1>2. CASE /\ holds' = holds \ HoldsOfTurn(guards[e].dir, e)
           /\ Becomes(e, [guards[e] EXCEPT !.phase = "faulted"])
  BY <1>1, <1>2, PhaseIs DEF Phases
<1>3. CASE UNCHANGED holds /\ Becomes(e, [guards[e] EXCEPT !.phase = "faulted", !.kept = TRUE])
  <2>1. guards[e] \in Guards
    BY DEF GuardsOK
  <2> DEFINE g == [guards[e] EXCEPT !.phase = "faulted", !.kept = TRUE]
  <2>2. /\ g \in Guards /\ g.phase = "faulted" /\ g.state = guards[e].state
        /\ g.alone = guards[e].alone /\ g.dir = guards[e].dir /\ g.at = guards[e].at
        /\ g.answer = guards[e].answer /\ g.kept = TRUE
    BY <2>1 DEF Guards, Phases
  <2>3. Becomes(e, g)
    BY <1>3
  <2> HIDE DEF g
  <2>4. Others(e) /\ guards'[e] = g /\ guards' \in [DOMAIN guards' -> Guards]
    BY <2>2, <2>3, BecomesIs DEF GuardsOK
  <2> QED
    BY <1>1, <1>3, <2>2, <2>4 DEF Advances, Goes, Settled, SameAnswer
<1> QED
  BY <1>2, <1>3 DEF GiveBack

LEMMA FaultIs ==
  ASSUME GuardsOK, NEW e \in DOMAIN guards, Fault(e)
  PROVE  /\ guards[e].phase = "faulted"
         /\ Advances(e, "printed", "guard_faulted") /\ guards'[e].kept = guards[e].kept
         /\ guards' \in [DOMAIN guards' -> Guards]
         /\ observations' \in {observations, observations \cup
              {[by |-> e, dir |-> guards[e].dir, state |-> "guard_faulted", held |-> FALSE]}}
         /\ Elsewhere /\ UNCHANGED holds
<1>1. /\ guards[e].phase = "faulted"
      /\ Becomes(e, [guards[e] EXCEPT !.phase = "printed", !.state = "guard_faulted"])
      /\ observations' \in {observations, observations \cup
           {[by |-> e, dir |-> guards[e].dir, state |-> "guard_faulted", held |-> FALSE]}}
      /\ Elsewhere /\ UNCHANGED holds
  BY DEF Fault, At, Elsewhere
<1> QED
  BY <1>1, PhaseStateIs DEF Phases, States

\* The adapter's answer, to an evaluation that is left as it is.
Told(e, answer) ==
  /\ Others(e) /\ guards'[e] \in Guards /\ Goes(e, guards[e].phase) /\ Settled(e)
  /\ guards'[e].state = guards[e].state /\ guards'[e].answer = answer
  /\ guards'[e].kept = guards[e].kept

LEMMA AnswerStepIs ==
  ASSUME GuardsOK, NEW e \in DOMAIN guards, Answer(e)
  PROVE  /\ guards[e].answer = "none" /\ guards[e].phase \in {"printed", "ended"}
         /\ \/ Told(e, "block") /\ guards[e].phase = "printed" /\ guards[e].state \in Omissions
            \/ Told(e, "release")
         /\ guards' \in [DOMAIN guards' -> Guards]
         /\ Elsewhere /\ UNCHANGED <<holds, observations, misses>>
<1>1. /\ guards[e].answer = "none" /\ guards[e].phase \in {"printed", "ended"}
      /\ Elsewhere /\ UNCHANGED <<holds, observations, misses>>
  BY DEF Answer, Waits, Elsewhere, clocks
<1>2. CASE Holding(e)
  <2>1. AnswerIs(e, "block") /\ guards[e].phase = "printed" /\ guards[e].state \in Omissions
    BY <1>2 DEF Answer, Holding, Delivered
  <2> QED
    BY <1>1, <2>1, AnswersIs DEF Told
<1>3. CASE ~Holding(e)
  <2>1. AnswerIs(e, "release")
    BY <1>3 DEF Answer
  <2> QED
    BY <1>1, <2>1, AnswersIs DEF Told
<1> QED
  BY <1>2, <1>3

LEMMA GuardDiesIs ==
  ASSUME GuardsOK, NEW e \in DOMAIN guards, GuardDies(e)
  PROVE  /\ guards[e].phase \notin {"printed", "ended"}
         /\ Advances(e, "ended", guards[e].state) /\ guards'[e].kept = guards[e].kept
         /\ guards' \in [DOMAIN guards' -> Guards]
         /\ Elsewhere /\ UNCHANGED <<holds, observations>>
<1>1. /\ guards[e].phase \notin {"printed", "ended"}
      /\ Becomes(e, [guards[e] EXCEPT !.phase = "ended"])
      /\ Elsewhere /\ UNCHANGED <<holds, observations>>
  <2>1. guards' = [guards EXCEPT ![e].phase = "ended"]
    BY DEF GuardDies
  <2> QED
    BY <2>1 DEF GuardDies, Becomes, Elsewhere
<1> QED
  BY <1>1, PhaseIs DEF Phases

LEMMA AdapterDiesIs ==
  ASSUME GuardsOK, NEW e \in DOMAIN guards, AdapterDies(e)
  PROVE  /\ guards[e].answer = "none" /\ Told(e, "killed")
         /\ guards' \in [DOMAIN guards' -> Guards]
         /\ Elsewhere /\ UNCHANGED <<holds, observations>>
<1>1. guards[e].answer = "none" /\ AnswerIs(e, "killed")
  BY DEF AdapterDies, Waits
<1>2. Elsewhere /\ UNCHANGED <<holds, observations>>
  BY DEF AdapterDies, Elsewhere
<1> QED
  BY <1>1, <1>2, AnswersIs DEF Told

LEMMA EvaluateIs ==
  ASSUME GuardTypeOK, NewestThere, NEW e \in DOMAIN guards, Evaluate(e)
  PROVE  /\ Others(e) /\ guards'[e] \in Guards /\ guards' \in [DOMAIN guards' -> Guards]
         /\ guards'[e].alone = guards[e].alone
         /\ guards[e].answer # "none" => SameAnswer(e)
         /\ Elsewhere
<1>0. e.session \in Sessions /\ FactsOK /\ GuardsOK /\ ClocksOK
  BY DEF GuardTypeOK, GuardsOK, Evaluations
<1>1. CASE Judge(e)
  BY <1>0, <1>1, SelectedIs, JudgeIs DEF Goes, Elsewhere
<1>2. CASE Weigh(e)
  BY <1>0, <1>2, WeighIs DEF Advances, Goes, Elsewhere
<1>3. CASE Proceed(e) \/ Record(e) \/ Fault(e) \/ GuardDies(e)
  BY <1>0, <1>3, ProceedIs, RecordIs, FaultIs, GuardDiesIs DEF Advances, Goes
<1>4. CASE Reserve(e) \/ RecordFails(e) \/ GiveBack(e)
  BY <1>0, <1>4, ReserveIs, RecordFailsIs, GiveBackIs DEF Advances, Goes
<1>5. CASE Answer(e) \/ AdapterDies(e)
  BY <1>0, <1>5, AnswerStepIs, AdapterDiesIs DEF Told, Goes
<1>6. CASE TimesOut(e)
  BY <1>0, <1>6, TimesOutIs DEF Goes, Elsewhere
<1> QED
  BY <1>1, <1>2, <1>3, <1>4, <1>5, <1>6 DEF Evaluate

LEMMA GoOnIs ==
  ASSUME HostOK, NEW s \in Sessions, GoOn(s)
  PROVE  /\ s \in stopping /\ stopping' = stopping \ {s}
         /\ \A e \in Evaluating(s) : ~Waits(e)
         /\ \/ /\ \E e \in Evaluating(s) : guards[e].answer = "block"
               /\ again' = [again EXCEPT ![s] = TRUE] /\ UNCHANGED turn
            \/ /\ turn[s] + 1 \in 1..Turns
               /\ turn' = [turn EXCEPT ![s] = turn[s] + 1]
               /\ again' = [again EXCEPT ![s] = FALSE]
         /\ UNCHANGED <<facts, relay, copies, guards, holds, observations, clocks>>
<1>1. turn[s] \in 1..Turns
  BY DEF HostOK
<1> QED
  BY <1>1, GuardAssumption DEF GoOn

LEMMA EvaluatingType ==
  ASSUME HostOK, NEW s \in Sessions
  PROVE  Evaluating(s) \subseteq Evaluations
<1>1. turn[s] \in 1..Turns /\ again[s] \in BOOLEAN /\ copies \subseteq Copies
  BY DEF HostOK
<1> QED
  BY <1>1 DEF Evaluating, Evaluations

\* A step is one of these kinds.
LEMMA StepKinds ==
  ASSUME [GuardNext]_guardVars
  PROVE  \/ Publish
         \/ \E s \in Sessions : Stop(s)
         \/ \E s \in Sessions : GoOn(s)
         \/ \E e \in DOMAIN guards : Evaluate(e)
         \/ Tick
         \/ UNCHANGED guardVars
BY DEF GuardNext

LEMMA FactsTyped ==
  ASSUME FactsOK, HostOK, Publish
  PROVE  FactsOK'
<1>1. ASSUME NEW a \in Assignments, Declare(a)
      PROVE  FactsOK'
  <2>1. declared' \in Seq(Assignments) /\ Declared \subseteq Declared'
    BY <1>1, DeclareIs
  <2>2. UNCHANGED <<bound, conflicts, claims, registered, dispositions>>
    BY <1>1 DEF Declare
  <2> QED
    BY <2>1, <2>2 DEF FactsOK
<1>2. ASSUME NEW a \in Assignments, RegisterRelationship(a)
      PROVE  FactsOK'
  BY <1>2 DEF RegisterRelationship, FactsOK, Declared
<1>3. ASSUME NEW a \in Assignments, OpenGeneration(a)
      PROVE  FactsOK'
  BY <1>3 DEF OpenGeneration, FactsOK, Declared, facts
<1>4. ASSUME NEW a \in Assignments, NEW s \in Sessions, Bind(a, s)
      PROVE  FactsOK'
  BY <1>4 DEF Bind, FactsOK, Declared
<1>5. ASSUME NEW a \in Declared, NEW s \in Sessions, PublishClaim(a, s)
      PROVE  FactsOK'
  BY <1>5 DEF PublishClaim, FactsOK, Declared
<1>6. ASSUME NEW a \in Declared, NEW s \in Sessions, NEW outcome \in {"waiting", "ready"},
             PublishDisposition(a, s, outcome)
      PROVE  FactsOK'
  <2>1. turn[s] \in 1..Turns /\ a \in Assignments
    BY DEF HostOK, FactsOK, Declared, Range
  <2> QED
    BY <1>6, <2>1 DEF PublishDisposition, FactsOK, Declared
<1>7. ASSUME (\E s \in Sessions : Emit(s)) \/ Finalize \/ ArtifactsChange
      PROVE  FactsOK'
  BY <1>7 DEF Emit, Finalize, ArtifactsChange, FactsOK, Declared, facts
<1> QED
  BY <1>1, <1>2, <1>3, <1>4, <1>5, <1>6, <1>7 DEF Publish

LEMMA RelayTyped ==
  ASSUME RelayOK, HostOK, Publish
  PROVE  RelayOK'
<1>1. CASE UNCHANGED relay
  BY <1>1 DEF RelayOK, relay
<1>2. ASSUME NEW a \in Assignments, OpenGeneration(a)
      PROVE  RelayOK'
  BY <1>2 DEF OpenGeneration, RelayOK
<1>3. ASSUME NEW s \in Sessions, Emit(s)
      PROVE  RelayOK'
  <2>1. turn[s] \in 1..Turns
    BY DEF HostOK
  <2> QED
    BY <1>3, <2>1 DEF Emit, RelayOK
<1>4. CASE Finalize
  BY <1>4 DEF Finalize, RelayOK, NoHead
<1>5. CASE ArtifactsChange
  BY <1>5 DEF ArtifactsChange, RelayOK
<1> QED
  BY <1>1, <1>2, <1>3, <1>4, <1>5
  DEF Publish, Declare, Bind, RegisterRelationship, PublishClaim, PublishDisposition

LEMMA TypeKept ==
  ASSUME GuardTypeOK, NewestThere, [GuardNext]_guardVars
  PROVE  GuardTypeOK'
<1>1. CASE Publish
  <2>1. UNCHANGED <<host, guards, holds, observations, clocks>>
    BY <1>1, PublishIs DEF GuardTypeOK, Aside
  <2>2. HostOK' /\ GuardsOK' /\ ClocksOK'
    BY <2>1 DEF GuardTypeOK, HostOK, GuardsOK, ClocksOK, host, clocks
  <2> QED
    BY <1>1, <2>2, FactsTyped, RelayTyped DEF GuardTypeOK
<1>2. ASSUME NEW s \in Sessions, Stop(s)
      PROVE  GuardTypeOK'
  <2>1. /\ stopping' = stopping \cup {s}
        /\ UNCHANGED <<facts, relay, turn, again, copies, holds, observations, clocks>>
        /\ DOMAIN guards' = DOMAIN guards \cup Evaluating(s)
        /\ \A e \in Evaluating(s) : guards'[e] \in Guards
        /\ \A e \in DOMAIN guards : e \notin Evaluating(s) => guards'[e] = guards[e]
    BY <1>2, StopIs DEF GuardTypeOK
  <2>2. guards' \in [DOMAIN guards' -> Guards]
    <3>1. guards' = [e \in DOMAIN guards \cup Evaluating(s) |-> guards'[e]]
      BY <1>2, <2>1 DEF Stop
    <3>2. \A e \in DOMAIN guards' : guards'[e] \in Guards
      BY <2>1 DEF GuardTypeOK, GuardsOK
    <3> QED
      BY <2>1, <3>1, <3>2
  <2>3. GuardsOK'
    BY <2>1, <2>2, EvaluatingType DEF GuardTypeOK, GuardsOK
  <2>4. HostOK'
    BY <2>1 DEF GuardTypeOK, HostOK
  <2> QED
    BY <2>1, <2>3, <2>4
    DEF GuardTypeOK, FactsOK, RelayOK, ClocksOK, Declared, facts, relay, clocks
<1>3. ASSUME NEW s \in Sessions, GoOn(s)
      PROVE  GuardTypeOK'
  <2>1. /\ stopping' = stopping \ {s}
        /\ \/ again' = [again EXCEPT ![s] = TRUE] /\ UNCHANGED turn
           \/ /\ turn[s] + 1 \in 1..Turns /\ turn' = [turn EXCEPT ![s] = turn[s] + 1]
              /\ again' = [again EXCEPT ![s] = FALSE]
        /\ UNCHANGED <<facts, relay, copies, guards, holds, observations, clocks>>
    BY <1>3, GoOnIs DEF GuardTypeOK
  <2>2. HostOK'
    BY <2>1 DEF GuardTypeOK, HostOK
  <2> QED
    BY <2>1, <2>2
    DEF GuardTypeOK, FactsOK, RelayOK, GuardsOK, ClocksOK, Declared, facts, relay, clocks
<1>4. ASSUME NEW e \in DOMAIN guards, Evaluate(e)
      PROVE  GuardTypeOK'
  <2>1. Others(e) /\ guards' \in [DOMAIN guards' -> Guards] /\ Elsewhere
    BY <1>4, EvaluateIs
  <2>2. e \in Evaluations /\ guards[e] \in Guards /\ guards' [e] \in Guards
    BY <1>4, EvaluateIs DEF GuardTypeOK, GuardsOK
  <2>3. holds' \subseteq Holds
    <3>1. NewHold(e) \in Holds
      BY <2>2 DEF NewHold, Holds, Evaluations, Guards
    <3>2. \/ holds' \subseteq holds
          \/ holds' = holds \cup {NewHold(e)}
      BY <1>4, JudgeIs, WeighIs, ProceedIs, ReserveIs, RecordIs, RecordFailsIs, GiveBackIs, FaultIs,
         AnswerStepIs, TimesOutIs, GuardDiesIs, AdapterDiesIs, SelectedIs
      DEF Evaluate, GuardTypeOK, GuardsOK, Evaluations
    <3> QED
      BY <3>1, <3>2 DEF GuardTypeOK, GuardsOK
  <2>4. observations' \subseteq Observations
    <3>1. Observation(e) \in Observations
      BY <2>2 DEF Observation, Observations, Guards
    <3>2. [by |-> e, dir |-> guards[e].dir, state |-> "guard_faulted", held |-> FALSE]
            \in Observations
      BY <2>2 DEF Observations, Guards, States
    <3>3. \/ observations' = observations
          \/ observations' = observations \cup {Observation(e)}
          \/ observations' = observations \cup
               {[by |-> e, dir |-> guards[e].dir, state |-> "guard_faulted", held |-> FALSE]}
      BY <1>4, JudgeIs, WeighIs, ProceedIs, ReserveIs, RecordIs, RecordFailsIs, GiveBackIs, FaultIs,
         AnswerStepIs, TimesOutIs, GuardDiesIs, AdapterDiesIs, SelectedIs
      DEF Evaluate, GuardTypeOK, GuardsOK, Evaluations
    <3> QED
      BY <3>1, <3>2, <3>3 DEF GuardTypeOK, GuardsOK
  <2>5. GuardsOK'
    BY <2>1, <2>3, <2>4 DEF GuardTypeOK, GuardsOK, Others
  <2>6. misses' \in Nat
    BY <1>4 DEF Evaluate, Judge, Weigh, Proceed, Reserve, Record, RecordFails, GiveBack, Fault,
       Answer, TimesOut, GuardDies, AdapterDies, Miss, NoMiss, clocks, GuardTypeOK, ClocksOK
  <2> QED
    BY <2>1, <2>5, <2>6
    DEF GuardTypeOK, FactsOK, RelayOK, HostOK, ClocksOK, Declared, Elsewhere, facts, relay, host
<1>5. CASE Tick
  BY <1>5 DEF Tick, GuardTypeOK, FactsOK, RelayOK, HostOK, GuardsOK, ClocksOK, Declared, facts, relay,
     host
<1>6. CASE UNCHANGED guardVars
  BY <1>6 DEF guardVars, GuardTypeOK, FactsOK, RelayOK, HostOK, GuardsOK, ClocksOK, Declared, facts,
     relay, host, clocks
<1> QED
  BY <1>1, <1>2, <1>3, <1>4, <1>5, <1>6, StepKinds

-----------------------------------------------------------------------------
(***************************************************************************)
(* The invariant.                                                          *)
(***************************************************************************)
IInv ==
  /\ GuardTypeOK /\ NewestThere
  /\ OfItsTurn /\ Omitted /\ Held /\ BlocksPrinted /\ Spent
  /\ Accounted /\ ClaimedAlone /\ OnceATurn /\ FewEnough

LEMMA BlockedOnce ==
  ASSUME Omitted, BlocksPrinted, NEW e \in Blocked
  PROVE  e \in DOMAIN guards /\ ~e.again
BY DEF Omitted, BlocksPrinted, Blocked, At, Past, Weighed

LEMMA OfItsTurnKept ==
  ASSUME GuardTypeOK, GuardTypeOK', NewestThere, OfItsTurn, Omitted, BlocksPrinted, [GuardNext]_guardVars
  PROVE  OfItsTurn'
<1>0. /\ \A e \in DOMAIN guards : /\ e.session \in Sessions /\ e.turn \in 1..Turns
                                  /\ e.again \in BOOLEAN
      /\ turn \in [Sessions -> 1..Turns] /\ again \in [Sessions -> BOOLEAN]
      /\ stopping \subseteq Sessions
  BY DEF GuardTypeOK, GuardsOK, Evaluations, HostOK
<1>1. CASE UNCHANGED <<host, guards>>
  BY <1>1 DEF OfItsTurn, Current, Waits, Evaluating, host
<1>2. ASSUME NEW s \in Sessions, Stop(s)
      PROVE  OfItsTurn'
  <2>1. /\ s \notin stopping /\ stopping' = stopping \cup {s}
        /\ UNCHANGED <<turn, again, copies>>
        /\ DOMAIN guards' = DOMAIN guards \cup Evaluating(s)
        /\ \A e \in DOMAIN guards : e \notin Evaluating(s) => guards'[e] = guards[e]
    BY <1>2, StopIs DEF GuardTypeOK
  <2>2. ASSUME NEW e \in Evaluating(s)
        PROVE  Current(e)'
    BY <1>0, <2>1, <2>2 DEF Current, Evaluating
  <2>3. ASSUME NEW e \in DOMAIN guards, e \notin Evaluating(s)
        PROVE  Current(e)'
    BY <1>0, <2>1, <2>3 DEF Current, Evaluating, OfItsTurn, Waits
  <2>4. ASSUME NEW q \in Sessions \ stopping'
        PROVE  Evaluating(q)' \cap DOMAIN guards' = {}
    <3>1. q # s /\ q \in Sessions \ stopping /\ Evaluating(q)' = Evaluating(q)
      BY <2>1, <2>4 DEF Evaluating
    <3>2. Evaluating(q) \cap Evaluating(s) = {}
      BY <3>1 DEF Evaluating
    <3> QED
      BY <2>1, <3>1, <3>2 DEF OfItsTurn
  <2>5. ASSUME NEW q \in stopping'
        PROVE  Evaluating(q)' \subseteq DOMAIN guards'
    <3>1. Evaluating(q)' = Evaluating(q)
      BY <2>1 DEF Evaluating
    <3> QED
      BY <2>1, <3>1, <2>5 DEF OfItsTurn
  <2> QED
    BY <2>1, <2>2, <2>3, <2>4, <2>5 DEF OfItsTurn
<1>3. ASSUME NEW s \in Sessions, GoOn(s)
      PROVE  OfItsTurn'
  <2>1. /\ s \in stopping /\ stopping' = stopping \ {s}
        /\ \A e \in Evaluating(s) : ~Waits(e)
        /\ UNCHANGED <<copies, guards>>
        /\ \A q \in Sessions : q # s => turn'[q] = turn[q] /\ again'[q] = again[q]
    BY <1>0, <1>3, GoOnIs DEF GuardTypeOK
  <2>2. \/ turn'[s] = turn[s] + 1 /\ again'[s] = FALSE
        \/ turn'[s] = turn[s] /\ again'[s] = TRUE /\ again[s] = FALSE
    <3>1. CASE \E e \in Evaluating(s) : guards[e].answer = "block"
      <4>1. PICK e \in Evaluating(s) : guards[e].answer = "block"
        BY <3>1
      <4>2. e \in DOMAIN guards
        BY <2>1, <4>1 DEF OfItsTurn
      <4>3. ~again[s]
        BY <1>0, <4>1, <4>2, BlockedOnce DEF Blocked, Evaluating
      <4> QED
        BY <1>0, <1>3, <3>1, <4>3 DEF GoOn
    <3>2. CASE ~\E e \in Evaluating(s) : guards[e].answer = "block"
      BY <1>0, <1>3, <3>2 DEF GoOn
    <3> QED
      BY <3>1, <3>2
  <2>3. ASSUME NEW e \in DOMAIN guards
        PROVE  Current(e)'
    <3>1. Current(e) /\ e.session \in Sessions /\ e.turn \in Int /\ turn[s] \in Int
      BY <1>0, <2>3 DEF OfItsTurn
    <3>2. CASE e.session # s
      BY <1>0, <2>1, <3>1, <3>2 DEF Current, Evaluating, Waits
    <3>3. CASE e.session = s
      <4>1. ~Waits(e)
        BY <2>1, <3>1, <3>3 DEF Current
      <4> QED
        BY <2>1, <2>2, <3>1, <3>3, <4>1 DEF Current, Waits
    <3> QED
      BY <3>2, <3>3
  <2>4. ASSUME NEW q \in Sessions \ stopping'
        PROVE  Evaluating(q)' \cap DOMAIN guards' = {}
    <3>1. CASE q # s
      BY <2>1, <2>4, <3>1 DEF OfItsTurn, Evaluating
    <3>2. CASE q = s
      <4>1. \A e \in DOMAIN guards : e.session = s =>
              e.turn \in Int /\ e.turn <= turn[s] /\ (e.turn = turn[s] /\ e.again => again[s])
        BY <1>0 DEF OfItsTurn, Current
      <4>2. turn[s] \in Int
        BY <1>0
      <4> QED
        BY <2>1, <2>2, <3>2, <4>1, <4>2 DEF Evaluating
    <3> QED
      BY <3>1, <3>2
  <2>5. ASSUME NEW q \in stopping'
        PROVE  Evaluating(q)' \subseteq DOMAIN guards'
    <3>1. q # s /\ q \in stopping /\ q \in Sessions
      BY <1>0, <2>1, <2>5
    <3>2. Evaluating(q)' = Evaluating(q)
      BY <2>1, <3>1 DEF Evaluating
    <3> QED
      BY <2>1, <3>1, <3>2 DEF OfItsTurn
  <2> QED
    BY <2>1, <2>3, <2>4, <2>5 DEF OfItsTurn
<1>4. ASSUME NEW e \in DOMAIN guards, Evaluate(e)
      PROVE  OfItsTurn'
  <2>1. /\ Others(e) /\ UNCHANGED host
        /\ guards[e].answer # "none" => guards'[e].answer = guards[e].answer
    BY <1>4, EvaluateIs DEF Elsewhere, SameAnswer
  <2>2. DOMAIN guards' = DOMAIN guards /\ \A f \in DOMAIN guards : Waits(f)' => Waits(f)
    BY <2>1 DEF Others, Waits
  <2> QED
    BY <2>1, <2>2 DEF OfItsTurn, Current, Evaluating, host
<1>5. Publish \/ Tick \/ UNCHANGED guardVars => UNCHANGED <<host, guards>>
  BY PublishIs DEF GuardTypeOK, Aside, Tick, guardVars
<1> QED
  BY <1>1, <1>2, <1>3, <1>4, <1>5, StepKinds

-----------------------------------------------------------------------------
(***************************************************************************)
(* What was left out stays left out while the adapter waits: the child is  *)
(* between two turns, and publishes nothing.                               *)
(***************************************************************************)
LEMMA ObservedOmission ==
  ASSUME RelayOK, NEW a, NEW s, NEW t \in 1..Turns, StateObserved(a, s, t) \in Omissions
  PROVE  /\ a # Nobody /\ bound[a] # Nobody /\ bound[a] = s /\ <<a, s>> \in claims
         /\ ~Says(a, s, t, "waiting")
         /\ StateObserved(a, s, t) = "receipt_missing" => ~Stands(s, t)
<1> DEFINE c == Classified(a, s, t)
<1>1. /\ a # Nobody /\ bound[a] # Nobody /\ bound[a] = s
      /\ c \notin {"declared_waiting", "declared_ready_receipted"}
      /\ <<a, s>> \in claims
      /\ StateObserved(a, s, t) = IF a \notin registered THEN "managed_unregistered" ELSE c
  BY DEF StateObserved, Omissions
<1>2. c \in {"declared_waiting", "declared_ready_receipted", "receipt_missing",
             "undeclared_turn_end"}
  BY DEF Classified
<1>3. ~Says(a, s, t, "waiting")
  BY <1>1 DEF Classified
<1>4. ASSUME StateObserved(a, s, t) = "receipt_missing"
      PROVE  ~Stands(s, t)
  <2>1. a \in registered /\ c = "receipt_missing"
    BY <1>1, <1>4
  <2>2. ~AtHead(s, t)
    BY <1>3, <2>1 DEF Classified
  <2>3. head = NoHead \/ head.stage \in {"staged", "final"}
    BY DEF RelayOK
  <2> QED
    BY <2>2, <2>3 DEF AtHead, Stands, DeliverableCurrent, NoHead
<1> QED
  BY <1>1, <1>3, <1>4

LEMMA SelectionKept ==
  ASSUME GuardTypeOK, Publish, NEW s \in stopping, Claimed(s) # {}, NewestThere
  PROVE  Selected(s)' = Selected(s)
<1>0. FactsOK /\ s \in Sessions /\ claims \subseteq Declared \X Sessions
  BY DEF GuardTypeOK, FactsOK, HostOK
<1>1. CASE UNCHANGED <<declared, claims>>
  BY <1>1 DEF Selected, Claimed, Declared
<1>2. ASSUME NEW a \in Assignments, Declare(a)
      PROVE  Selected(s)' = Selected(s)
  <2> DEFINE n == Len(declared) + 1
  <2>1. /\ Declared' = Declared \cup {a} /\ a \notin Declared
        /\ DOMAIN declared' = DOMAIN declared \cup {n}
        /\ declared'[n] = a
        /\ \A i \in DOMAIN declared : declared'[i] = declared[i]
    BY <1>0, <1>2, DeclareIs
  <2>2. UNCHANGED claims
    BY <1>2 DEF Declare
  <2> HIDE DEF n
  <2>3. Claimed(s)' = Claimed(s) /\ a \notin Claimed(s)
    BY <1>0, <2>1, <2>2 DEF Claimed
  <2> DEFINE S == {i \in DOMAIN declared : declared[i] \in Claimed(s)}
  <2>4. {i \in DOMAIN declared' : declared'[i] \in Claimed(s)} = S
    BY <2>1, <2>3
  <2>5. Max(S) \in DOMAIN declared
    <3>1. Claimed(s) \subseteq Assignments /\ Claimed(s) \cap Declared # {}
      BY <1>0 DEF Claimed, Declared, FactsOK, Range
    <3>2. PICK i \in DOMAIN declared :
            declared[i] \in Claimed(s) /\ \A j \in DOMAIN declared : declared[j] \in Claimed(s) => j <= i
      BY <3>1 DEF NewestThere
    <3>3. i \in S /\ \A j \in S : i >= j
      BY <1>0, <3>2 DEF FactsOK
    <3> QED
      BY <3>3 DEF Max
  <2>6. Selected(s) = declared[Max(S)]
    BY DEF Selected
  <2>7. Selected(s)' = declared'[Max({i \in DOMAIN declared' : declared'[i] \in Claimed(s)'})]
    BY <2>3 DEF Selected
  <2> HIDE DEF S
  <2> QED
    BY <2>1, <2>3, <2>4, <2>5, <2>6, <2>7
<1>3. ASSUME NEW a \in Declared, NEW q \in Sessions, PublishClaim(a, q)
      PROVE  Selected(s)' = Selected(s)
  <2>1. q # s /\ UNCHANGED declared /\ claims' = claims \cup {<<a, q>>}
    BY <1>3 DEF PublishClaim, Working
  <2>2. Claimed(s)' = Claimed(s)
    BY <2>1 DEF Claimed, Declared
  <2> QED
    BY <2>1, <2>2 DEF Selected, Declared
<1>4. \/ UNCHANGED <<declared, claims>>
      \/ \E a \in Assignments : Declare(a)
      \/ \E a \in Declared, q \in Sessions : PublishClaim(a, q)
  BY DEF Publish, Bind, RegisterRelationship, OpenGeneration, PublishDisposition, Emit, Finalize,
     ArtifactsChange, facts
<1> QED
  BY <1>1, <1>2, <1>3, <1>4

\* What a session did in its turn stands while its host waits for the hooks.
LEMMA StillSilent ==
  ASSUME GuardTypeOK, Publish, NEW s \in stopping, NEW a
  PROVE  /\ Declaration(a, s, turn[s])' = Declaration(a, s, turn[s])
         /\ Stands(s, turn[s])' => Stands(s, turn[s])
<1>0. turn' = turn /\ turn[s] \in 1..Turns
  BY PublishIs DEF GuardTypeOK, Aside, host, HostOK
<1>1. Declaration(a, s, turn[s])' = Declaration(a, s, turn[s])
  <2>1. CASE UNCHANGED dispositions
    BY <1>0, <2>1 DEF Declaration
  <2>2. ASSUME NEW b \in Declared, NEW q \in Sessions, NEW outcome,
               PublishDisposition(b, q, outcome)
        PROVE  Declaration(a, s, turn[s])' = Declaration(a, s, turn[s])
    <3> DEFINE d == [dir |-> b, session |-> q, turn |-> turn[q], outcome |-> outcome]
    <3>1. d.session # s /\ dispositions' = dispositions \cup {d}
      BY <2>2 DEF PublishDisposition, Working
    <3> HIDE DEF d
    <3> QED
      BY <1>0, <3>1 DEF Declaration
  <2>3. \/ UNCHANGED dispositions
        \/ \E b \in Declared, q \in Sessions, outcome \in {"waiting", "ready"} :
             PublishDisposition(b, q, outcome)
    BY DEF Publish, Declare, Bind, RegisterRelationship, OpenGeneration, PublishClaim, Emit,
       Finalize, ArtifactsChange, facts
  <2> QED
    BY <2>1, <2>2, <2>3
<1>2. Stands(s, turn[s])' => Stands(s, turn[s])
  <2>1. CASE UNCHANGED <<head, intact>>
    BY <1>0, <2>1 DEF Stands
  <2>2. ASSUME NEW q \in Sessions, Emit(q)
        PROVE  ~Stands(s, turn[s])'
    BY <2>2 DEF Emit, Working, Stands
  <2>3. ASSUME NEW b \in Assignments, OpenGeneration(b)
        PROVE  ~Stands(s, turn[s])'
    BY <1>0, <2>3 DEF OpenGeneration, NoHead, Stands
  <2>4. CASE Finalize
    BY <1>0, <2>4 DEF Finalize, Stands, GuardTypeOK, RelayOK, NoHead
  <2>5. CASE ArtifactsChange
    BY <2>5 DEF ArtifactsChange, Stands
  <2> QED
    BY <2>1, <2>2, <2>3, <2>4, <2>5
    DEF Publish, Declare, Bind, RegisterRelationship, PublishClaim, PublishDisposition, relay
<1> QED
  BY <1>1, <1>2

LEMMA OwesKept ==
  ASSUME GuardTypeOK, NewestThere, OfItsTurn, NEW e \in DOMAIN guards, Owes(e), Publish
  PROVE  Owes(e)'
<1> DEFINE a == guards[e].dir
           s == e.session
<1>0. /\ s \in Sessions /\ a \in Assignments \cup {Nobody}
      /\ claims \subseteq Declared \X Sessions /\ Declared \subseteq Assignments
  BY DEF GuardTypeOK, GuardsOK, Guards, Evaluations, FactsOK, Declared, Range
<1>1. /\ Declared \subseteq Declared' /\ claims \subseteq claims'
      /\ \A b \in Assignments : bound[b] # Nobody => bound'[b] = bound[b]
      /\ UNCHANGED <<host, guards>>
  BY PublishIs DEF GuardTypeOK, FactsGrow, Aside
<1>2. a # Nobody /\ bound[a] # Nobody /\ bound[a] = s /\ <<a, s>> \in claims
  BY DEF Owes
<1>3. bound'[a] = bound[a] /\ <<a, s>> \in claims'
  BY <1>0, <1>1, <1>2
<1>4. ASSUME s \in stopping, e \in Evaluating(s)
      PROVE  a = Selected(s)'
  <2>1. Claimed(s) # {}
    BY <1>0, <1>2 DEF Claimed
  <2>2. Selected(s)' = Selected(s)
    BY <1>4, <2>1, SelectionKept
  <2> QED
    BY <1>4, <2>2 DEF Owes
<1>5. ASSUME Waits(e)
      PROVE  /\ ~Says(a, s, e.turn, "waiting")'
             /\ guards[e].state = "receipt_missing" => ~Stands(s, e.turn)'
  <2>1. s \in stopping /\ e.turn = turn[s]
    BY <1>5 DEF OfItsTurn, Current, Evaluating
  <2>2. turn' = turn
    BY <1>1 DEF host
  <2>3. PICK b \in Assignments \cup {Nobody} : b = a
    BY <1>0
  <2>6. /\ Declaration(b, s, turn[s])' = Declaration(b, s, turn[s])
        /\ Stands(s, turn[s])' => Stands(s, turn[s])
    BY <2>1, StillSilent
  <2>4. ~Says(a, s, e.turn, "waiting") /\ (guards[e].state = "receipt_missing" => ~Stands(s, e.turn))
    BY <1>5 DEF Owes
  <2>5. Declaration(b, s, e.turn)' = Declaration(b, s, e.turn)
    BY <1>1, <2>1, <2>2, <2>6 DEF Declaration
  <2> QED
    BY <1>1, <2>1, <2>2, <2>3, <2>4, <2>5, <2>6 DEF Says, Stands
<1>6. /\ guards'[e] = guards[e] /\ (Waits(e)' <=> Waits(e))
      /\ stopping' = stopping /\ Evaluating(s)' = Evaluating(s)
  BY <1>1 DEF Waits, host, Evaluating
<1> QED
  BY <1>1, <1>2, <1>3, <1>4, <1>5, <1>6 DEF Owes

\* The facts of an evaluation that did not move.
Unmoved(e) == guards'[e] = guards[e] /\ UNCHANGED <<facts, relay>>

LEMMA OwesUnmoved ==
  ASSUME NEW e, Owes(e), Unmoved(e),
         e.session \in stopping' /\ e \in Evaluating(e.session)' =>
           e.session \in stopping /\ e \in Evaluating(e.session)
  PROVE  Owes(e)'
<1>1. Selected(e.session)' = Selected(e.session)
  BY DEF Unmoved, facts, Selected, Claimed, Declared
<1>2. Says(guards[e].dir, e.session, e.turn, "waiting")'
        = Says(guards[e].dir, e.session, e.turn, "waiting")
  BY DEF Unmoved, facts, Says, Declaration
<1>3. Stands(e.session, e.turn)' = Stands(e.session, e.turn)
  BY DEF Unmoved, relay, Stands
<1> QED
  BY <1>1, <1>2, <1>3 DEF Owes, Unmoved, facts, Waits

\* Past its judgement an evaluation keeps what it judged, or stops saying so.
Later(e) ==
  /\ guards'[e].dir = guards[e].dir /\ guards'[e].at = guards[e].at
  /\ guards'[e].answer = "none" => guards[e].answer = "none"
  /\ guards'[e].state \in Omissions =>
       guards[e].state \in Omissions /\ guards'[e].state = guards[e].state
  /\ guards'[e].phase = "asked" => guards[e].phase = "asked" /\ guards'[e].state = guards[e].state
  /\ guards'[e].phase = "giving" => /\ guards'[e].state = guards[e].state
                                    /\ guards[e].phase = "giving" \/ guards[e].state \in Omissions
  /\ guards'[e].phase \in Weighed /\ guards'[e].state \in Omissions =>
       Weigh(e) \/ guards[e].phase \in Weighed

LEMMA LaterIs ==
  ASSUME GuardsOK, NEW e \in DOMAIN guards, Evaluate(e), ~Judge(e)
  PROVE  Later(e)
<1>1. CASE Weigh(e)
  BY <1>1, WeighIs DEF Later, Advances, Goes, Settled, SameAnswer
<1>2. CASE Proceed(e)
  BY <1>2, ProceedIs DEF Later, Advances, Goes, Settled, SameAnswer, Weighed
<1>3. CASE Reserve(e)
  BY <1>3, ReserveIs DEF Later, Advances, Goes, Settled, SameAnswer, Weighed, Omissions
<1>4. CASE Record(e)
  BY <1>4, RecordIs DEF Later, Advances, Goes, Settled, SameAnswer, Weighed
<1>5. CASE RecordFails(e)
  BY <1>5, RecordFailsIs DEF Later, Advances, Goes, Settled, SameAnswer, Weighed
<1>6. CASE GiveBack(e)
  BY <1>6, GiveBackIs DEF Later, Advances, Goes, Settled, SameAnswer, Weighed
<1>7. CASE Fault(e)
  BY <1>7, FaultIs DEF Later, Advances, Goes, Settled, SameAnswer, Omissions
<1>8. CASE Answer(e)
  BY <1>8, AnswerStepIs DEF Later, Told, Goes, Settled
<1>9. CASE TimesOut(e)
  BY <1>9, TimesOutIs DEF Later, Goes, Settled, Weighed
<1>10. CASE GuardDies(e)
  BY <1>10, GuardDiesIs DEF Later, Advances, Goes, Settled, SameAnswer, Weighed
<1>11. CASE AdapterDies(e)
  BY <1>11, AdapterDiesIs DEF Later, Told, Goes, Settled
<1> QED
  BY <1>1, <1>2, <1>3, <1>4, <1>5, <1>6, <1>7, <1>8, <1>9, <1>10, <1>11 DEF Evaluate

LEMMA OmittedKept ==
  ASSUME GuardTypeOK, GuardTypeOK', NewestThere, OfItsTurn, Omitted, [GuardNext]_guardVars
  PROVE  Omitted'
<1> DEFINE Fine(e) == /\ Unasked(e)
                      /\ Omits(e) => Owes(e)
                      /\ Omits(e) /\ Past(e, Weighed) => ~e.again
                      /\ At(e, "giving") => Omits(e)
<1>0. \A e \in DOMAIN guards : Fine(e)
  BY DEF Omitted
<1>1. ASSUME NEW e \in DOMAIN guards, Unmoved(e), DOMAIN guards' = DOMAIN guards, UNCHANGED host
      PROVE  Fine(e)'
  <2>1. Omits(e) => Owes(e)'
    BY <1>0, <1>1, OwesUnmoved DEF host, Evaluating
  <2> QED
    BY <1>0, <1>1, <2>1 DEF Unmoved, Unasked, At, Omits, Past
<1>2. CASE Publish
  <2>1. UNCHANGED <<host, guards>>
    BY <1>2, PublishIs DEF GuardTypeOK, Aside
  <2>2. ASSUME NEW e \in DOMAIN guards
        PROVE  Fine(e)'
    <3>1. Omits(e) => Owes(e)'
      BY <1>0, <1>2, <2>2, OwesKept
    <3> QED
      BY <1>0, <2>1, <3>1 DEF Unasked, At, Omits, Past
  <2> QED
    BY <2>1, <2>2 DEF Omitted
<1>3. ASSUME NEW s \in Sessions, Stop(s)
      PROVE  Omitted'
  <2>1. /\ s \notin stopping /\ stopping' = stopping \cup {s}
        /\ UNCHANGED <<facts, relay, turn, again, copies>>
        /\ DOMAIN guards' = DOMAIN guards \cup Evaluating(s)
        /\ \A e \in Evaluating(s) : guards'[e] = Started(ClaimsOnlyOne(s))
        /\ \A e \in DOMAIN guards : e \notin Evaluating(s) => guards'[e] = guards[e]
    BY <1>3, StopIs DEF GuardTypeOK
  <2>2. ASSUME NEW e \in Evaluating(s)
        PROVE  Fine(e)'
    BY <2>1, <2>2 DEF Started, Unasked, At, Omits, Past, Weighed, Omissions
  <2>3. ASSUME NEW e \in DOMAIN guards, e \notin Evaluating(s)
        PROVE  Fine(e)'
    <3>1. Unmoved(e)
      BY <2>1, <2>3 DEF Unmoved
    <3>2. e.session \in stopping' /\ e \in Evaluating(e.session)' =>
            e.session \in stopping /\ e \in Evaluating(e.session)
      BY <2>1, <2>3 DEF Evaluating
    <3>3. Omits(e) => Owes(e)'
      BY <1>0, <2>3, <3>1, <3>2, OwesUnmoved
    <3> QED
      BY <1>0, <2>3, <3>1, <3>3 DEF Unmoved, Unasked, At, Omits, Past
  <2> QED
    BY <2>1, <2>2, <2>3 DEF Omitted
<1>4. ASSUME NEW s \in Sessions, GoOn(s)
      PROVE  Omitted'
  <2>1. /\ s \in stopping /\ stopping' = stopping \ {s}
        /\ \A q \in Sessions : q # s => turn'[q] = turn[q] /\ again'[q] = again[q]
        /\ UNCHANGED <<facts, relay, copies, guards>>
    BY <1>4, GoOnIs DEF GuardTypeOK, HostOK
  <2>2. ASSUME NEW e \in DOMAIN guards
        PROVE  Fine(e)'
    <3>0. e.session \in Sessions
      BY DEF GuardTypeOK, GuardsOK, Evaluations
    <3>1. Unmoved(e)
      BY <2>1 DEF Unmoved
    <3>2. e.session \in stopping' /\ e \in Evaluating(e.session)' =>
            e.session \in stopping /\ e \in Evaluating(e.session)
      BY <2>1, <3>0 DEF Evaluating
    <3>3. Omits(e) => Owes(e)'
      BY <1>0, <3>1, <3>2, OwesUnmoved
    <3> QED
      BY <1>0, <3>1, <3>3 DEF Unmoved, Unasked, At, Omits, Past
  <2> QED
    BY <2>1, <2>2 DEF Omitted
<1>5. ASSUME NEW e \in DOMAIN guards, Evaluate(e)
      PROVE  Omitted'
  <2>0. /\ e \in Evaluations /\ e.session \in Sessions /\ e.turn \in 1..Turns /\ FactsOK /\ GuardsOK
        /\ ClocksOK /\ RelayOK /\ guards[e] \in Guards /\ guards'[e] \in Guards
    BY <1>5, EvaluateIs DEF GuardTypeOK, GuardsOK, Evaluations
  <2>1. Others(e) /\ Elsewhere /\ DOMAIN guards' = DOMAIN guards
    BY <1>5, EvaluateIs DEF Others
  <2>2. ASSUME NEW f \in DOMAIN guards, f # e
        PROVE  Fine(f)'
    BY <1>1, <2>1, <2>2 DEF Others, Unmoved, Elsewhere
  <2>3. /\ Selected(e.session)' = Selected(e.session)
        /\ \A a : Says(a, e.session, e.turn, "waiting")' = Says(a, e.session, e.turn, "waiting")
        /\ Stands(e.session, e.turn)' = Stands(e.session, e.turn)
        /\ Evaluating(e.session)' = Evaluating(e.session)
        /\ UNCHANGED <<bound, claims, stopping>>
    BY <2>1 DEF Elsewhere, facts, relay, host, Selected, Claimed, Declared, Says, Declaration,
       Stands, Evaluating
  <2>4. ASSUME guards'[e].dir = guards[e].dir, Omits(e) => guards'[e].state = guards[e].state,
               Waits(e)' => Waits(e), Omits(e), Omits(e)'
        PROVE  Owes(e)'
    BY <1>0, <2>3, <2>4 DEF Owes
  <2>5. CASE Judge(e)
    <3>1. /\ guards'[e].phase = "judged"
          /\ Omits(e)' => /\ guards'[e].dir = Selected(e.session)
                          /\ guards'[e].state = StateObserved(Selected(e.session), e.session, e.turn)
      BY <2>0, <2>5, SelectedIs, JudgeIs DEF Goes, Omits
    <3>2. Omits(e)' => Owes(e)'
      <4> SUFFICES ASSUME Omits(e)' PROVE Owes(e)'
        OBVIOUS
      <4> DEFINE a == Selected(e.session)
      <4>1. guards'[e].dir = a /\ guards'[e].state = StateObserved(a, e.session, e.turn)
        BY <3>1
      <4>2. /\ a # Nobody /\ bound[a] # Nobody /\ bound[a] = e.session /\ <<a, e.session>> \in claims
            /\ ~Says(a, e.session, e.turn, "waiting")
            /\ guards'[e].state = "receipt_missing" => ~Stands(e.session, e.turn)
        BY <2>0, <4>1, ObservedOmission DEF Omits
      <4> HIDE DEF a
      <4>3. a = Selected(e.session)'
        BY <2>3 DEF a
      <4> QED
        BY <2>3, <4>1, <4>2, <4>3 DEF Owes
    <3> QED
      BY <2>1, <2>2, <3>1, <3>2 DEF Omitted, Unasked, At, Past, Weighed
  <2>6. CASE ~Judge(e)
    <3>0. Later(e)
      BY <1>5, <2>0, <2>6, LaterIs
    <3>1. /\ guards'[e].dir = guards[e].dir
          /\ Waits(e)' => Waits(e)
          /\ Omits(e)' => Omits(e) /\ guards'[e].state = guards[e].state
      BY <3>0 DEF Later, Omits, Waits
    <3>2. Unasked(e)'
      BY <1>0, <3>0 DEF Later, At, Unasked
    <3>3. (At(e, "giving") => Omits(e))'
      BY <1>0, <3>0 DEF Later, At, Omits
    <3>4. (Omits(e) /\ Past(e, Weighed) => ~e.again)'
      <4>1. CASE Weigh(e)
        <5>1. Omits(e)' => guards'[e].state = Decided(e, Cardinality(HoldsOfTurn(guards[e].dir, e)))
          BY <2>0, <4>1, WeighIs DEF Omits
        <5>2. Decided(e, Cardinality(HoldsOfTurn(guards[e].dir, e))) \in Omissions => ~e.again
          BY DEF Decided, Omissions
        <5> QED
          BY <5>1, <5>2 DEF Omits
      <4>2. CASE ~Weigh(e)
        <5>1. Omits(e)' /\ Past(e, Weighed)' => Omits(e) /\ Past(e, Weighed)
          BY <3>0, <4>2 DEF Later, Omits, Past
        <5> QED
          BY <1>0, <5>1
      <4> QED
        BY <4>1, <4>2
    <3>5. (Omits(e) => Owes(e))'
      BY <2>4, <3>1
    <3> QED
      BY <2>1, <2>2, <3>2, <3>3, <3>4, <3>5 DEF Omitted
  <2> QED
    BY <2>5, <2>6
<1>6. CASE Tick \/ UNCHANGED guardVars
  <2>1. UNCHANGED <<facts, relay, host, guards>>
    BY <1>6 DEF Tick, guardVars
  <2>2. \A e \in DOMAIN guards : Fine(e)'
    BY <1>1, <2>1 DEF Unmoved
  <2> QED
    BY <2>1, <2>2 DEF Omitted
<1> QED
  BY <1>2, <1>3, <1>4, <1>5, <1>6, StepKinds

-----------------------------------------------------------------------------
(***************************************************************************)
(* The hold files.                                                         *)
(***************************************************************************)
MayHold  == {"recording", "giving", "faulted", "printed", "ended"}
Standing == {"recording", "giving", "printed"}

Reserves(e) ==
  /\ HoldsOfTurn(guards[e].dir, e) = {} /\ holds' = holds \cup {NewHold(e)}
  /\ guards[e].phase = "weighed"
  /\ guards'[e].phase = "recording" /\ guards'[e].state \in Omissions

Returns(e) ==
  /\ guards[e].phase = "giving" /\ guards'[e].phase = "faulted"
  /\ holds' = holds \ HoldsOfTurn(guards[e].dir, e)

Keeps(e) ==
  /\ holds' = holds \/ Reserves(e) \/ Returns(e)
  /\ guards[e].phase \in MayHold => guards'[e].phase \in MayHold
  /\ guards'[e].phase = "recording" =>
       \/ guards[e].phase = "weighed"
       \/ guards[e].phase = "recording" /\ guards'[e].state = guards[e].state
  /\ guards'[e].phase \in Standing /\ guards'[e].state \in Omissions =>
       guards[e].phase \in Standing \/ Reserves(e)

LEMMA KeepsIs ==
  ASSUME GuardsOK, NEW e \in DOMAIN guards, Evaluate(e), ~Judge(e)
  PROVE  Keeps(e)
<1>1. CASE Weigh(e)
  BY <1>1, WeighIs DEF Keeps, MayHold, Standing, Advances, Goes
<1>2. CASE Proceed(e)
  BY <1>2, ProceedIs DEF Keeps, MayHold, Standing, Advances, Goes
<1>3. CASE Reserve(e)
  BY <1>3, ReserveIs DEF Keeps, Reserves, MayHold, Standing, Advances, Goes, Omissions
<1>4. CASE Record(e)
  BY <1>4, RecordIs DEF Keeps, MayHold, Standing, Advances, Goes
<1>5. CASE RecordFails(e)
  BY <1>5, RecordFailsIs DEF Keeps, MayHold, Standing, Advances, Goes
<1>6. CASE GiveBack(e)
  BY <1>6, GiveBackIs DEF Keeps, Returns, MayHold, Standing, Advances, Goes
<1>7. CASE Fault(e)
  BY <1>7, FaultIs DEF Keeps, MayHold, Standing, Advances, Goes, Omissions
<1>8. CASE Answer(e)
  BY <1>8, AnswerStepIs DEF Keeps, MayHold, Standing, Told, Goes
<1>9. CASE TimesOut(e)
  BY <1>9, TimesOutIs DEF Keeps, MayHold, Standing, Goes
<1>10. CASE GuardDies(e)
  BY <1>10, GuardDiesIs DEF Keeps, MayHold, Standing, Advances, Goes
<1>11. CASE AdapterDies(e)
  BY <1>11, AdapterDiesIs DEF Keeps, MayHold, Standing, Told, Goes
<1> QED
  BY <1>1, <1>2, <1>3, <1>4, <1>5, <1>6, <1>7, <1>8, <1>9, <1>10, <1>11 DEF Evaluate

\* A hold that is given back is the evaluation's own.
LEMMA OnlyItsOwn ==
  ASSUME Held, NEW e \in DOMAIN guards, At(e, "giving"), Omits(e),
         NEW h \in HoldsOfTurn(guards[e].dir, e)
  PROVE  h.by = e
<1>1. PICK k \in holds : k.by = e
  BY DEF Held, Past, At
<1>2. k.dir = guards[e].dir /\ k.session = e.session /\ k.turn = e.turn
  BY <1>1 DEF Held, IsOf
<1>3. h = k
  BY <1>2 DEF Held, HoldsOfTurn, HoldsOf
<1> QED
  BY <1>1, <1>3

LEMMA HeldKept ==
  ASSUME GuardTypeOK, NewestThere, OfItsTurn, Omitted, Held, [GuardNext]_guardVars
  PROVE  Held'
<1>1. CASE UNCHANGED <<guards, holds>>
  BY <1>1 DEF Held, IsOf, Past, At, Omits
<1>2. ASSUME NEW s \in Sessions, Stop(s)
      PROVE  Held'
  <2>1. /\ s \notin stopping /\ holds' = holds
        /\ DOMAIN guards' = DOMAIN guards \cup Evaluating(s)
        /\ \A e \in Evaluating(s) : guards'[e] = Started(ClaimsOnlyOne(s))
        /\ \A e \in DOMAIN guards : e \notin Evaluating(s) => guards'[e] = guards[e]
    BY <1>2, StopIs DEF GuardTypeOK
  <2>2. \A e \in DOMAIN guards : guards'[e] = guards[e]
    BY <2>1 DEF OfItsTurn
  <2>3. \A e \in Evaluating(s) : guards'[e].state \notin Omissions
    BY <2>1 DEF Started, Omissions
  <2>4. ASSUME NEW h \in holds
        PROVE  /\ h.by \in DOMAIN guards' /\ IsOf(h, h.by)'
               /\ Past(h.by, {"recording", "giving", "faulted", "printed", "ended"})'
               /\ (At(h.by, "recording") => Omits(h.by))'
    BY <2>1, <2>2 DEF Held, IsOf, Past, At, Omits
  <2>5. ASSUME NEW e \in DOMAIN guards', Omits(e)', Past(e, {"recording", "giving", "printed"})'
        PROVE  \E h \in holds : h.by = e
    BY <2>1, <2>2, <2>3, <2>5 DEF Held, Past, Omits
  <2> QED
    BY <2>1, <2>4, <2>5 DEF Held
<1>3. ASSUME NEW e \in DOMAIN guards, Evaluate(e)
      PROVE  Held'
  <2>0. GuardsOK /\ FactsOK /\ ClocksOK /\ e.session \in Sessions
    BY DEF GuardTypeOK, GuardsOK, Evaluations
  <2>1. /\ DOMAIN guards' = DOMAIN guards
        /\ \A f \in DOMAIN guards : f # e => guards'[f] = guards[f]
    BY <1>3, EvaluateIs DEF Others
  <2>2. CASE Judge(e)
    <3>1. guards[e].phase = "asked" /\ guards'[e].phase = "judged" /\ holds' = holds
      BY <2>0, <2>2, SelectedIs, JudgeIs DEF Goes
    <3>2. \A h \in holds : h.by # e
      BY <3>1 DEF Held, Past
    <3> QED
      BY <2>1, <3>1, <3>2 DEF Held, IsOf, Past, At, Omits
  <2>3. CASE ~Judge(e)
    <3>1. Later(e) /\ Keeps(e)
      BY <1>3, <2>0, <2>3, LaterIs, KeepsIs
    <3>2. ASSUME NEW h \in holds
          PROVE  /\ h.by \in DOMAIN guards' /\ IsOf(h, h.by)'
                 /\ Past(h.by, {"recording", "giving", "faulted", "printed", "ended"})'
                 /\ (At(h.by, "recording") => Omits(h.by))'
      <4>1. /\ h.by \in DOMAIN guards /\ IsOf(h, h.by) /\ Past(h.by, MayHold)
            /\ At(h.by, "recording") => Omits(h.by)
        BY DEF Held, MayHold
      <4>2. CASE h.by # e
        BY <2>1, <4>1, <4>2 DEF IsOf, Past, At, Omits, MayHold
      <4>3. CASE h.by = e
        <5>1. guards[e].phase # "weighed"
          BY <4>1, <4>3 DEF Past, MayHold
        <5>2. guards'[e].phase \in MayHold
          BY <3>1, <4>1, <4>3 DEF Keeps, Past
        <5>3. guards'[e].dir = guards[e].dir /\ guards'[e].at = guards[e].at
          BY <3>1 DEF Later
        <5>4. guards'[e].phase = "recording" => guards'[e].state \in Omissions
          BY <3>1, <4>1, <4>3, <5>1 DEF Keeps, At, Omits
        <5>5. IsOf(h, h.by)'
          BY <2>1, <4>1, <4>3, <5>3 DEF IsOf
        <5> QED
          BY <2>1, <4>3, <5>2, <5>4, <5>5 DEF Past, At, Omits, MayHold
      <4> QED
        BY <4>2, <4>3
    <3>3. ASSUME NEW f \in DOMAIN guards', f # e, Omits(f)',
                 Past(f, {"recording", "giving", "printed"})'
          PROVE  \E h \in holds : h.by = f
      BY <2>1, <3>3 DEF Held, Past, Omits
    <3>4. CASE holds' = holds
      <4>1. Omits(e)' /\ Past(e, {"recording", "giving", "printed"})' => \E h \in holds' : h.by = e
        <5>1. Omits(e)' /\ Past(e, {"recording", "giving", "printed"})' =>
                \/ Omits(e) /\ Past(e, {"recording", "giving", "printed"})
                \/ Reserves(e)
          BY <3>1 DEF Later, Keeps, Omits, Past, Standing
        <5>2. Reserves(e) => \E h \in holds' : h.by = e
          <6>1. Reserves(e) => NewHold(e) \in holds' /\ NewHold(e).by = e
            BY DEF Reserves, NewHold
          <6> QED
            BY <6>1
        <5> QED
          BY <3>4, <5>1, <5>2 DEF Held
      <4> QED
        BY <3>2, <3>3, <3>4, <4>1 DEF Held
    <3>5. CASE Reserves(e)
      <4>0. NewHold(e) \in holds'
        BY <3>5 DEF Reserves
      <4>a. PICK n \in holds' : n = NewHold(e)
        BY <4>0
      <4>1. /\ n.by = e /\ n.dir = guards[e].dir /\ n.session = e.session /\ n.turn = e.turn
            /\ n.at = guards[e].at /\ holds' = holds \cup {n}
        BY <3>5, <4>a DEF NewHold, Reserves
      <4>2. /\ n.by \in DOMAIN guards' /\ IsOf(n, n.by)'
            /\ Past(n.by, {"recording", "giving", "faulted", "printed", "ended"})'
            /\ (At(n.by, "recording") => Omits(n.by))'
        BY <2>1, <3>1, <3>5, <4>1 DEF IsOf, Past, At, Omits, Later, Reserves
      <4>3. \A h \in holds : ~(h.dir = n.dir /\ h.session = n.session /\ h.turn = n.turn)
        BY <3>5, <4>1 DEF Reserves, HoldsOfTurn, HoldsOf
      <4>4. IsFiniteSet(holds')
        BY <4>1, FS_AddElement DEF Held
      <4>5. \A h, k \in holds' :
              h.dir = k.dir /\ h.session = k.session /\ h.turn = k.turn => h = k
        BY <4>1, <4>3 DEF Held
      <4>6. \A f \in DOMAIN guards' :
              Omits(f)' /\ Past(f, {"recording", "giving", "printed"})' => \E h \in holds' : h.by = f
        BY <3>3, <4>1
      <4>7. \A h \in holds' :
              /\ h.by \in DOMAIN guards' /\ IsOf(h, h.by)'
              /\ Past(h.by, {"recording", "giving", "faulted", "printed", "ended"})'
              /\ (At(h.by, "recording") => Omits(h.by))'
        BY <3>2, <4>1, <4>2
      <4> QED
        BY <4>4, <4>5, <4>6, <4>7 DEF Held
    <3>6. CASE Returns(e)
      <4>1. /\ holds' = holds \ HoldsOfTurn(guards[e].dir, e) /\ guards'[e].phase = "faulted"
            /\ At(e, "giving") /\ Omits(e)
        BY <3>6 DEF Returns, At, Omitted
      <4>2. \A h \in HoldsOfTurn(guards[e].dir, e) : h.by = e
        BY <4>1, OnlyItsOwn
      <4>3. IsFiniteSet(holds')
        BY <4>1, FS_Difference DEF Held
      <4>4. ASSUME NEW f \in DOMAIN guards', Omits(f)',
                   Past(f, {"recording", "giving", "printed"})'
            PROVE  \E h \in holds' : h.by = f
        <5>1. f # e
          BY <4>1, <4>4 DEF Past
        <5>2. PICK h \in holds : h.by = f
          BY <3>3, <4>4, <5>1
        <5> QED
          BY <4>1, <4>2, <5>1, <5>2
      <4> QED
        BY <3>2, <4>1, <4>3, <4>4 DEF Held
    <3> QED
      BY <3>1, <3>4, <3>5, <3>6 DEF Keeps
  <2> QED
    BY <2>2, <2>3
<1>4. Publish \/ (\E s \in Sessions : GoOn(s)) \/ Tick \/ UNCHANGED guardVars =>
        UNCHANGED <<guards, holds>>
  BY PublishIs, GoOnIs DEF GuardTypeOK, Aside, Tick, guardVars
<1> QED
  BY <1>1, <1>2, <1>3, <1>4, StepKinds

-----------------------------------------------------------------------------
(***************************************************************************)
(* The blocks: an evaluation that blocked its turn is at rest.             *)
(***************************************************************************)
Blocks(e) ==
  /\ Waits(e) /\ At(e, "printed") /\ Omits(e)
  /\ guards'[e].phase = "printed" /\ guards'[e].state = guards[e].state
  /\ guards'[e].dir = guards[e].dir /\ guards'[e].at = guards[e].at
  /\ e \notin Blocked /\ Blocked' = Blocked \cup {e}

LEMMA BlockedRests ==
  ASSUME GuardsOK, BlocksPrinted, NEW e \in DOMAIN guards, Evaluate(e)
  PROVE  e \notin Blocked
<1> SUFFICES ASSUME e \in Blocked PROVE FALSE
  OBVIOUS
<1>1. guards[e].phase = "printed" /\ guards[e].answer = "block"
  BY DEF BlocksPrinted, Blocked, At
<1> QED
  BY <1>1 DEF Evaluate, Judge, Weigh, Proceed, Reserve, Record, RecordFails, GiveBack, Fault, Answer,
     TimesOut, GuardDies, AdapterDies, Waits, At

LEMMA EvaluateBlocks ==
  ASSUME GuardTypeOK, NewestThere, BlocksPrinted, NEW e \in DOMAIN guards, Evaluate(e)
  PROVE  /\ \A f \in Blocked : guards'[f] = guards[f]
         /\ Blocked' = Blocked \/ (Answer(e) /\ Blocks(e))
<1>1. GuardsOK /\ FactsOK /\ ClocksOK /\ e.session \in Sessions
  BY DEF GuardTypeOK, GuardsOK, Evaluations
<1>2. e \notin Blocked
  BY <1>1, BlockedRests
<1>3. /\ DOMAIN guards' = DOMAIN guards
      /\ \A f \in DOMAIN guards : f # e => guards'[f] = guards[f]
  BY EvaluateIs DEF Others
<1>4. \A f \in Blocked : guards'[f] = guards[f]
  BY <1>2, <1>3 DEF Blocked
<1>5. CASE guards'[e].answer # "block"
  BY <1>2, <1>3, <1>4, <1>5 DEF Blocked
<1>6. CASE guards'[e].answer = "block"
  <2>1. Blocked' = Blocked \cup {e}
    BY <1>2, <1>3, <1>4, <1>6 DEF Blocked
  <2>2. guards[e].answer # "block"
    BY <1>2 DEF Blocked
  <2>3. Answer(e)
    <3>1. CASE Judge(e)
      BY <1>1, <1>6, <2>2, <3>1, SelectedIs, JudgeIs DEF SameAnswer
    <3>2. CASE Weigh(e) \/ Proceed(e) \/ Reserve(e) \/ Record(e)
      BY <1>1, <1>6, <2>2, <3>2, WeighIs, ProceedIs, ReserveIs, RecordIs DEF Advances, SameAnswer
    <3>3. CASE RecordFails(e) \/ GiveBack(e) \/ Fault(e) \/ GuardDies(e)
      BY <1>1, <1>6, <2>2, <3>3, RecordFailsIs, GiveBackIs, FaultIs, GuardDiesIs
      DEF Advances, SameAnswer
    <3>4. CASE TimesOut(e) \/ AdapterDies(e)
      BY <1>1, <1>6, <3>4, TimesOutIs, AdapterDiesIs DEF Told
    <3> QED
      BY <3>1, <3>2, <3>3, <3>4 DEF Evaluate
  <2>4. Told(e, "block") /\ guards[e].phase = "printed" /\ guards[e].state \in Omissions
        /\ guards[e].answer = "none"
    BY <1>1, <1>6, <2>3, AnswerStepIs DEF Told
  <2> QED
    BY <1>2, <1>4, <2>1, <2>3, <2>4 DEF Blocks, Told, Goes, Settled, Waits, At, Omits
<1> QED
  BY <1>4, <1>5, <1>6

LEMMA StepBlocks ==
  ASSUME GuardTypeOK, NewestThere, OfItsTurn, BlocksPrinted, [GuardNext]_guardVars
  PROVE  /\ \A f \in DOMAIN guards : f \in DOMAIN guards'
         /\ \A f \in Blocked : guards'[f] = guards[f]
         /\ Blocked' = Blocked \/ \E e \in DOMAIN guards : Answer(e) /\ Blocks(e)
<1>1. CASE UNCHANGED guards
  BY <1>1 DEF Blocked
<1>2. ASSUME NEW s \in Sessions, Stop(s)
      PROVE  DOMAIN guards \subseteq DOMAIN guards' /\ Blocked' = Blocked
             /\ \A f \in Blocked : guards'[f] = guards[f]
  <2>1. /\ s \notin stopping
        /\ DOMAIN guards' = DOMAIN guards \cup Evaluating(s)
        /\ \A e \in Evaluating(s) : guards'[e] = Started(ClaimsOnlyOne(s))
        /\ \A e \in DOMAIN guards : e \notin Evaluating(s) => guards'[e] = guards[e]
    BY <1>2, StopIs DEF GuardTypeOK
  <2>2. \A e \in DOMAIN guards : guards'[e] = guards[e]
    BY <2>1 DEF OfItsTurn
  <2>3. \A e \in Evaluating(s) : guards'[e].answer = "none"
    BY <2>1 DEF Started
  <2> QED
    BY <2>1, <2>2, <2>3 DEF Blocked
<1>3. ASSUME NEW e \in DOMAIN guards, Evaluate(e)
      PROVE  /\ \A f \in DOMAIN guards : f \in DOMAIN guards'
             /\ \A f \in Blocked : guards'[f] = guards[f]
             /\ Blocked' = Blocked \/ (Answer(e) /\ Blocks(e))
  BY <1>3, EvaluateBlocks, EvaluateIs DEF Others
<1>4. Publish \/ (\E s \in Sessions : GoOn(s)) \/ Tick \/ UNCHANGED guardVars => UNCHANGED guards
  BY PublishIs, GoOnIs DEF GuardTypeOK, Aside, Tick, guardVars
<1> QED
  BY <1>1, <1>2, <1>3, <1>4, StepKinds

LEMMA BlocksPrintedKept ==
  ASSUME GuardTypeOK, NewestThere, OfItsTurn, BlocksPrinted, [GuardNext]_guardVars
  PROVE  BlocksPrinted'
<1>1. \A f \in Blocked : At(f, "printed")' /\ Omits(f)'
  BY StepBlocks DEF BlocksPrinted, At, Omits
<1>2. ASSUME NEW e \in DOMAIN guards, Blocks(e)
      PROVE  BlocksPrinted'
  BY <1>1, <1>2 DEF Blocks, BlocksPrinted, At, Omits
<1> QED
  BY <1>1, <1>2, StepBlocks DEF BlocksPrinted

-----------------------------------------------------------------------------
(***************************************************************************)
(* The books.                                                              *)
(***************************************************************************)
Noted(e) == \E o \in observations : o.by = e

\* What a step of an evaluation leaves of its account.
Books(e) ==
  /\ observations \subseteq observations'
  /\ guards[e].kept => guards'[e].kept
  /\ guards[e].phase = "ended" => guards'[e].phase = "ended"
  /\ guards[e].phase \in {"recording", "giving"} =>
       \/ guards'[e].phase \in {"recording", "giving", "ended"}
       \/ OnRecord(e)'
       \/ guards[e].state \notin Omissions \/ guards[e].dir = Nobody
       \/ guards'[e].kept
       \/ Returns(e)
  /\ guards'[e].phase = "printed" /\ guards'[e].state \in Omissions =>
       \/ guards[e].phase = "printed"
       \/ guards[e].dir # Nobody => OnRecord(e)'
  /\ guards'[e].phase = "printed" /\ guards'[e].dir # Nobody /\ guards'[e].state # "guard_faulted"
       => \/ guards[e].phase = "printed" /\ guards'[e].state = guards[e].state
          \/ Noted(e)'

LEMMA BooksIs ==
  ASSUME GuardsOK, NEW e \in DOMAIN guards, Evaluate(e), ~Judge(e)
  PROVE  Books(e)
<1>1. CASE Weigh(e)
  BY <1>1, WeighIs DEF Books, Advances, Goes
<1>2. CASE Proceed(e)
  BY <1>2, ProceedIs DEF Books, Advances, Goes
<1>3. CASE Reserve(e)
  BY <1>3, ReserveIs DEF Books, Advances, Goes
<1>4. CASE Record(e)
  <2>1. /\ guards[e].phase = "recording" /\ guards'[e].phase = "printed"
        /\ guards'[e].dir = guards[e].dir /\ guards'[e].state = guards[e].state
        /\ guards'[e].kept = guards[e].kept
        /\ observations' = IF guards[e].dir = Nobody THEN observations
                           ELSE observations \cup {Observation(e)}
    BY <1>4, RecordIs DEF Advances, Goes, Settled
  <2>2. /\ Observation(e).by = e /\ Observation(e).dir = guards[e].dir
        /\ Observation(e).held <=> guards[e].state \in Omissions
    BY DEF Observation
  <2>3. guards[e].dir # Nobody => Noted(e)'
    BY <2>1, <2>2 DEF Noted
  <2>4. guards[e].dir # Nobody /\ guards[e].state \in Omissions => OnRecord(e)'
    BY <2>1, <2>2 DEF OnRecord
  <2> QED
    BY <2>1, <2>3, <2>4 DEF Books
<1>5. CASE RecordFails(e)
  BY <1>5, RecordFailsIs DEF Books, Advances, Goes
<1>6. CASE GiveBack(e)
  BY <1>6, GiveBackIs DEF Books, Returns, Advances, Goes
<1>7. CASE Fault(e)
  BY <1>7, FaultIs DEF Books, Advances, Goes, Omissions
<1>8. CASE Answer(e)
  BY <1>8, AnswerStepIs DEF Books, Told, Goes
<1>9. CASE TimesOut(e)
  BY <1>9, TimesOutIs DEF Books, Goes
<1>10. CASE GuardDies(e)
  BY <1>10, GuardDiesIs DEF Books, Advances, Goes
<1>11. CASE AdapterDies(e)
  BY <1>11, AdapterDiesIs DEF Books, Told, Goes
<1> QED
  BY <1>1, <1>2, <1>3, <1>4, <1>5, <1>6, <1>7, <1>8, <1>9, <1>10, <1>11 DEF Evaluate

LEMMA RecordStays ==
  ASSUME NEW e, OnRecord(e), observations \subseteq observations', guards'[e].dir = guards[e].dir
  PROVE  OnRecord(e)'
BY DEF OnRecord

LEMMA AccountedKept ==
  ASSUME GuardTypeOK, NewestThere, OfItsTurn, Omitted, Held, Accounted, [GuardNext]_guardVars
  PROVE  Accounted'
<1>1. CASE UNCHANGED <<guards, holds, observations>>
  BY <1>1 DEF Accounted, OnRecord, Past, At, Omits
<1>2. ASSUME NEW s \in Sessions, Stop(s)
      PROVE  Accounted'
  <2>1. /\ s \notin stopping /\ UNCHANGED <<holds, observations>>
        /\ DOMAIN guards' = DOMAIN guards \cup Evaluating(s)
        /\ \A e \in Evaluating(s) : guards'[e] = Started(ClaimsOnlyOne(s))
        /\ \A e \in DOMAIN guards : e \notin Evaluating(s) => guards'[e] = guards[e]
    BY <1>2, StopIs DEF GuardTypeOK
  <2>2. \A e \in DOMAIN guards : guards'[e] = guards[e] /\ OnRecord(e)' = OnRecord(e)
    BY <2>1 DEF OfItsTurn, OnRecord
  <2>3. \A h \in holds : h.by \in DOMAIN guards
    BY DEF Held
  <2>4. \A e \in Evaluating(s) : guards'[e].state \notin Omissions
    BY <2>1 DEF Started, Omissions
  <2> QED
    BY <2>1, <2>2, <2>3, <2>4 DEF Accounted, Past, At, Omits
<1>3. ASSUME NEW e \in DOMAIN guards, Evaluate(e)
      PROVE  Accounted'
  <2>0. GuardsOK /\ FactsOK /\ ClocksOK /\ e.session \in Sessions
    BY DEF GuardTypeOK, GuardsOK, Evaluations
  <2>1. /\ DOMAIN guards' = DOMAIN guards
        /\ \A f \in DOMAIN guards : f # e => guards'[f] = guards[f]
    BY <1>3, EvaluateIs DEF Others
  <2>2. CASE Judge(e)
    <3>1. /\ guards[e].phase = "asked" /\ guards'[e].phase = "judged"
          /\ holds' = holds /\ observations' = observations
      BY <2>0, <2>2, SelectedIs, JudgeIs DEF Goes
    <3>2. \A h \in holds : h.by # e /\ h.by \in DOMAIN guards
      BY <3>1 DEF Held, Past
    <3>3. \A f \in DOMAIN guards : f # e => OnRecord(f)' = OnRecord(f)
      BY <2>1, <3>1 DEF OnRecord
    <3> QED
      BY <2>1, <3>1, <3>2, <3>3 DEF Accounted, Past, At, Omits
  <2>3. CASE ~Judge(e)
    <3>1. Later(e) /\ Keeps(e) /\ Books(e)
      BY <1>3, <2>0, <2>3, LaterIs, KeepsIs, BooksIs
    <3>2. observations \subseteq observations' /\ guards'[e].dir = guards[e].dir
      BY <3>1 DEF Later, Books
    <3>3. \A f \in DOMAIN guards : OnRecord(f) => OnRecord(f)'
      BY <2>1, <3>2, RecordStays
    <3>4. ASSUME NEW h \in holds', h \in holds
          PROVE  \/ OnRecord(h.by)'
                 \/ Past(h.by, {"recording", "giving", "ended"})'
                 \/ guards'[h.by].kept
      <4>1. /\ h.by \in DOMAIN guards /\ IsOf(h, h.by)
            /\ At(h.by, "recording") => Omits(h.by)
            /\ \/ OnRecord(h.by) \/ Past(h.by, {"recording", "giving", "ended"})
               \/ guards[h.by].kept
        BY <3>4 DEF Held, Accounted
      <4>2. CASE h.by # e
        BY <2>1, <3>3, <4>1, <4>2 DEF Past
      <4>3. CASE h.by = e
        <5>1. ~Returns(e)
          <6>1. h \in HoldsOfTurn(guards[e].dir, e)
            BY <3>4, <4>1, <4>3 DEF IsOf, HoldsOfTurn, HoldsOf
          <6> QED
            BY <3>4, <6>1 DEF Returns
        <5>2. guards[e].phase \in {"recording", "giving"} =>
                guards[e].state \in Omissions /\ guards[e].dir # Nobody
          BY <4>1, <4>3 DEF Omitted, At, Omits, Owes
        <5>3. CASE OnRecord(e) \/ guards[e].kept
          BY <3>1, <3>3, <4>3, <5>3 DEF Books
        <5>4. CASE Past(e, {"recording", "giving", "ended"})
          BY <3>1, <4>3, <5>1, <5>2, <5>4 DEF Books, Past
        <5> QED
          BY <4>1, <4>3, <5>3, <5>4
      <4> QED
        BY <4>2, <4>3
    <3>5. ASSUME NEW h \in holds', h \notin holds
          PROVE  Past(h.by, {"recording", "giving", "ended"})'
      BY <3>1, <3>5 DEF Keeps, Reserves, Returns, NewHold, Past
    <3>6. ASSUME NEW f \in DOMAIN guards', Omits(f)', At(f, "printed")'
          PROVE  OnRecord(f)'
      <4>1. CASE f # e
        BY <2>1, <3>3, <3>6, <4>1 DEF Accounted, Omits, At
      <4>2. CASE f = e
        <5>1. Omits(e) /\ guards[e].dir # Nobody
          BY <3>1, <3>6, <4>2 DEF Later, Omits, Omitted, Owes
        <5>2. At(e, "printed") => OnRecord(e)
          BY <5>1 DEF Accounted
        <5> QED
          BY <3>1, <3>3, <3>6, <4>2, <5>1, <5>2 DEF Books, Omits, At
      <4> QED
        BY <4>1, <4>2
    <3> QED
      BY <3>4, <3>5, <3>6 DEF Accounted
  <2> QED
    BY <2>2, <2>3
<1>4. Publish \/ (\E s \in Sessions : GoOn(s)) \/ Tick \/ UNCHANGED guardVars =>
        UNCHANGED <<guards, holds, observations>>
  BY PublishIs, GoOnIs DEF GuardTypeOK, Aside, Tick, guardVars
<1> QED
  BY <1>1, <1>2, <1>3, <1>4, StepKinds

LEMMA ClaimedAloneKept ==
  ASSUME GuardTypeOK, NewestThere, OfItsTurn, ClaimedAlone, [GuardNext]_guardVars
  PROVE  ClaimedAlone'
<1> DEFINE Fine(e) ==
      /\ guards[e].alone => \E a \in Declared : <<a, e.session>> \in claims
      /\ guards[e].alone /\ guards[e].dir # Nobody => <<guards[e].dir, e.session>> \in claims
      /\ At(e, "printed") /\ guards[e].dir # Nobody /\ guards[e].state # "guard_faulted" =>
           \E o \in observations : o.by = e
<1>0. \A e \in DOMAIN guards : Fine(e)
  BY DEF ClaimedAlone
<1>1. ASSUME NEW e \in DOMAIN guards, guards'[e] = guards[e], Declared \subseteq Declared',
             claims \subseteq claims', observations \subseteq observations'
      PROVE  Fine(e)'
  <2>1. Fine(e)
    BY <1>0
  <2> QED
    BY <1>1, <2>1 DEF At
<1>2. CASE Publish
  <2>1. /\ Declared \subseteq Declared' /\ claims \subseteq claims'
        /\ UNCHANGED <<guards, observations>>
    BY <1>2, PublishIs DEF GuardTypeOK, FactsGrow, Aside
  <2>2. \A e \in DOMAIN guards : Fine(e)'
    BY <1>1, <2>1
  <2> QED
    BY <2>1, <2>2 DEF ClaimedAlone
<1>3. ASSUME NEW s \in Sessions, Stop(s)
      PROVE  ClaimedAlone'
  <2>1. /\ s \notin stopping /\ UNCHANGED <<facts, observations>>
        /\ DOMAIN guards' = DOMAIN guards \cup Evaluating(s)
        /\ \A e \in Evaluating(s) : guards'[e] = Started(ClaimsOnlyOne(s))
        /\ \A e \in DOMAIN guards : e \notin Evaluating(s) => guards'[e] = guards[e]
    BY <1>3, StopIs DEF GuardTypeOK
  <2>2. Declared' = Declared /\ claims' = claims
    BY <2>1 DEF facts, Declared
  <2>3. ASSUME NEW e \in Evaluating(s)
        PROVE  Fine(e)'
    <3>1. guards'[e].alone = ClaimsOnlyOne(s) /\ guards'[e].dir = Nobody /\ guards'[e].phase = "asked"
          /\ e.session = s
      BY <2>1, <2>3 DEF Started, Evaluating
    <3>2. ClaimsOnlyOne(s) => \E a \in Declared : <<a, s>> \in claims
      <4> SUFFICES ASSUME ClaimsOnlyOne(s) PROVE \E a \in Declared : <<a, s>> \in claims
        OBVIOUS
      <4>1. PICK a \in Assignments : {c \in claims : c[2] = s} = {<<a, s>>}
        BY DEF ClaimsOnlyOne
      <4>2. <<a, s>> \in claims
        BY <4>1
      <4> QED
        BY <4>2 DEF GuardTypeOK, FactsOK
    <3> QED
      BY <2>2, <3>1, <3>2 DEF At
  <2>4. ASSUME NEW e \in DOMAIN guards, e \notin Evaluating(s)
        PROVE  Fine(e)'
    BY <1>1, <2>1, <2>2, <2>4
  <2> QED
    BY <2>1, <2>3, <2>4 DEF ClaimedAlone
<1>4. ASSUME NEW e \in DOMAIN guards, Evaluate(e)
      PROVE  ClaimedAlone'
  <2>0. GuardsOK /\ FactsOK /\ ClocksOK /\ e.session \in Sessions
    BY DEF GuardTypeOK, GuardsOK, Evaluations
  <2>1. /\ DOMAIN guards' = DOMAIN guards
        /\ \A f \in DOMAIN guards : f # e => guards'[f] = guards[f]
        /\ guards'[e].alone = guards[e].alone
        /\ Declared' = Declared /\ claims' = claims
    BY <1>4, EvaluateIs DEF Others, Elsewhere, facts, Declared
  <2>2. observations \subseteq observations'
    BY <1>4, <2>0, SelectedIs, JudgeIs, BooksIs DEF Books
  <2>3. \A f \in DOMAIN guards : f # e => Fine(f)'
    BY <1>1, <2>1, <2>2
  <2>4. Fine(e)
    BY <1>0
  <2>5. CASE Judge(e)
    <3>1. guards'[e].phase = "judged" /\ guards'[e].dir \in {Selected(e.session), Nobody}
      BY <2>0, <2>5, SelectedIs, JudgeIs DEF Goes
    <3>2. guards[e].alone => Selected(e.session) \in Claimed(e.session)
      <4>1. guards[e].alone => Claimed(e.session) # {}
        BY <2>4 DEF Claimed
      <4> QED
        BY <2>0, <4>1, SelectedIs
    <3>3. Fine(e)'
      BY <2>1, <2>4, <3>1, <3>2 DEF At, Claimed
    <3> QED
      BY <2>1, <2>3, <3>3 DEF ClaimedAlone
  <2>6. CASE ~Judge(e)
    <3>1. Later(e) /\ Books(e)
      BY <1>4, <2>0, <2>6, LaterIs, BooksIs
    <3>2. guards'[e].dir = guards[e].dir
      BY <3>1 DEF Later
    <3>3. Noted(e) => Noted(e)'
      BY <2>2 DEF Noted
    <3>4. At(e, "printed")' /\ guards'[e].dir # Nobody /\ guards'[e].state # "guard_faulted" =>
            Noted(e)'
      BY <2>4, <3>1, <3>2, <3>3 DEF Books, At, Noted
    <3>5. Fine(e)'
      BY <2>1, <2>4, <3>2, <3>4 DEF Noted
    <3> QED
      BY <2>1, <2>3, <3>5 DEF ClaimedAlone
  <2> QED
    BY <2>5, <2>6
<1>5. (\E s \in Sessions : GoOn(s)) \/ Tick \/ UNCHANGED guardVars =>
        UNCHANGED <<guards, observations, facts>>
  BY GoOnIs DEF GuardTypeOK, Tick, guardVars
<1>6. CASE UNCHANGED <<guards, observations, facts>>
  <2>1. Declared' = Declared /\ claims' = claims
    BY <1>6 DEF facts, Declared
  <2>2. \A e \in DOMAIN guards : Fine(e)'
    BY <1>1, <1>6, <2>1
  <2> QED
    BY <1>6, <2>2 DEF ClaimedAlone
<1> QED
  BY <1>2, <1>3, <1>4, <1>5, <1>6, StepKinds

-----------------------------------------------------------------------------
(***************************************************************************)
(* The bounds: every block has a hold of its own.                          *)
(***************************************************************************)
LEMMA FewerThanHolds ==
  ASSUME IsFiniteSet(holds), NEW H \in SUBSET holds, NEW B, \A f \in B : \E h \in H : h.by = f
  PROVE  IsFiniteSet(B) /\ Cardinality(B) \in Nat /\ Cardinality(B) <= Cardinality(H)
<1> DEFINE g == [f \in B |-> CHOOSE h \in H : h.by = f]
<1>1. \A f \in B : g[f] \in H /\ g[f].by = f
  OBVIOUS
<1>2. g \in [B -> H]
  BY <1>1
<1> HIDE DEF g
<1>3. g \in Injection(B, H)
  BY <1>1, <1>2 DEF Injection, IsInjective
<1>4. IsFiniteSet(H)
  BY FS_Subset
<1> QED
  BY <1>3, <1>4, FS_Injection, FS_CardinalityType

\* A block yet to come is of the turn under way, and is that turn's first.
LEMMA NoneInTurn ==
  ASSUME GuardTypeOK, OfItsTurn, Omitted, Held, BlocksPrinted, NEW e \in DOMAIN guards,
         Waits(e), At(e, "printed"), Omits(e), NEW f \in Blocked, f.session = e.session
  PROVE  f.turn < e.turn
<1> DEFINE s == e.session
<1>1. /\ f \in DOMAIN guards /\ f \in Evaluations /\ e \in Evaluations /\ f.turn \in Nat
      /\ e.turn \in Nat
  BY DEF Blocked, GuardTypeOK, GuardsOK, Evaluations
<1>2. /\ s \in stopping /\ e \in Evaluating(s) /\ e.turn = turn[s] /\ e.again = again[s]
  BY DEF OfItsTurn, Current, Evaluating
<1>3. f.turn <= e.turn /\ f.copy \in copies
  BY <1>1, <1>2 DEF OfItsTurn, Current
<1>4. SUFFICES ASSUME f.turn = e.turn PROVE FALSE
  BY <1>1, <1>3
<1>5. e.again = FALSE /\ f.again = FALSE
  BY <1>1, BlockedOnce DEF Omitted, Past, At, Weighed, Evaluations
<1>6. f \in Evaluating(s)
  BY <1>1, <1>2, <1>3, <1>4, <1>5 DEF Evaluating, Evaluations
<1>7. At(f, "printed") /\ Omits(f)
  BY DEF BlocksPrinted
<1>8. guards[f].dir = guards[e].dir
  BY <1>1, <1>2, <1>6, <1>7 DEF Omitted, Owes
<1>9. PICK h \in holds : h.by = e
  BY DEF Held, Past, At
<1>10. PICK k \in holds : k.by = f
  BY <1>1, <1>7 DEF Held, Past, At
<1>11. h.dir = k.dir /\ h.session = k.session /\ h.turn = k.turn
  BY <1>4, <1>8, <1>9, <1>10 DEF Held, IsOf
<1>12. e = f
  BY <1>9, <1>10, <1>11 DEF Held
<1> QED
  BY <1>12 DEF Waits, Blocked

LEMMA OnceATurnKept ==
  ASSUME GuardTypeOK, NewestThere, OfItsTurn, Omitted, Held, BlocksPrinted, OnceATurn,
         [GuardNext]_guardVars
  PROVE  OnceATurn'
<1>1. ASSUME NEW e \in DOMAIN guards, Blocks(e)
      PROVE  OnceATurn'
  <2>1. \A f \in Blocked : f.session = e.session => f.turn < e.turn
    BY <1>1, NoneInTurn DEF Blocks
  <2>2. \A f \in Blocked : f.turn \in Int /\ e.turn \in Int
    BY DEF Blocked, GuardTypeOK, GuardsOK, Evaluations
  <2> QED
    BY <1>1, <2>1, <2>2 DEF OnceATurn, Blocks
<1> QED
  BY <1>1, StepBlocks DEF OnceATurn

LEMMA EarlierSame ==
  ASSUME GuardTypeOK, NewestThere, OfItsTurn, BlocksPrinted, [GuardNext]_guardVars,
         NEW e \in DOMAIN guards, Waits(e),
         guards'[e].dir = guards[e].dir, guards'[e].at = guards[e].at
  PROVE  EarlierIn(e)' = EarlierIn(e) /\ EarlierNear(e)' = EarlierNear(e)
<1>1. ASSUME NEW x \in DOMAIN guards, Blocks(x)
      PROVE  x.session = e.session => ~(x.turn < e.turn)
  <2>1. x.session = e.session => x.turn = e.turn
    BY <1>1 DEF Blocks, OfItsTurn, Current, Evaluating
  <2>2. x.turn \in Int /\ e.turn \in Int
    BY DEF GuardTypeOK, GuardsOK, Evaluations
  <2> QED
    BY <2>1, <2>2
<1>2. \A f \in Blocked : guards'[f] = guards[f]
  BY StepBlocks
<1>3. CASE Blocked' = Blocked
  BY <1>2, <1>3 DEF EarlierIn, EarlierNear
<1>4. ASSUME NEW x \in DOMAIN guards, Blocks(x)
      PROVE  EarlierIn(e)' = EarlierIn(e) /\ EarlierNear(e)' = EarlierNear(e)
  <2>1. Blocked' = Blocked \cup {x} /\ (x.session = e.session => ~(x.turn < e.turn))
    BY <1>1, <1>4 DEF Blocks
  <2> QED
    BY <1>2, <2>1 DEF EarlierIn, EarlierNear
<1> QED
  BY <1>3, <1>4, StepBlocks

\* Who decides to hold leaves room for one more, in the generation and in the window.
LEMMA WeighedIsSpent ==
  ASSUME GuardTypeOK, Held, BlocksPrinted, NEW e \in DOMAIN guards, Weigh(e), Omits(e)'
  PROVE  /\ IsFiniteSet(EarlierIn(e)) /\ Cardinality(EarlierIn(e)) <= 1
         /\ IsFiniteSet(EarlierNear(e)) /\ Cardinality(EarlierNear(e)) <= 2
<1> DEFINE a == guards[e].dir
           G == HoldsOf(a)
           W == HoldsInWindow(e.session, guards[e].at)
<1>1. /\ guards[e].state \in Omissions
      /\ guards'[e].state = Decided(e, Cardinality(HoldsOfTurn(a, e)))
      /\ guards'[e].state = guards[e].state
  BY WeighIs DEF GuardTypeOK, Omits
<1>2. ~(Cardinality(G) >= 2) /\ ~(Cardinality(W) >= 3)
  BY <1>1 DEF Decided, Omissions, MaxHoldsPerGeneration, MaxHoldsPerWindow
<1>3. G \subseteq holds /\ W \subseteq holds
  BY DEF HoldsOf, HoldsInWindow
<1>4. ASSUME NEW f \in Blocked
      PROVE  \E h \in holds : h.by = f /\ IsOf(h, f)
  BY DEF Held, BlocksPrinted, Past, At, Blocked
<1>5. \A f \in EarlierIn(e) : \E h \in G : h.by = f
  <2> SUFFICES ASSUME NEW f \in EarlierIn(e) PROVE \E h \in G : h.by = f
    OBVIOUS
  <2>1. f \in Blocked /\ guards[f].dir = a
    BY DEF EarlierIn
  <2>2. PICK h \in holds : h.by = f /\ IsOf(h, f)
    BY <1>4, <2>1
  <2> QED
    BY <2>1, <2>2 DEF HoldsOf, IsOf
<1>6. \A f \in EarlierNear(e) : \E h \in W : h.by = f
  <2> SUFFICES ASSUME NEW f \in EarlierNear(e) PROVE \E h \in W : h.by = f
    OBVIOUS
  <2>1. f \in Blocked /\ f.session = e.session /\ guards[f].at + Window > guards[e].at
    BY DEF EarlierNear
  <2>2. PICK h \in holds : h.by = f /\ IsOf(h, f)
    BY <1>4, <2>1
  <2> QED
    BY <2>1, <2>2 DEF HoldsInWindow, IsOf
<1>7. IsFiniteSet(holds)
  BY DEF Held
<1>8. IsFiniteSet(G) /\ IsFiniteSet(W) /\ Cardinality(G) \in Nat /\ Cardinality(W) \in Nat
  BY <1>3, <1>7, FS_Subset, FS_CardinalityType
<1> HIDE DEF G, W
<1>9. IsFiniteSet(EarlierIn(e)) /\ Cardinality(EarlierIn(e)) \in Nat
      /\ Cardinality(EarlierIn(e)) <= Cardinality(G)
  BY <1>3, <1>5, <1>7, FewerThanHolds
<1>10. IsFiniteSet(EarlierNear(e)) /\ Cardinality(EarlierNear(e)) \in Nat
      /\ Cardinality(EarlierNear(e)) <= Cardinality(W)
  BY <1>3, <1>6, <1>7, FewerThanHolds
<1> QED
  BY <1>2, <1>8, <1>9, <1>10

LEMMA SpentKept ==
  ASSUME GuardTypeOK, NewestThere, OfItsTurn, OfItsTurn', Omitted, Held, BlocksPrinted, Spent,
         [GuardNext]_guardVars
  PROVE  Spent'
<1> DEFINE Fine(e) == /\ IsFiniteSet(EarlierIn(e)) /\ Cardinality(EarlierIn(e)) <= 1
                      /\ IsFiniteSet(EarlierNear(e)) /\ Cardinality(EarlierNear(e)) <= 2
<1>1. ASSUME NEW e \in DOMAIN guards, Waits(e), Omits(e), Past(e, Weighed),
             guards'[e].dir = guards[e].dir, guards'[e].at = guards[e].at
      PROVE  Fine(e)'
  <2>1. EarlierIn(e)' = EarlierIn(e) /\ EarlierNear(e)' = EarlierNear(e)
    BY <1>1, EarlierSame
  <2>2. Fine(e)
    BY <1>1 DEF Spent
  <2> QED
    BY <2>1, <2>2
<1>2. ASSUME NEW e \in DOMAIN guards', Waits(e)', Omits(e)', Past(e, Weighed)'
      PROVE  Fine(e)'
  <2>1. CASE UNCHANGED guards
    BY <1>1, <1>2, <2>1 DEF Waits, Omits, Past
  <2>2. ASSUME NEW s \in Sessions, Stop(s)
        PROVE  Fine(e)'
    <3>1. /\ DOMAIN guards' = DOMAIN guards \cup Evaluating(s)
          /\ \A f \in Evaluating(s) : guards'[f] = Started(ClaimsOnlyOne(s))
          /\ \A f \in DOMAIN guards : f \notin Evaluating(s) => guards'[f] = guards[f]
      BY <2>2, StopIs DEF GuardTypeOK
    <3>2. e \notin Evaluating(s)
      BY <1>2, <3>1 DEF Started, Past, Weighed
    <3>3. e \in DOMAIN guards /\ guards'[e] = guards[e]
      BY <3>1, <3>2
    <3> QED
      BY <1>1, <1>2, <3>3 DEF Waits, Omits, Past
  <2>3. ASSUME NEW x \in DOMAIN guards, Evaluate(x)
        PROVE  Fine(e)'
    <3>0. GuardsOK /\ FactsOK /\ ClocksOK /\ x.session \in Sessions
      BY DEF GuardTypeOK, GuardsOK, Evaluations
    <3>1. /\ e \in DOMAIN guards
          /\ \A f \in DOMAIN guards : f # x => guards'[f] = guards[f]
      BY <2>3, EvaluateIs DEF Others
    <3>2. CASE e # x
      BY <1>1, <1>2, <3>1, <3>2 DEF Waits, Omits, Past
    <3>3. CASE e = x /\ Judge(e)
      <4>1. guards'[e].phase = "judged"
        BY <3>0, <3>3, SelectedIs, JudgeIs DEF Goes
      <4> QED
        BY <1>2, <4>1 DEF Past, Weighed
    <3>4. CASE e = x /\ ~Judge(e)
      <4>1. Later(e)
        BY <2>3, <3>0, <3>1, <3>4, LaterIs
      <4>2. CASE Weigh(e)
        <5>1. Fine(e)
          BY <1>2, <3>1, <4>2, WeighedIsSpent
        <5>2. Waits(e) /\ guards'[e].dir = guards[e].dir /\ guards'[e].at = guards[e].at
          BY <1>2, <4>1 DEF Later, Waits
        <5>3. EarlierIn(e)' = EarlierIn(e) /\ EarlierNear(e)' = EarlierNear(e)
          BY <3>1, <5>2, EarlierSame
        <5> QED
          BY <5>1, <5>3
      <4>3. CASE ~Weigh(e)
        <5>1. Waits(e) /\ Omits(e) /\ Past(e, Weighed)
              /\ guards'[e].dir = guards[e].dir /\ guards'[e].at = guards[e].at
          BY <1>2, <4>1, <4>3 DEF Later, Waits, Omits, Past
        <5> QED
          BY <1>1, <3>1, <5>1
      <4> QED
        BY <4>2, <4>3
    <3> QED
      BY <3>2, <3>3, <3>4, <2>3
  <2>4. Publish \/ (\E s \in Sessions : GoOn(s)) \/ Tick \/ UNCHANGED guardVars => UNCHANGED guards
    BY PublishIs, GoOnIs DEF GuardTypeOK, Aside, Tick, guardVars
  <2> QED
    BY <2>1, <2>2, <2>3, <2>4, StepKinds
<1> QED
  BY <1>2 DEF Spent

LEMMA FewEnoughKept ==
  ASSUME GuardTypeOK, NewestThere, OfItsTurn, Omitted, Held, BlocksPrinted, Spent, FewEnough,
         [GuardNext]_guardVars
  PROVE  FewEnough'
<1>1. \A f \in Blocked : guards'[f] = guards[f]
  BY StepBlocks
<1>2. CASE Blocked' = Blocked
  <2>1. \A a : InGeneration(a)' = InGeneration(a)
    BY <1>1, <1>2 DEF InGeneration
  <2>2. \A g \in Blocked : InWindow(g)' = InWindow(g)
    BY <1>1, <1>2 DEF InWindow
  <2> QED
    BY <1>2, <2>1, <2>2 DEF FewEnough
<1>3. ASSUME NEW e \in DOMAIN guards, Blocks(e)
      PROVE  FewEnough'
  <2>1. /\ Waits(e) /\ At(e, "printed") /\ Omits(e) /\ e \notin Blocked
        /\ Blocked' = Blocked \cup {e}
        /\ guards'[e].dir = guards[e].dir /\ guards'[e].at = guards[e].at
    BY <1>3 DEF Blocks
  <2>2. /\ IsFiniteSet(EarlierIn(e)) /\ Cardinality(EarlierIn(e)) <= 1
        /\ IsFiniteSet(EarlierNear(e)) /\ Cardinality(EarlierNear(e)) <= 2
    BY <2>1 DEF Spent, Past, At, Weighed
  <2>3. /\ IsFiniteSet(EarlierIn(e) \cup {e}) /\ Cardinality(EarlierIn(e) \cup {e}) <= 2
        /\ IsFiniteSet(EarlierNear(e) \cup {e}) /\ Cardinality(EarlierNear(e) \cup {e}) <= 3
    <3>1. ASSUME NEW S, IsFiniteSet(S), NEW n \in Nat, Cardinality(S) <= n
          PROVE  IsFiniteSet(S \cup {e}) /\ Cardinality(S \cup {e}) <= n + 1
      <4>1. /\ IsFiniteSet(S \cup {e}) /\ Cardinality(S) \in Nat
            /\ Cardinality(S \cup {e}) = IF e \in S THEN Cardinality(S) ELSE Cardinality(S) + 1
        BY <3>1, FS_AddElement, FS_CardinalityType
      <4> QED
        BY <3>1, <4>1
    <3>2. /\ IsFiniteSet(EarlierIn(e) \cup {e}) /\ Cardinality(EarlierIn(e) \cup {e}) <= 1 + 1
      BY <2>2, <3>1
    <3>3. /\ IsFiniteSet(EarlierNear(e) \cup {e}) /\ Cardinality(EarlierNear(e) \cup {e}) <= 2 + 1
      BY <2>2, <3>1
    <3> QED
      BY <3>2, <3>3
  <2>4. \A f \in Blocked : f.session = e.session => f.turn < e.turn
    BY <2>1, NoneInTurn
  <2>5. IsFiniteSet(Blocked')
    BY <2>1, FS_AddElement DEF FewEnough
  <2>6. ASSUME NEW a \in Assignments
        PROVE  Cardinality(InGeneration(a)') <= MaxHoldsPerGeneration
    <3>1. CASE guards[e].dir # a
      <4>1. InGeneration(a)' = InGeneration(a)
        BY <1>1, <2>1, <3>1 DEF InGeneration
      <4> QED
        BY <4>1 DEF FewEnough
    <3>2. CASE guards[e].dir = a
      <4>1. ASSUME NEW f \in Blocked, guards[f].dir = a
            PROVE  f.session = e.session
        <5>1. f \in DOMAIN guards /\ Omits(f)
          BY DEF BlocksPrinted, Blocked
        <5>2. Owes(e) /\ Owes(f)
          BY <2>1, <5>1 DEF Omitted
        <5> QED
          BY <3>2, <4>1, <5>2 DEF Owes
      <4>2. InGeneration(a)' \subseteq EarlierIn(e) \cup {e}
        BY <1>1, <2>1, <2>4, <3>2, <4>1 DEF InGeneration, EarlierIn
      <4> HIDE DEF InGeneration
      <4>3. IsFiniteSet(InGeneration(a)')
            /\ Cardinality(InGeneration(a)') <= Cardinality(EarlierIn(e) \cup {e})
        BY <2>3, <4>2, FS_Subset
      <4>4. Cardinality(InGeneration(a)') \in Nat /\ Cardinality(EarlierIn(e) \cup {e}) \in Nat
        BY <2>3, <4>3, FS_CardinalityType
      <4> QED
        BY <2>3, <4>3, <4>4 DEF MaxHoldsPerGeneration
    <3> QED
      BY <3>1, <3>2
  <2>7. ASSUME NEW g \in Blocked'
        PROVE  Cardinality(InWindow(g)') <= MaxHoldsPerWindow
    <3>0. /\ guards'[g].at = guards[g].at /\ guards[g].at \in Nat /\ guards[e].at \in Nat
          /\ \A f \in Blocked : guards[f].at \in Nat
      BY <1>1, <2>1, <2>7 DEF GuardTypeOK, GuardsOK, Guards, Blocked
    <3>1. CASE g # e /\ e \notin InWindow(g)'
      <4>1. InWindow(g)' = InWindow(g)
        BY <1>1, <2>1, <3>1 DEF InWindow
      <4> QED
        BY <2>1, <3>1, <4>1 DEF FewEnough
    <3>2. CASE g = e \/ e \in InWindow(g)'
      <4>1. g.session = e.session /\ guards[e].at <= guards[g].at
        BY <2>1, <3>0, <3>2 DEF InWindow
      <4>2. InWindow(g)' \subseteq EarlierNear(e) \cup {e}
        <5> SUFFICES ASSUME NEW f \in InWindow(g)', f # e PROVE f \in EarlierNear(e)
          OBVIOUS
        <5>1. f \in Blocked /\ f.session = e.session /\ guards[f].at + Window > guards[g].at
          BY <1>1, <2>1, <3>0, <4>1 DEF InWindow
        <5>2. guards[f].at + Window > guards[e].at
          BY <3>0, <4>1, <5>1, GuardAssumption
        <5> QED
          BY <2>4, <5>1, <5>2 DEF EarlierNear
      <4>3. IsFiniteSet(InWindow(g)')
            /\ Cardinality(InWindow(g)') <= Cardinality(EarlierNear(e) \cup {e})
        BY <2>3, <4>2, FS_Subset
      <4>4. Cardinality(InWindow(g)') \in Nat /\ Cardinality(EarlierNear(e) \cup {e}) \in Nat
        BY <2>3, <4>3, FS_CardinalityType
      <4> QED
        BY <2>3, <4>3, <4>4 DEF MaxHoldsPerWindow
    <3> QED
      BY <3>1, <3>2
  <2> QED
    BY <2>5, <2>6, <2>7 DEF FewEnough
<1> QED
  BY <1>2, <1>3, StepBlocks

-----------------------------------------------------------------------------
LEMMA InitHolds ==
  ASSUME GuardInit
  PROVE  IInv
<1>1. DOMAIN guards = {} /\ holds = {} /\ observations = {} /\ declared = <<>> /\ claims = {}
  BY DEF GuardInit
<1>2. Declared = {} /\ Blocked = {}
  BY <1>1 DEF Declared, Range, Blocked
<1>3. FactsOK
  BY <1>1 DEF GuardInit, FactsOK
<1>4. HostOK /\ RelayOK /\ ClocksOK
  BY GuardAssumption DEF GuardInit, HostOK, RelayOK, ClocksOK
<1>5. GuardsOK
  <2>1. guards = [e \in {} |-> e]
    BY DEF GuardInit
  <2> QED
    BY <1>1, <2>1 DEF GuardsOK
<1>6. NewestThere
  BY <1>2 DEF NewestThere
<1>7. OfItsTurn
  BY <1>1 DEF OfItsTurn, GuardInit
<1>8. Omitted /\ BlocksPrinted /\ Spent /\ Accounted /\ ClaimedAlone /\ OnceATurn
  BY <1>1, <1>2 DEF Omitted, BlocksPrinted, Spent, Accounted, ClaimedAlone, OnceATurn
<1>9. Held
  BY <1>1, FS_EmptySet DEF Held
<1>10. FewEnough
  <2>1. \A a : InGeneration(a) = {}
    BY <1>2 DEF InGeneration
  <2>2. Cardinality({}) = 0 /\ IsFiniteSet({})
    BY FS_EmptySet
  <2> QED
    BY <1>2, <2>1, <2>2 DEF FewEnough, MaxHoldsPerGeneration
<1> QED
  BY <1>3, <1>4, <1>5, <1>6, <1>7, <1>8, <1>9, <1>10 DEF IInv, GuardTypeOK

LEMMA StepHolds ==
  ASSUME IInv, [GuardNext]_guardVars
  PROVE  IInv'
<1>1. GuardTypeOK' /\ NewestThere'
  BY TypeKept, NewestKept DEF IInv, GuardTypeOK
<1>2. OfItsTurn'
  BY <1>1, OfItsTurnKept DEF IInv
<1>3. Omitted' /\ Held' /\ BlocksPrinted' /\ OnceATurn' /\ Accounted' /\ ClaimedAlone'
  BY <1>1, OmittedKept, HeldKept, BlocksPrintedKept, OnceATurnKept, AccountedKept, ClaimedAloneKept
  DEF IInv
<1>4. Spent' /\ FewEnough'
  BY <1>2, SpentKept, FewEnoughKept DEF IInv
<1> QED
  BY <1>1, <1>2, <1>3, <1>4 DEF IInv

LEMMA GuardInvariant == GuardSpec => []IInv
<1>1. GuardInit => IInv
  BY InitHolds
<1>2. IInv /\ [GuardNext]_guardVars => IInv'
  BY StepHolds
<1> QED
  BY <1>1, <1>2, PTL DEF GuardSpec

\* Facts, relay, host, evaluations and files keep their types, for any sessions and copies of the
\* hook (marker.py: the files; guard.py: _evaluate).
THEOREM GuardTypes == GuardSpec => []GuardTypeOK
<1>1. IInv => GuardTypeOK
  BY DEF IInv
<1> QED
  BY <1>1, GuardInvariant, PTL

\* However evaluations, copies of the hook, orphans and turns overlap, a turn is held once, an
\* assignment twice and a session three times in any window (guard.py: decide, reserve_hold).
THEOREM Bounded == GuardSpec => []HoldsAreBounded
<1>1. IInv => HoldsAreBounded
  BY DEF IInv, OnceATurn, FewEnough, HoldsAreBounded, InGeneration, InWindow
<1> QED
  BY <1>1, GuardInvariant, PTL

\* A hold is not spent on nothing, and whatever holds a turn is on record (guard.py:
\* release_hold, record_observation).
THEOREM AccountedFor == GuardSpec => []HoldsAreAccountedFor
<1>1. IInv => HoldsAreAccountedFor
  <2>1. ASSUME IInv, NEW e \in Blocked
        PROVE  \E o \in observations : o.by = e /\ o.held /\ o.dir = guards[e].dir
    BY <2>1 DEF IInv, BlocksPrinted, Accounted, OnRecord, Blocked
  <2>2. ASSUME IInv, NEW h \in holds
        PROVE  \/ \E o \in observations : o.by = h.by /\ o.held
               \/ guards[h.by].phase \in {"recording", "giving", "ended"}
               \/ guards[h.by].kept
    BY <2>2 DEF IInv, Accounted, OnRecord, Past
  <2> QED
    BY <2>1, <2>2 DEF HoldsAreAccountedFor
<1> QED
  BY <1>1, GuardInvariant, PTL

\* A turn of a session that had claimed one assignment is on record there (intent.py:
\* select_assignment).
THEOREM JudgedThere == GuardSpec => []JudgedWhereItClaimed
<1>1. IInv => JudgedWhereItClaimed
  BY DEF IInv, ClaimedAlone, JudgedWhereItClaimed, At
<1> QED
  BY <1>1, GuardInvariant, PTL

\* Nobody is held but the child that claimed the assignment it was bound to, not when it declared
\* that it waits, and not for a receipt that stands (guard.py: observe_state).
THEOREM OnlyOmissions == GuardSpec => OnlyOmissionsAreHeld
<1> DEFINE Held1(e) == LET a == guards[e].dir
                       IN  /\ bound[a] = e.session /\ <<a, e.session>> \in claims
                           /\ ~Says(a, e.session, e.turn, "waiting")
                           /\ guards[e].state = "receipt_missing" => ~Stands(e.session, e.turn)
<1>1. IInv /\ [GuardNext]_guardVars => \A e \in Blocked' \ Blocked : Held1(e)
  <2> SUFFICES ASSUME IInv, [GuardNext]_guardVars, NEW e \in Blocked' \ Blocked
               PROVE  Held1(e)
    OBVIOUS
  <2>1. e \in DOMAIN guards /\ Blocks(e)
    BY StepBlocks DEF IInv, Blocks
  <2>2. Waits(e) /\ Omits(e)
    BY <2>1 DEF Blocks
  <2>3. Owes(e)
    BY <2>1, <2>2 DEF IInv, Omitted
  <2> QED
    BY <2>2, <2>3 DEF Owes
<1>2. IInv /\ [GuardNext]_guardVars => [\A e \in Blocked' \ Blocked : Held1(e)]_guards
  BY <1>1
<1>3. OnlyOmissionsAreHeld <=> [][\A e \in Blocked' \ Blocked : Held1(e)]_guards
  BY DEF OnlyOmissionsAreHeld
<1> QED
  BY <1>2, <1>3, GuardInvariant, PTL DEF GuardSpec
=============================================================================
