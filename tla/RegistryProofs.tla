--------------------------- MODULE RegistryProofs ---------------------------
(***************************************************************************)
(* What holds of who is registered, for all constants and any bound of the *)
(* models.  First the registry: any tasks, callers, requests and turns.    *)
(* Then the identity of an assignment's child: any coordinators, tasks and *)
(* sessions.  Then the registrations of bridge and adapter on a host: any  *)
(* runs, tables, commands and settings.                                    *)
(***************************************************************************)
EXTENDS Registry, Identity, Registration, TLAPS, SequenceTheorems

(***************************************************************************)
(* The strengthening: what a caller between its read and its transaction   *)
(* may be about to write, and what cannot be there before a registration.  *)
(***************************************************************************)

CallsAreSound ==
  \A c \in Callers :
    /\ caller[c].call \in {"register", "open"} => caller[c].request \in Requests
    /\ caller[c].call = "bind" => /\ caller[c].number \in Generations
                                  /\ caller[c].number <= generation[caller[c].rel]
    /\ caller[c].call = "register" => caller[c].supersedes # caller[c].rel

NothingBeforeRegistration ==
  \A r \in Rels : /\ status[r] = "absent" => generation[r] = 0 /\ r \notin revived
                  /\ \A g \in Generations : anchor[r][g] # Pending => g <= generation[r]

IInv == TypeOK /\ CallsAreSound /\ NothingBeforeRegistration /\ OneGenerationPerRequest

-----------------------------------------------------------------------------

LEMMA IdleCall == NoCall \in Caller
BY RegistryAssumption DEF NoCall, Caller, Calls

LEMMA InitInvariant == Init => IInv
<1> SUFFICES ASSUME Init PROVE IInv
  OBVIOUS
<1>1. TypeOK
  BY IdleCall, RegistryAssumption DEF Init, TypeOK, Statuses, Generations
<1>2. CallsAreSound
  BY DEF Init, CallsAreSound, NoCall
<1>3. NothingBeforeRegistration /\ OneGenerationPerRequest
  BY DEF Init, NothingBeforeRegistration, OneGenerationPerRequest
<1> QED
  BY <1>1, <1>2, <1>3 DEF IInv

-----------------------------------------------------------------------------
(* The reads before a transaction                                            *)

LEMMA BeginsKeeps ==
  ASSUME IInv, NEW c \in Callers, NEW call \in Caller, Begins(c, call),
         call.call \in {"register", "open"} => call.request \in Requests,
         call.call = "bind" => call.number \in Generations /\ call.number <= generation[call.rel],
         call.call = "register" => call.supersedes # call.rel
  PROVE  IInv'
<1> USE DEF IInv, Begins, genVars
<1>1. TypeOK'
  BY DEF TypeOK
<1>2. CallsAreSound'
  BY DEF TypeOK, CallsAreSound
<1>3. NothingBeforeRegistration' /\ OneGenerationPerRequest'
  BY DEF NothingBeforeRegistration, OneGenerationPerRequest
<1> QED
  BY <1>1, <1>2, <1>3

LEMMA BeginRegisterKeeps ==
  ASSUME IInv, NEW c \in Callers, NEW r \in Rels, NEW request \in Requests,
         NEW turn \in Turns \cup {Pending}, NEW s \in Rels \cup {None},
         BeginRegister(c, r, request, turn, s)
  PROVE  IInv'
<1> DEFINE call == [NoCall EXCEPT !.call = "register", !.rel = r, !.request = request,
                                  !.turn = turn, !.supersedes = s]
<1>1. call \in Caller /\ call.call = "register" /\ call.request = request /\ call.rel = r
      /\ call.supersedes = s
  BY IdleCall DEF Caller, Calls
<1>2. s # r
  BY RegistryAssumption DEF BeginRegister
<1>3. Begins(c, call)
  BY DEF BeginRegister
<1> HIDE DEF call
<1> QED
  BY <1>1, <1>2, <1>3, BeginsKeeps

LEMMA BeginOpenKeeps ==
  ASSUME IInv, NEW c \in Callers, NEW r \in Rels, NEW request \in Requests,
         BeginOpen(c, r, request)
  PROVE  IInv'
<1> DEFINE call == [NoCall EXCEPT !.call = "open", !.rel = r, !.request = request]
<1>1. call \in Caller /\ call.call = "open" /\ call.request = request
  BY IdleCall DEF Caller, Calls
<1>2. Begins(c, call)
  BY DEF BeginOpen
<1> HIDE DEF call
<1> QED
  BY <1>1, <1>2, BeginsKeeps

LEMMA BeginBindKeeps ==
  ASSUME IInv, NEW c \in Callers, NEW r \in Rels, NEW g \in Generations, NEW turn \in Turns,
         BeginBind(c, r, g, turn)
  PROVE  IInv'
<1> DEFINE call == [NoCall EXCEPT !.call = "bind", !.rel = r, !.number = g, !.turn = turn]
<1>0. g \in 0..MaxGeneration
  BY RegistryAssumption DEF Generations
<1>1. call \in Caller /\ call.call = "bind" /\ call.number = g /\ call.rel = r
  BY <1>0, IdleCall DEF Caller, Calls
<1>2. Begins(c, call) /\ g <= generation[r]
  BY DEF BeginBind
<1> HIDE DEF call
<1> QED
  BY <1>1, <1>2, BeginsKeeps

LEMMA BeginResumeKeeps ==
  ASSUME IInv, NEW c \in Callers, NEW r \in Rels, BeginResume(c, r)
  PROVE  IInv'
<1> DEFINE call == [NoCall EXCEPT !.call = "resume", !.rel = r, !.number = generation[r]]
<1>1. call \in Caller /\ call.call = "resume"
  BY IdleCall DEF IInv, TypeOK, Caller, Calls
<1>2. Begins(c, call)
  BY DEF BeginResume
<1> HIDE DEF call
<1> QED
  BY <1>1, <1>2, BeginsKeeps

-----------------------------------------------------------------------------
(* The transactions                                                          *)

\* What a caller has in hand, and that it is then free for the next call.
LEMMA InHand ==
  ASSUME TypeOK, NEW c \in Callers
  PROVE  /\ caller[c] \in Caller
         /\ Returns(c) => /\ caller' \in [Callers -> Caller]
                          /\ \A d \in Callers : d # c => caller'[d] = caller[d]
                          /\ caller'[c].call = "none"
<1>1. caller[c] \in Caller /\ NoCall.call = "none"
  BY DEF TypeOK, NoCall
<1> QED
  BY <1>1, IdleCall DEF TypeOK, Returns

LEMMA RegisterKeeps ==
  ASSUME IInv, NEW c \in Callers, Register(c)
  PROVE  IInv'
<1> DEFINE r == caller[c].rel
           s == caller[c].supersedes
<1> USE DEF IInv, genVars
<1>1. /\ r \in Rels /\ s \in Rels \cup {None} /\ caller[c].turn \in Turns \cup {Pending}
      /\ caller[c].request \in Requests /\ s # r /\ Returns(c)
  BY InHand DEF Register, Caller, CallsAreSound
<1>2. CASE UNCHANGED <<status, supersededBy, genVars, revived>>
  <2>1. TypeOK'
    BY <1>1, <1>2, InHand DEF TypeOK, Register
  <2>2. CallsAreSound' /\ NothingBeforeRegistration' /\ OneGenerationPerRequest'
    BY <1>1, <1>2, InHand DEF CallsAreSound, NothingBeforeRegistration, OneGenerationPerRequest
  <2> QED
    BY <2>1, <2>2
<1>3. CASE ~UNCHANGED <<status, supersededBy, genVars, revived>>
  <2>1. /\ status[r] = "absent" /\ changes' = changes
        /\ status' = [q \in Rels |-> IF q = r THEN "active"
                                     ELSE IF q = s THEN "archived" ELSE status[q]]
        /\ supersededBy' = IF s = None THEN supersededBy ELSE [supersededBy EXCEPT ![s] = r]
        /\ generation' = [generation EXCEPT ![r] = 1]
        /\ requestOf' = [requestOf EXCEPT ![r][1] = caller[c].request]
        /\ anchor' = [anchor EXCEPT ![r][1] = caller[c].turn]
        /\ revived' = IF s \in revived THEN (revived \ {s}) \cup {r} ELSE revived
    BY <1>3 DEF Register
  <2> HIDE DEF r, s
  <2>2. /\ generation[r] = 0 /\ r \notin revived /\ 1 \in Generations /\ Generations \subseteq Nat
        /\ \A g \in Generations : requestOf[r][g] = None /\ anchor[r][g] = Pending
    BY <1>1, <2>1, RegistryAssumption DEF TypeOK, NothingBeforeRegistration, Generations
  <2>3. /\ requestOf' \in [Rels -> [Generations -> Requests \cup {None}]]
        /\ anchor' \in [Rels -> [Generations -> Turns \cup {Pending}]]
        /\ generation' \in [Rels -> 0..MaxGeneration]
    BY <1>1, <2>1, <2>2, RegistryAssumption DEF TypeOK
  <2>4. \A q \in Rels : q # r => /\ requestOf'[q] = requestOf[q] /\ anchor'[q] = anchor[q]
                                 /\ generation'[q] = generation[q]
                                 /\ status'[q] = "absent" => status[q] = "absent"
    BY <2>1, <1>1 DEF TypeOK
  <2>5. /\ generation'[r] = 1 /\ status'[r] = "active"
        /\ \A g \in Generations : g # 1 => requestOf'[r][g] = None /\ anchor'[r][g] = Pending
        /\ requestOf'[r][1] = caller[c].request
    BY <1>1, <2>1, <2>2 DEF TypeOK
  <2>6. \A g \in Generations : requestOf'[r][g] # None <=> g <= generation'[r]
    <3>1. \A g \in Generations : g \in Nat /\ 1 <= g
      BY DEF Generations
    <3>2. caller[c].request # None
      BY <1>1, RegistryAssumption
    <3> QED
      BY <2>2, <2>5, <3>1, <3>2
  <2>7. TypeOK'
    <3>1. status' \in [Rels -> Statuses] /\ supersededBy' \in [Rels -> Rels \cup {None}]
          /\ revived' \in SUBSET Rels
      BY <1>1, <2>1, RegistryAssumption DEF TypeOK, Statuses
    <3> QED
      BY <1>1, <2>1, <2>3, <2>4, <2>6, <3>1, InHand DEF TypeOK
  <2>8. CallsAreSound'
    <3>1. \A q \in Rels : /\ generation[q] \in Nat /\ generation'[q] \in Nat
                           /\ generation[q] <= generation'[q]
      BY <1>1, <2>1, <2>2, <2>4, <2>5, RegistryAssumption DEF TypeOK
    <3>2. ASSUME NEW d \in Callers, d # c, caller[d].call = "bind"
          PROVE  caller[d].number <= generation'[caller[d].rel]
      <4>1. /\ caller[d].rel \in Rels /\ caller[d].number \in Nat
            /\ caller[d].number <= generation[caller[d].rel]
        BY <2>2, <3>2 DEF TypeOK, Caller, CallsAreSound
      <4> QED
        BY <3>1, <4>1
    <3>3. \A d \in Callers : d # c => caller'[d] = caller[d]
      BY <1>1, InHand
    <3>4. caller'[c].call = "none"
      BY <1>1, InHand
    <3> QED
      BY <3>2, <3>3, <3>4 DEF CallsAreSound
  <2>9. NothingBeforeRegistration'
    <3>1. \A q \in Rels : q # r /\ status[q] = "absent" => q \notin revived'
      BY <2>1 DEF NothingBeforeRegistration
    <3> QED
      BY <1>1, <2>2, <2>4, <2>5, <3>1 DEF NothingBeforeRegistration
  <2>10. OneGenerationPerRequest'
    BY <2>4, <2>5 DEF OneGenerationPerRequest
  <2> QED
    BY <2>7, <2>8, <2>9, <2>10
<1> QED
  BY <1>2, <1>3

\* The generation opened for a request, if one is.
LEMMA OpenInKeeps ==
  ASSUME IInv, NEW r \in Rels, NEW request \in Requests, OpenIn(r, request),
         UNCHANGED <<status, supersededBy, revived, changes>>,
         caller' \in [Callers -> Caller],
         \A d \in Callers : caller'[d] = caller[d] \/ caller'[d].call = "none"
  PROVE  IInv'
<1> USE DEF IInv, genVars
<1>1. CASE UNCHANGED genVars
  <2>1. TypeOK'
    BY <1>1 DEF TypeOK
  <2>2. CallsAreSound' /\ NothingBeforeRegistration' /\ OneGenerationPerRequest'
    BY <1>1 DEF CallsAreSound, NothingBeforeRegistration, OneGenerationPerRequest
  <2> QED
    BY <2>1, <2>2
<1>2. CASE ~UNCHANGED genVars
  <2> DEFINE number == NextNumber(r)
  <2>1. /\ ~Replayed(r, request) /\ status[r] = "active" /\ number \in Generations
        /\ generation' = [generation EXCEPT ![r] = number]
        /\ requestOf' = [requestOf EXCEPT ![r][number] = request] /\ anchor' = anchor
    BY <1>2 DEF OpenIn
  <2>2. number = generation[r] + 1 /\ generation[r] \in 0..MaxGeneration
        /\ number \in 0..MaxGeneration /\ Generations \subseteq Nat
    BY <2>1, RegistryAssumption DEF NextNumber, TypeOK, Generations
  <2> HIDE DEF number
  <2>3. /\ requestOf' \in [Rels -> [Generations -> Requests \cup {None}]]
        /\ generation' \in [Rels -> 0..MaxGeneration]
    BY <2>1, <2>2 DEF TypeOK
  <2>4. \A q \in Rels : q # r => requestOf'[q] = requestOf[q] /\ generation'[q] = generation[q]
    BY <2>1 DEF TypeOK
  <2>5. /\ generation'[r] = number /\ requestOf'[r][number] = request
        /\ \A g \in Generations : g # number => requestOf'[r][g] = requestOf[r][g]
    BY <2>1, <2>2 DEF TypeOK
  <2>6. \A g \in Generations : requestOf'[r][g] # None <=> g <= generation'[r]
    BY <2>1, <2>2, <2>5, RegistryAssumption DEF TypeOK
  <2>7. TypeOK'
    BY <2>1, <2>3, <2>4, <2>6 DEF TypeOK
  <2>8. \A q \in Rels : generation[q] \in Nat /\ generation'[q] \in Nat
                        /\ generation[q] <= generation'[q]
    BY <2>2, <2>3, <2>4, <2>5, RegistryAssumption DEF TypeOK
  <2>9. CallsAreSound'
    <3>1. ASSUME NEW d \in Callers, caller[d].call = "bind"
          PROVE  caller[d].number <= generation'[caller[d].rel]
      <4>1. /\ caller[d].rel \in Rels /\ caller[d].number \in Nat
            /\ caller[d].number <= generation[caller[d].rel]
        BY <2>2, <3>1 DEF TypeOK, Caller, CallsAreSound
      <4> QED
        BY <2>8, <4>1
    <3> QED
      BY <3>1 DEF CallsAreSound
  <2>10. NothingBeforeRegistration'
    BY <2>1, <2>2, <2>4, <2>8 DEF NothingBeforeRegistration
  <2>11. OneGenerationPerRequest'
    <3>1. \A g \in Generations : requestOf[r][g] # request
      BY <2>1 DEF Replayed, Opened
    <3> QED
      BY <2>4, <2>5, <3>1 DEF OneGenerationPerRequest
  <2> QED
    BY <2>7, <2>9, <2>10, <2>11
<1> QED
  BY <1>1, <1>2

LEMMA OpenKeeps ==
  ASSUME IInv, NEW c \in Callers, Open(c)
  PROVE  IInv'
<1>1. caller[c].rel \in Rels /\ caller[c].request \in Requests
  BY InHand DEF IInv, Open, Caller, CallsAreSound
<1>2. OpenIn(caller[c].rel, caller[c].request) /\ Returns(c)
      /\ UNCHANGED <<status, supersededBy, revived, changes>>
  BY DEF Open
<1> QED
  BY <1>1, <1>2, InHand, OpenInKeeps DEF IInv

LEMMA VerdictOpensKeeps ==
  ASSUME IInv, NEW r \in Rels, NEW request \in Requests, VerdictOpens(r, request)
  PROVE  IInv'
<1>1. OpenIn(r, request) /\ UNCHANGED <<status, supersededBy, caller, revived, changes>>
      /\ caller' \in [Callers -> Caller]
  BY DEF VerdictOpens, IInv, TypeOK
<1> QED
  BY <1>1, OpenInKeeps

LEMMA BindKeeps ==
  ASSUME IInv, NEW r \in Rels, NEW g \in Generations, NEW turn \in Turns \cup {Pending},
         g <= generation[r], anchor' = [anchor EXCEPT ![r][g] = turn],
         UNCHANGED <<status, supersededBy, generation, requestOf, revived, changes>>,
         caller' \in [Callers -> Caller],
         \A d \in Callers : caller'[d] = caller[d] \/ caller'[d].call = "none"
  PROVE  IInv'
<1> USE DEF IInv
<1>1. anchor' \in [Rels -> [Generations -> Turns \cup {Pending}]]
  BY DEF TypeOK
<1>2. TypeOK'
  BY <1>1 DEF TypeOK
<1>3. \A q \in Rels, h \in Generations : <<q, h>> # <<r, g>> => anchor'[q][h] = anchor[q][h]
  BY DEF TypeOK
<1>4. NothingBeforeRegistration'
  BY <1>3 DEF NothingBeforeRegistration
<1>5. CallsAreSound' /\ OneGenerationPerRequest'
  BY DEF CallsAreSound, OneGenerationPerRequest
<1> QED
  BY <1>2, <1>4, <1>5

LEMMA ReadThenBindKeeps ==
  ASSUME IInv, NEW c \in Callers, Bind(c)
  PROVE  IInv'
<1>1. /\ caller[c].rel \in Rels /\ caller[c].turn \in Turns \cup {Pending}
      /\ caller[c].number \in Generations /\ caller[c].number <= generation[caller[c].rel]
  BY InHand DEF IInv, Bind, Caller, CallsAreSound
<1>2. /\ anchor' = [anchor EXCEPT ![caller[c].rel][caller[c].number] = caller[c].turn]
      /\ Returns(c) /\ UNCHANGED <<status, supersededBy, generation, requestOf, revived, changes>>
  BY DEF Bind
<1> QED
  BY <1>1, <1>2, InHand, BindKeeps DEF IInv

LEMMA BindInKeeps ==
  ASSUME IInv, NEW r \in Rels, NEW g \in Generations, NEW turn \in Turns, BindIn(r, g, turn)
  PROVE  IInv'
<1>1. caller' \in [Callers -> Caller]
  BY DEF IInv, TypeOK, BindIn
<1> QED
  BY <1>1, BindKeeps DEF BindIn

LEMMA SetStatusKeeps ==
  ASSUME IInv, NEW r \in Rels, NEW s \in Deactivations, SetStatus(r, s)
  PROVE  IInv'
<1> USE DEF IInv, SetStatus, genVars
<1>1. s \in Statuses /\ s # "absent"
  BY DEF Deactivations, Statuses
<1>2. TypeOK'
  BY <1>1, RegistryAssumption DEF TypeOK
<1>3. NothingBeforeRegistration'
  BY <1>1 DEF TypeOK, NothingBeforeRegistration
<1>4. CallsAreSound' /\ OneGenerationPerRequest'
  BY DEF CallsAreSound, OneGenerationPerRequest
<1> QED
  BY <1>2, <1>3, <1>4

LEMMA ResumeKeeps ==
  ASSUME IInv, NEW c \in Callers, Resume(c)
  PROVE  IInv'
<1> DEFINE r == caller[c].rel
<1> USE DEF IInv, genVars
<1>1. r \in Rels /\ Returns(c) /\ UNCHANGED <<supersededBy, generation, requestOf, anchor>>
  BY InHand DEF Resume, Caller
<1>2. \/ UNCHANGED <<status, changes, revived>>
      \/ /\ changes < MaxStatusChanges /\ changes' = changes + 1
         /\ status' = [status EXCEPT ![r] = "active"] /\ revived' = revived \ {r}
  BY DEF Resume
<1> HIDE DEF r
<1>3. TypeOK'
  BY <1>1, <1>2, InHand, RegistryAssumption DEF TypeOK, Statuses
<1>4. NothingBeforeRegistration'
  BY <1>1, <1>2 DEF TypeOK, NothingBeforeRegistration
<1>5. CallsAreSound' /\ OneGenerationPerRequest'
  BY <1>1, InHand DEF CallsAreSound, OneGenerationPerRequest
<1> QED
  BY <1>3, <1>4, <1>5

LEMMA StutterKeeps == ASSUME IInv, UNCHANGED vars PROVE IInv'
BY DEF IInv, TypeOK, CallsAreSound, NothingBeforeRegistration, OneGenerationPerRequest, vars

LEMMA NextKeeps == IInv /\ [Next]_vars => IInv'
<1> SUFFICES ASSUME IInv, [Next]_vars PROVE IInv'
  OBVIOUS
<1>1. CASE UNCHANGED vars
  BY <1>1, StutterKeeps
<1>2. ASSUME NEW c \in Callers, NEW r \in Rels, NEW request \in Requests,
             NEW turn \in Turns \cup {Pending}, NEW s \in Rels \cup {None},
             BeginRegister(c, r, request, turn, s)
      PROVE  IInv'
  BY <1>2, BeginRegisterKeeps
<1>3. ASSUME NEW c \in Callers, NEW r \in Rels, NEW request \in Requests,
             BeginOpen(c, r, request)
      PROVE  IInv'
  BY <1>3, BeginOpenKeeps
<1>4. ASSUME NEW c \in Callers, NEW r \in Rels, NEW g \in Generations, NEW turn \in Turns,
             BeginBind(c, r, g, turn)
      PROVE  IInv'
  BY <1>4, BeginBindKeeps
<1>5. ASSUME NEW c \in Callers, NEW r \in Rels, BeginResume(c, r)
      PROVE  IInv'
  BY <1>5, BeginResumeKeeps
<1>6. ASSUME NEW c \in Callers, Register(c) \/ Open(c) \/ Bind(c) \/ Resume(c)
      PROVE  IInv'
  BY <1>6, RegisterKeeps, OpenKeeps, ReadThenBindKeeps, ResumeKeeps
<1>7. ASSUME NEW r \in Rels, NEW request \in Requests, VerdictOpens(r, request)
      PROVE  IInv'
  BY <1>7, VerdictOpensKeeps
<1>8. ASSUME NEW r \in Rels, NEW g \in Generations, NEW turn \in Turns, BindIn(r, g, turn)
      PROVE  IInv'
  BY <1>8, BindInKeeps
<1>9. ASSUME NEW r \in Rels, NEW s \in Deactivations, SetStatus(r, s)
      PROVE  IInv'
  BY <1>9, SetStatusKeeps
<1> QED
  BY <1>1, <1>2, <1>3, <1>4, <1>5, <1>6, <1>7, <1>8, <1>9 DEF Next

\* Statuses, generations and anchors are of their types, and what a caller holds between its read
\* and its transaction is what its call needs (Registry of registry.py).
THEOREM Inductive == Spec => []IInv
BY InitInvariant, NextKeeps, PTL DEF Spec

-----------------------------------------------------------------------------
(* Generations and anchors                                                   *)

LEMMA AnchorStep ==
  ASSUME IInv, [Next]_vars, NEW r \in Rels, NEW g \in Generations,
         anchor[r][g] # Pending, anchor'[r][g] # anchor[r][g]
  PROVE  \E c \in Callers : caller[c].call = "bind" /\ caller[c].rel = r /\ caller[c].number = g
<1> USE DEF genVars
<1>1. CASE \E c \in Callers : Register(c)
  <2>1. PICK c \in Callers : Register(c)
    BY <1>1
  <2>2. caller[c].rel \in Rels /\ status[r] # "absent" /\ 1 \in Generations
    BY <2>1, InHand, RegistryAssumption
       DEF IInv, TypeOK, Caller, NothingBeforeRegistration, Generations
  <2>3. anchor'[r][g] = anchor[r][g]
    BY <2>1, <2>2 DEF Register, IInv, TypeOK
  <2> QED
    BY <2>3
<1>2. CASE \E c \in Callers : Bind(c)
  <2>1. PICK c \in Callers : Bind(c)
    BY <1>2
  <2>2. caller[c].rel \in Rels /\ caller[c].number \in Generations
    BY <2>1, InHand DEF IInv, Caller, CallsAreSound, Bind
  <2>3. caller[c].rel = r /\ caller[c].number = g
    BY <2>1, <2>2 DEF Bind, IInv, TypeOK
  <2> QED
    BY <2>1, <2>3 DEF Bind
<1>3. CASE \E q \in Rels, h \in Generations, turn \in Turns : BindIn(q, h, turn)
  <2>1. PICK q \in Rels, h \in Generations, turn \in Turns : BindIn(q, h, turn)
    BY <1>3
  <2>2. anchor'[r][g] = anchor[r][g]
    BY <2>1 DEF BindIn, StillPending, IInv, TypeOK
  <2> QED
    BY <2>2
<1>4. ASSUME ~\E c \in Callers : Register(c) \/ Bind(c),
             ~\E q \in Rels, h \in Generations, turn \in Turns : BindIn(q, h, turn)
      PROVE  anchor' = anchor
  BY <1>4 DEF Next, vars, BeginRegister, BeginOpen, BeginBind, BeginResume, Begins,
              Open, OpenIn, Resume, VerdictOpens, SetStatus
<1> QED
  BY <1>1, <1>2, <1>3, <1>4

\* A request dispatched twice, by two processes that both found no generation for it, opens one;
\* and an anchor is bound over only by a bind that read it pending (open_generation, bind_anchor).
THEOREM GenerationsStand == Spec => GenerationsAreRightful
<1>1. IInv => OneGenerationPerRequest
  BY DEF IInv
<1>2. IInv /\ [Next]_vars =>
        [\A r \in Rels : \A g \in Generations :
           anchor[r][g] # Pending /\ anchor'[r][g] # anchor[r][g] =>
             \E c \in Callers : caller[c].call = "bind" /\ caller[c].rel = r
                                /\ caller[c].number = g]_vars
  BY AnchorStep
<1> QED
  BY <1>1, <1>2, Inductive, PTL DEF Spec, GenerationsAreRightful, AnchorMovesOnlyUnderABind

-----------------------------------------------------------------------------
(* Owners                                                                    *)

LEMMA OwnerStep ==
  ASSUME IInv, [Next]_vars, NEW r \in Rels, status[r] \in Deactivations, status'[r] = "active"
  PROVE  /\ \E c \in Callers : /\ caller[c].call = "resume" /\ caller[c].rel = r
                               /\ caller[c].number = generation[r]
         /\ \A o \in Rels \ {r} : ~Owns(o)
<1> USE DEF Deactivations
<1>1. ASSUME NEW c \in Callers, Resume(c), status' # status
      PROVE  /\ caller[c].call = "resume" /\ caller[c].rel = r /\ caller[c].number = generation[r]
             /\ \A o \in Rels \ {r} : ~Owns(o)
  <2>1. caller[c].rel \in Rels
    BY InHand DEF IInv, Caller
  <2>2. caller[c].rel = r
    BY <1>1, <2>1 DEF Resume, IInv, TypeOK
  <2> QED
    BY <1>1, <2>2 DEF Resume, Restated, StillFree
<1>2. ASSUME NEW c \in Callers, Register(c) PROVE FALSE
  <2>1. caller[c].rel \in Rels
    BY InHand DEF IInv, Caller
  <2> QED
    BY <1>2, <2>1 DEF Register
<1>3. ASSUME NEW q \in Rels, NEW s \in Deactivations, SetStatus(q, s) PROVE FALSE
  BY <1>3 DEF SetStatus, IInv, TypeOK
<1>4. ASSUME ~\E c \in Callers : Register(c) \/ Resume(c),
             ~\E q \in Rels, s \in Deactivations : SetStatus(q, s)
      PROVE  status' = status
  BY <1>4 DEF Next, vars, BeginRegister, BeginOpen, BeginBind, BeginResume, Begins,
              Open, Bind, VerdictOpens, BindIn
<1> QED
  BY <1>1, <1>2, <1>3, <1>4

\* One parent registers assignments of the issue.
OneParentRegisters == \E p \in Parents : Parents = {p}

LEMMA ChildrenDiffer ==
  ASSUME OneParentRegisters, NEW r \in Rels, NEW o \in Rels, r # o
  PROVE  Child(r) # Child(o)
BY DEF OneParentRegisters, Rels, Child

LEMMA OneChildInit == Init => OneChildUnlessRevived
BY DEF Init, OneChildUnlessRevived, Owns

LEMMA OneChildStep ==
  ASSUME OneParentRegisters, IInv, [Next]_vars, OneChildUnlessRevived
  PROVE  OneChildUnlessRevived'
<1>1. SUFFICES ASSUME NEW o1 \in Rels \ revived', NEW o2 \in Rels \ revived',
                      Owns(o1)', Owns(o2)', o1 # o2
               PROVE  FALSE
  BY DEF OneChildUnlessRevived
<1>2. ASSUME NEW c \in Callers, Register(c), status' # status PROVE FALSE
  <2> DEFINE r == caller[c].rel
             s == caller[c].supersedes
  <2>1. /\ r \in Rels /\ s \in Rels \cup {None} /\ s # r /\ status[r] = "absent" /\ IssueFree(r, s)
        /\ status' = [q \in Rels |-> IF q = r THEN "active"
                                     ELSE IF q = s THEN "archived" ELSE status[q]]
        /\ supersededBy' = IF s = None THEN supersededBy ELSE [supersededBy EXCEPT ![s] = r]
        /\ revived' = IF s \in revived THEN (revived \ {s}) \cup {r} ELSE revived
    BY <1>2, InHand DEF Register, IInv, Caller, CallsAreSound
  <2> HIDE DEF r, s
  <2>2. ASSUME NEW o \in Rels \ revived', Owns(o)', o # r
        PROVE  o \in Rivals(r) /\ o # s /\ o \notin revived
    <3>1. status'[o] # "archived" /\ o # s /\ status'[o] = status[o]
      BY <2>1, <2>2 DEF Owns
    <3>2. supersededBy'[o] = supersededBy[o]
      BY <2>1, <3>1 DEF IInv, TypeOK
    <3> QED
      BY <2>1, <2>2, <3>1, <3>2, ChildrenDiffer DEF Owns, Rivals
  <2>3. ASSUME NEW o \in Rels \ revived', Owns(o)', o # r PROVE r \in revived'
    <3>1. o \in Rivals(r) /\ o # s /\ o \notin revived
      BY <2>2, <2>3
    <3>2. s \in Rivals(r)
      BY <2>1, <3>1 DEF IssueFree
    <3>3. s \in revived
      BY <3>1, <3>2, ChildrenDiffer DEF OneChildUnlessRevived, Rivals
    <3> QED
      BY <2>1, <3>3
  <2>4. o1 # r /\ o2 # r
    BY <1>1, <2>3
  <2>5. o1 \in Rivals(r) /\ o2 \in Rivals(r) /\ o1 \notin revived /\ o2 \notin revived
    BY <1>1, <2>2, <2>4
  <2> QED
    BY <1>1, <2>5, ChildrenDiffer DEF OneChildUnlessRevived, Rivals
<1>3. ASSUME NEW c \in Callers, Resume(c), <<status, revived>>' # <<status, revived>>
      PROVE  FALSE
  <2>1. caller[c].rel \in Rels /\ StillFree(caller[c].rel) /\ supersededBy' = supersededBy
        /\ status' = [status EXCEPT ![caller[c].rel] = "active"]
    BY <1>3, InHand DEF Resume, IInv, Caller
  <2>2. \A o \in Rels : o # caller[c].rel => ~Owns(o)'
    BY <2>1 DEF StillFree, Owns, IInv, TypeOK
  <2> QED
    BY <1>1, <2>2
<1>4. ASSUME NEW q \in Rels, NEW s \in Deactivations, SetStatus(q, s) PROVE FALSE
  <2>1. ASSUME NEW o \in Rels \ revived', Owns(o)' PROVE Owns(o) /\ o \notin revived
    BY <1>4, <2>1 DEF SetStatus, Owns, IInv, TypeOK, Statuses, Deactivations
  <2> QED
    BY <1>1, <2>1, ChildrenDiffer DEF OneChildUnlessRevived
<1>5. ASSUME UNCHANGED <<status, supersededBy, revived>> PROVE FALSE
  BY <1>1, <1>5, ChildrenDiffer DEF OneChildUnlessRevived, Owns
<1>6. ASSUME ~\E q \in Rels, s \in Deactivations : SetStatus(q, s),
             ~\E c \in Callers : Register(c) /\ status' # status,
             ~\E c \in Callers : Resume(c) /\ <<status, revived>>' # <<status, revived>>
      PROVE  UNCHANGED <<status, supersededBy, revived>>
  <2>1. ASSUME NEW c \in Callers, Register(c) PROVE UNCHANGED <<status, supersededBy, revived>>
    <3>1. caller[c].rel \in Rels /\ status' = status
      BY <1>6, <2>1, InHand DEF IInv, Caller
    <3>2. status'[caller[c].rel] # "active" \/ status[caller[c].rel] # "absent"
      BY <3>1
    <3> QED
      BY <2>1, <3>1, <3>2 DEF Register
  <2>2. ASSUME NEW c \in Callers, Resume(c) PROVE UNCHANGED <<status, supersededBy, revived>>
    BY <1>6, <2>2 DEF Resume
  <2> QED
    BY <1>6, <2>1, <2>2 DEF Next, vars, BeginRegister, BeginOpen, BeginBind, BeginResume, Begins,
              Open, Bind, VerdictOpens, BindIn
<1> QED
  BY <1>2, <1>3, <1>4, <1>5, <1>6

\* Where one parent registers, no two children own the issue, however many callers register,
\* replace, pause and resume at once, but for what set_status paused after the issue was released;
\* and nothing comes back but by a resume that knew what it resumed (register, resume).
THEOREM OwnersStand == OneParentRegisters => (Spec => OwnersAreRightful)
<1> SUFFICES ASSUME OneParentRegisters PROVE Spec => OwnersAreRightful
  OBVIOUS
<1>1. IInv /\ OneChildUnlessRevived /\ [Next]_vars => OneChildUnlessRevived'
  BY OneChildStep
<1>2. IInv /\ [Next]_vars =>
        [\A r \in Rels : status[r] \in Deactivations /\ status'[r] = "active" =>
           /\ \E c \in Callers : /\ caller[c].call = "resume" /\ caller[c].rel = r
                                 /\ caller[c].number = generation[r]
           /\ \A o \in Rels \ {r} : ~Owns(o)]_vars
  BY OwnerStep
<1> QED
  BY <1>1, <1>2, OneChildInit, Inductive, PTL DEF Spec, OwnersAreRightful, ReactivatedOnlyAsRestated

-----------------------------------------------------------------------------
(* The identity of an assignment's child                                   *)

\* Whom a fact is for.
For(fact) == [task |-> fact.task, session |-> fact.session]

\* A resolution that is published is for a whole identity, and its author listed what it covers.
ResolutionsReviewed ==
  \A k \in Ids("resolutions") :
    /\ For(files[k]) \in Pairs
    /\ \A f \in files[k].adjudicated : <<f, For(files[k])>> \in reviewed

AnswersStand == \A f \in told : f[1] \in DOMAIN files /\ files[f[1]] = f[2]

Whole(w) ==
  /\ w = [phase |-> w.phase, kind |-> w.kind, slot |-> w.slot, fact |-> w.fact]
  /\ w.kind = "resolutions" => For(w.fact) \in Pairs

CommandsAreWhole ==
  /\ command = [c \in Coordinators |-> command[c]]
  /\ \A c \in Coordinators : Whole(command[c])

IdentityInv ==
  /\ bound \in Pairs \cup {Unbound}
  /\ CommandsAreWhole /\ AnswersStand /\ ResolutionsReviewed

LEMMA WholeCommands ==
  /\ Whole(Idle)
  /\ \A kind, fact : (kind = "resolutions" => For(fact) \in Pairs) => Whole(Numbering(kind, fact))
BY DEF Whole, Idle, Numbering

LEMMA IdentityInvInit == IdentityInit => IdentityInv
<1> SUFFICES ASSUME IdentityInit PROVE IdentityInv
  OBVIOUS
<1>1. DOMAIN files = {} /\ told = {}
  BY DEF IdentityInit
<1>2. CommandsAreWhole
  BY WholeCommands DEF IdentityInit, CommandsAreWhole
<1> QED
  BY <1>1, <1>2 DEF IdentityInv, IdentityInit, AnswersStand, ResolutionsReviewed, Ids

\* A command goes on: the others are as they were.
LEMMA CommandGoesOn ==
  ASSUME CommandsAreWhole, NEW c \in Coordinators, NEW w, Whole(w),
         command' = [command EXCEPT ![c] = w]
  PROVE  CommandsAreWhole'
<1>1. command' = [d \in Coordinators |-> IF d = c THEN w ELSE command[d]]
  BY DEF CommandsAreWhole
<1>2. \A d \in Coordinators : Whole(command'[d])
  BY <1>1 DEF CommandsAreWhole
<1>3. command' = [d \in Coordinators |-> command'[d]]
  BY <1>1
<1> QED
  BY <1>2, <1>3 DEF CommandsAreWhole, Whole, For

\* A fact is published under a name that is free: what was published stays.
LEMMA PublicationKeeps ==
  ASSUME NEW id, NEW fact, id \notin DOMAIN files, files' = Publish(id, fact)
  PROVE  /\ DOMAIN files' = DOMAIN files \cup {id}
         /\ files'[id] = fact
         /\ \A i \in DOMAIN files : files'[i] = files[i]
BY DEF Publish

LEMMA IdentityStep == IdentityInv /\ [IdentityNext]_identityVars => IdentityInv'
<1> SUFFICES ASSUME IdentityInv, [IdentityNext]_identityVars PROVE IdentityInv'
  OBVIOUS
<1>1. CommandsAreWhole /\ AnswersStand /\ ResolutionsReviewed
  BY DEF IdentityInv
<1>3. ASSUME UNCHANGED <<files, told, reviewed>>, CommandsAreWhole',
             bound' \in Pairs \cup {Unbound}
      PROVE  IdentityInv'
  BY <1>1, <1>3 DEF IdentityInv, AnswersStand, ResolutionsReviewed, Ids
<1>4. ASSUME NEW c \in Coordinators, NEW o \in Outcomes, NEW t \in Tasks \cup {Nobody},
             RecordAttempt(c, o, t)
      PROVE  IdentityInv'
  <2>1. CommandsAreWhole'
    BY <1>1, <1>4, CommandGoesOn, WholeCommands DEF RecordAttempt
  <2> QED
    BY <1>3, <1>4, <2>1 DEF RecordAttempt, IdentityInv
<1>5. ASSUME NEW c \in Coordinators, NEW p \in Pairs, BindIdentity(c, p) PROVE IdentityInv'
  <2>1. bound' \in Pairs \cup {Unbound}
    BY <1>5 DEF BindIdentity, IdentityInv
  <2>2. CASE bound = Unbound
    BY <1>1, <1>3, <1>5, <2>1, <2>2 DEF BindIdentity, CommandsAreWhole
  <2>3. CASE bound # Unbound
    <3>1. CommandsAreWhole'
      BY <1>1, <1>5, <2>3, CommandGoesOn, WholeCommands DEF BindIdentity
    <3> QED
      BY <1>3, <1>5, <2>1, <3>1 DEF BindIdentity
  <2> QED
    BY <2>2, <2>3
<1>6. ASSUME NEW c \in Coordinators, NEW p \in Pairs, Review(c, p) PROVE IdentityInv'
  <2>1. PICK seen : command' = [command EXCEPT ![c] =
                                  Numbering("resolutions", Fact("none", p, seen))]
    BY <1>6 DEF Review
  <2>2. For(Fact("none", p, seen)) \in Pairs
    BY DEF For, Fact, Pairs
  <2>3. CommandsAreWhole'
    BY <1>1, <2>1, <2>2, CommandGoesOn, WholeCommands
  <2> QED
    BY <1>3, <1>6, <2>3 DEF Review, IdentityInv
<1>7. ASSUME NEW c \in Coordinators, List(c) PROVE IdentityInv'
  <2> DEFINE w == command[c]
  <2>1. Whole(w)
    BY <1>1 DEF CommandsAreWhole
  <2>2. command' = [command EXCEPT ![c].phase = "linking", ![c].slot = NextIndex(w.kind)]
    BY <1>7 DEF List
  <2>3. command' = [command EXCEPT ![c] =
          [phase |-> "linking", kind |-> w.kind, slot |-> NextIndex(w.kind), fact |-> w.fact]]
    <3> DEFINE n == NextIndex(w.kind)
               v == [w EXCEPT !.phase = "linking"]
    <3>1. v = [phase |-> "linking", kind |-> w.kind, slot |-> w.slot, fact |-> w.fact]
      BY <2>1 DEF Whole
    <3> HIDE DEF n, v
    <3>2. [v EXCEPT !.slot = n]
            = [phase |-> "linking", kind |-> w.kind, slot |-> n, fact |-> w.fact]
      BY <3>1
    <3>3. command = [d \in Coordinators |-> command[d]]
      BY <1>1 DEF CommandsAreWhole
    <3>4. command' = [d \in Coordinators |-> IF d = c THEN [v EXCEPT !.slot = n] ELSE command[d]]
      BY <2>2, <3>3 DEF n, v
    <3> QED
      BY <3>2, <3>3, <3>4 DEF n
  <2>4. Whole([phase |-> "linking", kind |-> w.kind, slot |-> NextIndex(w.kind),
               fact |-> w.fact])
    BY <2>1 DEF Whole
  <2>5. CommandsAreWhole'
    BY <1>1, <2>3, <2>4, CommandGoesOn
  <2> QED
    BY <1>3, <1>7, <2>5 DEF List, IdentityInv
<1>8. ASSUME NEW c \in Coordinators, Link(c) PROVE IdentityInv'
  <2> DEFINE w  == command[c]
             id == <<w.kind, w.slot>>
  <2>1. w.kind = "resolutions" => For(w.fact) \in Pairs
    BY <1>1 DEF CommandsAreWhole, Whole
  <2>2. CASE id \in DOMAIN files
    <3>1. command' = [command EXCEPT ![c] = Numbering(w.kind, w.fact)]
      BY <1>8, <2>2 DEF Link
    <3>2. CommandsAreWhole'
      BY <1>1, <2>1, <3>1, CommandGoesOn, WholeCommands
    <3> QED
      BY <1>3, <1>8, <2>2, <3>2 DEF Link, IdentityInv
  <2>3. CASE id \notin DOMAIN files
    <3>1. /\ files' = Publish(id, w.fact) /\ told' = told \cup {<<id, w.fact>>}
          /\ reviewed' = reviewed \cup {<<f, For(w.fact)>> : f \in w.fact.adjudicated}
          /\ command' = [command EXCEPT ![c] = Idle] /\ bound' = bound
      BY <1>8, <2>3 DEF Link, For
    <3>2. CommandsAreWhole'
      BY <1>1, <3>1, CommandGoesOn, WholeCommands
    <3>3. /\ DOMAIN files' = DOMAIN files \cup {id}
          /\ files'[id] = w.fact
          /\ \A i \in DOMAIN files : files'[i] = files[i]
      BY <2>3, <3>1, PublicationKeeps
    <3>4. AnswersStand'
      BY <1>1, <3>1, <3>3 DEF AnswersStand
    <3>5. ASSUME NEW k \in Ids("resolutions")'
          PROVE  /\ For(files'[k]) \in Pairs
                 /\ \A f \in files'[k].adjudicated : <<f, For(files'[k])>> \in reviewed'
      <4>1. CASE k \in DOMAIN files
        <5>1. k \in Ids("resolutions") /\ files'[k] = files[k]
          BY <3>3, <3>5, <4>1 DEF Ids
        <5> QED
          BY <1>1, <3>1, <5>1 DEF ResolutionsReviewed
      <4>2. CASE k \notin DOMAIN files
        <5>1. k = id /\ w.kind = "resolutions" /\ files'[k] = w.fact
          BY <3>3, <3>5, <4>2 DEF Ids
        <5> QED
          BY <2>1, <3>1, <5>1
      <4> QED
        BY <4>1, <4>2
    <3>6. ResolutionsReviewed'
      BY <3>5 DEF ResolutionsReviewed
    <3> QED
      BY <3>1, <3>2, <3>4, <3>6 DEF IdentityInv
  <2> QED
    BY <2>2, <2>3
<1>9. ASSUME NEW c \in Coordinators, Dies(c) PROVE IdentityInv'
  <2>1. CommandsAreWhole'
    BY <1>1, <1>9, CommandGoesOn, WholeCommands DEF Dies
  <2> QED
    BY <1>3, <1>9, <2>1 DEF Dies, IdentityInv
<1>10. ASSUME NEW s \in Sessions, Claim(s) PROVE IdentityInv'
  <2> DEFINE id == <<"claims", s>>
  <2>1. /\ DOMAIN files' = DOMAIN files \cup {id}
        /\ \A i \in DOMAIN files : files'[i] = files[i]
    BY <1>10, PublicationKeeps DEF Claim
  <2>2. AnswersStand'
    BY <1>1, <1>10, <2>1 DEF AnswersStand, Claim
  <2>3. \A k \in Ids("resolutions")' : k \in Ids("resolutions") /\ files'[k] = files[k]
    BY <2>1 DEF Ids
  <2>4. ResolutionsReviewed'
    BY <1>1, <1>10, <2>3 DEF ResolutionsReviewed, Claim
  <2> QED
    BY <1>1, <1>10, <2>2, <2>4 DEF Claim, IdentityInv, CommandsAreWhole
<1>11. ASSUME RegisterRelationship \/ WindowCloses \/ UNCHANGED identityVars PROVE IdentityInv'
  BY <1>1, <1>3, <1>11
     DEF RegisterRelationship, WindowCloses, identityVars, CommandsAreWhole, IdentityInv
<1> QED
  BY <1>4, <1>5, <1>6, <1>7, <1>8, <1>9, <1>10, <1>11 DEF IdentityNext

\* What a resolution covers was listed by whoever decided for its identity.
LEMMA CoveredIsSeen ==
  ASSUME IdentityInv, NEW S \in SUBSET DOMAIN files, NEW R \in SUBSET Resolutions, NEW p,
         \A r \in R : For(r) = p,
         \A i \in S : Covered(i, R)
  PROVE  SeenFor(S, p)
<1>1. ASSUME NEW i \in S PROVE <<<<i, files[i]>>, p>> \in reviewed
  <2>1. PICK r \in R : <<i, files[i]>> \in r.adjudicated
    BY <1>1 DEF Covered
  <2>2. PICK k \in Ids("resolutions") : r = files[k]
    BY <2>1 DEF Resolutions
  <2> QED
    BY <2>1, <2>2 DEF IdentityInv, ResolutionsReviewed
<1> QED
  BY <1>1 DEF SeenFor, Listed

LEMMA ContestsAreSeen == IdentityInv => NoContestIsLost
<1> SUFFICES ASSUME IdentityInv PROVE NoContestIsLost
  OBVIOUS
<1>1. \A f \in told : f[1] \in DOMAIN files /\ files[f[1]] = f[2]
  BY DEF IdentityInv, AnswersStand
<1>2. ASSUME bound # Unbound, ~IdentityContested PROVE SeenFor(CompetingFacts, bound)
  <2>1. CompetingFacts \in SUBSET DOMAIN files /\ Choosing(bound) \in SUBSET Resolutions
    BY DEF CompetingFacts, Accepted, Ids, Choosing
  <2>2. bound \in Pairs
    BY <1>2 DEF IdentityInv
  <2>3. \A r \in Choosing(bound) : For(r) = bound
    BY <2>2 DEF Choosing, For, Pairs
  <2>4. \A i \in CompetingFacts : Covered(i, Choosing(bound))
    BY <1>2 DEF IdentityContested
  <2> QED
    BY <2>1, <2>3, <2>4, CoveredIsSeen
<1>3. ASSUME bound = Unbound, Several, AssignmentState # "ambiguous_identity"
      PROVE  \E p \in Pairs : /\ SeenFor(Accepted \cup Ids("claims"), p)
                              /\ \A r \in Resolutions : r.task = p.task /\ r.session = p.session
  <2>1. AmbiguityResolved
    BY <1>3 DEF AssignmentState
  <2>2. PICK k \in Ids("resolutions") : files[k] \in Resolutions
    BY <2>1 DEF AmbiguityResolved, Resolutions
  <2> DEFINE p == For(files[k])
  <2>3. p \in Pairs
    BY <2>2 DEF IdentityInv, ResolutionsReviewed
  <2>4. \A r \in Resolutions : r.task = p.task /\ r.session = p.session
    BY <2>1, <2>2 DEF AmbiguityResolved, For
  <2>5. \A r \in Resolutions : For(r) = p
    BY <2>4 DEF For
  <2>6. Accepted \cup Ids("claims") \in SUBSET DOMAIN files
    BY DEF Accepted, Ids
  <2>7. SeenFor(Accepted \cup Ids("claims"), p)
    BY <2>1, <2>5, <2>6, CoveredIsSeen DEF AmbiguityResolved
  <2> QED
    BY <2>3, <2>4, <2>7
<1> QED
  BY <1>1, <1>2, <1>3 DEF NoContestIsLost

\* However many coordinators record, bind and adjudicate what sessions claim of one assignment,
\* and wherever they are killed: what was answered as published stays, and an identity stops being
\* contested, or ambiguous, only over facts that whoever decided for it had listed (intent.py,
\* covered, identity_contested and _ambiguity_resolved).
THEOREM ContestsAreKept == IdentitySpec => []NoContestIsLost
<1>1. IdentityInit => IdentityInv
  BY IdentityInvInit
<1>2. IdentityInv /\ [IdentityNext]_identityVars => IdentityInv'
  BY IdentityStep
<1>3. IdentityInv => NoContestIsLost
  BY ContestsAreSeen
<1> QED
  BY <1>1, <1>2, <1>3, PTL DEF IdentitySpec

-----------------------------------------------------------------------------
(* The registrations of a host: register-mcp                               *)

Table == Commands \cup {Unset}

McpRuns ==
  [phase : {"idle", "start", "old", "decide", "append", "record", "over", "dead"},
   owner : Owners \cup {Unset}, name : TableNames \cup {Unset}, command : Table,
   before : [TableNames -> Table]]

RegistrationTypes ==
  /\ config \in [TableNames -> Table]
  /\ ownership \in [owner : Owners \cup {Unset}, name : TableNames \cup {Unset}, command : Table]
  /\ locked \in LockStates(Registrars)
  /\ mcp \in [Registrars -> McpRuns]
  /\ edits \in Nat

\* Who decides, appends or records was let into the ownership lock, alone unless two met.
Holds(r) == mcp[r].phase \in {"decide", "append", "record"}

OneWithin == ~locked.met => \A p, q \in locked.within : p = q

\* What a run knows.  Tables stay where an operator does not take them out, whoever else is in
\* the ownership lock; that the rest of the file, and the record, are as they were read takes the
\* lock.
Knows(r) ==
  LET w == mcp[r] IN
  /\ Holds(r) => r \in locked.within
  /\ w.phase # "idle" => w.owner \in Owners /\ w.name \in TableNames /\ w.command \in Commands
  /\ w.phase = "decide" /\ edits = 0 => \A n \in Tables(w.before) : config[n] = w.before[n]
  /\ w.phase = "decide" /\ edits = 0 /\ ~locked.met => config = w.before
  /\ w.phase = "append" => w.owner = "user" /\ Tables(w.before) = {}
  /\ w.phase = "append" /\ ~locked.met => ownership = Unowned \/ ownership = Owned(r)
  /\ w.phase = "record" /\ edits = 0 =>
       IF w.owner = "user" THEN config[w.name] = w.command ELSE locked.met \/ Tables(config) = {}

McpInv ==
  /\ RegistrationTypes
  /\ OneWithin
  /\ \A r \in Registrars : Knows(r)
  /\ ownership.owner = "user" => ownership.name \in TableNames /\ ownership.command \in Commands
  /\ RecordIsOfATable

\* Whatever happens to the lock, who is in it stays, those who met have met, and one is alone
\* who was.
LEMMA LockSteps ==
  ASSUME NEW p \in Registrars, locked \in LockStates(Registrars), OneWithin,
         locked' \in {Entered(locked, p), Cleared(locked), Left(locked, p), Abandoned(locked, p),
                      locked}
  PROVE  /\ locked' \in LockStates(Registrars)
         /\ locked.met => locked'.met
         /\ OneWithin'
         /\ \A q \in locked.within \ {p} : q \in locked'.within
<1>1. locked = [file |-> locked.file, within |-> locked.within, met |-> locked.met]
  BY DEF LockStates
<1>2. locked.file \in SUBSET Registrars /\ locked.within \in SUBSET Registrars
      /\ locked.met \in BOOLEAN
  BY DEF LockStates
<1>3. CASE locked' = Entered(locked, p)
  BY <1>2, <1>3 DEF Entered, LockStates, OneWithin
<1>4. CASE locked' = Cleared(locked) \/ locked' = Abandoned(locked, p)
           \/ locked' = Left(locked, p) \/ locked' = locked
  BY <1>1, <1>2, <1>4 DEF Cleared, Abandoned, Left, LockStates, OneWithin
<1> QED
  BY <1>3, <1>4

\* A step that leaves the files alone.
LEMMA McpMoves ==
  ASSUME McpInv, NEW r \in Registrars, NEW w \in McpRuns,
         mcp' = [mcp EXCEPT ![r] = w], UNCHANGED <<config, ownership, edits>>,
         locked' \in {Entered(locked, r), Cleared(locked), Left(locked, r), Abandoned(locked, r),
                      locked},
         Knows(r)'
  PROVE  McpInv'
<1>1. \A q \in Registrars : mcp'[q] = IF q = r THEN w ELSE mcp[q]
  BY DEF McpInv, RegistrationTypes
<1>2. /\ locked' \in LockStates(Registrars) /\ (locked.met => locked'.met) /\ OneWithin'
      /\ \A q \in locked.within \ {r} : q \in locked'.within
  BY LockSteps DEF McpInv, RegistrationTypes
<1>3. RegistrationTypes'
  BY <1>2 DEF McpInv, RegistrationTypes
<1>4. \A q \in Registrars \ {r} : Knows(q)'
  BY <1>1, <1>2 DEF McpInv, Knows, Holds, Owned, Unowned, Tables
<1> QED
  BY <1>2, <1>3, <1>4 DEF McpInv, RecordIsOfATable

LEMMA McpInvInit ==
  ASSUME RegistrationInit
  PROVE  McpInv
<1>1. config \in [TableNames -> Table]
  <2>1. CASE config = [n \in TableNames |-> Unset]
    BY <2>1 DEF Table
  <2>2. ASSUME NEW m \in TableNames, NEW c \in Commands,
               config = [[n \in TableNames |-> Unset] EXCEPT ![m] = c]
        PROVE  config \in [TableNames -> Table]
    BY <2>2 DEF Table
  <2> QED
    BY <2>1, <2>2 DEF RegistrationInit
<1>2. RegistrationTypes /\ OneWithin
  BY <1>1 DEF RegistrationInit, RegistrationTypes, McpRuns, Table, Unowned, IdleMcp, LockStates,
              Unlocked, OneWithin
<1>3. \A r \in Registrars : Knows(r)
  BY DEF RegistrationInit, IdleMcp, Knows, Holds
<1>4. ownership.owner # "user"
  BY RegistrationAssumption DEF RegistrationInit, Unowned, Owners
<1> QED
  BY <1>2, <1>3, <1>4 DEF McpInv, RecordIsOfATable

\* What is in the configuration is written over by nobody: only a table that is not there is.
LEMMA McpStep ==
  ASSUME McpInv, McpNext
  PROVE  McpInv'
<1>1. RegistrationTypes /\ RecordIsOfATable /\ OneWithin /\ locked.met \in BOOLEAN
  BY DEF McpInv, RegistrationTypes, LockStates
<1>2. \A r \in Registrars : Knows(r) /\ mcp[r] \in McpRuns
  BY DEF McpInv, RegistrationTypes
<1>a. ASSUME NEW r \in Registrars, NEW phase \in {"start", "old", "over", "dead"},
             McpTo(r, phase), mcp[r].phase # "idle", UNCHANGED <<config, ownership, edits>>,
             locked' \in {Cleared(locked), Left(locked, r), Abandoned(locked, r), locked}
      PROVE  McpInv'
  <2> DEFINE w == [mcp[r] EXCEPT !.phase = phase]
  <2>1. w \in McpRuns /\ mcp' = [mcp EXCEPT ![r] = w]
    BY <1>1, <1>2, <1>a DEF McpTo, McpRuns, RegistrationTypes
  <2>2. Knows(r)'
    BY <1>1, <1>2, <1>a, <2>1 DEF Knows, Holds, RegistrationTypes, McpRuns
  <2> QED
    BY <1>a, <2>1, <2>2, McpMoves
<1>3. ASSUME NEW r \in Registrars, NEW o \in Owners, NEW n \in TableNames, NEW c \in Commands,
             Begin(r, o, n, c)
      PROVE  McpInv'
  <2> DEFINE w == [phase |-> "start", owner |-> o, name |-> n, command |-> c, before |-> config]
  <2>1. w \in McpRuns
    BY <1>1 DEF McpRuns, RegistrationTypes, Table
  <2>2. Knows(r)'
    BY <1>1, <1>3 DEF Begin, Knows, Holds, RegistrationTypes
  <2> QED
    BY <1>3, <2>1, <2>2, McpMoves DEF Begin, SameBounds
<1>4. ASSUME NEW r \in Registrars, Acquire(r) PROVE McpInv'
  <2> DEFINE w == [mcp[r] EXCEPT !.phase = "decide", !.before = config]
  <2>1. w \in McpRuns /\ mcp' = [mcp EXCEPT ![r] = w]
    BY <1>1, <1>2, <1>4 DEF McpRuns, RegistrationTypes, Acquire
  <2>2. r \in locked'.within
    BY <1>4 DEF Acquire, Entered
  <2>3. Knows(r)'
    BY <1>1, <1>2, <1>4, <2>1, <2>2
       DEF Acquire, McpAt, Knows, Holds, RegistrationTypes, McpRuns, Tables
  <2> QED
    BY <1>4, <2>1, <2>3, McpMoves DEF Acquire, SameBounds
<1>5. ASSUME NEW r \in Registrars, DecideMcp(r) PROVE McpInv'
  <2>1. /\ mcp[r].phase = "decide" /\ r \in locked.within
        /\ (edits = 0 /\ ~locked.met => config = mcp[r].before)
        /\ (edits = 0 => \A n \in Tables(mcp[r].before) : config[n] = mcp[r].before[n])
        /\ UNCHANGED <<config, ownership, edits>>
        /\ mcp[r].owner \in Owners /\ mcp[r].name \in TableNames /\ mcp[r].command \in Commands
    BY <1>2, <1>5 DEF DecideMcp, McpAt, Knows, Holds, SameBounds
  <2>3. ASSUME NEW phase \in {"append", "record"}, McpTo(r, phase), locked' = locked, Knows(r)'
        PROVE  McpInv'
    <3> DEFINE w == [mcp[r] EXCEPT !.phase = phase]
    <3>1. w \in McpRuns /\ mcp' = [mcp EXCEPT ![r] = w]
      BY <1>1, <1>2, <2>3 DEF McpTo, McpRuns, RegistrationTypes
    <3> QED
      BY <2>1, <2>3, <3>1, McpMoves
  <2>4. ASSUME NEW phase \in {"append", "record"}, McpTo(r, phase)
        PROVE  mcp'[r] = [mcp[r] EXCEPT !.phase = phase]
    BY <1>1, <2>4 DEF McpTo, RegistrationTypes
  <2>5. CASE McpTo(r, "over") /\ locked' = Left(locked, r)
    BY <1>a, <2>1, <2>5
  <2>6. CASE /\ ~Conflict(r) /\ mcp[r].owner = "user" /\ McpTo(r, "append") /\ locked' = locked
             /\ Registered(mcp[r].before, mcp[r].name, mcp[r].command) = "created"
    <3>1. mcp[r].before[mcp[r].name] = Unset
      BY <2>6 DEF Registered
    <3>2. Tables(mcp[r].before) = {}
      BY <2>6, <3>1 DEF Conflict, OtherTables, Tables
    <3>3. ownership = Unowned \/ ownership = Owned(r)
      BY <2>6 DEF Conflict
    <3>4. Knows(r)'
      BY <1>2, <2>1, <2>4, <2>6, <3>2, <3>3 DEF Knows, Holds, McpRuns, Owned, Unowned, Tables
    <3> QED
      BY <2>1, <2>3, <2>6, <3>4
  <2>7. CASE /\ ~Conflict(r) /\ McpTo(r, "record") /\ locked' = locked
             /\ \/ mcp[r].owner = "plugin"
                \/ Registered(mcp[r].before, mcp[r].name, mcp[r].command) = "linked"
    <3>1. IF mcp[r].owner = "user"
          THEN mcp[r].before[mcp[r].name] = mcp[r].command ELSE Tables(mcp[r].before) = {}
      BY <2>1, <2>7 DEF Registered, Conflict, Owners
    <3>2. mcp[r].owner = "user" => mcp[r].name \in Tables(mcp[r].before)
      BY RegistrationAssumption, <2>1, <3>1 DEF Tables
    <3>3. edits = 0 => IF mcp[r].owner = "user" THEN config[mcp[r].name] = mcp[r].command
                       ELSE locked.met \/ Tables(config) = {}
      BY <2>1, <3>1, <3>2
    <3>4. Knows(r)'
      BY <1>2, <2>1, <2>4, <2>7, <3>3 DEF Knows, Holds, McpRuns, Tables
    <3> QED
      BY <2>1, <2>3, <2>7, <3>4
  <2> QED
    BY <1>5, <2>5, <2>6, <2>7 DEF DecideMcp
<1>6. ASSUME NEW r \in Registrars, AppendTable(r) PROVE McpInv'
  <2> DEFINE w == mcp[r]
  <2>1. /\ w.phase = "append" /\ r \in locked.within /\ w.owner = "user"
        /\ w.name \in TableNames /\ w.command \in Commands /\ Tables(w.before) = {}
        /\ UNCHANGED <<ownership, edits>>
    BY <1>2, <1>6 DEF AppendTable, McpAt, Knows, Holds, SameBounds
  <2>2. \A q \in Registrars \ {r} : Holds(q) => locked.met
    BY <1>1, <1>2, <2>1 DEF Knows, OneWithin
  <2>3. CASE config # w.before
    BY <1>6, <1>a, <2>1, <2>3 DEF AppendTable
  <2>4. CASE config = w.before
    <3>1. /\ config' = [config EXCEPT ![w.name] = w.command] /\ locked' = locked
          /\ mcp' = [mcp EXCEPT ![r] = [w EXCEPT !.phase = "record"]]
      BY <1>6, <2>4 DEF AppendTable, McpTo
    <3>2. RegistrationTypes' /\ OneWithin'
      BY <1>1, <1>2, <2>1, <3>1 DEF RegistrationTypes, McpRuns, Table, OneWithin
    <3>3. \A n \in TableNames : config[n] = Unset
      BY <2>1, <2>4 DEF Tables
    <3>4. ASSUME NEW q \in Registrars PROVE Knows(q)'
      <4>1. CASE q = r
        BY <1>1, <1>2, <2>1, <3>1, <4>1 DEF Knows, Holds, RegistrationTypes, McpRuns
      <4>2. CASE q # r
        <5>1. mcp'[q] = mcp[q] /\ (Holds(q) => locked.met)
          BY <1>1, <2>2, <3>1, <4>2 DEF RegistrationTypes
        <5>2. mcp[q].phase = "decide" /\ edits = 0 => Tables(mcp[q].before) = {}
          <6>1. ASSUME mcp[q].phase = "decide", edits = 0, NEW n \in Tables(mcp[q].before)
                PROVE  FALSE
            BY <1>2, <3>3, <6>1 DEF Knows, Tables
          <6> QED
            BY <6>1
        <5>3. mcp[q].phase = "record" /\ edits = 0 =>
                mcp[q].owner = "plugin" /\ locked.met
          BY RegistrationAssumption, <1>2, <3>3, <5>1 DEF Knows, Holds, Owners
        <5> QED
          BY <1>2, <2>1, <3>1, <5>1, <5>2, <5>3 DEF Knows, Holds
      <4> QED
        BY <4>1, <4>2
    <3>5. RecordIsOfATable'
      BY RegistrationAssumption, <1>1, <2>1, <3>3 DEF RecordIsOfATable, McpInv
    <3> QED
      BY <2>1, <3>2, <3>4, <3>5 DEF McpInv
  <2> QED
    BY <2>3, <2>4
<1>7. ASSUME NEW r \in Registrars, Record(r) PROVE McpInv'
  <2> DEFINE w == mcp[r]
  <2>1. /\ w.phase = "record" /\ r \in locked.within /\ w.owner \in Owners
        /\ w.name \in TableNames /\ w.command \in Commands
        /\ edits = 0 /\ w.owner = "user" => config[w.name] = w.command
        /\ UNCHANGED <<config, edits>> /\ locked' = Left(locked, r)
        /\ mcp' = [mcp EXCEPT ![r] = [w EXCEPT !.phase = "over"]]
        /\ ownership' = IF ownership = Unowned THEN Owned(r) ELSE ownership
    BY <1>2, <1>7 DEF Record, McpAt, McpTo, Knows, Holds, SameBounds
  <2>2. \A q \in Registrars \ {r} : Holds(q) => locked.met
    BY <1>1, <1>2, <2>1 DEF Knows, OneWithin
  <2>3. Owned(r) = [owner |-> w.owner, name |-> w.name, command |-> w.command]
    BY DEF Owned
  <2>8. /\ locked' \in LockStates(Registrars) /\ (locked.met => locked'.met) /\ OneWithin'
        /\ \A q \in locked.within \ {r} : q \in locked'.within
    BY <1>1, <2>1, LockSteps DEF RegistrationTypes
  <2>4. RegistrationTypes' /\ OneWithin'
    BY <1>1, <1>2, <2>1, <2>3, <2>8 DEF RegistrationTypes, McpRuns, Table
  <2>5. ASSUME NEW q \in Registrars PROVE Knows(q)'
    <3>1. CASE q = r
      BY <1>1, <1>2, <2>1, <3>1 DEF Knows, Holds, RegistrationTypes, McpRuns
    <3>2. CASE q # r
      <4>1. mcp'[q] = mcp[q]
        BY <1>1, <2>1, <3>2 DEF RegistrationTypes
      <4> QED
        BY <1>2, <2>1, <2>2, <2>8, <3>2, <4>1 DEF Knows, Holds
    <3> QED
      BY <3>1, <3>2
  <2>6. RecordIsOfATable' /\ (ownership'.owner = "user" =>
          ownership'.name \in TableNames /\ ownership'.command \in Commands)
    BY <1>1, <2>1, <2>3 DEF RecordIsOfATable, McpInv
  <2> QED
    BY <2>4, <2>5, <2>6 DEF McpInv
<1>8. ASSUME NEW r \in Registrars, RecordFails(r) \/ KillRegistrar(r) PROVE McpInv'
  BY <1>8, <1>a DEF RecordFails, KillRegistrar, McpAt, Loss
<1>9. ASSUME NEW r \in Registrars, GiveUp(r) \/ FindOld(r) \/ Unlink(r) PROVE McpInv'
  BY <1>9, <1>a DEF GiveUp, FindOld, Unlink, McpAt, SameBounds
<1>10. ASSUME NEW n \in TableNames, NEW c \in Commands \cup {Unset}, EditConfig(n, c) PROVE McpInv'
  <2>1. /\ config' \in [TableNames -> Table] /\ edits' \in Nat /\ edits' # 0
        /\ UNCHANGED <<ownership, locked, mcp>>
    BY <1>1, <1>10 DEF EditConfig, RegistrationTypes, Table
  <2> QED
    BY <2>1 DEF McpInv, RegistrationTypes, OneWithin, Knows, Holds, RecordIsOfATable, Owned, Unowned
<1> QED
  BY <1>3, <1>4, <1>5, <1>6, <1>7, <1>8, <1>9, <1>10 DEF McpNext

\* No run adds a bridge to a host that has one.
LEMMA OneBridgeStep ==
  ASSUME McpInv, McpNext
  PROVE  /\ config' # config /\ edits' = edits =>
              Tables(config) = {} /\ (ownership.owner # "plugin" \/ locked.met)
         /\ ownership' # ownership /\ ownership'.owner = "plugin" =>
              Tables(config) = {} \/ edits > 0 \/ locked.met
<1>1. RegistrationTypes /\ \A r \in Registrars : Knows(r)
  BY DEF McpInv
<1>2. ASSUME config' # config, edits' = edits
      PROVE  Tables(config) = {} /\ (ownership.owner # "plugin" \/ locked.met)
  <2>1. \A n \in TableNames, c \in Commands \cup {Unset} : ~EditConfig(n, c)
    BY <1>1, <1>2 DEF EditConfig, RegistrationTypes
  <2>2. PICK r \in Registrars : AppendTable(r)
    BY <1>2, <2>1 DEF McpNext, Begin, Acquire, GiveUp, FindOld, Unlink, DecideMcp, Record,
                      RecordFails, KillRegistrar
  <2>3. config = mcp[r].before /\ mcp[r].phase = "append"
    BY <1>2, <2>2 DEF AppendTable, McpAt
  <2> QED
    BY RegistrationAssumption, <1>1, <2>3 DEF Knows, Tables, Owned, Unowned, Owners
<1>3. ASSUME ownership' # ownership, ownership'.owner = "plugin"
      PROVE  Tables(config) = {} \/ edits > 0 \/ locked.met
  <2>1. PICK r \in Registrars : Record(r)
    BY <1>3 DEF McpNext, Begin, Acquire, GiveUp, FindOld, Unlink, DecideMcp, AppendTable,
                RecordFails, KillRegistrar, EditConfig
  <2>2. mcp[r].phase = "record" /\ mcp[r].owner = "plugin"
    BY <1>3, <2>1 DEF Record, McpAt, Owned
  <2> QED
    BY <1>1, <2>2 DEF Knows, RegistrationTypes
<1> QED
  BY <1>2, <1>3

-----------------------------------------------------------------------------
(* The registrations of a host: hook                                       *)

Registrations == [says : Settings, timeout : Timeouts]
SettingsTold  == [owner : Owners \cup {Unset}, says : Settings \cup {Unset}]

HookRuns ==
  [phase : {"idle", "asked", "settle", "write", "plan", "append", "readback", "over", "dead"},
   owner : Owners \cup {Unset}, says : Settings \cup {Unset}, timeout : Timeouts \cup {Unset},
   seen : Seq(Registrations), was : SettingsTold]

HookTypes ==
  /\ hookFile \in Seq(Registrations)
  /\ settings \in SettingsTold
  /\ hook \in [Hookers -> HookRuns]
  /\ reported \in BOOLEAN

\* Settings are written where there are none. A run of the plugin that found no registration may
\* count on it until there are settings, and a run that registers has settings that say so.
Relies(h) ==
  LET w == hook[h] IN
  /\ w.phase # "idle" => w.owner \in Owners /\ w.says \in Settings /\ w.timeout \in Timeouts
  /\ w.phase = "write" => w.was = NoSettings
  /\ w.phase \in {"plan", "append", "readback"} => w.owner = "user" /\ settings = Wanted(h)
  /\ w.owner = "plugin" /\ settings = NoSettings =>
       /\ w.phase = "asked" /\ w.seen = <<>> => hookFile = <<>>
       /\ w.phase \in {"settle", "write"} => hookFile = <<>>

\* Whoever registered second has yet to read the file back, said so, or was killed.
Noticed ==
  Len(hookFile) > 1 => reported \/ \E h \in Hookers : hook[h].phase \in {"readback", "dead"}

HookInv == HookTypes /\ (\A h \in Hookers : Relies(h)) /\ OneHookOwner /\ Noticed

LEMMA HookInvInit ==
  ASSUME RegistrationInit
  PROVE  HookInv
<1>1. hookFile \in Seq(Registrations) /\ Len(hookFile) <= 1
  <2>0. CASE hookFile = <<>>
    BY <2>0
  <2>1. ASSUME NEW s \in Settings, NEW t \in Timeouts, hookFile = <<[says |-> s, timeout |-> t]>>
        PROVE  hookFile \in Seq(Registrations) /\ Len(hookFile) <= 1
    BY <2>1 DEF Registrations
  <2> QED
    BY <2>0, <2>1 DEF RegistrationInit
<1>2. HookTypes
  <2>1. IdleHook \in HookRuns
    <3>1. <<>> \in Seq(Registrations)
      OBVIOUS
    <3> QED
      BY <3>1 DEF HookRuns, IdleHook, NoSettings, SettingsTold
  <2> QED
    BY <1>1, <2>1 DEF RegistrationInit, HookTypes, NoSettings, SettingsTold
<1>3. \A h \in Hookers : Relies(h)
  BY RegistrationAssumption DEF RegistrationInit, IdleHook, Relies, Owners
<1>4. OneHookOwner /\ Noticed
  BY RegistrationAssumption, <1>1 DEF RegistrationInit, OneHookOwner, Noticed, NoSettings, Owners
<1> QED
  BY <1>2, <1>3, <1>4 DEF HookInv

LEMMA LenOfOne == ASSUME NEW x PROVE Len(<<x>>) = 1
OBVIOUS

\* A step that writes no file.
LEMMA HookMoves ==
  ASSUME HookInv, NEW h \in Hookers, NEW w \in HookRuns,
         hook' = [hook EXCEPT ![h] = w], UNCHANGED <<hookFile, settings, reported>>,
         hook[h].phase \in {"readback", "dead"} => w.phase \in {"readback", "dead"},
         Relies(h)'
  PROVE  HookInv'
<1>1. \A g \in Hookers : hook'[g] = IF g = h THEN w ELSE hook[g]
  BY DEF HookInv, HookTypes
<1>2. HookTypes'
  BY DEF HookInv, HookTypes
<1>3. \A g \in Hookers \ {h} : Relies(g)'
  BY <1>1 DEF HookInv, Relies, Wanted, NoSettings
<1>4. Noticed'
  BY <1>1 DEF HookInv, Noticed
<1> QED
  BY <1>2, <1>3, <1>4 DEF HookInv, OneHookOwner

LEMMA HookStep ==
  ASSUME HookInv, HookNext
  PROVE  HookInv'
<1>1. HookTypes /\ OneHookOwner /\ Noticed
  BY DEF HookInv
<1>2. \A h \in Hookers : Relies(h) /\ hook[h] \in HookRuns
  BY DEF HookInv, HookTypes
<1>3. ASSUME NEW h \in Hookers, NEW o \in Owners, NEW s \in Settings, NEW t \in Timeouts,
             Look(h, o, s, t)
      PROVE  HookInv'
  <2> DEFINE w == [phase |-> "asked", owner |-> o, says |-> s, timeout |-> t, seen |-> hookFile,
                   was |-> NoSettings]
  <2>1. w \in HookRuns
    BY <1>1 DEF HookRuns, HookTypes, NoSettings, SettingsTold
  <2>2. Relies(h)'
    BY <1>1, <1>3 DEF Look, Relies, HookTypes
  <2> QED
    BY <1>3, <2>1, <2>2, HookMoves DEF Look, HookAt
<1>4. ASSUME NEW h \in Hookers, Ask(h) PROVE HookInv'
  <2> DEFINE phase == IF Complaint(h) THEN "over" ELSE "settle"
             w == [hook[h] EXCEPT !.phase = phase]
  <2>1. w \in HookRuns /\ hook' = [hook EXCEPT ![h] = w] /\ hook[h].phase = "asked"
        /\ UNCHANGED <<hookFile, settings, reported>>
    BY <1>2, <1>4 DEF Ask, HookAt, HookTo, HookRuns
  <2>2. Relies(h)'
    BY <1>1, <1>2, <2>1 DEF Relies, HookTypes, HookRuns, Complaint, NoSettings
  <2> QED
    BY <2>1, <2>2, HookMoves
<1>5. ASSUME NEW h \in Hookers, ReadSettings(h) PROVE HookInv'
  <2> DEFINE phase == CASE settings = NoSettings -> "write"
                        [] settings = Wanted(h)  -> AfterSettings(h)
                        [] OTHER                 -> "over"
             w == [hook[h] EXCEPT !.was = settings, !.phase = phase]
  <2>1. phase \in {"write", "over", "plan"}
    BY DEF AfterSettings
  <2>2. w \in HookRuns /\ hook' = [hook EXCEPT ![h] = w] /\ hook[h].phase = "settle"
        /\ UNCHANGED <<hookFile, settings, reported>>
    BY <1>1, <1>2, <1>5, <2>1 DEF ReadSettings, HookAt, HookRuns, HookTypes
  <2>3. hook'[h] = w
    BY <1>1, <2>2 DEF HookTypes
  <2>4. phase = "write" => settings = NoSettings
    BY DEF AfterSettings
  <2>5. phase = "plan" => settings = Wanted(h) /\ hook[h].owner # "plugin"
    BY DEF AfterSettings
  <2>6. w.owner = hook[h].owner /\ w.says = hook[h].says /\ w.timeout = hook[h].timeout
        /\ w.phase = phase /\ w.was = settings
    BY <1>2 DEF HookRuns
  <2> HIDE DEF phase, w
  <2>7. Relies(h)'
    BY <1>2, <2>1, <2>2, <2>3, <2>4, <2>5, <2>6 DEF Relies, Wanted, Owners, NoSettings
  <2> QED
    BY <2>2, <2>7, HookMoves
<1>6. ASSUME NEW h \in Hookers, WriteSettings(h) PROVE HookInv'
  <2>1. /\ hook[h].phase = "write" /\ hook[h].was = NoSettings /\ hook[h].owner \in Owners
        /\ hook[h].says \in Settings
        /\ UNCHANGED <<hookFile, reported>>
    BY <1>2, <1>6 DEF WriteSettings, HookAt, Relies
  <2>2. CASE settings # NoSettings
    <3> DEFINE w == [hook[h] EXCEPT !.phase = "over"]
    <3>1. w \in HookRuns /\ hook' = [hook EXCEPT ![h] = w] /\ settings' = settings
      BY <1>2, <1>6, <2>1, <2>2 DEF WriteSettings, HookTo, HookRuns
    <3>2. Relies(h)'
      BY <1>1, <1>2, <2>1, <3>1 DEF Relies, HookTypes, HookRuns
    <3> QED
      BY <2>1, <3>1, <3>2, HookMoves
  <2>3. CASE settings = NoSettings
    <3> DEFINE phase == AfterSettings(h)
    <3>1. /\ settings' = Wanted(h) /\ hook' = [hook EXCEPT ![h].phase = phase]
          /\ phase = IF hook[h].owner = "plugin" THEN "over" ELSE "plan"
      BY <1>6, <2>1, <2>3 DEF WriteSettings, HookTo, AfterSettings
    <3> HIDE DEF phase
    <3>2. Wanted(h) \in SettingsTold /\ Wanted(h) # NoSettings /\ Wanted(h).owner = hook[h].owner
      BY RegistrationAssumption, <2>1 DEF Wanted, SettingsTold, NoSettings, Owners
    <3>3. HookTypes'
      <4>1. [hook[h] EXCEPT !.phase = phase] \in HookRuns
        BY <1>2, <3>1 DEF HookRuns
      <4> QED
        BY <1>1, <2>1, <3>1, <3>2, <4>1 DEF HookTypes
    <3>4. \A g \in Hookers : hook'[g] = IF g = h THEN [hook[h] EXCEPT !.phase = phase] ELSE hook[g]
      BY <1>1, <3>1 DEF HookTypes
    <3>5. settings' # NoSettings'
      BY <3>1, <3>2 DEF NoSettings
    <3>6. ASSUME NEW g \in Hookers PROVE Relies(g)'
      <4>1. CASE g = h
        BY <1>2, <2>1, <3>1, <3>4, <3>5, <4>1 DEF Relies, HookRuns, Wanted, Owners
      <4>2. CASE g # h
        <5>1. hook[g].phase \notin {"plan", "append", "readback"}
          BY RegistrationAssumption, <1>2, <2>3, <3>2 DEF Relies, Wanted, NoSettings, Owners
        <5> QED
          BY <1>2, <3>4, <3>5, <4>2, <5>1 DEF Relies, NoSettings
      <4> QED
        BY <4>1, <4>2
    <3>7. OneHookOwner'
      <4>1. hook[h].owner = "plugin" => hookFile = <<>>
        BY <1>2, <2>1, <2>3 DEF Relies
      <4> QED
        BY <2>1, <3>1, <3>2, <4>1 DEF OneHookOwner
    <3>8. Noticed'
      BY <1>1, <2>1, <3>4 DEF Noticed
    <3> QED
      BY <3>3, <3>6, <3>7, <3>8 DEF HookInv
  <2> QED
    BY <2>2, <2>3
<1>7. ASSUME NEW h \in Hookers, Plan(h) PROVE HookInv'
  <2> DEFINE phase == IF \E i \in DOMAIN hookFile : hookFile[i] = HookEntry(h)
                      THEN "readback" ELSE "append"
             w == [hook[h] EXCEPT !.seen = hookFile, !.phase = phase]
  <2>1. w \in HookRuns /\ hook' = [hook EXCEPT ![h] = w] /\ hook[h].phase = "plan"
        /\ UNCHANGED <<hookFile, settings, reported>>
    BY <1>1, <1>2, <1>7 DEF Plan, HookAt, HookRuns, HookTypes
  <2>2. Relies(h)'
    BY <1>1, <1>2, <2>1 DEF Relies, HookTypes, HookRuns, Wanted
  <2> QED
    BY <2>1, <2>2, HookMoves
<1>8. ASSUME NEW h \in Hookers, AppendHook(h) PROVE HookInv'
  <2> DEFINE w == [hook[h] EXCEPT !.phase = "readback"]
  <2>1. /\ hook[h].phase = "append" /\ settings = Wanted(h) /\ hook[h].owner = "user"
        /\ hook' = [hook EXCEPT ![h] = w] /\ UNCHANGED <<settings, reported>>
        /\ hookFile' \in {hookFile, Append(hookFile, HookEntry(h))}
        /\ hook[h].says \in Settings /\ hook[h].timeout \in Timeouts
    BY <1>2, <1>8 DEF AppendHook, HookAt, HookTo, Relies
  <2>2. w \in HookRuns
    BY <1>2 DEF HookRuns
  <2>3. HookEntry(h) \in Registrations
    BY <2>1 DEF HookEntry, Registrations
  <2>4. HookTypes'
    BY <1>1, <2>1, <2>2, <2>3 DEF HookTypes
  <2>5. \A g \in Hookers : hook'[g] = IF g = h THEN w ELSE hook[g]
    BY <1>1, <2>1 DEF HookTypes
  <2>6. settings.owner = "user" /\ settings # NoSettings
    BY RegistrationAssumption, <2>1 DEF Wanted, NoSettings, Owners
  <2>7. \A g \in Hookers : Relies(g)'
    BY <1>2, <2>1, <2>5, <2>6 DEF Relies, Wanted, NoSettings, HookRuns
  <2>8. OneHookOwner' /\ Noticed'
    BY <2>1, <2>2, <2>5, <2>6 DEF OneHookOwner, Noticed, HookRuns
  <2> QED
    BY <2>4, <2>7, <2>8 DEF HookInv
<1>9. ASSUME NEW h \in Hookers, ReadBack(h) PROVE HookInv'
  <2> DEFINE w == [hook[h] EXCEPT !.phase = "over"]
  <2>1. /\ hook' = [hook EXCEPT ![h] = w] /\ UNCHANGED <<hookFile, settings>>
        /\ reported' = (reported \/ hookFile # <<HookEntry(h)>>) /\ w \in HookRuns
        /\ hook[h].phase = "readback"
    BY <1>2, <1>9 DEF ReadBack, HookTo, HookAt, HookRuns
  <2>2. HookTypes'
    BY <1>1, <2>1 DEF HookTypes
  <2>3. \A g \in Hookers : hook'[g] = IF g = h THEN w ELSE hook[g]
    BY <1>1, <2>1 DEF HookTypes
  <2>4. \A g \in Hookers : Relies(g)'
    BY <1>2, <2>1, <2>3 DEF Relies, Wanted, NoSettings, HookRuns
  <2>5. OneHookOwner'
    BY <1>1, <2>1 DEF OneHookOwner
  <2>6. Len(hookFile) > 1 => hookFile # <<HookEntry(h)>>
    <3>1. Len(<<HookEntry(h)>>) = 1
      BY LenOfOne, Zenon
    <3>2. hookFile = <<HookEntry(h)>> => Len(hookFile) = 1
      BY <3>1, Zenon
    <3>3. ~(1 > 1)
      OBVIOUS
    <3> QED
      BY <3>2, <3>3, Zenon
  <2>7. Noticed'
    BY <2>1, <2>6 DEF Noticed
  <2> QED
    BY <2>2, <2>4, <2>5, <2>7 DEF HookInv
<1>10. ASSUME NEW h \in Hookers, KillHooker(h) PROVE HookInv'
  <2> DEFINE w == [hook[h] EXCEPT !.phase = "dead"]
  <2>1. /\ hook' = [hook EXCEPT ![h] = w] /\ UNCHANGED <<hookFile, settings, reported>>
        /\ w \in HookRuns /\ hook[h].phase # "idle"
    BY <1>2, <1>10 DEF KillHooker, HookTo, HookRuns
  <2>2. Relies(h)'
    BY <1>1, <1>2, <2>1 DEF Relies, HookTypes, HookRuns
  <2>3. w.phase = "dead"
    BY <1>2 DEF HookRuns
  <2> QED
    BY <2>1, <2>2, <2>3, HookMoves
<1>11. ASSUME EditHooks PROVE HookInv'
  <2>1. /\ hookFile # <<>> /\ hookFile' = Tail(hookFile) /\ UNCHANGED <<settings, hook, reported>>
        /\ hookFile' \in Seq(Registrations) /\ Len(hookFile') < Len(hookFile)
    BY <1>1, <1>11 DEF EditHooks, HookTypes
  <2>2. HookTypes' /\ OneHookOwner' /\ Noticed'
    BY <1>1, <2>1 DEF HookTypes, OneHookOwner, Noticed
  <2>3. \A h \in Hookers : Relies(h)'
    BY <1>2, <2>1 DEF Relies, Wanted, NoSettings
  <2> QED
    BY <2>2, <2>3 DEF HookInv
<1> QED
  BY <1>3, <1>4, <1>5, <1>6, <1>7, <1>8, <1>9, <1>10, <1>11 DEF HookNext

\* However many register-mcp and hook runs, of the user and of the plugin, run beside each other,
\* are killed or fail to write, and whatever an operator edits: no run adds a bridge to a host that
\* has one, a record of the user's is of a table, the adapter is not registered beside settings
\* that say the plugin does, and two registrations are reported of (runtime_install.py register-mcp
\* and hook).
THEOREM HostRegistrationsAgree == RegistrationSpec => RegistrationsAgree
<1> DEFINE AllInv == McpInv /\ HookInv
<1>1. RegistrationInit => AllInv
  BY McpInvInit, HookInvInit
<1>2. AllInv /\ [RegistrationNext]_registrationVars => AllInv'
  <2> SUFFICES ASSUME AllInv, [RegistrationNext]_registrationVars PROVE AllInv'
    OBVIOUS
  <2>1. ASSUME McpNext, UNCHANGED hookVars PROVE AllInv'
    <3>1. McpInv'
      BY <2>1, McpStep
    <3>2. HookInv'
      BY <2>1 DEF hookVars, HookInv, HookTypes, Relies, OneHookOwner, Noticed, Wanted, NoSettings
    <3> QED
      BY <3>1, <3>2
  <2>2. ASSUME HookNext, UNCHANGED mcpVars PROVE AllInv'
    <3>1. HookInv'
      BY <2>2, HookStep
    <3>2. edits' = edits \/ edits' = edits + 1
      BY <2>2 DEF HookNext, Look, Ask, ReadSettings, WriteSettings, Plan, AppendHook, ReadBack,
                  KillHooker, EditHooks, SameBounds, Loss
    <3>3. edits' \in Nat /\ (edits' = 0 => edits = 0)
      BY <3>2 DEF McpInv, RegistrationTypes
    <3>4. McpInv'
      BY <2>2, <3>3 DEF mcpVars, McpInv, RegistrationTypes, OneWithin, Knows, Holds,
                        RecordIsOfATable, Owned, Unowned, Tables
    <3> QED
      BY <3>1, <3>4
  <2>3. ASSUME UNCHANGED registrationVars PROVE AllInv'
    BY <2>3 DEF registrationVars, mcpVars, hookVars, McpInv, RegistrationTypes, OneWithin, Knows, Holds,
                RecordIsOfATable, Owned, Unowned, Tables, HookInv, HookTypes, Relies, OneHookOwner, Noticed, Wanted,
                NoSettings
  <2> QED
    BY <2>1, <2>2, <2>3 DEF RegistrationNext
<1>3. AllInv => RecordIsOfATable /\ OneHookOwner /\ TwoHooksAreTold
  <2>1. Noticed => TwoHooksAreTold
    BY DEF Noticed, TwoHooksAreTold, HookAt
  <2> QED
    BY <2>1 DEF McpInv, HookInv
<1>4. AllInv /\ [RegistrationNext]_registrationVars =>
        [/\ config' # config /\ edits' = edits =>
               Tables(config) = {} /\ (ownership.owner # "plugin" \/ locked.met)
         /\ ownership' # ownership /\ ownership'.owner = "plugin" =>
               Tables(config) = {} \/ edits > 0 \/ locked.met]_registrationVars
  <2>1. AllInv /\ McpNext =>
          /\ config' # config /\ edits' = edits =>
               Tables(config) = {} /\ (ownership.owner # "plugin" \/ locked.met)
          /\ ownership' # ownership /\ ownership'.owner = "plugin" =>
               Tables(config) = {} \/ edits > 0 \/ locked.met
    BY OneBridgeStep
  <2>2. HookNext /\ UNCHANGED mcpVars => config' = config /\ ownership' = ownership
    BY DEF mcpVars
  <2> QED
    BY <2>1, <2>2 DEF RegistrationNext
<1> QED
  BY <1>1, <1>2, <1>3, <1>4, PTL DEF RegistrationSpec, RegistrationsAgree, OneBridge
=============================================================================
