------------------------------ MODULE Registry ------------------------------
(***************************************************************************)
(* Who is responsible for one issue (codex_session_relay/registry.py):     *)
(* relationships of a parent and a child task, their status and            *)
(* supersession, the execution generations of each and the anchor turn     *)
(* each generation is bound to.                                            *)
(*                                                                         *)
(* Callers are processes of their own over one store.  A call that reads   *)
(* before its transaction keeps what it read in caller[c] and writes in a  *)
(* second step; a call that does both in one transaction is one step.      *)
(***************************************************************************)
EXTENDS Integers, FiniteSets

CONSTANTS
  Parents, Children,  \* task ids
  Callers,            \* processes that call the registry
  Requests,           \* dispatch request ids
  Turns,              \* turn ids a dispatch receipt may report
  Pending,            \* anchor_pending
  None,               \* no relationship, no request
  MaxGeneration,      \* model bound on generations of one relationship
  MaxStatusChanges    \* model bound on set_status and resume

\* relationship_id digests the two task ids and the issue.
Rels == Parents \X Children

ASSUME RegistryAssumption ==
  /\ Rels # {} /\ None \notin Rels /\ None \notin Requests /\ Pending \notin Turns
  /\ MaxGeneration \in Nat \ {0} /\ MaxStatusChanges \in Nat

Child(r) == r[2]

Statuses == {"absent", "active", "paused", "cancelled", "archived"}
Deactivations == {"paused", "cancelled", "archived"}

VARIABLES
  \* relationships
  status, supersededBy, generation,
  \* generations: the request each was opened for, and its anchor
  requestOf, anchor,
  \* what a caller read before its transaction
  caller,
  \* history: relationships that own their issue since set_status paused what was released, and
  \* what replaced those
  revived,
  changes

vars == <<status, supersededBy, generation, requestOf, anchor, caller, revived, changes>>

genVars == <<generation, requestOf, anchor>>

Generations == 1..MaxGeneration

Calls == {"none", "register", "open", "bind", "resume"}

Caller == [call: Calls, rel: Rels, number: 0..MaxGeneration, request: Requests \cup {None},
           turn: Turns \cup {Pending}, supersedes: Rels \cup {None}]

NoCall == [call |-> "none", rel |-> CHOOSE r \in Rels : TRUE, number |-> 0, request |-> None,
           turn |-> Pending, supersedes |-> None]

TypeOK ==
  /\ status \in [Rels -> Statuses]
  /\ supersededBy \in [Rels -> Rels \cup {None}]
  /\ generation \in [Rels -> 0..MaxGeneration]
  /\ requestOf \in [Rels -> [Generations -> Requests \cup {None}]]
  /\ anchor \in [Rels -> [Generations -> Turns \cup {Pending}]]
  /\ caller \in [Callers -> Caller]
  /\ revived \in SUBSET Rels
  /\ changes \in 0..MaxStatusChanges
  /\ \A r \in Rels : \A g \in Generations : requestOf[r][g] # None <=> g <= generation[r]

Init ==
  /\ status = [r \in Rels |-> "absent"]
  /\ supersededBy = [r \in Rels |-> None]
  /\ generation = [r \in Rels |-> 0]
  /\ requestOf = [r \in Rels |-> [g \in Generations |-> None]]
  /\ anchor = [r \in Rels |-> [g \in Generations |-> Pending]]
  /\ caller = [c \in Callers |-> NoCall]
  /\ revived = {}
  /\ changes = 0

\* An assignment that still owns its child: a pause is not permission to open a second one.
Owns(r) == status[r] \in {"active", "paused"} /\ supersededBy[r] = None

Begins(c, call) ==
  /\ caller[c].call = "none"
  /\ caller' = [caller EXCEPT ![c] = call]
  /\ UNCHANGED <<status, supersededBy, genVars, revived, changes>>

Returns(c) == caller' = [caller EXCEPT ![c] = NoCall]

-----------------------------------------------------------------------------
(* register                                                                  *)

\* The relationship does not exist yet; an existing one is returned, with nothing written.
BeginRegister(c, r, request, turn, s) ==
  /\ status[r] = "absent"
  /\ s \in {None} \cup {o \in Rels \ {r} : status[o] # "absent"}
  /\ Begins(c, [NoCall EXCEPT !.call = "register", !.rel = r, !.request = request,
                              !.turn = turn, !.supersedes = s])

\* Owners of the issue with another child.
Rivals(r) == {o \in Rels : Owns(o) /\ Child(o) # Child(r)}

\* The query fetches ONE rival, whichever comes first, and compares that one with supersedes.
IssueFree(r, s) == Rivals(r) = {} \/ \E o \in Rivals(r) : o = s

Register(c) ==
  LET r == caller[c].rel
      s == caller[c].supersedes
  IN
  /\ caller[c].call = "register"
  /\ Returns(c)
  /\ \/ \* inserted by another caller meanwhile, or the issue has another owner
        /\ status[r] # "absent" \/ ~IssueFree(r, s) \/ Cardinality(Rivals(r)) > 1
        /\ UNCHANGED <<status, supersededBy, genVars, revived>>
     \/ /\ status[r] = "absent" /\ IssueFree(r, s)
        /\ status' = [q \in Rels |-> IF q = r THEN "active"
                                     ELSE IF q = s THEN "archived" ELSE status[q]]
        /\ supersededBy' = IF s = None THEN supersededBy
                           ELSE [supersededBy EXCEPT ![s] = r]
        /\ generation' = [generation EXCEPT ![r] = 1]
        /\ requestOf' = [requestOf EXCEPT ![r][1] = caller[c].request]
        /\ anchor' = [anchor EXCEPT ![r][1] = caller[c].turn]
        /\ revived' = IF s \in revived THEN (revived \ {s}) \cup {r} ELSE revived
  /\ UNCHANGED changes

-----------------------------------------------------------------------------
(* open_generation, open_generation_in                                       *)

Opened(r, request) == \E g \in Generations : requestOf[r][g] = request

BeginOpen(c, r, request) ==
  /\ status[r] = "active"
  /\ ~Opened(r, request)
  /\ Begins(c, [NoCall EXCEPT !.call = "open", !.rel = r, !.request = request])

Replayed(r, request) == Opened(r, request)

NextNumber(r) == generation[r] + 1

\* open_generation_in, in the transaction of open_generation or of a verdict.
OpenIn(r, request) ==
  IF ~Replayed(r, request) /\ status[r] = "active" /\ supersededBy[r] = None
  THEN LET number == NextNumber(r) IN
       /\ number \in Generations
       /\ generation' = [generation EXCEPT ![r] = number]
       /\ requestOf' = [requestOf EXCEPT ![r][number] = request]
       /\ UNCHANGED anchor
  ELSE UNCHANGED genVars

Open(c) ==
  /\ caller[c].call = "open"
  /\ Returns(c)
  /\ OpenIn(caller[c].rel, caller[c].request)
  /\ UNCHANGED <<status, supersededBy, revived, changes>>

\* record_verdict with needs_changes: the generation opens in the verdict's own transaction.
VerdictOpens(r, request) ==
  /\ status[r] = "active"
  /\ OpenIn(r, request)
  /\ UNCHANGED <<status, supersededBy, caller, revived, changes>>

-----------------------------------------------------------------------------
(* bind_anchor, bind_anchor_in                                               *)

\* The operator's bind-anchor, and the daemon's bind_pending_anchors.
BeginBind(c, r, g, turn) ==
  /\ g <= generation[r]
  /\ anchor[r][g] = Pending
  /\ Begins(c, [NoCall EXCEPT !.call = "bind", !.rel = r, !.number = g, !.turn = turn])

\* The update names the generation only; what it was bound to is not looked at again.
Bind(c) ==
  /\ caller[c].call = "bind"
  /\ Returns(c)
  /\ anchor' = [anchor EXCEPT ![caller[c].rel][caller[c].number] = caller[c].turn]
  /\ UNCHANGED <<status, supersededBy, generation, requestOf, revived, changes>>

PendingAtFirstSight(r, g) == TRUE   \* mutant: the anchor is not read again

StillPending(r, g) == anchor[r][g] = Pending

\* With a reconciler's promotion of the revision, in its transaction; bound, unchanged or conflict.
BindIn(r, g, turn) ==
  /\ g <= generation[r]
  /\ StillPending(r, g)
  /\ anchor' = [anchor EXCEPT ![r][g] = turn]
  /\ UNCHANGED <<status, supersededBy, generation, requestOf, caller, revived, changes>>

-----------------------------------------------------------------------------
(* set_status, resume                                                        *)

\* Unconditional: whatever the status was, superseded or not.
SetStatus(r, s) ==
  /\ status[r] # "absent" /\ s \in Deactivations /\ s # status[r]
  /\ changes < MaxStatusChanges /\ changes' = changes + 1
  /\ status' = [status EXCEPT ![r] = s]
  /\ revived' = IF s # "paused" THEN revived \ {r}
                ELSE IF status[r] # "active" THEN revived \cup {r} ELSE revived
  /\ UNCHANGED <<supersededBy, genVars, caller>>

\* The caller read the relationship, and restates the generation it saw.
BeginResume(c, r) ==
  /\ status[r] # "absent"
  /\ Begins(c, [NoCall EXCEPT !.call = "resume", !.rel = r, !.number = generation[r]])

AnyGeneration(r, number) == TRUE   \* mutant: the generation is not compared

Restated(r, number) == generation[r] = number

\* Into an issue that is still free: no other owner, whichever its child.
StillFree(r) == \A o \in Rels : o # r => ~Owns(o)

NotSuperseded(r) == supersededBy[r] = None

Resume(c) ==
  LET r == caller[c].rel IN
  /\ caller[c].call = "resume"
  /\ Returns(c)
  /\ IF Restated(r, caller[c].number) /\ NotSuperseded(r) /\ StillFree(r)
     THEN /\ changes < MaxStatusChanges /\ changes' = changes + 1
          /\ status' = [status EXCEPT ![r] = "active"]
          /\ revived' = revived \ {r}
     ELSE UNCHANGED <<status, changes, revived>>
  /\ UNCHANGED <<supersededBy, genVars>>

Next ==
  \/ \E c \in Callers :
       \/ \E r \in Rels :
            \/ \E request \in Requests, turn \in Turns \cup {Pending}, s \in Rels \cup {None} :
                 BeginRegister(c, r, request, turn, s)
            \/ \E request \in Requests : BeginOpen(c, r, request)
            \/ \E g \in Generations, turn \in Turns : BeginBind(c, r, g, turn)
            \/ BeginResume(c, r)
       \/ Register(c) \/ Open(c) \/ Bind(c) \/ Resume(c)
  \/ \E r \in Rels :
       \/ \E request \in Requests : VerdictOpens(r, request)
       \/ \E g \in Generations, turn \in Turns : BindIn(r, g, turn)
       \/ \E s \in Deactivations : SetStatus(r, s)

Spec == Init /\ [][Next]_vars

-----------------------------------------------------------------------------
(* Properties.                                                               *)

(* One issue, one responsible child (register, resume): the assignments that own the issue all  *)
(* name the same child.                                                                          *)
OneChildPerIssue == \A o1, o2 \in Rels : Owns(o1) /\ Owns(o2) => Child(o1) = Child(o2)

(* The same, of the assignments set_status did not pause again after their issue was released    *)
(* and of what did not replace those: callers that register, replace and resume at once never    *)
(* assign a second child, where one parent registers (OneChildPerIssue fails with two).          *)
OneChildUnlessRevived ==
  \A o1, o2 \in Rels \ revived : Owns(o1) /\ Owns(o2) => Child(o1) = Child(o2)

(* Replaying a dispatch request opens no second generation (I-04), for callers that both found   *)
(* no generation for it and for a verdict that opens one meanwhile.                              *)
OneGenerationPerRequest ==
  \A r \in Rels : \A g, h \in Generations :
    requestOf[r][g] # None /\ requestOf[r][g] = requestOf[r][h] => g = h

(* An assignment comes back from a pause, a cancellation or an archive only through a resume     *)
(* that named the generation it is at, into an issue nobody else owns.                           *)
ReactivatedOnlyAsRestated ==
  [][\A r \in Rels : status[r] \in Deactivations /\ status'[r] = "active" =>
       /\ \E c \in Callers : /\ caller[c].call = "resume" /\ caller[c].rel = r
                             /\ caller[c].number = generation[r]
       /\ \A o \in Rels \ {r} : ~Owns(o)]_vars

(* A bound anchor moves only under a bind_anchor that read it while it was pending (I-05); no    *)
(* promotion, and no bind that began later, overwrites it.                                       *)
AnchorMovesOnlyUnderABind ==
  [][\A r \in Rels : \A g \in Generations :
       anchor[r][g] # Pending /\ anchor'[r][g] # anchor[r][g] =>
         \E c \in Callers : caller[c].call = "bind" /\ caller[c].rel = r /\ caller[c].number = g
    ]_vars

(* Whoever owns an issue came to it rightly: by a registration while nobody else had it, or by a  *)
(* resume that knew what it resumed.                                                             *)
OwnersAreRightful == []OneChildUnlessRevived /\ ReactivatedOnlyAsRestated

(* A generation is opened once for a request, and the turn bound to it is not bound over.        *)
GenerationsAreRightful == []OneGenerationPerRequest /\ AnchorMovesOnlyUnderABind
=============================================================================
