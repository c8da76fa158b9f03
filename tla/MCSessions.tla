----------------------------- MODULE MCSessions -----------------------------
(***************************************************************************)
(* What reaches into sessions from outside them, on small instances: the   *)
(* thread bridge's tools, and the Stop hook's guard.  They share no state; *)
(* the question of a behaviour is chosen initially.                        *)
(*                                                                         *)
(*   shared id:  two servers are given one request id, for any of the      *)
(*               tools, and one of them dies;                              *)
(*   one place:  two requests want a worktree at one destination, from two *)
(*               servers;                                                  *)
(*   alias:      an earlier bridge left a receipt under an alias of the    *)
(*               socket;                                                   *)
(*   loop:       a child ends four turns in two assignments and leaves     *)
(*               something out each time, within and beyond one window;    *)
(*   copies:     two registered copies of the hook run on each Stop;       *)
(*   whose turn: two sessions, two assignments, in any order of facts.     *)
(***************************************************************************)
EXTENDS Bridge, Guard

CONSTANTS p1, p2, r1, r2, d1, a1, a2, child, other

TwoProcesses   == {p1, p2}
TwoRequests    == {r1, r2}
OnePlace       == {d1}
TwoAssignments == {a1, a2}
TwoSessions    == {child, other}

Use(tool, all) ==
  [tool |-> tool, titled |-> all, prompted |-> all, project |-> all, destination |-> d1]

Uses == {Use("create_thread", TRUE), Use("create_worktree_thread", TRUE),
         Use("send_message_to_thread", TRUE), Use("steer_thread", FALSE),
         Use("pause_goal", FALSE), Use("create_worktree_thread", FALSE)}

VARIABLE usage

BridgeUses == {"shared id", "one place", "alias"}
GuardUses  == {"loop", "copies", "whose turn"}

Used ==
  /\ usage # "alias" => \A r \in Requests : legacy[r] = None
  /\ usage = "alias" => legacy[r1] # None /\ ledger[r2] = None /\ crashes = 0
  /\ usage = "shared id" => ledger[r2] = None
  /\ usage = "one place" =>
       /\ crashes = 0
       /\ \A r \in Requests : ledger[r] # None => Worktree(ledger[r].ask) /\ ledger[r].attempt = 1
       /\ \A p \in Processes : Busy(p) => (work[p].req = r1 <=> p = p1)
  /\ \A p \in Processes : allowed[p] \in {{}, Asks}

Told(s)   == \E e \in DOMAIN guards : e.session = s
Whole(a)  == a \in registered /\ bound[a] = child /\ <<a, child>> \in claims

\* The facts of one assignment, in the order of a dispatch nothing disturbs.
InOrder(a) ==
  /\ a \in Range(opened) => a \in Declared
  /\ bound[a] # Nobody => a \in Range(opened)
  /\ <<a, child>> \in claims => bound[a] # Nobody
  /\ a \in registered => <<a, child>> \in claims

OneChild ==
  /\ ~Told(other) /\ \A a \in Assignments : bound[a] # other /\ <<a, other>> \notin claims
  /\ conflicts = {} /\ dispositions = {} /\ head = NoHead
  /\ \A a \in Assignments : InOrder(a)
  /\ Told(child) => Whole(a1)

Stopped ==
  /\ a2 \in Declared => declared[1] = a1
  /\ a2 \in Range(opened) => opened[1] = a1
  /\ usage = "loop" =>
       /\ OneChild /\ misses <= 1
       /\ a2 \in Declared => turn[child] >= 3
       /\ stopping # {} /\ a2 \in Declared => Whole(a2)
  /\ usage = "copies" =>
       /\ OneChild /\ now = 0 /\ turn[child] + misses <= 3 /\ turn[child] <= 2 /\ a2 \notin Declared
       /\ \A e \in DOMAIN guards :
            guards[e].phase = "asked" => guards[[e EXCEPT !.copy = 2]].phase = "asked"
  /\ usage = "whose turn" =>
       /\ now = 0 /\ misses = 0 /\ \A s \in Sessions : turn[s] = 1 /\ ~again[s]
       /\ Cardinality(dispositions) <= 1 /\ \A d \in dispositions : d.session = child /\ d.dir = a1
       /\ conflicts # {} => a2 \notin Declared /\ DOMAIN guards = {}
       /\ head.session # other /\ (head.stage = "final" \/ ~intact => child \in stopping)
       /\ registered \subseteq {a1} /\ (opened # <<>> => declared # <<>>)
       /\ <<a1, other>> \notin claims /\ bound[a2] # child

MCInit == /\ usage \in BridgeUses \cup GuardUses
          /\ Init /\ GuardInit
          /\ (usage = "alias" <=> \E r \in Requests : legacy[r] # None)
          /\ copies = 1..(IF usage = "copies" THEN 2 ELSE 1)
          /\ Used

MCNext == /\ UNCHANGED usage
          /\ \/ usage \in BridgeUses /\ Next /\ UNCHANGED guardVars /\ Used'
             \/ usage \in GuardUses /\ GuardNext /\ UNCHANGED vars /\ Stopped'

MCSpec == MCInit /\ [][MCNext]_<<vars, guardVars, usage>>
=============================================================================
