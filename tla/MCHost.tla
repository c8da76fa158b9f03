------------------------------- MODULE MCHost -------------------------------
(* Small instances of what runs on a host, one per question:               *)
(*   same    three installs of the same sources, one after or beside       *)
(*           another                                                       *)
(*   update  two installs of two versions                                  *)
(*   dests   two installs, each into a destination of its own              *)
(*   hand    two installs of any version, and an operator who moves a link *)
(*   mcp     three register-mcp runs                                       *)
(*   hook    three hook runs                                               *)
(* Installer and Registration write different files; no run has both.      *)
EXTENDS Installer, Registration

CONSTANTS r1, r2, r3, e1, e2, e3, d1, d2

ThreeRuns == {r1, r2, r3}
Three     == {e1, e2, e3}
Dests     == {d1, d2}
Placed    == [e \in Three |-> IF e = e3 THEN d2 ELSE d1]

VARIABLE scenario

aroundVars == <<edits, losses>>

Versions == CASE scenario = "same"  -> {e1}
              [] scenario = "dests" -> {e1, e3}
              [] OTHER              -> {e1, e2}

\* Runs differ in nothing: they are started in one order.
InOrder(idle(_)) == (idle(r1) => idle(r2)) /\ (idle(r2) => idle(r3))

Shortest == CHOOSE t \in Timeouts : \A u \in Timeouts : t <= u

InstallIdle(r) == run[r].phase = "idle"
McpIdle(r)     == mcp[r].phase = "idle"
HookIdle(r)    == hook[r].phase = "idle"

Restricted ==
  /\ \A r \in Runs : run[r].env \in Versions \cup {None}
  /\ scenario # "same" => InstallIdle(r3)
  /\ scenario # "hand" => hands = 0
  /\ faults + kills <= 2
  /\ scenario = "hand" => faults + kills <= 1 /\ links[d2] = NoLink
  /\ scenario = "mcp" => edits + losses <= 1
  \* A plugin's run makes no registration: its --timeout says nothing.
  /\ \A h \in ThreeRuns : hook[h].owner = "plugin" => hook[h].timeout = Shortest
  /\ InOrder(InstallIdle) /\ InOrder(McpIdle) /\ InOrder(HookIdle)

Scenarios == {"same", "update", "dests", "hand", "mcp", "hook"}

MCInit == /\ scenario \in Scenarios
          /\ Init /\ RegistrationInit
          /\ record.selected \in Versions \cup {None}
          /\ scenario # "hook" => hookFile = <<>>
          /\ scenario # "mcp"  => \A n \in TableNames : config[n] = Unset
          /\ scenario \in {"mcp", "hook"} => Clean

MCNext ==
  /\ UNCHANGED scenario
  /\ \/ scenario \notin {"mcp", "hook"} /\ Next /\ UNCHANGED <<mcpVars, hookVars, aroundVars>>
     \/ scenario = "mcp" /\ McpNext /\ UNCHANGED <<vars, hookVars>>
     \/ scenario = "hook" /\ HookNext /\ UNCHANGED <<vars, mcpVars>>
  /\ Restricted'

MCSpec == MCInit /\ [][MCNext]_<<vars, mcpVars, hookVars, aroundVars, scenario>>
=============================================================================
