----------------------------- MODULE MCService ------------------------------
(***************************************************************************)
(* Model values of Service for TLC, and who is there, chosen initially.    *)
(*                                                                         *)
(*   home:    one installation; two runs and two commands;                 *)
(*   guest:   another installation's daemon or supervisor in the same      *)
(*            directory, with a command of each;                           *)
(*   socket:  another state directory for the same socket, one of its runs *)
(*            told to take it over;                                        *)
(*   reboot:  one installation before and after a reboot.                  *)
(***************************************************************************)
EXTENDS Service

CONSTANTS here, there, mine, theirs, other, s1, s2, g1, g2, t1, c1, c2, h1

TwoDirs       == {here, there}
ThreeInstalls == {mine, theirs, other}
Runs          == {s1, s2, g1, g2, t1}
Clients       == {c1, c2, h1}
Homes         == [p \in Runs \cup Clients |-> IF p = t1 THEN there ELSE here]
Owners        == [p \in Runs \cup Clients |-> IF p = t1 THEN other
                                              ELSE IF p \in {g1, g2, h1} THEN theirs ELSE mine]
Daemons       == {g1}
TakeOvers     == {t1}

VARIABLE company

Companies == {"home", "guest", "daemon", "socket", "reboot"}

Present == [home   |-> {s1, s2, c1, c2}, guest |-> {s1, g2, c1}, daemon |-> {s1, g1, c1, h1},
            socket |-> {s1, t1, c1},     reboot |-> {s1, s2, c1}]

Wanted(c) == CASE c = c1 -> IF company = "home" THEN {"disable"}
                            ELSE {"stop", "disable", "enable", "start"}
               [] c = c2 -> {"restart"}
               [] c = h1 -> {"stop"}

Met ==
  /\ \A s \in Supervisors : s \in Present[company] \/ sup[s] = "none"
  /\ \A c \in Commands : cmd[c].phase = "idle" \/ (c \in Present[company] /\ cmd[c].plan \in Wanted(c))
  /\ sup[s2] # "none" => sup[s1] # "none"
  /\ company # "home" => \A s \in Supervisors : worker[s].n <= 1
  /\ company # "reboot" => boot = 1
  /\ company = "reboot" => troubles = 0

MCInit == Init /\ company \in Companies /\ (intent[there] <=> company = "socket") /\ intent[here]
In(A) == A /\ UNCHANGED company /\ Met'
MCvars == <<vars, company>>

MCSpec == MCInit /\ [][In(Next)]_MCvars
MCLive == MCSpec /\ WF_MCvars(\E s \in Supervisors : In(Supervise(s) \/ EndWorker(s)))
=============================================================================
