----------------------------- MODULE MCProcesses -----------------------------
(***************************************************************************)
(* The deployments Delivery is checked in, one chosen initially: which of  *)
(* the processes the constants name run beside each other, over how many   *)
(* events.                                                                 *)
(*                                                                         *)
(*   one daemon:   it sends and reconciles, while the assignment moves;    *)
(*   two senders:  the daemon and an operator's deliver command;           *)
(*   one lock:     one sender whose two events share the recipient's lock; *)
(*   by hand:      the daemon, and an operator who reconciles by hand;     *)
(*   passes:       the daemon's passes over listings of three parents, of  *)
(*                 two rows each, with a budget of two.                    *)
(***************************************************************************)
EXTENDS MCDelivery

CONSTANT Deployments

OneDaemon == {"one daemon"}
SeveralProcesses == {"two senders", "one lock", "by hand", "passes"}

VARIABLES deployment, pass, row, out, first, place, looked, waited, putOff

passVars == <<pass, row, out, first, place, looked, waited, putOff>>

Passes == INSTANCE Rotation WITH Parents <- 3, Rows <- 2, Budget <- 2, SendShare <- 2, Recheck <- 2,
                                 Deaf <- {}, MaxComing <- 1, MaxPutOff <- 1

\* The second process sends, reconciles by hand, or is not there; the first may also reconcile.
Part(p) ==
  /\ p = c /\ deployment # "two senders" => pc[p] \in {"idle"} \cup Checking
  /\ p = c /\ deployment # "by hand" => pc[p] \notin Checking
  /\ p = d /\ deployment \notin {"one daemon", "by hand"} => pc[p] \notin Checking

Deployed ==
  /\ \A p \in Procs : Part(p)
  /\ deployment # "one lock" => \A e \in Events \ {e1} : dstate[e] = "absent"
  /\ deployment = "one lock" => \A e \in Events : attempts[e] <= 1
  /\ deployment \in {"one lock", "by hand"} => Undisturbed
  /\ deployment \in {"two senders", "one lock"} => crashes = 0

MCInit ==
  /\ Init /\ Passes!RotationInit
  /\ deployment \in Deployments
  /\ deployment # "passes" => pass = "deliver" /\ \A r \in DOMAIN row : row[r] = "open"
MCNext ==
  /\ UNCHANGED deployment
  /\ \/ deployment # "passes" /\ Next /\ Deployed' /\ UNCHANGED passVars
     \/ deployment = "passes" /\ Passes!RotationNext /\ UNCHANGED vars
MCSpec == MCInit /\ [][MCNext]_<<vars, passVars, deployment>>

\* Of one daemon, which no deployment restricts.
MCFairSpec == MCSpec /\ Fairness

\* The property of Rotation, by a name a configuration can give.
NoRowWaitsLong == Passes!NoRowWaitsLong
=============================================================================
