------------------------------- MODULE Handoff -------------------------------
(***************************************************************************)
(* What the delivery half promises, and nothing of how: "handing an event  *)
(* to a recipient, exactly once, and only when that is allowed"            *)
(* (delivery.py).  An event is given to the recipient as a turn, reported  *)
(* as given, withdrawn because something replaced it, or closed by an      *)
(* acknowledgement - in no order but the ones below.                       *)
(***************************************************************************)
EXTENDS Naturals

CONSTANT Events

VARIABLES
  given,      \* how many turns of the recipient carry the event
  reported,   \* the events a delivery names a turn for
  withdrawn,  \* the events whose delivery was superseded
  closed      \* the events whose delivery was acknowledged

vars == <<given, reported, withdrawn, closed>>

Init ==
  /\ given = [e \in Events |-> 0]
  /\ reported = {} /\ withdrawn = {} /\ closed = {}

\* The recipient takes the event: once, and never after it was withdrawn or closed.
Hand(e) ==
  /\ given[e] = 0 /\ e \notin withdrawn \cup closed
  /\ given' = [given EXCEPT ![e] = 1]
  /\ UNCHANGED <<reported, withdrawn, closed>>

\* Only what was given is reported as given, and the report stands.
Report(e) ==
  /\ given[e] = 1 /\ e \notin reported \cup withdrawn
  /\ reported' = reported \cup {e}
  /\ UNCHANGED <<given, withdrawn, closed>>

\* Only what the recipient cannot already be acting on is withdrawn.
Withdraw(e) ==
  /\ given[e] = 0 /\ e \notin withdrawn \cup closed
  /\ withdrawn' = withdrawn \cup {e}
  /\ UNCHANGED <<given, reported, closed>>

\* An acknowledgement closes what was reported, or what stayed in the inbox and was not given.
Close(e) ==
  /\ e \notin withdrawn \cup closed
  /\ e \in reported \/ given[e] = 0
  /\ closed' = closed \cup {e}
  /\ UNCHANGED <<given, reported, withdrawn>>

Next == \E e \in Events : Hand(e) \/ Report(e) \/ Withdraw(e) \/ Close(e)

Spec == Init /\ [][Next]_vars
=============================================================================
