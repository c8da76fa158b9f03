----------------------------- MODULE MCDelivery -----------------------------
(* Model values and bounds of Delivery for TLC.                              *)
EXTENDS Delivery

CONSTANTS e1, e2, d, c, o, nobody

OneEvent  == {e1}
TwoEvents == {e1, e2}
NoOne     == {}
Daemon    == {d}
Deliver   == {c}
DaemonAndDeliver == {d, c}
Operator  == {o}

\* The assignment is left alone: neither paused nor advanced nor replaced.
Undisturbed == active /\ \A e \in Events : standing[e] = "current"
=============================================================================
