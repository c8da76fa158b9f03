------------------------------- MODULE MCSync -------------------------------
(***************************************************************************)
(* Model values of Sync for TLC, and the situations the outbox is checked  *)
(* in, chosen initially.                                                   *)
(*                                                                         *)
(*   beside:   two writers, one for a verdict's summary and one for a      *)
(*             progress summary, in one document;                          *)
(*   by hand:  one writer, one summary, while the document is edited and   *)
(*             an operator retries;                                        *)
(*   retarget: one writer, one subject, whose target moves to another      *)
(*             document;                                                   *)
(*   trouble:  two writers and one summary through three pieces of trouble.*)
(***************************************************************************)
EXTENDS Sync

CONSTANTS v1, progress, d1, d2, w1, w2

OneVerdict == {v1}
TwoDocs    == {d1, d2}
TwoWriters == {w1, w2}

VARIABLE situation

Situations == {"beside", "by hand", "retarget", "trouble"}

Situated ==
  /\ situation # "retarget" => target # d2
  /\ situation # "beside" => jobs[<<v1, d1>>].state = "absent"
  /\ jobs[<<v1, d2>>].state = "absent"
  /\ situation = "beside" =>
       \A w \in Writers : writer[w].phase # "idle" => (writer[w].job[1] = v1 <=> w = w1)
  /\ situation \in {"by hand", "retarget"} => writer[w2].phase = "idle"
  /\ situation # "by hand" => edits = 0
  /\ situation # "by hand" => retries = 0
  /\ situation # "trouble" => trouble <= 1

MCInit == Init /\ situation \in Situations
In(A) == A /\ UNCHANGED situation /\ Situated'
MCvars == <<vars, situation>>

\* Writers keep working and leave when done, the clock that ends leases and backoffs goes on, and
\* the connector decides what it was given.
Fairness ==
  /\ \A w \in Writers : WF_MCvars(In(WriterSteps(w)))
  /\ WF_MCvars(In(\E j \in Jobs : LeaseExpires(j) \/ BackoffEnds(j)))
  /\ WF_MCvars(In(\E q \in inflight : Lands(q) \/ Rejected(q)))

MCFairSpec == MCInit /\ [][In(Next)]_MCvars /\ Fairness
=============================================================================
