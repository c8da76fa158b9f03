----------------------------- MODULE MCRotation -----------------------------
(***************************************************************************)
(* Rotation for TLC with the policy's numbers where they matter: a         *)
(* delivery that was put off is eligible again after a minute              *)
(* (lifecycle_recheck_seconds), a tick comes every twenty seconds          *)
(* (poll_interval_seconds), and a parent puts two forward.  One parent has *)
(* deliveries for five children; the first, the third and the fifth cannot *)
(* be sent to.                                                             *)
(***************************************************************************)
EXTENDS Rotation

EveryOther == {<<1, 1>>, <<1, 3>>, <<1, 5>>}

\* The daemon keeps ticking.
MCSpec == RotationInit /\ [][RotationNext]_rotationVars /\ WF_rotationVars(Tick)
=============================================================================
