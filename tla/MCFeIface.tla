----------------------------- MODULE MCFeIface -----------------------------
(***************************************************************************)
(* Small instances of FeIface, over every workload manager: one            *)
(* application with two sessions, and two applications with a session;     *)
(* for the documented promises about cti_releaseApp, one application with  *)
(* a session, and three calls that launch.                                 *)
(***************************************************************************)
EXTENDS FeIface

Calls(t, s, m, d) == [tries |-> t, sessions |-> s, manifests |-> m, starts |-> d]

MCLimits == {Calls(1, 2, 2, 2), Calls(2, 1, 0, 0)}
MCSessionLimits == {Calls(1, 1, 0, 0)}
MCLaunchLimits == {Calls(3, 0, 0, 0)}
=============================================================================
