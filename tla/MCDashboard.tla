----------------------------- MODULE MCDashboard -----------------------------
(***************************************************************************)
(* An instance of Dashboard for TLC: two cases, the first expected to be   *)
(* rejected and the second accepted.  One of them has the oracle run that  *)
(* is followed, and in both an earlier oracle has accepted the image, so   *)
(* that the first case is never as expected and the second may be.         *)
(***************************************************************************)
EXTENDS Dashboard

MCExpectation == <<"rejected", "accepted">>
MCOtherResults == {<<"accepted">>}
=============================================================================
