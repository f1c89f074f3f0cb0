----------------------------- MODULE MCLocalRun -----------------------------
(***************************************************************************)
(* The local run for TLC.  The health file may fail to open.               *)
(***************************************************************************)
EXTENDS LocalRun

Unreliable == {TRUE, FALSE}
=============================================================================
