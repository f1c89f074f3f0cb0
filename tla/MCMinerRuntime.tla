--------------------------- MODULE MCMinerRuntime ---------------------------
(***************************************************************************)
(* The pool-mining path for TLC: the configurations the runs share.        *)
(***************************************************************************)
EXTENDS MinerRuntime

Writable == {TRUE}
Unreliable == {TRUE, FALSE}
=============================================================================
