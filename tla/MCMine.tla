------------------------------- MODULE MCMine -------------------------------
(***************************************************************************)
(* mine() for TLC.  The main run has three workers, so that two of them    *)
(* may lose the race to claim, and at most two winning nonces; the run for *)
(* the exhausted search has two workers and any set of winners.            *)
(***************************************************************************)
EXTENDS Mine

InitFewWinners == Init /\ Cardinality(winning) <= 2

SpecFewWinners == InitFewWinners /\ [][Next]_vars /\ Fairness
=============================================================================
