------------------------------ MODULE MineSpec ------------------------------
(***************************************************************************)
(* What a caller of mine() (src/src/lib/miner_runtime.cpp) may rely on: it *)
(* returns once, with a result that MiningResults allows at that moment.   *)
(* Nothing is said of threads, counters or the monitor loop: module Mine   *)
(* is the detailed specification that implements this one.                 *)
(***************************************************************************)
EXTENDS MiningResults

VARIABLES
    winning,        \* the nonces whose double hash meets the difficulty
    stop_requested, \* the flag the signal handler sets
    outcome         \* the results returned so far: at most one

specVars == <<winning, stop_requested, outcome>>

SpecInit ==
    /\ winning \in SUBSET Nonces
    /\ stop_requested \in BOOLEAN
    /\ outcome = {}

RequestStop ==
    /\ stop_requested' = TRUE
    /\ UNCHANGED <<winning, outcome>>

Return ==
    /\ outcome = {}
    /\ \E r \in PossibleResults(winning, stop_requested) : outcome' = {r}
    /\ UNCHANGED <<winning, stop_requested>>

SpecNext == RequestStop \/ Return

SpecSafety == SpecInit /\ [][SpecNext]_specVars

SpecSpec == SpecSafety /\ WF_specVars(Return)
=============================================================================
