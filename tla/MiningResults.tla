--------------------------- MODULE MiningResults ---------------------------
(***************************************************************************)
(* The contract of mine() (src/src/lib/miner_runtime.cpp) as a set of      *)
(* results: what a caller may be handed, given which nonces meet the       *)
(* difficulty and whether a stop has been requested.  MineSpec makes a     *)
(* specification of it, which Mine implements; MinerRuntime calls it.      *)
(***************************************************************************)
EXTENDS Naturals

CONSTANTS
    NonceCount,     \* how many nonces there are, 2^32 in the code
    ThreadCount     \* cfg.thread_count

(***************************************************************************)
(* validate_config refuses thread_count = 0, and a 32-bit thread_count is  *)
(* less than the 2^32 nonces: whatever starts has a nonce for each worker. *)
(***************************************************************************)
ASSUME MineAssumption ==
    /\ NonceCount \in Nat
    /\ ThreadCount \in Nat \ {0}
    /\ ThreadCount <= NonceCount

\* Every worker has two nonces or more, as with any thread_count up to 2^31;
\* validate_config does not ask for it.
SharesOfTwo == 2 * ThreadCount <= NonceCount

Nonces == 0 .. (NonceCount - 1)

\* The last nonce of each worker's share: the top of the nonce space.
LastNonces == {n \in Nonces : n + ThreadCount > NonceCount - 1}

\* The fields of MiningResult a caller bases a decision on.
Results == [found : BOOLEAN, aborted : BOOLEAN, nonce : Nonces]

\* The value-initialised MiningResult.
NoResult == [found |-> FALSE, aborted |-> FALSE, nonce |-> 0]

FoundResults(win, requested) ==
    {r \in Results : r.found /\ r.nonce \in win /\ (r.aborted => requested)}

AbortedResults(requested) ==
    {r \in Results : ~r.found /\ r.aborted /\ r.nonce = 0 /\ requested}

\* "No valid nonce": true of the whole space, except for the last nonce of one
\* worker, which the monitor's threshold (2^32 - 1 hashes) does not miss.  It is
\* left untried by a worker that saw the stop request just before it; and if it
\* is all its worker had, the search may be over while that worker tries it.
EmptyResults(win, requested) ==
    {r \in {NoResult} :
        \/ win = {}
        \/ (requested \/ ~SharesOfTwo) /\ \E n \in LastNonces : win = {n}}

PossibleResults(win, requested) ==
    FoundResults(win, requested) \cup AbortedResults(requested)
        \cup EmptyResults(win, requested)
=============================================================================
