-------------------------------- MODULE Mine --------------------------------
(***************************************************************************)
(* mine() of src/src/lib/miner_runtime.cpp: a thread per cfg.thread_count  *)
(* tries the nonces tid, tid + thread_count, ... and the calling thread    *)
(* monitors them.  The threads share three atomics (stop, total_hashes and *)
(* the caller's stop_requested) and the result, which a mutex guards.      *)
(*                                                                         *)
(* One action is one access to shared state.  All atomic accesses are      *)
(* relaxed, yet no step reads one location to conclude something about     *)
(* another: a stale load is the same load made earlier, and the join       *)
(* orders everything before the result is returned.                        *)
(***************************************************************************)
EXTENDS MiningResults, FiniteSets

Workers == 0 .. (ThreadCount - 1)

\* std::numeric_limits<std::uint32_t>::max()
MaxNonce == NonceCount - 1

VARIABLES
    winning,        \* nonces whose hash meets the difficulty (never changes)
    stop_requested, \* *stop_requested, set by the signal handler
    stop,           \* the search is over
    total_hashes,   \* sum of the counts of the workers that ended
    result,         \* the MiningResult under construction
    main,           \* where the calling thread is
    tid,            \* the next worker to start
    hashes,         \* the monitor's last reading of total_hashes
    worker,         \* where each worker is
    nonce64,        \* each worker's loop variable
    local_hashes    \* each worker's own count

workerVars == <<worker, nonce64, local_hashes>>
mainVars == <<main, tid, hashes>>
vars == <<winning, stop_requested, stop, total_hashes, result, mainVars, workerVars>>

-----------------------------------------------------------------------------
Init ==
    /\ winning \in SUBSET Nonces
    /\ stop_requested \in BOOLEAN
    /\ stop = FALSE
    /\ total_hashes = 0
    /\ result = [found |-> FALSE, aborted |-> FALSE, nonce |-> 0, hashes_tried |-> 0]
    /\ main = "spawn"
    /\ tid = 0
    /\ hashes = 0
    /\ worker = [t \in Workers |-> "unborn"]
    /\ nonce64 = [t \in Workers |-> t]
    /\ local_hashes = [t \in Workers |-> 0]

\* on_signal in src/src/miner.cpp: the flag is only ever raised.
RequestStop ==
    /\ stop_requested' = TRUE
    /\ UNCHANGED <<winning, stop, total_hashes, result, mainVars, workerVars>>

-----------------------------------------------------------------------------
(* The workers.                                                            *)

MeetsDifficulty(n) == n \in winning

Goto(t, label) == worker' = [worker EXCEPT ![t] = label]

\* The for loop's condition fails: this worker tried every nonce it had.
LoopDone(t) ==
    /\ worker[t] = "loop"
    /\ nonce64[t] > MaxNonce
    /\ Goto(t, "report")
    /\ UNCHANGED <<winning, stop_requested, stop, total_hashes, result, mainVars,
                   nonce64, local_hashes>>

CheckRequested(t) ==
    /\ worker[t] = "loop"
    /\ nonce64[t] <= MaxNonce
    /\ Goto(t, IF stop_requested THEN "report" ELSE "check_stop")
    /\ UNCHANGED <<winning, stop_requested, stop, total_hashes, result, mainVars,
                   nonce64, local_hashes>>

CheckStop(t) ==
    /\ worker[t] = "check_stop"
    /\ Goto(t, IF stop THEN "report" ELSE "hash")
    /\ UNCHANGED <<winning, stop_requested, stop, total_hashes, result, mainVars,
                   nonce64, local_hashes>>

\* Mutant: the hash is counted only after the difficulty test's break.
HashNonceUncounted(t) ==
    /\ worker[t] = "hash"
    /\ IF MeetsDifficulty(nonce64[t])
       THEN Goto(t, "claim") /\ UNCHANGED <<nonce64, local_hashes>>
       ELSE /\ Goto(t, "loop")
            /\ nonce64' = [nonce64 EXCEPT ![t] = @ + ThreadCount]
            /\ local_hashes' = [local_hashes EXCEPT ![t] = @ + 1]
    /\ UNCHANGED <<winning, stop_requested, stop, total_hashes, result, mainVars>>

\* A hash is computed and counted; a miss moves on to the next nonce.
HashNonce(t) ==
    /\ worker[t] = "hash"
    /\ local_hashes' = [local_hashes EXCEPT ![t] = @ + 1]
    /\ IF MeetsDifficulty(nonce64[t])
       THEN Goto(t, "claim") /\ UNCHANGED nonce64
       ELSE Goto(t, "loop") /\ nonce64' = [nonce64 EXCEPT ![t] = @ + ThreadCount]
    /\ UNCHANGED <<winning, stop_requested, stop, total_hashes, result, mainVars>>

\* Mutant: a plain store of stop in place of the compare-exchange.
ClaimByStore(t) ==
    /\ worker[t] = "claim"
    /\ Goto(t, "publish")
    /\ stop' = TRUE
    /\ UNCHANGED <<winning, stop_requested, total_hashes, result, mainVars,
                   nonce64, local_hashes>>

\* stop.compare_exchange_strong(false, true): one claimant can win.
Claim(t) ==
    /\ worker[t] = "claim"
    /\ Goto(t, IF stop THEN "report" ELSE "publish")
    /\ stop' = TRUE
    /\ UNCHANGED <<winning, stop_requested, total_hashes, result, mainVars,
                   nonce64, local_hashes>>

\* Mutant: the loop variable is advanced before the result is written.
PublishAdvanced(t) ==
    /\ worker[t] = "publish"
    /\ result' = [result EXCEPT !.found = TRUE, !.nonce = nonce64[t] + ThreadCount]
    /\ Goto(t, "report")
    /\ UNCHANGED <<winning, stop_requested, stop, total_hashes, mainVars,
                   nonce64, local_hashes>>

\* The critical section of result_mutex.
Publish(t) ==
    /\ worker[t] = "publish"
    /\ result' = [result EXCEPT !.found = TRUE, !.nonce = nonce64[t]]
    /\ Goto(t, "report")
    /\ UNCHANGED <<winning, stop_requested, stop, total_hashes, mainVars,
                   nonce64, local_hashes>>

Report(t) ==
    /\ worker[t] = "report"
    /\ total_hashes' = total_hashes + local_hashes[t]
    /\ Goto(t, "ended")
    /\ UNCHANGED <<winning, stop_requested, stop, result, mainVars,
                   nonce64, local_hashes>>

WorkerStep(t) ==
    \/ LoopDone(t)
    \/ CheckRequested(t)
    \/ CheckStop(t)
    \/ HashNonce(t)
    \/ Claim(t)
    \/ Publish(t)
    \/ Report(t)

-----------------------------------------------------------------------------
(* The calling thread.                                                     *)

Spawn ==
    /\ main = "spawn"
    /\ IF tid < ThreadCount
       THEN Goto(tid, "loop") /\ tid' = tid + 1 /\ UNCHANGED main
       ELSE main' = "monitor" /\ UNCHANGED <<tid, worker>>
    /\ UNCHANGED <<winning, stop_requested, stop, total_hashes, result, hashes,
                   nonce64, local_hashes>>

\* while (!stop)
Monitor ==
    /\ main = "monitor"
    /\ main' = IF stop THEN "join" ELSE "poll"
    /\ UNCHANGED <<winning, stop_requested, stop, total_hashes, result, tid, hashes,
                   workerVars>>

PollAbort ==
    /\ main = "poll"
    /\ stop_requested
    /\ stop' = TRUE
    /\ result' = [result EXCEPT !.aborted = TRUE]
    /\ main' = "join"
    /\ UNCHANGED <<winning, stop_requested, total_hashes, tid, hashes, workerVars>>

PollContinue ==
    /\ main = "poll"
    /\ ~stop_requested
    /\ main' = "asleep"
    /\ UNCHANGED <<winning, stop_requested, stop, total_hashes, result, tid, hashes,
                   workerVars>>

\* sleep_for(report_interval_ms), then the progress line's reading.
ReadTotal ==
    /\ main = "asleep"
    /\ hashes' = total_hashes
    /\ main' = "compare"
    /\ UNCHANGED <<winning, stop_requested, stop, total_hashes, result, tid, workerVars>>

\* Mutants: the search is given up while a worker may still be on its last
\* nonces; or only at a count that is never reached.
CompareTotalEarly ==
    /\ main = "compare"
    /\ IF hashes >= MaxNonce - ThreadCount
       THEN stop' = TRUE /\ main' = "join"
       ELSE main' = "monitor" /\ UNCHANGED stop
    /\ UNCHANGED <<winning, stop_requested, total_hashes, result, tid, hashes, workerVars>>

CompareTotalNever ==
    /\ main = "compare"
    /\ IF hashes > NonceCount
       THEN stop' = TRUE /\ main' = "join"
       ELSE main' = "monitor" /\ UNCHANGED stop
    /\ UNCHANGED <<winning, stop_requested, total_hashes, result, tid, hashes, workerVars>>

CompareTotal ==
    /\ main = "compare"
    /\ IF hashes >= MaxNonce
       THEN stop' = TRUE /\ main' = "join"
       ELSE main' = "monitor" /\ UNCHANGED stop
    /\ UNCHANGED <<winning, stop_requested, total_hashes, result, tid, hashes, workerVars>>

\* Every thread is joined, then the result is completed and returned.
Join ==
    /\ main = "join"
    /\ \A t \in Workers : worker[t] = "ended"
    /\ result' = [result EXCEPT !.hashes_tried = total_hashes]
    /\ main' = "returned"
    /\ UNCHANGED <<winning, stop_requested, stop, total_hashes, tid, hashes, workerVars>>

MainStep ==
    \/ Spawn
    \/ Monitor
    \/ PollAbort
    \/ PollContinue
    \/ ReadTotal
    \/ CompareTotal
    \/ Join

-----------------------------------------------------------------------------
Next ==
    \/ RequestStop
    \/ MainStep
    \/ \E t \in Workers : WorkerStep(t)

(***************************************************************************)
(* The operating system runs every thread that can run.  Nobody has to     *)
(* press Ctrl+C.                                                           *)
(***************************************************************************)
Fairness ==
    /\ WF_vars(MainStep)
    /\ \A t \in Workers : WF_vars(WorkerStep(t))

Spec == Init /\ [][Next]_vars /\ Fairness

-----------------------------------------------------------------------------
(* Properties.                                                             *)

\* Every variable holds a value of its C++ type.
TypeOK ==
    /\ winning \in SUBSET Nonces
    /\ stop_requested \in BOOLEAN
    /\ stop \in BOOLEAN
    /\ total_hashes \in Nat
    /\ result \in [found : BOOLEAN, aborted : BOOLEAN, nonce : Nonces, hashes_tried : Nat]
    /\ main \in {"spawn", "monitor", "poll", "asleep", "compare", "join", "returned"}
    /\ tid \in 0 .. ThreadCount
    /\ hashes \in Nat
    /\ worker \in [Workers -> {"unborn", "loop", "check_stop", "hash", "claim",
                               "publish", "report", "ended"}]
    /\ nonce64 \in [Workers -> Nat]
    /\ local_hashes \in [Workers -> Nat]

\* Worker t's nonces in order, those it has hashed, and all those that
\* total_hashes stands for.
Nth(t, k) == t + k * ThreadCount
Tried(t) == {Nth(t, k) : k \in 0 .. (local_hashes[t] - 1)}
Counted == UNION {Tried(t) : t \in {u \in Workers : worker[u] = "ended"}}

\* The answer published is a nonce that meets the difficulty, and the worker
\* that published it is the only one that ever passes the compare-exchange:
\* while it has not yet written, no answer is there and no other may write.
SoundWinner ==
    /\ result.found => result.nonce \in winning
    /\ \A t \in Workers : worker[t] = "publish" =>
            /\ stop
            /\ nonce64[t] \in winning
            /\ ~result.found
            /\ \A u \in Workers : worker[u] = "publish" => u = t

\* Two workers may both find an answer: the first one published stays.
FirstResultKept ==
    [][result.found => result'.found /\ result'.nonce = result.nonce]_vars

\* total_hashes, the progress line's figure and the one the threshold is
\* compared with, counts every nonce the ended workers tried, each once; the
\* hashes_tried returned counts those of all workers.  A hash that leaves the
\* loop, because it meets the difficulty, is among those its worker counts.
HashesAccounted ==
    /\ \A t \in Workers : worker[t] \in {"claim", "publish"} => nonce64[t] \in Tried(t)
    /\ total_hashes = Cardinality(Counted)
    /\ main = "returned" =>
            result.hashes_tried = Cardinality(UNION {Tried(t) : t \in Workers})

\* An answer some worker computed is lost only to a stop request: when mine()
\* returns without one, and not aborted, no worker has hashed a winner, also
\* not one whose compare-exchange came second.  It needs SharesOfTwo: the
\* monitor does not wait for the last one of workers with a nonce each.
AnswerNotLost ==
    main = "returned" /\ ~result.found /\ ~result.aborted =>
        \A t \in Workers : Tried(t) \cap winning = {}

\* Whatever order the threads run in, mine() returns: on an answer, on an
\* exhausted nonce space and on a stop request alike.
Termination == <>(main = "returned")

\* mine() implements its contract: what it returns is a result that MineSpec
\* allows for these winners and this stop flag, and it does return.
MS == INSTANCE MineSpec WITH
        outcome <- IF main = "returned"
                   THEN {[found |-> result.found, aborted |-> result.aborted,
                          nonce |-> result.nonce]}
                   ELSE {}
ImplementsMineSpec == MS!SpecSpec

\* What miner.cpp:88 logs of such a result, "No valid nonce found in 32-bit
\* nonce space": that no nonce meets the difficulty.
EmptyMeansNone ==
    main = "returned" /\ ~result.found /\ ~result.aborted => winning = {}
=============================================================================
