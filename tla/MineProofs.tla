----------------------------- MODULE MineProofs -----------------------------
(***************************************************************************)
(* Theorems about mine(), for every number of threads and nonces and every *)
(* set of winning nonces: the result is sound and stays; the hash count is *)
(* exact, no answer is lost and an empty result means what MiningResults   *)
(* says.                                                                   *)
(***************************************************************************)
EXTENDS Mine, FiniteSetTheorems, TLAPS

-----------------------------------------------------------------------------
(* The inductive invariant of the result: what each position of a worker   *)
(* says of its nonce, and who may have raised `stop'.                      *)

WorkerInv ==
    \A t \in Workers :
        /\ worker[t] \in {"check_stop", "hash"} => nonce64[t] \in Nonces
        /\ worker[t] \in {"claim", "publish"} => nonce64[t] \in winning

FoundStops == result.found => stop

ResultInv == TypeOK /\ WorkerInv /\ FoundStops /\ SoundWinner

\* mine() starts with nobody at work and no result.
LEMMA ResultInit == Init => ResultInv
<1> SUFFICES ASSUME Init PROVE ResultInv
    OBVIOUS
<1>1. 0 \in Nonces /\ Workers \subseteq Nat
    BY MineAssumption DEF Nonces, Workers
<1>2. TypeOK
    <2>1. nonce64 \in [Workers -> Nat] /\ local_hashes \in [Workers -> Nat]
        BY <1>1 DEF Init
    <2>2. result \in [found : BOOLEAN, aborted : BOOLEAN, nonce : Nonces, hashes_tried : Nat]
        BY <1>1 DEF Init
    <2>3. worker \in [Workers -> {"unborn", "loop", "check_stop", "hash", "claim",
                                  "publish", "report", "ended"}]
        BY DEF Init
    <2>4. tid \in 0 .. ThreadCount /\ hashes \in Nat /\ total_hashes \in Nat
        BY MineAssumption DEF Init
    <2>5. /\ winning \in SUBSET Nonces
          /\ stop_requested \in BOOLEAN
          /\ stop \in BOOLEAN
          /\ main \in {"spawn", "monitor", "poll", "asleep", "compare", "join", "returned"}
        BY DEF Init
    <2> QED
        BY <2>1, <2>2, <2>3, <2>4, <2>5 DEF TypeOK
<1>3. WorkerInv /\ FoundStops /\ SoundWinner
    BY DEF Init, WorkerInv, FoundStops, SoundWinner
<1> QED
    BY <1>2, <1>3 DEF ResultInv

\* Every step of a worker, of the monitor and of the signal handler keeps it.
LEMMA ResultStep == ResultInv /\ [Next]_vars => ResultInv'
<1> SUFFICES ASSUME ResultInv, [Next]_vars PROVE ResultInv'
    OBVIOUS
<1> USE MineAssumption DEF ResultInv
<1> USE DEF TypeOK, WorkerInv, FoundStops, SoundWinner, mainVars, workerVars
<1>1. CASE RequestStop
    BY <1>1 DEF RequestStop
<1>2. ASSUME NEW t \in Workers, LoopDone(t) PROVE ResultInv'
    BY <1>2 DEF LoopDone, Goto
<1>3. ASSUME NEW t \in Workers, CheckRequested(t) PROVE ResultInv'
    BY <1>3 DEF CheckRequested, Goto, MaxNonce, Nonces
<1>4. ASSUME NEW t \in Workers, CheckStop(t) PROVE ResultInv'
    BY <1>4 DEF CheckStop, Goto
<1>5. ASSUME NEW t \in Workers, HashNonce(t) PROVE ResultInv'
    <2>1. nonce64[t] + ThreadCount \in Nat
        OBVIOUS
    <2>2. CASE MeetsDifficulty(nonce64[t])
        BY <1>5, <2>2 DEF HashNonce, Goto, MeetsDifficulty
    <2>3. CASE ~MeetsDifficulty(nonce64[t])
        BY <1>5, <2>1, <2>3 DEF HashNonce, Goto, MeetsDifficulty
    <2> QED
        BY <2>2, <2>3
<1>6. ASSUME NEW t \in Workers, Claim(t) PROVE ResultInv'
    BY <1>6 DEF Claim, Goto
<1>7. ASSUME NEW t \in Workers, Publish(t) PROVE ResultInv'
    BY <1>7 DEF Publish, Goto
<1>8. ASSUME NEW t \in Workers, Report(t) PROVE ResultInv'
    BY <1>8 DEF Report, Goto
<1>9. CASE Spawn
    <2>1. CASE tid < ThreadCount
        <3>1. tid \in Workers /\ tid + 1 \in 0 .. ThreadCount
            BY <2>1 DEF Workers
        <3> QED
            BY <1>9, <2>1, <3>1 DEF Spawn, Goto
    <2>2. CASE ~(tid < ThreadCount)
        BY <1>9, <2>2 DEF Spawn
    <2> QED
        BY <2>1, <2>2
<1>10. CASE Monitor
    BY <1>10 DEF Monitor
<1>11. CASE PollAbort
    BY <1>11 DEF PollAbort
<1>12. CASE PollContinue
    BY <1>12 DEF PollContinue
<1>13. CASE ReadTotal
    BY <1>13 DEF ReadTotal
<1>14. CASE CompareTotal
    BY <1>14 DEF CompareTotal
<1>15. CASE Join
    BY <1>15 DEF Join
<1>16. CASE UNCHANGED vars
    BY <1>16 DEF vars
<1> QED
    BY <1>1, <1>2, <1>3, <1>4, <1>5, <1>6, <1>7, <1>8, <1>9, <1>10, <1>11, <1>12,
       <1>13, <1>14, <1>15, <1>16
    DEF Next, WorkerStep, MainStep

\* The invariant the theorems below rest on.
THEOREM ResultInvariant == Spec => []ResultInv
<1> QED
    BY ResultInit, ResultStep, PTL DEF Spec

-----------------------------------------------------------------------------

\* Every variable of mine() always holds a value of its type; in particular the
\* nonce published is one of the 32-bit nonces.
THEOREM TypeCorrect == Spec => []TypeOK
<1>1. ResultInv => TypeOK
    BY DEF ResultInv
<1> QED
    BY <1>1, ResultInvariant, PTL

\* The published nonce meets the difficulty, and at most one worker ever passes
\* the compare-exchange on `stop'.
THEOREM WinnerIsSound == Spec => []SoundWinner
<1>1. ResultInv => SoundWinner
    BY DEF ResultInv
<1> QED
    BY <1>1, ResultInvariant, PTL

\* The first result published is the one returned: no later step of another
\* worker, or of the monitor, replaces it.
THEOREM FirstResultStays == Spec => FirstResultKept
<1>1. ResultInv /\ [Next]_vars =>
          [result.found => result'.found /\ result'.nonce = result.nonce]_vars
    <2> SUFFICES ASSUME ResultInv, Next, result.found
                 PROVE  result'.found /\ result'.nonce = result.nonce
        OBVIOUS
    <2> USE DEF ResultInv, TypeOK, SoundWinner, mainVars, workerVars
    <2>1. CASE RequestStop
        BY <2>1 DEF RequestStop
    <2>2. ASSUME NEW t \in Workers, WorkerStep(t)
          PROVE  result'.found /\ result'.nonce = result.nonce
        <3>1. ~Publish(t)
            BY DEF Publish
        <3> QED
            BY <2>2, <3>1 DEF WorkerStep, LoopDone, CheckRequested, CheckStop, HashNonce,
                              Claim, Report
    <2>3. CASE MainStep
        BY <2>3 DEF MainStep, Spawn, Monitor, PollAbort, PollContinue, ReadTotal,
                    CompareTotal, Join
    <2> QED
        BY <2>1, <2>2, <2>3 DEF Next
<1> QED
    BY <1>1, ResultInvariant, PTL DEF Spec, FirstResultKept

-----------------------------------------------------------------------------
(* The workers' shares of the nonce space.                                 *)

\* The nonces of a worker are as far from each other as there are workers.
LEMMA NthType ==
    ASSUME NEW t \in Workers, NEW k \in Nat
    PROVE  Nth(t, k) \in Nat /\ t <= Nth(t, k) /\ Nth(t, k + 1) = Nth(t, k) + ThreadCount
BY MineAssumption DEF Nth, Workers

\* A later nonce of a worker is at least a stride higher.
LEMMA NthMonotone ==
    ASSUME NEW t \in Workers, NEW k \in Nat, NEW j \in Nat, k < j
    PROVE  Nth(t, k) + ThreadCount <= Nth(t, j)
<1>1. PICK d \in Nat : j = k + 1 + d
    BY j - k - 1 \in Nat, j = k + 1 + (j - k - 1)
<1>2. Nth(t, j) = Nth(t, k) + ThreadCount + d * ThreadCount
    BY <1>1, MineAssumption DEF Nth, Workers
<1>3. d * ThreadCount \in Nat
    BY MineAssumption
<1> QED
    BY <1>2, <1>3, NthType, MineAssumption

\* No nonce is in two shares, or twice in one.
LEMMA NthInjective ==
    ASSUME NEW t \in Workers, NEW u \in Workers, NEW k \in Nat, NEW j \in Nat,
           Nth(t, k) = Nth(u, j)
    PROVE  t = u /\ k = j
<1>1. ASSUME NEW a \in Workers, NEW b \in Workers, NEW m \in Nat, NEW n \in Nat, m < n
      PROVE  Nth(a, m) # Nth(b, n)
    <2>1. Nth(b, m) + ThreadCount <= Nth(b, n)
        BY <1>1, NthMonotone
    <2>2. Nth(a, m) - a = Nth(b, m) - b
        BY MineAssumption DEF Nth, Workers
    <2> QED
        BY <2>1, <2>2, NthType, MineAssumption DEF Workers
<1>2. k = j
    BY <1>1
<1> QED
    BY <1>2, MineAssumption DEF Nth, Workers

\* Every nonce is in some share.
LEMMA NthCovers ==
    ASSUME NEW n \in Nonces
    PROVE  \E t \in Workers, k \in Nat : n = Nth(t, k)
<1>1. n % ThreadCount \in Workers /\ n \div ThreadCount \in Nat
    BY MineAssumption DEF Nonces, Workers
<1>2. n = Nth(n % ThreadCount, n \div ThreadCount)
    BY MineAssumption DEF Nonces, Nth
<1> QED
    BY <1>1, <1>2

\* There are as many nonces as the counter has values.
LEMMA NoncesFinite == IsFiniteSet(Nonces) /\ Cardinality(Nonces) = NonceCount
BY FS_Interval, MineAssumption DEF Nonces

\* A set of nonces that misses two of them falls short of the threshold.
LEMMA TwoMissing ==
    ASSUME NEW S \in SUBSET Nonces,
           NEW a \in Nonces \ S, NEW b \in Nonces \ S, a # b
    PROVE  Cardinality(S) < MaxNonce
<1>1. IsFiniteSet(S) /\ Cardinality(S) \in Nat
    BY NoncesFinite, FS_Subset, FS_CardinalityType
<1>2. IsFiniteSet(S \cup {a}) /\ Cardinality(S \cup {a}) = Cardinality(S) + 1
    BY <1>1, FS_AddElement
<1>3. Cardinality((S \cup {a}) \cup {b}) = Cardinality(S) + 2
    <2>1. b \notin S \cup {a}
        OBVIOUS
    <2>2. Cardinality((S \cup {a}) \cup {b}) = Cardinality(S \cup {a}) + 1
        BY <1>2, <2>1, FS_AddElement
    <2> QED
        BY <1>1, <1>2, <2>2
<1>4. Cardinality((S \cup {a}) \cup {b}) <= NonceCount
    <2>1. (S \cup {a}) \cup {b} \in SUBSET Nonces
        OBVIOUS
    <2> QED
        BY <2>1, NoncesFinite, FS_Subset
<1> QED
    BY <1>1, <1>3, <1>4, MineAssumption DEF MaxNonce

-----------------------------------------------------------------------------
(* The inductive invariant.                                                *)

\* A worker's count says where in its share it is: it has tried all nonces
\* before nonce64, none of which wins, or the last it tried was a winner.
Missed(t) ==
    /\ nonce64[t] = Nth(t, local_hashes[t])
    /\ Tried(t) \cap winning = {}
Hit(t) ==
    /\ local_hashes[t] > 0
    /\ nonce64[t] = Nth(t, local_hashes[t] - 1)
    /\ nonce64[t] \in winning

WorkInv ==
    \A t \in Workers :
        /\ worker[t] \in {"unborn", "loop", "check_stop", "hash"} => Missed(t)
        /\ worker[t] \in {"claim", "publish"} => Hit(t)
        /\ worker[t] \in {"report", "ended"} => Missed(t) \/ Hit(t)
        /\ Tried(t) \subseteq Nonces
        /\ IsFiniteSet(Tried(t))
        /\ Cardinality(Tried(t)) = local_hashes[t]

CountInv == IsFiniteSet(Counted) /\ total_hashes = Cardinality(Counted)

\* Why the search is over.
Answered == result.found \/ \E u \in Workers : worker[u] = "publish"
Exhausted == MaxNonce <= hashes

\* The only winner is the only nonce of a worker: the threshold was reached
\* while that worker was at it.
OnlyWinner(t) == ~SharesOfTwo /\ winning = {nonce64[t]} /\ nonce64[t] \in LastNonces

StopInv ==
    /\ result.aborted => stop_requested /\ stop
    /\ stop => Answered \/ result.aborted \/ Exhausted
    /\ hashes <= total_hashes
    /\ ~result.found => result.nonce = 0
    /\ \A t \in Workers : worker[t] \in {"report", "ended"} =>
            /\ Hit(t) => Answered \/ result.aborted \/ OnlyWinner(t)
            /\ Missed(t) /\ nonce64[t] <= MaxNonce =>
                    stop_requested \/ Answered \/ ~SharesOfTwo

MainInv ==
    /\ main = "spawn" => \A t \in Workers : tid <= t => worker[t] = "unborn"
    /\ main \in {"join", "returned"} => stop
    /\ main = "returned" =>
            /\ \A t \in Workers : worker[t] = "ended"
            /\ result.hashes_tried = total_hashes

SearchInv == ResultInv /\ WorkInv /\ CountInv /\ StopInv /\ MainInv

-----------------------------------------------------------------------------
(* Consequences of the invariant.                                          *)

\* What a worker has tried, one nonce by one.
LEMMA TriedMember ==
    ASSUME TypeOK, NEW t \in Workers, NEW n
    PROVE  n \in Tried(t) <=> \E k \in Nat : k < local_hashes[t] /\ n = Nth(t, k)
<1>1. local_hashes[t] \in Nat
    BY DEF TypeOK
<1> QED
    BY <1>1 DEF Tried

\* What an unended worker still has to count.
LEMMA UncountedStart ==
    ASSUME TypeOK, NEW t \in Workers, worker[t] # "ended", NEW k \in Nat
    PROVE  Nth(t, k) \notin Counted
<1> SUFFICES ASSUME NEW u \in Workers, worker[u] = "ended", Nth(t, k) \in Tried(u)
             PROVE  FALSE
    BY DEF Counted
<1>1. PICK j \in Nat : Nth(t, k) = Nth(u, j)
    BY TriedMember
<1> QED
    BY <1>1, NthInjective

\* When the monitor's threshold is reached, a worker that has not ended has
\* just one nonce, and all the others are counted.
LEMMA ExhaustedButOne ==
    ASSUME TypeOK, WorkInv, CountInv, MaxNonce <= total_hashes,
           NEW t \in Workers, worker[t] # "ended"
    PROVE  /\ ~SharesOfTwo
           /\ t \in LastNonces
           /\ Nonces \ Counted = {t}
<1>1. Nth(t, 0) = t /\ Nth(t, 1) = t + ThreadCount /\ t \in Nonces
    BY MineAssumption DEF Nth, Workers, Nonces
<1>2. t \notin Counted /\ t + ThreadCount \notin Counted
    BY <1>1, UncountedStart
<1>3. Counted \in SUBSET Nonces
    BY DEF Counted, WorkInv
<1>4. ~(Cardinality(Counted) < MaxNonce)
    <2>1. Cardinality(Counted) \in Nat /\ total_hashes = Cardinality(Counted)
        BY DEF CountInv, TypeOK
    <2> QED
        BY <2>1, MineAssumption DEF MaxNonce
<1>5. ASSUME NEW n \in Nonces, n \notin Counted PROVE n = t
    BY <1>1, <1>2, <1>3, <1>4, <1>5, TwoMissing
<1>6. t + ThreadCount \notin Nonces
    BY <1>1, <1>2, <1>5, MineAssumption DEF Workers
<1>7. t \in LastNonces /\ ~SharesOfTwo
    BY <1>1, <1>6, MineAssumption DEF LastNonces, SharesOfTwo, Nonces, Workers
<1> QED
    BY <1>1, <1>2, <1>5, <1>7

-----------------------------------------------------------------------------
(* The initial states, and the steps.                                      *)

\* The invariant holds before the workers start.
LEMMA SearchInit == Init => SearchInv
<1> SUFFICES ASSUME Init PROVE SearchInv
    OBVIOUS
<1>1. ResultInv
    BY ResultInit
<1>2. \A t \in Workers : Tried(t) = {}
    BY DEF Init, Tried
<1>3. WorkInv
    <2> SUFFICES ASSUME NEW t \in Workers
                 PROVE  Missed(t) /\ local_hashes[t] = 0 /\ worker[t] = "unborn"
        BY <1>2, FS_EmptySet DEF WorkInv
    <2> QED
        BY <1>2, MineAssumption DEF Init, Missed, Nth, Workers
<1>4. CountInv
    <2>1. Counted = {}
        BY DEF Init, Counted
    <2> QED
        BY <2>1, FS_EmptySet DEF Init, CountInv
<1>5. StopInv /\ MainInv
    BY DEF Init, StopInv, MainInv
<1> QED
    BY <1>1, <1>3, <1>4, <1>5 DEF SearchInv

\* Steps that leave the workers' loops where they are.
LEMMA SameWork ==
    ASSUME UNCHANGED <<winning, nonce64, local_hashes>>
    PROVE  \A t \in Workers : /\ Tried(t)' = Tried(t)
                              /\ Missed(t)' = Missed(t)
                              /\ Hit(t)' = Hit(t)
                              /\ OnlyWinner(t)' = OnlyWinner(t)
BY DEF Tried, Missed, Hit, OnlyWinner

\* The one step that moves a worker in its share.
LEMMA HashWork ==
    ASSUME ResultInv, WorkInv, NEW t \in Workers, HashNonce(t)
    PROVE  /\ Tried(t)' = Tried(t) \cup {nonce64[t]}
           /\ nonce64[t] \in Nonces \ Tried(t)
           /\ IF nonce64[t] \in winning THEN Hit(t)' ELSE Missed(t)'
           /\ \A u \in Workers \ {t} : /\ Tried(u)' = Tried(u)
                                       /\ Missed(u)' = Missed(u)
                                       /\ Hit(u)' = Hit(u)
                                       /\ OnlyWinner(u)' = OnlyWinner(u)
<1> USE DEF ResultInv
<1> DEFINE k == local_hashes[t]
<1>1. k \in Nat /\ local_hashes'[t] = k + 1 /\ winning' = winning
    BY DEF TypeOK, HashNonce
<1>2. nonce64[t] = Nth(t, k) /\ nonce64[t] \in Nonces /\ Tried(t) \cap winning = {}
    BY DEF WorkInv, Missed, HashNonce, WorkerInv
<1>3. Tried(t)' = Tried(t) \cup {Nth(t, k)}
    <2>1. 0 .. (local_hashes'[t] - 1) = (0 .. (k - 1)) \cup {k}
        BY <1>1
    <2> QED
        BY <2>1 DEF Tried
<1>4. Nth(t, k) \notin Tried(t)
    BY <1>1, NthInjective DEF Tried
<1>5. IF nonce64[t] \in winning THEN Hit(t)' ELSE Missed(t)'
    <2>1. CASE nonce64[t] \in winning
        <3>1. nonce64'[t] = nonce64[t] /\ local_hashes'[t] - 1 = k /\ local_hashes'[t] > 0
            BY <1>1, <2>1 DEF HashNonce, MeetsDifficulty
        <3> QED
            BY <1>1, <1>2, <2>1, <3>1 DEF Hit
    <2>2. CASE nonce64[t] \notin winning
        <3>1. nonce64'[t] = nonce64[t] + ThreadCount
            BY <2>2 DEF HashNonce, MeetsDifficulty, TypeOK
        <3>2. nonce64'[t] = Nth(t, k + 1)
            BY <1>1, <1>2, <3>1, NthType
        <3> QED
            BY <1>1, <1>2, <1>3, <2>2, <3>2 DEF Missed
    <2> QED
        BY <2>1, <2>2
<1>6. ASSUME NEW u \in Workers \ {t}
      PROVE  /\ Tried(u)' = Tried(u)
             /\ Missed(u)' = Missed(u)
             /\ Hit(u)' = Hit(u)
             /\ OnlyWinner(u)' = OnlyWinner(u)
    <2>1. local_hashes'[u] = local_hashes[u] /\ nonce64'[u] = nonce64[u]
        BY DEF HashNonce, TypeOK
    <2> QED
        BY <1>1, <2>1 DEF Tried, Missed, Hit, OnlyWinner
<1> QED
    BY <1>2, <1>3, <1>4, <1>5, <1>6

\* Spawning starts a worker that had not been started.
LEMMA SpawnStarts ==
    ASSUME TypeOK, MainInv, Spawn, NEW u \in Workers
    PROVE  \/ worker'[u] = worker[u]
           \/ (worker[u] = "unborn" /\ worker'[u] = "loop")
<1>1. CASE tid < ThreadCount
    <2>1. tid \in Workers /\ tid <= tid
        BY <1>1, MineAssumption DEF TypeOK, Workers
    <2>2. worker[tid] = "unborn" /\ worker' = [worker EXCEPT ![tid] = "loop"]
        BY <1>1, <2>1 DEF Spawn, MainInv, Goto
    <2> QED
        BY <2>1, <2>2 DEF TypeOK
<1>2. CASE ~(tid < ThreadCount)
    BY <1>2 DEF Spawn
<1> QED
    BY <1>1, <1>2

\* No step breaks what a worker has tried and where it stands.
LEMMA WorkStep == SearchInv /\ [Next]_vars => WorkInv'
<1> SUFFICES ASSUME SearchInv, [Next]_vars PROVE WorkInv'
    OBVIOUS
<1> USE DEF SearchInv, ResultInv
<1>1. ASSUME UNCHANGED <<winning, nonce64, local_hashes, worker>> PROVE WorkInv'
    BY <1>1, SameWork DEF WorkInv
<1>2. ASSUME NEW t \in Workers, WorkerStep(t), ~HashNonce(t) PROVE WorkInv'
    <2>1. UNCHANGED <<winning, nonce64, local_hashes>>
        BY <1>2 DEF WorkerStep, LoopDone, CheckRequested, CheckStop, Claim, Publish, Report
    <2>2. \A u \in Workers \ {t} : worker'[u] = worker[u]
        BY <1>2 DEF WorkerStep, LoopDone, CheckRequested, CheckStop, Claim, Publish, Report,
                    Goto, TypeOK
    <2>3. \/ worker[t] \in {"loop", "check_stop"}
                /\ worker'[t] \in {"check_stop", "hash", "report"}
          \/ worker[t] \in {"claim", "publish"} /\ worker'[t] \in {"publish", "report"}
          \/ worker[t] = "report" /\ worker'[t] = "ended"
        BY <1>2 DEF WorkerStep, LoopDone, CheckRequested, CheckStop, Claim, Publish, Report,
                    Goto, TypeOK
    <2> QED
        BY <2>1, <2>2, <2>3, SameWork DEF WorkInv
<1>3. ASSUME NEW t \in Workers, HashNonce(t) PROVE WorkInv'
    <2>1. /\ IsFiniteSet(Tried(t)')
          /\ Cardinality(Tried(t)') = local_hashes'[t]
          /\ Tried(t)' \subseteq Nonces
        <3>1. /\ IsFiniteSet(Tried(t) \cup {nonce64[t]})
              /\ Cardinality(Tried(t) \cup {nonce64[t]}) = local_hashes[t] + 1
            BY <1>3, HashWork, FS_AddElement DEF WorkInv
        <3>2. local_hashes'[t] = local_hashes[t] + 1
            BY <1>3 DEF HashNonce, TypeOK
        <3> QED
            BY <1>3, <3>1, <3>2, HashWork DEF WorkInv
    <2>2. worker'[t] = IF nonce64[t] \in winning THEN "claim" ELSE "loop"
        BY <1>3 DEF HashNonce, Goto, MeetsDifficulty, TypeOK
    <2>3. \A u \in Workers \ {t} : /\ worker'[u] = worker[u]
                                   /\ local_hashes'[u] = local_hashes[u]
        BY <1>3 DEF HashNonce, Goto, TypeOK
    <2>4. ASSUME NEW u \in Workers \ {t}
          PROVE  /\ Tried(u)' = Tried(u)
                 /\ Missed(u)' = Missed(u)
                 /\ Hit(u)' = Hit(u)
        BY <1>3, HashWork
    <2>5. IF nonce64[t] \in winning THEN Hit(t)' ELSE Missed(t)'
        BY <1>3, HashWork
    <2> QED
        BY <2>1, <2>2, <2>3, <2>4, <2>5 DEF WorkInv
<1>4. CASE Spawn
    <2>1. UNCHANGED <<winning, nonce64, local_hashes>>
        BY <1>4 DEF Spawn
    <2>2. \A u \in Workers : \/ worker'[u] = worker[u]
                              \/ (worker[u] = "unborn" /\ worker'[u] = "loop")
        BY <1>4, SpawnStarts
    <2> QED
        BY <2>1, <2>2, SameWork DEF WorkInv
<1>5. CASE RequestStop
    BY <1>1, <1>5 DEF RequestStop, workerVars
<1>6. CASE MainStep /\ ~Spawn
    BY <1>1, <1>6 DEF MainStep, Monitor, PollAbort, PollContinue, ReadTotal, CompareTotal,
                      Join, workerVars
<1>7. CASE UNCHANGED vars
    BY <1>1, <1>7 DEF vars, workerVars
<1> QED
    BY <1>2, <1>3, <1>4, <1>5, <1>6, <1>7 DEF Next

\* total_hashes grows by exactly the nonces the ending worker tried.
LEMMA CountStep == SearchInv /\ [Next]_vars => CountInv'
<1> SUFFICES ASSUME SearchInv, [Next]_vars PROVE CountInv'
    OBVIOUS
<1> USE DEF SearchInv, ResultInv
<1>1. ASSUME UNCHANGED total_hashes,
             \A u \in Workers : (worker'[u] = "ended") = (worker[u] = "ended"),
             \A u \in Workers : worker[u] = "ended" => Tried(u)' = Tried(u)
      PROVE  CountInv'
    <2>1. Counted' = Counted
        BY <1>1 DEF Counted
    <2> QED
        BY <1>1, <2>1 DEF CountInv
<1>2. ASSUME NEW t \in Workers, Report(t) PROVE CountInv'
    <2>1. \A u \in Workers : Tried(u)' = Tried(u)
        BY <1>2, SameWork DEF Report
    <2>2. \A u \in Workers : (worker'[u] = "ended") = (u = t \/ worker[u] = "ended")
        BY <1>2 DEF Report, Goto, TypeOK
    <2>3. Counted' = Counted \cup Tried(t)
        BY <2>1, <2>2 DEF Counted
    <2>4. Counted \cap Tried(t) = {}
        <3> SUFFICES ASSUME NEW n \in Tried(t), n \in Counted PROVE FALSE
            OBVIOUS
        <3>1. PICK k \in Nat : n = Nth(t, k)
            BY TriedMember
        <3>2. worker[t] # "ended"
            BY <1>2 DEF Report
        <3> QED
            BY <3>1, <3>2, UncountedStart
    <2>5. IsFiniteSet(Tried(t)) /\ Cardinality(Tried(t)) = local_hashes[t]
        BY DEF WorkInv
    <2>6. IsFiniteSet(Counted) /\ Cardinality(Counted) = total_hashes
        BY DEF CountInv
    <2>7. /\ IsFiniteSet(Counted \cup Tried(t))
          /\ Cardinality(Counted \cup Tried(t)) = total_hashes + local_hashes[t] - 0
        BY <2>4, <2>5, <2>6, FS_Union, FS_EmptySet
    <2>8. total_hashes' = total_hashes + local_hashes[t] - 0
        BY <1>2 DEF Report, TypeOK
    <2> QED
        BY <2>3, <2>7, <2>8 DEF CountInv
<1>3. ASSUME NEW t \in Workers, WorkerStep(t), ~Report(t), ~HashNonce(t) PROVE CountInv'
    <2>1. UNCHANGED <<winning, nonce64, local_hashes, total_hashes>>
        BY <1>3 DEF WorkerStep, LoopDone, CheckRequested, CheckStop, Claim, Publish
    <2>2. \A u \in Workers : (worker'[u] = "ended") = (worker[u] = "ended")
        BY <1>3 DEF WorkerStep, LoopDone, CheckRequested, CheckStop, Claim, Publish, Goto,
                    TypeOK
    <2> QED
        BY <1>1, <2>1, <2>2, SameWork
<1>4. ASSUME NEW t \in Workers, HashNonce(t) PROVE CountInv'
    <2>1. \A u \in Workers : (worker'[u] = "ended") = (worker[u] = "ended")
        BY <1>4 DEF HashNonce, Goto, TypeOK
    <2>2. ASSUME NEW u \in Workers, worker[u] = "ended" PROVE Tried(u)' = Tried(u)
        <3>1. u # t
            BY <1>4, <2>2 DEF HashNonce
        <3> QED
            BY <1>4, <3>1, HashWork
    <2>3. UNCHANGED total_hashes
        BY <1>4 DEF HashNonce
    <2> QED
        BY <1>1, <2>1, <2>2, <2>3
<1>5. CASE Spawn
    <2>1. UNCHANGED <<winning, nonce64, local_hashes, total_hashes>>
        BY <1>5 DEF Spawn
    <2>2. \A u \in Workers : (worker'[u] = "ended") = (worker[u] = "ended")
        BY <1>5, SpawnStarts
    <2> QED
        BY <1>1, <2>1, <2>2, SameWork
<1>6. ASSUME UNCHANGED <<winning, nonce64, local_hashes, worker, total_hashes>>
      PROVE  CountInv'
    BY <1>1, <1>6, SameWork
<1>7. CASE RequestStop
    BY <1>6, <1>7 DEF RequestStop, workerVars
<1>8. CASE MainStep /\ ~Spawn
    BY <1>6, <1>8 DEF MainStep, Monitor, PollAbort, PollContinue, ReadTotal, CompareTotal,
                      Join, workerVars
<1>9. CASE UNCHANGED vars
    BY <1>6, <1>9 DEF vars, workerVars
<1> QED
    BY <1>2, <1>3, <1>4, <1>5, <1>7, <1>8, <1>9 DEF Next

\* The nonce of a hit is one that was tried.
LEMMA HitIsTried ==
    ASSUME TypeOK, NEW t \in Workers, Hit(t)
    PROVE  nonce64[t] \in Tried(t)
<1>1. local_hashes[t] - 1 \in Nat /\ local_hashes[t] - 1 < local_hashes[t]
    BY DEF TypeOK, Hit
<1> QED
    BY <1>1, TriedMember DEF Hit

\* A worker with a hit has not missed one.
LEMMA MissedOrHit ==
    ASSUME TypeOK, NEW t \in Workers, Missed(t), Hit(t)
    PROVE  FALSE
BY HitIsTried DEF Missed, Hit

\* While a worker is at work, the search can be over because an answer was
\* found, because a stop was requested, or because that worker's only nonce is
\* all that is missing.
LEMMA StopCause ==
    ASSUME SearchInv, stop, NEW t \in Workers, worker[t] # "ended"
    PROVE  \/ Answered
           \/ result.aborted /\ stop_requested
           \/ MaxNonce <= total_hashes /\ ~SharesOfTwo
<1> USE DEF SearchInv, ResultInv
<1>1. ASSUME Exhausted PROVE MaxNonce <= total_hashes /\ ~SharesOfTwo
    <2>1. MaxNonce <= total_hashes
        BY <1>1, MineAssumption DEF Exhausted, StopInv, TypeOK, MaxNonce
    <2> QED
        BY <2>1, ExhaustedButOne
<1> QED
    BY <1>1 DEF StopInv

\* A winner that comes too late, because the threshold was reached without it,
\* is the only one there is.
LEMMA LateWinner ==
    ASSUME SearchInv, MaxNonce <= total_hashes, ~Answered, ~result.aborted,
           NEW t \in Workers, worker[t] = "claim"
    PROVE  OnlyWinner(t)
<1> USE DEF SearchInv, ResultInv
<1>1. ~SharesOfTwo /\ t \in LastNonces /\ Nonces \ Counted = {t}
    BY ExhaustedButOne
<1>2. Hit(t) /\ nonce64[t] \in winning
    BY DEF WorkInv, Hit
<1>3. winning \in SUBSET Nonces /\ nonce64[t] \in Nonces
    BY <1>2 DEF TypeOK
<1>4. nonce64[t] \notin Counted
    <2>1. PICK k \in Nat : nonce64[t] = Nth(t, k)
        BY DEF Hit, TypeOK, WorkInv
    <2> QED
        BY <2>1, UncountedStart
<1>5. nonce64[t] = t
    BY <1>1, <1>3, <1>4
<1>6. ASSUME NEW u \in Workers, worker[u] = "ended" PROVE Tried(u) \cap winning = {}
    <2>1. CASE Missed(u)
        BY <2>1 DEF Missed
    <2>2. CASE Hit(u)
        <3>1. winning = {nonce64[u]}
            BY <1>6, <2>2 DEF StopInv, OnlyWinner
        <3>2. nonce64[t] \in Tried(u)
            BY <1>2, <2>2, <3>1, HitIsTried
        <3> QED
            BY <1>4, <1>6, <3>2 DEF Counted
    <2> QED
        BY <1>6, <2>1, <2>2 DEF WorkInv
<1>7. Counted \cap winning = {}
    BY <1>6 DEF Counted
<1> QED
    BY <1>1, <1>2, <1>3, <1>5, <1>7 DEF OnlyWinner

\* No step stops the search without a reason.
LEMMA StopStep == SearchInv /\ [Next]_vars => StopInv'
<1> SUFFICES ASSUME SearchInv, [Next]_vars PROVE StopInv'
    OBVIOUS
<1> USE DEF SearchInv, ResultInv
<1>1. ASSUME NEW t \in Workers,
             UNCHANGED <<winning, stop_requested, stop, total_hashes, result, hashes,
                         nonce64, local_hashes>>,
             worker' = [worker EXCEPT ![t] = worker'[t]],
             worker[t] # "publish",
             worker'[t] \notin {"report", "ended", "publish"}
      PROVE  StopInv'
    <2>1. Answered' = Answered /\ Exhausted' = Exhausted
        BY <1>1 DEF Answered, Exhausted, TypeOK
    <2>2. \A u \in Workers : worker'[u] \in {"report", "ended"} => worker'[u] = worker[u]
        BY <1>1 DEF TypeOK
    <2> QED
        BY <1>1, <2>1, <2>2, SameWork DEF StopInv
<1>2. ASSUME NEW t \in Workers,
             UNCHANGED <<winning, stop_requested, stop, total_hashes, result, hashes,
                         nonce64, local_hashes>>,
             worker' = [worker EXCEPT ![t] = "report"],
             worker[t] \in {"loop", "check_stop"},
             nonce64[t] <= MaxNonce => stop_requested \/ Answered \/ ~SharesOfTwo
      PROVE  StopInv'
    <2>1. Answered' = Answered /\ Exhausted' = Exhausted
        BY <1>2 DEF Answered, Exhausted, TypeOK
    <2>2. \A u \in Workers \ {t} : worker'[u] = worker[u]
        BY <1>2 DEF TypeOK
    <2>3. Missed(t) /\ ~Hit(t)
        BY <1>2, MissedOrHit DEF WorkInv
    <2> QED
        BY <1>2, <2>1, <2>2, <2>3, SameWork DEF StopInv
<1>3. ASSUME NEW t \in Workers, LoopDone(t) PROVE StopInv'
    <2>1. ~(nonce64[t] <= MaxNonce)
        <3>1. nonce64[t] \in Nat /\ nonce64[t] > MaxNonce
            BY <1>3 DEF LoopDone, TypeOK
        <3>2. MaxNonce \in Int
            BY MineAssumption DEF MaxNonce
        <3> QED
            BY <3>1, <3>2
    <2>2. /\ UNCHANGED <<winning, stop_requested, stop, total_hashes, result, hashes,
                         nonce64, local_hashes>>
          /\ worker' = [worker EXCEPT ![t] = "report"]
          /\ worker[t] \in {"loop", "check_stop"}
        BY <1>3 DEF LoopDone, Goto, mainVars
    <2> QED
        BY <1>2, <2>1, <2>2
<1>4. ASSUME NEW t \in Workers, CheckRequested(t) PROVE StopInv'
    <2>1. CASE stop_requested
        BY <1>2, <1>4, <2>1 DEF CheckRequested, Goto, mainVars
    <2>2. CASE ~stop_requested
        BY <1>1, <1>4, <2>2 DEF CheckRequested, Goto, mainVars, TypeOK
    <2> QED
        BY <2>1, <2>2
<1>5. ASSUME NEW t \in Workers, CheckStop(t) PROVE StopInv'
    <2>1. CASE stop
        <3>1. Answered \/ stop_requested \/ ~SharesOfTwo
            BY <1>5, <2>1, StopCause DEF CheckStop
        <3> QED
            BY <1>2, <1>5, <2>1, <3>1 DEF CheckStop, Goto, mainVars
    <2>2. CASE ~stop
        BY <1>1, <1>5, <2>2 DEF CheckStop, Goto, mainVars, TypeOK
    <2> QED
        BY <2>1, <2>2
<1>6. ASSUME NEW t \in Workers, HashNonce(t) PROVE StopInv'
    <2>1. /\ UNCHANGED <<winning, stop_requested, stop, total_hashes, result, hashes>>
          /\ worker[t] = "hash"
          /\ worker'[t] \in {"claim", "loop"}
          /\ \A u \in Workers \ {t} : /\ worker'[u] = worker[u]
                                      /\ nonce64'[u] = nonce64[u]
        BY <1>6 DEF HashNonce, Goto, mainVars, TypeOK
    <2>2. Answered' = Answered /\ Exhausted' = Exhausted
        BY <2>1 DEF Answered, Exhausted
    <2>3. ASSUME NEW u \in Workers, worker'[u] \in {"report", "ended"}
          PROVE  /\ worker[u] = worker'[u]
                 /\ nonce64'[u] = nonce64[u]
                 /\ Missed(u)' = Missed(u)
                 /\ Hit(u)' = Hit(u)
                 /\ OnlyWinner(u)' = OnlyWinner(u)
        BY <1>6, <2>1, <2>3, HashWork
    <2> QED
        BY <2>1, <2>2, <2>3 DEF StopInv
<1>7. ASSUME NEW t \in Workers, Claim(t) PROVE StopInv'
    <2>1. /\ UNCHANGED <<winning, stop_requested, total_hashes, result, hashes, nonce64,
                         local_hashes>>
          /\ stop'
          /\ worker[t] = "claim"
          /\ worker'[t] = IF stop THEN "report" ELSE "publish"
          /\ \A u \in Workers \ {t} : worker'[u] = worker[u]
        BY <1>7 DEF Claim, Goto, mainVars, TypeOK
    <2>2. CASE stop
        <3>1. Answered' = Answered
            BY <2>1, <2>2 DEF Answered
        <3>2. Answered \/ result.aborted \/ OnlyWinner(t)
            BY <2>1, <2>2, StopCause, LateWinner
        <3>3. Hit(t) /\ ~Missed(t)
            BY <2>1, MissedOrHit DEF WorkInv
        <3>4. Answered' \/ result'.aborted \/ OnlyWinner(t)'
            BY <2>1, <3>1, <3>2, SameWork
        <3>5. /\ result'.aborted => stop_requested' /\ stop'
              /\ stop' => Answered' \/ result'.aborted \/ Exhausted'
              /\ hashes' <= total_hashes'
              /\ ~result'.found => result'.nonce = 0
            BY <2>1, <2>2, <3>1 DEF StopInv, Exhausted
        <3>6. ~Missed(t)'
            BY <2>1, <3>3, SameWork
        <3>7. ASSUME NEW u \in Workers \ {t}, worker'[u] \in {"report", "ended"}
              PROVE  /\ Hit(u)' => Answered' \/ result'.aborted \/ OnlyWinner(u)'
                     /\ Missed(u)' /\ nonce64'[u] <= MaxNonce =>
                            stop_requested' \/ Answered' \/ ~SharesOfTwo
            BY <2>1, <3>1, <3>7, SameWork DEF StopInv
        <3> QED
            BY <3>4, <3>5, <3>6, <3>7 DEF StopInv
    <2>3. CASE ~stop
        <3>1. Answered'
            BY <2>1, <2>3 DEF Answered
        <3>2. ASSUME NEW u \in Workers, worker'[u] \in {"report", "ended"}
              PROVE  worker[u] = worker'[u]
            BY <2>1, <2>3, <3>2
        <3> QED
            BY <2>1, <3>1, <3>2, SameWork DEF StopInv
    <2> QED
        BY <2>2, <2>3
<1>8. ASSUME NEW t \in Workers, Publish(t) PROVE StopInv'
    <2>1. /\ UNCHANGED <<winning, stop_requested, stop, total_hashes, hashes, nonce64,
                         local_hashes>>
          /\ result'.found
          /\ result'.aborted = result.aborted
        BY <1>8 DEF Publish, mainVars, TypeOK
    <2>2. Answered'
        BY <2>1 DEF Answered
    <2> QED
        BY <2>1, <2>2, SameWork DEF StopInv
<1>9. ASSUME NEW t \in Workers, Report(t) PROVE StopInv'
    <2>1. /\ UNCHANGED <<winning, stop_requested, stop, result, hashes, nonce64,
                         local_hashes>>
          /\ total_hashes' = total_hashes + local_hashes[t]
          /\ worker[t] = "report"
          /\ worker'[t] = "ended"
          /\ \A u \in Workers \ {t} : worker'[u] = worker[u]
        BY <1>9 DEF Report, Goto, mainVars, TypeOK
    <2>2. Answered' = Answered /\ Exhausted' = Exhausted
        BY <2>1 DEF Answered, Exhausted
    <2>3. hashes' <= total_hashes'
        BY <2>1 DEF StopInv, TypeOK
    <2>4. \A u \in Workers : worker'[u] \in {"report", "ended"}
                                => worker[u] \in {"report", "ended"}
        BY <2>1
    <2> QED
        BY <2>1, <2>2, <2>3, <2>4, SameWork DEF StopInv
<1>10. CASE Spawn
    <2>1. UNCHANGED <<winning, stop_requested, stop, total_hashes, result, hashes, nonce64,
                      local_hashes>>
        BY <1>10 DEF Spawn
    <2>2. \A u \in Workers : \/ worker'[u] = worker[u]
                             \/ (worker[u] = "unborn" /\ worker'[u] = "loop")
        BY <1>10, SpawnStarts
    <2>3. Answered' = Answered /\ Exhausted' = Exhausted
        BY <2>1, <2>2 DEF Answered, Exhausted
    <2>4. \A u \in Workers : worker'[u] \in {"report", "ended"} => worker[u] = worker'[u]
        BY <2>2
    <2> QED
        BY <2>1, <2>3, <2>4, SameWork DEF StopInv
<1>11. ASSUME UNCHANGED <<winning, total_hashes, workerVars>>,
              stop => stop',
              stop' => stop \/ result'.aborted \/ MaxNonce <= hashes,
              stop_requested => stop_requested',
              result'.found = result.found,
              result'.nonce = result.nonce,
              result.aborted => result'.aborted,
              result'.aborted => result.aborted \/ (stop_requested' /\ stop'),
              hashes <= hashes',
              hashes' <= total_hashes,
              hashes' \in Nat
       PROVE  StopInv'
    <2>1. Answered' = Answered
        BY <1>11 DEF Answered, workerVars
    <2>2. Exhausted => Exhausted'
        BY <1>11, MineAssumption DEF Exhausted, TypeOK, MaxNonce
    <2>3. worker' = worker /\ nonce64' = nonce64 /\ total_hashes' = total_hashes
        BY <1>11 DEF workerVars
    <2>4. \A u \in Workers : /\ Missed(u)' = Missed(u)
                              /\ Hit(u)' = Hit(u)
                              /\ OnlyWinner(u)' = OnlyWinner(u)
        BY <1>11, SameWork DEF workerVars
    <2>5. stop' => Answered \/ result'.aborted \/ Exhausted'
        BY <1>11, <2>2 DEF StopInv, Exhausted
    <2> QED
        BY <1>11, <2>1, <2>3, <2>4, <2>5 DEF StopInv
<1> USE DEF TypeOK, StopInv
<1>12. CASE RequestStop
    BY <1>11, <1>12 DEF RequestStop, mainVars
<1>13. CASE Monitor
    BY <1>11, <1>13 DEF Monitor
<1>14. CASE PollAbort
    BY <1>11, <1>14 DEF PollAbort
<1>15. CASE PollContinue
    BY <1>11, <1>15 DEF PollContinue
<1>16. CASE ReadTotal
    BY <1>11, <1>16 DEF ReadTotal
<1>17. CASE CompareTotal
    BY <1>11, <1>17 DEF CompareTotal
<1>18. CASE Join
    BY <1>11, <1>18 DEF Join
<1>19. CASE UNCHANGED vars
    BY <1>11, <1>19 DEF vars, mainVars
<1> QED
    BY <1>3, <1>4, <1>5, <1>6, <1>7, <1>8, <1>9, <1>10, <1>12, <1>13, <1>14, <1>15,
       <1>16, <1>17, <1>18, <1>19
    DEF Next, WorkerStep, MainStep

\* No step breaks what the caller relies on: it returns after every worker.
LEMMA MainInvStep == SearchInv /\ [Next]_vars => MainInv'
<1> SUFFICES ASSUME SearchInv, [Next]_vars PROVE MainInv'
    OBVIOUS
<1> USE DEF SearchInv, ResultInv
<1>1. ASSUME NEW t \in Workers, WorkerStep(t) PROVE MainInv'
    <2>1. /\ UNCHANGED <<main, tid>>
          /\ stop => stop'
          /\ worker[t] \notin {"unborn", "ended"}
          /\ \A u \in Workers \ {t} : worker'[u] = worker[u]
        <3>1. main' = main /\ tid' = tid /\ (stop => stop')
            BY <1>1 DEF WorkerStep, LoopDone, CheckRequested, CheckStop, HashNonce, Claim,
                        Publish, Report, mainVars
        <3>2. worker[t] \notin {"unborn", "ended"}
            BY <1>1 DEF WorkerStep, LoopDone, CheckRequested, CheckStop, HashNonce, Claim,
                        Publish, Report
        <3>3. \E label : Goto(t, label)
            BY <1>1 DEF WorkerStep, LoopDone, CheckRequested, CheckStop, HashNonce, Claim,
                        Publish, Report
        <3>4. \A u \in Workers \ {t} : worker'[u] = worker[u]
            BY <3>3 DEF Goto, TypeOK
        <3> QED
            BY <3>1, <3>2, <3>4
    <2> QED
        BY <2>1 DEF MainInv
<1>2. CASE Spawn
    <2>1. CASE tid < ThreadCount
        <3>1. worker' = [worker EXCEPT ![tid] = "loop"] /\ tid' = tid + 1 /\ main' = "spawn"
            BY <1>2, <2>1 DEF Spawn, Goto
        <3>2. \A t \in Workers : tid + 1 <= t => tid <= t /\ t # tid
            BY DEF TypeOK, Workers
        <3> QED
            BY <1>2, <3>1, <3>2 DEF Spawn, MainInv, TypeOK
    <2>2. CASE ~(tid < ThreadCount)
        BY <1>2, <2>2 DEF Spawn, MainInv
    <2> QED
        BY <2>1, <2>2
<1>3. CASE RequestStop
    BY <1>3 DEF RequestStop, MainInv, mainVars, workerVars
<1>4. CASE MainStep /\ ~Spawn
    BY <1>4 DEF MainStep, Monitor, PollAbort, PollContinue, ReadTotal, CompareTotal, Join,
                MainInv, workerVars, TypeOK
<1>5. CASE UNCHANGED vars
    BY <1>5 DEF vars, MainInv, mainVars, workerVars
<1> QED
    BY <1>1, <1>2, <1>3, <1>4, <1>5 DEF Next

\* Every step keeps the invariant.
LEMMA SearchStep == SearchInv /\ [Next]_vars => SearchInv'
BY ResultStep, WorkStep, CountStep, StopStep, MainInvStep DEF SearchInv

\* The invariant every theorem below follows from.
THEOREM SearchInvariant == Spec => []SearchInv
BY SearchInit, SearchStep, PTL DEF Spec

-----------------------------------------------------------------------------
(* What mine() returns.                                                    *)

\* What a worker left untried is not counted, also after it has ended.
LEMMA UntriedUncounted ==
    ASSUME TypeOK, NEW t \in Workers, NEW k \in Nat, local_hashes[t] <= k
    PROVE  Nth(t, k) \notin Counted
<1> SUFFICES ASSUME NEW u \in Workers, Nth(t, k) \in Tried(u) PROVE FALSE
    BY DEF Counted
<1>1. PICK j \in Nat : j < local_hashes[u] /\ Nth(t, k) = Nth(u, j)
    BY TriedMember
<1>2. u = t /\ j = k
    BY <1>1, NthInjective
<1> QED
    BY <1>1, <1>2 DEF TypeOK

\* Without an answer and not aborted, mine() returns because the threshold
\* was reached; no nonce that was tried wins, unless it is the only winner and
\* came too late.
LEMMA EmptyMeansExhausted ==
    ASSUME SearchInv, main \in {"join", "returned"}, ~result.found, ~result.aborted,
           \A t \in Workers : worker[t] = "ended"
    PROVE  /\ MaxNonce <= Cardinality(Counted)
           /\ \A t \in Workers : Missed(t) \/ OnlyWinner(t)
<1> USE DEF SearchInv, ResultInv
<1>1. stop /\ ~Answered
    BY DEF MainInv, Answered
<1>2. MaxNonce <= Cardinality(Counted)
    BY <1>1, MineAssumption DEF StopInv, Exhausted, CountInv, TypeOK, MaxNonce
<1> QED
    BY <1>1, <1>2 DEF WorkInv, StopInv

\* The one winner that may be missing is the last nonce of its worker: a stop
\* request leaves it untried, or it was the worker's only one.
LEMMA EmptyIsAllowed ==
    ASSUME SearchInv, main \in {"join", "returned"}, ~result.found, ~result.aborted,
           \A t \in Workers : worker[t] = "ended"
    PROVE  \/ winning = {}
           \/ /\ stop_requested \/ ~SharesOfTwo
              /\ \E n \in LastNonces : winning = {n}
<1> SUFFICES ASSUME NEW n \in winning, \A t \in Workers : Missed(t)
             PROVE  /\ stop_requested \/ ~SharesOfTwo
                    /\ n \in LastNonces /\ winning = {n}
    BY EmptyMeansExhausted DEF OnlyWinner
<1> USE DEF SearchInv, ResultInv
<1>1. winning \in SUBSET Nonces /\ n \in Nonces /\ Counted \in SUBSET Nonces
    BY DEF TypeOK, Counted, WorkInv
<1>2. /\ ~(Cardinality(Counted) < MaxNonce)
      /\ Counted \cap winning = {}
    <2>1. Counted \cap winning = {}
        BY DEF Counted, Missed
    <2> QED
        BY <2>1, EmptyMeansExhausted, MineAssumption DEF CountInv, TypeOK, MaxNonce
<1>3. winning = {n}
    BY <1>1, <1>2, TwoMissing
<1>4. PICK t \in Workers, k \in Nat : n = Nth(t, k)
    BY <1>1, NthCovers
<1>5. local_hashes[t] <= k
    <2> SUFFICES ASSUME k < local_hashes[t] PROVE FALSE
        BY DEF TypeOK
    <2>1. n \in Tried(t)
        BY <1>4, TriedMember
    <2> QED
        BY <2>1 DEF Missed
<1>6. n \in LastNonces
    <2> SUFFICES ASSUME n + ThreadCount <= NonceCount - 1 PROVE FALSE
        BY <1>1, MineAssumption DEF LastNonces, Nonces
    <2>1. n + ThreadCount \in Nonces /\ n + ThreadCount # n
        BY <1>1, MineAssumption DEF Nonces
    <2>2. n + ThreadCount = Nth(t, k + 1)
        BY <1>4, NthType
    <2>3. local_hashes[t] <= k + 1
        BY <1>5 DEF TypeOK
    <2>4. n + ThreadCount \notin Counted
        BY <2>2, <2>3, UntriedUncounted
    <2> QED
        BY <1>1, <1>2, <2>1, <2>4, TwoMissing
<1>7. stop_requested \/ ~SharesOfTwo
    <2>1. nonce64[t] <= n
        <3>1. nonce64[t] = Nth(t, local_hashes[t]) /\ local_hashes[t] \in Nat
            BY DEF Missed, TypeOK
        <3>2. CASE local_hashes[t] = k
            BY <1>4, <3>1, <3>2, NthType
        <3>3. CASE local_hashes[t] < k
            <4>1. Nth(t, local_hashes[t]) + ThreadCount <= Nth(t, k)
                BY <3>1, <3>3, NthMonotone
            <4>2. Nth(t, local_hashes[t]) \in Nat /\ Nth(t, k) \in Nat
                BY <3>1, NthType
            <4> QED
                BY <1>4, <3>1, <4>1, <4>2, MineAssumption
        <3> QED
            BY <1>5, <3>1, <3>2, <3>3
    <2>2. nonce64[t] <= MaxNonce
        BY <1>1, <2>1, MineAssumption DEF MaxNonce, Nonces, TypeOK
    <2>3. ~Answered
        BY DEF Answered
    <2> QED
        BY <2>2, <2>3 DEF StopInv
<1> QED
    BY <1>3, <1>6, <1>7

-----------------------------------------------------------------------------
(* The theorems.                                                           *)

\* total_hashes is the number of nonces the ended workers tried, each counted
\* once, and the hashes_tried returned is that of all workers.
THEOREM HashesAreExact == Spec => []HashesAccounted
<1>1. SearchInv => HashesAccounted
    <2> SUFFICES ASSUME SearchInv PROVE HashesAccounted
        OBVIOUS
    <2>1. ASSUME NEW t \in Workers, worker[t] \in {"claim", "publish"}
          PROVE  nonce64[t] \in Tried(t)
        BY <2>1, HitIsTried DEF SearchInv, ResultInv, WorkInv
    <2>2. ASSUME main = "returned"
          PROVE  result.hashes_tried = Cardinality(UNION {Tried(t) : t \in Workers})
        <3>1. Counted = UNION {Tried(t) : t \in Workers}
            BY <2>2 DEF SearchInv, MainInv, Counted
        <3> QED
            BY <2>2, <3>1 DEF SearchInv, MainInv, CountInv
    <2> QED
        BY <2>1, <2>2 DEF SearchInv, CountInv, HashesAccounted
<1> QED
    BY <1>1, SearchInvariant, PTL

\* A winner that some worker hashed is returned unless a stop is requested, if
\* every worker has two nonces: the threshold is one less than all nonces, and
\* does not wait for a worker that has just one.
THEOREM NoAnswerIsLost ==
    ASSUME SharesOfTwo
    PROVE  Spec => []AnswerNotLost
<1>1. SearchInv => AnswerNotLost
    <2> SUFFICES ASSUME SearchInv, main = "returned", ~result.found, ~result.aborted
                 PROVE  \A t \in Workers : Tried(t) \cap winning = {}
        BY DEF AnswerNotLost
    <2>1. \A t \in Workers : worker[t] = "ended"
        BY DEF SearchInv, MainInv
    <2> QED
        BY <2>1, EmptyMeansExhausted DEF Missed, OnlyWinner
<1> QED
    BY <1>1, SearchInvariant, PTL

\* What the last join hands to the caller is a result MiningResults allows.
LEMMA JoinReturns ==
    ASSUME SearchInv, Join
    PROVE  [found |-> result'.found, aborted |-> result'.aborted, nonce |-> result'.nonce]
               \in PossibleResults(winning, stop_requested)
<1> USE DEF SearchInv, ResultInv
<1> DEFINE r == [found |-> result'.found, aborted |-> result'.aborted,
                 nonce |-> result'.nonce]
<1>1. /\ result'.found = result.found
      /\ result'.aborted = result.aborted
      /\ result'.nonce = result.nonce
    BY DEF Join, TypeOK
<1>2. /\ r.found = result.found
      /\ r.aborted = result.aborted
      /\ r.nonce = result.nonce
      /\ r \in Results
    BY <1>1 DEF TypeOK, Results
<1>3. CASE result.found
    BY <1>2, <1>3 DEF SoundWinner, StopInv, PossibleResults, FoundResults
<1>4. CASE ~result.found /\ result.aborted
    BY <1>2, <1>4 DEF StopInv, PossibleResults, AbortedResults
<1>5. CASE ~result.found /\ ~result.aborted
    <2>1. r = NoResult
        BY <1>1, <1>5 DEF StopInv, NoResult, TypeOK
    <2>2. \/ winning = {}
          \/ /\ stop_requested \/ ~SharesOfTwo
             /\ \E n \in LastNonces : winning = {n}
        BY <1>5, EmptyIsAllowed DEF Join
    <2> QED
        BY <2>1, <2>2 DEF PossibleResults, EmptyResults
<1> QED
    BY <1>3, <1>4, <1>5

\* mine() implements the safety part of its contract: every step of a thread
\* but the last join is invisible to the caller, and that one returns a result
\* that MiningResults allows.
THEOREM KeepsContract == Spec => MS!SpecSafety
<1> DEFINE outcome == IF main = "returned"
                      THEN {[found |-> result.found, aborted |-> result.aborted,
                             nonce |-> result.nonce]}
                      ELSE {}
<1>1. Init => MS!SpecInit
    BY DEF Init, MS!SpecInit, MS!Nonces, Nonces
<1>2. SearchInv /\ [Next]_vars => [MS!SpecNext]_(MS!specVars)
    <2> SUFFICES ASSUME SearchInv, [Next]_vars PROVE [MS!SpecNext]_(MS!specVars)
        OBVIOUS
    <2> USE DEF SearchInv, ResultInv
    <2>1. ASSUME UNCHANGED <<winning, stop_requested>>, outcome' = outcome
          PROVE  UNCHANGED MS!specVars
        BY <2>1 DEF MS!specVars
    <2>2. ASSUME NEW t \in Workers, WorkerStep(t) PROVE UNCHANGED MS!specVars
        <3>1. main # "returned"
            BY <2>2 DEF MainInv, WorkerStep, LoopDone, CheckRequested, CheckStop, HashNonce,
                        Claim, Publish, Report
        <3>2. UNCHANGED <<winning, stop_requested, main>>
            BY <2>2 DEF WorkerStep, LoopDone, CheckRequested, CheckStop, HashNonce,
                        Claim, Publish, Report, mainVars
        <3> QED
            BY <2>1, <3>1, <3>2
    <2>3. CASE RequestStop
        <3>1. outcome' = outcome
            BY <2>3 DEF RequestStop, mainVars
        <3> QED
            BY <2>3, <3>1 DEF RequestStop, MS!SpecNext, MS!RequestStop
    <2>4. CASE MainStep /\ ~Join
        <3>1. /\ UNCHANGED <<winning, stop_requested>>
              /\ main # "returned"
              /\ main' # "returned"
            BY <2>4 DEF MainStep, Spawn, Monitor, PollAbort, PollContinue, ReadTotal,
                        CompareTotal
        <3> QED
            BY <2>1, <3>1
    <2>5. CASE Join
        <3>1. /\ UNCHANGED <<winning, stop_requested>>
              /\ main # "returned"
              /\ main' = "returned"
            BY <2>5 DEF Join
        <3>2. [found |-> result'.found, aborted |-> result'.aborted, nonce |-> result'.nonce]
                  \in PossibleResults(winning, stop_requested)
            BY <2>5, JoinReturns
        <3>3. MS!PossibleResults(winning, stop_requested)
                  = PossibleResults(winning, stop_requested)
            <4>1. /\ MS!Results = Results /\ MS!NoResult = NoResult
                  /\ MS!LastNonces = LastNonces /\ MS!SharesOfTwo = SharesOfTwo
                BY DEF MS!SharesOfTwo, SharesOfTwo, MS!Results, Results, MS!Nonces, Nonces,
                       MS!LastNonces, LastNonces, MS!NoResult, NoResult
            <4> QED
                BY <4>1 DEF PossibleResults, FoundResults, AbortedResults, EmptyResults,
                    MS!PossibleResults, MS!FoundResults, MS!AbortedResults, MS!EmptyResults
        <3>4. /\ outcome = {}
              /\ \E r \in MS!PossibleResults(winning, stop_requested) : outcome' = {r}
            BY <3>1, <3>2, <3>3
        <3>5. MS!Return
            BY <3>1, <3>4 DEF MS!Return
        <3> QED
            BY <3>5 DEF MS!SpecNext
    <2>6. CASE UNCHANGED vars
        <3>1. outcome' = outcome
            BY <2>6 DEF vars, mainVars
        <3> QED
            BY <2>1, <2>6, <3>1 DEF vars
    <2> QED
        BY <2>2, <2>3, <2>4, <2>5, <2>6 DEF Next
<1> QED
    BY <1>1, <1>2, SearchInvariant, PTL DEF Spec, MS!SpecSafety
=============================================================================
