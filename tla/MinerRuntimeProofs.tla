------------------------ MODULE MinerRuntimeProofs ------------------------
(***************************************************************************)
(* Theorems about the pool-mining path: its counters, limits, exit code    *)
(* and health file, for every configuration that validate_config accepts,  *)
(* every pool and every moment of a stop request.                          *)
(***************************************************************************)
EXTENDS MinerRuntime, StratumClientProofs, NaturalLemmas

-----------------------------------------------------------------------------
(* The sessions use the client as its interface allows, so what was proved *)
(* of the client holds of it here.                                         *)

\* A step of the sessions is a call on the client, or leaves it alone.
LEMMA RuntimeUsesClient == [RuntimeNext]_runtimeVars => [AnyClientStep]_clientVars
<1> SUFFICES ASSUME [RuntimeNext]_runtimeVars PROVE [AnyClientStep]_clientVars
    OBVIOUS
<1> USE DEF AnyClientStep, AnyCall
<1>1. CASE SessionStep
    <2>1. "subscribe" \in Requests /\ "authorize" \in Requests /\ "submit" \in Requests
        BY DEF Requests
    <2> QED
        BY <1>1, <2>1
        DEF SessionStep, ReturnFromSession, LoopTest, ConnectToPool, Connected, Subscribed,
            Authorized, StartFailed, SessionContinues, SessionEnds, JobReceived,
            NoJobReceived, MineAborted, MineFoundNothing, MineFound, SubmitAccepted,
            SubmitFailed, SessionSucceeded, SessionFailed, BackOff, WakeUp, Report, Exit
<1>2. CASE Receiving \/ TimePasses \/ Environment
    BY <1>2 DEF Receiving, TimePasses, Environment
<1>3. CASE Exited
    BY <1>3 DEF Exited, runtimeVars
<1>4. CASE UNCHANGED runtimeVars
    BY <1>4 DEF runtimeVars
<1> QED
    BY <1>1, <1>2, <1>3, <1>4 DEF RuntimeNext

\* So the invariant of the stream holds in every session.
LEMMA ClientInvInRuntime == ClientInv /\ [RuntimeNext]_runtimeVars => ClientInv'
BY RuntimeUsesClient, ClientInvStep

-----------------------------------------------------------------------------
(* Types.                                                                  *)

\* Zeroed counters are counters, and a snapshot of counters is a snapshot.
LEMMA StatsTypes ==
    /\ ZeroStats \in Stats
    /\ \A s \in Stats : Snapshot(s) \in Snapshots
<1>1. ZeroStats \in Stats
    BY DEF ZeroStats, Stats, SessionCodes, NoJob
<1>2. \A s \in Stats : Snapshot(s) \in Snapshots
    BY DEF Snapshot, Snapshots, Readiness
<1> QED
    BY <1>1, <1>2

\* The three ways in which the counters of a step change together.
LEMMA ShareFoundType ==
    ASSUME NEW s \in Stats
    PROVE  [s EXCEPT !.shares_found = @ + 1, !.submits_attempted = @ + 1] \in Stats
<1> DEFINE t == [s EXCEPT !.shares_found = @ + 1]
<1>1. t \in Stats
    BY DEF Stats
<1>2. [t EXCEPT !.submits_attempted = @ + 1] \in Stats
    <2> HIDE DEF t
    <2> QED
        BY <1>1 DEF Stats
<1>3. [t EXCEPT !.submits_attempted = @ + 1]
          = [s EXCEPT !.shares_found = @ + 1, !.submits_attempted = @ + 1]
    BY DEF Stats
<1> QED
    BY <1>2, <1>3

\* An accepted share, with its job.
LEMMA ShareAcceptedType ==
    ASSUME NEW s \in Stats, NEW j \in Nat
    PROVE  [s EXCEPT !.accepted_count = @ + 1, !.last_job_id = j] \in Stats
<1> DEFINE t == [s EXCEPT !.accepted_count = @ + 1]
<1>1. t \in Stats
    BY DEF Stats
<1>2. [t EXCEPT !.last_job_id = j] \in Stats
    <2> HIDE DEF t
    <2> QED
        BY <1>1 DEF Stats
<1>3. [t EXCEPT !.last_job_id = j] = [s EXCEPT !.accepted_count = @ + 1, !.last_job_id = j]
    BY DEF Stats
<1> QED
    BY <1>2, <1>3

\* A failed session, with its code.
LEMMA SessionFailedType ==
    ASSUME NEW s \in Stats, NEW code \in SessionCodes
    PROVE  [s EXCEPT !.reconnect_events = @ + 1, !.session_failures = @ + 1,
                     !.last_failure_rc = code] \in Stats
<1> DEFINE t == [s EXCEPT !.reconnect_events = @ + 1]
<1> DEFINE u == [t EXCEPT !.session_failures = @ + 1]
<1>1. t \in Stats
    BY DEF Stats
<1>2. u \in Stats
    <2> HIDE DEF t
    <2> QED
        BY <1>1 DEF Stats
<1>3. [u EXCEPT !.last_failure_rc = code] \in Stats
    <2> HIDE DEF u
    <2> QED
        BY <1>2 DEF Stats
<1>4. [u EXCEPT !.last_failure_rc = code]
          = [s EXCEPT !.reconnect_events = @ + 1, !.session_failures = @ + 1,
                      !.last_failure_rc = code]
    BY DEF Stats
<1> QED
    BY <1>3, <1>4

\* Writing the file, or failing to, leaves a snapshot or nothing in it.
LEMMA WrittenHealth ==
    ASSUME NEW s \in Stats, health \in SUBSET Snapshots, WriteHealth(s) \/ EmitHealth(s)
    PROVE  health' \in SUBSET Snapshots
<1>1. Snapshot(s) \in Snapshots
    BY StatsTypes
<1>2. health' = health \/ health' = {Snapshot(s)}
    BY DEF WriteHealth, EmitHealth
<1> QED
    BY <1>1, <1>2

\* What the loop and the sessions keep for themselves.
LoopTypeOK ==
    /\ at \in Positions
    /\ rc \in SessionCodes
    /\ cycles_done \in Nat
    /\ backoff_sec \in 0 .. (UIntMod - 1)
    /\ stats \in Stats
    /\ final_rc \in SessionCodes
    /\ health \in SUBSET Snapshots
    /\ graceful \in BOOLEAN

\* Every step of the sessions and of the loop keeps the types.
LEMMA LoopTypeStep == RuntimeTypeOK /\ [RuntimeNext]_runtimeVars => LoopTypeOK'
<1> SUFFICES ASSUME RuntimeTypeOK, [RuntimeNext]_runtimeVars PROVE LoopTypeOK'
    OBVIOUS
<1> USE DEF RuntimeTypeOK, LoopTypeOK, loopVars, Goto, Call, ReturnFromSession
<1>1. CASE LoopTest
    BY <1>1 DEF LoopTest, Positions
<1>2. CASE ConnectToPool
    BY <1>2 DEF ConnectToPool, Positions
<1>3. CASE Connected
    BY <1>3 DEF Connected, Positions
<1>4. CASE Subscribed
    BY <1>4 DEF Subscribed, Positions
<1>5. CASE Authorized
    BY <1>5 DEF Authorized, Positions
<1>6. CASE StartFailed
    BY <1>6 DEF StartFailed, Positions, SessionCodes
<1>7. CASE SessionContinues
    BY <1>7 DEF SessionContinues, Positions
<1>8. CASE SessionEnds
    BY <1>8 DEF SessionEnds, Positions, SessionCodes
<1>9. CASE JobReceived
    BY <1>9 DEF JobReceived, Positions, Stats
<1>10. CASE NoJobReceived
    BY <1>10 DEF NoJobReceived, Positions, SessionCodes
<1>11. CASE MineAborted
    BY <1>11 DEF MineAborted, Positions, SessionCodes
<1>12. CASE MineFoundNothing
    BY <1>12 DEF MineFoundNothing, Positions
<1>13. CASE MineFound
    BY <1>13, ShareFoundType DEF MineFound, Positions
<1>14. CASE SubmitAccepted
    <2>1. stats' \in Stats
        BY <1>14, ShareAcceptedType DEF SubmitAccepted, ClientTypeOK
    <2>2. health' \in SUBSET Snapshots
        BY <1>14, <2>1, WrittenHealth DEF SubmitAccepted
    <2> QED
        BY <1>14, <2>1, <2>2 DEF SubmitAccepted, Positions
<1>15. CASE SubmitFailed
    BY <1>15 DEF SubmitFailed, Positions, SessionCodes, Stats
<1>16. CASE SessionSucceeded
    BY <1>16, RuntimeAssumption DEF SessionSucceeded, Positions
<1>17. CASE SessionFailed
    <2>1. stats' \in Stats
        BY <1>17, SessionFailedType DEF SessionFailed
    <2>2. health' \in SUBSET Snapshots
        BY <1>17, <2>1, WrittenHealth DEF SessionFailed
    <2> QED
        BY <1>17, <2>1, <2>2 DEF SessionFailed, Positions
<1>18. CASE BackOff
    BY <1>18 DEF BackOff, Positions
<1>19. CASE WakeUp
    <2>1. Double(backoff_sec) \in 0 .. (UIntMod - 1)
        BY RuntimeAssumption DEF Double
    <2>2. MaxSec \in 0 .. (UIntMod - 1)
        BY RuntimeAssumption
    <2> QED
        BY <1>19, <2>1, <2>2 DEF WakeUp, Positions, Smaller
<1>20. CASE Report
    BY <1>20, WrittenHealth DEF Report, Positions
<1>21. CASE Exit
    <2>1. graceful' \in BOOLEAN
        BY <1>21 DEF Exit
    <2> QED
        BY <1>21, <2>1 DEF Exit, Positions
<1>22. CASE Receiving \/ TimePasses \/ Environment
    BY <1>22 DEF Receiving, TimePasses, Environment
<1>23. CASE UNCHANGED runtimeVars
    BY <1>23 DEF runtimeVars
<1> QED
    BY <1>1, <1>2, <1>3, <1>4, <1>5, <1>6, <1>7, <1>8, <1>9, <1>10, <1>11, <1>12, <1>13,
       <1>14, <1>15, <1>16, <1>17, <1>18, <1>19, <1>20, <1>21, <1>22, <1>23
    DEF RuntimeNext, SessionStep, Exited

\* The types hold at the start.
LEMMA RuntimeTypeInit == RuntimeInit => RuntimeTypeOK
<1> SUFFICES ASSUME RuntimeInit PROVE RuntimeTypeOK
    OBVIOUS
<1>1. ClientTypeOK
    BY ClientInvInit DEF RuntimeInit, ClientInv
<1>2. graceful \in BOOLEAN
    BY DEF RuntimeInit
<1>3. at \in Positions /\ rc \in SessionCodes /\ final_rc \in SessionCodes
    BY DEF RuntimeInit, Positions, SessionCodes
<1>4. cycles_done \in Nat /\ stats \in Stats /\ health \in SUBSET Snapshots
    BY StatsTypes DEF RuntimeInit
<1>5. backoff_sec \in 0 .. (UIntMod - 1)
    BY RuntimeAssumption DEF RuntimeInit
<1> QED
    BY <1>1, <1>2, <1>3, <1>4, <1>5 DEF RuntimeTypeOK

\* With those of the client: every step keeps the types.
LEMMA RuntimeTypeStep == RuntimeTypeOK /\ [RuntimeNext]_runtimeVars => RuntimeTypeOK'
BY LoopTypeStep, RuntimeUsesClient, ClientTypeStep DEF RuntimeTypeOK, LoopTypeOK

\* Every variable of the path keeps its type; above all, no sum or doubling
\* leaves backoff_sec outside what a std::uint32_t holds.
THEOREM RuntimeTypeCorrect == RuntimeSpec => []RuntimeTypeOK
BY RuntimeTypeInit, RuntimeTypeStep, PTL DEF RuntimeSpec

\* A stop request is never taken back.
LEMMA StopStays == [RuntimeNext]_runtimeVars => (stop_requested => stop_requested')
<1> SUFFICES ASSUME [AnyClientStep]_clientVars, stop_requested PROVE stop_requested'
    BY RuntimeUsesClient
<1>1. CASE AnyCall
    BY <1>1 DEF AnyCall, Connect, Send, WaitForJob, Close
<1>2. CASE ReceiveStep
    BY <1>2 DEF ReceiveStep, ReceiveResponse, DropWhileRequesting, ReceiveNotify,
        DropWhileWaiting, CheckStopRequested, ReadOn, SecondPasses, Expire,
        ConnectionLost, LineTooLong, Break
<1>3. CASE PoolStep
    BY <1>3 DEF PoolStep, PoolAnswer, PoolIgnore, PoolNotify, PoolOther, PoolClose
<1>4. CASE Tick \/ SignalStep \/ UNCHANGED clientVars
    BY <1>4 DEF Tick, SignalStep, Signal, SignalInSelect, clientVars
<1> QED
    BY <1>1, <1>2, <1>3, <1>4 DEF AnyClientStep

-----------------------------------------------------------------------------
(* The counters.                                                           *)

\* A job has been counted before it is mined, and each is mined once.
CountInv ==
    /\ CountersAgree
    /\ at = "mining" => stats.shares_found < stats.jobs_received

\* At the start nothing is counted.
LEMMA CountInvInit == RuntimeInit => CountInv
BY DEF RuntimeInit, CountInv, CountersAgree, ZeroStats, One

\* Each step counts together what belongs together.
LEMMA CountInvStep == RuntimeTypeOK /\ CountInv /\ [RuntimeNext]_runtimeVars => CountInv'
<1> SUFFICES ASSUME RuntimeTypeOK, CountInv, [RuntimeNext]_runtimeVars PROVE CountInv'
    OBVIOUS
<1>types. /\ cycles_done \in Nat
          /\ stats \in Stats
    BY DEF RuntimeTypeOK
<1> USE <1>types
<1> USE DEF CountInv, CountersAgree, One, loopVars, Goto, Call, ReturnFromSession, Stats
<1>1. CASE LoopTest
    BY <1>1 DEF LoopTest
<1>2. CASE ConnectToPool \/ Connected \/ Subscribed \/ Authorized \/ SessionContinues
    BY <1>2 DEF ConnectToPool, Connected, Subscribed, Authorized, SessionContinues
<1>3. CASE StartFailed \/ SessionEnds \/ NoJobReceived \/ MineAborted
    BY <1>3 DEF StartFailed, SessionEnds, NoJobReceived, MineAborted
<1>4. CASE JobReceived
    BY <1>4 DEF JobReceived
<1>5. CASE MineFoundNothing
    BY <1>5 DEF MineFoundNothing
<1>6. CASE MineFound
    BY <1>6 DEF MineFound
<1>7. CASE SubmitAccepted
    BY <1>7 DEF SubmitAccepted
<1>8. CASE SubmitFailed
    BY <1>8 DEF SubmitFailed
<1>9. CASE SessionSucceeded
    BY <1>9 DEF SessionSucceeded
<1>10. CASE SessionFailed
    BY <1>10 DEF SessionFailed
<1>11. CASE BackOff \/ WakeUp \/ Report \/ Exit
    BY <1>11 DEF BackOff, WakeUp, Report, Exit
<1>12. CASE Receiving \/ TimePasses \/ Environment
    BY <1>12 DEF Receiving, TimePasses, Environment
<1>13. CASE UNCHANGED runtimeVars
    BY <1>13 DEF runtimeVars
<1> QED
    BY <1>1, <1>2, <1>3, <1>4, <1>5, <1>6, <1>7, <1>8, <1>9, <1>10, <1>11, <1>12, <1>13
    DEF RuntimeNext, SessionStep, Exited

\* The summary and the health file never show counters that contradict each
\* other, however often sessions fail and wherever a signal finds the thread.
THEOREM CountersAlwaysAgree == RuntimeSpec => []CountersAgree
<1>1. CountInv => CountersAgree
    BY DEF CountInv
<1> QED
    BY <1>1, CountInvInit, CountInvStep, RuntimeTypeCorrect, PTL DEF RuntimeSpec

-----------------------------------------------------------------------------
(* The limits and the exit code.                                           *)

\* The loop is over.
Ending == {"report", "finished", "exited"}

\* The test of the cycles at the head of the session still holds when a cycle is
\* counted; the cap is reached only by the failure that ends the loop, and only
\* that failure sets the exit code.
LimitInv ==
    /\ at \in {"waiting", "mining", "submitting"} => CyclesLeft
    /\ MaxCycles > 0 => cycles_done <= MaxCycles
    /\ MaxReconnect > 0 => /\ stats.session_failures <= MaxReconnect
                           /\ at \notin Ending => stats.session_failures < MaxReconnect
    /\ at \notin Ending => final_rc = 0
    /\ at \in Ending =>
          IF final_rc = 0
          THEN stop_requested \/ (MaxCycles > 0 /\ cycles_done = MaxCycles)
          ELSE /\ MaxReconnect > 0
               /\ stats.session_failures = MaxReconnect
               /\ final_rc = stats.last_failure_rc

\* At the start no limit is reached.
LEMMA LimitInvInit == RuntimeInit => LimitInv
BY RuntimeAssumption DEF RuntimeInit, LimitInv, ZeroStats, Ending

\* The loop is left for a reason that stays true.
LEMMA LimitInvStep == RuntimeTypeOK /\ LimitInv /\ [RuntimeNext]_runtimeVars => LimitInv'
<1> SUFFICES ASSUME RuntimeTypeOK, LimitInv, [RuntimeNext]_runtimeVars PROVE LimitInv'
    OBVIOUS
<1>types. /\ cycles_done \in Nat /\ stats \in Stats
          /\ MaxCycles \in Nat /\ MaxReconnect \in Nat
    BY RuntimeAssumption DEF RuntimeTypeOK
<1>stop. stop_requested => stop_requested'
    BY StopStays
<1> USE <1>types, <1>stop
<1> USE DEF LimitInv, CyclesLeft, Ending, loopVars, Goto, Call, ReturnFromSession, Stats
<1>1. CASE LoopTest
    BY <1>1 DEF LoopTest, clientVars
<1>2. CASE ConnectToPool \/ Connected \/ Subscribed \/ Authorized \/ SessionContinues
    BY <1>2 DEF ConnectToPool, Connected, Subscribed, Authorized, SessionContinues
<1>3. CASE StartFailed \/ SessionEnds \/ NoJobReceived \/ MineAborted
    BY <1>3 DEF StartFailed, SessionEnds, NoJobReceived, MineAborted
<1>4. CASE JobReceived
    BY <1>4 DEF JobReceived
<1>5. CASE MineFoundNothing
    BY <1>5 DEF MineFoundNothing
<1>6. CASE MineFound
    BY <1>6 DEF MineFound
<1>7. CASE SubmitAccepted
    BY <1>7 DEF SubmitAccepted
<1>8. CASE SubmitFailed
    BY <1>8 DEF SubmitFailed
<1>9. CASE SessionSucceeded
    BY <1>9 DEF SessionSucceeded
<1>10. CASE SessionFailed
    BY <1>10 DEF SessionFailed, CapReached
<1>11. CASE BackOff
    BY <1>11 DEF BackOff, clientVars
<1>12. CASE WakeUp
    BY <1>12 DEF WakeUp
<1>13. CASE Report \/ Exit
    BY <1>13 DEF Report, Exit
<1>14. CASE Receiving \/ TimePasses \/ Environment
    BY <1>14 DEF Receiving, TimePasses, Environment
<1>15. CASE UNCHANGED runtimeVars
    BY <1>15 DEF runtimeVars
<1> QED
    BY <1>1, <1>2, <1>3, <1>4, <1>5, <1>6, <1>7, <1>8, <1>9, <1>10, <1>11, <1>12, <1>13,
       <1>14, <1>15
    DEF RuntimeNext, SessionStep, Exited

\* No run exceeds --pool-max-cycles or the reconnect cap, for any values of
\* them, and the exit code tells the two ends apart.
THEOREM LimitsHold == RuntimeSpec => []LimitsAndExitCode
<1>1. LimitInv => LimitsAndExitCode
    BY DEF LimitInv, LimitsAndExitCode, Ending
<1> QED
    BY <1>1, LimitInvInit, LimitInvStep, RuntimeTypeCorrect, PTL DEF RuntimeSpec

-----------------------------------------------------------------------------
(* The health file.                                                        *)

\* The readiness report and the exit do not change what the snapshot shows.
HealthInv ==
    WriteOutcomes = {TRUE} =>
        /\ EmitEachCycle =>
              IF health = {}
              THEN stats.accepted_count + stats.session_failures = 0
              ELSE \A s \in health :
                      /\ s.stats.accepted_count = stats.accepted_count
                      /\ s.stats.session_failures = stats.session_failures
                      /\ s.status = Readiness(s.stats)
        /\ at \in {"finished", "exited"} => health = {Snapshot(stats)}

\* A snapshot that has been written agrees with what was counted.
LEMMA WrittenIsCurrent ==
    ASSUME WriteOutcomes = {TRUE}, NEW s \in Stats, WriteHealth(s)
    PROVE  /\ health' = {Snapshot(s)}
           /\ health' # {}
           /\ \A seen \in health' : seen.stats = s /\ seen.status = Readiness(seen.stats)
<1>1. health' = {Snapshot(s)}
    BY DEF WriteHealth
<1>2. Snapshot(s).stats = s /\ Snapshot(s).status = Readiness(s)
    BY DEF Snapshot
<1> QED
    BY <1>1, <1>2

\* Before the first snapshot nothing has been counted.
LEMMA HealthInvInit == RuntimeInit => HealthInv
BY DEF RuntimeInit, HealthInv, ZeroStats

\* What is counted without a snapshot is not what the file is held to.
LEMMA HealthInvStep == RuntimeTypeOK /\ HealthInv /\ [RuntimeNext]_runtimeVars => HealthInv'
<1> SUFFICES ASSUME RuntimeTypeOK, HealthInv, [RuntimeNext]_runtimeVars,
                    WriteOutcomes = {TRUE}
             PROVE  HealthInv'
    BY DEF HealthInv
<1>types. stats \in Stats /\ stats' \in Stats
    BY RuntimeTypeStep DEF RuntimeTypeOK
<1>kept. ASSUME UNCHANGED health,
                stats'.accepted_count = stats.accepted_count,
                stats'.session_failures = stats.session_failures,
                at' \notin {"finished", "exited"}
         PROVE  HealthInv'
    BY <1>kept DEF HealthInv
<1>written. ASSUME EmitHealth(stats'), at' \notin {"finished", "exited"}
            PROVE  HealthInv'
    <2>1. CASE EmitEachCycle
        <3>1. WriteHealth(stats')
            BY <1>written, <2>1 DEF EmitHealth
        <3> QED
            BY <1>types, <1>written, <3>1, WrittenIsCurrent DEF HealthInv
    <2>2. CASE ~EmitEachCycle
        BY <1>written, <2>2 DEF HealthInv
    <2> QED
        BY <2>1, <2>2
<1> USE DEF loopVars, Goto, Call, ReturnFromSession
<1>1. CASE \/ LoopTest \/ ConnectToPool \/ Connected \/ Subscribed \/ Authorized
           \/ StartFailed \/ SessionContinues \/ SessionEnds \/ NoJobReceived
           \/ MineAborted \/ MineFoundNothing \/ SessionSucceeded \/ BackOff \/ WakeUp
    BY <1>1, <1>kept
    DEF LoopTest, ConnectToPool, Connected, Subscribed, Authorized, StartFailed,
        SessionContinues, SessionEnds, NoJobReceived, MineAborted, MineFoundNothing,
        SessionSucceeded, BackOff, WakeUp
<1>2. CASE JobReceived \/ MineFound \/ SubmitFailed
    BY <1>2, <1>kept, <1>types DEF JobReceived, MineFound, SubmitFailed, Stats
<1>3. CASE SubmitAccepted \/ SessionFailed
    BY <1>3, <1>written DEF SubmitAccepted, SessionFailed
<1>4. CASE Report
    <2>1. WriteHealth(stats) /\ stats' = stats
        BY <1>4 DEF Report
    <2> QED
        BY <1>types, <2>1, WrittenIsCurrent DEF HealthInv
<1>5. CASE Exit \/ Receiving \/ TimePasses \/ Environment \/ Exited \/ UNCHANGED runtimeVars
    BY <1>5 DEF Exit, Receiving, TimePasses, Environment, Exited, runtimeVars, HealthInv
<1> QED
    BY <1>1, <1>2, <1>3, <1>4, <1>5 DEF RuntimeNext, SessionStep

\* A monitor that reads the health file of a run that can write it sees the
\* shares and failures of this moment, and afterwards the final state.
THEOREM HealthStaysCurrent == RuntimeSpec => []HealthCurrent
<1>1. HealthInv => HealthCurrent
    BY DEF HealthInv, HealthCurrent
<1> QED
    BY <1>1, HealthInvInit, HealthInvStep, RuntimeTypeCorrect, PTL DEF RuntimeSpec

-----------------------------------------------------------------------------
(* The shares.                                                             *)

\* A stream to the pool with at most one submit in it.
Sole(s) ==
    \A i, j \in 1 .. Len(s) : s[i].request = "submit" /\ s[j].request = "submit" => i = j

\* A submit on its way to the pool is the one the call in progress waits for,
\* and is not credited yet.
FlightInv ==
    /\ at = "submitting" => call = "submit"
    /\ Sole(to_pool)
    /\ \A req \in Members(to_pool) :
          req.request = "submit" => /\ at = "submitting"
                                    /\ req.id = request_id
                                    /\ ~credited

\* The pool is ahead of the miner by the share it has credited and the miner has
\* not settled, and by no more than the shares the miner gave up.
BalanceInv ==
    LET ahead == One(at = "submitting" /\ credited)
    IN /\ stats.accepted_count + ahead <= pool_accepted
       /\ pool_accepted <= stats.accepted_count + stats.submit_failures + ahead

ShareInv == FlightInv /\ BalanceInv

\* When the only submit has been read, none is left.
LEMMA SoleTail ==
    ASSUME NEW s \in Seq(PoolLine), s # <<>>, Sole(s)
    PROVE  /\ Sole(Tail(s))
           /\ Head(s).request = "submit" =>
                 \A req \in Members(Tail(s)) : req.request # "submit"
<1>1. /\ Len(s) \in Nat \ {0}
      /\ Len(Tail(s)) = Len(s) - 1
      /\ \A i \in 1 .. Len(Tail(s)) : Tail(s)[i] = s[i + 1]
      /\ Head(s) = s[1]
    BY EmptySeq, HeadTailProperties
<1>2. \A i \in 1 .. Len(Tail(s)) :
          i \in Nat \ {0} /\ i + 1 \in 1 .. Len(s) /\ Tail(s)[i] = s[i + 1]
    BY <1>1
<1>3. Sole(Tail(s))
    <2> SUFFICES ASSUME NEW i \in 1 .. Len(Tail(s)), NEW j \in 1 .. Len(Tail(s)),
                        Tail(s)[i].request = "submit", Tail(s)[j].request = "submit"
                 PROVE  i = j
        BY DEF Sole
    <2>1. i + 1 = j + 1
        BY <1>2 DEF Sole
    <2> QED
        BY <1>2, <2>1
<1>4. ASSUME Head(s).request = "submit", NEW req \in Members(Tail(s)),
             req.request = "submit"
      PROVE  FALSE
    <2>1. PICK i \in 1 .. Len(Tail(s)) : req = Tail(s)[i]
        BY DEF Members
    <2>2. 1 \in 1 .. Len(s)
        BY <1>1
    <2>3. i + 1 = 1
        BY <1>1, <1>2, <1>4, <2>1, <2>2 DEF Sole
    <2> QED
        BY <1>2, <2>3
<1> QED
    BY <1>3, <1>4

\* A submit sent on a stream without one is the only one.
LEMMA SoleAppend ==
    ASSUME NEW s \in Seq(PoolLine), NEW e \in PoolLine, Sole(s),
           \A req \in Members(s) : req.request # "submit"
    PROVE  Sole(Append(s, e))
<1>1. /\ Len(s) \in Nat
      /\ Len(Append(s, e)) = Len(s) + 1
      /\ \A i \in 1 .. Len(s) : Append(s, e)[i] = s[i]
    BY AppendProperties, LenProperties
<1>2. \A i \in 1 .. Len(s) : Append(s, e)[i].request # "submit"
    BY <1>1 DEF Members
<1>3. \A i \in 1 .. Len(s) + 1 : i \in 1 .. Len(s) \/ i = Len(s) + 1
    BY <1>1
<1> QED
    BY <1>1, <1>2, <1>3 DEF Sole

\* An empty stream holds no second one.
LEMMA SoleEmpty == Sole(<<>>)
BY DEF Sole

\* At the start no share has been found.
LEMMA ShareInvInit == RuntimeInit => ShareInv
<1> SUFFICES ASSUME RuntimeInit PROVE ShareInv
    OBVIOUS
<1>1. FlightInv
    BY SoleEmpty, MembersOfEmpty DEF RuntimeInit, ClientInit, FlightInv
<1>2. BalanceInv
    BY DEF RuntimeInit, ClientInit, ZeroStats, BalanceInv, One
<1> QED
    BY <1>1, <1>2 DEF ShareInv

\* Between two submits a request is sent on a stream without submits.
LEMMA SendKeepsFlight ==
    ASSUME RuntimeTypeOK, FlightInv, at # "submitting",
           NEW request \in Requests, Send(request),
           at' = "submitting" <=> request = "submit"
    PROVE  FlightInv'
<1> DEFINE req == [request |-> request, id |-> next_id]
<1>1. to_pool \in Seq(PoolLine) /\ req \in PoolLine
    BY DEF RuntimeTypeOK, ClientTypeOK, PoolLine
<1>2. \A other \in Members(to_pool) : other.request # "submit"
    BY DEF FlightInv
<1>3. call' = request /\ request_id' = next_id /\ ~credited'
    BY DEF Send
<1>4. CASE to_pool' = to_pool
    BY <1>2, <1>3, <1>4 DEF FlightInv
<1>5. CASE to_pool' = Append(to_pool, req)
    <2>1. Sole(to_pool')
        BY <1>1, <1>2, <1>5, SoleAppend DEF FlightInv
    <2>2. Members(to_pool') = Members(to_pool) \cup {req}
        BY <1>1, <1>5, MembersOfAppend
    <2>3. ASSUME NEW other \in Members(to_pool'), other.request = "submit"
          PROVE  request = "submit" /\ other.id = next_id
        BY <1>2, <2>2, <2>3
    <2> QED
        BY <1>3, <2>1, <2>3 DEF FlightInv
<1> QED
    BY <1>4, <1>5 DEF Send

\* What the client reads, the clock and the signal handler leave the shares alone.
LEMMA ReadingKeepsShares ==
    ReceiveStep \/ Tick \/ SignalStep =>
        UNCHANGED <<call, request_id, to_pool, credited, pool_accepted>>
BY DEF ReceiveStep, ReceiveResponse, DropWhileRequesting, ReceiveNotify, DropWhileWaiting,
    CheckStopRequested, ReadOn, SecondPasses, Expire, ConnectionLost, LineTooLong, LoopAgain,
    Break, Finish, Tick, SignalStep, Signal, SignalInSelect, callVars, linkVars, poolVars

\* The pool cannot tell the client what to ask.
LEMMA PoolKeepsCall == PoolStep => UNCHANGED <<call, request_id>>
BY DEF PoolStep, PoolAnswer, PoolIgnore, PoolNotify, PoolOther, PoolClose, callVars

\* The pool reads a request and may credit its share, if it is a submit.
LEMMA AnswerKeepsShares ==
    ASSUME RuntimeTypeOK, ShareInv, UNCHANGED <<at, stats, call, request_id>>,
           to_pool # <<>>, to_pool' = Tail(to_pool),
           NEW credit \in BOOLEAN, credit => Head(to_pool).request = "submit",
           credited' = (credited \/ (credit /\ Head(to_pool).id = request_id)),
           pool_accepted' = pool_accepted + (IF credit THEN 1 ELSE 0)
    PROVE  /\ ShareInv'
           /\ \/ UNCHANGED <<credited, pool_accepted>>
              \/ /\ at = "submitting"
                 /\ ~credited /\ credited'
                 /\ pool_accepted' = pool_accepted + 1
<1> DEFINE req == Head(to_pool)
<1>1. /\ to_pool \in Seq(PoolLine)
      /\ credited \in BOOLEAN /\ pool_accepted \in Nat /\ stats \in Stats
    BY DEF RuntimeTypeOK, ClientTypeOK, PoolLine
<1>2. /\ credited' = (credited \/ (credit /\ req.id = request_id))
      /\ pool_accepted' = pool_accepted + (IF credit THEN 1 ELSE 0)
      /\ UNCHANGED <<call, request_id>>
    OBVIOUS
<1>3. /\ req \in Members(to_pool) /\ Members(Tail(to_pool)) \subseteq Members(to_pool)
      /\ Sole(Tail(to_pool))
      /\ req.request = "submit" => \A other \in Members(Tail(to_pool)) : other.request # "submit"
    BY <1>1, MembersOfTail, SoleTail DEF ShareInv, FlightInv
<1>4. req.request = "submit" => at = "submitting" /\ req.id = request_id /\ ~credited
    BY <1>3 DEF ShareInv, FlightInv
<1>5. \/ credit /\ credited' /\ pool_accepted' = pool_accepted + 1
      \/ ~credit /\ UNCHANGED <<credited, pool_accepted>>
    <2>1. CASE credit
        <3>1. req.id = request_id
            BY <1>4, <2>1
        <3> QED
            BY <1>2, <2>1, <3>1
    <2>2. CASE ~credit
        <3>1. credited' = credited
            BY <1>1, <1>2, <2>2
        <3>2. pool_accepted' = pool_accepted
            BY <1>1, <1>2, <2>2
        <3> QED
            BY <2>2, <3>1, <3>2
    <2> QED
        BY <2>1, <2>2
<1>6. FlightInv'
    BY <1>1, <1>2, <1>3, <1>5 DEF ShareInv, FlightInv
<1>7. BalanceInv'
    BY <1>1, <1>4, <1>5 DEF ShareInv, BalanceInv, One, Stats
<1> QED
    BY <1>4, <1>5, <1>6, <1>7 DEF ShareInv

\* The pool credits a share when it answers its submit with true.
LEMMA PoolAnswerKeepsShares ==
    ASSUME RuntimeTypeOK, ShareInv, UNCHANGED <<at, stats>>,
           NEW answer \in Answers, NEW copies \in {1, 2}, PoolAnswer(answer, copies)
    PROVE  /\ ShareInv'
           /\ \/ UNCHANGED <<credited, pool_accepted>>
              \/ /\ at = "submitting"
                 /\ ~credited /\ credited'
                 /\ pool_accepted' = pool_accepted + 1
<1> DEFINE credit == Head(to_pool).request = "submit" /\ BoolResult(answer)
<1>1. credit \in BOOLEAN /\ (credit => Head(to_pool).request = "submit")
    OBVIOUS
<1>2. /\ to_pool # <<>> /\ to_pool' = Tail(to_pool)
      /\ credited' = (credited \/ (credit /\ Head(to_pool).id = request_id))
      /\ pool_accepted' = pool_accepted + (IF credit THEN 1 ELSE 0)
      /\ UNCHANGED <<call, request_id>>
    BY DEF PoolAnswer, callVars
<1> HIDE DEF credit
<1> QED
    BY <1>1, <1>2, AnswerKeepsShares

\* No step of either side loses count of a share.
LEMMA ShareInvStep ==
    RuntimeTypeOK /\ ClientInv /\ ShareInv /\ [RuntimeNext]_runtimeVars => ShareInv'
<1> SUFFICES ASSUME RuntimeTypeOK, ClientInv, ShareInv, [RuntimeNext]_runtimeVars
             PROVE  ShareInv'
    OBVIOUS
<1>types. /\ stats \in Stats /\ pool_accepted \in Nat /\ credited \in BOOLEAN
          /\ to_pool \in Seq(PoolLine)
    BY DEF RuntimeTypeOK, ClientTypeOK, PoolLine
<1>sent. ASSUME at # "submitting", NEW request \in Requests, Send(request),
                at' = "submitting" <=> request = "submit",
                stats'.accepted_count = stats.accepted_count,
                stats'.submit_failures = stats.submit_failures
         PROVE  ShareInv'
    <2>1. FlightInv'
        BY <1>sent, SendKeepsFlight DEF ShareInv
    <2>2. BalanceInv'
        BY <1>sent DEF ShareInv, BalanceInv, One, Send
    <2> QED
        BY <2>1, <2>2 DEF ShareInv
<1>kept. ASSUME UNCHANGED <<call, request_id, to_pool, credited, pool_accepted>>,
                at # "submitting", at' # "submitting",
                stats'.accepted_count = stats.accepted_count,
                stats'.submit_failures = stats.submit_failures
         PROVE  ShareInv'
    BY <1>kept DEF ShareInv, FlightInv, BalanceInv, One
<1>closed. ASSUME Close, at' = "returned"
           PROVE  /\ FlightInv'
                  /\ at # "submitting" => UNCHANGED pool_accepted
                  /\ pool_accepted' \in {pool_accepted, pool_accepted + 1}
                  /\ credited /\ at = "submitting" => UNCHANGED pool_accepted
    <2>1. FlightInv'
        BY <1>closed, SoleEmpty, MembersOfEmpty DEF Close, FlightInv
    <2>2. pool_accepted' \in {pool_accepted, pool_accepted + 1}
        BY <1>types, <1>closed DEF Close
    <2>3. ASSUME NEW i \in DOMAIN to_pool, to_pool[i].request = "submit"
          PROVE  at = "submitting" /\ ~credited
        <3>1. to_pool[i] \in Members(to_pool)
            BY <1>types, LenProperties DEF Members
        <3> QED
            BY <2>3, <3>1 DEF ShareInv, FlightInv
    <2>4. at # "submitting" \/ credited => UNCHANGED pool_accepted
        BY <1>closed, <2>3 DEF Close
    <2> QED
        BY <2>1, <2>2, <2>4
<1>returned. ASSUME Close, at # "submitting", at' = "returned", UNCHANGED stats
             PROVE  ShareInv'
    BY <1>returned, <1>closed DEF ShareInv, BalanceInv, One
<1> USE DEF loopVars, Goto, Call, ReturnFromSession
<1>1. CASE LoopTest \/ Authorized \/ JobReceived \/ MineFoundNothing \/ SessionSucceeded
           \/ SessionFailed \/ BackOff \/ WakeUp \/ Report \/ Exit
    BY <1>1, <1>kept, <1>types
    DEF LoopTest, Authorized, JobReceived, MineFoundNothing, SessionSucceeded, SessionFailed,
        BackOff, WakeUp, Report, Exit, clientVars, callVars, linkVars, poolVars, Stats
<1>2. CASE ConnectToPool
    <2>1. ASSUME NEW ok \in BOOLEAN, Connect(ok)
          PROVE  UNCHANGED <<to_pool, credited, pool_accepted>>
        BY <2>1 DEF Connect
    <2>2. at # "submitting" /\ at' # "submitting" /\ UNCHANGED stats
        BY <1>2 DEF ConnectToPool
    <2>3. FlightInv'
        BY <1>2, <2>1, <2>2 DEF ConnectToPool, ShareInv, FlightInv
    <2>4. BalanceInv'
        BY <1>2, <2>1, <2>2 DEF ConnectToPool, ShareInv, BalanceInv
    <2> QED
        BY <2>3, <2>4 DEF ShareInv
<1>3. CASE Connected \/ Subscribed
    BY <1>3, <1>sent DEF Connected, Subscribed, Requests
<1>4. CASE MineFound
    BY <1>4, <1>sent, <1>types DEF MineFound, Requests, Stats
<1>5. CASE StartFailed \/ SessionEnds \/ NoJobReceived \/ MineAborted
    BY <1>5, <1>returned DEF StartFailed, SessionEnds, NoJobReceived, MineAborted
<1>6. CASE SessionContinues
    <2>1. /\ UNCHANGED <<to_pool, credited, pool_accepted, stats>>
          /\ at # "submitting" /\ at' # "submitting"
        BY <1>6 DEF SessionContinues, WaitForJob, linkVars, poolVars
    <2> QED
        BY <2>1 DEF ShareInv, FlightInv, BalanceInv, One
<1>7. CASE SubmitAccepted
    <2>1. credited /\ call = "submit"
        BY <1>7
        DEF SubmitAccepted, ShareInv, FlightInv, ClientInv, StreamInv, AcceptedMeansCredited
    <2>2. /\ UNCHANGED <<to_pool, credited, pool_accepted>>
          /\ at = "submitting" /\ at' # "submitting"
        BY <1>7 DEF SubmitAccepted, clientVars, linkVars, poolVars
    <2>3. /\ stats'.accepted_count = stats.accepted_count + 1
          /\ stats'.submit_failures = stats.submit_failures
        BY <1>7, <1>types DEF SubmitAccepted, Stats
    <2>4. FlightInv'
        BY <2>1, <2>2 DEF ShareInv, FlightInv
    <2>5. BalanceInv'
        BY <1>types, <2>1, <2>2, <2>3 DEF ShareInv, BalanceInv, One, Stats
    <2> QED
        BY <2>4, <2>5 DEF ShareInv
<1>8. CASE SubmitFailed
    <2>1. Close /\ at = "submitting" /\ at' = "returned"
        BY <1>8 DEF SubmitFailed
    <2>2. /\ stats'.accepted_count = stats.accepted_count
          /\ stats'.submit_failures = stats.submit_failures + 1
        BY <1>8, <1>types DEF SubmitFailed, Stats
    <2>3. BalanceInv'
        BY <1>types, <1>closed, <2>1, <2>2 DEF ShareInv, BalanceInv, One, Stats
    <2> QED
        BY <1>closed, <2>1, <2>3 DEF ShareInv
<1>9. CASE Receiving \/ TimePasses \/ Environment
    <2> USE DEF Receiving, TimePasses, Environment
    <2>1. CASE ReceiveStep \/ Tick \/ SignalStep
        BY <1>9, <2>1, ReadingKeepsShares DEF ShareInv, FlightInv, BalanceInv
    <2>2. ASSUME NEW answer \in Answers, NEW copies \in {1, 2}, PoolAnswer(answer, copies)
          PROVE  ShareInv'
        BY <1>9, <2>2, PoolAnswerKeepsShares
    <2>3. CASE PoolIgnore \/ PoolNotify \/ PoolOther \/ PoolClose
        <3>1. UNCHANGED <<call, request_id, credited, pool_accepted, at, stats>>
            BY <1>9, <2>3
            DEF PoolIgnore, PoolNotify, PoolOther, PoolClose, callVars, poolVars
        <3>2. Sole(to_pool') /\ Members(to_pool') \subseteq Members(to_pool)
            BY <1>types, <2>3, SoleTail, SoleEmpty, MembersOfTail, MembersOfEmpty
            DEF PoolIgnore, PoolNotify, PoolOther, PoolClose, ShareInv, FlightInv
        <3> QED
            BY <3>1, <3>2 DEF ShareInv, FlightInv, BalanceInv
    <2> QED
        BY <1>9, <2>1, <2>2, <2>3 DEF PoolStep
<1>10. CASE Exited \/ UNCHANGED runtimeVars
    BY <1>10
    DEF Exited, runtimeVars, clientVars, callVars, linkVars, poolVars, ShareInv, FlightInv,
        BalanceInv
<1> QED
    BY <1>1, <1>2, <1>3, <1>4, <1>5, <1>6, <1>7, <1>8, <1>9, <1>10
    DEF RuntimeNext, SessionStep

\* The invariants the theorems about shares rest on.
LEMMA ShareInvariant == RuntimeSpec => [](RuntimeTypeOK /\ ClientInv /\ ShareInv)
<1>1. RuntimeInit => ClientInv
    BY ClientInvInit DEF RuntimeInit
<1> QED
    BY <1>1, RuntimeTypeInit, RuntimeTypeStep, ClientInvInRuntime, ShareInvInit, ShareInvStep,
       PTL DEF RuntimeSpec

\* The miner's count of accepted shares is never above the pool's, and is below
\* it by no more than the shares it counted as failed and the one in flight.
THEOREM SharesAlwaysReconcile == RuntimeSpec => []SharesReconcile
<1>1. RuntimeTypeOK /\ ClientInv /\ ShareInv => SharesReconcile
    <2> SUFFICES ASSUME RuntimeTypeOK, BalanceInv PROVE SharesReconcile
        BY DEF ShareInv
    <2>1. stats \in Stats /\ pool_accepted \in Nat
        BY DEF RuntimeTypeOK, ClientTypeOK
    <2> QED
        BY <2>1 DEF BalanceInv, SharesReconcile, One, Stats
<1> QED
    BY <1>1, ShareInvariant, PTL

\* The miner reports "ready" only when it and the pool agree share for share.
THEOREM ReadyIsAlwaysEarned == RuntimeSpec => []ReadyIsEarned
<1>1. RuntimeTypeOK /\ ClientInv /\ ShareInv => ReadyIsEarned
    <2> SUFFICES ASSUME RuntimeTypeOK, BalanceInv, at = "exited", Readiness(stats) = "ready"
                 PROVE  pool_accepted = stats.accepted_count /\ pool_accepted >= ReadyShares
        BY DEF ShareInv, ReadyIsEarned
    <2>1. stats \in Stats /\ pool_accepted \in Nat
        BY DEF RuntimeTypeOK, ClientTypeOK
    <2>2. stats.accepted_count >= ReadyShares /\ stats.submit_failures = 0
        BY DEF Readiness
    <2> QED
        BY <2>1, <2>2 DEF BalanceInv, One, Stats
<1> QED
    BY <1>1, ShareInvariant, PTL

-----------------------------------------------------------------------------
(* The promise of ShareLedger, step by step.                               *)

\* The share in flight, as the ledger sees it.
Share == IF at # "submitting" THEN "none" ELSE IF credited THEN "credited" ELSE "offered"

\* A step that leaves this alone is no step of the ledger.
LedgerView == <<Share, pool_accepted, stats.accepted_count, stats.submit_failures>>

\* What the ledger does not see is a stutter of it.
LEMMA LedgerStutters == UNCHANGED LedgerView => UNCHANGED Ledger!ledgerVars
BY DEF LedgerView, Share, Ledger!ledgerVars

\* The path starts as the ledger does.
LEMMA LedgerStarts == RuntimeInit => Ledger!LedgerInit
BY DEF RuntimeInit, ClientInit, ZeroStats, Ledger!LedgerInit

\* The ledger's operations in the words of the path.
LEMMA LedgerSteps ==
    /\ /\ Share = "none" /\ Share' = "offered"
       /\ UNCHANGED <<pool_accepted, stats.accepted_count, stats.submit_failures>>
       => Ledger!Offer
    /\ /\ Share = "offered" /\ Share' = "credited" /\ pool_accepted' = pool_accepted + 1
       /\ UNCHANGED <<stats.accepted_count, stats.submit_failures>>
       => Ledger!Credit
    /\ /\ Share = "credited" /\ Share' = "none"
       /\ stats'.accepted_count = stats.accepted_count + 1
       /\ UNCHANGED <<pool_accepted, stats.submit_failures>>
       => Ledger!Settle
    /\ /\ Share # "none" /\ Share' = "none"
       /\ stats'.submit_failures = stats.submit_failures + 1
       /\ \/ UNCHANGED pool_accepted
          \/ Share = "offered" /\ pool_accepted' = pool_accepted + 1
       /\ UNCHANGED stats.accepted_count
       => Ledger!GiveUp
BY DEF Share, Ledger!Offer, Ledger!Credit, Ledger!Settle, Ledger!GiveUp

\* Every step of the path is a step of the ledger, or a stutter.
LEMMA LedgerStep ==
    RuntimeTypeOK /\ ClientInv /\ ShareInv /\ [RuntimeNext]_runtimeVars
        => [Ledger!LedgerNext]_(Ledger!ledgerVars)
<1> SUFFICES ASSUME RuntimeTypeOK, ClientInv, ShareInv, [RuntimeNext]_runtimeVars
             PROVE  Ledger!LedgerNext \/ UNCHANGED LedgerView
    BY LedgerStutters
<1>types. /\ stats \in Stats /\ pool_accepted \in Nat /\ credited \in BOOLEAN
          /\ to_pool \in Seq(PoolLine)
    BY DEF RuntimeTypeOK, ClientTypeOK, PoolLine
<1>closed. ASSUME Close
           PROVE  \/ UNCHANGED pool_accepted
                  \/ Share = "offered" /\ pool_accepted' = pool_accepted + 1
    <2>1. ASSUME NEW i \in DOMAIN to_pool, to_pool[i].request = "submit"
          PROVE  at = "submitting" /\ ~credited
        <3>1. to_pool[i] \in Members(to_pool)
            BY <1>types, LenProperties DEF Members
        <3> QED
            BY <2>1, <3>1 DEF ShareInv, FlightInv
    <2> QED
        BY <1>types, <1>closed, <2>1 DEF Close, Share
<1>quiet. ASSUME at # "submitting", at' # "submitting", UNCHANGED pool_accepted,
                 stats'.accepted_count = stats.accepted_count,
                 stats'.submit_failures = stats.submit_failures
          PROVE  UNCHANGED LedgerView
    BY <1>quiet DEF LedgerView, Share
<1> USE DEF loopVars, Goto, Call, ReturnFromSession
<1>1. CASE LoopTest \/ Authorized \/ JobReceived \/ MineFoundNothing \/ SessionSucceeded
           \/ SessionFailed \/ BackOff \/ WakeUp \/ Report \/ Exit
    BY <1>1, <1>quiet, <1>types
    DEF LoopTest, Authorized, JobReceived, MineFoundNothing, SessionSucceeded, SessionFailed,
        BackOff, WakeUp, Report, Exit, clientVars, poolVars, Stats
<1>2. CASE ConnectToPool \/ Connected \/ Subscribed \/ SessionContinues
    BY <1>2, <1>quiet
    DEF ConnectToPool, Connected, Subscribed, SessionContinues, Connect, Send, WaitForJob,
        poolVars
<1>3. CASE StartFailed \/ SessionEnds \/ NoJobReceived \/ MineAborted
    <2>1. /\ Close /\ at # "submitting" /\ at' # "submitting"
          /\ UNCHANGED stats
        BY <1>3 DEF StartFailed, SessionEnds, NoJobReceived, MineAborted
    <2> QED
        BY <1>closed, <1>quiet, <2>1 DEF Share
<1>4. CASE MineFound
    <2>1. at = "mining" /\ at' = "submitting" /\ ~credited' /\ UNCHANGED pool_accepted
        BY <1>4 DEF MineFound, Send
    <2>2. UNCHANGED <<stats.accepted_count, stats.submit_failures>>
        BY <1>4, <1>types DEF MineFound, Stats
    <2>3. Share = "none" /\ Share' = "offered"
        BY <2>1 DEF Share
    <2> QED
        BY <2>1, <2>2, <2>3, LedgerSteps DEF Ledger!LedgerNext
<1>5. CASE SubmitAccepted
    <2>1. credited /\ at = "submitting" /\ at' = "session" /\ UNCHANGED pool_accepted
        BY <1>5
        DEF SubmitAccepted, ShareInv, FlightInv, ClientInv, StreamInv, AcceptedMeansCredited,
            clientVars, poolVars
    <2>2. /\ stats'.accepted_count = stats.accepted_count + 1
          /\ UNCHANGED stats.submit_failures
        BY <1>5, <1>types DEF SubmitAccepted, Stats
    <2>3. Share = "credited" /\ Share' = "none"
        BY <2>1 DEF Share
    <2> QED
        BY <2>1, <2>2, <2>3, LedgerSteps DEF Ledger!LedgerNext
<1>6. CASE SubmitFailed
    <2>1. Close /\ at = "submitting" /\ at' = "returned"
        BY <1>6 DEF SubmitFailed
    <2>2. /\ stats'.submit_failures = stats.submit_failures + 1
          /\ UNCHANGED stats.accepted_count
        BY <1>6, <1>types DEF SubmitFailed, Stats
    <2>3. Share # "none" /\ Share' = "none"
        BY <2>1 DEF Share
    <2> QED
        BY <1>closed, <2>1, <2>2, <2>3, LedgerSteps DEF Ledger!LedgerNext
<1>7. CASE Receiving \/ TimePasses \/ Environment
    <2> USE DEF Receiving, TimePasses, Environment
    <2>1. UNCHANGED <<at, stats>>
        BY <1>7
    <2>2. CASE ReceiveStep \/ Tick \/ SignalStep
        BY <2>1, <2>2, ReadingKeepsShares DEF LedgerView, Share
    <2>3. ASSUME NEW answer \in Answers, NEW copies \in {1, 2}, PoolAnswer(answer, copies)
          PROVE  Ledger!LedgerNext \/ UNCHANGED LedgerView
        <3>1. CASE UNCHANGED <<credited, pool_accepted>>
            BY <2>1, <3>1 DEF LedgerView, Share
        <3>2. CASE /\ at = "submitting" /\ ~credited /\ credited'
                   /\ pool_accepted' = pool_accepted + 1
            <4>1. Share = "offered" /\ Share' = "credited"
                BY <2>1, <3>2 DEF Share
            <4> QED
                BY <2>1, <3>2, <4>1, LedgerSteps DEF Ledger!LedgerNext
        <3> QED
            BY <2>1, <2>3, <3>1, <3>2, PoolAnswerKeepsShares
    <2>4. CASE PoolIgnore \/ PoolNotify \/ PoolOther \/ PoolClose
        BY <2>1, <2>4
        DEF PoolIgnore, PoolNotify, PoolOther, PoolClose, poolVars, LedgerView, Share
    <2> QED
        BY <1>7, <2>2, <2>3, <2>4 DEF PoolStep
<1>8. CASE Exited \/ UNCHANGED runtimeVars
    BY <1>8 DEF Exited, runtimeVars, clientVars, poolVars, LedgerView, Share
<1> QED
    BY <1>1, <1>2, <1>3, <1>4, <1>5, <1>6, <1>7, <1>8 DEF RuntimeNext, SessionStep

\* Whatever happens to connections, requests and answers, a share goes through
\* the ledger's steps: offered once, credited at most once, and then settled, only
\* if credited, or given up.
THEOREM PathImplementsLedger == RuntimeSpec => ImplementsLedger
BY ShareInvariant, LedgerStarts, LedgerStep, PTL
DEF RuntimeSpec, ImplementsLedger, Ledger!LedgerSpec

-----------------------------------------------------------------------------
(* The waits between attempts.                                             *)

\* The wait after so many failures.
Scheduled(waits) == Smaller(MaxSec, InitialSec * 2^waits)

\* Without a failure the wait is the initial one.
LEMMA ScheduleStarts == Scheduled(0) = InitialSec
BY PowerOfZero, RuntimeAssumption DEF Scheduled, Smaller

\* Doubling a capped wait and capping it again is the wait after one more failure.
LEMMA ScheduleDoubles ==
    ASSUME NEW waits \in Nat, 2 * MaxSec < UIntMod
    PROVE  Smaller(MaxSec, Double(Scheduled(waits))) = Scheduled(waits + 1)
<1> DEFINE power == 2^waits
<1> DEFINE next == 2^(waits + 1)
<1> DEFINE uncapped == InitialSec * power
<1>1. power \in Nat /\ next = 2 * power
    BY PowerDoubles
<1>2. InitialSec \in Nat /\ MaxSec \in Nat /\ UIntMod \in Nat \ {0}
    BY RuntimeAssumption
<1>3. uncapped \in Nat
    <2> HIDE DEF power
    <2> QED
        BY <1>1, <1>2
<1>4. InitialSec * next = 2 * uncapped
    <2> HIDE DEF power, next
    <2> QED
        BY <1>1, <1>2
<1>5. Scheduled(waits) = Smaller(MaxSec, uncapped)
    BY DEF Scheduled
<1>6. Scheduled(waits + 1) = Smaller(MaxSec, 2 * uncapped)
    BY <1>4 DEF Scheduled
<1> HIDE DEF uncapped
<1>7. Scheduled(waits) \in 0 .. MaxSec
    BY <1>2, <1>3, <1>5 DEF Smaller
<1>8. Double(Scheduled(waits)) = 2 * Scheduled(waits)
    BY <1>2, <1>7 DEF Double
<1> QED
    BY <1>2, <1>3, <1>5, <1>6, <1>8 DEF Smaller

\* Attempts that have been followed by a wait.
Waits == stats.session_failures - One(at \in {"backoff", "asleep"})

\* Nothing follows but the report: no session, and so no wait.
LastTest == stop_requested \/ ~CyclesLeft

\* A session that returns 0 puts the wait back to the initial one, but it does so
\* only when the loop is about to end.
BackoffInv ==
    /\ Waits \in Nat
    /\ at = "returned" /\ rc = 0 => LastTest
    /\ \/ at \in Ending
       \/ at = "loop" /\ LastTest
       \/ backoff_sec = Scheduled(Waits)

\* At the start nothing has failed.
LEMMA BackoffInvInit == RuntimeInit => BackoffInv
BY ScheduleStarts DEF RuntimeInit, BackoffInv, ZeroStats, Waits, One

\* mine() reports that it was aborted only after a stop request.
LEMMA AbortedMeansRequested == \A r \in MineResults : r.aborted => stop_requested
BY DEF MineResults, PossibleResults, FoundResults, AbortedResults, EmptyResults, NoResult

\* The wait follows the failures through every session.
LEMMA BackoffInvStep ==
    RuntimeTypeOK /\ BackoffInv /\ 2 * MaxSec < UIntMod /\ [RuntimeNext]_runtimeVars
        => BackoffInv'
<1> SUFFICES ASSUME RuntimeTypeOK, BackoffInv, 2 * MaxSec < UIntMod,
                    [RuntimeNext]_runtimeVars
             PROVE  BackoffInv'
    OBVIOUS
<1>types. stats \in Stats /\ stats.session_failures \in Nat
    BY DEF RuntimeTypeOK, Stats
<1>stop. stop_requested => stop_requested'
    BY StopStays
<1>kept. ASSUME UNCHANGED <<backoff_sec, cycles_done>>,
                stats'.session_failures = stats.session_failures,
                at \notin {"loop", "backoff", "asleep"} \cup Ending,
                at' \notin {"backoff", "asleep"},
                at' = "returned" /\ rc' = 0 => LastTest
         PROVE  BackoffInv'
    <2>1. Waits' = Waits
        BY <1>types, <1>kept DEF Waits, One
    <2> QED
        BY <1>kept, <1>stop, <2>1 DEF BackoffInv, LastTest, CyclesLeft, Scheduled, Smaller
<1>ended. ASSUME at' \in Ending, stats'.session_failures = stats.session_failures
          PROVE  BackoffInv'
    BY <1>ended, <1>types DEF BackoffInv, Ending, Waits, One
<1> USE DEF loopVars, Goto, Call, ReturnFromSession
<1>1. CASE LoopTest
    <2>1. CASE LastTest
        BY <1>1, <1>ended, <2>1 DEF LoopTest, LastTest, Ending
    <2>2. CASE ~LastTest
        <3>1. Waits' = Waits /\ backoff_sec' = backoff_sec /\ at = "loop" /\ at' = "connect"
            BY <1>1, <2>2 DEF LoopTest, LastTest, Waits, One
        <3> QED
            BY <2>2, <3>1 DEF BackoffInv, Ending, Scheduled, Smaller
    <2> QED
        BY <2>1, <2>2
<1>2. CASE \/ ConnectToPool \/ Connected \/ Subscribed \/ Authorized \/ SessionContinues
           \/ MineFoundNothing
    BY <1>2, <1>kept
    DEF ConnectToPool, Connected, Subscribed, Authorized, SessionContinues,
        MineFoundNothing, Ending
<1>3. CASE JobReceived \/ MineFound
    BY <1>3, <1>kept, <1>types DEF JobReceived, MineFound, Ending, Stats
<1>4. CASE StartFailed
    BY <1>4, <1>kept DEF StartFailed, Ending
<1>5. CASE SessionEnds
    BY <1>5, <1>kept DEF SessionEnds, Ending, LastTest
<1>6. CASE NoJobReceived
    BY <1>6, <1>kept DEF NoJobReceived, Ending, LastTest
<1>7. CASE MineAborted
    BY <1>7, <1>kept, AbortedMeansRequested DEF MineAborted, Ending, LastTest
<1>8. CASE SubmitAccepted
    <2>1. /\ stats'.session_failures = stats.session_failures /\ backoff_sec' = backoff_sec
          /\ at = "submitting" /\ at' = "session"
        BY <1>8, <1>types DEF SubmitAccepted, Stats
    <2>2. Waits' = Waits
        BY <2>1 DEF Waits, One
    <2> QED
        BY <2>1, <2>2 DEF BackoffInv, Ending, Scheduled, Smaller
<1>9. CASE SubmitFailed
    BY <1>9, <1>kept, <1>types DEF SubmitFailed, Ending, Stats
<1>10. CASE SessionSucceeded
    <2>1. /\ LastTest' /\ at' = "loop"
        BY <1>10
        DEF SessionSucceeded, BackoffInv, LastTest, CyclesLeft, clientVars
    <2>2. Waits' \in Nat
        BY <1>10, <1>types DEF SessionSucceeded, Waits, One
    <2> QED
        BY <2>1, <2>2 DEF BackoffInv
<1>11. CASE SessionFailed
    <2>1. /\ stats'.session_failures = stats.session_failures + 1
          /\ backoff_sec' = backoff_sec /\ at = "returned" /\ at' \in {"report", "backoff"}
        BY <1>11, <1>types DEF SessionFailed, Stats
    <2>2. CASE at' = "report"
        BY <1>types, <2>1, <2>2 DEF BackoffInv, Ending, Waits, One
    <2>3. CASE at' = "backoff"
        <3>1. Waits' = Waits
            BY <1>types, <2>1, <2>3 DEF Waits, One
        <3> QED
            BY <2>1, <2>3, <3>1 DEF BackoffInv, Ending, Scheduled, Smaller
    <2> QED
        BY <2>1, <2>2, <2>3
<1>12. CASE BackOff
    <2>1. CASE stop_requested
        BY <1>12, <1>ended, <2>1 DEF BackOff, Ending
    <2>2. CASE ~stop_requested
        <3>1. Waits' = Waits /\ backoff_sec' = backoff_sec /\ at = "backoff" /\ at' = "asleep"
            BY <1>12, <2>2 DEF BackOff, Waits, One
        <3> QED
            BY <3>1 DEF BackoffInv, Ending, Scheduled, Smaller
    <2> QED
        BY <2>1, <2>2
<1>13. CASE WakeUp
    <2>1. at = "asleep" /\ at' = "loop" /\ stats' = stats
        BY <1>13 DEF WakeUp
    <2>2. Waits' = Waits + 1 /\ Waits \in Nat
        BY <1>types, <2>1 DEF Waits, One, BackoffInv
    <2>3. backoff_sec = Scheduled(Waits)
        BY <2>1 DEF BackoffInv, Ending
    <2>4. backoff_sec' = Scheduled(Waits + 1)
        BY <1>13, <2>2, <2>3, ScheduleDoubles DEF WakeUp
    <2>5. backoff_sec' = Scheduled(Waits')
        BY <2>2, <2>4
    <2> QED
        BY <2>1, <2>2, <2>5 DEF BackoffInv, Scheduled, Smaller
<1>14. CASE Report \/ Exit
    BY <1>14, <1>ended DEF Report, Exit, Ending
<1>15. CASE Receiving \/ TimePasses \/ Environment \/ Exited \/ UNCHANGED runtimeVars
    <2>1. UNCHANGED <<at, rc, cycles_done, backoff_sec, stats>>
        BY <1>15 DEF Receiving, TimePasses, Environment, Exited, runtimeVars
    <2>2. Waits' = Waits
        BY <2>1 DEF Waits
    <2> QED
        BY <1>stop, <2>1, <2>2
        DEF BackoffInv, LastTest, CyclesLeft, Scheduled, Smaller
<1> QED
    BY <1>1, <1>2, <1>3, <1>4, <1>5, <1>6, <1>7, <1>8, <1>9, <1>10, <1>11, <1>12, <1>13,
       <1>14, <1>15
    DEF RuntimeNext, SessionStep

\* The wait before each attempt is the configured initial one, doubled once for
\* every earlier failure and capped, for every initial and maximal wait whose
\* doubling fits a std::uint32_t.
THEOREM BackoffKeepsSchedule == RuntimeSpec => []BackoffSchedule
<1>1. RuntimeTypeOK /\ BackoffInv => BackoffSchedule
    BY DEF BackoffInv, BackoffSchedule, Scheduled, Waits, Ending
<1>2. CASE 2 * MaxSec < UIntMod
    BY <1>1, <1>2, BackoffInvInit, BackoffInvStep, RuntimeTypeCorrect, PTL DEF RuntimeSpec
<1>3. CASE ~(2 * MaxSec < UIntMod)
    <2>1. BackoffSchedule
        BY <1>3 DEF BackoffSchedule
    <2> QED
        BY <2>1, PTL
<1> QED
    BY <1>2, <1>3
=============================================================================
