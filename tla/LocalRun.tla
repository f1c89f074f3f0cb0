------------------------------ MODULE LocalRun ------------------------------
(***************************************************************************)
(* The miner against the repository's fake pool, as the certification      *)
(* tests and the local configurations run it: MinerRuntime with FakePool   *)
(* in place of an arbitrary pool.  Most tests start the pool first; in     *)
(* LC-006 (MinerRecoversAfterPoolComesOnline) it comes while the miner     *)
(* already fails to connect.                                               *)
(***************************************************************************)
EXTENDS MinerRuntime, FakePool

VARIABLES
    untimely,   \* history: time has run out, or the user has interfered
    unserved    \* history: the connections tried before the pool was started

localVars == <<runtimeVars, fakeVars, untimely, unserved>>

LocalInit == RuntimeInit /\ FakeInit /\ untimely = FALSE /\ unserved = 0

(***************************************************************************)
(* The miner's own steps.  A connection succeeds as long as the pool's     *)
(* socket is open, also if the pool will never accept it; so does a send   *)
(* while the other end is open.  Every job of the fake pool (20 bits of    *)
(* 2^32 nonces) has an answer.                                             *)
(***************************************************************************)
MinerStep ==
    /\ SessionStep
    /\ at = "connect" => (peer' = "open" <=> serving \notin {"off", "ended"})
    /\ connected /\ peer = "open" /\ peer' = "open" => connected'
    /\ at = "mining" => at' \in {"submitting", "returned"}
    /\ serving' = IF peer = "open" /\ peer' = "none" /\ serving \in {"listening", "connected"}
                  THEN "eof"
                  ELSE serving
    /\ unserved' = unserved + One(at = "connect" /\ serving = "off")
    /\ UNCHANGED <<notified, job_seq, untimely>>

PoolSide == FakeStep /\ UNCHANGED <<at, loopVars, untimely, unserved>>

\* Lines are read as they arrive; receive_line comes back empty only if there
\* was none to read.
TimelyReceive ==
    /\ \/ ReceiveResponse
       \/ DropWhileRequesting
       \/ ReceiveNotify
       \/ DropWhileWaiting
       \/ CheckStopRequested
       \/ ReadOn
       \/ ConnectionLost
       \/ to_client = <<>> /\ SecondPasses
    /\ UNCHANGED <<at, loopVars, fakeVars, untimely, unserved>>

\* A second passes that is not the last of a call.
Wait ==
    /\ Tick
    /\ time_left' > 0
    /\ UNCHANGED <<at, loopVars, fakeVars, untimely, unserved>>

\* The second of receive_line passes while a line arrives, a deadline is reached,
\* or the user presses Ctrl+C.
Untimely ==
    /\ at # "exited"
    /\ \/ SecondPasses
       \/ Tick /\ time_left' = 0
       \/ Expire
       \/ SignalStep
    /\ untimely' = TRUE
    /\ UNCHANGED <<at, loopVars, fakeVars, unserved>>

LocalExited == at = "exited" /\ UNCHANGED localVars

LocalNext == MinerStep \/ PoolSide \/ TimelyReceive \/ Wait \/ Untimely \/ LocalExited

(***************************************************************************)
(* Both processes get to run, somebody starts the pool at some time, and   *)
(* what has arrived is read.                                               *)
(***************************************************************************)
LocalSpec ==
    /\ LocalInit
    /\ [][LocalNext]_localVars
    /\ WF_localVars(MinerStep)
    /\ WF_localVars(TimelyReceive)
    /\ WF_localVars(PoolSide)

-----------------------------------------------------------------------------
(* Properties.                                                             *)

\* The miner has used up its reconnects before the pool was there.
TooLate == MaxReconnect > 0 /\ unserved >= MaxReconnect

\* What the tests MinerMultiCycleSessionAgainstFakePool and
\* MinerRecoversAfterPoolComesOnline wait for: unless the pool is started too late,
\* a deadline passes or somebody interferes, the run completes its cycles, with
\* exit code 0 and without a failure but for the connections tried before the
\* pool was there.  It does so because the pool answers a share before it
\* announces the next job: a job that came first would be dropped by the client.
LocalRunCompletes ==
    <>(\/ untimely \/ TooLate
       \/ /\ at = "exited"
          /\ final_rc = 0
          /\ stats.accepted_count = MaxCycles
          /\ stats.session_failures = unserved)

\* The same tests then wait for the pool: it ends once the miner is gone.
PoolEnds == <>[](untimely \/ TooLate \/ serving = "ended")

\* The miner never works on a job the fake pool has replaced.
NeverStale == at = "mining" => job = job_seq

\* A local run recovers from a pool that was not there yet, but from nothing else:
\* once a session has failed that the pool was there for, whatever else failed
\* before, it earns nothing any more.  The pool has ended, or will before it
\* looks at another connection.
OneSession ==
    [][stats.session_failures > unserved
          => stats.accepted_count' = stats.accepted_count]_localVars
=============================================================================
