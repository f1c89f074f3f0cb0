---------------------------- MODULE MinerRuntime ----------------------------
(***************************************************************************)
(* The pool-mining path of the miner: run_stratum_loop, the sessions it    *)
(* runs (run_stratum_session, start_stratum_session) and main's branch     *)
(* around it, over the client, the stream and the pool of StratumClient.   *)
(*                                                                         *)
(* All of it is one thread, whose position is `at'.  Between two of its    *)
(* steps the pool acts, lines arrive and the user may press Ctrl+C.        *)
(***************************************************************************)
EXTENDS StratumClient, MiningResults

CONSTANTS
    MaxCycles,      \* cfg.pool_max_cycles, 0 for no limit
    MaxReconnect,   \* cfg.pool_max_reconnect_attempts, 0 for no limit
    InitialSec,     \* cfg.pool_reconnect_initial_sec
    MaxSec,         \* cfg.pool_reconnect_max_sec
    UIntMod,        \* 2^32: std::uint32_t arithmetic wraps there
    EmitEachCycle,  \* cfg.health_emit_each_cycle
    WriteOutcomes,  \* whether the health file can be written: {TRUE} if always
    FailureBound    \* bound: failures before the model stops retrying by itself

\* What validate_config leaves of the pool settings.
ASSUME RuntimeAssumption ==
    /\ MaxCycles \in Nat
    /\ MaxReconnect \in Nat
    /\ UIntMod \in Nat \ {0}
    /\ InitialSec \in 1 .. (UIntMod - 1)
    /\ MaxSec \in InitialSec .. (UIntMod - 1)
    /\ EmitEachCycle \in BOOLEAN
    /\ WriteOutcomes \in (SUBSET BOOLEAN) \ {{}}
    /\ FailureBound \in Nat

VARIABLES
    at,             \* where the thread is
    rc,             \* what the last session returned
    cycles_done,
    backoff_sec,
    stats,          \* SessionStats
    final_rc,
    health,         \* what the health file holds: at most one snapshot
    graceful        \* "Graceful shutdown complete" has been logged

loopVars == <<rc, cycles_done, backoff_sec, stats, final_rc, health, graceful>>
runtimeVars == <<clientVars, at, loopVars>>

ZeroStats == [jobs_received |-> 0, shares_found |-> 0, submits_attempted |-> 0,
              submit_failures |-> 0, accepted_count |-> 0, reconnect_events |-> 0,
              session_failures |-> 0, last_failure_rc |-> 0, last_job_id |-> NoJob]

RuntimeInit ==
    /\ ClientInit
    /\ at = "loop"
    /\ rc = 0
    /\ cycles_done = 0
    /\ backoff_sec = InitialSec
    /\ stats = ZeroStats
    /\ final_rc = 0
    /\ health = {}
    /\ graceful = FALSE

-----------------------------------------------------------------------------
(* Helpers.                                                                *)

\* compute_readiness_status
ReadyShares == 3

\* Mutant: failures are not looked at.
ReadinessByShares(s) ==
    IF s.accepted_count >= ReadyShares THEN "ready"
    ELSE IF s.accepted_count > 0 THEN "degraded" ELSE "not_ready"

Readiness(s) ==
    IF s.accepted_count >= ReadyShares /\ s.submit_failures = 0 /\ s.session_failures = 0
    THEN "ready"
    ELSE IF s.accepted_count > 0 THEN "degraded" ELSE "not_ready"

Snapshot(s) == [status |-> Readiness(s), stats |-> s]

\* write_health_snapshot: the file is replaced, or cannot be opened.
WriteHealth(s) ==
    \E opened \in WriteOutcomes : health' = IF opened THEN {Snapshot(s)} ELSE health

\* maybe_write_health_snapshot_incremental
EmitHealth(s) == IF EmitEachCycle THEN WriteHealth(s) ELSE UNCHANGED health

CyclesLeft == MaxCycles = 0 \/ cycles_done < MaxCycles

Double(sec) == (2 * sec) % UIntMod
Smaller(a, b) == IF a <= b THEN a ELSE b

Goto(label) == at' = label

\* The session returns: its client is destroyed.
ReturnFromSession(code) ==
    /\ Close
    /\ rc' = code
    /\ Goto("returned")

-----------------------------------------------------------------------------
(* run_stratum_loop, up to the call of a session.                          *)

LoopTest ==
    /\ at = "loop"
    /\ Goto(IF ~stop_requested /\ CyclesLeft THEN "connect" ELSE "report")
    /\ UNCHANGED <<clientVars, loopVars>>

-----------------------------------------------------------------------------
(* start_stratum_session: any failure makes the session return 4.          *)

Call(label, next) ==
    /\ at = label
    /\ Goto(next)
    /\ UNCHANGED loopVars

ConnectToPool ==
    /\ Call("connect", "connecting")
    /\ \E ok \in BOOLEAN : Connect(ok)

Connected ==
    /\ Call("connecting", "subscribing")
    /\ outcome = "ok"
    /\ Send("subscribe")

Subscribed ==
    /\ Call("subscribing", "authorizing")
    /\ outcome = "ok"
    /\ Send("authorize")

Authorized ==
    /\ Call("authorizing", "session")
    /\ outcome = "ok"
    /\ UNCHANGED clientVars

StartFailed ==
    /\ at \in {"connecting", "subscribing", "authorizing"}
    /\ outcome = "failed"
    /\ ReturnFromSession(4)
    /\ UNCHANGED <<cycles_done, backoff_sec, stats, final_rc, health, graceful>>

-----------------------------------------------------------------------------
(* run_stratum_session                                                     *)

SessionContinues ==
    /\ at = "session"
    /\ ~stop_requested /\ CyclesLeft
    /\ WaitForJob
    /\ Goto("waiting")
    /\ UNCHANGED loopVars

SessionEnds ==
    /\ at = "session"
    /\ stop_requested \/ ~CyclesLeft
    /\ ReturnFromSession(0)
    /\ UNCHANGED <<cycles_done, backoff_sec, stats, final_rc, health, graceful>>

JobReceived ==
    /\ at = "waiting"
    /\ outcome = "ok"
    /\ stats' = [stats EXCEPT !.jobs_received = @ + 1]
    /\ Goto("mining")
    /\ UNCHANGED <<clientVars, rc, cycles_done, backoff_sec, final_rc, health, graceful>>

NoJobReceived ==
    /\ at = "waiting"
    /\ outcome = "failed"
    /\ ReturnFromSession(IF stop_requested THEN 0 ELSE 6)
    /\ UNCHANGED <<cycles_done, backoff_sec, stats, final_rc, health, graceful>>

\* mine() returns what its contract allows.
MineResults ==
    UNION {PossibleResults(win, stop_requested) : win \in SUBSET Nonces}

MineAborted ==
    /\ at = "mining"
    /\ \E r \in MineResults : r.aborted
    /\ ReturnFromSession(0)
    /\ UNCHANGED <<cycles_done, backoff_sec, stats, final_rc, health, graceful>>

MineFoundNothing ==
    /\ at = "mining"
    /\ \E r \in MineResults : ~r.aborted /\ ~r.found
    /\ Goto("session")
    /\ UNCHANGED <<clientVars, loopVars>>

MineFound ==
    /\ at = "mining"
    /\ \E r \in MineResults : ~r.aborted /\ r.found
    /\ stats' = [stats EXCEPT !.shares_found = @ + 1, !.submits_attempted = @ + 1]
    /\ Send("submit")
    /\ Goto("submitting")
    /\ UNCHANGED <<rc, cycles_done, backoff_sec, final_rc, health, graceful>>

\* Mutants: the snapshot is taken before the share is counted; an accepted
\* share makes up for a failed one.
SubmitAcceptedEmitsFirst ==
    /\ at = "submitting"
    /\ outcome = "ok"
    /\ cycles_done' = cycles_done + 1
    /\ EmitHealth(stats)
    /\ stats' = [stats EXCEPT !.accepted_count = @ + 1, !.last_job_id = job]
    /\ Goto("session")
    /\ UNCHANGED <<clientVars, rc, backoff_sec, final_rc, graceful>>

SubmitAcceptedForgives ==
    /\ at = "submitting"
    /\ outcome = "ok"
    /\ cycles_done' = cycles_done + 1
    /\ stats' = [stats EXCEPT !.accepted_count = @ + 1, !.last_job_id = job,
                              !.submit_failures = @ - 1]
    /\ EmitHealth(stats')
    /\ Goto("session")
    /\ UNCHANGED <<clientVars, rc, backoff_sec, final_rc, graceful>>

SubmitAccepted ==
    /\ at = "submitting"
    /\ outcome = "ok"
    /\ cycles_done' = cycles_done + 1
    /\ stats' = [stats EXCEPT !.accepted_count = @ + 1, !.last_job_id = job]
    /\ EmitHealth(stats')
    /\ Goto("session")
    /\ UNCHANGED <<clientVars, rc, backoff_sec, final_rc, graceful>>

\* Mutant: the failed submit is not counted.
SubmitFailedUncounted ==
    /\ at = "submitting"
    /\ outcome = "failed"
    /\ ReturnFromSession(8)
    /\ UNCHANGED <<cycles_done, backoff_sec, stats, final_rc, health, graceful>>

SubmitFailed ==
    /\ at = "submitting"
    /\ outcome = "failed"
    /\ stats' = [stats EXCEPT !.submit_failures = @ + 1]
    /\ ReturnFromSession(8)
    /\ UNCHANGED <<cycles_done, backoff_sec, final_rc, health, graceful>>

-----------------------------------------------------------------------------
(* run_stratum_loop, from the return of a session.                         *)

SessionSucceeded ==
    /\ at = "returned"
    /\ rc = 0
    /\ backoff_sec' = InitialSec
    /\ Goto("loop")
    /\ UNCHANGED <<clientVars, rc, cycles_done, stats, final_rc, health, graceful>>

\* Mutant: one more attempt than the cap allows.
CapExceeded(s) == MaxReconnect > 0 /\ s.session_failures > MaxReconnect

CapReached(s) == MaxReconnect > 0 /\ s.session_failures >= MaxReconnect

SessionFailed ==
    /\ at = "returned"
    /\ rc # 0
    /\ stats.session_failures < FailureBound \/ stop_requested
    /\ stats' = [stats EXCEPT !.reconnect_events = @ + 1, !.session_failures = @ + 1,
                              !.last_failure_rc = rc]
    /\ EmitHealth(stats')
    /\ IF CapReached(stats')
       THEN final_rc' = rc /\ Goto("report")
       ELSE Goto("backoff") /\ UNCHANGED final_rc
    /\ UNCHANGED <<clientVars, rc, cycles_done, backoff_sec, graceful>>

BackOff ==
    /\ at = "backoff"
    /\ Goto(IF stop_requested THEN "report" ELSE "asleep")
    /\ UNCHANGED <<clientVars, loopVars>>

\* Mutant: the doubled wait is not capped.
WakeUpUncapped ==
    /\ at = "asleep"
    /\ backoff_sec' = Double(backoff_sec)
    /\ Goto("loop")
    /\ UNCHANGED <<clientVars, rc, cycles_done, stats, final_rc, health, graceful>>

\* sleep_for(backoff_sec) is over; no signal cuts it short.
WakeUp ==
    /\ at = "asleep"
    /\ backoff_sec' = Smaller(MaxSec, Double(backoff_sec))
    /\ Goto("loop")
    /\ UNCHANGED <<clientVars, rc, cycles_done, stats, final_rc, health, graceful>>

\* The summary, the readiness report and the last health snapshot.
Report ==
    /\ at = "report"
    /\ WriteHealth(stats)
    /\ Goto("finished")
    /\ UNCHANGED <<clientVars, rc, cycles_done, backoff_sec, stats, final_rc, graceful>>

\* main() after run_stratum_loop: final_rc is the exit code.
Exit ==
    /\ at = "finished"
    /\ graceful' = (final_rc = 0 /\ stop_requested)
    /\ Goto("exited")
    /\ UNCHANGED <<clientVars, rc, cycles_done, backoff_sec, stats, final_rc, health>>

-----------------------------------------------------------------------------
SessionStep ==
    \/ LoopTest
    \/ ConnectToPool
    \/ Connected
    \/ Subscribed
    \/ Authorized
    \/ StartFailed
    \/ SessionContinues
    \/ SessionEnds
    \/ JobReceived
    \/ NoJobReceived
    \/ MineAborted
    \/ MineFoundNothing
    \/ MineFound
    \/ SubmitAccepted
    \/ SubmitFailed
    \/ SessionSucceeded
    \/ SessionFailed
    \/ BackOff
    \/ WakeUp
    \/ Report
    \/ Exit

Exited == at = "exited" /\ UNCHANGED runtimeVars

\* What goes on while the thread is inside a call: the call's own steps, the clock,
\* the pool and the user.  The process ends at "exited": nothing reaches it then.
Receiving == at # "exited" /\ ReceiveStep /\ UNCHANGED <<at, loopVars>>
TimePasses == at # "exited" /\ Tick /\ UNCHANGED <<at, loopVars>>
Environment == at # "exited" /\ (PoolStep \/ SignalStep) /\ UNCHANGED <<at, loopVars>>

RuntimeNext == SessionStep \/ Receiving \/ TimePasses \/ Environment \/ Exited

(***************************************************************************)
(* The thread runs when it can, in a session and in a call; mine() returns *)
(* (MineSpec's Return is fair), sleeps end and seconds pass.  Nothing is   *)
(* assumed of the pool or of the user.                                     *)
(***************************************************************************)
RuntimeFairness ==
    /\ WF_runtimeVars(SessionStep)
    /\ WF_runtimeVars(Receiving)
    /\ WF_runtimeVars(TimePasses)

RuntimeSpec == RuntimeInit /\ [][RuntimeNext]_runtimeVars /\ RuntimeFairness

-----------------------------------------------------------------------------
(* Properties.                                                             *)

Positions == {"loop", "connect", "connecting", "subscribing", "authorizing",
              "session", "waiting", "mining", "submitting", "returned", "backoff",
              "asleep", "report", "finished", "exited"}

\* What run_stratum_session returns.
SessionCodes == {0, 4, 6, 8}

Stats == [jobs_received : Nat, shares_found : Nat, submits_attempted : Nat,
          submit_failures : Nat, accepted_count : Nat, reconnect_events : Nat,
          session_failures : Nat, last_failure_rc : SessionCodes, last_job_id : Nat]

Snapshots == [status : {"ready", "degraded", "not_ready"}, stats : Stats]

\* Every variable holds a value of its type.
RuntimeTypeOK ==
    /\ ClientTypeOK
    /\ at \in Positions
    /\ rc \in SessionCodes
    /\ cycles_done \in Nat
    /\ backoff_sec \in 0 .. (UIntMod - 1)
    /\ stats \in Stats
    /\ final_rc \in SessionCodes
    /\ health \in SUBSET Snapshots
    /\ graceful \in BOOLEAN

One(condition) == IF condition THEN 1 ELSE 0

\* The counters of the summary and of the health file, which the code bumps in
\* different functions, tell one story: every share found is attempted, and is
\* accepted, failed or in flight; every failed submit costs its session; every
\* session that fails is a reconnect event.
CountersAgree ==
    /\ stats.accepted_count = cycles_done
    /\ stats.submits_attempted = stats.shares_found
    /\ stats.shares_found <= stats.jobs_received
    /\ stats.shares_found
          = stats.accepted_count + stats.submit_failures + One(at = "submitting")
    /\ stats.reconnect_events = stats.session_failures
    /\ stats.submit_failures <= stats.session_failures + One(at = "returned" /\ rc = 8)

\* The miner never counts a share as accepted that the pool did not accept,
\* and the shares it missed are among those it counted as failed submits: an
\* answer that is late or lost leaves the two sides at most that far apart.
SharesReconcile ==
    /\ stats.accepted_count <= pool_accepted
    /\ pool_accepted
          <= stats.accepted_count + stats.submit_failures + One(at = "submitting")

\* Share by share, the path keeps the promise of ShareLedger.
Ledger == INSTANCE ShareLedger WITH
    share <- IF at # "submitting" THEN "none"
             ELSE IF credited THEN "credited" ELSE "offered",
    credits <- pool_accepted,
    accepted <- stats.accepted_count,
    failed <- stats.submit_failures
ImplementsLedger == Ledger!LedgerSpec

\* A run reported "ready" has nothing to reconcile.
ReadyIsEarned ==
    at = "exited" /\ Readiness(stats) = "ready" =>
        pool_accepted = stats.accepted_count /\ pool_accepted >= ReadyShares

\* The limits of the configuration hold however sessions end, and the exit
\* code says why the loop ended: 0 for a stop request or a completed number of
\* cycles, the last session's code when the reconnect cap was reached.
LimitsAndExitCode ==
    /\ MaxCycles > 0 => cycles_done <= MaxCycles
    /\ MaxReconnect > 0 => stats.session_failures <= MaxReconnect
    /\ at = "exited" =>
          IF final_rc = 0
          THEN stop_requested \/ (MaxCycles > 0 /\ cycles_done = MaxCycles)
          ELSE /\ MaxReconnect > 0
               /\ stats.session_failures = MaxReconnect
               /\ final_rc = stats.last_failure_rc

\* The wait before the next attempt is the initial one doubled once for every
\* earlier failure, up to the maximum: it never starts over during a run, since
\* a session returns 0 only when the loop is about to end.
BackoffSchedule ==
    at \notin {"loop", "report", "finished", "exited"} /\ 2 * MaxSec < UIntMod =>
        LET waits == stats.session_failures - One(at \in {"backoff", "asleep"})
        IN backoff_sec = Smaller(MaxSec, InitialSec * 2^waits)

\* With incremental output on and a writable file, the health file always shows
\* the accepted shares and the failures of this moment; in either mode the file
\* left at the end is the final state.
HealthCurrent ==
    WriteOutcomes = {TRUE} =>
        /\ EmitEachCycle =>
              IF health = {}
              THEN stats.accepted_count + stats.session_failures = 0
              ELSE \A s \in health :
                      /\ s.stats.accepted_count = stats.accepted_count
                      /\ s.stats.session_failures = stats.session_failures
                      /\ s.status = Readiness(s.stats)
        /\ at = "exited" => health = {Snapshot(stats)}

\* A stop request ends the program, wherever it finds it: in a request, which
\* does not look at it and is left to its own deadline, waiting for a job, mining
\* or asleep between two attempts.
StopEndsRun == stop_requested ~> at = "exited"

\* docs/RUNBOOK.md:59, "Use `Ctrl+C` and confirm `Graceful shutdown complete`
\* appears in logs": if the run has not failed when the stop is requested, it
\* logs the line when it ends.
StopIsGraceful ==
    [](stop_requested /\ final_rc = 0 => [](at = "exited" => graceful))

\* README.md:281, "degraded: at least one accepted share, but failures
\* occurred": the status is not given to a run without failures.
DegradedMeansFailures ==
    at = "exited" /\ Readiness(stats) = "degraded" =>
        stats.submit_failures + stats.session_failures > 0
=============================================================================
