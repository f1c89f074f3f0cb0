------------------------------ MODULE FakePool ------------------------------
(***************************************************************************)
(* The repository's own pool for local runs, src/src/fake_pool.cpp, at the *)
(* other end of StratumClient's stream.  Somebody starts it, before the    *)
(* miner or while it runs; it accepts one connection, serves it until its  *)
(* client closes, and ends.  A start that fails, as for a port in use, and *)
(* a second start are left out.                                            *)
(***************************************************************************)
EXTENDS StratumClient

VARIABLES
    serving,        \* "off", "listening", "connected", "eof" (client gone), "ended"
    notified,       \* the first job has been announced
    job_seq         \* number of the job last announced, or first to be

fakeVars == <<serving, notified, job_seq>>

FakeInit ==
    /\ serving = "off"
    /\ notified = FALSE
    /\ job_seq = 1

-----------------------------------------------------------------------------
\* The process starts: socket, bind and listen.
Listen ==
    /\ serving = "off"
    /\ serving' = "listening"
    /\ UNCHANGED <<clientVars, notified, job_seq>>

\* The connection is established in the backlog before it is accepted.
Accept ==
    /\ serving = "listening"
    /\ peer = "open"
    /\ serving' = "connected"
    /\ UNCHANGED <<clientVars, notified, job_seq>>

\* A line is read and the lines of its branch are sent.  (What a client that has
\* closed may still have submitted is part of StratumClient's Close.)
RequestId == Head(to_pool).id

Handle(request, lines) ==
    /\ serving = "connected"
    /\ peer = "open"
    /\ to_pool # <<>>
    /\ Head(to_pool).request = request
    /\ to_pool' = Tail(to_pool)
    /\ to_client' = to_client \o lines
    /\ UNCHANGED <<stop_requested, connected, next_id, callVars, peer, announced, serving>>

AnswerSubscribe ==
    /\ Handle("subscribe", <<Response(RequestId, "array")>>)
    /\ UNCHANGED <<credited, pool_accepted, notified, job_seq>>

AnswerAuthorize ==
    /\ Handle("authorize", <<Response(RequestId, "true")>>
                              \o (IF notified THEN <<>> ELSE <<Notify(job_seq)>>))
    /\ notified' = TRUE
    /\ UNCHANGED <<credited, pool_accepted, job_seq>>

\* Mutants: the next job is announced before the share is answered; the job
\* announced is the one just mined.
AnswerSubmitLast ==
    /\ job_seq' = job_seq + 1
    /\ Handle("submit", <<Notify(job_seq + 1), Response(RequestId, "true")>>)
    /\ credited' = (credited \/ RequestId = request_id)
    /\ pool_accepted' = pool_accepted + 1
    /\ UNCHANGED notified

AnswerSubmitStale ==
    /\ job_seq' = job_seq + 1
    /\ Handle("submit", <<Response(RequestId, "true"), Notify(job_seq)>>)
    /\ credited' = (credited \/ RequestId = request_id)
    /\ pool_accepted' = pool_accepted + 1
    /\ UNCHANGED notified

\* Every share is accepted, and followed by the next job.
AnswerSubmit ==
    /\ job_seq' = job_seq + 1
    /\ Handle("submit", <<Response(RequestId, "true"), Notify(job_seq + 1)>>)
    /\ credited' = (credited \/ RequestId = request_id)
    /\ pool_accepted' = pool_accepted + 1
    /\ UNCHANGED notified

\* Mutants: the pool goes back to accept(); a failed read is taken for an empty
\* line.
EndReopened ==
    /\ serving = "eof"
    /\ serving' = "listening"
    /\ UNCHANGED <<clientVars, notified, job_seq>>

EndUnnoticed == serving = "eof" /\ UNCHANGED <<clientVars, fakeVars>>

\* recv() reports the end of the stream (or an answer to the client that is gone
\* raises SIGPIPE): the process ends and with it both sockets.  A second
\* connection that waits in the backlog is reset.
End ==
    /\ serving = "eof"
    /\ serving' = "ended"
    /\ peer' = IF peer = "open" THEN "closed" ELSE peer
    /\ UNCHANGED <<stop_requested, connected, next_id, callVars, to_pool, to_client,
                   poolVars, notified, job_seq>>

FakeStep ==
    \/ Listen
    \/ Accept
    \/ AnswerSubscribe
    \/ AnswerAuthorize
    \/ AnswerSubmit
    \/ End
=============================================================================
