--------------------------- MODULE StratumClient ---------------------------
(***************************************************************************)
(* One mining::StratumClient (src/src/lib/stratum.cpp): the calls a        *)
(* session makes on it, the TCP stream in both directions and a pool at    *)
(* the other end.                                                          *)
(*                                                                         *)
(* The client is used by one thread; what is concurrent with a call is the *)
(* pool, the passing of time and the signal handler.  The pool is external *)
(* to this code: it answers requests in the order it receives them, with   *)
(* any verdict, may answer twice or not at all, may announce jobs or write *)
(* other lines at any time, as many as it likes, and may close the         *)
(* connection at any time.                                                 *)
(*                                                                         *)
(* One action is one line sent or received, one look at a deadline or one  *)
(* second.  Lines are records of what the parsers extract from them.       *)
(***************************************************************************)
EXTENDS Naturals, Sequences

CONSTANTS
    MaxJobs,        \* bound: jobs the pool announces on one connection
    MaxLines,       \* bound: unread lines the stream to the client holds
    RequestSec,     \* seconds a request waits for its response (10 in the code)
    NotifySec       \* notify_timeout_sec, what wait_for_job is given

ASSUME ClientAssumption ==
    /\ MaxJobs \in Nat
    /\ MaxLines \in Nat \ {0}
    /\ RequestSec \in Nat
    /\ NotifySec \in Nat

Jobs == 1 .. MaxJobs
NoJob == 0

Requests == {"subscribe", "authorize", "submit"}

\* A response's "result" and "error" fields, as far as the client tells them
\* apart: result true; result neither true nor false, as the array that
\* answers a subscribe; result false; an error and hence, by JSON-RPC, no result.
Answers == {"true", "array", "false", "error"}

ParseErrorIsNull(answer) == answer # "error"
BoolResult(answer) == answer = "true"

\* Mutant: a response without an error is enough for every request.
AcceptsWithoutError(request, answer) == ParseErrorIsNull(answer)

\* What makes each request succeed, once its response has arrived.
Accepts(request, answer) ==
    IF request = "subscribe" THEN ParseErrorIsNull(answer) ELSE BoolResult(answer)

Response(id, answer) == [kind |-> "response", id |-> id, answer |-> answer, job |-> NoJob]
Notify(job) == [kind |-> "notify", id |-> 0, answer |-> "array", job |-> job]

\* A line that is neither, to the client: set_difficulty, or no JSON at all.
Other == [kind |-> "other", id |-> 0, answer |-> "array", job |-> NoJob]

VARIABLES
    stop_requested, \* the signal handler's flag
    connected,      \* connected_
    next_id,        \* next_id_
    call,           \* the call in progress, or last made
    outcome,        \* "checking" or "busy" in progress, then "ok" or "failed"
    time_left,      \* whole seconds to the deadline of the call in progress
    line_left,      \* and to that of the receive_line it is in
    request_id,     \* the id the call in progress waits for
    job,            \* out_job of the last successful wait_for_job
    to_pool,        \* requests the pool has not read
    to_client,      \* lines the client has not read
    peer,           \* the pool's end: "none", "open" or "closed"
    announced,      \* jobs the pool has announced on this connection
    credited,       \* the pool has accepted the share of the last request, a submit
    pool_accepted   \* shares the pool has accepted, over all connections

poolVars == <<announced, credited, pool_accepted>>
linkVars == <<to_pool, to_client, peer>>
timeVars == <<time_left, line_left>>
callVars == <<call, outcome, timeVars, request_id, job>>
clientVars == <<stop_requested, connected, next_id, callVars, linkVars, poolVars>>

\* A fresh client, not connected; a fresh pool.
ClientInit ==
    /\ stop_requested = FALSE
    /\ connected = FALSE
    /\ next_id = 1
    /\ call = "none"
    /\ outcome = "ok"
    /\ time_left = 0
    /\ line_left = 0
    /\ request_id = 0
    /\ job = NoJob
    /\ to_pool = <<>>
    /\ to_client = <<>>
    /\ peer = "none"
    /\ announced = 0
    /\ credited = FALSE
    /\ pool_accepted = 0

-----------------------------------------------------------------------------
(* The calls.                                                              *)

\* In progress: in receive_line, or at the head of the loop around it, where the
\* deadline is looked at.
Reading == outcome = "busy"
Checking == outcome = "checking"
Idle == ~Reading /\ ~Checking
Requesting == Reading /\ call \in Requests
Waiting == Reading /\ call = "wait_for_job"

\* The call returns; its deadline is no more.
Finish(result) ==
    /\ outcome' = result
    /\ time_left' = 0
    /\ line_left' = 0
    /\ UNCHANGED <<call, request_id, job>>

\* The loop starts, with this time.
StartLoop(seconds) == outcome' = "checking" /\ time_left' = seconds /\ line_left' = 0

\* Mutant: the deadline is computed inside the loop.
LoopAnew == StartLoop(IF call = "wait_for_job" THEN NotifySec ELSE RequestSec)

\* It goes round once more; its deadline stays.
LoopAgain == outcome' = "checking" /\ line_left' = 0 /\ UNCHANGED time_left

\* connected_ = false: the error paths of send_line and receive_line.
Break ==
    /\ connected' = FALSE
    /\ Finish("failed")
    /\ UNCHANGED <<stop_requested, next_id, linkVars, poolVars>>

\* connect_to_pool: name resolution and connect() succeed or they do not.
\* The receiver is a new StratumClient, so its ids start again at 1.
Connect(ok) ==
    /\ Idle
    /\ peer = "none"
    /\ call' = "connect"
    /\ outcome' = IF ok THEN "ok" ELSE "failed"
    /\ UNCHANGED timeVars
    /\ connected' = ok
    /\ peer' = IF ok THEN "open" ELSE "none"
    /\ next_id' = 1
    /\ announced' = 0
    /\ request_id' = 0
    /\ job' = NoJob
    /\ UNCHANGED <<stop_requested, to_pool, to_client, credited, pool_accepted>>

\* subscribe, authorize and submit_share, up to the send: the id is consumed
\* even if the send fails.  To a peer that has closed, send() may still
\* succeed; the request is lost.  To one that is there it may fail, as for a line
\* that is too long; the connection is then given up.
Send(request) ==
    /\ Idle
    /\ call' = request
    /\ request_id' = next_id
    /\ next_id' = next_id + 1
    /\ credited' = FALSE
    /\ \/ /\ connected
          /\ StartLoop(RequestSec)
          /\ to_pool' = IF peer = "open"
                        THEN Append(to_pool, [request |-> request, id |-> next_id])
                        ELSE to_pool
          /\ UNCHANGED connected
       \/ /\ outcome' = "failed"
          /\ connected' = FALSE
          /\ UNCHANGED <<timeVars, to_pool>>
    /\ UNCHANGED <<stop_requested, job, to_client, peer, announced, pool_accepted>>

WaitForJob ==
    /\ Idle
    /\ call' = "wait_for_job"
    /\ StartLoop(NotifySec)
    /\ UNCHANGED <<stop_requested, connected, next_id, request_id, job, linkVars, poolVars>>

\* Mutant: any response is taken for the one awaited.
MatchesAny(line) == line.kind = "response"

\* Only the response that carries the request's id answers it.
Matches(line) == line.kind = "response" /\ line.id = request_id

\* request_response returns the line; the caller judges it.
ReceiveResponse ==
    /\ Requesting
    /\ connected
    /\ to_client # <<>>
    /\ Matches(Head(to_client))
    /\ Finish(IF Accepts(call, Head(to_client).answer) THEN "ok" ELSE "failed")
    /\ to_client' = Tail(to_client)
    /\ UNCHANGED <<stop_requested, connected, next_id, to_pool, peer, poolVars>>

\* Any other line, a job announcement too, is read and dropped.
DropWhileRequesting ==
    /\ Requesting
    /\ connected
    /\ to_client # <<>>
    /\ ~Matches(Head(to_client))
    /\ to_client' = Tail(to_client)
    /\ LoopAgain
    /\ UNCHANGED <<stop_requested, connected, next_id, call, request_id, job, to_pool,
                   peer, poolVars>>

\* Mutant: the job is taken and its line left in the stream.
PeekNotify ==
    /\ Waiting
    /\ connected
    /\ to_client # <<>>
    /\ Head(to_client).kind = "notify"
    /\ job' = Head(to_client).job
    /\ outcome' = "ok"
    /\ time_left' = 0
    /\ line_left' = 0
    /\ UNCHANGED <<stop_requested, connected, next_id, call, request_id, linkVars, poolVars>>

ReceiveNotify ==
    /\ Waiting
    /\ connected
    /\ to_client # <<>>
    /\ Head(to_client).kind = "notify"
    /\ job' = Head(to_client).job
    /\ outcome' = "ok"
    /\ time_left' = 0
    /\ line_left' = 0
    /\ to_client' = Tail(to_client)
    /\ UNCHANGED <<stop_requested, connected, next_id, call, request_id, to_pool, peer,
                   poolVars>>

DropWhileWaiting ==
    /\ Waiting
    /\ connected
    /\ to_client # <<>>
    /\ Head(to_client).kind # "notify"
    /\ to_client' = Tail(to_client)
    /\ LoopAgain
    /\ UNCHANGED <<stop_requested, connected, next_id, call, request_id, job, to_pool,
                   peer, poolVars>>

\* The head of the loop: the deadline first, then, in wait_for_job only, the
\* stop request, then the next line, which gets one second.
Expire ==
    /\ Checking
    /\ time_left = 0
    /\ Finish("failed")
    /\ UNCHANGED <<stop_requested, connected, next_id, linkVars, poolVars>>

SeesStop == call = "wait_for_job" /\ stop_requested

CheckStopRequested ==
    /\ Checking
    /\ time_left > 0
    /\ SeesStop
    /\ Finish("failed")
    /\ UNCHANGED <<stop_requested, connected, next_id, linkVars, poolVars>>

ReadOn ==
    /\ Checking
    /\ time_left > 0
    /\ ~SeesStop
    /\ outcome' = "busy"
    /\ line_left' = 1
    /\ UNCHANGED <<stop_requested, connected, next_id, call, time_left, request_id, job,
                   linkVars, poolVars>>

\* receive_line returns without a line once its second is over, though bytes may
\* have come all the time.  What arrived of a line by then is forgotten, and the
\* rest is read as a line of its own.  The parsers search, so the rest may mean
\* nothing, what the line meant, or (its id is there, the result or error member
\* is not) an answer that is no success.
Remainders(line) ==
    {<<>>, <<line>>} \cup
        (IF line.kind = "response" THEN {<<[line EXCEPT !.answer = "error"]>>} ELSE {})

SecondPasses ==
    /\ Reading
    /\ connected
    /\ line_left = 0
    /\ \/ UNCHANGED to_client
       \/ /\ to_client # <<>>
          /\ \E rest \in Remainders(Head(to_client)) : to_client' = rest \o Tail(to_client)
    /\ LoopAgain
    /\ UNCHANGED <<stop_requested, connected, next_id, call, request_id, job, to_pool,
                   peer, poolVars>>

\* recv() reports the end of the stream or an error, once what had arrived
\* is read; on a client that lost its connection receive_line fails at once.
ConnectionLost ==
    /\ Reading
    /\ ~connected \/ (peer = "closed" /\ to_client = <<>>)
    /\ Break

\* A line of more than kMaxJsonLineBytes ends the connection.
LineTooLong ==
    /\ Reading
    /\ connected
    /\ to_client # <<>>
    /\ Break

\* ~StratumClient: the socket is closed.  A submit still on its way may or
\* may not reach the pool.
Close ==
    /\ Idle
    /\ connected' = FALSE
    /\ peer' = "none"
    /\ to_pool' = <<>>
    /\ to_client' = <<>>
    /\ IF \E i \in DOMAIN to_pool : to_pool[i].request = "submit"
       THEN \E late \in {0, 1} : pool_accepted' = pool_accepted + late
       ELSE UNCHANGED pool_accepted
    /\ call' = "none"
    /\ credited' = FALSE
    /\ UNCHANGED <<stop_requested, next_id, outcome, timeVars, request_id, job, announced>>

-----------------------------------------------------------------------------
(* The clock, the signal handler and the pool.                             *)

\* A second passes during a call.
Tick ==
    /\ ~Idle
    /\ time_left > 0
    /\ time_left' = time_left - 1
    /\ line_left' = 0
    /\ UNCHANGED <<stop_requested, connected, next_id, call, outcome, request_id, job,
                   linkVars, poolVars>>

\* on_signal raises the flag.  While the thread sleeps in select(), the call
\* returns EINTR, which receive_line takes for a broken connection.
Signal ==
    /\ stop_requested' = TRUE
    /\ UNCHANGED <<connected, next_id, callVars, linkVars, poolVars>>

SignalInSelect ==
    /\ Reading
    /\ connected
    /\ stop_requested' = TRUE
    /\ connected' = FALSE
    /\ Finish("failed")
    /\ UNCHANGED <<next_id, linkVars, poolVars>>

\* The pool answers the oldest request, once or (a resent line) twice.
PoolAnswer(answer, copies) ==
    /\ peer = "open"
    /\ to_pool # <<>>
    /\ Len(to_client) + copies <= MaxLines
    /\ LET req == Head(to_pool)
           line == Response(req.id, answer)
           credit == req.request = "submit" /\ BoolResult(answer)
       IN /\ to_client' = to_client \o [i \in 1 .. copies |-> line]
          /\ credited' = (credited \/ (credit /\ req.id = request_id))
          /\ pool_accepted' = pool_accepted + (IF credit THEN 1 ELSE 0)
    /\ to_pool' = Tail(to_pool)
    /\ UNCHANGED <<stop_requested, connected, next_id, callVars, peer, announced>>

PoolIgnore ==
    /\ peer = "open"
    /\ to_pool # <<>>
    /\ to_pool' = Tail(to_pool)
    /\ UNCHANGED <<stop_requested, connected, next_id, callVars, to_client, peer, poolVars>>

PoolNotify ==
    /\ peer = "open"
    /\ announced < MaxJobs
    /\ Len(to_client) < MaxLines
    /\ announced' = announced + 1
    /\ to_client' = Append(to_client, Notify(announced'))
    /\ UNCHANGED <<stop_requested, connected, next_id, callVars, to_pool, peer, credited,
                   pool_accepted>>

\* Lines of no use to the client, without end if the pool likes.
PoolOther ==
    /\ peer = "open"
    /\ Len(to_client) < MaxLines
    /\ to_client' = Append(to_client, Other)
    /\ UNCHANGED <<stop_requested, connected, next_id, callVars, to_pool, peer, poolVars>>

\* The pool goes away; what it had sent may be lost with it (a reset).
PoolClose ==
    /\ peer = "open"
    /\ peer' = "closed"
    /\ to_client' \in {to_client, <<>>}
    /\ to_pool' = <<>>
    /\ UNCHANGED <<stop_requested, connected, next_id, callVars, poolVars>>

ReceiveStep ==
    \/ ReceiveResponse
    \/ DropWhileRequesting
    \/ ReceiveNotify
    \/ DropWhileWaiting
    \/ Expire
    \/ CheckStopRequested
    \/ ReadOn
    \/ SecondPasses
    \/ ConnectionLost
    \/ LineTooLong

PoolStep ==
    \/ \E answer \in Answers, copies \in {1, 2} : PoolAnswer(answer, copies)
    \/ PoolIgnore
    \/ PoolNotify
    \/ PoolOther
    \/ PoolClose

SignalStep == Signal \/ SignalInSelect

-----------------------------------------------------------------------------
(***************************************************************************)
(* The client on its own: any order of calls, as its interface allows.     *)
(***************************************************************************)
\* Bounds: requests on a connection, so that the answers of two earlier ones may
\* come late; no submit once so many shares are accepted.
MaxRequests == 3
MaxAccepted == MaxJobs

CallStep ==
    \/ \E ok \in BOOLEAN : Connect(ok)
    \/ \E request \in Requests :
            /\ next_id <= MaxRequests
            /\ request = "submit" => pool_accepted < MaxAccepted
            /\ Send(request)
    \/ WaitForJob
    \/ Close

ClientNext == CallStep \/ ReceiveStep \/ Tick \/ PoolStep \/ SignalStep

\* The thread that is in a call gets to run, and time passes.  Nothing is assumed
\* of the pool.
ClientSpec ==
    /\ ClientInit
    /\ [][ClientNext]_clientVars
    /\ WF_clientVars(ReceiveStep)
    /\ WF_clientVars(Tick)

-----------------------------------------------------------------------------
(* Properties.                                                             *)

Lines == [kind : {"response", "notify", "other"}, id : Nat, answer : Answers, job : Nat]

\* Every variable holds a value of its type.
ClientTypeOK ==
    /\ stop_requested \in BOOLEAN
    /\ connected \in BOOLEAN
    /\ next_id \in Nat \ {0}
    /\ call \in {"none", "connect", "wait_for_job"} \cup Requests
    /\ outcome \in {"checking", "busy", "ok", "failed"}
    /\ time_left \in Nat
    /\ line_left \in {0, 1}
    /\ request_id \in Nat
    /\ job \in Nat
    /\ to_pool \in Seq([request : Requests, id : Nat])
    /\ to_client \in Seq(Lines)
    /\ peer \in {"none", "open", "closed"}
    /\ announced \in Nat
    /\ credited \in BOOLEAN
    /\ pool_accepted \in Nat

\* submit_share returns true only if the pool accepted that very share, even
\* though answers come late, twice, or not at all, and earlier calls may have
\* timed out on the same connection.
AcceptedMeansCredited == call = "submit" /\ outcome = "ok" => credited

\* wait_for_job hands out the jobs of a connection in the order the pool
\* announced them, and none of them twice.
JobsInOrder ==
    [][call' = "wait_for_job" /\ outcome' = "ok" /\ ~Idle => job' > job]_clientVars

\* Every request and every wait_for_job returns, whatever the pool does or leaves
\* undone: silence, lines without end that answer nothing, lines that arrive in
\* pieces, a half-open connection.  The deadline is one of the whole loop, and
\* reading a line, or a part of one, does not put it off.
CallsReturn == ~Idle ~> Idle

\* stratum.cpp:242 logs "Buffered notify while awaiting response" of a job that
\* arrives during a request: a job leaves the stream intact only into the hands
\* of wait_for_job, unless the connection is gone or the line was cut.
NotifyBuffered ==
    [][DropWhileRequesting => Head(to_client).kind # "notify"]_clientVars
=============================================================================
