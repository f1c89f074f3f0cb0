--------------------------- MODULE LocalRunProofs ---------------------------
(***************************************************************************)
(* Theorems about the miner against the fake pool, for every configuration *)
(* and every interference of time and user.  The invariants of the client  *)
(* and of the shares hold here too, with this pool in the place of an      *)
(* arbitrary one; what the theorems add is the order in which the fake     *)
(* pool writes its lines and that it serves one connection only, whenever  *)
(* it is started.                                                          *)
(***************************************************************************)
EXTENDS LocalRun, MinerRuntimeProofs

-----------------------------------------------------------------------------
(* The invariants of the client and of the shares.                         *)

FakeTypeOK ==
    /\ serving \in {"off", "listening", "connected", "eof", "ended"}
    /\ notified \in BOOLEAN
    /\ job_seq \in Nat \ {0}

\* The lines of one reply.
LEMMA Replies ==
    ASSUME NEW id \in Nat, NEW answer \in Answers, NEW seq \in Nat \ {0}
    PROVE  /\ <<Response(id, answer)>> \in Seq(Lines)
           /\ Members(<<Response(id, answer)>>) = {Response(id, answer)}
           /\ <<Response(id, answer), Notify(seq)>> \in Seq(Lines)
           /\ Members(<<Response(id, answer), Notify(seq)>>)
                = {Response(id, answer), Notify(seq)}
           /\ Ordered(<<Response(id, answer), Notify(seq)>>, seq - 1, seq)
<1> DEFINE r == Response(id, answer)
<1> DEFINE n == Notify(seq)
<1>1. /\ r \in Lines /\ r.kind = "response"
      /\ n \in Lines /\ n.kind = "notify" /\ n.job = seq
    BY LineTypes
<1> HIDE DEF r, n
<1>2. <<r>> \in Seq(Lines) /\ Members(<<r>>) = {r}
    BY <1>1 DEF Members
<1>3. <<r, n>> \in Seq(Lines) /\ Members(<<r, n>>) = {r, n}
    <2>1. <<r, n>> \in Seq(Lines) /\ Len(<<r, n>>) = 2
        BY <1>1
    <2>2. 1 .. 2 = {1, 2} /\ <<r, n>>[1] = r /\ <<r, n>>[2] = n
        OBVIOUS
    <2> QED
        BY <2>1, <2>2 DEF Members
<1>4. Ordered(<<r, n>>, seq - 1, seq)
    <2>1. \A line \in {r, n} : line.kind = "notify" => seq - 1 < line.job /\ line.job <= seq
        BY <1>1
    <2>2. \A i, j \in 1 .. Len(<<r, n>>) :
              i < j /\ <<r, n>>[i].kind = "notify" => FALSE
        <3>1. Len(<<r, n>>) = 2 /\ <<r, n>>[1] = r
            OBVIOUS
        <3>2. \A i, j \in 1 .. 2 : i < j => i = 1
            OBVIOUS
        <3> QED
            BY <1>1, <3>1, <3>2
    <2> QED
        BY <1>3, <2>1, <2>2 DEF Ordered
<1> QED
    BY <1>2, <1>3, <1>4 DEF r, n

\* A pool that reads a request and writes lines which carry its id, and says true
\* to a submit only when it credits the share, keeps the client's invariant.
LEMMA ReplyKeepsClientInv ==
    ASSUME ClientInv, peer = "open", to_pool # <<>>, to_pool' = Tail(to_pool),
           NEW lines \in Seq(Lines), to_client' = to_client \o lines,
           credited => credited', credited' \in BOOLEAN, pool_accepted' \in Nat,
           \A line \in Members(lines) :
              line.kind = "response" =>
                 /\ line.id = Head(to_pool).id
                 /\ /\ Head(to_pool).request = "submit" /\ line.answer = "true"
                    /\ line.id = request_id
                    => credited',
           UNCHANGED <<stop_requested, connected, next_id, callVars, peer, announced>>
    PROVE  ClientInv'
<1> DEFINE req == Head(to_pool)
<1>1. /\ to_pool \in Seq(PoolLine) /\ to_client \in Seq(Lines)
      /\ request_id \in Nat /\ next_id \in Nat
    BY DEF ClientInv, ClientTypeOK, PoolLine
<1>2. /\ req \in Members(to_pool) /\ Tail(to_pool) \in Seq(PoolLine)
      /\ Members(to_pool') \subseteq Members(to_pool)
    BY <1>1, MembersOfTail
<1>3. to_client' \in Seq(Lines) /\ Members(to_client') = Members(to_client) \cup Members(lines)
    BY <1>1, MembersOfConcat
<1>4. ClientTypeOK'
    <2>1. to_pool' \in Seq([request : Requests, id : Nat])
        BY <1>2 DEF PoolLine
    <2> QED
        BY <1>3, <2>1 DEF ClientInv, ClientTypeOK, callVars, timeVars
<1>5. LinkInv'
    BY DEF LinkInv
<1>6. IdInv'
    BY <1>2, <1>3 DEF ClientInv, StreamInv, IdInv, callVars
<1>7. AnswerInv'
    <2>1. call \in Requests /\ req.id = request_id => req.request = call
        BY <1>2 DEF ClientInv, StreamInv, AnswerInv
    <2> QED
        BY <1>2, <1>3, <2>1 DEF ClientInv, StreamInv, AnswerInv, callVars
<1>8. AcceptedMeansCredited'
    BY DEF ClientInv, StreamInv, AcceptedMeansCredited, callVars
<1> QED
    BY <1>4, <1>5, <1>6, <1>7, <1>8 DEF ClientInv, StreamInv

\* What AnswerAuthorize sends: the first time, the first job follows.
AuthorizeReply ==
    <<Response(RequestId, "true")>> \o (IF notified THEN <<>> ELSE <<Notify(job_seq)>>)

\* That reply, line by line.
LEMMA AuthorizeReplies ==
    AuthorizeReply = IF notified THEN <<Response(RequestId, "true")>>
                     ELSE <<Response(RequestId, "true"), Notify(job_seq)>>
<1> DEFINE r == Response(RequestId, "true")
<1> DEFINE n == Notify(job_seq)
<1> HIDE DEF r, n
<1>1. <<r>> \o <<>> = <<r>> /\ <<r>> \o <<n>> = <<r, n>>
    <2>1. <<r>> \in Seq({r, n}) /\ <<n>> \in Seq({r, n}) /\ <<r, n>> \in Seq({r, n})
        OBVIOUS
    <2>2. <<r>> \o <<>> = <<r>>
        BY <2>1, ConcatEmptySeq
    <2>3. /\ <<r>> \o <<n>> \in Seq({r, n})
          /\ Len(<<r>> \o <<n>>) = 2
          /\ (<<r>> \o <<n>>)[1] = r /\ (<<r>> \o <<n>>)[2] = n
        BY <2>1, ConcatProperties
    <2>4. /\ Len(<<r, n>>) = 2 /\ 1 .. 2 = {1, 2}
          /\ <<r, n>>[1] = r /\ <<r, n>>[2] = n
        OBVIOUS
    <2>5. <<r>> \o <<n>> = <<r, n>>
        <3> DEFINE s == <<r>> \o <<n>>
        <3> DEFINE t == <<r, n>>
        <3>1. s \in Seq({r, n}) /\ t \in Seq({r, n}) /\ Len(s) = Len(t)
            BY <2>1, <2>3, <2>4
        <3>2. \A i \in 1 .. Len(s) : s[i] = t[i]
            BY <2>3, <2>4
        <3> HIDE DEF s, t
        <3>3. s = t
            BY <3>1, <3>2, SeqEqual
        <3> QED
            BY <3>3 DEF s, t
    <2> QED
        BY <2>2, <2>5
<1>2. AuthorizeReply = IF notified THEN <<r>> \o <<>> ELSE <<r>> \o <<n>>
    BY DEF AuthorizeReply, r, n
<1>3. AuthorizeReply = IF notified THEN <<r>> ELSE <<r, n>>
    BY <1>1, <1>2
<1> QED
    BY <1>3 DEF r, n

\* The fake pool is such a pool.
LEMMA FakePoolKeepsClientInv == ClientInv /\ FakeTypeOK /\ FakeStep => ClientInv'
<1> SUFFICES ASSUME ClientInv, FakeTypeOK, FakeStep PROVE ClientInv'
    OBVIOUS
<1>1. /\ job_seq \in Nat \ {0} /\ job_seq + 1 \in Nat \ {0}
      /\ to_pool \in Seq(PoolLine) /\ pool_accepted \in Nat /\ credited \in BOOLEAN
    BY DEF FakeTypeOK, ClientInv, ClientTypeOK, PoolLine
<1>2. to_pool # <<>> => RequestId \in Nat
    <2>1. to_pool # <<>> => Head(to_pool) \in PoolLine
        BY <1>1, MembersOfTail
    <2> QED
        BY <2>1 DEF RequestId, PoolLine
<1>3. {"array", "true"} \subseteq Answers
    BY DEF Answers
<1>4. CASE Listen \/ Accept
    BY <1>4 DEF Listen, Accept, clientVars, callVars, timeVars, linkVars, poolVars, ClientInv,
        ClientTypeOK, StreamInv, LinkInv, IdInv, AnswerInv, AcceptedMeansCredited
<1>5. CASE AnswerSubscribe
    <2> DEFINE lines == <<Response(RequestId, "array")>>
    <2>1. lines \in Seq(Lines) /\ Members(lines) = {Response(RequestId, "array")}
        BY <1>1, <1>2, <1>3, <1>5, Replies DEF AnswerSubscribe, Handle
    <2>2. \A line \in Members(lines) : line.id = RequestId /\ line.answer # "true"
        BY <1>2, <1>3, <1>5, <2>1, LineTypes DEF AnswerSubscribe, Handle
    <2>3. /\ peer = "open" /\ to_pool # <<>> /\ to_pool' = Tail(to_pool)
          /\ to_client' = to_client \o lines
          /\ UNCHANGED <<stop_requested, connected, next_id, callVars, peer, announced,
                         credited, pool_accepted>>
        BY <1>5 DEF AnswerSubscribe, Handle
    <2> HIDE DEF lines
    <2> QED
        BY <1>1, <2>1, <2>2, <2>3, ReplyKeepsClientInv DEF RequestId
<1>6. CASE AnswerAuthorize
    <2> DEFINE lines == AuthorizeReply
    <2>1. /\ lines \in Seq(Lines)
          /\ Members(lines) \subseteq {Response(RequestId, "true"), Notify(job_seq)}
        BY <1>1, <1>2, <1>3, <1>6, Replies, AuthorizeReplies DEF AnswerAuthorize, Handle
    <2>2. \A line \in Members(lines) : line.kind = "response" => line.id = RequestId
        BY <1>1, <1>2, <1>3, <1>6, <2>1, LineTypes DEF AnswerAuthorize, Handle
    <2>3. /\ peer = "open" /\ to_pool # <<>> /\ to_pool' = Tail(to_pool)
          /\ Head(to_pool).request = "authorize"
          /\ to_client' = to_client \o lines
          /\ UNCHANGED <<stop_requested, connected, next_id, callVars, peer, announced,
                         credited, pool_accepted>>
        BY <1>6 DEF AnswerAuthorize, Handle, AuthorizeReply
    <2> HIDE DEF lines
    <2> QED
        BY <1>1, <2>1, <2>2, <2>3, ReplyKeepsClientInv DEF RequestId
<1>7. CASE AnswerSubmit
    <2> DEFINE next == job_seq + 1
    <2> DEFINE lines == <<Response(RequestId, "true"), Notify(next)>>
    <2>0. next \in Nat \ {0} /\ RequestId \in Nat
        BY <1>1, <1>2, <1>7 DEF AnswerSubmit, Handle
    <2> HIDE DEF next
    <2>1. lines \in Seq(Lines) /\ Members(lines) = {Response(RequestId, "true"), Notify(next)}
        BY <1>3, <2>0, Replies
    <2>2. \A line \in Members(lines) : line.kind = "response" => line.id = RequestId
        BY <1>3, <2>0, <2>1, LineTypes
    <2>3. /\ peer = "open" /\ to_pool # <<>> /\ to_pool' = Tail(to_pool)
          /\ to_client' = to_client \o lines
          /\ UNCHANGED <<stop_requested, connected, next_id, callVars, peer, announced>>
        BY <1>7 DEF AnswerSubmit, Handle, next
    <2>4. /\ credited' \in BOOLEAN /\ (credited => credited')
          /\ RequestId = request_id => credited'
        BY <1>7 DEF AnswerSubmit
    <2>5. pool_accepted' \in Nat
        BY <1>1, <1>7 DEF AnswerSubmit
    <2> HIDE DEF lines
    <2> QED
        BY <2>1, <2>2, <2>3, <2>4, <2>5, ReplyKeepsClientInv DEF RequestId
<1>8. CASE End
    <2>1. /\ UNCHANGED <<stop_requested, connected, next_id, callVars, to_pool, to_client,
                         poolVars>>
          /\ peer' = IF peer = "open" THEN "closed" ELSE peer
        BY <1>8 DEF End
    <2>2. ClientTypeOK'
        BY <2>1 DEF ClientInv, ClientTypeOK, callVars, timeVars, poolVars
    <2>3. StreamInv'
        BY <2>1 DEF ClientInv, ClientTypeOK, StreamInv, LinkInv, IdInv, AnswerInv,
            AcceptedMeansCredited, callVars, poolVars
    <2> QED
        BY <2>2, <2>3 DEF ClientInv
<1> QED
    BY <1>4, <1>5, <1>6, <1>7, <1>8 DEF FakeStep

\* It credits a share when it answers the submit, once.
LEMMA FakePoolKeepsShares ==
    RuntimeTypeOK /\ ShareInv /\ FakeStep /\ UNCHANGED <<at, stats>> => ShareInv'
<1> SUFFICES ASSUME RuntimeTypeOK, ShareInv, FakeStep, UNCHANGED <<at, stats>>
             PROVE  ShareInv'
    OBVIOUS
<1>0. pool_accepted \in Nat /\ credited \in BOOLEAN
    BY DEF RuntimeTypeOK, ClientTypeOK
<1>1. CASE Listen \/ Accept \/ End
    BY <1>1
    DEF Listen, Accept, End, clientVars, callVars, linkVars, poolVars, ShareInv, FlightInv, BalanceInv
<1>2. CASE AnswerSubscribe \/ AnswerAuthorize
    <2>1. /\ to_pool # <<>> /\ to_pool' = Tail(to_pool)
          /\ UNCHANGED <<call, request_id, credited, pool_accepted>>
        BY <1>2 DEF AnswerSubscribe, AnswerAuthorize, Handle, callVars
    <2>2. /\ credited' = (credited \/ (FALSE /\ Head(to_pool).id = request_id))
          /\ pool_accepted' = pool_accepted + (IF FALSE THEN 1 ELSE 0)
        BY <1>0, <2>1
    <2> QED
        BY <2>1, <2>2, AnswerKeepsShares
<1>3. CASE AnswerSubmit
    <2>1. /\ to_pool # <<>> /\ to_pool' = Tail(to_pool) /\ Head(to_pool).request = "submit"
          /\ UNCHANGED <<call, request_id>>
        BY <1>3 DEF AnswerSubmit, Handle, callVars
    <2>2. /\ credited' = (credited \/ (TRUE /\ Head(to_pool).id = request_id))
          /\ pool_accepted' = pool_accepted + (IF TRUE THEN 1 ELSE 0)
        BY <1>3 DEF AnswerSubmit, RequestId
    <2> QED
        BY <2>1, <2>2, AnswerKeepsShares
<1> QED
    BY <1>1, <1>2, <1>3 DEF FakeStep

BaseInv == RuntimeTypeOK /\ ClientInv /\ ShareInv /\ FakeTypeOK /\ unserved \in Nat

\* What holds of the miner and of its client holds at the start.
LEMMA BaseInvInit == LocalInit => BaseInv
<1> SUFFICES ASSUME LocalInit PROVE BaseInv
    OBVIOUS
<1>1. ClientInv
    BY ClientInvInit DEF LocalInit, RuntimeInit
<1>2. FakeTypeOK
    <2>1. notified \in BOOLEAN
        BY DEF LocalInit, FakeInit
    <2> QED
        BY <2>1 DEF LocalInit, FakeInit, FakeTypeOK
<1> QED
    BY <1>1, <1>2, RuntimeTypeInit, ShareInvInit DEF LocalInit, BaseInv

\* The steps inside a call, those of the clock and of the user are those of any run.
Reads == TimelyReceive \/ Wait \/ Untimely

LEMMA ReceivingIsReading ==
    Reads => /\ ReceiveStep \/ Tick \/ SignalStep
             /\ UNCHANGED <<at, loopVars, fakeVars, unserved>>
BY DEF Reads, TimelyReceive, Wait, Untimely, ReceiveStep

\* And in every step, with this pool in the place of any pool.
LEMMA BaseInvStep == BaseInv /\ [LocalNext]_localVars => BaseInv'
<1> SUFFICES ASSUME BaseInv, [LocalNext]_localVars PROVE BaseInv'
    OBVIOUS
<1> USE DEF BaseInv
<1>1. CASE MinerStep
    <2>1. [RuntimeNext]_runtimeVars
        BY <1>1 DEF MinerStep, RuntimeNext
    <2>2. FakeTypeOK'
        <3>1. notified' \in BOOLEAN
            BY <1>1 DEF MinerStep, FakeTypeOK
        <3> QED
            BY <1>1, <3>1 DEF MinerStep, FakeTypeOK
    <2>3. unserved' \in Nat
        BY <1>1 DEF MinerStep, One
    <2> QED
        BY <2>1, <2>2, <2>3, RuntimeTypeStep, ClientInvInRuntime, ShareInvStep
<1>2. CASE PoolSide
    <2>1. FakeStep /\ UNCHANGED <<at, loopVars, stats, unserved>>
        BY <1>2 DEF PoolSide, loopVars
    <2>2. ClientInv'
        BY <2>1, FakePoolKeepsClientInv
    <2>3. ShareInv'
        BY <2>1, FakePoolKeepsShares
    <2>4. RuntimeTypeOK'
        BY <2>1, <2>2 DEF RuntimeTypeOK, ClientInv, loopVars
    <2>5. FakeTypeOK'
        <3>1. notified' \in BOOLEAN
            BY <2>1
            DEF FakeStep, Listen, Accept, AnswerSubscribe, AnswerAuthorize, AnswerSubmit, End,
                FakeTypeOK
        <3> QED
            BY <2>1, <3>1
            DEF FakeStep, Listen, Accept, AnswerSubscribe, AnswerAuthorize, AnswerSubmit, End,
                Handle, FakeTypeOK
    <2> QED
        BY <2>1, <2>2, <2>3, <2>4, <2>5
<1>3. CASE Reads
    <2>1. /\ ReceiveStep \/ Tick \/ SignalStep
          /\ UNCHANGED <<at, loopVars, fakeVars, unserved>>
        BY <1>3, ReceivingIsReading
    <2>2. ClientInv'
        BY <2>1, ClientInvStep DEF AnyClientStep
    <2>3. RuntimeTypeOK'
        BY <2>1, <2>2 DEF RuntimeTypeOK, ClientInv, loopVars
    <2>4. ShareInv'
        BY <2>1, ReadingKeepsShares DEF ShareInv, FlightInv, BalanceInv, loopVars
    <2>5. FakeTypeOK'
        BY <2>1 DEF FakeTypeOK, fakeVars
    <2> QED
        BY <2>1, <2>2, <2>3, <2>4, <2>5
<1>4. CASE LocalExited \/ UNCHANGED localVars
    <2>1. UNCHANGED runtimeVars /\ UNCHANGED fakeVars /\ UNCHANGED unserved
        BY <1>4 DEF LocalExited, localVars
    <2>2. FakeTypeOK'
        BY <2>1 DEF FakeTypeOK, fakeVars
    <2> QED
        BY <2>1, <2>2, RuntimeTypeStep, ClientInvInRuntime, ShareInvStep
<1> QED
    BY <1>1, <1>2, <1>3, <1>4 DEF LocalNext, Reads

-----------------------------------------------------------------------------
(* The order of the lines.                                                 *)

NoJobIn(s) == \A line \in Members(s) : line.kind # "notify"

\* The job last announced has been read, and no share for it has been answered.
Taken ==
    \/ at = "waiting" /\ outcome = "ok"
    \/ at = "mining"
    \/ \E req \in Members(to_pool) : req.request = "submit"

\* The stream holds at most one job, the last one; when that has been taken, the
\* next is announced with the answer to its share.
JobInv ==
    /\ at = "waiting" => call = "wait_for_job"
    /\ Ordered(to_client, job_seq - 1, job_seq)
    /\ ~notified => NoJobIn(to_client)
    /\ Taken => job = job_seq /\ notified /\ NoJobIn(to_client)

\* At the start no job is announced or taken.
LEMMA JobInvInit == LocalInit => JobInv
<1> SUFFICES ASSUME LocalInit PROVE JobInv
    OBVIOUS
<1>1. /\ at = "loop" /\ to_client = <<>> /\ to_pool = <<>> /\ job_seq = 1
    BY DEF LocalInit, RuntimeInit, ClientInit, FakeInit
<1>2. ~Taken /\ NoJobIn(to_client)
    BY <1>1, MembersOfEmpty DEF Taken, NoJobIn
<1>3. Ordered(to_client, 0, 1)
    BY <1>1, OrderedEmpty
<1> QED
    BY <1>1, <1>2, <1>3 DEF JobInv

\* A step of the miner neither reads nor is sent a job; it takes none that was
\* not taken before.
LEMMA MinerKeepsJobs == BaseInv /\ JobInv /\ MinerStep => JobInv'
<1> SUFFICES ASSUME BaseInv, JobInv, MinerStep PROVE JobInv'
    OBVIOUS
<1>1. ShareInv' /\ job_seq \in Nat \ {0}
    BY BaseInvStep DEF BaseInv, FakeTypeOK, LocalNext
<1>2. SessionStep /\ UNCHANGED <<notified, job_seq>>
    BY DEF MinerStep
<1> USE DEF SessionStep, Goto, Call, ReturnFromSession
<1>3. to_client' \in {to_client, <<>>}
    BY <1>2
    DEF LoopTest, ConnectToPool, Connected, Subscribed, Authorized, StartFailed,
        SessionContinues, SessionEnds, JobReceived, NoJobReceived, MineAborted,
        MineFoundNothing, MineFound, SubmitAccepted, SubmitFailed, SessionSucceeded,
        SessionFailed, BackOff, WakeUp, Report, Exit, Connect, Send, WaitForJob, Close,
        clientVars, linkVars
<1>4. at' = "waiting" => call' = "wait_for_job" /\ outcome' = "checking"
    BY <1>2
    DEF LoopTest, ConnectToPool, Connected, Subscribed, Authorized, StartFailed,
        SessionContinues, SessionEnds, JobReceived, NoJobReceived, MineAborted,
        MineFoundNothing, MineFound, SubmitAccepted, SubmitFailed, SessionSucceeded,
        SessionFailed, BackOff, WakeUp, Report, Exit, WaitForJob, StartLoop
<1>5. at' \in {"mining", "submitting"} => Taken /\ job' = job
    BY <1>2
    DEF LoopTest, ConnectToPool, Connected, Subscribed, Authorized, StartFailed,
        SessionContinues, SessionEnds, JobReceived, NoJobReceived, MineAborted,
        MineFoundNothing, MineFound, SubmitAccepted, SubmitFailed, SessionSucceeded,
        SessionFailed, BackOff, WakeUp, Report, Exit, Send, clientVars, callVars, Taken
<1>6. Taken' => at' \in {"mining", "submitting"}
    BY <1>1, <1>4 DEF Taken, ShareInv, FlightInv
<1>7. NoJobIn(<<>>) /\ Ordered(<<>>, job_seq - 1, job_seq)
    BY <1>1, MembersOfEmpty, OrderedEmpty DEF NoJobIn
<1>8. Ordered(to_client', job_seq - 1, job_seq) /\ (NoJobIn(to_client) => NoJobIn(to_client'))
    BY <1>3, <1>7 DEF JobInv
<1> QED
    BY <1>2, <1>4, <1>5, <1>6, <1>8 DEF JobInv

\* Reading or cutting a line makes no job of it.
LEMMA NoJobInRest ==
    ASSUME NEW s \in Seq(Lines), s # <<>>, NoJobIn(s)
    PROVE  /\ NoJobIn(Tail(s))
           /\ \A rest \in Remainders(Head(s)) : NoJobIn(rest \o Tail(s))
<1>1. NoJobIn(Tail(s))
    BY MembersOfTail DEF NoJobIn
<1>2. ASSUME NEW rest \in Remainders(Head(s)), NEW line \in Members(rest \o Tail(s))
      PROVE  line.kind # "notify"
    <2>1. CASE line \in Members(s)
        BY <2>1 DEF NoJobIn
    <2>2. CASE Head(s).kind = "response" /\ line = [Head(s) EXCEPT !.answer = "error"]
        <3>1. Head(s) \in Lines
            BY MembersOfTail
        <3>2. line.kind = "response"
            BY <2>2, <3>1 DEF Lines
        <3> QED
            BY <3>2
    <2> QED
        BY <2>1, <2>2, RestOfLine
<1> QED
    BY <1>1, <1>2 DEF NoJobIn

\* What wait_for_job reads is the job last announced, and no other follows.
LEMMA ReadingKeepsJobs ==
    ASSUME BaseInv, JobInv, ReceiveStep \/ Tick \/ SignalStep, UNCHANGED <<at, fakeVars>>
    PROVE  JobInv'
<1>1. /\ to_client \in Seq(Lines) /\ job_seq \in Nat \ {0}
      /\ UNCHANGED <<at, call, to_pool, notified, job_seq>>
    BY ReadingKeepsShares DEF BaseInv, FakeTypeOK, ClientInv, ClientTypeOK, fakeVars
<1>2. Taken' => Taken \/ (at = "waiting" /\ outcome' = "ok" /\ outcome # "ok")
    BY <1>1 DEF Taken
<1>3. CASE ReceiveNotify
    <2>1. /\ to_client # <<>> /\ to_client' = Tail(to_client)
          /\ Head(to_client).kind = "notify" /\ job' = Head(to_client).job
        BY <1>3 DEF ReceiveNotify
    <2>2. Head(to_client) \in Lines /\ Head(to_client) \in Members(to_client)
        BY <1>1, <2>1, MembersOfTail
    <2>3. Head(to_client).job = job_seq
        <3>1. /\ job_seq - 1 < Head(to_client).job /\ Head(to_client).job <= job_seq
            BY <2>1, <2>2 DEF JobInv, Ordered
        <3>2. Head(to_client).job \in Nat
            BY <2>2 DEF Lines
        <3> QED
            BY <1>1, <3>1, <3>2
    <2>4. notified
        BY <2>1, <2>2 DEF JobInv, NoJobIn
    <2>5. /\ Ordered(Tail(to_client), job_seq - 1, job_seq)
          /\ Ordered(Tail(to_client), job_seq, job_seq)
        <3>1. job_seq - 1 \in Nat /\ job_seq \in Nat
            BY <1>1
        <3>2. Ordered(Tail(to_client), job_seq - 1, job_seq)
            BY <1>1, <2>1, <3>1, OrderedTail DEF JobInv
        <3>3. Ordered(Tail(to_client), Head(to_client).job, job_seq)
            BY <1>1, <2>1, <3>1, OrderedTail DEF JobInv
        <3> QED
            BY <2>3, <3>2, <3>3
    <2>6. NoJobIn(Tail(to_client))
        <3>1. ASSUME NEW line \in Members(Tail(to_client)), line.kind = "notify"
              PROVE  FALSE
            <4>1. job_seq < line.job /\ line.job <= job_seq
                BY <2>5, <3>1 DEF Ordered
            <4>2. line \in Lines
                BY <1>1, <2>1, <3>1, MembersOfTail, ElementOfSeq DEF Members
            <4>3. line.job \in Nat
                BY <4>2 DEF Lines
            <4> QED
                BY <1>1, <4>1, <4>3
        <3> QED
            BY <3>1 DEF NoJobIn
    <2> QED
        BY <1>1, <2>1, <2>3, <2>4, <2>5, <2>6 DEF JobInv
<1>4. ASSUME ~ReceiveNotify
      PROVE  job' = job /\ (at = "waiting" /\ outcome' = "ok" => outcome = "ok")
    <2>1. at = "waiting" => call = "wait_for_job"
        BY DEF JobInv
    <2>2. CASE Tick \/ SignalStep \/ CheckStopRequested \/ ReadOn \/ SecondPasses \/ Expire
               \/ ConnectionLost \/ LineTooLong \/ DropWhileRequesting \/ DropWhileWaiting
        BY <2>2
        DEF Tick, SignalStep, Signal, SignalInSelect, CheckStopRequested, ReadOn,
            SecondPasses, Expire, ConnectionLost, LineTooLong, LoopAgain, Break, Finish,
            DropWhileRequesting, DropWhileWaiting, callVars, Reading
    <2>3. CASE ReceiveResponse
        BY <2>1, <2>3 DEF ReceiveResponse, Requesting, Requests, Finish
    <2> QED
        BY <1>4, <2>2, <2>3 DEF ReceiveStep
<1>5. CASE ~ReceiveNotify
    <2>1. Taken' => Taken /\ job' = job
        BY <1>2, <1>4, <1>5
    <2>2. \/ to_client' = to_client
          \/ to_client # <<>> /\ to_client' = Tail(to_client)
          \/ to_client # <<>> /\ \E rest \in Remainders(Head(to_client)) :
                                    to_client' = rest \o Tail(to_client)
        BY <1>5
        DEF ReceiveStep, Tick, SignalStep, Signal, SignalInSelect, CheckStopRequested, ReadOn,
            SecondPasses, Expire, ConnectionLost, LineTooLong, Break, Finish,
            DropWhileRequesting, DropWhileWaiting, ReceiveResponse, linkVars
    <2>3. job_seq - 1 \in Nat /\ job_seq \in Nat
        BY <1>1
    <2>4. Ordered(to_client', job_seq - 1, job_seq)
        BY <1>1, <2>2, <2>3, OrderedTail, OrderedRest DEF JobInv
    <2>5. NoJobIn(to_client) => NoJobIn(to_client')
        BY <1>1, <2>2, NoJobInRest
    <2> QED
        BY <1>1, <2>1, <2>4, <2>5 DEF JobInv
<1> QED
    BY <1>3, <1>5

\* The pool announces a job when there is none in the stream: the first one, or
\* the one that follows a share.
LEMMA FakePoolKeepsJobs == BaseInv /\ JobInv /\ PoolSide => JobInv'
<1> SUFFICES ASSUME BaseInv, JobInv, PoolSide PROVE JobInv'
    OBVIOUS
<1>1. /\ to_client \in Seq(Lines) /\ to_pool \in Seq(PoolLine)
      /\ job_seq \in Nat \ {0} /\ job_seq - 1 \in Nat
    BY DEF BaseInv, FakeTypeOK, ClientInv, ClientTypeOK, PoolLine
<1>2. FakeStep /\ UNCHANGED <<at, call, outcome, job>>
    BY DEF PoolSide, FakeStep, Listen, Accept, AnswerSubscribe, AnswerAuthorize, AnswerSubmit,
        End, Handle, clientVars, callVars
<1>3. CASE Listen \/ Accept \/ End
    <2>1. UNCHANGED <<to_client, to_pool, notified, job_seq>>
        BY <1>3 DEF Listen, Accept, End, clientVars, linkVars
    <2> QED
        BY <1>2, <2>1 DEF JobInv, Taken
<1>4. ASSUME NEW request \in Requests, NEW lines, Handle(request, lines)
      PROVE  /\ RequestId \in Nat /\ to_client' = to_client \o lines
             /\ to_pool' = Tail(to_pool) /\ to_pool # <<>>
             /\ Head(to_pool) \in Members(to_pool) /\ Head(to_pool).request = request
             /\ Members(to_pool') \subseteq Members(to_pool)
    <2>1. to_pool # <<>> /\ to_pool' = Tail(to_pool) /\ to_client' = to_client \o lines
          /\ Head(to_pool).request = request
        BY <1>4 DEF Handle
    <2>2. /\ Head(to_pool) \in Members(to_pool) /\ Head(to_pool) \in PoolLine
          /\ Members(Tail(to_pool)) \subseteq Members(to_pool)
        BY <1>1, <2>1, MembersOfTail
    <2> QED
        BY <2>1, <2>2 DEF RequestId, PoolLine
<1>5. ASSUME NEW request \in Requests, NEW answer \in Answers,
             Handle(request, <<Response(RequestId, answer)>>), UNCHANGED job_seq,
             notified => notified'
      PROVE  JobInv'
    <2> DEFINE lines == <<Response(RequestId, answer)>>
    <2>1. /\ RequestId \in Nat /\ to_client' = to_client \o lines
          /\ Members(to_pool') \subseteq Members(to_pool)
        BY <1>4, <1>5
    <2>2. lines \in Seq(Lines) /\ Members(lines) = {Response(RequestId, answer)}
        BY <1>1, <2>1, Replies
    <2>3. \A line \in Members(lines) : line.kind # "notify"
        BY <2>1, <2>2, LineTypes
    <2> HIDE DEF lines
    <2>4. Ordered(to_client', job_seq - 1, job_seq)
        BY <1>1, <2>1, <2>2, <2>3, OrderedConcat DEF JobInv
    <2>5. NoJobIn(to_client) => NoJobIn(to_client')
        BY <1>1, <2>1, <2>2, <2>3, MembersOfConcat DEF NoJobIn
    <2>6. Taken' => Taken
        BY <1>2, <2>1 DEF Taken
    <2> QED
        BY <1>2, <1>5, <2>4, <2>5, <2>6 DEF JobInv
<1>6. ASSUME NEW request \in Requests, NEW answer \in Answers, NEW seq \in Nat \ {0},
             Handle(request, <<Response(RequestId, answer), Notify(seq)>>),
             NoJobIn(to_client), ~Taken', job_seq' = seq, notified'
      PROVE  JobInv'
    <2> DEFINE lines == <<Response(RequestId, answer), Notify(seq)>>
    <2>1. RequestId \in Nat /\ to_client' = to_client \o lines
        BY <1>4, <1>6
    <2>2. lines \in Seq(Lines) /\ Ordered(lines, seq - 1, seq)
        BY <2>1, Replies
    <2>3. seq - 1 \in Nat /\ seq \in Nat
        OBVIOUS
    <2> HIDE DEF lines
    <2>4. Ordered(to_client', seq - 1, seq)
        BY <1>1, <1>6, <2>1, <2>2, <2>3, OrderedConcat DEF NoJobIn
    <2> QED
        BY <1>2, <1>6, <2>4 DEF JobInv
<1>7. "subscribe" \in Requests /\ "authorize" \in Requests /\ "submit" \in Requests
      /\ "array" \in Answers /\ "true" \in Answers
    BY DEF Requests, Answers
<1>8. CASE AnswerSubscribe
    <2>1. Handle("subscribe", <<Response(RequestId, "array")>>) /\ UNCHANGED <<notified, job_seq>>
        BY <1>8 DEF AnswerSubscribe
    <2> QED
        BY <1>5, <1>7, <2>1
<1>9. CASE AnswerAuthorize
    <2>1. Handle("authorize", AuthorizeReply) /\ notified' /\ job_seq' = job_seq
        BY <1>9 DEF AnswerAuthorize, AuthorizeReply
    <2>2. CASE notified
        <3>1. Handle("authorize", <<Response(RequestId, "true")>>)
            BY <2>1, <2>2, AuthorizeReplies
        <3> QED
            BY <1>5, <1>7, <2>1, <3>1
    <2>3. CASE ~notified
        <3>1. Handle("authorize", <<Response(RequestId, "true"), Notify(job_seq)>>)
            BY <2>1, <2>3, AuthorizeReplies
        <3>2. NoJobIn(to_client) /\ ~Taken
            BY <2>3 DEF JobInv
        <3>3. Members(to_pool') \subseteq Members(to_pool)
            BY <1>4, <1>7, <3>1
        <3>4. ~Taken'
            BY <1>2, <3>2, <3>3 DEF Taken
        <3> QED
            BY <1>1, <1>6, <1>7, <2>1, <3>1, <3>2, <3>4
    <2> QED
        BY <2>2, <2>3
<1>10. CASE AnswerSubmit
    <2> DEFINE next == job_seq + 1
    <2>1. next \in Nat \ {0}
        BY <1>1
    <2>2. /\ Handle("submit", <<Response(RequestId, "true"), Notify(next)>>)
          /\ job_seq' = next /\ UNCHANGED notified
        BY <1>10 DEF AnswerSubmit
    <2> HIDE DEF next
    <2>3. /\ Head(to_pool) \in Members(to_pool) /\ Head(to_pool).request = "submit"
          /\ to_pool' = Tail(to_pool) /\ to_pool # <<>>
        BY <1>4, <1>7, <2>2
    <2>4. NoJobIn(to_client) /\ notified
        BY <2>3 DEF JobInv, Taken
    <2>5. at = "submitting" /\ Sole(to_pool)
        BY <2>3 DEF BaseInv, ShareInv, FlightInv
    <2>6. \A req \in Members(to_pool') : req.request # "submit"
        BY <1>1, <2>3, <2>5, SoleTail
    <2>7. ~Taken'
        BY <1>2, <2>5, <2>6 DEF Taken
    <2> QED
        BY <1>6, <1>7, <2>1, <2>2, <2>4, <2>7
<1> QED
    BY <1>2, <1>3, <1>8, <1>9, <1>10 DEF FakeStep

\* Together: every step keeps the place of the jobs.
LEMMA JobInvStep == BaseInv /\ JobInv /\ [LocalNext]_localVars => JobInv'
<1> SUFFICES ASSUME BaseInv, JobInv, [LocalNext]_localVars PROVE JobInv'
    OBVIOUS
<1>1. CASE MinerStep
    BY <1>1, MinerKeepsJobs
<1>2. CASE PoolSide
    BY <1>2, FakePoolKeepsJobs
<1>3. CASE Reads
    BY <1>3, ReceivingIsReading, ReadingKeepsJobs
<1>4. CASE LocalExited \/ UNCHANGED localVars
    BY <1>4
    DEF LocalExited, localVars, runtimeVars, clientVars, callVars, linkVars, fakeVars, JobInv,
        Taken
<1> QED
    BY <1>1, <1>2, <1>3, <1>4 DEF LocalNext, Reads

\* Both invariants hold in every run with the fake pool.
LEMMA LocalInvariant == LocalSpec => [](BaseInv /\ JobInv)
BY BaseInvInit, BaseInvStep, JobInvInit, JobInvStep, PTL DEF LocalSpec

\* However lines are delayed or cut and calls expire, the nonce that is searched
\* for is one of the job the pool announced last.
THEOREM MinerIsNeverStale == LocalSpec => []NeverStale
<1>1. BaseInv /\ JobInv => NeverStale
    BY DEF JobInv, Taken, NeverStale
<1> QED
    BY <1>1, LocalInvariant, PTL

-----------------------------------------------------------------------------
(* One connection.                                                         *)

Gone == serving \in {"eof", "ended"}

\* The failures so far are the connections tried too early, one of which may not
\* have been counted yet.
Uncounted == at = "returned" \/ (at = "connecting" /\ peer = "none")
FailedEarly ==
    /\ unserved = stats.session_failures + One(Uncounted)
    /\ at = "returned" => rc # 0

\* The client is connected from the connect that succeeded to the end of the
\* session.  The pool closes only when it ends; until its client has gone, no
\* session has failed that it was there for; after that it neither reads nor
\* writes, so nobody gets past the first request again.
ConnectionInv ==
    /\ peer = "closed" => serving = "ended"
    /\ serving = "off" => peer = "none"
    /\ at = "connecting" /\ peer = "none" => outcome # "ok"
    /\ at \in {"subscribing", "authorizing", "session", "waiting", "mining", "submitting"}
          => peer # "none"
    /\ ~Gone => FailedEarly
    /\ Gone => /\ to_client = <<>>
               /\ at \notin {"authorizing", "session", "waiting", "mining", "submitting"}
               /\ at = "subscribing" => outcome # "ok"

\* At the start there is no pool, and nothing has been tried.
LEMMA ConnectionInvInit == LocalInit => ConnectionInv
BY DEF LocalInit, RuntimeInit, ClientInit, FakeInit, ZeroStats, ConnectionInv, Gone,
    FailedEarly, Uncounted, One

\* The miner keeps it: a second connection finds the pool gone.
LEMMA MinerKeepsConnection ==
    BaseInv /\ ConnectionInv /\ MinerStep => ConnectionInv'
<1> SUFFICES ASSUME BaseInv, ConnectionInv, MinerStep PROVE ConnectionInv'
    OBVIOUS
<1>1. /\ serving \in {"off", "listening", "connected", "eof", "ended"}
      /\ peer \in {"none", "open", "closed"}
      /\ stats \in Stats /\ unserved \in Nat
    BY DEF BaseInv, FakeTypeOK, RuntimeTypeOK, ClientTypeOK
<1>2. /\ SessionStep
      /\ at = "connect" => (peer' = "open" <=> serving \notin {"off", "ended"})
      /\ serving' = IF peer = "open" /\ peer' = "none" /\ serving \in {"listening", "connected"}
                    THEN "eof"
                    ELSE serving
      /\ unserved' = unserved + One(at = "connect" /\ serving = "off")
    BY DEF MinerStep
<1> USE DEF Goto, Call, ReturnFromSession, loopVars
<1> DEFINE Connection == {"subscribing", "authorizing", "session", "waiting", "mining",
                          "submitting"}
<1>3. ASSUME UNCHANGED <<peer, to_client>>,
             at \notin {"connect", "returned"}, at' \notin {"returned", "connecting"},
             at' \in Connection => at \in Connection \/ (at = "connecting" /\ outcome = "ok"),
             Gone => at' \notin Connection \/ (at' = "subscribing" /\ outcome' # "ok"),
             at = "connecting" => outcome = "ok",
             stats'.session_failures = stats.session_failures
      PROVE  ConnectionInv'
    <2>1. serving' = serving /\ unserved' = unserved
        BY <1>1, <1>2, <1>3 DEF One
    <2>2. ~Uncounted /\ ~Uncounted'
        BY <1>3 DEF Uncounted, ConnectionInv
    <2>3. ~Gone' => FailedEarly'
        BY <1>3, <2>1, <2>2 DEF ConnectionInv, Gone, FailedEarly, One
    <2> QED
        BY <1>3, <2>1, <2>3 DEF ConnectionInv, Gone
<1>4. ASSUME Close, at' = "returned", at \in Connection
      PROVE  ConnectionInv'
    <2>1. to_client' = <<>> /\ peer' = "none"
        BY <1>4 DEF Close
    <2>2. Gone'
        BY <1>1, <1>2, <1>4, <2>1 DEF ConnectionInv, Gone
    <2>3. serving' # "off"
        BY <2>2 DEF Gone
    <2> QED
        BY <1>4, <2>1, <2>2, <2>3 DEF ConnectionInv
<1>5. CASE LoopTest \/ Authorized \/ MineFoundNothing \/ BackOff \/ WakeUp \/ Report \/ Exit
    BY <1>3, <1>5
    DEF LoopTest, Authorized, MineFoundNothing, BackOff, WakeUp, Report, Exit, clientVars,
        linkVars, ConnectionInv, Gone
<1>6. CASE ConnectToPool
    <2>1. /\ at = "connect" /\ at' = "connecting" /\ UNCHANGED <<stats, to_client>>
          /\ peer = "none" /\ peer' \in {"none", "open"}
          /\ peer' = "none" => outcome' # "ok"
        BY <1>6 DEF ConnectToPool, Connect
    <2>2. serving' = serving
        BY <1>2, <2>1
    <2>3. ~Gone => FailedEarly'
        <3>1. ~Gone => unserved = stats.session_failures
            BY <1>1, <2>1 DEF ConnectionInv, FailedEarly, Uncounted, One, Stats
        <3>2. ~Gone => (serving = "off" <=> peer' = "none")
            BY <1>1, <1>2, <2>1 DEF Gone
        <3> QED
            BY <1>2, <2>1, <3>1, <3>2 DEF FailedEarly, Uncounted, One
    <2> QED
        BY <1>2, <2>1, <2>2, <2>3 DEF ConnectionInv, Gone
<1>7. CASE Connected \/ Subscribed \/ SessionContinues
    BY <1>3, <1>7 DEF Connected, Subscribed, SessionContinues, Send, WaitForJob, StartLoop,
        linkVars, ConnectionInv, Gone
<1>8. CASE JobReceived
    <2>1. stats'.session_failures = stats.session_failures
        BY <1>1, <1>8 DEF JobReceived, Stats
    <2> QED
        BY <1>3, <1>8, <2>1 DEF JobReceived, clientVars, linkVars, ConnectionInv, Gone
<1>9. CASE MineFound
    <2>1. stats'.session_failures = stats.session_failures
        BY <1>1, <1>9 DEF MineFound, Stats
    <2> QED
        BY <1>3, <1>9, <2>1 DEF MineFound, Send, ConnectionInv, Gone
<1>10. CASE SubmitAccepted
    <2>1. stats'.session_failures = stats.session_failures
        BY <1>1, <1>10 DEF SubmitAccepted, Stats
    <2> QED
        BY <1>3, <1>10, <2>1 DEF SubmitAccepted, clientVars, linkVars, ConnectionInv, Gone
<1>11. CASE \/ at # "connecting" /\ StartFailed
            \/ SessionEnds \/ NoJobReceived \/ MineAborted \/ SubmitFailed
    BY <1>4, <1>11 DEF StartFailed, SessionEnds, NoJobReceived, MineAborted, SubmitFailed
<1>12. CASE at = "connecting" /\ StartFailed
    <2>1. /\ Close /\ at' = "returned" /\ rc' = 4 /\ UNCHANGED stats
          /\ to_client' = <<>> /\ peer' = "none"
        BY <1>12 DEF StartFailed, Close
    <2>2. unserved' = unserved
        BY <1>1, <1>2, <1>12 DEF One
    <2>3. CASE peer # "none"
        <3>1. Gone' /\ serving' # "off"
            BY <1>1, <1>2, <2>1, <2>3 DEF ConnectionInv, Gone
        <3> QED
            BY <2>1, <3>1 DEF ConnectionInv
    <2>4. CASE peer = "none"
        <3>1. serving' = serving
            BY <1>2, <2>4
        <3>2. ~Gone => FailedEarly'
            BY <1>12, <2>1, <2>2, <2>4 DEF ConnectionInv, FailedEarly, Uncounted, One
        <3> QED
            BY <2>1, <3>1, <3>2 DEF ConnectionInv, Gone
    <2> QED
        BY <2>3, <2>4
<1>13. CASE SessionSucceeded \/ SessionFailed
    <2>1. /\ at = "returned" /\ at' \in {"loop", "report", "backoff"}
          /\ UNCHANGED <<peer, to_client>>
        BY <1>13 DEF SessionSucceeded, SessionFailed, clientVars, linkVars
    <2>2. serving' = serving /\ unserved' = unserved
        BY <1>1, <1>2, <2>1 DEF One
    <2>3. ~Gone => FailedEarly'
        <3>1. ~Gone => /\ rc # 0
                       /\ unserved = stats.session_failures + 1
            BY <2>1 DEF ConnectionInv, FailedEarly, Uncounted, One
        <3>2. rc # 0 => stats'.session_failures = stats.session_failures + 1
            BY <1>1, <1>13 DEF SessionSucceeded, SessionFailed, Stats
        <3>3. ~Uncounted'
            BY <2>1 DEF Uncounted
        <3>4. stats.session_failures \in Nat
            BY <1>1 DEF Stats
        <3> QED
            BY <1>1, <2>1, <2>2, <3>1, <3>2, <3>3, <3>4 DEF FailedEarly, One
    <2> QED
        BY <2>1, <2>2, <2>3 DEF ConnectionInv, Gone
<1> QED
    BY <1>2, <1>5, <1>6, <1>7, <1>8, <1>9, <1>10, <1>11, <1>12, <1>13 DEF SessionStep

\* The pool is started once and listens once.
LEMMA ConnectionInvStep ==
    BaseInv /\ ConnectionInv /\ [LocalNext]_localVars => ConnectionInv'
<1> SUFFICES ASSUME BaseInv, ConnectionInv, [LocalNext]_localVars PROVE ConnectionInv'
    OBVIOUS
<1> USE DEF FailedEarly, Uncounted, One
<1>1. CASE MinerStep
    BY <1>1, MinerKeepsConnection
<1>2. CASE PoolSide
    <2>1. FakeStep /\ UNCHANGED <<at, rc, stats, unserved>>
        BY <1>2 DEF PoolSide, loopVars
    <2>2. CASE Listen \/ Accept
        BY <2>1, <2>2
        DEF Listen, Accept, clientVars, callVars, linkVars, ConnectionInv, Gone
    <2>3. CASE AnswerSubscribe \/ AnswerAuthorize \/ AnswerSubmit
        BY <2>1, <2>3
        DEF AnswerSubscribe, AnswerAuthorize, AnswerSubmit, Handle, callVars, ConnectionInv,
            Gone
    <2>4. CASE End
        BY <2>1, <2>4 DEF End, callVars, ConnectionInv, Gone
    <2> QED
        BY <2>1, <2>2, <2>3, <2>4 DEF FakeStep
<1>3. CASE Reads
    <2>1. /\ ReceiveStep \/ Tick \/ SignalStep
          /\ UNCHANGED <<at, rc, stats, serving, unserved>>
        BY <1>3, ReceivingIsReading DEF loopVars, fakeVars
    <2>2. /\ peer' = peer
          /\ to_client = <<>> => to_client' = <<>> /\ (outcome' = "ok" => outcome = "ok")
        BY <2>1
        DEF ReceiveStep, ReceiveResponse, DropWhileRequesting, ReceiveNotify,
            DropWhileWaiting, CheckStopRequested, ReadOn, SecondPasses, Expire,
            ConnectionLost, LineTooLong, LoopAgain, Break, Finish, Tick, SignalStep, Signal,
            SignalInSelect, callVars, linkVars, Reading
    <2>3. peer = "none" => to_client = <<>>
        BY DEF BaseInv, ClientInv, StreamInv, LinkInv
    <2> QED
        BY <2>1, <2>2, <2>3 DEF ConnectionInv, Gone
<1>4. CASE LocalExited \/ UNCHANGED localVars
    BY <1>4
    DEF LocalExited, localVars, runtimeVars, clientVars, callVars, linkVars, loopVars,
        fakeVars, ConnectionInv, Gone
<1> QED
    BY <1>1, <1>2, <1>3, <1>4 DEF LocalNext, Reads

\* Whenever the pool is started: after the first session that failed although the
\* pool was there, a local run earns nothing, however often it reconnects.
THEOREM OneSessionEarns == LocalSpec => OneSession
<1>1. BaseInv /\ ConnectionInv /\ [LocalNext]_localVars =>
          [stats.session_failures > unserved
              => stats.accepted_count' = stats.accepted_count]_localVars
    <2> SUFFICES ASSUME BaseInv, ConnectionInv, LocalNext, stats.session_failures > unserved
                 PROVE  stats'.accepted_count = stats.accepted_count
        OBVIOUS
    <2>1. stats \in Stats /\ stats.session_failures \in Nat /\ unserved \in Nat
        BY DEF BaseInv, RuntimeTypeOK, Stats
    <2>2. at # "submitting"
        BY <2>1 DEF ConnectionInv, FailedEarly, Uncounted, One
    <2>3. CASE MinerStep
        BY <2>1, <2>2, <2>3
        DEF MinerStep, SessionStep, loopVars, Call, ReturnFromSession, LoopTest,
            ConnectToPool, Connected, Subscribed, Authorized, StartFailed, SessionContinues,
            SessionEnds, JobReceived, NoJobReceived, MineAborted, MineFoundNothing,
            MineFound, SubmitAccepted, SubmitFailed, SessionSucceeded, SessionFailed,
            BackOff, WakeUp, Report, Exit, Stats
    <2>4. CASE PoolSide \/ TimelyReceive \/ Wait \/ Untimely \/ LocalExited
        BY <2>4
        DEF PoolSide, TimelyReceive, Wait, Untimely, LocalExited, localVars, runtimeVars,
            loopVars
    <2> QED
        BY <2>3, <2>4 DEF LocalNext
<1> QED
    BY <1>1, LocalInvariant, ConnectionInvInit, ConnectionInvStep, PTL DEF LocalSpec, OneSession
=============================================================================
