------------------------ MODULE StratumClientProofs ------------------------
(***************************************************************************)
(* Theorems about the Stratum client, for every number of jobs a pool      *)
(* announces and every length of the stream.  The lemmas about single      *)
(* actions are stated for any order of calls, so that they also hold of    *)
(* the sessions of MinerRuntime.                                           *)
(***************************************************************************)
EXTENDS StratumClient, SequenceTheorems, TLAPS

-----------------------------------------------------------------------------
(* What is in a stream: the order matters only for the jobs.               *)

Members(s) == {s[i] : i \in 1 .. Len(s)}

\* Reading a line takes it out of the stream and adds none.
LEMMA MembersOfTail ==
    ASSUME NEW S, NEW s \in Seq(S), s # <<>>
    PROVE  /\ Head(s) \in S /\ Tail(s) \in Seq(S)
           /\ Head(s) \in Members(s)
           /\ Members(Tail(s)) \subseteq Members(s)
BY HeadTailProperties, EmptySeq, LenProperties DEF Members

\* Writing to a stream adds what was written.
LEMMA MembersOfConcat ==
    ASSUME NEW S, NEW s \in Seq(S), NEW t \in Seq(S)
    PROVE  s \o t \in Seq(S) /\ Members(s \o t) = Members(s) \cup Members(t)
<1>1. /\ s \o t \in Seq(S)
      /\ Len(s \o t) = Len(s) + Len(t)
      /\ \A i \in 1 .. Len(s) + Len(t) :
            (s \o t)[i] = IF i <= Len(s) THEN s[i] ELSE t[i - Len(s)]
    BY ConcatProperties
<1>2. Len(s) \in Nat /\ Len(t) \in Nat
    BY LenProperties
<1>3. Members(s \o t) \subseteq Members(s) \cup Members(t)
    BY <1>1, <1>2 DEF Members
<1>4. Members(s) \subseteq Members(s \o t)
    BY <1>1, <1>2 DEF Members
<1>5. ASSUME NEW i \in 1 .. Len(t) PROVE t[i] \in Members(s \o t)
    <2>1. i + Len(s) \in 1 .. Len(s) + Len(t) /\ (s \o t)[i + Len(s)] = t[i]
        BY <1>1, <1>2
    <2> QED
        BY <1>1, <2>1 DEF Members
<1> QED
    BY <1>1, <1>3, <1>4, <1>5 DEF Members

\* The same for one line.
LEMMA MembersOfAppend ==
    ASSUME NEW S, NEW s \in Seq(S), NEW e \in S
    PROVE  Append(s, e) \in Seq(S) /\ Members(Append(s, e)) = Members(s) \cup {e}
<1>1. Len(s) \in Nat
    BY LenProperties
<1> QED
    BY <1>1, AppendProperties DEF Members

\* A new or closed stream holds no line.
LEMMA MembersOfEmpty == Members(<<>>) = {}
BY DEF Members

-----------------------------------------------------------------------------
(* The inductive invariant.                                                *)

PoolLine == [request : Requests, id : Nat]

\* A connection is where the streams are: without one they are empty.
LinkInv ==
    /\ connected => peer # "none"
    /\ peer = "none" => to_pool = <<>> /\ to_client = <<>>

\* No id has been given out that is not below next_id, in either stream.
IdInv ==
    /\ request_id < next_id
    /\ \A req \in Members(to_pool) : req.id < next_id
    /\ \A line \in Members(to_client) : line.kind = "response" => line.id < next_id

\* What carries the id of the pending request belongs to it: a request of this id
\* that the pool has not read is the one the call made, and an answer of this id
\* that says true to a submit means that the pool has credited the share.
AnswerInv ==
    call \in Requests =>
        /\ \A req \in Members(to_pool) : req.id = request_id => req.request = call
        /\ call = "submit" =>
              \A line \in Members(to_client) :
                  line.kind = "response" /\ line.id = request_id /\ line.answer = "true"
                      => credited

StreamInv == LinkInv /\ IdInv /\ AnswerInv /\ AcceptedMeansCredited

ClientInv == ClientTypeOK /\ StreamInv

\* MembersOfConcat for the stream to the client.
LEMMA LinesConcat ==
    \A s, t \in Seq(Lines) :
        s \o t \in Seq(Lines) /\ Members(s \o t) = Members(s) \cup Members(t)
BY MembersOfConcat

\* A stream that shrinks, and a line that is cut, say nothing new.
LEMMA LineTypes ==
    /\ \A id \in Nat, answer \in Answers :
          /\ Response(id, answer) \in Lines
          /\ Response(id, answer).kind = "response"
          /\ Response(id, answer).id = id
          /\ Response(id, answer).answer = answer
    /\ \A j \in Nat : Notify(j) \in Lines /\ Notify(j).kind = "notify" /\ Notify(j).job = j
    /\ Other \in Lines /\ Other.kind = "other"
BY DEF Response, Notify, Other, Lines, NoJob, Answers

\* Before the first connection the streams are empty.
LEMMA ClientInvInit == ClientInit => ClientInv
<1> SUFFICES ASSUME ClientInit PROVE ClientInv
    OBVIOUS
<1>1. ClientTypeOK
    <2>1. to_pool = <<>> /\ to_client = <<>>
        BY DEF ClientInit
    <2>2. to_pool \in Seq([request : Requests, id : Nat]) /\ to_client \in Seq(Lines)
        BY <2>1, EmptySeq
    <2>3. {stop_requested, connected, credited} \subseteq BOOLEAN
        BY DEF ClientInit
    <2>4. ~connected /\ next_id = 1 /\ call = "none" /\ outcome = "ok" /\ request_id = 0
        BY DEF ClientInit
    <2>5. job = 0 /\ peer = "none" /\ announced = 0 /\ pool_accepted = 0
        BY DEF ClientInit, NoJob
    <2>6. time_left = 0 /\ line_left = 0
        BY DEF ClientInit
    <2> QED
        BY <2>2, <2>3, <2>4, <2>5, <2>6 DEF ClientTypeOK
<1>2. LinkInv /\ IdInv /\ AnswerInv /\ AcceptedMeansCredited
    BY MembersOfEmpty DEF ClientInit, LinkInv, IdInv, AnswerInv, AcceptedMeansCredited, Requests
<1> QED
    BY <1>1, <1>2 DEF ClientInv, StreamInv

-----------------------------------------------------------------------------
(* The steps.                                                              *)

\* Calls in any order and number, as no bound of ClientNext restricts them.
AnyCall ==
    \/ \E ok \in BOOLEAN : Connect(ok)
    \/ \E request \in Requests : Send(request)
    \/ WaitForJob
    \/ Close

AnyClientStep == AnyCall \/ ReceiveStep \/ Tick \/ PoolStep \/ SignalStep

\* What reading, cutting and answering do to the stream to the client.
LEMMA RestOfLine ==
    ASSUME NEW s \in Seq(Lines), s # <<>>, NEW rest \in Remainders(Head(s))
    PROVE  /\ rest \o Tail(s) \in Seq(Lines)
           /\ \A line \in Members(rest \o Tail(s)) :
                 \/ line \in Members(s)
                 \/ /\ Head(s).kind = "response"
                    /\ line = [Head(s) EXCEPT !.answer = "error"]
<1>1. /\ Head(s) \in Lines /\ Tail(s) \in Seq(Lines)
      /\ Head(s) \in Members(s) /\ Members(Tail(s)) \subseteq Members(s)
    BY MembersOfTail
<1>2. [Head(s) EXCEPT !.answer = "error"] \in Lines
    BY <1>1 DEF Lines, Answers
<1>3. ASSUME NEW e \in Lines, rest = <<e>>
      PROVE  rest \o Tail(s) \in Seq(Lines) /\ Members(rest \o Tail(s)) = {e} \cup Members(Tail(s))
    <2>1. rest \in Seq(Lines) /\ Members(rest) = {e}
        BY <1>3 DEF Members
    <2> QED
        BY <1>1, <2>1, LinesConcat
<1>4. CASE rest = <<>>
    <2>1. rest \o Tail(s) = Tail(s)
        BY <1>1, <1>4, ConcatEmptySeq
    <2> QED
        BY <1>1, <2>1
<1>5. CASE rest = <<Head(s)>>
    BY <1>1, <1>3, <1>5
<1>6. CASE Head(s).kind = "response" /\ rest = <<[Head(s) EXCEPT !.answer = "error"]>>
    BY <1>1, <1>2, <1>3, <1>6
<1> QED
    BY <1>4, <1>5, <1>6 DEF Remainders

\* A line, once or twice, is a stream of this line.
LEMMA CopiesOf ==
    ASSUME NEW line \in Lines, NEW copies \in {1, 2}
    PROVE  /\ [i \in 1 .. copies |-> line] \in Seq(Lines)
           /\ Members([i \in 1 .. copies |-> line]) = {line}
<1> DEFINE written == [i \in 1 .. copies |-> line]
<1>1. copies \in Nat /\ written \in [1 .. copies -> Lines]
    OBVIOUS
<1>2. written \in Seq(Lines) /\ Len(written) = copies
    BY <1>1, SeqDef, LenProperties
<1>3. \A i \in 1 .. copies : written[i] = line
    OBVIOUS
<1>4. 1 \in 1 .. copies
    OBVIOUS
<1> HIDE DEF written
<1>5. Members(written) = {line}
    BY <1>2, <1>3, <1>4 DEF Members
<1> QED
    BY <1>2, <1>5 DEF written

\* A pool that answers twice writes the same line twice.
LEMMA Copies ==
    ASSUME NEW s \in Seq(Lines), NEW line \in Lines, NEW copies \in {1, 2}
    PROVE  /\ s \o [i \in 1 .. copies |-> line] \in Seq(Lines)
           /\ Members(s \o [i \in 1 .. copies |-> line]) = Members(s) \cup {line}
<1> QED
    BY CopiesOf, LinesConcat

\* Every step of the client, of the pool and of the signal handler keeps the types.
LEMMA ClientTypeStep == ClientTypeOK /\ [AnyClientStep]_clientVars => ClientTypeOK'
<1> SUFFICES ASSUME ClientTypeOK, [AnyClientStep]_clientVars PROVE ClientTypeOK'
    OBVIOUS
<1>0. RequestSec \in Nat /\ NotifySec \in Nat
    BY ClientAssumption
<1> USE <1>0
<1> USE DEF ClientTypeOK, callVars, timeVars, linkVars, poolVars, StartLoop, LoopAgain
<1>1. ASSUME NEW ok \in BOOLEAN, Connect(ok) PROVE ClientTypeOK'
    <2>1. connected' \in BOOLEAN
        BY <1>1 DEF Connect
    <2> QED
        BY <1>1, <2>1 DEF Connect, NoJob
<1>2. ASSUME NEW request \in Requests, Send(request) PROVE ClientTypeOK'
    <2>1. connected' \in BOOLEAN /\ credited' \in BOOLEAN
        BY <1>2 DEF Send
    <2>2. to_pool' \in Seq(PoolLine)
        <3>1. [request |-> request, id |-> next_id] \in PoolLine
            BY DEF PoolLine
        <3>2. Append(to_pool, [request |-> request, id |-> next_id]) \in Seq(PoolLine)
            BY <3>1, AppendProperties DEF PoolLine
        <3>3. \/ to_pool' = to_pool
              \/ to_pool' = Append(to_pool, [request |-> request, id |-> next_id])
            BY <1>2 DEF Send
        <3> QED
            BY <3>2, <3>3 DEF PoolLine
    <2> QED
        BY <1>2, <2>1, <2>2 DEF Send, PoolLine
<1>3. CASE WaitForJob
    BY <1>3 DEF WaitForJob
<1>4. CASE Close
    <2>1. connected' \in BOOLEAN /\ credited' \in BOOLEAN
        BY <1>4 DEF Close
    <2>2. pool_accepted' \in Nat
        BY <1>4 DEF Close
    <2>3. to_pool' \in Seq([request : Requests, id : Nat]) /\ to_client' \in Seq(Lines)
        BY <1>4, EmptySeq DEF Close
    <2> QED
        BY <1>4, <2>1, <2>2, <2>3 DEF Close
<1>5. CASE ReceiveResponse
    BY <1>5, MembersOfTail DEF ReceiveResponse, Finish
<1>6. CASE DropWhileRequesting
    BY <1>6, MembersOfTail DEF DropWhileRequesting
<1>7. CASE ReceiveNotify
    <2>1. Head(to_client) \in Lines /\ Tail(to_client) \in Seq(Lines)
        BY <1>7, MembersOfTail DEF ReceiveNotify
    <2>2. Head(to_client).job \in Nat
        BY <2>1 DEF Lines
    <2> QED
        BY <1>7, <2>1, <2>2 DEF ReceiveNotify
<1>8. CASE DropWhileWaiting
    BY <1>8, MembersOfTail DEF DropWhileWaiting
<1>9. CASE CheckStopRequested \/ ReadOn \/ Tick
    BY <1>9 DEF CheckStopRequested, ReadOn, Tick, Finish
<1>10. CASE SecondPasses
    BY <1>10, RestOfLine DEF SecondPasses
<1>11. CASE Expire
    BY <1>11 DEF Expire, Finish
<1>12. CASE ConnectionLost \/ LineTooLong
    <2>1. connected' \in BOOLEAN
        BY <1>12 DEF ConnectionLost, LineTooLong, Break
    <2> QED
        BY <1>12, <2>1 DEF ConnectionLost, LineTooLong, Break, Finish
<1>13. CASE SignalStep
    <2>1. connected' \in BOOLEAN /\ stop_requested' \in BOOLEAN
        BY <1>13 DEF SignalStep, Signal, SignalInSelect
    <2> QED
        BY <1>13, <2>1 DEF SignalStep, Signal, SignalInSelect, Finish
<1>14. ASSUME NEW answer \in Answers, NEW copies \in {1, 2}, PoolAnswer(answer, copies)
       PROVE  ClientTypeOK'
    <2> DEFINE req == Head(to_pool)
    <2>1. req \in PoolLine /\ Tail(to_pool) \in Seq(PoolLine)
        BY <1>14, MembersOfTail DEF PoolAnswer, PoolLine
    <2>2. Response(req.id, answer) \in Lines
        BY <2>1, LineTypes DEF PoolLine
    <2>3. to_client' \in Seq(Lines) /\ to_pool' \in Seq(PoolLine)
        BY <1>14, <2>1, <2>2, Copies DEF PoolAnswer
    <2>4. credited' \in BOOLEAN
        BY <1>14 DEF PoolAnswer
    <2>5. pool_accepted' \in Nat
        BY <1>14 DEF PoolAnswer
    <2> QED
        BY <1>14, <2>3, <2>4, <2>5 DEF PoolAnswer, PoolLine
<1>15. CASE PoolIgnore
    BY <1>15, MembersOfTail DEF PoolIgnore
<1>16. CASE PoolNotify
    BY <1>16, LineTypes, MembersOfAppend DEF PoolNotify
<1>17. CASE PoolClose
    BY <1>17, EmptySeq DEF PoolClose
<1>18. CASE UNCHANGED clientVars
    BY <1>18 DEF clientVars
<1>19. CASE PoolOther
    BY <1>19, LineTypes, MembersOfAppend DEF PoolOther
<1> QED
    BY <1>1, <1>2, <1>3, <1>4, <1>5, <1>6, <1>7, <1>8, <1>9, <1>10, <1>11, <1>12, <1>13,
       <1>14, <1>15, <1>16, <1>17, <1>18, <1>19
    DEF AnyClientStep, AnyCall, ReceiveStep, PoolStep

\* The same for the rest of the invariant.
LEMMA StreamInvStep == ClientInv /\ [AnyClientStep]_clientVars => StreamInv'
<1> SUFFICES ASSUME ClientInv, [AnyClientStep]_clientVars PROVE StreamInv'
    OBVIOUS
<1>1. ClientTypeOK'
    BY ClientTypeStep DEF ClientInv
<1>2. /\ next_id \in Nat \ {0} /\ request_id \in Nat
      /\ to_pool \in Seq(PoolLine) /\ to_client \in Seq(Lines)
    BY DEF ClientInv, ClientTypeOK, PoolLine
<1>3. StreamInv
    BY DEF ClientInv
<1>ids. /\ \A req \in Members(to_pool) : req.id \in Nat
      /\ \A line \in Members(to_client) : line.id \in Nat
    <2>1. Members(to_pool) \subseteq PoolLine /\ Members(to_client) \subseteq Lines
        BY <1>2, ElementOfSeq DEF Members
    <2> QED
        BY <2>1 DEF PoolLine, Lines
<1> USE <1>2, <1>3
<1> USE DEF StreamInv, LinkInv, IdInv, AnswerInv, AcceptedMeansCredited, callVars, linkVars,
         poolVars, StartLoop, LoopAgain
<1>4. ASSUME NEW ok \in BOOLEAN, Connect(ok) PROVE StreamInv'
    BY <1>4, MembersOfEmpty DEF Connect, Requests
<1>5. ASSUME NEW request \in Requests, Send(request) PROVE StreamInv'
    <2> DEFINE req == [request |-> request, id |-> next_id]
    <2>1. req \in PoolLine
        BY DEF PoolLine
    <2>2. Members(to_pool') \subseteq Members(to_pool) \cup {req}
        BY <1>5, <2>1, MembersOfAppend DEF Send
    <2>3. LinkInv'
        BY <1>5 DEF Send
    <2>4. IdInv'
        BY <1>5, <1>ids, <2>2 DEF Send
    <2>5. request_id' = next_id /\ call' = request /\ outcome' # "ok" /\ to_client' = to_client
        BY <1>5 DEF Send
    <2>6. ASSUME NEW other \in Members(to_pool'), other.id = next_id
          PROVE  other.request = request
        BY <2>2, <2>6
    <2>7. ASSUME NEW line \in Members(to_client), line.kind = "response"
          PROVE  line.id # next_id
        BY <2>7
    <2>8. AnswerInv' /\ AcceptedMeansCredited'
        BY <2>5, <2>6, <2>7
    <2> QED
        BY <2>3, <2>4, <2>8
<1>6. CASE WaitForJob
    BY <1>6 DEF WaitForJob, Requests
<1>7. CASE Close
    BY <1>7, MembersOfEmpty DEF Close, Requests
<1>8. CASE ReceiveResponse
    <2>1. Head(to_client) \in Members(to_client) /\ Members(Tail(to_client)) \subseteq Members(to_client)
        BY <1>8, MembersOfTail DEF ReceiveResponse
    <2>2. AcceptedMeansCredited'
        BY <1>8, <2>1 DEF ReceiveResponse, Finish, Matches, Accepts, BoolResult, Requests
    <2> QED
        BY <1>8, <2>1, <2>2 DEF ReceiveResponse, Finish
<1>9. CASE DropWhileRequesting
    <2>1. Members(Tail(to_client)) \subseteq Members(to_client)
        BY <1>9, MembersOfTail DEF DropWhileRequesting
    <2> QED
        BY <1>9, <2>1 DEF DropWhileRequesting
<1>10. CASE ReceiveNotify
    <2>1. Members(Tail(to_client)) \subseteq Members(to_client)
        BY <1>10, MembersOfTail DEF ReceiveNotify
    <2> QED
        BY <1>10, <2>1 DEF ReceiveNotify, Waiting
<1>11. CASE DropWhileWaiting
    <2>1. Members(Tail(to_client)) \subseteq Members(to_client)
        BY <1>11, MembersOfTail DEF DropWhileWaiting
    <2> QED
        BY <1>11, <2>1 DEF DropWhileWaiting
<1>12. CASE CheckStopRequested \/ ReadOn \/ Tick
    BY <1>12 DEF CheckStopRequested, ReadOn, Tick, Finish, Idle, Reading, Checking
<1>13. CASE SecondPasses
    <2>1. ASSUME NEW line \in Members(to_client')
          PROVE  \/ line \in Members(to_client)
                 \/ \E whole \in Members(to_client) :
                        whole.kind = "response" /\ line = [whole EXCEPT !.answer = "error"]
        BY <1>13, RestOfLine, MembersOfTail DEF SecondPasses
    <2>2. ASSUME NEW whole \in Lines, NEW line, line = [whole EXCEPT !.answer = "error"]
          PROVE  line.kind = whole.kind /\ line.id = whole.id /\ line.answer # "true"
        BY <2>2 DEF Lines
    <2>3. Members(to_client) \subseteq Lines
        BY ElementOfSeq DEF Members
    <2>4. ASSUME NEW line \in Members(to_client')
          PROVE  \E whole \in Members(to_client) :
                    /\ line.kind = whole.kind /\ line.id = whole.id
                    /\ line.answer = "true" => line = whole
        BY <2>1, <2>2, <2>3
    <2>5. IdInv' /\ AnswerInv'
        <3>1. UNCHANGED <<call, request_id, next_id, to_pool, credited>>
            BY <1>13 DEF SecondPasses
        <3> QED
            BY <2>4, <3>1
    <2>6. LinkInv' /\ AcceptedMeansCredited'
        BY <1>13 DEF SecondPasses, Reading
    <2> QED
        BY <2>5, <2>6
<1>14. CASE Expire
    BY <1>14 DEF Expire, Finish
<1>15. CASE ConnectionLost \/ LineTooLong
    BY <1>15 DEF ConnectionLost, LineTooLong, Break, Finish
<1>16. CASE SignalStep
    BY <1>16 DEF SignalStep, Signal, SignalInSelect, Finish
<1>17. ASSUME NEW answer \in Answers, NEW copies \in {1, 2}, PoolAnswer(answer, copies)
       PROVE  StreamInv'
    <2> DEFINE req == Head(to_pool)
    <2> DEFINE answered == Response(req.id, answer)
    <2>1. /\ req \in PoolLine /\ req \in Members(to_pool)
          /\ Members(Tail(to_pool)) \subseteq Members(to_pool)
        BY <1>17, MembersOfTail DEF PoolAnswer
    <2>2. /\ answered \in Lines /\ answered.kind = "response" /\ answered.id = req.id
          /\ answered.answer = answer
        BY <2>1, LineTypes DEF PoolLine
    <2>3. Members(to_client') = Members(to_client) \cup {answered}
        BY <1>17, <2>2, Copies DEF PoolAnswer
    <2>4. /\ Members(to_pool') \subseteq Members(to_pool)
          /\ peer = "open" /\ peer' = "open"
          /\ UNCHANGED <<connected, next_id, call, outcome, request_id>>
        BY <1>17, <2>1 DEF PoolAnswer
    <2>5. /\ credited => credited'
          /\ req.request = "submit" /\ answer = "true" /\ req.id = request_id => credited'
        BY <1>17 DEF PoolAnswer, BoolResult
    <2>6. LinkInv' /\ IdInv'
        BY <2>1, <2>2, <2>3, <2>4
    <2>7. AnswerInv' /\ AcceptedMeansCredited'
        BY <2>1, <2>2, <2>3, <2>4, <2>5
    <2> QED
        BY <2>6, <2>7
<1>18. CASE PoolIgnore
    <2>1. Members(Tail(to_pool)) \subseteq Members(to_pool)
        BY <1>18, MembersOfTail DEF PoolIgnore
    <2> QED
        BY <1>18, <2>1 DEF PoolIgnore
<1>19. CASE PoolNotify
    <2>1. announced' \in Nat
        BY <1>1 DEF ClientTypeOK
    <2>2. Notify(announced').kind = "notify" /\ Members(to_client') = Members(to_client) \cup {Notify(announced')}
        BY <1>19, <2>1, LineTypes, MembersOfAppend DEF PoolNotify
    <2> QED
        BY <1>19, <2>2 DEF PoolNotify
<1>20. CASE PoolClose
    BY <1>20, MembersOfEmpty DEF PoolClose
<1>21. CASE UNCHANGED clientVars
    BY <1>21 DEF clientVars
<1>22. CASE PoolOther
    <2>1. Other.kind # "response" /\ Members(to_client') = Members(to_client) \cup {Other}
        BY <1>22, LineTypes, MembersOfAppend DEF PoolOther
    <2> QED
        BY <1>22, <2>1 DEF PoolOther
<1> QED
    BY <1>4, <1>5, <1>6, <1>7, <1>8, <1>9, <1>10, <1>11, <1>12, <1>13, <1>14, <1>15, <1>16,
       <1>17, <1>18, <1>19, <1>20, <1>21, <1>22
    DEF AnyClientStep, AnyCall, ReceiveStep, PoolStep

\* The whole invariant is kept.
LEMMA ClientInvStep == ClientInv /\ [AnyClientStep]_clientVars => ClientInv'
BY ClientTypeStep, StreamInvStep DEF ClientInv

\* Every step of the client on its own is such a step.
LEMMA ClientNextIsStep == [ClientNext]_clientVars => [AnyClientStep]_clientVars
BY DEF ClientNext, CallStep, AnyClientStep, AnyCall

\* The invariant the theorems below rest on.
THEOREM ClientInvariant == ClientSpec => []ClientInv
<1>1. ClientInv /\ [ClientNext]_clientVars => ClientInv'
    BY ClientInvStep, ClientNextIsStep
<1> QED
    BY <1>1, ClientInvInit, PTL DEF ClientSpec

\* Every variable of the client and of the streams keeps its type.
THEOREM ClientTypeCorrect == ClientSpec => []ClientTypeOK
<1>1. ClientInv => ClientTypeOK
    BY DEF ClientInv
<1> QED
    BY <1>1, ClientInvariant, PTL

\* submit_share returns true only for a share the pool accepted, however late,
\* twice or cut in two its answers and those to earlier requests arrive.
THEOREM OnlyCreditedIsAccepted == ClientSpec => []AcceptedMeansCredited
<1>1. ClientInv => AcceptedMeansCredited
    BY DEF ClientInv, StreamInv
<1> QED
    BY <1>1, ClientInvariant, PTL

-----------------------------------------------------------------------------
(* The order of the jobs.                                                  *)

\* The jobs of a stream are above `low', up to `high', and rise.
Ordered(s, low, high) ==
    /\ \A line \in Members(s) : line.kind = "notify" => low < line.job /\ line.job <= high
    /\ \A i, j \in 1 .. Len(s) :
          i < j /\ s[i].kind = "notify" /\ s[j].kind = "notify" => s[i].job < s[j].job

\* What has not been read is newer than what wait_for_job returned last.
OrderInv == job <= announced /\ Ordered(to_client, job, announced)

\* A new connection starts with every bound.
LEMMA OrderedEmpty == \A low, high \in Nat : Ordered(<<>>, low, high)
BY DEF Ordered, Members

\* Once a job has been read, all that follow it in the stream are above it.
LEMMA OrderedTail ==
    ASSUME NEW s \in Seq(Lines), s # <<>>, NEW low \in Nat, NEW high \in Nat,
           Ordered(s, low, high)
    PROVE  /\ Ordered(Tail(s), low, high)
           /\ Head(s).kind = "notify" => Ordered(Tail(s), Head(s).job, high)
<1>1. /\ Len(s) \in Nat \ {0} /\ Tail(s) \in Seq(Lines)
      /\ Len(Tail(s)) = Len(s) - 1
      /\ \A i \in 1 .. Len(Tail(s)) : Tail(s)[i] = s[i + 1]
      /\ Members(Tail(s)) \subseteq Members(s)
    BY EmptySeq, HeadTailProperties, MembersOfTail
<1>2. \A i, j \in 1 .. Len(Tail(s)) :
          i < j /\ Tail(s)[i].kind = "notify" /\ Tail(s)[j].kind = "notify"
              => Tail(s)[i].job < Tail(s)[j].job
    <2> SUFFICES ASSUME NEW i \in 1 .. Len(Tail(s)), NEW j \in 1 .. Len(Tail(s)), i < j,
                        Tail(s)[i].kind = "notify", Tail(s)[j].kind = "notify"
                 PROVE  Tail(s)[i].job < Tail(s)[j].job
        OBVIOUS
    <2>1. i + 1 \in 1 .. Len(s) /\ j + 1 \in 1 .. Len(s) /\ i + 1 < j + 1
        BY <1>1
    <2>2. Tail(s)[i] = s[i + 1] /\ Tail(s)[j] = s[j + 1]
        BY <1>1
    <2> QED
        BY <2>1, <2>2 DEF Ordered
<1>3. Ordered(Tail(s), low, high)
    BY <1>1, <1>2 DEF Ordered
<1>4. ASSUME Head(s).kind = "notify", NEW line \in Members(Tail(s)), line.kind = "notify"
      PROVE  Head(s).job < line.job
    <2>1. PICK i \in 1 .. Len(Tail(s)) : line = Tail(s)[i]
        BY DEF Members
    <2>2. line = s[i + 1] /\ 1 \in 1 .. Len(s) /\ i + 1 \in 1 .. Len(s) /\ 1 < i + 1
        BY <1>1, <2>1
    <2>3. Head(s) = s[1]
        OBVIOUS
    <2> QED
        BY <1>4, <2>2, <2>3 DEF Ordered
<1> QED
    BY <1>1, <1>2, <1>3, <1>4 DEF Ordered

\* Lines that are no jobs may be put before or after without harm.
LEMMA OrderedConcat ==
    ASSUME NEW s \in Seq(Lines), NEW t \in Seq(Lines), NEW low \in Nat, NEW high \in Nat,
           \/ Ordered(s, low, high) /\ \A line \in Members(t) : line.kind # "notify"
           \/ Ordered(t, low, high) /\ \A line \in Members(s) : line.kind # "notify"
    PROVE  Ordered(s \o t, low, high)
<1>1. /\ Len(s) \in Nat /\ Len(t) \in Nat
      /\ Len(s \o t) = Len(s) + Len(t)
      /\ \A i \in 1 .. Len(s) + Len(t) :
            (s \o t)[i] = IF i <= Len(s) THEN s[i] ELSE t[i - Len(s)]
      /\ Members(s \o t) = Members(s) \cup Members(t)
    BY ConcatProperties, LenProperties, MembersOfConcat
<1>2. ASSUME NEW i \in 1 .. Len(s \o t), NEW j \in 1 .. Len(s \o t), i < j,
             (s \o t)[i].kind = "notify", (s \o t)[j].kind = "notify"
      PROVE  (s \o t)[i].job < (s \o t)[j].job
    <2>1. ASSUME NEW k \in 1 .. Len(s \o t)
          PROVE  \/ k <= Len(s) /\ (s \o t)[k] = s[k] /\ s[k] \in Members(s)
                 \/ /\ k - Len(s) \in 1 .. Len(t)
                    /\ (s \o t)[k] = t[k - Len(s)] /\ t[k - Len(s)] \in Members(t)
        BY <1>1 DEF Members
    <2>2. CASE Ordered(s, low, high) /\ \A line \in Members(t) : line.kind # "notify"
        <3>1. /\ i <= Len(s) /\ (s \o t)[i] = s[i]
              /\ j <= Len(s) /\ (s \o t)[j] = s[j]
            BY <1>2, <2>1, <2>2
        <3>2. i \in 1 .. Len(s) /\ j \in 1 .. Len(s)
            BY <1>1, <3>1
        <3> QED
            BY <1>2, <2>2, <3>1, <3>2 DEF Ordered
    <2>3. CASE Ordered(t, low, high) /\ \A line \in Members(s) : line.kind # "notify"
        <3>1. /\ i - Len(s) \in 1 .. Len(t) /\ (s \o t)[i] = t[i - Len(s)]
              /\ j - Len(s) \in 1 .. Len(t) /\ (s \o t)[j] = t[j - Len(s)]
            BY <1>2, <2>1, <2>3
        <3>2. i - Len(s) < j - Len(s)
            BY <1>1, <1>2
        <3> QED
            BY <1>2, <2>3, <3>1, <3>2 DEF Ordered
    <2> QED
        BY <2>2, <2>3
<1> QED
    BY <1>1, <1>2 DEF Ordered

\* Nor may it disturb the order that a line is cut.
LEMMA OrderedRest ==
    ASSUME NEW s \in Seq(Lines), s # <<>>, NEW rest \in Remainders(Head(s)),
           NEW low \in Nat, NEW high \in Nat, Ordered(s, low, high)
    PROVE  Ordered(rest \o Tail(s), low, high)
<1>1. Head(s) \in Lines /\ Tail(s) \in Seq(Lines) /\ Ordered(Tail(s), low, high)
    BY MembersOfTail, OrderedTail
<1>2. CASE rest = <<>>
    <2>1. rest \o Tail(s) = Tail(s)
        BY <1>1, <1>2, ConcatEmptySeq
    <2> QED
        BY <1>1, <2>1
<1>3. CASE rest = <<Head(s)>>
    <2>1. rest \in Seq(Lines) /\ Len(rest) = 1 /\ rest[1] = Head(s)
        BY <1>1, <1>3
    <2>2. /\ rest \o Tail(s) \in Seq(Lines)
          /\ Len(rest \o Tail(s)) = 1 + Len(Tail(s))
          /\ \A i \in 1 .. 1 + Len(Tail(s)) :
                (rest \o Tail(s))[i] = IF i <= 1 THEN rest[i] ELSE Tail(s)[i - 1]
        <3> DEFINE t == Tail(s)
        <3>1. t \in Seq(Lines) /\ rest \in Seq(Lines)
            BY <1>1, <2>1
        <3> HIDE DEF t
        <3>2. /\ rest \o t \in Seq(Lines)
              /\ Len(rest \o t) = Len(rest) + Len(t)
              /\ \A i \in 1 .. Len(rest) + Len(t) :
                    (rest \o t)[i] = IF i <= Len(rest) THEN rest[i] ELSE t[i - Len(rest)]
            BY <3>1, ConcatProperties
        <3> QED
            BY <2>1, <3>2 DEF t
    <2>3. /\ Len(s) \in Nat \ {0} /\ Len(Tail(s)) = Len(s) - 1 /\ Head(s) = s[1]
          /\ \A i \in 1 .. Len(Tail(s)) : Tail(s)[i] = s[i + 1]
        BY EmptySeq, HeadTailProperties
    <2>4. ASSUME NEW i \in 1 .. Len(s) PROVE (rest \o Tail(s))[i] = s[i]
        <3>1. CASE i = 1
            BY <2>1, <2>2, <2>3, <3>1
        <3>2. CASE i # 1
            <4>1. i - 1 \in 1 .. Len(Tail(s)) /\ i = (i - 1) + 1
                BY <2>3, <3>2
            <4>2. Tail(s)[i - 1] = s[i]
                BY <2>3, <4>1
            <4> QED
                BY <2>2, <2>3, <3>2, <4>2
        <3> QED
            BY <3>1, <3>2
    <2>5. rest \o Tail(s) = s
        BY <2>2, <2>3, <2>4, SeqEqual
    <2> QED
        BY <2>5
<1>4. CASE Head(s).kind = "response" /\ rest = <<[Head(s) EXCEPT !.answer = "error"]>>
    <2> DEFINE cut == [Head(s) EXCEPT !.answer = "error"]
    <2>1. cut \in Lines /\ cut.kind = "response"
        BY <1>1, <1>4 DEF Lines, Answers
    <2>2. rest \in Seq(Lines) /\ Members(rest) = {cut}
        BY <1>4, <2>1 DEF Members
    <2> QED
        BY <1>1, <2>1, <2>2, OrderedConcat
<1> QED
    BY <1>2, <1>3, <1>4 DEF Remainders

\* The job announced next is above all those in the stream.
LEMMA OrderedAppend ==
    ASSUME NEW s \in Seq(Lines), NEW low \in Nat, NEW high \in Nat, low <= high,
           Ordered(s, low, high)
    PROVE  Ordered(Append(s, Notify(high + 1)), low, high + 1)
<1> DEFINE new == Notify(high + 1)
<1>1. new \in Lines /\ new.kind = "notify" /\ new.job = high + 1
    BY LineTypes
<1>2. /\ Len(s) \in Nat /\ Len(Append(s, new)) = Len(s) + 1
      /\ \A i \in 1 .. Len(s) : Append(s, new)[i] = s[i]
      /\ Append(s, new)[Len(s) + 1] = new
      /\ Members(Append(s, new)) = Members(s) \cup {new}
    BY <1>1, AppendProperties, LenProperties, MembersOfAppend
<1>3. \A i \in 1 .. Len(s) : s[i] \in Members(s) /\ s[i].job \in Nat
    <2>1. \A i \in 1 .. Len(s) : s[i] \in Members(s) /\ s[i] \in Lines
        BY ElementOfSeq DEF Members
    <2> QED
        BY <2>1 DEF Lines
<1> HIDE DEF new
<1>4. \A line \in Members(Append(s, new)) :
          line.kind = "notify" => low < line.job /\ line.job <= high + 1
    <2>1. \A line \in Members(s) : line.job \in Nat
        BY <1>3 DEF Members
    <2> QED
        BY <1>1, <1>2, <2>1 DEF Ordered
<1>5. ASSUME NEW i \in 1 .. Len(s) + 1, NEW j \in 1 .. Len(s) + 1, i < j,
             Append(s, new)[i].kind = "notify", Append(s, new)[j].kind = "notify"
      PROVE  Append(s, new)[i].job < Append(s, new)[j].job
    <2>1. i \in 1 .. Len(s) /\ Append(s, new)[i] = s[i]
        BY <1>2, <1>5
    <2>2. CASE j \in 1 .. Len(s)
        BY <1>2, <1>5, <2>1, <2>2 DEF Ordered
    <2>3. CASE j = Len(s) + 1
        BY <1>1, <1>2, <1>3, <1>5, <2>1, <2>3 DEF Ordered
    <2> QED
        BY <1>2, <2>2, <2>3
<1>6. Ordered(Append(s, new), low, high + 1)
    BY <1>2, <1>4, <1>5 DEF Ordered
<1> QED
    BY <1>6 DEF new

\* At the start nothing is announced and nothing is in the stream.
LEMMA OrderInvInit == ClientInit => OrderInv
BY OrderedEmpty DEF ClientInit, OrderInv, NoJob

\* No step brings an old job back: a reader only shortens the stream, a pool
\* announces a newer one.
LEMMA OrderInvStep == ClientInv /\ OrderInv /\ [AnyClientStep]_clientVars => OrderInv'
<1> SUFFICES ASSUME ClientInv, OrderInv, [AnyClientStep]_clientVars PROVE OrderInv'
    OBVIOUS
<1>1. /\ job \in Nat /\ announced \in Nat /\ to_client \in Seq(Lines) /\ to_pool \in Seq(PoolLine)
      /\ peer = "none" => to_client = <<>>
    BY DEF ClientInv, StreamInv, ClientTypeOK, LinkInv, PoolLine
<1> USE <1>1
<1> USE DEF OrderInv, callVars, linkVars, poolVars, LoopAgain
<1>2. CASE AnyCall
    <2>1. ASSUME NEW ok \in BOOLEAN, Connect(ok) PROVE OrderInv'
        BY <2>1, OrderedEmpty DEF Connect, NoJob
    <2>2. ASSUME NEW request \in Requests, Send(request) PROVE OrderInv'
        BY <2>2 DEF Send
    <2>3. CASE WaitForJob
        BY <2>3 DEF WaitForJob
    <2>4. CASE Close
        BY <2>4, OrderedEmpty DEF Close
    <2> QED
        BY <1>2, <2>1, <2>2, <2>3, <2>4 DEF AnyCall
<1>3. CASE ReceiveResponse
    BY <1>3, OrderedTail DEF ReceiveResponse, Finish
<1>4. CASE DropWhileRequesting
    BY <1>4, OrderedTail DEF DropWhileRequesting
<1>5. CASE ReceiveNotify
    <2>1. Head(to_client) \in Members(to_client) /\ Head(to_client) \in Lines
        BY <1>5, MembersOfTail DEF ReceiveNotify
    <2>2. Head(to_client).job \in Nat /\ Head(to_client).job <= announced
        BY <1>5, <2>1 DEF ReceiveNotify, Ordered, Lines
    <2> QED
        BY <1>5, <2>2, OrderedTail DEF ReceiveNotify
<1>6. CASE DropWhileWaiting
    BY <1>6, OrderedTail DEF DropWhileWaiting
<1>7. CASE CheckStopRequested \/ ReadOn \/ Tick
    BY <1>7 DEF CheckStopRequested, ReadOn, Tick, Finish
<1>8. CASE SecondPasses
    BY <1>8, OrderedRest DEF SecondPasses
<1>9. CASE Expire
    BY <1>9 DEF Expire, Finish
<1>10. CASE ConnectionLost \/ LineTooLong
    BY <1>10 DEF ConnectionLost, LineTooLong, Break, Finish
<1>11. CASE SignalStep
    BY <1>11 DEF SignalStep, Signal, SignalInSelect, Finish
<1>12. ASSUME NEW answer \in Answers, NEW copies \in {1, 2}, PoolAnswer(answer, copies)
       PROVE  OrderInv'
    <2> DEFINE answered == Response(Head(to_pool).id, answer)
               written == [i \in 1 .. copies |-> answered]
    <2>1. Head(to_pool) \in PoolLine
        BY <1>12, MembersOfTail DEF PoolAnswer
    <2>2. answered \in Lines /\ answered.kind = "response"
        BY <2>1, LineTypes DEF PoolLine
    <2>3. written \in Seq(Lines) /\ Members(written) = {answered}
        BY <2>2, CopiesOf
    <2>4. to_client' = to_client \o written /\ UNCHANGED <<job, announced>>
        BY <1>12 DEF PoolAnswer
    <2>5. \A line \in Members(written) : line.kind # "notify"
        BY <2>2, <2>3
    <2> HIDE DEF answered, written
    <2>6. Ordered(to_client \o written, job, announced)
        BY <2>3, <2>5, OrderedConcat
    <2> QED
        BY <2>4, <2>6
<1>13. CASE PoolIgnore
    BY <1>13 DEF PoolIgnore
<1>14. CASE PoolNotify
    BY <1>14, OrderedAppend DEF PoolNotify
<1>15. CASE PoolClose
    BY <1>15, OrderedEmpty DEF PoolClose
<1>16. CASE UNCHANGED clientVars
    BY <1>16 DEF clientVars
<1>17. CASE PoolOther
    <2>1. /\ <<Other>> \in Seq(Lines) /\ Members(<<Other>>) = {Other}
          /\ Other.kind # "notify" /\ Other \in Lines
        <3>1. Other \in Lines /\ Other.kind = "other"
            BY LineTypes
        <3>2. <<Other>> \in Seq(Lines) /\ Members(<<Other>>) = {Other}
            BY <3>1 DEF Members
        <3> QED
            BY <3>1, <3>2
    <2>2. Append(to_client, Other) = to_client \o <<Other>>
        BY <2>1, AppendIsConcat
    <2>3. Ordered(to_client \o <<Other>>, job, announced)
        BY <2>1, OrderedConcat
    <2> QED
        BY <1>17, <2>2, <2>3 DEF PoolOther
<1> QED
    BY <1>2, <1>3, <1>4, <1>5, <1>6, <1>7, <1>8, <1>9, <1>10, <1>11, <1>12, <1>13, <1>14,
       <1>15, <1>16, <1>17
    DEF AnyClientStep, ReceiveStep, PoolStep

\* wait_for_job never returns a job again, or one older than it has returned.
THEOREM JobsComeInOrder == ClientSpec => JobsInOrder
<1>1. ClientInv /\ OrderInv /\ [ClientNext]_clientVars => OrderInv'
    BY OrderInvStep, ClientNextIsStep
<1>2. ClientInv /\ OrderInv /\ [ClientNext]_clientVars =>
          [call' = "wait_for_job" /\ outcome' = "ok" /\ ~Idle => job' > job]_clientVars
    <2> SUFFICES ASSUME ClientInv, OrderInv, ClientNext,
                        call' = "wait_for_job", outcome' = "ok", ~Idle
                 PROVE  job' > job
        OBVIOUS
    <2>1. /\ job \in Nat /\ announced \in Nat /\ to_client \in Seq(Lines)
          /\ outcome \in {"checking", "busy", "ok", "failed"}
        BY DEF ClientInv, ClientTypeOK
    <2>2. outcome # "ok"
        BY DEF Idle, Reading, Checking
    <2>3. ~CallStep
        BY DEF CallStep, Connect, Send, WaitForJob, Close
    <2>4. ~PoolStep /\ ~Signal /\ ~Tick
        BY <2>2 DEF PoolStep, PoolAnswer, PoolIgnore, PoolNotify, PoolOther, PoolClose, Signal,
                    Tick, callVars
    <2>5. CASE ReceiveNotify
        <3>1. Head(to_client) \in Members(to_client) /\ Head(to_client) \in Lines
            BY <2>1, <2>5, MembersOfTail DEF ReceiveNotify
        <3>2. job < Head(to_client).job /\ Head(to_client).job \in Nat
            BY <2>5, <3>1 DEF ReceiveNotify, OrderInv, Ordered, Lines
        <3> QED
            BY <2>1, <2>5, <3>2 DEF ReceiveNotify
    <2>6. ~SignalInSelect /\ ~ReceiveResponse /\ ~DropWhileRequesting /\ ~DropWhileWaiting
        BY <2>2 DEF SignalInSelect, ReceiveResponse, DropWhileRequesting, DropWhileWaiting,
                    LoopAgain, Finish, Requesting, Requests, callVars
    <2>7. ~CheckStopRequested /\ ~ReadOn /\ ~SecondPasses /\ ~Expire /\ ~ConnectionLost /\ ~LineTooLong
        BY <2>2 DEF CheckStopRequested, ReadOn, SecondPasses, Expire, ConnectionLost,
                    LineTooLong, LoopAgain, Break, Finish
    <2> QED
        BY <2>3, <2>4, <2>5, <2>6, <2>7 DEF ClientNext, ReceiveStep, SignalStep
<1> QED
    BY <1>1, <1>2, ClientInvariant, OrderInvInit, PTL DEF ClientSpec, JobsInOrder
=============================================================================
