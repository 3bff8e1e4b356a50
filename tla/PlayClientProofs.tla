-------------------------- MODULE PlayClientProofs --------------------------
(***************************************************************************)
(* Type correctness of PlayClient, that its stream needs a session, that   *)
(* an answer always fits after the oldest is dropped, that the data task   *)
(* follows the flag of the stream and that get functions are answered for  *)
(* the call under way: for any number of parameters, any queue lengths and *)
(* any timeouts.                                                           *)
(***************************************************************************)
EXTENDS PlayClient, TLAPS, SequenceTheorems, FunctionTheorems, FiniteSetTheorems

\* Only what is asked for can be answered: a get request and an answer are of
\* one of the kinds there is a queue for.
Requests == {m \in Messages : m.kind = "GET" => m.of \in Kinds}
ReplyMessages == {r \in Replies : r.kind = "ANSWER" => r.of \in Kinds}
Pending == [call : {"data"}, cmd : {"START", "STOP"}] \cup [call : {"send"}, msg : Requests]

SessionType == active \in BOOLEAN /\ session_id \in Ids /\ stream_started \in BOOLEAN

ActionsType == reqActionQueue \in Seq(Requests) /\ Len(reqActionQueue) <= ActionQueueLen

DataType ==
    /\ startStopQueue \in Seq({"START", "STOP"}) /\ Len(startStopQueue) <= StartStopLen
    /\ started \in BOOLEAN

AnswersType ==
    /\ answers \in [Kinds -> Seq(Gets)]
    /\ \A k \in Kinds : Len(answers[k]) <= Size[k]

\* A function that waits for answers still has some to come.
AppType ==
    /\ api \in {"idle", "post", "wait", "receive"}
    /\ todo \in Seq(Pending)
    /\ api = "post" => todo # <<>>
    /\ get \in [of : Kinds \cup {NoKind}, time : 0 .. Wrap - 1, left : Nat]
    /\ Getting => get.of \in Kinds /\ get.left # 0
    /\ api \in {"wait", "receive"} => Getting
    /\ api = "receive" => get.of = "sources"
    /\ gets \in Gets

\* A handler that found its queue full holds an answer.
NetType ==
    /\ ctl \in {"connect", "connected", "listen", "full", "resend", "action", "closed"}
    /\ held \in Replies
    /\ ctl \in {"full", "resend"} => held.of \in Kinds
    /\ conn \in Ids /\ server_id \in Ids
    /\ replies \in Seq(ReplyMessages)

HistoryType == upset \in BOOLEAN /\ missed \in BOOLEAN

IInv ==
    /\ SessionType /\ ActionsType /\ DataType /\ AnswersType /\ AppType /\ NetType
    /\ HistoryType
    /\ AnswerFits

-----------------------------------------------------------------------------
(* Messages and sequences.                                                 *)

\* The messages that are made are well formed.
LEMMA MessagesWellFormed ==
    /\ \A kind \in {"INIT", "REQUEST"}, id \in Ids : Message(kind, id) \in Requests
    /\ \A k \in Kinds, id \in Ids, n \in Gets : Ask(k, id, n) \in Requests
    /\ \A id \in Ids : Ack(id) \in ReplyMessages
    /\ \A m \in Requests : m.kind = "GET" => Answer(m) \in ReplyMessages
    /\ 0 \in Gets /\ NoId \in Ids
<1>1. 0 \in Gets /\ NoId \in Ids
  BY BoundsAssumption DEF Gets, Ids, NoId
<1> QED
  BY <1>1 DEF Message, Ask, Ack, Answer, Requests, ReplyMessages, Messages, Replies

\* Calls to be made, one or several.
LEMMA CallsWellFormed ==
    /\ \A m \in Requests : Send(m) \in Pending
    /\ \A cmd \in {"START", "STOP"} : Data(cmd) \in Pending
    /\ \A c \in Pending : <<c>> \in Seq(Pending) /\ <<c>> # <<>>
    /\ \A c, d \in Pending : <<c, d>> \in Seq(Pending) /\ <<c, d>> # <<>>
    /\ \A n \in Nat \ {0}, c \in Pending : Times(n, c) \in Seq(Pending) /\ Times(n, c) # <<>>
<1>1. /\ \A m \in Requests : Send(m) \in Pending
      /\ \A cmd \in {"START", "STOP"} : Data(cmd) \in Pending
  BY DEF Send, Data, Pending
<1>2. ASSUME NEW n \in Nat \ {0}, NEW c \in Pending
      PROVE  Times(n, c) \in Seq(Pending) /\ Times(n, c) # <<>>
  <2>1. Times(n, c) \in [1 .. n -> Pending]
    BY <1>2 DEF Times
  <2>2. Times(n, c) \in Seq(Pending) /\ Len(Times(n, c)) = n
    BY <2>1
  <2> QED
    BY <2>2
<1> QED
  BY <1>1, <1>2

\* Taking the first of a queue and adding one to it.
LEMMA QueueFacts ==
    ASSUME NEW T, NEW q \in Seq(T)
    PROVE  /\ Len(q) \in Nat
           /\ q = <<>> <=> Len(q) = 0
           /\ q # <<>> => Head(q) \in T /\ Tail(q) \in Seq(T) /\ Len(Tail(q)) = Len(q) - 1
           /\ \A x \in T : Append(q, x) \in Seq(T) /\ Len(Append(q, x)) = Len(q) + 1
                           /\ Append(q, x) # <<>>
  OBVIOUS

-----------------------------------------------------------------------------
(* The session and the data task.                                          *)

LEMMA SessionStep == SessionType /\ NetType /\ Next => SessionType'
<1> SUFFICES ASSUME SessionType, NetType, Next PROVE SessionType'
  OBVIOUS
<1>1. NoId \in Ids
  BY MessagesWellFormed
<1>2. CASE StartStream \/ StopStream
  BY <1>2 DEF StartStream, StopStream, SessionType
<1>3. CASE SessionAck
  <2>1. Head(replies) \in ReplyMessages
    BY <1>3, QueueFacts DEF NetType, SessionAck, Arrives
  <2>2. Head(replies).id \in Ids
    BY <2>1 DEF ReplyMessages, Replies
  <2> QED
    BY <1>3, <2>2 DEF SessionAck, SessionType
<1>4. ASSUME NEW clears \in BOOLEAN, StopData(clears) PROVE SessionType'
  BY <1>1, <1>4 DEF StopData, SessionType, sessionVars
<1>5. CASE ServerStops \/ ConnectionStop
  BY <1>4, <1>5 DEF ServerStops, ConnectionStop
<1>6. CASE UNCHANGED sessionVars
  BY <1>6 DEF SessionType, sessionVars
<1>7. \/ StartStream \/ StopStream \/ SessionAck \/ ServerStops \/ ConnectionStop
      \/ UNCHANGED sessionVars
  BY DEF Next, Function, InFunction, ControlTask, Environment, Reconfigure, SetSource, Get,
         SendCommand, InsertAction, TakeAnswer, Wait, TimesOut, StopsPeeking, ReceiveSources,
         Connect, QueueInit, NothingReceived, SendAction, NoAction, AnswerArrives, DropFirst,
         SendAgain, PeerGone, RunFails, DataRestart, ReadCommand
<1> QED
  BY <1>2, <1>3, <1>5, <1>6, <1>7

LEMMA DataStep == DataType /\ AppType /\ Next => DataType'
<1> SUFFICES ASSUME DataType, AppType, Next PROVE DataType'
  OBVIOUS
<1>1. ASSUME NEW cmd \in {"START", "STOP"}, Len(startStopQueue) < StartStopLen,
             startStopQueue' = Append(startStopQueue, cmd), UNCHANGED started
      PROVE  DataType'
  <2>1. /\ startStopQueue' \in Seq({"START", "STOP"})
        /\ Len(startStopQueue') = Len(startStopQueue) + 1
        /\ Len(startStopQueue) \in Nat
    BY <1>1, QueueFacts DEF DataType
  <2>2. Len(startStopQueue') <= StartStopLen
    BY <1>1, <2>1, QueuesAssumption
  <2> QED
    BY <1>1, <2>1, <2>2 DEF DataType
<1>2. CASE SendCommand
  <2>1. Head(todo) \in Pending /\ Head(todo).call = "data"
    BY <1>2, QueueFacts DEF SendCommand, Calling, AppType
  <2>2. Head(todo).cmd \in {"START", "STOP"}
    BY <2>1 DEF Pending
  <2> QED
    BY <1>1, <1>2, <2>2 DEF SendCommand, DataType
<1>3. ASSUME NEW clears \in BOOLEAN, StopData(clears), UNCHANGED started PROVE DataType'
  BY <1>1, <1>3 DEF StopData, DataType
<1>4. CASE ServerStops \/ ConnectionStop
  BY <1>3, <1>4 DEF ServerStops, ConnectionStop
<1>5. CASE ReadCommand
  <2>1. /\ Head(startStopQueue) \in {"START", "STOP"}
        /\ startStopQueue' \in Seq({"START", "STOP"})
        /\ Len(startStopQueue') <= StartStopLen
    BY <1>5, QueueFacts, QueuesAssumption DEF ReadCommand, DataType
  <2>2. started' \in BOOLEAN
    BY <1>5, Zenon DEF ReadCommand
  <2> QED
    BY <2>1, <2>2 DEF DataType
<1>6. CASE DataRestart
  BY <1>6 DEF DataRestart, DataType
<1>7. CASE UNCHANGED dataVars
  BY <1>7 DEF DataType, dataVars
<1>8. \/ SendCommand \/ ServerStops \/ ConnectionStop \/ ReadCommand \/ DataRestart
      \/ UNCHANGED dataVars
  BY DEF Next, Function, InFunction, ControlTask, Environment, StartStream, StopStream,
         Reconfigure, SetSource, Get, InsertAction, TakeAnswer, Wait, TimesOut, StopsPeeking,
         ReceiveSources, Connect, QueueInit, NothingReceived, SendAction, NoAction, SessionAck,
         AnswerArrives, DropFirst, SendAgain, PeerGone, RunFails
<1> QED
  BY <1>2, <1>4, <1>5, <1>6, <1>7, <1>8

-----------------------------------------------------------------------------
(* The queue of messages and the history.                                  *)

LEMMA AppendRequest ==
    ASSUME ActionsType, ActionFits, NEW m \in Requests, reqActionQueue' = Append(reqActionQueue, m)
    PROVE  ActionsType'
<1>1. /\ reqActionQueue' \in Seq(Requests)
      /\ Len(reqActionQueue') = Len(reqActionQueue) + 1
      /\ Len(reqActionQueue) \in Nat
  BY QueueFacts DEF ActionsType
<1>2. Len(reqActionQueue') <= ActionQueueLen
  BY <1>1, QueuesAssumption DEF ActionFits
<1> QED
  BY <1>1, <1>2 DEF ActionsType

LEMMA ActionsStep == ActionsType /\ AppType /\ Next => ActionsType'
<1> SUFFICES ASSUME ActionsType, AppType, Next PROVE ActionsType'
  OBVIOUS
<1>1. CASE UNCHANGED reqActionQueue
  BY <1>1 DEF ActionsType
<1>2. CASE InsertAction
  <2>1. Head(todo) \in Pending /\ Head(todo).call = "send"
    BY <1>2, QueueFacts DEF InsertAction, Calling, AppType
  <2>2. Head(todo).msg \in Requests
    BY <2>1 DEF Pending
  <2> QED
    BY <1>1, <1>2, <2>2, AppendRequest DEF InsertAction
<1>3. CASE QueueInit
  <2>1. Message("INIT", NoId) \in Requests
    BY MessagesWellFormed
  <2> QED
    BY <1>1, <1>3, <2>1, AppendRequest DEF QueueInit
<1>4. CASE SendAction
  BY <1>4, QueueFacts, QueuesAssumption DEF SendAction, ActionsType
<1>5. InsertAction \/ QueueInit \/ SendAction \/ UNCHANGED reqActionQueue
  BY DEF Next, Function, InFunction, ControlTask, Environment, StartStream, StopStream,
         Reconfigure, SetSource, Get, SendCommand, TakeAnswer, Wait, TimesOut, StopsPeeking,
         ReceiveSources, Connect, NothingReceived, NoAction, SessionAck, ServerStops,
         ConnectionStop, AnswerArrives, DropFirst, SendAgain, PeerGone, RunFails, DataRestart,
         ReadCommand
<1> QED
  BY <1>1, <1>2, <1>3, <1>4, <1>5

LEMMA HistoryStep == HistoryType /\ Next => HistoryType'
<1> SUFFICES ASSUME HistoryType, Next PROVE HistoryType'
  OBVIOUS
<1>1. upset' \in BOOLEAN
  <2>1. ASSUME NEW clears \in BOOLEAN, StopData(clears) PROVE upset' \in BOOLEAN
    BY <2>1, Zenon DEF StopData
  <2>2. CASE ServerStops \/ ConnectionStop
    BY <2>1, <2>2 DEF ServerStops, ConnectionStop
  <2>3. CASE SendCommand \/ DataRestart
    BY <2>3 DEF SendCommand, DataRestart, HistoryType
  <2>4. \/ SendCommand \/ DataRestart \/ ServerStops \/ ConnectionStop \/ UNCHANGED upset
    BY DEF Next, Function, InFunction, ControlTask, Environment, StartStream, StopStream,
           Reconfigure, SetSource, Get, InsertAction, TakeAnswer, Wait, TimesOut, StopsPeeking,
           ReceiveSources, Connect, QueueInit, NothingReceived, SendAction, NoAction,
           SessionAck, AnswerArrives, DropFirst, SendAgain, PeerGone, RunFails, ReadCommand
  <2> QED
    BY <2>2, <2>3, <2>4 DEF HistoryType
<1>2. missed' \in BOOLEAN
  <2>1. CASE InsertAction
    <3>1. missed' = (missed \/ Getting) \/ missed' = missed
      BY <2>1 DEF InsertAction
    <3> QED
      BY <3>1, Zenon DEF HistoryType
  <2>2. CASE TimesOut \/ ReceiveSources
    BY <2>2 DEF TimesOut, ReceiveSources, HistoryType
  <2>3. InsertAction \/ TimesOut \/ ReceiveSources \/ UNCHANGED missed
    BY DEF Next, Function, InFunction, ControlTask, Environment, StartStream, StopStream,
           Reconfigure, SetSource, Get, SendCommand, TakeAnswer, Wait, StopsPeeking, Connect,
           QueueInit, NothingReceived, SendAction, NoAction, SessionAck, ServerStops,
           ConnectionStop, AnswerArrives, DropFirst, SendAgain, PeerGone, RunFails,
           DataRestart, ReadCommand
  <2> QED
    BY <2>1, <2>2, <2>3 DEF HistoryType
<1> QED
  BY <1>1, <1>2 DEF HistoryType

-----------------------------------------------------------------------------
(* The application.                                                        *)

\* What follows a call that succeeds, and one that fails.
LEMMA CallKeepsType ==
    ASSUME AppType, api = "post", CallDone \/ CallFails, UNCHANGED gets
    PROVE  AppType'
<1>1. /\ todo \in Seq(Pending) /\ todo # <<>>
      /\ Tail(todo) \in Seq(Pending) /\ Len(Tail(todo)) = Len(todo) - 1 /\ Len(todo) \in Nat
  BY QueueFacts DEF AppType
<1>2. CASE CallDone
  <2>1. api' = "post" => todo' # <<>>
    <3>1. api' = "post" => Len(todo) > 1
      BY <1>2, Zenon DEF CallDone
    <3>2. Len(todo) > 1 => Len(Tail(todo)) # 0
      BY <1>1
    <3>3. todo' = Tail(todo)
      BY <1>2 DEF CallDone
    <3> QED
      BY <1>1, <3>1, <3>2, <3>3
  <2>2. api' \in {"idle", "post", "wait"} /\ (api' = "wait" => Getting)
    BY <1>2 DEF CallDone
  <2>3. todo' \in Seq(Pending) /\ get' = get
    BY <1>1, <1>2 DEF CallDone
  <2> QED
    BY <2>1, <2>2, <2>3 DEF AppType, Getting
<1>3. CASE CallFails
  <2>1. NoGet \in [of : Kinds \cup {NoKind}, time : 0 .. Wrap - 1, left : Nat]
    BY TimeAssumption DEF NoGet
  <2> QED
    BY <1>3, <2>1 DEF CallFails, AppType, Getting
<1> QED
  BY <1>2, <1>3

\* What a get function that returns leaves.
LEMMA ReturnKeepsType ==
    ASSUME AppType, GetReturns, UNCHANGED <<todo, gets>>
    PROVE  AppType'
<1>1. NoGet \in [of : Kinds \cup {NoKind}, time : 0 .. Wrap - 1, left : Nat]
  BY TimeAssumption DEF NoGet
<1> QED
  BY <1>1 DEF GetReturns, AppType, Getting

LEMMA TickInRange == \A t \in Nat : (t + Wrap - Tick) % Wrap \in 0 .. Wrap - 1
<1>1. Wrap \in Nat /\ Wrap > 0 /\ Tick \in Nat /\ Tick < Wrap
  BY TimeAssumption
<1> QED
  BY <1>1

LEMMA AppStep == AppType /\ SessionType /\ Next => AppType'
<1> SUFFICES ASSUME AppType, SessionType, Next PROVE AppType'
  OBVIOUS
<1>1. ASSUME NEW calls \in Seq(Pending), calls # <<>>, Then(calls), UNCHANGED <<get, gets>>
      PROVE  AppType'
  BY <1>1 DEF Then, AppType, Getting
<1>2. /\ Send(Message("REQUEST", session_id)) \in Pending
      /\ Data("START") \in Pending /\ Data("STOP") \in Pending
  BY MessagesWellFormed, CallsWellFormed DEF SessionType
<1>3. CASE StartStream \/ StopStream \/ SetSource
  BY <1>1, <1>2, <1>3, CallsWellFormed DEF StartStream, StopStream, SetSource
<1>4. ASSUME NEW k \in Kinds, Reconfigure(k) PROVE AppType'
  <2>1. Size[k] \in Nat \ {0}
    BY SizeAssumption
  <2> QED
    BY <1>1, <1>2, <1>4, <2>1, CallsWellFormed DEF Reconfigure
<1>5. ASSUME NEW k \in Kinds, NEW t \in Timeouts, Get(k, t) PROVE AppType'
  <2>1. Size[k] \in Nat \ {0} /\ t \in 0 .. Wrap - 1
    BY SizeAssumption, TimeAssumption
  <2>2. gets + 1 \in Gets
    BY <1>5, BoundsAssumption DEF Get, Gets, AppType
  <2>3. Send(Ask(k, session_id, gets + 1)) \in Pending
    BY <2>2, MessagesWellFormed, CallsWellFormed DEF SessionType
  <2>4. todo' \in Seq(Pending) /\ todo' # <<>> /\ api' = "post"
    BY <1>5, <2>1, <2>3, CallsWellFormed DEF Get, Then
  <2>5. /\ get' \in [of : Kinds \cup {NoKind}, time : 0 .. Wrap - 1, left : Nat]
        /\ get'.of \in Kinds /\ get'.left # 0 /\ gets' = gets + 1
    BY <1>5, <2>1 DEF Get
  <2> QED
    BY <2>2, <2>4, <2>5 DEF AppType
<1>6. CASE SendCommand \/ InsertAction
  BY <1>6, CallKeepsType DEF SendCommand, InsertAction, Calling
<1>7. CASE TakeAnswer
  <2>1. Getting /\ get.of \in Kinds /\ get.left \in Nat \ {0}
    BY <1>7 DEF TakeAnswer, AppType
  <2>2. CASE get.left = 1
    BY <1>7, <2>2, ReturnKeepsType DEF TakeAnswer
  <2>3. CASE get.left # 1
    <3>1. get' = [get EXCEPT !.left = @ - 1] /\ UNCHANGED <<api, todo, gets>>
      BY <1>7, <2>3 DEF TakeAnswer
    <3>2. get.left - 1 \in Nat \ {0}
      BY <2>1, <2>3
    <3>3. /\ get' \in [of : Kinds \cup {NoKind}, time : 0 .. Wrap - 1, left : Nat]
          /\ get'.of = get.of /\ get'.left # 0
      BY <3>1, <3>2 DEF AppType
    <3>4. Getting'
      BY <3>3 DEF Getting, NoGet
    <3> QED
      BY <2>1, <3>1, <3>3, <3>4 DEF AppType
  <2> QED
    BY <2>2, <2>3
<1>8. CASE Wait
  <2>1. Getting /\ get.of \in Kinds /\ get.left # 0 /\ get.time \in Nat
    BY <1>8, TimeAssumption DEF Wait, AppType
  <2>2. get' = [get EXCEPT !.time = NextTick] /\ UNCHANGED <<api, todo, gets>>
    BY <1>8 DEF Wait
  <2>3. NextTick \in 0 .. Wrap - 1
    BY <2>1, TickInRange DEF NextTick
  <2>4. /\ get' \in [of : Kinds \cup {NoKind}, time : 0 .. Wrap - 1, left : Nat]
        /\ get'.of = get.of /\ get'.left = get.left
    BY <2>2, <2>3 DEF AppType
  <2>5. Getting'
    BY <2>1, <2>4 DEF Getting, NoGet
  <2> QED
    BY <2>1, <2>2, <2>4, <2>5 DEF AppType
<1>9. CASE TimesOut \/ ReceiveSources
  BY <1>9, ReturnKeepsType DEF TimesOut, ReceiveSources
<1>10. CASE StopsPeeking
  BY <1>10 DEF StopsPeeking, AppType, Getting
<1>11. CASE UNCHANGED appVars
  BY <1>11 DEF appVars, AppType, Getting
<1>12. \/ UNCHANGED appVars
       \/ StartStream \/ StopStream \/ SetSource
       \/ \E k \in Kinds : Reconfigure(k) \/ \E t \in Timeouts : Get(k, t)
       \/ SendCommand \/ InsertAction \/ TakeAnswer \/ Wait \/ TimesOut \/ StopsPeeking
       \/ ReceiveSources
  BY DEF Next, Function, InFunction, ControlTask, Environment, Connect, QueueInit,
         NothingReceived, SendAction, NoAction, SessionAck, ServerStops, ConnectionStop,
         AnswerArrives, DropFirst, SendAgain, PeerGone, RunFails, DataRestart, ReadCommand
<1> QED
  BY <1>3, <1>4, <1>5, <1>6, <1>7, <1>8, <1>9, <1>10, <1>11, <1>12

-----------------------------------------------------------------------------
(* The control task and the network.                                       *)

\* Where the task may go without a handler holding an answer.
Elsewhere == {"connect", "connected", "listen", "action", "closed"}

LEMMA NetStep == NetType /\ ActionsType /\ Next => NetType'
<1> SUFFICES ASSUME NetType, ActionsType, Next PROVE NetType'
  OBVIOUS
<1>1. ASSUME NEW where \in Elsewhere, Goto(where), UNCHANGED held,
             conn' \in Ids, server_id' \in Ids, replies' \in Seq(ReplyMessages)
      PROVE  NetType'
  BY <1>1 DEF Goto, Elsewhere, NetType
<1>2. conn \in Ids /\ server_id \in Ids /\ replies \in Seq(ReplyMessages)
  BY DEF NetType
<1>3. NoId \in Ids /\ <<>> \in Seq(ReplyMessages)
  BY MessagesWellFormed
<1>4. replies # <<>> => Head(replies) \in ReplyMessages /\ Tail(replies) \in Seq(ReplyMessages)
  BY <1>2, QueueFacts
<1>5. ASSUME NEW where \in Elsewhere, Hangup(where) PROVE NetType'
  BY <1>1, <1>2, <1>3, <1>5 DEF Hangup
<1>6. CASE Connect \/ NothingReceived \/ NoAction
  BY <1>1, <1>2, <1>6 DEF Connect, NothingReceived, NoAction, Elsewhere
<1>7. CASE QueueInit
  <2>1. conn < MaxConn => conn + 1 \in Ids
    BY <1>2, BoundsAssumption DEF Ids
  <2> QED
    BY <1>1, <1>2, <1>7, <2>1 DEF QueueInit, Elsewhere
<1>8. CASE PeerGone \/ RunFails
  BY <1>5, <1>8 DEF PeerGone, RunFails, Elsewhere
<1>9. CASE SendAction
  <2> DEFINE m == Head(reqActionQueue)
  <2>1. m \in Requests
    BY <1>9, QueueFacts DEF SendAction, ActionsType
  <2>2. /\ Append(replies, Ack(conn)) \in Seq(ReplyMessages)
        /\ m.kind = "GET" => Append(replies, Answer(m)) \in Seq(ReplyMessages)
    BY <1>2, <2>1, MessagesWellFormed, QueueFacts
  <2>3. CASE Hangup("closed")
    BY <1>5, <2>3 DEF Elsewhere
  <2>4. CASE ~Hangup("closed")
    <3>1. /\ Goto("listen") /\ UNCHANGED <<held, conn>>
          /\ server_id' \in {conn, server_id}
          /\ \/ replies' = replies
             \/ replies' = Append(replies, Ack(conn))
             \/ m.kind = "GET" /\ replies' = Append(replies, Answer(m))
      BY <1>9, <2>4 DEF SendAction
    <3> QED
      BY <1>1, <1>2, <2>2, <3>1 DEF Elsewhere
  <2> QED
    BY <2>3, <2>4
<1>10. CASE SessionAck
  BY <1>1, <1>2, <1>4, <1>10 DEF SessionAck, Arrives, Elsewhere
<1>11. CASE ServerStops
  BY <1>1, <1>2, <1>5, <1>11 DEF ServerStops, Elsewhere
<1>12. CASE ConnectionStop
  BY <1>1, <1>2, <1>12 DEF ConnectionStop, Elsewhere
<1>13. CASE AnswerArrives
  <2> DEFINE a == Head(replies)
  <2>1. a \in Replies /\ a.of \in Kinds /\ replies' \in Seq(ReplyMessages)
    BY <1>4, <1>13 DEF AnswerArrives, Arrives, ReplyMessages
  <2>2. /\ UNCHANGED <<conn, server_id>>
        /\ (Goto("action") /\ UNCHANGED held) \/ (Goto("full") /\ held' = a)
    BY <1>13 DEF AnswerArrives
  <2>3. CASE Goto("action") /\ UNCHANGED held
    BY <1>1, <1>2, <2>1, <2>2, <2>3 DEF Elsewhere
  <2>4. CASE Goto("full") /\ held' = a
    BY <1>2, <2>1, <2>2, <2>4 DEF Goto, NetType
  <2> QED
    BY <2>2, <2>3, <2>4
<1>14. CASE DropFirst
  BY <1>14 DEF DropFirst, Goto, NetType
<1>15. CASE SendAgain
  BY <1>1, <1>2, <1>5, <1>15 DEF SendAgain, Elsewhere
<1>16. CASE UNCHANGED netVars
  BY <1>16 DEF netVars, NetType
<1>17. \/ Connect \/ NothingReceived \/ NoAction \/ QueueInit \/ PeerGone \/ RunFails
       \/ SendAction \/ SessionAck \/ ServerStops \/ ConnectionStop \/ AnswerArrives
       \/ DropFirst \/ SendAgain \/ UNCHANGED netVars
  BY DEF Next, Function, InFunction, ControlTask, Environment, StartStream, StopStream,
         Reconfigure, SetSource, Get, SendCommand, InsertAction, TakeAnswer, Wait, TimesOut,
         StopsPeeking, ReceiveSources, DataRestart, ReadCommand
<1> QED
  BY <1>6, <1>7, <1>8, <1>9, <1>10, <1>11, <1>12, <1>13, <1>14, <1>15, <1>16, <1>17

-----------------------------------------------------------------------------
(* The queues of answers.                                                  *)

\* An answer is taken out of a queue, by the application or the control task.
LEMMA RemoveAnswer ==
    ASSUME AnswersType, NEW k \in Kinds, answers[k] # <<>>,
           answers' = [answers EXCEPT ![k] = Tail(@)]
    PROVE  /\ AnswersType'
           /\ \A j \in Kinds : Len(answers'[j]) <= Len(answers[j])
           /\ Len(answers'[k]) < Size[k]
<1>1. /\ Len(answers[k]) \in Nat /\ Len(answers[k]) <= Size[k] /\ Size[k] \in Nat
      /\ Tail(answers[k]) \in Seq(Gets) /\ Len(Tail(answers[k])) = Len(answers[k]) - 1
  BY QueueFacts, SizeAssumption DEF AnswersType
<1>2. answers' \in [Kinds -> Seq(Gets)]
  BY <1>1 DEF AnswersType
<1>3. \A j \in Kinds : answers'[j] = IF j = k THEN Tail(answers[k]) ELSE answers[j]
  BY DEF AnswersType
<1>4. \A j \in Kinds : Len(answers[j]) \in Nat /\ Size[j] \in Nat /\ Len(answers[j]) <= Size[j]
  BY QueueFacts, SizeAssumption DEF AnswersType
<1>5. \A j \in Kinds : Len(answers'[j]) <= Len(answers[j]) /\ Len(answers'[j]) <= Size[j]
  BY <1>1, <1>3, <1>4
<1>6. Len(answers'[k]) < Size[k]
  <2>1. Len(answers'[k]) = Len(answers[k]) - 1
    BY <1>1, <1>3
  <2> QED
    BY <1>1, <2>1
<1> QED
  BY <1>2, <1>5, <1>6 DEF AnswersType

\* An answer is put into a queue that has room for it.
LEMMA AddAnswer ==
    ASSUME AnswersType, NEW k \in Kinds, NEW n \in Gets, Len(answers[k]) < Size[k],
           answers' = [answers EXCEPT ![k] = Append(@, n)]
    PROVE  AnswersType'
<1>1. /\ Len(answers[k]) \in Nat /\ Size[k] \in Nat
      /\ Append(answers[k], n) \in Seq(Gets) /\ Len(Append(answers[k], n)) = Len(answers[k]) + 1
  <2>1. answers[k] \in Seq(Gets)
    BY DEF AnswersType
  <2>2. Size[k] \in Nat
    BY SizeAssumption
  <2> QED
    BY <2>1, <2>2, QueueFacts
<1>2. answers' \in [Kinds -> Seq(Gets)]
  BY <1>1 DEF AnswersType
<1>3. \A j \in Kinds : answers'[j] = IF j = k THEN Append(answers[k], n) ELSE answers[j]
  BY DEF AnswersType
<1>4. \A j \in Kinds : Len(answers'[j]) <= Size[j]
  BY <1>1, <1>3 DEF AnswersType
<1> QED
  BY <1>2, <1>4 DEF AnswersType

\* The application only makes room, and the control task waits with its answer
\* until it has dropped one.
LEMMA AnswersStep ==
    AnswersType /\ AppType /\ NetType /\ AnswerFits /\ Next => AnswersType' /\ AnswerFits'
<1> SUFFICES ASSUME AnswersType, AppType, NetType, AnswerFits, Next
             PROVE  AnswersType' /\ AnswerFits'
  OBVIOUS
<1>1. \A k \in Kinds : Len(answers[k]) \in Nat /\ Size[k] \in Nat \ {0}
  BY QueueFacts, SizeAssumption DEF AnswersType
<1>2. CASE TakeAnswer \/ (ReceiveSources /\ answers["sources"] # <<>>)
  <2>1. PICK k \in Kinds : answers[k] # <<>> /\ answers' = [answers EXCEPT ![k] = Tail(@)]
    <3>1. CASE TakeAnswer
      BY <3>1 DEF TakeAnswer, AppType
    <3>2. CASE ReceiveSources /\ answers["sources"] # <<>>
      <4>1. "sources" \in Kinds
        BY <3>2 DEF ReceiveSources, AppType
      <4> QED
        BY <3>2, <4>1 DEF ReceiveSources
    <3> QED
      BY <1>2, <3>1, <3>2
  <2>2. AnswersType' /\ \A j \in Kinds : Len(answers'[j]) <= Len(answers[j])
    BY <2>1, RemoveAnswer
  <2>3. \A j \in Kinds : Len(answers'[j]) \in Nat
    BY <2>2, QueueFacts DEF AnswersType
  <2>4. ctl' = ctl /\ held' = held
    BY <1>2 DEF TakeAnswer, ReceiveSources, netVars
  <2> QED
    BY <1>1, <2>2, <2>3, <2>4 DEF AnswerFits, NetType
<1>3. CASE AnswerArrives
  <2>1. Head(replies) \in Replies /\ Head(replies).of \in Kinds
    BY <1>3, QueueFacts DEF AnswerArrives, Arrives, NetType, ReplyMessages
  <2>2. Head(replies).get \in Gets
    BY <2>1 DEF Replies
  <2>3. AnswersType'
    <3>1. CASE UNCHANGED answers
      BY <3>1 DEF AnswersType
    <3> QED
      BY <1>3, <2>1, <2>2, <3>1, AddAnswer DEF AnswerArrives
  <2>4. ctl' # "resend"
    BY <1>3 DEF AnswerArrives, Goto
  <2> QED
    BY <2>3, <2>4 DEF AnswerFits
<1>4. CASE DropFirst
  <2>1. held.of \in Kinds /\ held' = held
    BY <1>4 DEF DropFirst, NetType
  <2>2. CASE answers[held.of] = <<>>
    <3>1. answers' = answers
      BY <1>4, <2>1, <2>2 DEF DropFirst, AnswersType
    <3>2. Len(answers[held.of]) = 0 /\ Size[held.of] \in Nat \ {0}
      BY <1>1, <2>1, <2>2
    <3> QED
      BY <2>1, <3>1, <3>2 DEF AnswersType, AnswerFits
  <2>3. CASE answers[held.of] # <<>>
    <3>1. answers' = [answers EXCEPT ![held.of] = Tail(@)]
      BY <1>4, <2>3 DEF DropFirst
    <3> QED
      BY <2>1, <2>3, <3>1, RemoveAnswer DEF AnswerFits
  <2> QED
    BY <2>2, <2>3
<1>5. CASE SendAgain
  <2>1. held.of \in Kinds /\ held.get \in Gets
    BY <1>5 DEF SendAgain, NetType, Replies
  <2>2. AnswersType'
    <3>1. CASE UNCHANGED answers
      BY <3>1 DEF AnswersType
    <3> QED
      BY <1>5, <2>1, <3>1, AddAnswer DEF SendAgain
  <2>3. ctl' # "resend"
    BY <1>5 DEF SendAgain, Goto, Hangup
  <2> QED
    BY <2>2, <2>3 DEF AnswerFits
<1>6. CASE UNCHANGED answers /\ (ctl' # "resend" \/ UNCHANGED <<ctl, held>>)
  BY <1>6 DEF AnswersType, AnswerFits
<1>7. \/ TakeAnswer \/ (ReceiveSources /\ answers["sources"] # <<>>)
      \/ AnswerArrives \/ DropFirst \/ SendAgain
      \/ (UNCHANGED answers /\ (ctl' # "resend" \/ UNCHANGED <<ctl, held>>))
  <2>1. CASE Function
    BY <2>1 DEF Function, StartStream, StopStream, Reconfigure, SetSource, Get, netVars
  <2>2. CASE InFunction
    <3>1. CASE SendCommand \/ InsertAction \/ Wait \/ TimesOut \/ StopsPeeking
      BY <3>1 DEF SendCommand, InsertAction, Wait, TimesOut, StopsPeeking, netVars
    <3>2. CASE ReceiveSources
      BY <3>2 DEF ReceiveSources, netVars
    <3> QED
      BY <2>2, <3>1, <3>2 DEF InFunction
  <2>3. CASE DataRestart \/ ReadCommand
    BY <2>3 DEF DataRestart, ReadCommand, netVars
  <2>4. CASE ControlTask \/ PeerGone \/ RunFails \/ ServerStops
    BY <2>4 DEF ControlTask, Connect, QueueInit, NothingReceived, SendAction, NoAction,
                SessionAck, ServerStops, ConnectionStop, PeerGone, RunFails, Goto, Hangup
  <2> QED
    BY <2>1, <2>2, <2>3, <2>4 DEF Next, Environment
<1> QED
  BY <1>2, <1>3, <1>4, <1>5, <1>6, <1>7

-----------------------------------------------------------------------------
(* The invariant and the theorems.                                         *)

LEMMA InitHolds == Init => IInv
<1> SUFFICES ASSUME Init PROVE IInv
  OBVIOUS
<1>1. NoGet \in [of : Kinds \cup {NoKind}, time : 0 .. Wrap - 1, left : Nat]
  BY TimeAssumption DEF NoGet
<1>2. 0 \in Gets /\ NoId \in Ids /\ 0 \in Ids
  BY MessagesWellFormed, BoundsAssumption DEF Ids
<1>3. SessionType /\ HistoryType
  BY <1>2 DEF Init, SessionType, HistoryType
<1>4. ActionsType /\ DataType
  <2>1. reqActionQueue = <<>> /\ startStopQueue = <<>> /\ started = FALSE
    BY DEF Init
  <2>2. Len(<<>>) <= ActionQueueLen /\ Len(<<>>) <= StartStopLen
    BY QueuesAssumption
  <2>3. ActionsType
    BY <2>1, <2>2 DEF ActionsType
  <2>4. <<>> \in Seq({"START", "STOP"})
    OBVIOUS
  <2>5. DataType
    BY <2>1, <2>2, <2>4, Zenon DEF DataType
  <2> QED
    BY <2>3, <2>5
<1>5. AnswersType
  BY SizeAssumption DEF Init, AnswersType
<1>6. AppType
  BY <1>1, <1>2 DEF Init, AppType, Getting
<1>7. NetType /\ AnswerFits
  <2>1. Ack(NoId) \in Replies
    BY <1>2, MessagesWellFormed DEF ReplyMessages
  <2> QED
    BY <1>2, <2>1 DEF Init, NetType, AnswerFits
<1> QED
  BY <1>3, <1>4, <1>5, <1>6, <1>7 DEF IInv

LEMMA StepHolds == IInv /\ [Next]_vars => IInv'
<1> SUFFICES ASSUME IInv, [Next]_vars PROVE IInv'
  OBVIOUS
<1>1. CASE Next
  BY <1>1, SessionStep, DataStep, ActionsStep, HistoryStep, AppStep, NetStep, AnswersStep
     DEF IInv
<1>2. CASE UNCHANGED vars
  BY <1>2 DEF IInv, SessionType, ActionsType, DataType, AnswersType, AppType, NetType,
              HistoryType, AnswerFits, Getting, vars, sessionVars, appVars, netVars, dataVars
<1> QED
  BY <1>1, <1>2

LEMMA Always == Spec => []IInv
  BY InitHolds, StepHolds, PTL DEF Spec

\* All variables stay in their sets; in particular no queue of the viewer ever
\* holds more than it was created for.
THEOREM TypeCorrect == Spec => []TypeOK
<1>1. IInv => TypeOK
  <2> SUFFICES ASSUME IInv PROVE TypeOK
    OBVIOUS
  <2>1. reqActionQueue \in Seq(Messages)
    BY DEF IInv, ActionsType, Requests
  <2>2. todo \in Seq(Calls)
    BY DEF IInv, AppType, Pending, Requests, Calls
  <2>3. replies \in Seq(Replies)
    BY DEF IInv, NetType, ReplyMessages
  <2> QED
    BY <2>1, <2>2, <2>3 DEF IInv, TypeOK, SessionType, ActionsType, DataType, AnswersType,
       AppType, NetType, HistoryType
<1> QED
  BY <1>1, Always, PTL

\* A late answer finds room after the oldest is dropped, whatever the application
\* takes out in between (the handlers of answers in
\* client_play/espfsp_comm_proto_handlers.c): it never costs the connection.
THEOREM AnswerAlwaysFits == Spec => []AnswerFits
<1>1. IInv => AnswerFits
  BY DEF IInv
<1> QED
  BY <1>1, Always, PTL

\* However the application and the loss of connections interleave, and whether
\* or not the data task can be told, the flag of the stream does not outlive the
\* session (espfsp_client_play_start_stream, espfsp_client_play_connection_stop).
THEOREM StreamAlwaysNeedsSession == Spec => []StreamNeedsSession
<1>1. Init => StreamNeedsSession
  BY DEF Init, StreamNeedsSession
<1>2. StreamNeedsSession /\ [Next]_vars => StreamNeedsSession'
  <2> SUFFICES ASSUME StreamNeedsSession, [Next]_vars PROVE StreamNeedsSession'
    OBVIOUS
  <2>1. CASE StartStream \/ StopStream
    BY <2>1 DEF StartStream, StopStream, StreamNeedsSession
  <2>2. CASE SessionAck
    BY <2>2 DEF SessionAck, StreamNeedsSession
  <2>3. ASSUME NEW clears \in BOOLEAN, StopData(clears) PROVE StreamNeedsSession'
    BY <2>3 DEF StopData, StreamNeedsSession, sessionVars
  <2>4. CASE ServerStops \/ ConnectionStop
    BY <2>3, <2>4 DEF ServerStops, ConnectionStop
  <2>5. CASE UNCHANGED sessionVars
    BY <2>5 DEF StreamNeedsSession, sessionVars
  <2>6. \/ StartStream \/ StopStream \/ SessionAck \/ ServerStops \/ ConnectionStop
        \/ UNCHANGED sessionVars
    BY DEF Next, Function, InFunction, ControlTask, Environment, Reconfigure, SetSource, Get,
           SendCommand, InsertAction, TakeAnswer, Wait, TimesOut, StopsPeeking,
           ReceiveSources, Connect, QueueInit, NothingReceived, SendAction, NoAction,
           AnswerArrives, DropFirst, SendAgain, PeerGone, RunFails, DataRestart, ReadCommand,
           vars
  <2> QED
    BY <2>1, <2>2, <2>4, <2>5, <2>6
<1> QED
  BY <1>1, <1>2, PTL DEF Spec

-----------------------------------------------------------------------------
(* The flag of the stream and the data task.                               *)

\* What the data task does once it has read all commands.
LastCommand ==
    IF startStopQueue = <<>> THEN started
    ELSE startStopQueue[Len(startStopQueue)] = "START"

\* The flag and what the data task has been told go together, counting the command
\* a function is about to send.
FlagInv ==
    /\ api = "post" => \A i \in DOMAIN todo : i # 1 => todo[i].call = "send"
    /\ ~upset /\ CommandPending => (stream_started <=> Head(todo).cmd = "START")
    /\ ~upset /\ ~CommandPending => (stream_started <=> LastCommand)

LEMMA LastIsAppended ==
    ASSUME DataType, NEW cmd \in {"START", "STOP"}, startStopQueue' = Append(startStopQueue, cmd)
    PROVE  LastCommand' <=> cmd = "START"
<1>1. /\ startStopQueue' # <<>> /\ Len(startStopQueue') = Len(startStopQueue) + 1
      /\ startStopQueue'[Len(startStopQueue) + 1] = cmd
  BY DEF DataType
<1> QED
  BY <1>1 DEF LastCommand

LEMMA LastStaysLast ==
    ASSUME DataType, ReadCommand
    PROVE  LastCommand' <=> LastCommand
<1>1. /\ startStopQueue \in Seq({"START", "STOP"}) /\ startStopQueue # <<>>
      /\ startStopQueue' = Tail(startStopQueue) /\ started' = (Head(startStopQueue) = "START")
  BY DEF DataType, ReadCommand
<1>2. CASE Len(startStopQueue) = 1
  <2>1. startStopQueue' = <<>> /\ Head(startStopQueue) = startStopQueue[Len(startStopQueue)]
    BY <1>1, <1>2
  <2> QED
    BY <1>1, <2>1 DEF LastCommand
<1>3. CASE Len(startStopQueue) # 1
  <2>1. /\ Len(startStopQueue') = Len(startStopQueue) - 1 /\ Len(startStopQueue') \in Nat \ {0}
        /\ \A i \in 1 .. Len(startStopQueue') : startStopQueue'[i] = startStopQueue[i + 1]
    BY <1>1, <1>3
  <2>2. /\ startStopQueue' # <<>>
        /\ startStopQueue'[Len(startStopQueue')] = startStopQueue[Len(startStopQueue)]
    BY <1>1, <2>1
  <2> QED
    BY <1>1, <2>2 DEF LastCommand
<1> QED
  BY <1>2, <1>3

\* What is left of the calls of a function.
LEMMA CallsLeft ==
    ASSUME AppType, api = "post", CallDone \/ CallFails
    PROVE  /\ api' = "post" => /\ todo' = Tail(todo) /\ todo' # <<>> /\ Len(todo') = Len(todo) - 1
                               /\ Head(todo') = todo[2] /\ 2 \in DOMAIN todo
           /\ api' = "post" => \A i \in DOMAIN todo' : i + 1 \in DOMAIN todo /\ i + 1 # 1
                                                         /\ todo'[i] = todo[i + 1]
           /\ api' # "post" => todo' = <<>>
<1>1. todo \in Seq(Pending) /\ todo # <<>> /\ Len(todo) \in Nat
  BY DEF AppType
<1>2. CASE CallFails
  BY <1>2 DEF CallFails
<1>3. CASE CallDone
  <2>1. todo' = Tail(todo) /\ (api' = "post" <=> Len(todo) > 1)
    BY <1>3, Zenon DEF CallDone
  <2>2. Len(todo) > 1 => /\ Tail(todo) # <<>> /\ Len(Tail(todo)) = Len(todo) - 1
                         /\ Head(Tail(todo)) = todo[2] /\ 2 \in DOMAIN todo
    BY <1>1
  <2>3. \A i \in DOMAIN Tail(todo) : i + 1 \in DOMAIN todo /\ i + 1 # 1 /\ Tail(todo)[i] = todo[i + 1]
    BY <1>1
  <2>4. ~(Len(todo) > 1) => Tail(todo) = <<>>
    BY <1>1
  <2> QED
    BY <2>1, <2>2, <2>3, <2>4
<1> QED
  BY <1>2, <1>3

\* After its first call a function has no command left.
LEMMA NoCommandLeft ==
    ASSUME AppType, FlagInv, api = "post", CallDone \/ CallFails
    PROVE  /\ ~CommandPending'
           /\ api' = "post" => \A i \in DOMAIN todo' : i # 1 => todo'[i].call = "send"
<1>1. api' = "post" => \A i \in DOMAIN todo' : todo'[i].call = "send"
  BY CallsLeft DEF FlagInv
<1>2. api' = "post" => Head(todo').call = "send"
  BY CallsLeft DEF FlagInv
<1> QED
  BY <1>1, <1>2 DEF CommandPending

LEMMA FlagStep ==
    SessionType /\ DataType /\ AppType /\ HistoryType /\ FlagInv /\ Next => FlagInv'
<1> SUFFICES ASSUME SessionType, DataType, AppType, HistoryType, FlagInv, Next PROVE FlagInv'
  OBVIOUS
<1>1. CASE StartStream \/ StopStream
  <2>1. PICK cmd \in {"START", "STOP"} :
          /\ stream_started' = (cmd = "START")
          /\ Then(<<Data(cmd), Send(Message("REQUEST", session_id))>>)
    BY <1>1 DEF StartStream, StopStream
  <2>2. /\ api' = "post" /\ CommandPending' /\ Head(todo').cmd = cmd
        /\ \A i \in DOMAIN todo' : i # 1 => todo'[i].call = "send"
    BY <2>1 DEF Then, CommandPending, Data, Send
  <2> QED
    BY <2>1, <2>2 DEF FlagInv
<1>2. CASE SetSource \/ \E k \in Kinds : Reconfigure(k) \/ \E t \in Timeouts : Get(k, t)
  <2>1. /\ api = "idle" /\ api' = "post"
        /\ UNCHANGED <<stream_started, startStopQueue, started, upset>>
    BY <1>2 DEF SetSource, Reconfigure, Get, Then, sessionVars, dataVars
  <2>2. PICK n \in Nat \ {0}, m \in Requests : todo' = Times(n, Send(m)) \/ todo' = <<Send(m)>>
    <3>1. Message("REQUEST", session_id) \in Requests /\ 1 \in Nat \ {0}
      BY MessagesWellFormed DEF SessionType
    <3>2. CASE SetSource
      BY <3>1, <3>2 DEF SetSource, Then
    <3>3. ASSUME NEW k \in Kinds, Reconfigure(k)
          PROVE  \E n \in Nat \ {0}, m \in Requests : todo' = Times(n, Send(m))
      BY <3>1, <3>3, SizeAssumption DEF Reconfigure, Then
    <3>4. ASSUME NEW k \in Kinds, NEW t \in Timeouts, Get(k, t)
          PROVE  \E n \in Nat \ {0}, m \in Requests : todo' = Times(n, Send(m))
      <4>1. gets + 1 \in Gets
        BY <3>4, BoundsAssumption DEF Get, Gets, AppType
      <4>2. Ask(k, session_id, gets + 1) \in Requests
        BY <4>1, MessagesWellFormed DEF SessionType
      <4> QED
        BY <3>4, <4>2, SizeAssumption DEF Get, Then
    <3> QED
      BY <1>2, <3>2, <3>3, <3>4
  <2>3. todo' # <<>> /\ Head(todo').call = "send" /\ \A i \in DOMAIN todo' : todo'[i].call = "send"
    BY <2>2 DEF Times, Send
  <2>4. ~CommandPending /\ ~CommandPending'
    BY <2>1, <2>3 DEF CommandPending
  <2> QED
    BY <2>1, <2>3, <2>4 DEF FlagInv, LastCommand
<1>3. CASE SendCommand
  <2>1. api = "post" /\ CommandPending /\ UNCHANGED <<stream_started, started>>
    BY <1>3 DEF SendCommand, Calling, CommandPending, sessionVars
  <2>2. CallDone \/ CallFails
    BY <1>3 DEF SendCommand
  <2>3. /\ ~CommandPending'
        /\ api' = "post" => \A i \in DOMAIN todo' : i # 1 => todo'[i].call = "send"
    BY <2>1, <2>2, NoCommandLeft
  <2>4. Head(todo).cmd \in {"START", "STOP"}
    <3>1. Head(todo) \in Pending /\ Head(todo).call = "data"
      BY <1>3, QueueFacts DEF SendCommand, Calling, AppType
    <3> QED
      BY <3>1 DEF Pending
  <2>5. ~upset' => ~upset /\ startStopQueue' = Append(startStopQueue, Head(todo).cmd)
    BY <1>3 DEF SendCommand
  <2>6. ~upset' => (LastCommand' <=> Head(todo).cmd = "START")
    BY <2>4, <2>5, LastIsAppended
  <2> QED
    BY <2>1, <2>3, <2>5, <2>6 DEF FlagInv
<1>4. CASE InsertAction
  <2>1. /\ api = "post" /\ ~CommandPending
        /\ CallDone \/ CallFails
        /\ UNCHANGED <<stream_started, startStopQueue, started, upset>>
    BY <1>4 DEF InsertAction, Calling, CommandPending, sessionVars, dataVars
  <2>2. /\ ~CommandPending'
        /\ api' = "post" => \A i \in DOMAIN todo' : i # 1 => todo'[i].call = "send"
    BY <2>1, NoCommandLeft
  <2>3. LastCommand' = LastCommand
    BY <2>1 DEF LastCommand
  <2> QED
    BY <2>1, <2>2, <2>3 DEF FlagInv
<1>5. ASSUME NEW clears \in BOOLEAN, StopData(clears), UNCHANGED <<started, api, todo>>
      PROVE  FlagInv'
  <2>1. CommandPending' <=> CommandPending
    BY <1>5 DEF CommandPending
  <2>2. CASE stream_started /\ Len(startStopQueue) < StartStopLen
    <3>1. /\ startStopQueue' = Append(startStopQueue, "STOP") /\ stream_started' = FALSE
          /\ ~upset' => ~upset /\ ~CommandPending
      <4>1. Len(startStopQueue) # StartStopLen
        BY <2>2, QueueFacts, QueuesAssumption DEF DataType
      <4> QED
        BY <1>5, <2>2, <4>1 DEF StopData
    <3>2. ~LastCommand'
      BY <3>1, LastIsAppended
    <3> QED
      BY <1>5, <2>1, <3>1, <3>2 DEF FlagInv
  <2>3. CASE ~(stream_started /\ Len(startStopQueue) < StartStopLen)
    <3>1. UNCHANGED startStopQueue /\ (~upset' => ~upset)
      BY <1>5, <2>3 DEF StopData
    <3>2. stream_started' <=> stream_started
      <4>1. CASE ~stream_started
        BY <1>5, <4>1 DEF StopData
      <4>2. CASE stream_started
        <5>1. Len(startStopQueue) = StartStopLen
          BY <2>3, <4>2, QueueFacts, QueuesAssumption DEF DataType
        <5> QED
          BY <1>5, <4>2, <5>1 DEF StopData, sessionVars
      <4> QED
        BY <4>1, <4>2
    <3> QED
      BY <1>5, <2>1, <3>1, <3>2 DEF FlagInv, LastCommand
  <2> QED
    BY <2>2, <2>3
<1>6. CASE ServerStops \/ ConnectionStop
  BY <1>5, <1>6 DEF ServerStops, ConnectionStop, appVars
<1>7. CASE ReadCommand
  <2>1. UNCHANGED <<stream_started, api, todo, upset>>
    BY <1>7 DEF ReadCommand, sessionVars, appVars
  <2> QED
    BY <1>7, <2>1, LastStaysLast DEF FlagInv, CommandPending
<1>8. CASE DataRestart
  BY <1>8 DEF DataRestart, FlagInv, appVars
<1>9. CASE /\ UNCHANGED <<stream_started, startStopQueue, started, upset>>
           /\ UNCHANGED <<api, todo>> \/ (api # "post" /\ api' # "post")
  <2>1. CommandPending' <=> CommandPending
    BY <1>9 DEF CommandPending
  <2>2. LastCommand' = LastCommand
    BY <1>9 DEF LastCommand
  <2>3. CASE UNCHANGED <<api, todo>>
    BY <1>9, <2>1, <2>2, <2>3 DEF FlagInv
  <2>4. CASE api # "post" /\ api' # "post"
    BY <1>9, <2>1, <2>2, <2>4 DEF FlagInv, CommandPending
  <2> QED
    BY <1>9, <2>3, <2>4
<1>10. CASE TakeAnswer \/ Wait \/ TimesOut \/ StopsPeeking \/ ReceiveSources
  BY <1>9, <1>10 DEF TakeAnswer, Wait, TimesOut, StopsPeeking, ReceiveSources, GetReturns,
                     sessionVars, dataVars
<1>11. CASE ControlTask \/ PeerGone \/ RunFails
  <2>1. CASE ConnectionStop
    BY <1>6, <2>1
  <2>2. CASE ~ConnectionStop
    BY <1>9, <1>11, <2>2 DEF ControlTask, Connect, QueueInit, NothingReceived, SendAction, NoAction,
       SessionAck, AnswerArrives, DropFirst, SendAgain, PeerGone, RunFails, sessionVars, dataVars,
       appVars
  <2> QED
    BY <2>1, <2>2
<1> QED
  BY <1>1, <1>2, <1>3, <1>4, <1>6, <1>7, <1>8, <1>10, <1>11
     DEF Next, Function, InFunction, Environment

-----------------------------------------------------------------------------
(* Counting messages of a kind in a queue.                                 *)

Places(q, kind) == {i \in DOMAIN q : q[i].kind = kind}
Count(q, kind) == Cardinality(Places(q, kind))

LEMMA CountIsFinite ==
    ASSUME NEW T, NEW q \in Seq(T), NEW kind
    PROVE  /\ IsFiniteSet(Places(q, kind)) /\ Count(q, kind) \in Nat
           /\ Count(q, kind) = 0 => \A i \in DOMAIN q : q[i].kind # kind
<1>1. IsFiniteSet(DOMAIN q)
  <2>1. DOMAIN q = 1 .. Len(q) /\ Len(q) \in Int /\ 1 \in Int
    OBVIOUS
  <2> QED
    BY <2>1, FS_Interval
<1>2. IsFiniteSet(Places(q, kind))
  BY <1>1, FS_Subset DEF Places
<1> QED
  BY <1>2, FS_CardinalityType, FS_EmptySet DEF Count, Places

LEMMA CountOfNone ==
    ASSUME NEW T, NEW q \in Seq(T), NEW kind, \A i \in DOMAIN q : q[i].kind # kind
    PROVE  Count(q, kind) = 0
<1>1. Places(q, kind) = {}
  BY DEF Places
<1> QED
  BY <1>1, FS_EmptySet DEF Count

LEMMA CountAppended ==
    ASSUME NEW T, NEW q \in Seq(T), NEW m \in T, NEW kind
    PROVE  Count(Append(q, m), kind) = IF m.kind = kind THEN Count(q, kind) + 1 ELSE Count(q, kind)
<1> DEFINE n == Len(q) + 1
<1>1. /\ n \in Nat /\ n \notin DOMAIN q
      /\ DOMAIN Append(q, m) = DOMAIN q \cup {n}
      /\ Append(q, m)[n] = m /\ \A i \in DOMAIN q : Append(q, m)[i] = q[i]
  OBVIOUS
<1> HIDE DEF n
<1>2. n \notin Places(q, kind)
  BY <1>1 DEF Places
<1>3. Places(Append(q, m), kind) = IF m.kind = kind THEN Places(q, kind) \cup {n} ELSE Places(q, kind)
  BY <1>1 DEF Places
<1> QED
  BY <1>2, <1>3, CountIsFinite, FS_AddElement DEF Count

\* The rest of a queue has the same messages one place earlier.
LEMMA CountOfTail ==
    ASSUME NEW T, NEW q \in Seq(T), q # <<>>, NEW kind
    PROVE  Count(q, kind) = IF Head(q).kind = kind THEN Count(Tail(q), kind) + 1 ELSE Count(Tail(q), kind)
<1>1. /\ Tail(q) \in Seq(T) /\ 1 \in DOMAIN q /\ Head(q) = q[1]
      /\ \A i \in DOMAIN Tail(q) : i \in Nat \ {0} /\ i + 1 \in DOMAIN q /\ Tail(q)[i] = q[i + 1]
      /\ \A i \in DOMAIN q : i \in Nat /\ (i # 1 => i - 1 \in DOMAIN Tail(q) /\ Tail(q)[i - 1] = q[i])
  <2>1. Len(q) \in Nat \ {0} /\ Len(Tail(q)) = Len(q) - 1 /\ Tail(q) \in Seq(T) /\ Head(q) = q[1]
    OBVIOUS
  <2>2. \A i \in 1 .. Len(q) - 1 : Tail(q)[i] = q[i + 1]
    OBVIOUS
  <2>3. DOMAIN q = 1 .. Len(q) /\ DOMAIN Tail(q) = 1 .. Len(q) - 1
    BY <2>1
  <2> QED
    BY <2>1, <2>2, <2>3
<1> DEFINE A == Places(Tail(q), kind)
           B == Places(q, kind) \ {1}
           shift == [i \in A |-> i + 1]
<1>2. \A i \in A : i \in Nat \ {0} /\ i + 1 \in B
  BY <1>1 DEF Places
<1>3. \A i \in B : i - 1 \in A /\ i \in Nat /\ (i - 1) + 1 = i
  BY <1>1 DEF Places
<1> HIDE DEF A, B
<1>4. shift \in Bijection(A, B)
  <2>1. shift \in [A -> B]
    BY <1>2
  <2>2. \A i, j \in A : shift[i] = shift[j] => i = j
    BY <1>2
  <2>3. \A j \in B : \E i \in A : shift[i] = j
    BY <1>3
  <2> QED
    BY <2>1, <2>2, <2>3 DEF Bijection, Injection, Surjection, IsInjective
<1>5. IsFiniteSet(A) /\ Cardinality(A) = Count(Tail(q), kind) /\ Cardinality(A) \in Nat
  BY <1>1, CountIsFinite DEF Count, A
<1>6. IsFiniteSet(B) /\ Cardinality(B) = Cardinality(A)
  BY <1>4, <1>5, FS_Bijection DEF ExistsBijection
<1>7. 1 \notin B /\ Places(q, kind) = IF Head(q).kind = kind THEN B \cup {1} ELSE B
  BY <1>1 DEF B, Places
<1>8. Cardinality(B \cup {1}) = Cardinality(B) + 1
  BY <1>6, <1>7, FS_AddElement
<1> QED
  BY <1>5, <1>6, <1>7, <1>8 DEF Count

-----------------------------------------------------------------------------
(* Whose answers are on their way.                                         *)

\* A request or an answer of the get call under way.
IsCurrent(m) == Getting /\ m.of = get.of /\ m.get = gets
AllCurrent(q, kind) == \A i \in DOMAIN q : q[i].kind = kind => IsCurrent(q[i])

\* What a function is about to send belongs to it, and a function that returns
\* has nothing left to send.
GetInv ==
    /\ api = "idle" => ~Getting
    /\ api # "post" => todo = <<>>
    /\ Getting => get.left <= Size[get.of] /\ (get.of = "sources" => get.left = 1)
    /\ Getting => \A i \in DOMAIN todo : todo[i].call = "send"
    /\ \A i \in DOMAIN todo : todo[i].call = "send" =>
        IF Getting THEN todo[i].msg.kind = "GET" /\ IsCurrent(todo[i].msg)
        ELSE todo[i].msg.kind # "GET"

\* Requests to be queued, queued, answered and answers that wait: together never
\* more than the call has to come.
Outstanding ==
    Len(todo) + Count(reqActionQueue, "GET") + Count(replies, "ANSWER") + Len(answers[get.of])

CurrentInv ==
    ~missed =>
        /\ ctl \notin {"full", "resend"}
        /\ AllCurrent(reqActionQueue, "GET") /\ AllCurrent(replies, "ANSWER")
        /\ \A k \in Kinds : \A i \in DOMAIN answers[k] :
              Getting /\ k = get.of /\ answers[k][i] = gets
        /\ Getting => Outstanding <= get.left

LEMMA AllOfTimes ==
    \A n \in Nat, c \in Pending : Len(Times(n, c)) = n /\ \A i \in DOMAIN Times(n, c) : Times(n, c)[i] = c
<1> TAKE n \in Nat, c \in Pending
<1>1. Times(n, c) \in Seq(Pending) /\ DOMAIN Times(n, c) = 1 .. n /\ \A i \in 1 .. n : Times(n, c)[i] = c
  BY DEF Times
<1> QED
  BY <1>1

LEMMA GetCallStep == ASSUME IInv, GetInv, CallDone \/ CallFails, api = "post", UNCHANGED gets PROVE GetInv'
<1>1. CASE CallFails
  BY <1>1 DEF CallFails, GetInv, Getting
<1>2. CASE CallDone
  <2>1. UNCHANGED <<get, gets>> /\ (api' = "idle" => ~Getting)
    BY <1>2, Zenon DEF CallDone
  <2>2. api' # "post" => todo' = <<>>
    BY CallsLeft DEF IInv
  <2>3. api' = "post" => \A i \in DOMAIN todo' : i + 1 \in DOMAIN todo /\ todo'[i] = todo[i + 1]
    BY CallsLeft DEF IInv
  <2>4. \A i \in DOMAIN todo' : \E j \in DOMAIN todo : todo'[i] = todo[j]
    BY <2>2, <2>3
  <2>5. Getting' <=> Getting
    BY <2>1 DEF Getting
  <2>7. Getting' => \A i \in DOMAIN todo' : todo'[i].call = "send"
    BY <2>4, <2>5 DEF GetInv
  <2>8. ASSUME NEW i \in DOMAIN todo', todo'[i].call = "send"
        PROVE  /\ ~Getting' => todo'[i].msg.kind # "GET"
               /\ Getting' => /\ todo'[i].msg.kind = "GET" /\ todo'[i].msg.of = get'.of
                              /\ todo'[i].msg.get = gets'
    <3>1. PICK j \in DOMAIN todo : todo'[i] = todo[j]
      BY <2>4
    <3> QED
      BY <2>1, <2>5, <2>8, <3>1 DEF GetInv, IsCurrent
  <2>9. Getting' => get'.left <= Size[get'.of] /\ (get'.of = "sources" => get'.left = 1)
    BY <2>1, <2>5 DEF GetInv
  <2>10. api' = "idle" => ~Getting'
    BY <2>1, <2>5
  <2> QED
    BY <2>2, <2>7, <2>8, <2>9, <2>10 DEF GetInv, IsCurrent
<1> QED
  BY <1>1, <1>2

LEMMA GetStep == ASSUME IInv, GetInv, Next PROVE GetInv'
<1>1. CASE StartStream \/ StopStream \/ SetSource \/ \E k \in Kinds : Reconfigure(k)
  <2>1. ~Getting /\ UNCHANGED <<get, gets>> /\ api' = "post"
    BY <1>1 DEF StartStream, StopStream, SetSource, Reconfigure, Then, GetInv
  <2>2. \A i \in DOMAIN todo' : todo'[i].call = "send" => todo'[i].msg.kind = "REQUEST"
    <3>1. Send(Message("REQUEST", session_id)) \in Pending
      BY MessagesWellFormed, CallsWellFormed DEF IInv, SessionType
    <3>2. CASE StartStream \/ StopStream \/ SetSource
      BY <3>2 DEF StartStream, StopStream, SetSource, Then, Data, Send, Message
    <3>3. ASSUME NEW k \in Kinds, Reconfigure(k)
          PROVE  \A i \in DOMAIN todo' : todo'[i].msg.kind = "REQUEST"
      <4>1. todo' = Times(Size[k], Send(Message("REQUEST", session_id))) /\ Size[k] \in Nat
        BY <3>3, SizeAssumption DEF Reconfigure, Then
      <4>2. \A i \in DOMAIN todo' : todo'[i] = Send(Message("REQUEST", session_id))
        BY <3>1, <4>1, AllOfTimes
      <4> QED
        BY <4>2 DEF Send, Message
    <3> QED
      BY <1>1, <3>2, <3>3
  <2>3. ~Getting'
    BY <2>1 DEF Getting
  <2> QED
    BY <2>1, <2>2, <2>3 DEF GetInv
<1>2. ASSUME NEW k \in Kinds, NEW t \in Timeouts, Get(k, t) PROVE GetInv'
  <2>1. Size[k] \in Nat \ {0} /\ ("sources" \in Kinds => Size["sources"] = 1)
    BY SizeAssumption
  <2>2. gets + 1 \in Gets
    BY <1>2, BoundsAssumption DEF Get, Gets, IInv, AppType
  <2>3. Send(Ask(k, session_id, gets + 1)) \in Pending
    BY <2>2, MessagesWellFormed, CallsWellFormed DEF IInv, SessionType
  <2>4. /\ get' = [of |-> k, time |-> t, left |-> Size[k]] /\ gets' = gets + 1 /\ api' = "post"
        /\ todo' = Times(Size[k], Send(Ask(k, session_id, gets + 1)))
    BY <1>2 DEF Get, Then
  <2>5. Getting'
    BY <2>1, <2>4 DEF Getting, NoGet
  <2>6. \A i \in DOMAIN todo' : todo'[i] = Send(Ask(k, session_id, gets + 1))
    BY <2>1, <2>3, <2>4, AllOfTimes
  <2>7. \A i \in DOMAIN todo' : /\ todo'[i].call = "send" /\ todo'[i].msg.kind = "GET"
                                /\ todo'[i].msg.of = get'.of /\ todo'[i].msg.get = gets'
    BY <2>4, <2>6 DEF Send, Ask
  <2>8. get'.left <= Size[get'.of] /\ (get'.of = "sources" => get'.left = 1)
    BY <2>1, <2>4
  <2> QED
    BY <2>4, <2>5, <2>7, <2>8 DEF GetInv, IsCurrent
<1>3. CASE SendCommand \/ InsertAction
  BY <1>3, GetCallStep DEF SendCommand, InsertAction, Calling
<1>4. ASSUME GetReturns, api # "post", UNCHANGED todo PROVE GetInv'
  BY <1>4 DEF GetReturns, GetInv, Getting
<1>5. ASSUME api # "post", api' \in {"wait", "receive"}, UNCHANGED <<todo, gets>>, Getting', Getting,
             get'.of = get.of, get'.left <= get.left, get.of # "sources" \/ get'.left = get.left,
             get'.left \in Nat
      PROVE  GetInv'
  <2>1. todo' = <<>> /\ get.left \in Nat /\ Size[get.of] \in Nat
    BY <1>5, SizeAssumption DEF GetInv, IInv, AppType
  <2>2. get'.left <= Size[get'.of] /\ (get'.of = "sources" => get'.left = 1)
    BY <1>5, <2>1 DEF GetInv
  <2> QED
    BY <1>5, <2>1, <2>2 DEF GetInv
<1>6. CASE TimesOut \/ ReceiveSources
  BY <1>4, <1>6 DEF TimesOut, ReceiveSources
<1>7. CASE TakeAnswer
  <2>1. CASE get.left = 1
    BY <1>4, <1>7, <2>1 DEF TakeAnswer
  <2>2. CASE get.left # 1
    <3>1. get.left \in Nat \ {0} /\ Getting
      BY <1>7 DEF TakeAnswer, IInv, AppType
    <3>2. get' = [get EXCEPT !.left = @ - 1] /\ get'.of = get.of /\ get'.left = get.left - 1
      BY <1>7, <2>2 DEF TakeAnswer, IInv, AppType
    <3>3. Getting'
      BY <2>2, <3>1, <3>2 DEF Getting, NoGet
    <3>4. api = "wait" /\ get.of # "sources" /\ UNCHANGED <<api, todo, gets>>
      BY <1>7, <2>2 DEF TakeAnswer
    <3>5. get'.left \in Nat /\ get'.left <= get.left
      BY <3>1, <3>2
    <3> QED
      BY <1>5, <3>1, <3>2, <3>3, <3>4, <3>5
  <2> QED
    BY <2>1, <2>2
<1>8. CASE Wait
  <2>1. Getting /\ get.left \in Nat \ {0}
    BY <1>8 DEF Wait, IInv, AppType
  <2>2. get'.of = get.of /\ get'.left = get.left
    BY <1>8 DEF Wait, IInv, AppType
  <2>3. Getting'
    BY <2>1, <2>2 DEF Getting, NoGet
  <2> QED
    BY <1>5, <1>8, <2>1, <2>2, <2>3 DEF Wait
<1>9. CASE StopsPeeking
  BY <1>5, <1>9 DEF StopsPeeking, IInv, AppType, Getting
<1>10. CASE UNCHANGED appVars
  BY <1>10 DEF appVars, GetInv, Getting, IsCurrent
<1> QED
  BY <1>1, <1>2, <1>3, <1>6, <1>7, <1>8, <1>9, <1>10
     DEF Next, Function, InFunction, ControlTask, Environment, Connect, QueueInit,
         NothingReceived, SendAction, NoAction, SessionAck, ServerStops, ConnectionStop,
         AnswerArrives, DropFirst, SendAgain, PeerGone, RunFails, DataRestart, ReadCommand

LEMMA SequenceEnds ==
    ASSUME NEW T, NEW q \in Seq(T)
    PROVE  /\ q # <<>> => /\ Head(q) \in T /\ 1 \in DOMAIN q /\ Head(q) = q[1]
                          /\ \A i \in DOMAIN Tail(q) : i + 1 \in DOMAIN q /\ Tail(q)[i] = q[i + 1]
           /\ \A m \in T : \A i \in DOMAIN Append(q, m) :
                Append(q, m)[i] = m \/ (i \in DOMAIN q /\ Append(q, m)[i] = q[i])
<1>1. ASSUME q # <<>>
      PROVE  /\ Head(q) \in T /\ 1 \in DOMAIN q /\ Head(q) = q[1]
             /\ \A i \in DOMAIN Tail(q) : i + 1 \in DOMAIN q /\ Tail(q)[i] = q[i + 1]
  BY <1>1
<1> QED
  BY <1>1

\* The numbers Outstanding adds up.
LEMMA OutstandingTypes ==
    ASSUME IInv
    PROVE  /\ Len(todo) \in Nat
           /\ Count(reqActionQueue, "GET") \in Nat /\ Count(replies, "ANSWER") \in Nat
           /\ Getting => /\ get.of \in Kinds /\ get.left \in Nat \ {0}
                         /\ answers[get.of] \in Seq(Gets) /\ Len(answers[get.of]) \in Nat
                         /\ Size[get.of] \in Nat
<1>1. Len(todo) \in Nat
  BY DEF IInv, AppType
<1>2. Count(reqActionQueue, "GET") \in Nat
  BY CountIsFinite DEF IInv, ActionsType
<1>3. Count(replies, "ANSWER") \in Nat
  BY CountIsFinite DEF IInv, NetType
<1>4. Getting => get.of \in Kinds /\ get.left \in Nat \ {0}
  BY DEF IInv, AppType
<1>5. \A k \in Kinds : answers[k] \in Seq(Gets) /\ Len(answers[k]) \in Nat /\ Size[k] \in Nat
  BY SizeAssumption DEF IInv, AnswersType
<1> QED
  BY <1>1, <1>2, <1>3, <1>4, <1>5

\* The steps of the application outside a get call, and the first of one.
LEMMA CurrentBegins ==
    ASSUME IInv, IInv', GetInv, CurrentInv, api = "idle", UNCHANGED <<reqActionQueue, answers, netVars, missed>>,
           \/ UNCHANGED <<get, gets>>
           \/ \E k \in Kinds, t \in Timeouts : Get(k, t)
    PROVE  CurrentInv'
<1> SUFFICES ASSUME ~missed PROVE CurrentInv'
  BY DEF CurrentInv
<1>1. ~Getting
  BY DEF GetInv
<1>2. Count(reqActionQueue, "GET") = 0
  BY <1>1, CountOfNone DEF CurrentInv, AllCurrent, IsCurrent, IInv, ActionsType
<1>3. Count(replies, "ANSWER") = 0
  BY <1>1, CountOfNone DEF CurrentInv, AllCurrent, IsCurrent, IInv, NetType
<1>4. \A k \in Kinds : answers[k] = <<>>
  <2> TAKE k \in Kinds
  <2>1. \A i \in DOMAIN answers[k] : FALSE
    BY <1>1 DEF CurrentInv
  <2>2. answers[k] \in Seq(Gets)
    BY DEF IInv, AnswersType
  <2>3. answers[k] # <<>> => 1 \in DOMAIN answers[k]
    BY <2>2, SequenceEnds
  <2> QED
    BY <2>1, <2>3
<1>5. UNCHANGED <<reqActionQueue, replies, answers, ctl>>
  BY DEF netVars
<1>6. /\ AllCurrent(reqActionQueue, "GET")' /\ AllCurrent(replies, "ANSWER")'
      /\ \A k \in Kinds : \A i \in DOMAIN answers'[k] : FALSE
  <2>1. /\ \A i \in DOMAIN reqActionQueue : reqActionQueue[i].kind # "GET"
        /\ \A i \in DOMAIN replies : replies[i].kind # "ANSWER"
    BY <1>2, <1>3, CountIsFinite DEF IInv, ActionsType, NetType
  <2> QED
    BY <1>4, <1>5, <2>1 DEF AllCurrent
<1>7. Getting' => Outstanding' <= get'.left
  <2>1. CASE UNCHANGED <<get, gets>>
    BY <1>1, <2>1 DEF Getting
  <2>2. ASSUME NEW k \in Kinds, NEW t \in Timeouts, Get(k, t) PROVE Outstanding' <= get'.left
    <3>1. Size[k] \in Nat /\ gets + 1 \in Gets
      BY <2>2, SizeAssumption, BoundsAssumption DEF Get, Gets, IInv, AppType
    <3>2. Send(Ask(k, session_id, gets + 1)) \in Pending
      BY <3>1, MessagesWellFormed, CallsWellFormed DEF IInv, SessionType
    <3>3. Len(todo') = Size[k] /\ get'.of = k /\ get'.left = Size[k]
      BY <2>2, <3>1, <3>2, AllOfTimes DEF Get, Then
    <3>4. Count(reqActionQueue', "GET") = 0 /\ Count(replies', "ANSWER") = 0 /\ Len(answers'[k]) = 0
      BY <1>2, <1>3, <1>4, <1>5
    <3> QED
      BY <3>1, <3>3, <3>4 DEF Outstanding
  <2> QED
    BY <2>1, <2>2
<1> QED
  BY <1>5, <1>6, <1>7 DEF CurrentInv

\* A request is queued, or a command is given.
LEMMA CurrentCall ==
    ASSUME IInv, IInv', GetInv, CurrentInv, SendCommand \/ InsertAction
    PROVE  CurrentInv'
<1> SUFFICES ASSUME ~missed' PROVE CurrentInv'
  BY DEF CurrentInv
<1>1. /\ api = "post" /\ todo \in Seq(Pending) /\ todo # <<>> /\ ~missed
      /\ CallDone \/ CallFails
      /\ UNCHANGED <<answers, replies, ctl, gets>>
  BY DEF SendCommand, InsertAction, Calling, IInv, AppType, HistoryType, netVars
<1>2. Getting' => Getting /\ get' = get /\ todo' = Tail(todo)
  BY <1>1 DEF CallDone, CallFails, Getting
<1>3. Len(Tail(todo)) = Len(todo) - 1 /\ 1 \in DOMAIN todo /\ Head(todo) = todo[1]
  BY <1>1, SequenceEnds, QueueFacts
<1>4. ~Getting => ~Getting'
  BY <1>2
<1>5. CASE reqActionQueue' = reqActionQueue
  <2>1. ~Getting'
    <3>1. CASE SendCommand
      <4>1. Head(todo).call = "data"
        BY <3>1 DEF SendCommand, Calling
      <4> QED
        BY <1>2, <1>3, <4>1 DEF GetInv
    <3>2. CASE InsertAction
      <4>1. ~ActionFits
        <5>1. reqActionQueue \in Seq(Requests)
          BY DEF IInv, ActionsType
        <5>2. \A m \in Requests : Append(reqActionQueue, m) # reqActionQueue
          <6> TAKE m \in Requests
          <6>1. Len(Append(reqActionQueue, m)) = Len(reqActionQueue) + 1 /\ Len(reqActionQueue) \in Nat
            BY <5>1, QueueFacts
          <6> QED
            BY <6>1
        <5>3. Head(todo).msg \in Requests
          BY <1>1, <3>2, QueueFacts DEF InsertAction, Calling, Pending
        <5> QED
          BY <1>5, <3>2, <5>2, <5>3 DEF InsertAction
      <4>2. CallFails
        BY <3>2, <4>1 DEF InsertAction
      <4> QED
        BY <4>2 DEF CallFails, Getting
    <3> QED
      BY <3>1, <3>2
  <2>2. ~Getting
    <3>1. CASE SendCommand
      <4>1. Head(todo).call = "data"
        BY <3>1 DEF SendCommand, Calling
      <4> QED
        BY <1>3, <4>1 DEF GetInv
    <3>2. CASE InsertAction
      <4>1. ~ActionFits \/ ActionFits
        OBVIOUS
      <4>2. ~ActionFits => missed' = (missed \/ Getting)
        BY <3>2 DEF InsertAction
      <4>3. ActionFits => get' = get
        BY <3>2 DEF InsertAction, CallDone
      <4> QED
        BY <2>1, <4>1, <4>2, <4>3 DEF Getting
    <3> QED
      BY <3>1, <3>2
  <2>3. AllCurrent(reqActionQueue, "GET")' /\ AllCurrent(replies, "ANSWER")'
    BY <1>1, <1>5, <2>1, <2>2 DEF CurrentInv, AllCurrent, IsCurrent
  <2>4. \A k \in Kinds : \A i \in DOMAIN answers'[k] : FALSE
    BY <1>1, <2>2 DEF CurrentInv
  <2> QED
    BY <1>1, <2>1, <2>3, <2>4 DEF CurrentInv
<1>6. CASE InsertAction /\ ActionFits
  <2> DEFINE m == Head(todo).msg
  <2>1. m \in Requests /\ Head(todo).call = "send"
    BY <1>1, <1>6, QueueFacts DEF InsertAction, Calling, Pending
  <2>2. reqActionQueue' = Append(reqActionQueue, m) /\ get' = get /\ todo' = Tail(todo)
    BY <1>6 DEF InsertAction, CallDone
  <2>3. reqActionQueue \in Seq(Requests)
    BY DEF IInv, ActionsType
  <2>4. IF Getting THEN m.kind = "GET" /\ IsCurrent(m) ELSE m.kind # "GET"
    BY <1>3, <2>1 DEF GetInv
  <2> HIDE DEF m
  <2>5. \A i \in DOMAIN reqActionQueue' :
          reqActionQueue'[i] = m \/ (i \in DOMAIN reqActionQueue /\ reqActionQueue'[i] = reqActionQueue[i])
    BY <2>1, <2>2, <2>3, SequenceEnds
  <2>6. Getting' <=> Getting
    BY <2>2 DEF Getting
  <2>7. \A i \in DOMAIN reqActionQueue' :
          reqActionQueue'[i].kind = "GET" => IsCurrent(reqActionQueue'[i])
    BY <1>1, <2>4, <2>5 DEF CurrentInv, AllCurrent
  <2>8. AllCurrent(reqActionQueue, "GET")' /\ AllCurrent(replies, "ANSWER")'
    BY <1>1, <2>2, <2>6, <2>7 DEF CurrentInv, AllCurrent, IsCurrent
  <2>9. \A k \in Kinds : \A i \in DOMAIN answers'[k] : Getting' /\ k = get'.of /\ answers'[k][i] = gets'
    BY <1>1, <2>2, <2>6 DEF CurrentInv
  <2>10. ASSUME Getting PROVE Outstanding' <= get'.left
    <3>1. Count(reqActionQueue', "GET") = Count(reqActionQueue, "GET") + 1
      BY <2>1, <2>2, <2>3, <2>4, <2>10, CountAppended
    <3>2. Outstanding' = Outstanding
      BY <1>1, <1>3, <2>2, <2>10, <3>1, OutstandingTypes DEF Outstanding
    <3> QED
      BY <1>1, <2>2, <2>10, <3>2 DEF CurrentInv
  <2> QED
    BY <1>1, <2>6, <2>8, <2>9, <2>10 DEF CurrentInv
<1> QED
  BY <1>5, <1>6 DEF SendCommand, InsertAction

\* The function takes an answer, or returns.
LEMMA CurrentTaken ==
    ASSUME IInv, IInv', GetInv, CurrentInv, TakeAnswer \/ ReceiveSources
    PROVE  CurrentInv'
<1> SUFFICES ASSUME ~missed' PROVE CurrentInv'
  BY DEF CurrentInv
<1> DEFINE k == get.of
<1>1. /\ Getting /\ answers[k] # <<>> /\ answers' = [answers EXCEPT ![k] = Tail(@)] /\ ~missed
      /\ UNCHANGED <<reqActionQueue, replies, ctl, todo, gets>>
      /\ \/ get.left = 1 /\ GetReturns
         \/ get' = [get EXCEPT !.left = @ - 1] /\ get.left # 1
  <2>1. CASE TakeAnswer
    BY <2>1 DEF TakeAnswer, IInv, AppType, netVars
  <2>2. CASE ReceiveSources
    <3>1. Getting /\ get.of = "sources"
      BY <2>2 DEF ReceiveSources, IInv, AppType
    <3>2. get.left = 1
      BY <3>1 DEF GetInv
    <3>3. answers["sources"] # <<>> /\ ~missed
      BY <2>2 DEF ReceiveSources
    <3> QED
      BY <2>2, <3>1, <3>2, <3>3 DEF ReceiveSources, netVars
  <2> QED
    BY <2>1, <2>2
<1>2. k \in Kinds /\ answers[k] \in Seq(Gets) /\ get.left \in Nat \ {0}
  BY <1>1, OutstandingTypes
<1>3. /\ Len(answers'[k]) = Len(answers[k]) - 1 /\ Len(answers[k]) \in Nat \ {0}
      /\ \A j \in Kinds \ {k} : answers'[j] = answers[j]
      /\ \A i \in DOMAIN answers'[k] : i + 1 \in DOMAIN answers[k] /\ answers'[k][i] = answers[k][i + 1]
  <2>1. answers'[k] = Tail(answers[k]) /\ \A j \in Kinds \ {k} : answers'[j] = answers[j]
    BY <1>1, <1>2 DEF IInv, AnswersType
  <2>2. Len(Tail(answers[k])) = Len(answers[k]) - 1 /\ Len(answers[k]) \in Nat \ {0}
    BY <1>1, <1>2, QueueFacts
  <2>3. \A i \in DOMAIN Tail(answers[k]) : i + 1 \in DOMAIN answers[k] /\ Tail(answers[k])[i] = answers[k][i + 1]
    BY <1>1, <1>2, SequenceEnds
  <2> QED
    BY <2>1, <2>2, <2>3
<1> HIDE DEF k
<1>4. Len(todo) + Count(reqActionQueue, "GET") + Count(replies, "ANSWER") + Len(answers[k]) <= get.left
  BY <1>1 DEF CurrentInv, Outstanding, k
<1>5. CASE get.left = 1 /\ GetReturns
  <2>1. Count(reqActionQueue, "GET") = 0 /\ Count(replies, "ANSWER") = 0 /\ Len(answers'[k]) = 0
    <3>1. Len(todo) \in Nat /\ Count(reqActionQueue, "GET") \in Nat /\ Count(replies, "ANSWER") \in Nat
      BY OutstandingTypes
    <3>2. Len(answers[k]) \in Nat \ {0} /\ get.left = 1
      BY <1>3, <1>5
    <3>3. \A a, b, c \in Nat, d \in Nat \ {0} : a + b + c + d <= 1 => b = 0 /\ c = 0 /\ d = 1
      OBVIOUS
    <3>4. Len(todo) + Count(reqActionQueue, "GET") + Count(replies, "ANSWER") + Len(answers[k]) <= 1
      BY <1>4, <3>2
    <3>5. Count(reqActionQueue, "GET") = 0 /\ Count(replies, "ANSWER") = 0 /\ Len(answers[k]) = 1
      BY <3>1, <3>2, <3>3, <3>4
    <3> QED
      BY <1>3, <3>5
  <2>2. \A j \in Kinds : \A i \in DOMAIN answers'[j] : FALSE
    <3>1. \A j \in Kinds \ {k} : \A i \in DOMAIN answers[j] : FALSE
      BY <1>1 DEF CurrentInv, k
    <3>2. answers'[k] \in Seq(Gets)
      BY <1>2 DEF IInv, AnswersType
    <3>3. \A i \in DOMAIN answers'[k] : FALSE
      BY <2>1, <3>2
    <3> QED
      BY <1>3, <3>1, <3>3
  <2>3. /\ \A i \in DOMAIN reqActionQueue : reqActionQueue[i].kind # "GET"
        /\ \A i \in DOMAIN replies : replies[i].kind # "ANSWER"
    BY <2>1, CountIsFinite DEF IInv, ActionsType, NetType
  <2>4. AllCurrent(reqActionQueue, "GET")' /\ AllCurrent(replies, "ANSWER")'
    BY <1>1, <2>3 DEF AllCurrent
  <2>5. ~Getting'
    BY <1>5 DEF GetReturns, Getting
  <2> QED
    BY <1>1, <2>2, <2>4, <2>5 DEF CurrentInv
<1>6. CASE get' = [get EXCEPT !.left = @ - 1] /\ get.left # 1
  <2>1. get'.of = k /\ get'.left = get.left - 1
    BY <1>6 DEF IInv, AppType, k
  <2>2. Getting'
    BY <1>2, <1>6, <2>1 DEF Getting, NoGet
  <2>3. AllCurrent(reqActionQueue, "GET")' /\ AllCurrent(replies, "ANSWER")'
    BY <1>1, <2>1, <2>2 DEF CurrentInv, AllCurrent, IsCurrent, k
  <2>4. \A j \in Kinds : \A i \in DOMAIN answers'[j] : Getting' /\ j = get'.of /\ answers'[j][i] = gets'
    <3>1. \A j \in Kinds \ {k} : \A i \in DOMAIN answers[j] : FALSE
      BY <1>1 DEF CurrentInv, k
    <3>2. \A i \in DOMAIN answers'[k] : answers'[k][i] = gets
      BY <1>1, <1>2, <1>3 DEF CurrentInv
    <3> QED
      BY <1>1, <1>3, <2>1, <2>2, <3>1, <3>2
  <2>5. Outstanding' <= get'.left
    <3>1. Outstanding' = Len(todo) + Count(reqActionQueue, "GET") + Count(replies, "ANSWER") + Len(answers'[k])
      BY <1>1, <2>1 DEF Outstanding
    <3> QED
      BY <1>2, <1>3, <1>4, <2>1, <3>1, OutstandingTypes
  <2> QED
    BY <1>1, <2>2, <2>3, <2>4, <2>5 DEF CurrentInv
<1> QED
  BY <1>1, <1>5, <1>6

\* Messages go, at most one for one that comes.
LEMMA CurrentMessages ==
    ASSUME IInv, IInv', GetInv, CurrentInv, UNCHANGED <<appVars, answers, missed>>,
           ctl' \notin {"full", "resend"},
           AllCurrent(reqActionQueue', "GET"), AllCurrent(replies', "ANSWER"),
           Count(reqActionQueue', "GET") + Count(replies', "ANSWER")
             <= Count(reqActionQueue, "GET") + Count(replies, "ANSWER")
    PROVE  CurrentInv'
<1>1. UNCHANGED <<todo, get, gets, answers>> /\ (Getting' <=> Getting)
  BY DEF appVars, Getting
<1>2. AllCurrent(reqActionQueue, "GET")' /\ AllCurrent(replies, "ANSWER")'
  BY <1>1 DEF AllCurrent, IsCurrent
<1>3. Count(reqActionQueue', "GET") \in Nat /\ Count(replies', "ANSWER") \in Nat
  BY CountIsFinite DEF IInv, ActionsType, NetType
<1>4. Getting => Outstanding' <= Outstanding /\ Outstanding' \in Nat /\ Outstanding \in Nat /\ get.left \in Nat
  <2> SUFFICES ASSUME Getting
               PROVE  Outstanding' <= Outstanding /\ Outstanding' \in Nat /\ Outstanding \in Nat /\ get.left \in Nat
    OBVIOUS
  <2>1. Outstanding' = Len(todo) + Count(reqActionQueue', "GET") + Count(replies', "ANSWER") + Len(answers[get.of])
    BY <1>1 DEF Outstanding
  <2>2. /\ Len(todo) \in Nat /\ Len(answers[get.of]) \in Nat /\ get.left \in Nat
        /\ Count(reqActionQueue, "GET") \in Nat /\ Count(replies, "ANSWER") \in Nat
    BY OutstandingTypes
  <2>3. Outstanding = Len(todo) + Count(reqActionQueue, "GET") + Count(replies, "ANSWER") + Len(answers[get.of])
    BY DEF Outstanding
  <2> DEFINE a == Len(todo)
             b == Count(reqActionQueue', "GET")
             c == Count(replies', "ANSWER")
             d == Count(reqActionQueue, "GET")
             e == Count(replies, "ANSWER")
             f == Len(answers[get.of])
  <2>4. b + c <= d + e
    OBVIOUS
  <2>5. Outstanding' = a + b + c + f /\ Outstanding = a + d + e + f
    BY <2>1, <2>3
  <2>6. a \in Nat /\ b \in Nat /\ c \in Nat /\ d \in Nat /\ e \in Nat /\ f \in Nat /\ get.left \in Nat
    BY <1>3, <2>2
  <2> HIDE DEF a, b, c, d, e, f
  <2> QED
    BY <2>4, <2>5, <2>6
<1>5. ~missed => (Getting' => Outstanding' <= get'.left)
  <2> SUFFICES ASSUME ~missed, Getting' PROVE Outstanding' <= get'.left
    OBVIOUS
  <2>1. Outstanding <= get.left
    BY <1>1 DEF CurrentInv
  <2> QED
    BY <1>1, <1>4, <2>1
<1> QED
  BY <1>1, <1>2, <1>5 DEF CurrentInv

\* The control task: a request that goes may bring one answer, an answer that comes
\* is one less on its way, and what is lost is one less to come.
LEMMA CurrentSent ==
    ASSUME IInv, IInv', GetInv, CurrentInv, ~missed, SendAction
    PROVE  CurrentInv'
<1> DEFINE m == Head(reqActionQueue)
<1>1. /\ reqActionQueue \in Seq(Requests) /\ replies \in Seq(ReplyMessages)
      /\ reqActionQueue # <<>> /\ reqActionQueue' = Tail(reqActionQueue) /\ m \in Requests
  BY QueueFacts DEF SendAction, IInv, ActionsType, NetType
<1>2. IF m.kind = "GET" THEN Count(reqActionQueue, "GET") = Count(reqActionQueue', "GET") + 1
      ELSE Count(reqActionQueue, "GET") = Count(reqActionQueue', "GET")
  BY <1>1, CountOfTail
<1>3. AllCurrent(reqActionQueue', "GET")
  BY <1>1, SequenceEnds DEF CurrentInv, AllCurrent
<1>4. m.kind = "GET" => IsCurrent(m)
  BY <1>1, SequenceEnds DEF CurrentInv, AllCurrent
<1>5. Ack(conn) \in ReplyMessages /\ (m.kind = "GET" => Answer(m) \in ReplyMessages)
  BY <1>1, MessagesWellFormed DEF IInv, NetType
<1>6. /\ \/ replies' = replies \/ replies' = <<>> \/ replies' = Append(replies, Ack(conn))
         \/ m.kind = "GET" /\ replies' = Append(replies, Answer(m))
      /\ ctl' \in {"listen", "closed"} /\ UNCHANGED <<appVars, answers, missed>>
  BY DEF SendAction, Goto, Hangup
<1> HIDE DEF m
<1>7. /\ Count(reqActionQueue, "GET") \in Nat /\ Count(replies, "ANSWER") \in Nat
      /\ Count(reqActionQueue', "GET") \in Nat
  BY OutstandingTypes, CountIsFinite DEF IInv, ActionsType
<1>8. AllCurrent(replies, "ANSWER")
  BY DEF CurrentInv
<1>9. /\ \/ Count(replies', "ANSWER") \in {0, Count(replies, "ANSWER")}
         \/ m.kind = "GET" /\ Count(replies', "ANSWER") = Count(replies, "ANSWER") + 1
      /\ AllCurrent(replies', "ANSWER")
  <2>1. CASE replies' = replies
    BY <1>8, <2>1 DEF AllCurrent, Count, Places
  <2>2. CASE replies' = <<>>
    <3>1. Count(<<>>, "ANSWER") = 0
      <4>1. Places(<<>>, "ANSWER") = {}
        BY DEF Places
      <4> QED
        BY <4>1, FS_EmptySet DEF Count
    <3>2. \A i \in DOMAIN replies' : FALSE
      BY <2>2
    <3> QED
      BY <2>2, <3>1, <3>2 DEF AllCurrent
  <2>3. ASSUME NEW r \in ReplyMessages, replies' = Append(replies, r), r.kind = "ANSWER" => IsCurrent(r)
        PROVE  /\ Count(replies', "ANSWER") = IF r.kind = "ANSWER" THEN Count(replies, "ANSWER") + 1 ELSE Count(replies, "ANSWER")
               /\ AllCurrent(replies', "ANSWER")
    <3>1. \A i \in DOMAIN replies' : replies'[i] = r \/ (i \in DOMAIN replies /\ replies'[i] = replies[i])
      BY <1>1, <2>3, SequenceEnds
    <3> QED
      BY <1>1, <1>8, <2>3, <3>1, CountAppended DEF AllCurrent
  <2>4. CASE replies' = Append(replies, Ack(conn))
    <3>1. Ack(conn).kind # "ANSWER"
      BY DEF Ack
    <3>2. Count(replies', "ANSWER") = Count(replies, "ANSWER") /\ AllCurrent(replies', "ANSWER")
      BY <1>5, <2>3, <2>4, <3>1
    <3> QED
      BY <3>2
  <2>5. CASE m.kind = "GET" /\ replies' = Append(replies, Answer(m))
    <3>1. Answer(m).kind = "ANSWER" /\ IsCurrent(Answer(m))
      BY <1>4, <2>5 DEF Answer, IsCurrent
    <3> QED
      BY <1>5, <2>3, <2>5, <3>1
  <2> QED
    BY <1>6, <2>1, <2>2, <2>4, <2>5
<1>10. Count(reqActionQueue', "GET") + Count(replies', "ANSWER")
         <= Count(reqActionQueue, "GET") + Count(replies, "ANSWER")
  BY <1>2, <1>7, <1>9
<1> QED
  BY <1>3, <1>6, <1>9, <1>10, CurrentMessages

LEMMA CurrentAnswered ==
    ASSUME IInv, IInv', GetInv, CurrentInv, ~missed, AnswerArrives
    PROVE  CurrentInv'
<1> DEFINE a == Head(replies)
<1>1. /\ replies \in Seq(ReplyMessages) /\ replies # <<>> /\ replies' = Tail(replies)
      /\ a \in ReplyMessages /\ a.kind = "ANSWER" /\ a.of \in Kinds /\ a.get \in Gets
  <2>1. replies \in Seq(ReplyMessages) /\ replies # <<>> /\ replies' = Tail(replies) /\ a.kind = "ANSWER"
    BY DEF AnswerArrives, Arrives, IInv, NetType
  <2>2. a \in ReplyMessages
    BY <2>1, QueueFacts
  <2> QED
    BY <2>1, <2>2 DEF ReplyMessages, Replies
<1>2. /\ Count(replies, "ANSWER") = Count(replies', "ANSWER") + 1
      /\ Count(replies', "ANSWER") \in Nat
  BY <1>1, CountOfTail, CountIsFinite, QueueFacts
<1>3. AllCurrent(replies', "ANSWER") /\ IsCurrent(a)
  BY <1>1, SequenceEnds DEF CurrentInv, AllCurrent
<1>4. UNCHANGED <<reqActionQueue, appVars, missed>> /\ AllCurrent(reqActionQueue', "GET")
  BY DEF AnswerArrives, CurrentInv
<1>5. CASE ~active \/ session_id # a.id
  <2>1. UNCHANGED answers /\ ctl' = "action"
    BY <1>5 DEF AnswerArrives, Goto
  <2>2. Count(reqActionQueue, "GET") \in Nat
    BY OutstandingTypes
  <2>3. Count(reqActionQueue', "GET") + Count(replies', "ANSWER")
          <= Count(reqActionQueue, "GET") + Count(replies, "ANSWER")
    BY <1>2, <1>4, <2>2
  <2> QED
    BY <1>3, <1>4, <2>1, <2>3, CurrentMessages
<1>6. CASE ~(~active \/ session_id # a.id)
  <2>1. Getting /\ a.of = get.of /\ a.get = gets
    BY <1>3 DEF IsCurrent
  <2>2. /\ Len(todo) \in Nat /\ Count(reqActionQueue, "GET") \in Nat
        /\ get.left \in Nat /\ answers[get.of] \in Seq(Gets) /\ Len(answers[get.of]) \in Nat /\ Size[get.of] \in Nat
    BY <2>1, OutstandingTypes
  <2>3. /\ Len(todo) + Count(reqActionQueue, "GET") + Count(replies, "ANSWER") + Len(answers[get.of]) <= get.left
        /\ get.left <= Size[get.of]
    BY <2>1 DEF CurrentInv, GetInv, Outstanding
  <2>4. Len(answers[get.of]) < Size[get.of]
    BY <1>2, <2>2, <2>3
  <2>5. answers' = [answers EXCEPT ![get.of] = Append(@, gets)] /\ ctl' = "action"
    BY <1>6, <2>1, <2>4 DEF AnswerArrives, Goto
  <2>6. /\ answers'[get.of] = Append(answers[get.of], gets) /\ gets \in Gets
        /\ \A k \in Kinds \ {get.of} : answers'[k] = answers[k]
    BY <1>1, <2>1, <2>5 DEF IInv, AnswersType
  <2>7. Len(answers'[get.of]) = Len(answers[get.of]) + 1
    BY <2>2, <2>6, QueueFacts
  <2>8. UNCHANGED <<todo, get, gets>> /\ Getting'
    BY <1>4, <2>1 DEF appVars, Getting
  <2>9. \A k \in Kinds : \A i \in DOMAIN answers'[k] : Getting' /\ k = get'.of /\ answers'[k][i] = gets'
    <3>1. \A k \in Kinds \ {get.of} : \A i \in DOMAIN answers[k] : FALSE
      BY DEF CurrentInv
    <3>2. \A i \in DOMAIN answers[get.of] : answers[get.of][i] = gets
      BY <1>1, <2>1 DEF CurrentInv
    <3>3. \A i \in DOMAIN answers'[get.of] : answers'[get.of][i] = gets
      BY <2>2, <2>6, <3>2, SequenceEnds
    <3> QED
      BY <2>6, <2>8, <3>1, <3>3
  <2>10. Outstanding' <= get'.left
    <3>1. Outstanding' = Len(todo) + Count(reqActionQueue, "GET") + Count(replies', "ANSWER") + Len(answers'[get.of])
      BY <1>4, <2>8 DEF Outstanding
    <3> QED
      BY <1>2, <2>2, <2>3, <2>7, <2>8, <3>1
  <2>11. AllCurrent(reqActionQueue, "GET")' /\ AllCurrent(replies, "ANSWER")'
    BY <1>3, <1>4, <2>8 DEF AllCurrent, IsCurrent
  <2> QED
    BY <2>5, <2>9, <2>10, <2>11 DEF CurrentInv
<1> QED
  BY <1>5, <1>6

\* A queue that has been emptied.
LEMMA NothingCurrent == Count(<<>>, "ANSWER") = 0 /\ AllCurrent(<<>>, "ANSWER")
<1>1. \A i \in DOMAIN <<>> : FALSE
  OBVIOUS
<1>2. Places(<<>>, "ANSWER") = {}
  BY <1>1 DEF Places
<1> QED
  BY <1>1, <1>2, FS_EmptySet DEF Count, AllCurrent

LEMMA CurrentStep == ASSUME IInv, IInv', GetInv, CurrentInv, Next PROVE CurrentInv'
<1> SUFFICES ASSUME ~missed' PROVE CurrentInv'
  BY DEF CurrentInv
<1>1. CASE Function
  <2>1. api = "idle" /\ UNCHANGED <<reqActionQueue, answers, netVars, missed>>
    BY <1>1 DEF Function, StartStream, StopStream, SetSource, Reconfigure, Get
  <2>2. \/ UNCHANGED <<get, gets>>
        \/ \E k \in Kinds, t \in Timeouts : Get(k, t)
    BY <1>1 DEF Function, StartStream, StopStream, SetSource, Reconfigure
  <2> QED
    BY <2>1, <2>2, CurrentBegins
<1>2. CASE SendCommand \/ InsertAction
  BY <1>2, CurrentCall
<1>3. CASE TakeAnswer \/ ReceiveSources
  BY <1>3, CurrentTaken
<1>4. CASE Wait \/ StopsPeeking
  <2>1. /\ UNCHANGED <<reqActionQueue, answers, todo, gets, netVars, missed>>
        /\ Getting /\ get.left # 0
        /\ get'.of = get.of /\ get'.left = get.left
    BY <1>4 DEF Wait, StopsPeeking, IInv, AppType
  <2>2. Getting'
    BY <2>1 DEF Getting, NoGet
  <2>3. UNCHANGED <<replies, ctl>> /\ ~missed
    BY <2>1 DEF netVars
  <2>4. AllCurrent(reqActionQueue, "GET")' /\ AllCurrent(replies, "ANSWER")'
    BY <2>1, <2>2, <2>3 DEF CurrentInv, AllCurrent, IsCurrent
  <2>5. Outstanding' = Outstanding
    BY <2>1, <2>3 DEF Outstanding
  <2> QED
    BY <2>1, <2>2, <2>3, <2>4, <2>5 DEF CurrentInv
<1>5. CASE TimesOut
  BY <1>5 DEF TimesOut
<1> DEFINE asked == Count(reqActionQueue, "GET")
           coming == Count(replies, "ANSWER")
<1>6. asked \in Nat /\ coming \in Nat
  BY OutstandingTypes
<1>7. /\ reqActionQueue \in Seq(Requests) /\ replies \in Seq(ReplyMessages)
  BY DEF IInv, ActionsType, NetType
<1>8. CASE ~missed /\ UNCHANGED <<appVars, answers, missed>> /\ ctl' \notin {"full", "resend"}
           /\ reqActionQueue' = reqActionQueue /\ replies' \in {replies, <<>>}
  <2>1. AllCurrent(reqActionQueue', "GET") /\ AllCurrent(replies', "ANSWER")
    BY <1>8, NothingCurrent DEF CurrentInv
  <2>2. Count(reqActionQueue', "GET") = asked /\ Count(replies', "ANSWER") \in {0, coming}
    BY <1>8, NothingCurrent
  <2>3. Count(reqActionQueue', "GET") + Count(replies', "ANSWER") <= asked + coming
    BY <1>6, <2>2
  <2> QED
    BY <1>8, <2>1, <2>3, CurrentMessages
<1>9. CASE QueueInit
  <2>1. /\ ~missed /\ UNCHANGED <<appVars, answers, missed, replies>>
        /\ ctl' \notin {"full", "resend"}
    BY <1>9 DEF QueueInit, Goto
  <2>2. CASE reqActionQueue' = reqActionQueue
    BY <1>8, <2>1, <2>2
  <2>3. CASE reqActionQueue' = Append(reqActionQueue, Message("INIT", NoId))
    <3>1. Message("INIT", NoId) \in Requests /\ Message("INIT", NoId).kind # "GET"
      BY MessagesWellFormed DEF Message
    <3>2. \A i \in DOMAIN reqActionQueue' :
             \/ reqActionQueue'[i] = Message("INIT", NoId)
             \/ i \in DOMAIN reqActionQueue /\ reqActionQueue'[i] = reqActionQueue[i]
      BY <1>7, <2>3, <3>1, SequenceEnds
    <3>3. AllCurrent(reqActionQueue', "GET") /\ AllCurrent(replies', "ANSWER")
      BY <2>1, <3>1, <3>2 DEF CurrentInv, AllCurrent
    <3>4. Count(reqActionQueue', "GET") = asked /\ Count(replies', "ANSWER") = coming
      BY <1>7, <2>1, <2>3, <3>1, CountAppended
    <3>5. Count(reqActionQueue', "GET") + Count(replies', "ANSWER") <= asked + coming
      BY <1>6, <3>4
    <3> QED
      BY <2>1, <3>3, <3>5, CurrentMessages
  <2> QED
    BY <1>9, <2>2, <2>3 DEF QueueInit
<1>10. CASE SessionAck
  <2>1. /\ ~missed /\ UNCHANGED <<appVars, answers, missed, reqActionQueue>>
        /\ ctl' \notin {"full", "resend"}
        /\ replies # <<>> /\ Head(replies).kind = "ACK" /\ replies' = Tail(replies)
    BY <1>10 DEF SessionAck, Arrives, Goto
  <2>2. AllCurrent(reqActionQueue', "GET") /\ AllCurrent(replies', "ANSWER")
    BY <1>7, <2>1, SequenceEnds DEF CurrentInv, AllCurrent
  <2>3. Count(reqActionQueue', "GET") = asked /\ Count(replies', "ANSWER") = coming
    BY <1>7, <2>1, CountOfTail
  <2>4. Count(reqActionQueue', "GET") + Count(replies', "ANSWER") <= asked + coming
    BY <1>6, <2>3
  <2> QED
    BY <2>1, <2>2, <2>4, CurrentMessages
<1>11. CASE SendAction
  BY <1>11, CurrentSent DEF SendAction
<1>12. CASE AnswerArrives
  BY <1>12, CurrentAnswered DEF AnswerArrives
<1>13. CASE DropFirst \/ SendAgain
  BY <1>13 DEF DropFirst, SendAgain, CurrentInv
<1>14. CASE Connect \/ NothingReceived \/ NoAction \/ ConnectionStop
  <2>1. /\ UNCHANGED <<appVars, answers, missed, reqActionQueue, replies>>
        /\ ctl' \notin {"full", "resend"}
    BY <1>14 DEF Connect, NothingReceived, NoAction, ConnectionStop, Goto
  <2> QED
    BY <1>8, <2>1
<1>16. CASE PeerGone \/ RunFails \/ ServerStops
  <2>1. UNCHANGED <<appVars, answers, missed, reqActionQueue>>
    BY <1>16 DEF PeerGone, RunFails, ServerStops
  <2>2. /\ replies' = replies \/ replies' = <<>>
        /\ ctl' \notin {"full", "resend"}
    BY <1>16 DEF PeerGone, RunFails, ServerStops, Hangup, Goto
  <2> QED
    BY <1>8, <2>1, <2>2
<1>15. CASE DataRestart \/ ReadCommand
  <2>1. ~missed /\ UNCHANGED <<appVars, netVars, answers, missed, reqActionQueue>>
    BY <1>15 DEF DataRestart, ReadCommand
  <2>2. UNCHANGED <<ctl, replies>> /\ ctl \notin {"full", "resend"}
    BY <2>1 DEF netVars, CurrentInv
  <2> QED
    BY <1>8, <2>1, <2>2
<1> QED
  BY <1>1, <1>2, <1>3, <1>4, <1>5, <1>9, <1>10, <1>11, <1>12, <1>13, <1>14, <1>15, <1>16
     DEF Next, InFunction, ControlTask, Environment

-----------------------------------------------------------------------------
(* The theorems about both.                                                *)

LEMMA HistoryInvHolds == Spec => [](IInv /\ FlagInv /\ GetInv /\ CurrentInv)
<1>1. Init => IInv /\ FlagInv /\ GetInv /\ CurrentInv
  <2> SUFFICES ASSUME Init PROVE FlagInv /\ GetInv /\ CurrentInv
    BY InitHolds
  <2>1. \A i \in DOMAIN <<>> : FALSE
    OBVIOUS
  <2>2. ~Getting
    BY DEF Init, Getting
  <2>3. FlagInv
    BY DEF Init, FlagInv, LastCommand, CommandPending
  <2>4. GetInv
    BY <2>1, <2>2 DEF Init, GetInv
  <2>5. \A k \in Kinds : answers[k] = <<>>
    BY DEF Init
  <2>6. CurrentInv
    BY <2>1, <2>2, <2>5 DEF Init, CurrentInv, AllCurrent
  <2> QED
    BY <2>3, <2>4, <2>6
<1>2. IInv /\ FlagInv /\ GetInv /\ CurrentInv /\ [Next]_vars
        => (IInv /\ FlagInv /\ GetInv /\ CurrentInv)'
  <2> SUFFICES ASSUME IInv, FlagInv, GetInv, CurrentInv, [Next]_vars
               PROVE  (IInv /\ FlagInv /\ GetInv /\ CurrentInv)'
    OBVIOUS
  <2>1. IInv'
    BY StepHolds
  <2>2. CASE Next
    BY <2>1, <2>2, FlagStep, GetStep, CurrentStep DEF IInv
  <2>3. CASE UNCHANGED vars
    <3>1. FlagInv'
      BY <2>3 DEF vars, sessionVars, appVars, dataVars, FlagInv, LastCommand, CommandPending
    <3>2. GetInv'
      BY <2>3 DEF vars, appVars, GetInv, Getting, IsCurrent
    <3>3. CurrentInv'
      BY <2>3 DEF vars, appVars, netVars, CurrentInv, AllCurrent, Getting, IsCurrent, Outstanding,
                  Count, Places
    <3> QED
      BY <2>1, <3>1, <3>2, <3>3
  <2> QED
    BY <2>2, <2>3
<1> QED
  BY <1>1, <1>2, PTL DEF Spec

\* With all commands read and none about to be sent, the data task runs exactly
\* when the application left the stream on (espfsp_client_play_start_stream,
\* espfsp_client_play_stop_stream, espfsp_client_play_connection_stop), unless a
\* command was lost, the task restarted or a stop overtook a start.
THEOREM DataAlwaysFollowsFlag == Spec => []DataFollowsFlag
<1>1. IInv /\ FlagInv => DataFollowsFlag
  <2> SUFFICES ASSUME IInv, FlagInv, ~upset, startStopQueue = <<>>, ~CommandPending
               PROVE  started = stream_started
    BY DEF DataFollowsFlag
  <2>1. started \in BOOLEAN /\ stream_started \in BOOLEAN
    BY DEF IInv, DataType, SessionType
  <2>2. stream_started <=> started
    BY DEF FlagInv, LastCommand
  <2> QED
    BY <2>1, <2>2
<1> QED
  BY <1>1, HistoryInvHolds, PTL

\* As long as every get call got its answers, what the get functions of
\* espfsp_client_play.c take from their queues answers the call under way, never
\* an earlier one: whatever the connections and the queues have lost.
THEOREM AnswersAreAlwaysCurrent == Spec => []AnswersAreCurrent
<1>1. CurrentInv => AnswersAreCurrent
  BY DEF CurrentInv, AnswersAreCurrent, AllCurrent, IsCurrent
<1> QED
  BY <1>1, HistoryInvHolds, PTL
-----------------------------------------------------------------------------
(* The time a get function has left, for GetTerminates: whether it ever    *)
(* runs out is a matter of the timeout alone.                              *)

\* A get function that waits for its answers never sees its timeout used up, so
\* its loop does not end before the answers are there.
TimeNeverRunsOut == api = "wait" => get.time # 0
\* As long as no other get function begins, the time left never grows: taking a tick
\* does not wrap an unsigned number around.
TimeOnlyFalls == [][gets' = gets => get'.time <= get.time]_vars

LEMMA NextTickIs ==
    ASSUME IInv
    PROVE  NextTick = IF Tick <= get.time THEN get.time - Tick ELSE get.time + (Wrap - Tick)
<1>1. get.time \in 0 .. Wrap - 1 /\ Tick \in 1 .. Wrap - 1 /\ Wrap \in Nat
    BY TimeAssumption DEF IInv, AppType
<1> DEFINE t == get.time
<1> HIDE DEF t
<1>2. ASSUME NEW x \in 0 .. Wrap - 1
      PROVE  (x + Wrap - Tick) % Wrap = IF Tick <= x THEN x - Tick ELSE x + (Wrap - Tick)
    <2>1. CASE Tick <= x
        <3>1. x + Wrap - Tick = Wrap * 1 + (x - Tick) /\ x - Tick \in 0 .. Wrap - 1
            BY <1>1, <2>1
        <3> QED
            BY <1>1, <2>1, <3>1
    <2>2. CASE ~(Tick <= x)
        <3>1. x + Wrap - Tick \in 0 .. Wrap - 1 /\ x + Wrap - Tick = x + (Wrap - Tick)
            BY <1>1, <2>2
        <3> QED
            BY <1>1, <2>2, <3>1
    <2> QED
        BY <2>1, <2>2
<1> QED
    BY <1>1, <1>2 DEF NextTick

\* Whose step changes the time left.
LEMMA TimeStep ==
    ASSUME IInv, Next
    PROVE  \/ gets' = gets /\ get'.time = get.time /\ (Getting' => Getting)
           \/ gets' = gets /\ get' = NoGet
           \/ gets' = gets /\ Getting /\ get.time > 0 /\ get'.time = NextTick
           \/ gets' # gets /\ get'.time \in Timeouts
<1>t. get \in [of : Kinds \cup {NoKind}, time : 0 .. Wrap - 1, left : Nat] /\ gets \in Nat
    BY BoundsAssumption DEF IInv, AppType, Gets
<1> USE DEF appVars
<1>1. ASSUME UNCHANGED <<get, gets>>
      PROVE  gets' = gets /\ get'.time = get.time /\ (Getting' => Getting)
    BY <1>1 DEF Getting
<1>2. ASSUME NEW k \in Kinds, NEW t \in Timeouts, Get(k, t)
      PROVE  gets' # gets /\ get'.time \in Timeouts
    BY <1>2, <1>t DEF Get
<1>3. CASE TakeAnswer
    <2>1. Getting
        BY <1>3 DEF TakeAnswer, IInv, AppType
    <2> QED
        BY <1>3, <1>t, <2>1 DEF TakeAnswer, GetReturns
<1>4. CASE Wait
    <2>1. Getting
        BY <1>4 DEF Wait, IInv, AppType
    <2> QED
        BY <1>4, <1>t, <2>1 DEF Wait
<1>5. CASE TimesOut \/ ReceiveSources
    BY <1>5 DEF TimesOut, ReceiveSources, GetReturns
<1>6. CASE SendCommand \/ InsertAction
    BY <1>1, <1>6 DEF SendCommand, InsertAction, CallDone, CallFails
<1>7. CASE StopsPeeking \/ ControlTask \/ Environment \/ ReadCommand
    <2>1. UNCHANGED <<get, gets>>
        BY <1>7 DEF StopsPeeking, ControlTask, Environment, ReadCommand, Connect, QueueInit,
            NothingReceived, SendAction, NoAction, SessionAck, AnswerArrives, DropFirst, SendAgain,
            ConnectionStop, PeerGone, RunFails, ServerStops, DataRestart
    <2> QED
        BY <1>1, <2>1
<1>8. CASE StartStream \/ StopStream \/ SetSource \/ \E k \in Kinds : Reconfigure(k)
    <2>1. UNCHANGED <<get, gets>>
        BY <1>8 DEF StartStream, StopStream, SetSource, Reconfigure, Then
    <2> QED
        BY <1>1, <2>1
<1> QED
    BY <1>2, <1>3, <1>4, <1>5, <1>6, <1>7, <1>8 DEF Next, Function, InFunction

\* An odd timeout never runs out, as the tick and the number of values of an
\* unsigned number are even: the function waits until it has all its answers, and
\* for ever if one was lost (espfsp_client_play_get_frame, _get_cam, _get_sources_timeout).
THEOREM OddTimeoutsNeverRunOut ==
    ASSUME Wrap % 2 = 0, Tick % 2 = 0, \A t \in Timeouts : t % 2 = 1
    PROVE  Spec => []TimeNeverRunsOut
<1> DEFINE Odd == Getting => get.time % 2 = 1
<1>1. Init => Odd
    BY DEF Init, Getting
<1>2. ASSUME IInv, Odd, [Next]_vars PROVE Odd'
    <2>1. CASE UNCHANGED vars
        BY <1>2, <2>1 DEF vars, appVars, Getting
    <2>2. CASE Next
        <3>1. get.time \in 0 .. Wrap - 1 /\ Tick \in 1 .. Wrap - 1 /\ Wrap \in Nat
            BY <1>2, TimeAssumption DEF IInv, AppType
        <3>2. get.time % 2 = 1 => NextTick % 2 = 1
            BY <1>2, <3>1, NextTickIs
        <3>3. ~(get' = NoGet /\ Getting')
            BY DEF Getting
        <3> QED
            BY <1>2, <2>2, <3>2, <3>3, TimeStep
    <2> QED
        BY <1>2, <2>1, <2>2
<1>3. IInv /\ Odd => TimeNeverRunsOut
    BY DEF IInv, AppType, TimeNeverRunsOut
<1> QED
    BY <1>1, <1>2, <1>3, Always, PTL DEF Spec

\* A timeout of whole ticks never wraps around: the time left only falls while the
\* function is under way, to zero and no further.
THEOREM WholeTimeoutsOnlyFall ==
    ASSUME \A t \in Timeouts : \E n \in Nat : t = n * Tick
    PROVE  Spec => TimeOnlyFalls
<1> DEFINE Whole == \E n \in Nat : get.time = n * Tick
<1>0. Tick \in 1 .. Wrap - 1 /\ Wrap \in Nat /\ Tick \in Nat
    BY TimeAssumption
<1>1. Init => Whole
    <2>1. 0 = 0 * Tick
        BY <1>0
    <2> QED
        BY <2>1 DEF Init, NoGet
<1>2. ASSUME IInv, Whole, get.time > 0
      PROVE  NextTick = get.time - Tick /\ \E n \in Nat : NextTick = n * Tick
    <2>1. PICK n \in Nat : get.time = n * Tick
        BY <1>2
    <2>2. n # 0
        BY <1>0, <1>2, <2>1
    <2>3. n - 1 \in Nat /\ (n - 1) * Tick = n * Tick - Tick /\ n * Tick >= Tick
        BY <1>0, <2>2
    <2> QED
        BY <1>0, <1>2, <2>1, <2>3, NextTickIs
<1>3. ASSUME IInv, Whole, [Next]_vars
      PROVE  Whole' /\ (gets' = gets => get'.time <= get.time)
    <2>1. get.time \in Nat
        BY <1>0, <1>3 DEF IInv, AppType
    <2>2. CASE UNCHANGED vars
        BY <1>3, <2>1, <2>2 DEF vars, appVars
    <2>3. CASE gets' = gets /\ get'.time = get.time
        BY <1>3, <2>1, <2>3
    <2>4. CASE gets' = gets /\ get' = NoGet
        <3>1. 0 = 0 * Tick
            BY <1>0
        <3> QED
            BY <2>1, <2>4, <3>1 DEF NoGet
    <2>5. CASE gets' = gets /\ get.time > 0 /\ get'.time = NextTick
        <3>1. NextTick = get.time - Tick /\ \E n \in Nat : NextTick = n * Tick
            BY <1>2, <1>3, <2>5
        <3>2. Whole'
            BY <2>5, <3>1, Zenon
        <3> HIDE DEF Whole
        <3>3. get'.time <= get.time
            BY <1>0, <2>1, <2>5, <3>1
        <3> QED
            BY <3>2, <3>3
    <2>6. CASE gets' # gets /\ get'.time \in Timeouts
        BY <2>6
    <2> QED
        BY <1>3, <2>2, <2>3, <2>4, <2>5, <2>6, TimeStep
<1>4. Spec => [](IInv /\ Whole)
    BY <1>1, <1>3, Always, PTL DEF Spec
<1> QED
    BY <1>3, <1>4, PTL DEF Spec, TimeOnlyFalls

=============================================================================
