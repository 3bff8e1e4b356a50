----------------------------- MODULE PlayClient -----------------------------
(***************************************************************************)
(* A viewer: the functions the application calls (espfsp_client_play.c),   *)
(* the control task that connects to the server again and again            *)
(* (client_common/espfsp_session_and_control_task.c) and handles the       *)
(* server's messages (client_play/espfsp_comm_proto_handlers.c), and the   *)
(* start-stop side of the data task.                                       *)
(*                                                                         *)
(* The application calls one function at a time.  A function looks at the  *)
(* session under its mutex, which is one step, and then makes calls of its *)
(* own, which are kept in todo and made one at a time.  Frames are those   *)
(* of module MessageBuffer; replacing the receiver buffer is left out.     *)
(*                                                                         *)
(* The server acknowledges the first SESSION_INIT of a connection, answers *)
(* each get request for the session of the connection, in order, may ask   *)
(* for the stream to be stopped, and may vanish.  Connections that run     *)
(* are numbered, and so are the sessions the server gives.                 *)
(***************************************************************************)
EXTENDS Naturals, Sequences, FiniteSets

CONSTANTS
    Kinds,           \* what can be asked for; "sources" is the one with one answer
    Size,            \* parameters of each kind: requests per call, length of its queue
    ActionQueueLen,  \* buffered_actions
    StartStopLen,    \* QUEUE_MAX_SIZE of data_proto
    Timeouts,        \* arguments timeout_ms of the application
    Tick,            \* GET_REQUESTS_WAIT_TICK_MS
    Wrap,            \* timeout_ms is a number modulo Wrap
    MaxConn,         \* bound: connections
    MaxGet           \* bound: get calls

ASSUME SizeAssumption ==
    /\ Size \in [Kinds -> Nat \ {0}]
    /\ "sources" \in Kinds => Size["sources"] = 1
ASSUME QueuesAssumption == ActionQueueLen \in Nat \ {0} /\ StartStopLen \in Nat \ {0}
ASSUME TimeAssumption == Tick \in 1 .. Wrap - 1 /\ Wrap \in Nat /\ Timeouts \subseteq 1 .. Wrap - 1
ASSUME BoundsAssumption == MaxConn \in Nat /\ MaxGet \in Nat

NoId == 0
NoKind == "none"
Ids == 0 .. MaxConn
Gets == 0 .. MaxGet

VARIABLES
    \* session data, under the mutex
    active, session_id, stream_started,
    \* queues
    reqActionQueue,  \* messages to the server
    startStopQueue,  \* commands to the data task
    answers,         \* get_..._data_queue: the get call each answer is for
    \* application
    api,             \* "idle", "post" after the mutex, "wait" or "receive" for answers
    todo,            \* calls still to be made
    get,             \* the get call under way: its kind, number, time and answers left
    gets,            \* get calls so far
    \* control task, server and data task
    ctl, held,       \* where the task is, the answer its handler holds
    conn,            \* connections so far
    server_id,       \* session of this connection at the server
    replies,         \* from the server, on this connection
    started,
    \* history
    upset,           \* a command was lost or overtaken
    missed           \* a get call ended without all of its answers

sessionVars == <<active, session_id, stream_started>>
appVars == <<api, todo, get, gets>>
netVars == <<ctl, held, conn, server_id, replies>>
dataVars == <<startStopQueue, started>>
vars == <<sessionVars, reqActionQueue, answers, appVars, netVars, dataVars, upset, missed>>

Messages == [kind : {"INIT", "REQUEST", "GET"}, of : Kinds \cup {NoKind}, id : Ids, get : Gets]
Replies == [kind : {"ACK", "ANSWER"}, of : Kinds \cup {NoKind}, id : Ids, get : Gets]
Calls == [call : {"data"}, cmd : {"START", "STOP"}] \cup [call : {"send"}, msg : Messages]

TypeOK ==
    /\ active \in BOOLEAN /\ session_id \in Ids /\ stream_started \in BOOLEAN
    /\ reqActionQueue \in Seq(Messages) /\ Len(reqActionQueue) <= ActionQueueLen
    /\ startStopQueue \in Seq({"START", "STOP"}) /\ Len(startStopQueue) <= StartStopLen
    /\ answers \in [Kinds -> Seq(Gets)]
    /\ \A k \in Kinds : Len(answers[k]) <= Size[k]
    /\ api \in {"idle", "post", "wait", "receive"}
    /\ todo \in Seq(Calls)
    /\ get \in [of : Kinds \cup {NoKind}, time : 0 .. Wrap - 1, left : Nat]
    /\ gets \in Gets
    /\ ctl \in {"connect", "connected", "listen", "full", "resend", "action", "closed"}
    /\ held \in Replies
    /\ conn \in Ids /\ server_id \in Ids
    /\ replies \in Seq(Replies)
    /\ started \in BOOLEAN
    /\ upset \in BOOLEAN /\ missed \in BOOLEAN

NoGet == [of |-> NoKind, time |-> 0, left |-> 0]
Message(kind, id) == [kind |-> kind, of |-> NoKind, id |-> id, get |-> 0]
Ask(k, id, n) == [kind |-> "GET", of |-> k, id |-> id, get |-> n]
Ack(id) == [kind |-> "ACK", of |-> NoKind, id |-> id, get |-> 0]
Answer(m) == [kind |-> "ANSWER", of |-> m.of, id |-> m.id, get |-> m.get]

Init ==
    /\ active = FALSE /\ session_id = NoId /\ stream_started = FALSE
    /\ reqActionQueue = <<>> /\ startStopQueue = <<>>
    /\ answers = [k \in Kinds |-> <<>>]
    /\ api = "idle" /\ todo = <<>> /\ get = NoGet /\ gets = 0
    /\ ctl = "connect" /\ held = Ack(NoId) /\ conn = 0 /\ server_id = NoId /\ replies = <<>>
    /\ started = FALSE
    /\ upset = FALSE /\ missed = FALSE

-----------------------------------------------------------------------------
(* The functions of the application: the step under the mutex.             *)

Data(cmd) == [call |-> "data", cmd |-> cmd]
Send(m) == [call |-> "send", msg |-> m]
Times(n, c) == [i \in 1 .. n |-> c]

\* The flag changes under the mutex, the command for the data task follows it.
Then(calls) == api' = "post" /\ todo' = calls

StartStream ==
    /\ api = "idle"
    /\ active /\ ~stream_started
    /\ stream_started' = TRUE
    /\ Then(<<Data("START"), Send(Message("REQUEST", session_id))>>)
    /\ UNCHANGED <<active, session_id, reqActionQueue, answers, get, gets, netVars, dataVars,
                   upset, missed>>

\* Faulty variant of StopStream: the data task goes on.
StopRequestOnly ==
    /\ api = "idle"
    /\ active
    /\ stream_started' = FALSE
    /\ Then(<<Send(Message("REQUEST", session_id))>>)
    /\ UNCHANGED <<active, session_id, reqActionQueue, answers, get, gets, netVars, dataVars,
                   upset, missed>>

\* Whether or not the stream is on.
StopStream ==
    /\ api = "idle"
    /\ active
    /\ stream_started' = FALSE
    /\ Then(<<Data("STOP"), Send(Message("REQUEST", session_id))>>)
    /\ UNCHANGED <<active, session_id, reqActionQueue, answers, get, gets, netVars, dataVars,
                   upset, missed>>

\* reconfigure_frame and reconfigure_cam: one message per parameter.
Reconfigure(k) ==
    /\ api = "idle"
    /\ active
    /\ k # "sources"
    /\ Then(Times(Size[k], Send(Message("REQUEST", session_id))))
    /\ UNCHANGED <<sessionVars, reqActionQueue, answers, get, gets, netVars, dataVars,
                   upset, missed>>

\* set_source refuses only when there is a stream without a session.
SetSource ==
    /\ api = "idle"
    /\ ~(~active /\ stream_started)
    /\ Then(<<Send(Message("REQUEST", session_id))>>)
    /\ UNCHANGED <<sessionVars, reqActionQueue, answers, get, gets, netVars, dataVars,
                   upset, missed>>

\* get_frame, get_cam and get_sources_timeout: one request per parameter.
Get(k, time) ==
    /\ api = "idle"
    /\ active
    /\ gets < MaxGet
    /\ gets' = gets + 1
    /\ get' = [of |-> k, time |-> time, left |-> Size[k]]
    /\ Then(Times(Size[k], Send(Ask(k, session_id, gets + 1))))
    /\ UNCHANGED <<sessionVars, reqActionQueue, answers, netVars, dataVars, upset, missed>>

-----------------------------------------------------------------------------
(* Their calls after it.                                                   *)

Calling(call) == api = "post" /\ Head(todo).call = call
Getting == get # NoGet

\* A get call waits once all its requests are queued.
CallDone ==
    /\ todo' = Tail(todo)
    /\ api' = IF Len(todo) > 1 THEN "post" ELSE IF Getting THEN "wait" ELSE "idle"
    /\ UNCHANGED get

\* The function returns an error; requests it has queued stay queued.
CallFails ==
    /\ api' = "idle" /\ todo' = <<>> /\ get' = NoGet

\* espfsp_data_proto_start, espfsp_data_proto_stop
SendCommand ==
    /\ Calling("data")
    /\ IF Len(startStopQueue) < StartStopLen
       THEN /\ startStopQueue' = Append(startStopQueue, Head(todo).cmd)
            /\ CallDone
            /\ UNCHANGED upset
       ELSE /\ CallFails
            /\ upset' = TRUE
            /\ UNCHANGED startStopQueue
    /\ UNCHANGED <<sessionVars, reqActionQueue, answers, gets, netVars, started, missed>>

\* Faulty variant of ActionFits: one message more than there is room for.
ActionAlwaysFits == Len(reqActionQueue) <= ActionQueueLen

ActionFits == Len(reqActionQueue) < ActionQueueLen

InsertAction ==
    /\ Calling("send")
    /\ IF ActionFits
       THEN /\ reqActionQueue' = Append(reqActionQueue, Head(todo).msg)
            /\ CallDone
            /\ UNCHANGED missed
       ELSE /\ CallFails
            /\ missed' = (missed \/ Getting)
            /\ UNCHANGED reqActionQueue
    /\ UNCHANGED <<sessionVars, answers, gets, netVars, dataVars, upset>>

-----------------------------------------------------------------------------
(* Waiting for answers.                                                    *)

GetReturns == api' = "idle" /\ get' = NoGet

\* Faulty variant of TakeAnswer: it returns one answer early.
TakeAnswerButOne ==
    /\ api = "wait"
    /\ get.time > 0 /\ get.of # "sources"
    /\ answers[get.of] # <<>>
    /\ answers' = [answers EXCEPT ![get.of] = Tail(@)]
    /\ IF get.left <= 2 THEN GetReturns
       ELSE get' = [get EXCEPT !.left = @ - 1] /\ UNCHANGED api
    /\ UNCHANGED <<sessionVars, reqActionQueue, todo, gets, netVars, dataVars, upset, missed>>

\* Any answer counts, whichever call it is for.
TakeAnswer ==
    /\ api = "wait"
    /\ get.time > 0 /\ get.of # "sources"
    /\ answers[get.of] # <<>>
    /\ answers' = [answers EXCEPT ![get.of] = Tail(@)]
    /\ IF get.left = 1 THEN GetReturns
       ELSE get' = [get EXCEPT !.left = @ - 1] /\ UNCHANGED api
    /\ UNCHANGED <<sessionVars, reqActionQueue, todo, gets, netVars, dataVars, upset, missed>>

\* Unsigned arithmetic: less than a tick becomes a very long time.
NextTick == (get.time + Wrap - Tick) % Wrap

Wait ==
    /\ api = "wait"
    /\ get.time > 0
    /\ answers[get.of] = <<>>
    /\ get' = [get EXCEPT !.time = NextTick]
    /\ UNCHANGED <<sessionVars, reqActionQueue, answers, api, todo, gets, netVars, dataVars,
                   upset, missed>>

TimesOut ==
    /\ api = "wait"
    /\ get.time = 0 /\ get.of # "sources"
    /\ GetReturns
    /\ missed' = TRUE
    /\ UNCHANGED <<sessionVars, reqActionQueue, answers, todo, gets, netVars, dataVars, upset>>

\* get_sources_timeout peeks at its queue and receives from it later, also
\* when it has seen nothing in time.
StopsPeeking ==
    /\ api = "wait"
    /\ get.of = "sources"
    /\ get.time = 0 \/ answers["sources"] # <<>>
    /\ api' = "receive"
    /\ UNCHANGED <<sessionVars, reqActionQueue, answers, todo, get, gets, netVars, dataVars,
                   upset, missed>>

ReceiveSources ==
    /\ api = "receive"
    /\ IF answers["sources"] # <<>>
       THEN /\ answers' = [answers EXCEPT !["sources"] = Tail(@)]
            /\ UNCHANGED missed
       ELSE missed' = TRUE /\ UNCHANGED answers
    /\ GetReturns
    /\ UNCHANGED <<sessionVars, reqActionQueue, todo, gets, netVars, dataVars, upset>>

-----------------------------------------------------------------------------
(* The control task around and in espfsp_comm_proto_run.                   *)

Goto(where) == ctl' = where

Connect ==
    /\ ctl = "connect"
    /\ Goto("connected")
    /\ UNCHANGED <<sessionVars, reqActionQueue, answers, appVars, held, conn, server_id, replies,
                   dataVars, upset, missed>>

\* With no room for its SESSION_INIT the client gives the connection up.
QueueInit ==
    /\ ctl = "connected"
    /\ IF ActionFits
       THEN /\ conn < MaxConn
            /\ conn' = conn + 1
            /\ reqActionQueue' = Append(reqActionQueue, Message("INIT", NoId))
            /\ Goto("listen")
       ELSE /\ Goto("connect")
            /\ UNCHANGED <<conn, reqActionQueue>>
    /\ UNCHANGED <<sessionVars, answers, appVars, held, server_id, replies, dataVars, upset,
                   missed>>

\* The connection is over; what was under way on it is lost.
Hangup(where) ==
    /\ Goto(where)
    /\ server_id' = NoId /\ replies' = <<>>
    /\ UNCHANGED <<held, conn>>

NothingReceived ==
    /\ ctl = "listen"
    /\ Goto("action")
    /\ UNCHANGED <<sessionVars, reqActionQueue, answers, appVars, held, conn, server_id, replies,
                   dataVars, upset, missed>>

PeerGone ==
    /\ ctl = "listen"
    /\ Hangup("closed")
    /\ UNCHANGED <<sessionVars, reqActionQueue, answers, appVars, dataVars, upset, missed>>

\* A message without a handler comes, or select fails: the run ends without the
\* callback for a lost connection.
RunFails ==
    /\ ctl = "listen"
    /\ Hangup("connect")
    /\ UNCHANGED <<sessionVars, reqActionQueue, answers, appVars, dataVars, upset, missed>>

\* One message goes to the server, or is lost with the connection.
SendAction ==
    /\ ctl = "action"
    /\ reqActionQueue # <<>>
    /\ reqActionQueue' = Tail(reqActionQueue)
    /\ LET m == Head(reqActionQueue)
           isFirst == m.kind = "INIT" /\ server_id = NoId
           isAsked == m.kind = "GET" /\ server_id # NoId /\ m.id = server_id IN
       \/ /\ Goto("listen")
          /\ server_id' = IF isFirst THEN conn ELSE server_id
          /\ replies' = IF isFirst THEN Append(replies, Ack(conn))
                        ELSE IF isAsked THEN Append(replies, Answer(m)) ELSE replies
          /\ UNCHANGED <<held, conn>>
       \/ Hangup("closed")
    /\ UNCHANGED <<sessionVars, answers, appVars, dataVars, upset, missed>>

NoAction ==
    /\ ctl = "action"
    /\ reqActionQueue = <<>>
    /\ Goto("listen")
    /\ UNCHANGED <<sessionVars, reqActionQueue, answers, appVars, held, conn, server_id, replies,
                   dataVars, upset, missed>>

-----------------------------------------------------------------------------
(* The server's messages.                                                  *)

Arrives(kind) == ctl = "listen" /\ replies # <<>> /\ Head(replies).kind = kind

\* Ignored by a client that has a session.
SessionAck ==
    /\ Arrives("ACK")
    /\ active' = TRUE
    /\ session_id' = IF active THEN session_id ELSE Head(replies).id
    /\ replies' = Tail(replies)
    /\ Goto("action")
    /\ UNCHANGED <<stream_started, reqActionQueue, answers, appVars, held, conn, server_id,
                   dataVars, upset, missed>>

\* Some function is between the mutex and its command for the data task.
CommandPending == api = "post" /\ Head(todo).call = "data"

\* Faulty variant of StopData: the session ends whatever becomes of the command.
StopDataAnyway(clears) ==
    /\ IF stream_started /\ Len(startStopQueue) < StartStopLen
       THEN startStopQueue' = Append(startStopQueue, "STOP") /\ stream_started' = FALSE
       ELSE UNCHANGED <<startStopQueue, stream_started>>
    /\ IF clears THEN active' = FALSE /\ session_id' = NoId
       ELSE UNCHANGED <<active, session_id>>
    /\ upset' = (upset \/ (stream_started /\ CommandPending))

\* Under the mutex: the flags are cleared if the data task could be told to stop
\* or need not be.
StopData(clears) ==
    /\ IF stream_started /\ Len(startStopQueue) < StartStopLen
       THEN startStopQueue' = Append(startStopQueue, "STOP")
       ELSE UNCHANGED startStopQueue
    /\ IF stream_started /\ Len(startStopQueue) = StartStopLen
       THEN UNCHANGED sessionVars
       ELSE /\ stream_started' = FALSE
            /\ IF clears THEN active' = FALSE /\ session_id' = NoId
               ELSE UNCHANGED <<active, session_id>>
    /\ upset' = (upset \/ (stream_started /\ CommandPending))

\* espfsp_client_play_req_stop_stream_handler
ServerStops ==
    /\ ctl = "listen"
    /\ server_id # NoId /\ active /\ session_id = server_id
    /\ StopData(FALSE)
    /\ IF stream_started' THEN Hangup("connect")
       ELSE Goto("action") /\ UNCHANGED <<held, conn, server_id, replies>>
    /\ UNCHANGED <<reqActionQueue, answers, appVars, started, missed>>

\* espfsp_client_play_connection_stop
ConnectionStop ==
    /\ ctl = "closed"
    /\ StopData(TRUE)
    /\ Goto("connect")
    /\ UNCHANGED <<reqActionQueue, answers, appVars, held, conn, server_id, replies, started,
                   missed>>

\* The handlers of answers: what is not for the session is ignored.
AnswerArrives ==
    /\ Arrives("ANSWER")
    /\ replies' = Tail(replies)
    /\ LET a == Head(replies) IN
       IF ~active \/ session_id # a.id
       THEN Goto("action") /\ UNCHANGED <<answers, held>>
       ELSE IF Len(answers[a.of]) < Size[a.of]
       THEN /\ answers' = [answers EXCEPT ![a.of] = Append(@, a.get)]
            /\ Goto("action") /\ UNCHANGED held
       ELSE Goto("full") /\ held' = a /\ UNCHANGED answers
    /\ UNCHANGED <<sessionVars, reqActionQueue, appVars, conn, server_id, dataVars, upset,
                   missed>>

\* Faulty variant of DropFirst: nothing is dropped.
DropNothing ==
    /\ ctl = "full"
    /\ Goto("resend")
    /\ UNCHANGED <<sessionVars, reqActionQueue, answers, appVars, held, conn, server_id, replies,
                   dataVars, upset, missed>>

\* The application may have taken one by now, or all of them.
DropFirst ==
    /\ ctl = "full"
    /\ answers' = [answers EXCEPT ![held.of] = IF @ = <<>> THEN @ ELSE Tail(@)]
    /\ Goto("resend")
    /\ UNCHANGED <<sessionVars, reqActionQueue, appVars, held, conn, server_id, replies,
                   dataVars, upset, missed>>

SendAgain ==
    /\ ctl = "resend"
    /\ IF Len(answers[held.of]) < Size[held.of]
       THEN /\ answers' = [answers EXCEPT ![held.of] = Append(@, held.get)]
            /\ Goto("action") /\ UNCHANGED <<held, conn, server_id, replies>>
       ELSE Hangup("connect") /\ UNCHANGED answers
    /\ UNCHANGED <<sessionVars, reqActionQueue, appVars, dataVars, upset, missed>>

-----------------------------------------------------------------------------
(* The data task, as far as starting and stopping goes.                    *)

ReadCommand ==
    /\ startStopQueue # <<>>
    /\ startStopQueue' = Tail(startStopQueue)
    /\ started' = (Head(startStopQueue) = "START")
    /\ UNCHANGED <<sessionVars, reqActionQueue, answers, appVars, netVars, upset, missed>>

DataRestart ==
    /\ started
    /\ started' = FALSE
    /\ upset' = TRUE
    /\ UNCHANGED <<sessionVars, reqActionQueue, startStopQueue, answers, appVars, netVars, missed>>

-----------------------------------------------------------------------------
Function ==
    \/ StartStream \/ StopStream \/ SetSource
    \/ \E k \in Kinds : Reconfigure(k) \/ \E t \in Timeouts : Get(k, t)

InFunction ==
    \/ SendCommand \/ InsertAction
    \/ TakeAnswer \/ Wait \/ TimesOut \/ StopsPeeking \/ ReceiveSources

ControlTask ==
    \/ Connect \/ QueueInit \/ NothingReceived \/ SendAction \/ NoAction
    \/ SessionAck \/ AnswerArrives \/ DropFirst \/ SendAgain \/ ConnectionStop

Environment == PeerGone \/ RunFails \/ ServerStops \/ DataRestart

Next == Function \/ InFunction \/ ControlTask \/ Environment \/ ReadCommand

\* The tasks run; the application, the server and the network owe nothing.
Fairness == WF_vars(InFunction) /\ WF_vars(ControlTask) /\ WF_vars(ReadCommand)

Spec == Init /\ [][Next]_vars
FairSpec == Spec /\ Fairness

-----------------------------------------------------------------------------
(* Properties                                                              *)

\* There is no stream without a session: so get_fb gives no frames after a
\* session has ended, and the guard of set_source, which wants the opposite,
\* never refuses anything.
StreamNeedsSession == stream_started => active

\* An answer for a full queue always fits after the oldest one is dropped,
\* whatever the application takes out meanwhile: a late answer never costs the
\* connection.
AnswerFits == ctl = "resend" => Len(answers[held.of]) < Size[held.of]

\* With all commands read and no function on its way to send one, the data task
\* runs exactly when the flag is set.  It needs that no command was lost for
\* want of room, the data task has not restarted, and the control task has not
\* stopped a stream while the application was starting or stopping it.
DataFollowsFlag ==
    ~upset /\ startStopQueue = <<>> /\ ~CommandPending => started = stream_started

\* As long as every get call got all of its answers, what waits in the queues
\* or on its way is for the call under way: no function returns an answer to
\* an earlier question.
AnswersAreCurrent ==
    ~missed =>
        /\ \A k \in Kinds : \A i \in DOMAIN answers[k] : Getting /\ k = get.of /\ answers[k][i] = gets
        /\ \A i \in DOMAIN replies : replies[i].kind = "ANSWER" => Getting /\ replies[i].get = gets
        /\ \A i \in DOMAIN reqActionQueue :
              reqActionQueue[i].kind = "GET" => Getting /\ reqActionQueue[i].get = gets

\* What the name timeout_ms and the hint to increase it promise: a get function
\* that waits for answers returns.
GetTerminates == api = "wait" ~> api = "idle"

=============================================================================
