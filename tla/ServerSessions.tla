--------------------------- MODULE ServerSessions ---------------------------
(***************************************************************************)
(* The control side of the server: the session manager                     *)
(* (server/espfsp_session_manager.c), the handlers of the requests clients *)
(* send over TCP (server/espfsp_comm_proto_handlers.c), the tasks that run *)
(* them, one per connection (server/espfsp_session_and_control_task.c,     *)
(* espfsp_comm_proto_run), and the two data tasks the handlers start and   *)
(* stop through queues (espfsp_data_proto.c).                              *)
(*                                                                         *)
(* A connection owns a slot: a comm_proto and the session data at the same *)
(* index.  What a handler does while it holds the mutex of the session     *)
(* manager is one step; what it does after releasing it is put in todo and *)
(* done one call at a time, so the handlers of other connections come in   *)
(* between.  Clients send any request at any time and may vanish at any    *)
(* time.  Memory allocations succeed.                                      *)
(***************************************************************************)
EXTENDS Naturals, Sequences, FiniteSets

CONSTANTS
    NPush,           \* client_push_session_data_count
    NPlay,           \* client_play_session_data_count
    ActionQueueLen,  \* buffered_actions of a comm_proto
    StartStopLen,    \* QUEUE_MAX_SIZE of a data_proto
    MaxId            \* bound: sessions ever activated

ASSUME SlotsAssumption == NPush \in Nat \ {0} /\ NPlay \in Nat \ {0}
ASSUME QueuesAssumption == ActionQueueLen \in Nat \ {0} /\ StartStopLen \in Nat \ {0}
ASSUME MaxIdAssumption == MaxId \in Nat

Push == 1 .. NPush
Play == NPush + 1 .. NPush + NPlay
Slots == 1 .. NPush + NPlay
NoSlot == 0         \* NULL
NoId == 0           \* UNACTIVE_SESSION_ID
Protos == {"push", "play"}

VARIABLES
    active,          \* the slot belongs to a connection
    session_id,
    stream_started,
    primary_push,
    primary_play,
    next_id,         \* generate_session_id
    pc,              \* where the task of the connection is
    todo,            \* calls its handler still has to make
    reqActionQueue,  \* messages to be sent on the connection
    startStopQueue,  \* commands for the data tasks
    running,         \* `started' of the data tasks
    upset            \* history: what has disturbed the stream so far

slotVars == <<session_id, stream_started, next_id>>
primaryVars == <<primary_push, primary_play>>
manager == <<active, slotVars, primaryVars>>
queues == <<reqActionQueue, startStopQueue>>
vars == <<manager, pc, todo, queues, running, upset>>

Ids == 0 .. MaxId
Messages == [kind : {"ACK", "START", "STOP", "SET", "REPLY"}, id : Ids]
Calls ==
    [call : {"send"}, to : Slots, msg : Messages]
        \cup [call : {"stop_other"}, to : Slots \cup {NoSlot}]
        \cup [call : {"data"}, to : Protos, cmd : {"START", "STOP"}]
        \cup [call : {"rebuffer"}]

TypeOK ==
    /\ active \in [Slots -> BOOLEAN]
    /\ session_id \in [Slots -> Ids]
    /\ stream_started \in [Slots -> BOOLEAN]
    /\ primary_push \in Push \cup {NoSlot}
    /\ primary_play \in Play \cup {NoSlot}
    /\ next_id \in 1 .. MaxId + 1
    /\ pc \in [Slots -> {"none", "listen", "action", "post", "closed", "stop", "exit"}]
    /\ todo \in [Slots -> Seq(Calls)]
    /\ reqActionQueue \in [Slots -> Seq(Messages)]
    /\ startStopQueue \in [Protos -> Seq({"START", "STOP"})]
    /\ running \in [Protos -> BOOLEAN]
    /\ upset \subseteq {"abrupt", "replaced", "disturbed"}
    /\ \A s \in Slots : Len(reqActionQueue[s]) <= ActionQueueLen
    /\ \A d \in Protos : Len(startStopQueue[d]) <= StartStopLen

Init ==
    /\ active = [s \in Slots |-> FALSE]
    /\ session_id = [s \in Slots |-> NoId]
    /\ stream_started = [s \in Slots |-> FALSE]
    /\ primary_push = NoSlot /\ primary_play = NoSlot
    /\ next_id = 1
    /\ pc = [s \in Slots |-> "none"]
    /\ todo = [s \in Slots |-> <<>>]
    /\ reqActionQueue = [s \in Slots |-> <<>>]
    /\ startStopQueue = [d \in Protos |-> <<>>]
    /\ running = [d \in Protos |-> FALSE]
    /\ upset = {}

-----------------------------------------------------------------------------
SameType(s) == IF s \in Push THEN Push ELSE Play

\* What every getter and setter of the session manager demands of a slot.
Live(s) == session_id[s] # NoId

Goto(s, where) == pc' = [pc EXCEPT ![s] = where]

\* The handler has released the mutex and goes on with these calls.
Then(s, where, calls) ==
    /\ Goto(s, where)
    /\ todo' = [todo EXCEPT ![s] = calls]

Send(s, kind, id) == [call |-> "send", to |-> s, msg |-> [kind |-> kind, id |-> id]]
Data(d, cmd) == [call |-> "data", to |-> d, cmd |-> cmd]

\* Another handler is between its step under the mutex and its last call for
\* starting or stopping the stream.
StreamCall(c) == c.call # "send" \/ c.msg.kind \in {"START", "STOP"}
OthersPending(s) ==
    \E r \in Slots \ {s} : \E i \in DOMAIN todo[r] : StreamCall(todo[r][i])
Race(s) == IF OthersPending(s) THEN {"disturbed"} ELSE {}

-----------------------------------------------------------------------------
(* A connection and its task: handle_new_connection_task around            *)
(* espfsp_comm_proto_run, which alternates between receiving a message and *)
(* sending one.                                                            *)

\* espfsp_session_manager_get_comm_proto: the first slot that is not active.
\* A client that finds none is disconnected.
Accept(s) ==
    /\ ~active[s]
    /\ \A r \in SameType(s) : r < s => active[r]
    /\ active' = [active EXCEPT ![s] = TRUE]
    /\ session_id' = [session_id EXCEPT ![s] = NoId]
    /\ Goto(s, "listen")
    /\ UNCHANGED <<stream_started, next_id, primaryVars, todo, queues, running, upset>>

Listening(s) == pc[s] = "listen"

\* Nothing has come, or a request of a live session that asks for what is
\* already so, names another session, needs a primary camera when there is
\* none, or a source nobody is.
NothingToDo(s) ==
    /\ Listening(s)
    /\ Goto(s, "action")
    /\ UNCHANGED <<manager, todo, queues, running, upset>>

\* The run ends without the callback for a lost connection: a request has no
\* handler, or the handler refuses it (there is a session already, there is
\* none, the primary camera has none, the stream states differ, a camera has
\* connected but has no session yet, an unknown parameter), or select fails.
RunFails(s) ==
    /\ Listening(s)
    /\ Goto(s, "exit")
    /\ UNCHANGED <<manager, todo, queues, running, upset>>

\* The connection is found closed, reset or terminated.
PeerGone(s) ==
    /\ Listening(s)
    /\ Goto(s, "closed")
    /\ UNCHANGED <<manager, todo, queues, running, upset>>

\* One queued message is sent, or lost because the connection is broken.
SendAction(s) ==
    /\ pc[s] = "action"
    /\ reqActionQueue[s] # <<>>
    /\ reqActionQueue' = [reqActionQueue EXCEPT ![s] = Tail(@)]
    /\ \E where \in {"listen", "closed"} : Goto(s, where)
    /\ UNCHANGED <<manager, todo, startStopQueue, running, upset>>

NoAction(s) ==
    /\ pc[s] = "action"
    /\ reqActionQueue[s] = <<>>
    /\ Goto(s, "listen")
    /\ UNCHANGED <<manager, todo, queues, running, upset>>

\* espfsp_session_manager_return_comm_proto.  Whatever brought the run to its
\* end, only the slot is given back; its queue keeps what was not sent.
ReturnSlot(s) ==
    /\ pc[s] = "exit"
    /\ active' = [active EXCEPT ![s] = FALSE]
    /\ session_id' = [session_id EXCEPT ![s] = NoId]
    /\ Goto(s, "none")
    /\ upset' = IF Live(s) THEN upset \cup {"abrupt"} ELSE upset
    /\ UNCHANGED <<stream_started, next_id, primaryVars, todo, queues, running>>

-----------------------------------------------------------------------------
(* Requests of both kinds of clients.                                      *)

\* Faulty variant of SessionInit: the primary play client keeps its place.
SessionInitKeepsPrimary(s) ==
    /\ Listening(s)
    /\ ~Live(s)
    /\ next_id <= MaxId
    /\ session_id' = [session_id EXCEPT ![s] = next_id]
    /\ stream_started' = [stream_started EXCEPT ![s] = FALSE]
    /\ next_id' = next_id + 1
    /\ primary_play' = IF s \in Play /\ primary_play = NoSlot THEN s ELSE primary_play
    /\ Then(s, "post", <<Send(s, "ACK", next_id)>>)
    /\ UNCHANGED <<active, primary_push, queues, running, upset>>

\* A play client becomes the primary one even if there is one already, which
\* keeps its session and its flag.
SessionInit(s) ==
    /\ Listening(s)
    /\ ~Live(s)
    /\ next_id <= MaxId
    /\ session_id' = [session_id EXCEPT ![s] = next_id]
    /\ stream_started' = [stream_started EXCEPT ![s] = FALSE]
    /\ next_id' = next_id + 1
    /\ primary_play' = IF s \in Play THEN s ELSE primary_play
    /\ Then(s, "post", <<Send(s, "ACK", next_id)>>)
    /\ upset' = IF s \in Play /\ primary_play \notin {NoSlot, s} THEN upset \cup {"replaced"} ELSE upset
    /\ UNCHANGED <<active, primary_push, queues, running>>

\* espfsp_session_manager_deactivate_session
Deactivate(s) ==
    /\ primary_push' = IF primary_push = s THEN NoSlot ELSE primary_push
    /\ primary_play' = IF primary_play = s THEN NoSlot ELSE primary_play
    /\ session_id' = [session_id EXCEPT ![s] = NoId]

\* The stream, if the session is part of it, is not stopped.
SessionTerminate(s) ==
    /\ Listening(s)
    /\ Live(s)
    /\ Deactivate(s)
    /\ Goto(s, "action")
    /\ upset' = IF stream_started[s] THEN upset \cup {"abrupt"} ELSE upset
    /\ UNCHANGED <<active, stream_started, next_id, todo, queues, running>>

-----------------------------------------------------------------------------
(* Requests of a play client.                                              *)

\* The session of the client and the camera it watches both exist.
Watching(s) ==
    /\ Listening(s)
    /\ s \in Play
    /\ Live(s)
    /\ primary_push # NoSlot
    /\ Live(primary_push)

\* Faulty variant of SetStream: only the play client's side is changed.
SetStreamPlayOnly(ss, on) ==
    stream_started' = [r \in Slots |-> IF r \in ss \cap Play THEN on ELSE stream_started[r]]

SetStream(ss, on) ==
    stream_started' = [r \in Slots |-> IF r \in ss THEN on ELSE stream_started[r]]

\* Calls after the flags are set; the receiver buffer is replaced first when
\* the camera's frame configuration is not the one it was made for.
StartCalls(rebuffer, p) ==
    (IF rebuffer THEN <<[call |-> "rebuffer"]>> ELSE <<>>)
        \o <<Data("push", "START"), Data("play", "START"), Send(p, "START", session_id[p])>>

\* Faulty variant of StopCalls: the play data task is not told.
StopCallsPushOnly(p) ==
    <<Send(p, "STOP", session_id[p]), Data("push", "STOP")>>

StopCalls(p) ==
    <<Send(p, "STOP", session_id[p]), Data("push", "STOP"), Data("play", "STOP")>>

StartStream(s, rebuffer) ==
    /\ Watching(s)
    /\ ~stream_started[primary_push] /\ ~stream_started[s]
    /\ SetStream({primary_push, s}, TRUE)
    /\ Then(s, "post", StartCalls(rebuffer, primary_push))
    /\ upset' = upset \cup Race(s)
    /\ UNCHANGED <<active, session_id, next_id, primaryVars, queues, running>>

StopStream(s) ==
    /\ Watching(s)
    /\ stream_started[primary_push] /\ stream_started[s]
    /\ SetStream({primary_push, s}, FALSE)
    /\ Then(s, "post", StopCalls(primary_push))
    /\ upset' = upset \cup Race(s)
    /\ UNCHANGED <<active, session_id, next_id, primaryVars, queues, running>>

\* CAM_SET_PARAMS and FRAME_SET_PARAMS: passed on to the camera.  The values
\* of the configurations are not modelled.
SetParams(s) ==
    /\ Watching(s)
    /\ Then(s, "post", <<Send(primary_push, "SET", session_id[primary_push])>>)
    /\ UNCHANGED <<manager, queues, running, upset>>

\* CAM_GET_PARAMS and FRAME_GET_PARAMS read a configuration of the camera.
GetParams(s) ==
    /\ Watching(s)
    /\ Then(s, "post", <<Send(s, "REPLY", session_id[s])>>)
    /\ UNCHANGED <<manager, queues, running, upset>>

\* The names of all connected cameras: each must have a session by now.
SourceGet(s) ==
    /\ Listening(s) /\ s \in Play /\ Live(s)
    /\ \A p \in Push : active[p] => Live(p)
    /\ Then(s, "post", <<Send(s, "REPLY", session_id[s])>>)
    /\ UNCHANGED <<manager, queues, running, upset>>

\* Faulty variant of MaySwitch: the stream states only have to agree.
MaySwitchStreaming(s) ==
    primary_push # NoSlot =>
        Live(primary_push) /\ stream_started[primary_push] = stream_started[s]

\* No stream is on.  With no primary camera no flag is looked at.
MaySwitch(s) ==
    primary_push # NoSlot =>
        Live(primary_push) /\ ~stream_started[primary_push] /\ ~stream_started[s]

\* espfsp_session_manager_get_active_session compares the names of active
\* slots, also of those that have no session (yet, or any more).  The name is
\* the one the last session of the slot got from its id, so it names one slot;
\* before any session it is uninitialised memory, which can be any name.
SourceSet(s, p) ==
    /\ Listening(s) /\ s \in Play /\ Live(s)
    /\ MaySwitch(s)
    /\ active[p]
    /\ primary_push' = p
    /\ Goto(s, "action")
    /\ UNCHANGED <<active, slotVars, primary_play, todo, queues, running, upset>>

-----------------------------------------------------------------------------
(* espfsp_server_connection_stop: the callback for a lost connection.      *)

Primary(s) == IF s \in Push THEN primary_push ELSE primary_play
OtherPrimary(s) == IF s \in Push THEN primary_play ELSE primary_push
Streams(s) == Live(s) /\ Primary(s) = s /\ stream_started[s]

\* There is no session: the callback fails.
StopWithoutSession(s) ==
    /\ pc[s] = "closed"
    /\ ~Live(s)
    /\ Goto(s, "exit")
    /\ UNCHANGED <<manager, todo, queues, running, upset>>

StopIdleSession(s) ==
    /\ pc[s] = "closed"
    /\ Live(s)
    /\ ~Streams(s)
    /\ Deactivate(s)
    /\ Goto(s, "exit")
    /\ UNCHANGED <<active, stream_started, next_id, todo, queues, running, upset>>

\* The other end of the stream, NULL or not, is looked at again without the
\* mutex: see LookUpOther.
StopStreamingSession(s) ==
    /\ pc[s] = "closed"
    /\ Streams(s)
    /\ OtherPrimary(s) # NoSlot => Live(OtherPrimary(s))
    /\ SetStream({s, OtherPrimary(s)}, FALSE)
    /\ Deactivate(s)
    /\ Then(s, "stop", <<[call |-> "stop_other", to |-> OtherPrimary(s)],
                         Data("push", "STOP"), Data("play", "STOP")>>)
    /\ upset' = upset \cup Race(s)
    /\ UNCHANGED <<active, next_id, queues, running>>

\* The other end has no session.  The flags are set push first, so the
\* callback of a camera fails after clearing its own flag, that of a play
\* client before.  In both cases the session is not deactivated.
StopOtherNotLive(s) ==
    /\ pc[s] = "closed"
    /\ Streams(s)
    /\ OtherPrimary(s) # NoSlot /\ ~Live(OtherPrimary(s))
    /\ SetStream({s} \cap Push, FALSE)
    /\ Goto(s, "exit")
    /\ UNCHANGED <<active, session_id, next_id, primaryVars, todo, queues, running, upset>>

-----------------------------------------------------------------------------
(* Calls made after the mutex is released.                                 *)

Calling(s, call) == todo[s] # <<>> /\ Head(todo[s]).call = call
After(s) == IF pc[s] = "stop" THEN "exit" ELSE "action"

CallDone(s) ==
    /\ todo' = [todo EXCEPT ![s] = Tail(@)]
    /\ IF Len(todo[s]) = 1 THEN Goto(s, After(s)) ELSE UNCHANGED pc

\* The handler gives up: what is left to do is not done.
CallFails(s) ==
    /\ Then(s, "exit", <<>>)
    /\ upset' = IF \E i \in DOMAIN todo[s] : StreamCall(todo[s][i])
                THEN upset \cup {"disturbed"} ELSE upset

\* Faulty variant of ActionFits: one message more than there is room for.
ActionAlwaysFits(s) == Len(reqActionQueue[s]) <= ActionQueueLen

ActionFits(s) == Len(reqActionQueue[s]) < ActionQueueLen
CommandFits(d) == Len(startStopQueue[d]) < StartStopLen

\* insert_action: xQueueSend does not wait.  The slot may have been given back
\* and taken again in the meantime.
InsertAction(s) ==
    /\ Calling(s, "send")
    /\ LET c == Head(todo[s]) IN
       IF ActionFits(c.to)
       THEN /\ reqActionQueue' = [reqActionQueue EXCEPT ![c.to] = Append(@, c.msg)]
            /\ CallDone(s)
            /\ UNCHANGED upset
       ELSE /\ CallFails(s)
            /\ UNCHANGED reqActionQueue
    /\ UNCHANGED <<manager, startStopQueue, running>>

\* espfsp_data_proto_start and espfsp_data_proto_stop
InsertCommand(s) ==
    /\ Calling(s, "data")
    /\ LET c == Head(todo[s]) IN
       IF CommandFits(c.to)
       THEN /\ startStopQueue' = [startStopQueue EXCEPT ![c.to] = Append(@, c.cmd)]
            /\ CallDone(s)
            /\ UNCHANGED upset
       ELSE /\ CallFails(s)
            /\ UNCHANGED startStopQueue
    /\ UNCHANGED <<manager, reqActionQueue, running>>

\* The session id of the other end is read without the mutex.
LookUpOther(s) ==
    /\ Calling(s, "stop_other")
    /\ LET r == Head(todo[s]).to IN
       IF r # NoSlot /\ Live(r)
       THEN /\ todo' = [todo EXCEPT ![s] = <<Send(r, "STOP", session_id[r])>> \o Tail(@)]
            /\ UNCHANGED <<pc, upset>>
       ELSE CallFails(s)
    /\ UNCHANGED <<manager, queues, running>>

\* The receiver buffer is freed and made anew, whether or not a data task is
\* using it.
Rebuffer(s) ==
    /\ Calling(s, "rebuffer")
    /\ CallDone(s)
    /\ upset' = IF \E d \in Protos : running[d] THEN upset \cup {"disturbed"} ELSE upset
    /\ UNCHANGED <<manager, queues, running>>

-----------------------------------------------------------------------------
(* The data tasks, as far as starting and stopping goes.                   *)

ReadCommand(d) ==
    /\ startStopQueue[d] # <<>>
    /\ startStopQueue' = [startStopQueue EXCEPT ![d] = Tail(@)]
    /\ running' = [running EXCEPT ![d] = Head(startStopQueue[d]) = "START"]
    /\ UNCHANGED <<manager, pc, todo, reqActionQueue, upset>>

\* The run of a data task fails on its socket, or on a rate of zero set meanwhile;
\* the next one starts stopped.
DataRestart(d) ==
    /\ running[d]
    /\ running' = [running EXCEPT ![d] = FALSE]
    /\ upset' = upset \cup {"disturbed"}
    /\ UNCHANGED <<manager, pc, todo, queues>>

-----------------------------------------------------------------------------
ConnectionStop(s) ==
    \/ StopWithoutSession(s) \/ StopIdleSession(s)
    \/ StopStreamingSession(s) \/ StopOtherNotLive(s)

NextCall(s) == InsertAction(s) \/ InsertCommand(s) \/ LookUpOther(s) \/ Rebuffer(s)

\* What the task of a connection does without its client asking for it.
TaskStep(s) ==
    \/ NothingToDo(s) \/ SendAction(s) \/ NoAction(s)
    \/ ConnectionStop(s) \/ NextCall(s) \/ ReturnSlot(s)

Request(s) ==
    \/ SessionInit(s) \/ SessionTerminate(s)
    \/ \E rebuffer \in BOOLEAN : StartStream(s, rebuffer)
    \/ StopStream(s) \/ SetParams(s) \/ GetParams(s) \/ SourceGet(s)
    \/ \E p \in Push : SourceSet(s, p)

DataTask(d) == ReadCommand(d) \/ DataRestart(d)

Next ==
    \/ \E s \in Slots : Accept(s) \/ PeerGone(s) \/ RunFails(s) \/ Request(s) \/ TaskStep(s)
    \/ \E d \in Protos : DataTask(d)

Spec == Init /\ [][Next]_vars

-----------------------------------------------------------------------------
(* Properties                                                              *)

\* Of the cameras only the primary one has its stream on, hence at most one
\* (session_manager.h: "only one CLIENT_PUSH can send DATA").  It holds however
\* badly connections end, also while the primary slot has no session, and it is
\* what the lack of a look at the flags in SourceSet relies on when there is no
\* primary camera.
OnlyPrimaryStreams ==
    \A s \in Push : Live(s) /\ stream_started[s] => primary_push = s

\* The two ends of the stream agree on whether it is on, as the handlers of
\* START_STREAM, STOP_STREAM and SOURCE_SET demand, until a session has ended
\* other than through connection_stop or a play client has taken the place of
\* another.
StreamsAgreeUnlessAbrupt ==
    /\ upset \subseteq {"disturbed"}
    /\ primary_push # NoSlot /\ Live(primary_push)
    /\ primary_play # NoSlot /\ Live(primary_play)
    => stream_started[primary_push] = stream_started[primary_play]

Quiescent ==
    /\ \A s \in Slots : todo[s] = <<>>
    /\ \A d \in Protos : startStopQueue[d] = <<>>

StreamOn == \E s \in Push : Live(s) /\ stream_started[s]

\* Once every call is made and every command read, both data tasks run exactly
\* when the stream is on: the flags set under the mutex and the commands sent
\* after it stay in step through any sequence of starts, stops, changes of
\* source or of the play client, lost connections and reconnections.  It needs
\* that nothing else has upset the stream: no session ended abruptly, no two
\* handlers were making their calls for the stream at the same time, none failed
\* for a full queue or a vanished session, no data task restarted, no buffer was
\* replaced under one.
DataFollowsFlags ==
    upset \subseteq {"replaced"} /\ Quiescent => \A d \in Protos : running[d] = StreamOn

\* What session_manager.h says: a primary client is a session.
PrimaryIsSession ==
    /\ primary_push # NoSlot => Live(primary_push)
    /\ primary_play # NoSlot => Live(primary_play)

\* What the handlers take for granted: they refuse to go on, with
\* "Inconsistent stream state", when the two ends differ.
StreamStatesAgree ==
    \A s \in Play : Watching(s) => stream_started[primary_push] = stream_started[s]

=============================================================================
