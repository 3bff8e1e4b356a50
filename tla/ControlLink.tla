---------------------------- MODULE ControlLink ----------------------------
(***************************************************************************)
(* The control connections of cameras, both ends of them and the TCP       *)
(* streams between: the control task of a camera (client_common/           *)
(* espfsp_session_and_control_task.c), the tasks of the server, one per    *)
(* connection (server/espfsp_session_and_control_task.c), the slots they   *)
(* take and give back, and the removal of the server, which stops the runs *)
(* of all slots (espfsp_server.c).                                         *)
(*                                                                         *)
(* Of the messages only what tells sessions apart is kept: SESSION_INIT,   *)
(* the acknowledgement with the id of the session, and requests of a       *)
(* viewer, passed on by the task of its connection, which carry an id too. *)
(* Ids are the numbers of the connections they are generated for.  Both    *)
(* runs alternate between reading a message and sending one; here they do  *)
(* either when they can.                                                   *)
(***************************************************************************)
EXTENDS Naturals, Sequences, FiniteSets

CONSTANTS
    NSlots,          \* CONFIG_ESPFSP_SERVER_CLIENT_PUSH_MAX_CONNECTIONS
    Cameras,
    ActionQueueLen,  \* buffered_actions of a comm_proto
    NetLen,          \* messages TCP takes before a send waits
    MaxConns,        \* bound: connections ever made
    Garbled          \* an id read from bytes that are not one

ASSUME SizesAssumption ==
    /\ NSlots \in Nat \ {0} /\ ActionQueueLen \in Nat \ {0} /\ NetLen \in Nat \ {0}
    /\ MaxConns \in Nat
ASSUME GarbledAssumption == Garbled \notin Nat

Slots == 1 .. NSlots
Conns == 1 .. MaxConns
NoSlot == 0
NoId == 0            \* UNACTIVE_SESSION_ID; of a camera: not active
Ids == 0 .. MaxConns
NoCall == [to |-> NoSlot, id |-> NoId]

VARIABLES
    \* server: slots
    active, session_id, reqActionQueue,
    en,              \* of the comm_proto
    \* server: the tasks of the connections
    srv,             \* where the task is
    slot,            \* the slot it holds
    call,            \* a call another handler has still to make
    stopped,         \* slots whose run espfsp_comm_proto_stop has stopped
    deleted,         \* the accepting task is deleted
    \* TCP
    up, down,        \* to the server, to the camera
    \* cameras
    conn,            \* the connection, 0 if there is none
    csession,        \* session_data
    pending,         \* SESSION_INIT messages in reqActionQueue
    \* history
    tainted,         \* connections that may have messages of another session
    lateRuns         \* runs that began after their slot was stopped

slots == <<active, session_id, reqActionQueue, en>>
tasks == <<srv, slot, lateRuns>>
removal == <<stopped, deleted>>
cameras == <<conn, csession, pending>>
vars == <<slots, tasks, call, removal, up, down, cameras, tainted>>

Message(kind, id) == [kind |-> kind, id |-> id]
Messages == [kind : {"ACK", "REQ", "REST"}, id : Ids]

TypeOK ==
    /\ active \in [Slots -> BOOLEAN] /\ en \in [Slots -> BOOLEAN]
    /\ session_id \in [Slots -> Ids]
    /\ reqActionQueue \in [Slots -> Seq(Messages)]
    /\ \A s \in Slots : Len(reqActionQueue[s]) <= ActionQueueLen
    /\ srv \in [Conns -> {"none", "new", "task", "begin", "loop", "ack", "exit", "gone"}]
    /\ slot \in [Conns -> Slots \cup {NoSlot}]
    /\ call \in [to : Slots, id : Ids] \cup {NoCall}
    /\ stopped \subseteq Slots /\ deleted \in BOOLEAN
    /\ up \in [Conns -> Seq({"INIT", "REST"})]
    /\ down \in [Conns -> Seq(Messages)]
    /\ \A k \in Conns : Len(down[k]) <= NetLen
    /\ conn \in [Cameras -> Conns \cup {0}]
    /\ csession \in [Cameras -> Ids \cup {Garbled}]
    /\ pending \in [Cameras -> 0 .. ActionQueueLen]
    /\ tainted \subseteq Conns /\ lateRuns \subseteq Conns

Init ==
    /\ active = [s \in Slots |-> FALSE] /\ en = [s \in Slots |-> FALSE]
    /\ session_id = [s \in Slots |-> NoId]
    /\ reqActionQueue = [s \in Slots |-> <<>>]
    /\ srv = [k \in Conns |-> "none"] /\ slot = [k \in Conns |-> NoSlot]
    /\ call = NoCall
    /\ stopped = {} /\ deleted = FALSE
    /\ up = [k \in Conns |-> <<>>] /\ down = [k \in Conns |-> <<>>]
    /\ conn = [c \in Cameras |-> 0]
    /\ csession = [c \in Cameras |-> NoId]
    /\ pending = [c \in Cameras |-> 0]
    /\ tainted = {} /\ lateRuns = {}

-----------------------------------------------------------------------------
(* A camera.                                                               *)

\* Faulty variant of InitFits: one message more than there is room for.
InitAlwaysFits(c) == pending[c] <= ActionQueueLen

InitFits(c) == pending[c] < ActionQueueLen

\* create_tcp_client and handle_new_connection.  A camera that cannot queue its
\* SESSION_INIT closes the connection again.  One that still has a session, since
\* its last run has failed, keeps it.
Connect(c, k) ==
    /\ conn[c] = 0
    /\ srv[k] = "none" /\ \A j \in Conns : j < k => srv[j] # "none"
    /\ srv' = [srv EXCEPT ![k] = "new"]
    /\ IF InitFits(c)
       THEN pending' = [pending EXCEPT ![c] = @ + 1] /\ conn' = [conn EXCEPT ![c] = k]
       ELSE UNCHANGED <<pending, conn>>
    /\ tainted' = IF csession[c] # NoId THEN tainted \cup {k} ELSE tainted
    /\ UNCHANGED <<slots, slot, lateRuns, call, removal, up, down, csession>>

CameraSends(c) ==
    LET k == conn[c] IN
    /\ k # 0
    /\ pending[c] > 0
    /\ pending' = [pending EXCEPT ![c] = @ - 1]
    /\ up' = IF srv[k] = "gone" THEN up ELSE [up EXCEPT ![k] = Append(@, "INIT")]
    /\ UNCHANGED <<slots, tasks, call, removal, down, conn, csession, tainted>>

\* The run ends and the socket is closed, with what it has not read.
Leave(c, k) ==
    /\ conn' = [conn EXCEPT ![c] = 0]
    /\ down' = [down EXCEPT ![k] = <<>>]

\* The handlers of the camera fail: it has a session already, or the request is
\* not for the one it has.  What is left of a message has no handler.
Refuses(c, m) ==
    \/ m.kind = "REST"
    \/ m.kind = "ACK" /\ csession[c] # NoId
    \/ m.kind = "REQ" /\ csession[c] # m.id

\* A run that fails leaves the session as it is.
CameraReads(c) ==
    LET k == conn[c] IN
    /\ k # 0
    /\ down[k] # <<>>
    /\ LET m == Head(down[k]) IN
       IF Refuses(c, m)
       THEN Leave(c, k) /\ UNCHANGED csession
       ELSE /\ down' = [down EXCEPT ![k] = Tail(@)]
            /\ csession' = IF m.kind = "ACK" /\ csession[c] = NoId
                           THEN [csession EXCEPT ![c] = m.id] ELSE csession
            /\ UNCHANGED conn
    /\ UNCHANGED <<slots, tasks, call, removal, up, pending, tainted>>

\* recv returns a part of the message ("What if not whole message will be
\* read?").  It is handled with what else is in tlv_buffer, which may be the
\* right id or not; the rest is taken for the next message.
CameraReadsPart(c) ==
    LET k == conn[c] IN
    /\ k # 0
    /\ down[k] # <<>>
    /\ LET m == Head(down[k]) IN
       /\ m.kind # "REST"
       /\ \/ Leave(c, k) /\ UNCHANGED csession
          \/ /\ csession[c] = NoId <=> m.kind = "ACK"
             /\ down' = [down EXCEPT ![k] = <<Message("REST", NoId)>> \o Tail(@)]
             /\ csession' = IF m.kind = "ACK" THEN [csession EXCEPT ![c] = Garbled] ELSE csession
             /\ UNCHANGED conn
    /\ tainted' = tainted \cup {k}
    /\ UNCHANGED <<slots, tasks, call, removal, up, pending>>

\* The connection is found lost: espfsp_client_push_connection_stop.
CameraLoses(c) ==
    LET k == conn[c] IN
    /\ k # 0
    /\ Leave(c, k)
    /\ csession' = [csession EXCEPT ![c] = NoId]
    /\ UNCHANGED <<slots, tasks, call, removal, up, pending, tainted>>

-----------------------------------------------------------------------------
(* The server: handle_new_connection_task.                                 *)

Goto(k, where) == srv' = [srv EXCEPT ![k] = where]

\* The accepting task makes a task for the connection.
AcceptConnection(k) ==
    /\ srv[k] = "new"
    /\ Goto(k, "task")
    /\ UNCHANGED <<slots, slot, lateRuns, call, removal, up, down, cameras, tainted>>

\* Faulty variant of IsFirstFree: nobody looks whether it is free.
IsFirst(s) == s = 1

IsFirstFree(s) == ~active[s] /\ \A r \in Slots : r < s => active[r]

\* espfsp_session_manager_get_comm_proto.  What is in the queue stays there.
TakeSlot(k, s) ==
    /\ srv[k] = "task"
    /\ IsFirstFree(s)
    /\ active' = [active EXCEPT ![s] = TRUE]
    /\ session_id' = [session_id EXCEPT ![s] = NoId]
    /\ slot' = [slot EXCEPT ![k] = s]
    /\ Goto(k, "begin")
    /\ tainted' = IF reqActionQueue[s] # <<>> \/ call.to = s THEN tainted \cup {k} ELSE tainted
    /\ UNCHANGED <<reqActionQueue, en, lateRuns, call, removal, up, down, cameras>>

NoSlotFree(k) ==
    /\ srv[k] = "task"
    /\ \A s \in Slots : active[s]
    /\ Goto(k, "gone")
    /\ up' = [up EXCEPT ![k] = <<>>]
    /\ UNCHANGED <<slots, slot, lateRuns, call, removal, down, cameras, tainted>>

\* espfsp_comm_proto_run sets en, whatever it was.
Begin(k) ==
    /\ srv[k] = "begin"
    /\ en' = [en EXCEPT ![slot[k]] = TRUE]
    /\ Goto(k, "loop")
    /\ lateRuns' = IF slot[k] \in stopped THEN lateRuns \cup {k} ELSE lateRuns
    /\ UNCHANGED <<active, session_id, reqActionQueue, slot, call, removal, up, down, cameras,
                   tainted>>

Looping(k) == srv[k] = "loop" /\ en[slot[k]]

\* The run reads whole messages or the first part of one.  SESSION_INIT is
\* handled the same, since its content is not looked at; a slot that has a
\* session and the rest of a message fail the run.
ServerReads(k, part) ==
    /\ Looping(k)
    /\ up[k] # <<>>
    /\ up' = [up EXCEPT ![k] = IF part THEN <<"REST">> \o Tail(@) ELSE Tail(@)]
    /\ IF Head(up[k]) = "INIT" /\ session_id[slot[k]] = NoId
       THEN session_id' = [session_id EXCEPT ![slot[k]] = k] /\ Goto(k, "ack")
       ELSE Goto(k, "exit") /\ UNCHANGED session_id
    /\ UNCHANGED <<active, reqActionQueue, en, slot, lateRuns, call, removal, down, cameras,
                   tainted>>

\* Faulty variant of Acknowledge: the session is there, and nobody is told.
AcknowledgeNot(k) ==
    /\ srv[k] = "ack"
    /\ Goto(k, "loop")
    /\ UNCHANGED <<slots, slot, lateRuns, call, removal, up, down, cameras, tainted>>

\* The mutex is released before the acknowledgement is queued.
Acknowledge(k) ==
    LET s == slot[k] IN
    /\ srv[k] = "ack"
    /\ IF Len(reqActionQueue[s]) < ActionQueueLen
       THEN /\ reqActionQueue' = [reqActionQueue EXCEPT ![s] = Append(@, Message("ACK", k))]
            /\ Goto(k, "loop")
       ELSE Goto(k, "exit") /\ UNCHANGED reqActionQueue
    /\ UNCHANGED <<active, session_id, en, slot, lateRuns, call, removal, up, down, cameras,
                   tainted>>

OnLine(k) == \E c \in Cameras : conn[c] = k

\* A message to a camera that is gone is lost.
ServerSends(k) ==
    LET s == slot[k] IN
    /\ Looping(k)
    /\ reqActionQueue[s] # <<>>
    /\ Len(down[k]) < NetLen
    /\ reqActionQueue' = [reqActionQueue EXCEPT ![s] = Tail(@)]
    /\ down' = IF OnLine(k) THEN [down EXCEPT ![k] = Append(@, Head(reqActionQueue[s]))] ELSE down
    /\ UNCHANGED <<active, session_id, en, tasks, call, removal, up, cameras, tainted>>

\* Faulty variant of ServerLoses: the slot is free at once.
ServerLosesFrees(k) ==
    /\ Looping(k)
    /\ session_id' = [session_id EXCEPT ![slot[k]] = NoId]
    /\ active' = [active EXCEPT ![slot[k]] = FALSE]
    /\ Goto(k, "exit")
    /\ UNCHANGED <<reqActionQueue, en, slot, lateRuns, call, removal, up, down, cameras, tainted>>

\* The connection is found lost (espfsp_server_connection_stop; what it does for
\* the stream is in ServerSessions), or the run fails on its socket.
ServerLoses(k) ==
    /\ Looping(k)
    /\ session_id' = [session_id EXCEPT ![slot[k]] = NoId]
    /\ Goto(k, "exit")
    /\ UNCHANGED <<active, reqActionQueue, en, slot, lateRuns, call, removal, up, down, cameras,
                   tainted>>

\* The loop ends because en is 0, without a callback.
RunStops(k) ==
    /\ srv[k] = "loop" /\ ~en[slot[k]]
    /\ Goto(k, "exit")
    /\ UNCHANGED <<slots, slot, lateRuns, call, removal, up, down, cameras, tainted>>

\* espfsp_session_manager_return_comm_proto and espfsp_remove_host
ReturnSlot(k) ==
    /\ srv[k] = "exit"
    /\ active' = [active EXCEPT ![slot[k]] = FALSE]
    /\ session_id' = [session_id EXCEPT ![slot[k]] = NoId]
    /\ slot' = [slot EXCEPT ![k] = NoSlot]
    /\ Goto(k, "gone")
    /\ up' = [up EXCEPT ![k] = <<>>]
    /\ UNCHANGED <<reqActionQueue, en, lateRuns, call, removal, down, cameras, tainted>>

-----------------------------------------------------------------------------
(* Other tasks of the server.                                              *)

\* Faulty variant of PrepareRequest: that there is a session is not asked for.
PrepareRequestAnyway(s) ==
    /\ call = NoCall
    /\ call' = [to |-> s, id |-> session_id[s]]
    /\ UNCHANGED <<slots, tasks, removal, up, down, cameras, tainted>>

\* The handler of a viewer's request takes the id of the session of a slot under
\* the mutex, and queues its message for the slot after releasing it.
PrepareRequest(s) ==
    /\ call = NoCall
    /\ session_id[s] # NoId
    /\ call' = [to |-> s, id |-> session_id[s]]
    /\ UNCHANGED <<slots, tasks, removal, up, down, cameras, tainted>>

QueueRequest ==
    LET s == call.to IN
    /\ call # NoCall
    /\ reqActionQueue' = IF Len(reqActionQueue[s]) < ActionQueueLen
                         THEN [reqActionQueue EXCEPT ![s] = Append(@, Message("REQ", call.id))]
                         ELSE reqActionQueue
    /\ call' = NoCall
    /\ UNCHANGED <<active, session_id, en, tasks, removal, up, down, cameras, tainted>>

\* Faulty variant of StopRun: one slot too few is stopped.
StopRunExceptLast(s) ==
    /\ s \notin stopped
    /\ \A r \in Slots : r < s => r \in stopped
    /\ stopped' = stopped \cup {s}
    /\ en' = IF s = NSlots THEN en ELSE [en EXCEPT ![s] = FALSE]
    /\ UNCHANGED <<active, session_id, reqActionQueue, tasks, call, deleted, up, down, cameras,
                   tainted>>

\* stop_tasks of espfsp_server_deinit: espfsp_comm_proto_stop for every slot.
StopRun(s) ==
    /\ s \notin stopped
    /\ \A r \in Slots : r < s => r \in stopped
    /\ stopped' = stopped \cup {s}
    /\ en' = [en EXCEPT ![s] = FALSE]
    /\ UNCHANGED <<active, session_id, reqActionQueue, tasks, call, deleted, up, down, cameras,
                   tainted>>

\* After a fixed second the accepting task is deleted.  Nothing joins the runs: one
\* that waits in a send or works in a handler may outlast the second, so may a task
\* that has not got to its run, and the tasks of the connections are not deleted.
\* Next the slots are freed, and the model ends.
DeleteTasks ==
    /\ stopped = Slots
    /\ deleted' = TRUE
    /\ UNCHANGED <<slots, tasks, call, stopped, up, down, cameras, tainted>>

-----------------------------------------------------------------------------
ServerStep(k) ==
    \/ AcceptConnection(k) \/ (\E s \in Slots : TakeSlot(k, s)) \/ NoSlotFree(k) \/ Begin(k)
    \/ Acknowledge(k) \/ RunStops(k) \/ ReturnSlot(k)

Next ==
    /\ ~deleted
    /\ \/ \E c \in Cameras :
          \/ \E k \in Conns : Connect(c, k)
          \/ CameraSends(c) \/ CameraReads(c) \/ CameraReadsPart(c) \/ CameraLoses(c)
       \/ \E k \in Conns :
          \/ ServerStep(k) \/ ServerSends(k) \/ ServerLoses(k)
          \/ \E part \in BOOLEAN : ServerReads(k, part)
       \/ \E s \in Slots : PrepareRequest(s) \/ StopRun(s)
       \/ QueueRequest \/ DeleteTasks

\* Every task is scheduled, a run gets to read and to send again and again, and
\* TCP tells each end in the end that the other one has closed.
Fairness ==
    /\ \A k \in Conns :
        /\ WF_vars(~deleted /\ ServerStep(k))
        /\ WF_vars(~deleted /\ ServerSends(k))
        /\ WF_vars(~deleted /\ \E part \in BOOLEAN : ServerReads(k, part))
        /\ WF_vars(~deleted /\ ~OnLine(k) /\ ServerLoses(k))
    /\ \A c \in Cameras :
        /\ WF_vars(~deleted /\ CameraSends(c))
        /\ WF_vars(~deleted /\ CameraReads(c))
        /\ WF_vars(~deleted /\ conn[c] # 0 /\ srv[conn[c]] = "gone" /\ CameraLoses(c))
    /\ WF_vars(~deleted /\ QueueRequest)

Spec == Init /\ [][Next]_vars
FairSpec == Spec /\ Fairness

-----------------------------------------------------------------------------
\* A slot belongs to the one task that will give it back, from taking it to that
\* moment, however the run ends (espfsp_session_manager_get_comm_proto and
\* _return_comm_proto; handle_new_connection_task).
OneTaskPerSlot ==
    /\ \A k \in Conns : slot[k] # NoSlot <=> srv[k] \in {"begin", "loop", "ack", "exit"}
    /\ \A s \in Slots : active[s] <=> \E k \in Conns : slot[k] = s
    /\ \A j, k \in Conns : slot[j] = slot[k] /\ slot[j] # NoSlot => j = k

\* What is on its way to a camera is for the session of its connection, unless
\* the slot was taken with a message in its queue or with a request on its way
\* there.  (A queue outlives the connection it was filled for, and insert_action
\* looks at no session.)
MessagesAreForSession ==
    \A k \in Conns \ tainted :
        /\ \A i \in DOMAIN down[k] : down[k][i].id = k
        /\ slot[k] # NoSlot =>
            \A i \in DOMAIN reqActionQueue[slot[k]] : reqActionQueue[slot[k]][i].id = k

\* A camera that has a session has the one the server has made for its
\* connection, unless it came with another one, or got messages that were left
\* for another camera or that it read in parts.
CameraKnowsItsSession ==
    \A c \in Cameras :
        conn[c] \notin tainted /\ conn[c] # 0 => csession[c] \in {NoId, conn[c]}

\* A run in a slot that has been stopped and that has not been told to end began
\* after the stop: en is set by the run itself, and the stop is lost, whoever had
\* the slot before.  Every other run ends when it next looks at en; that it does so
\* before what it uses is freed is not claimed.
OnlyLateRunsMissTheStop ==
    \A k \in Conns :
        srv[k] \in {"loop", "ack"} /\ slot[k] \in stopped /\ en[slot[k]] => k \in lateRuns

\* A camera that has connected gets the session made for its connection or loses
\* the connection, as long as the server is not removed.  In particular an id that
\* is another's does not last: the acknowledgement that is for the camera comes
\* second and is refused.
CameraGetsItsSession ==
    \A c \in Cameras : \A k \in Conns :
        conn[c] = k ~> conn[c] # k \/ csession[c] = k \/ deleted

=============================================================================
