----------------------------- MODULE PushClient -----------------------------
(***************************************************************************)
(* A camera: its control task, which connects to the server again and      *)
(* again (client_common/espfsp_session_and_control_task.c) and handles the *)
(* server's messages (client_push/espfsp_comm_proto_handlers.c), and its   *)
(* data task (client_common/espfsp_data_task.c, data_proto/), which sends  *)
(* the frames it gets from the application.  The two share two queues.     *)
(*                                                                         *)
(* Only the control task looks at the session data, so a handler is one    *)
(* step up to its first call that the data task or the application can     *)
(* notice; these calls are put in todo and made one at a time.  The server *)
(* may send any message at any time, since messages for an earlier client  *)
(* of its slot come first; the callbacks of the application may fail.  A   *)
(* request is for the client's session or refused, so ids are left out.    *)
(***************************************************************************)
EXTENDS Naturals, Sequences

CONSTANTS
    Lens,            \* values of frame_max_len
    Rates,           \* values of fps
    ActionQueueLen,  \* buffered_actions
    QueueLen,        \* QUEUE_MAX_SIZE of data_proto
    InitConfig       \* frame_config given to espfsp_client_push_init

NoBuf == 0           \* send_fb.buf = NULL
Configs == [max_len : Lens, fps : Rates]

ASSUME LensAssumption == NoBuf \notin Lens
ASSUME LensArePositive == Lens \subseteq Nat
ASSUME QueueLensAssumption == ActionQueueLen \in Nat \ {0} /\ QueueLen \in Nat \ {0}
ASSUME InitConfigAssumption == InitConfig \in Configs /\ InitConfig.fps # 0

VARIABLES
    \* control task
    active,          \* session_data.active
    camera_started,  \* session_data.camera_started
    pending,         \* messages in reqActionQueue, all of them SESSION_INIT
    config,          \* config->frame_config
    ctl,             \* where the task is
    todo,            \* calls its handler still has to make
    \* application
    cam_on,          \* the camera runs: start_cam succeeded, stop_cam has not
    \* data task and its queues
    startStopQueue,
    settingsQueue,
    dpc,             \* data_proto.state
    started,         \* `started' of espfsp_data_proto_run
    frame_config,    \* data_proto.frame_config
    buf,             \* length send_fb.buf was allocated with
    \* history
    failed,          \* a connection with a session ended with an error
    exhausted        \* an allocation failed

session == <<active, camera_started, pending>>
control == <<ctl, todo>>
dataTask == <<dpc, started, frame_config, buf, exhausted>>
vars == <<session, config, control, cam_on, startStopQueue, settingsQueue, dataTask, failed>>

Calls == {"start_cam", "stop_cam", "reset", "settings", "start", "stop"}

TypeOK ==
    /\ active \in BOOLEAN /\ camera_started \in BOOLEAN
    /\ pending \in 0 .. ActionQueueLen
    /\ config \in Configs
    /\ ctl \in {"connect", "connected", "listen", "action", "closed",
                "start", "stop", "set", "lost"}
    /\ todo \in Seq(Calls)
    /\ cam_on \in BOOLEAN
    /\ startStopQueue \in Seq({"START", "STOP"}) /\ Len(startStopQueue) <= QueueLen
    /\ settingsQueue \in Seq(Configs) /\ Len(settingsQueue) <= QueueLen
    /\ dpc \in {"check", "setting", "loop"}
    /\ started \in BOOLEAN
    /\ frame_config \in Configs
    /\ buf \in Lens \cup {NoBuf}
    /\ failed \in BOOLEAN /\ exhausted \in BOOLEAN

\* create_new_client_push; espfsp_data_proto_init allocates the buffer.
Init ==
    /\ active = FALSE /\ camera_started = FALSE
    /\ pending = 0
    /\ config = InitConfig
    /\ ctl = "connect" /\ todo = <<>>
    /\ cam_on = FALSE
    /\ startStopQueue = <<>> /\ settingsQueue = <<>>
    /\ dpc = "check" /\ started = FALSE
    /\ frame_config = InitConfig /\ buf = InitConfig.max_len
    /\ failed = FALSE /\ exhausted = FALSE

-----------------------------------------------------------------------------
(* The control task around and in espfsp_comm_proto_run.                   *)

Goto(where) == ctl' = where /\ UNCHANGED todo
Then(where, calls) == ctl' = where /\ todo' = calls

Connect ==
    /\ ctl = "connect"
    /\ Goto("connected")
    /\ UNCHANGED <<session, config, cam_on, startStopQueue, settingsQueue, dataTask, failed>>

\* Faulty variant of InitFits: one message more than there is room for.
InitAlwaysFits == pending <= ActionQueueLen

InitFits == pending < ActionQueueLen

\* A client that cannot queue its SESSION_INIT gives up the connection without
\* running the protocol, hence without sending what is in the queue.
QueueInit ==
    /\ ctl = "connected"
    /\ pending' = IF InitFits THEN pending + 1 ELSE pending
    /\ Goto(IF InitFits THEN "listen" ELSE "connect")
    /\ UNCHANGED <<active, camera_started, config, cam_on, startStopQueue, settingsQueue,
                   dataTask, failed>>

\* Nothing has come, or a request that finds what it asks for already done, or
\* CAM_SET_PARAMS: the configuration of the camera is not modelled.
NothingToDo ==
    /\ ctl = "listen"
    /\ Goto("action")
    /\ UNCHANGED <<session, config, cam_on, startStopQueue, settingsQueue, dataTask, failed>>

\* The run ends without the callback for a lost connection: a request is for
\* another session, an acknowledgement comes for a client that has a session, a
\* parameter is unknown, a message has no handler, reconf_cam or select fails.
RunFails ==
    /\ ctl = "listen"
    /\ Goto("connect")
    /\ failed' = (failed \/ active)
    /\ UNCHANGED <<session, config, cam_on, startStopQueue, settingsQueue, dataTask>>

PeerGone ==
    /\ ctl = "listen"
    /\ Goto("closed")
    /\ UNCHANGED <<session, config, cam_on, startStopQueue, settingsQueue, dataTask, failed>>

SendInit ==
    /\ ctl = "action"
    /\ pending > 0
    /\ pending' = pending - 1
    /\ \E where \in {"listen", "closed"} : Goto(where)
    /\ UNCHANGED <<active, camera_started, config, cam_on, startStopQueue, settingsQueue,
                   dataTask, failed>>

NoAction ==
    /\ ctl = "action"
    /\ pending = 0
    /\ Goto("listen")
    /\ UNCHANGED <<session, config, cam_on, startStopQueue, settingsQueue, dataTask, failed>>

-----------------------------------------------------------------------------
(* Messages of the server.                                                 *)

SessionAck ==
    /\ ctl = "listen"
    /\ ~active
    /\ active' = TRUE
    /\ Goto("action")
    /\ UNCHANGED <<camera_started, pending, config, cam_on, startStopQueue, settingsQueue,
                   dataTask, failed>>

StartCalls == <<"start_cam", "reset", "settings", "start">>

\* Faulty variant of StopCalls: the camera goes first.
StopCamFirst == <<"stop_cam", "stop">>

\* Faulty variant of StopCalls: only the data task is told.
StopDataOnly == <<"stop">>

StopCalls == <<"stop", "stop_cam">>

StartStream ==
    /\ ctl = "listen"
    /\ active /\ ~camera_started
    /\ Then("start", StartCalls)
    /\ UNCHANGED <<session, config, cam_on, startStopQueue, settingsQueue, dataTask, failed>>

StopStream ==
    /\ ctl = "listen"
    /\ active /\ camera_started
    /\ Then("stop", StopCalls)
    /\ UNCHANGED <<session, config, cam_on, startStopQueue, settingsQueue, dataTask, failed>>

\* FRAME_SET_PARAMS changes one field.
FrameSet(c) ==
    /\ ctl = "listen"
    /\ active
    /\ \/ \E l \in Lens : c = [config EXCEPT !.max_len = l]
       \/ \E r \in Rates : c = [config EXCEPT !.fps = r]
    /\ config' = c
    /\ Then("set", <<"reset", "settings">>)
    /\ UNCHANGED <<session, cam_on, startStopQueue, settingsQueue, dataTask, failed>>

\* espfsp_client_push_connection_stop
ConnectionStop ==
    /\ ctl = "closed"
    /\ IF active /\ camera_started
       THEN Then("lost", StopCalls) /\ UNCHANGED active
       ELSE Goto("connect") /\ active' = FALSE
    /\ UNCHANGED <<camera_started, pending, config, cam_on, startStopQueue, settingsQueue,
                   dataTask, failed>>

-----------------------------------------------------------------------------
(* Calls of the handlers.                                                  *)

Calling(call) == todo # <<>> /\ Head(todo) = call

\* connection_stop clears the session data whatever has become of its calls;
\* the other handlers set or clear the flag after the last one.
CallDone ==
    IF Len(todo) > 1
    THEN Then(ctl, Tail(todo)) /\ UNCHANGED <<active, camera_started>>
    ELSE /\ Then(IF ctl = "lost" THEN "connect" ELSE "action", <<>>)
         /\ active' = (ctl # "lost")
         /\ camera_started' = IF ctl = "set" THEN camera_started ELSE ctl = "start"

CallFails ==
    /\ Then("connect", <<>>)
    /\ failed' = TRUE
    /\ IF ctl = "lost"
       THEN active' = FALSE /\ camera_started' = FALSE
       ELSE UNCHANGED <<active, camera_started>>

\* The callbacks start_cam and stop_cam of the application.
CallCam(on) ==
    /\ Calling(IF on THEN "start_cam" ELSE "stop_cam")
    /\ \/ CallDone /\ cam_on' = on /\ UNCHANGED failed
       \/ CallFails /\ UNCHANGED cam_on
    /\ UNCHANGED <<pending, config, startStopQueue, settingsQueue, dataTask>>

\* espfsp_data_proto_start and espfsp_data_proto_stop
SendCommand(call, cmd) ==
    /\ Calling(call)
    /\ IF Len(startStopQueue) < QueueLen
       THEN /\ startStopQueue' = Append(startStopQueue, cmd)
            /\ CallDone
            /\ UNCHANGED failed
       ELSE /\ CallFails
            /\ UNCHANGED startStopQueue
    /\ UNCHANGED <<pending, config, cam_on, settingsQueue, dataTask>>

\* espfsp_data_proto_set_frame_params: xQueueReset, then xQueueSend.
ResetSettings ==
    /\ Calling("reset")
    /\ settingsQueue' = <<>>
    /\ CallDone
    /\ UNCHANGED <<pending, config, cam_on, startStopQueue, dataTask, failed>>

SendSettings ==
    /\ Calling("settings")
    /\ IF Len(settingsQueue) < QueueLen
       THEN /\ settingsQueue' = Append(settingsQueue, config)
            /\ CallDone
            /\ UNCHANGED failed
       ELSE /\ CallFails
            /\ UNCHANGED settingsQueue
    /\ UNCHANGED <<pending, config, cam_on, startStopQueue, dataTask>>

-----------------------------------------------------------------------------
(* The data task: espfsp_data_proto_run.                                   *)

ReadCommand ==
    /\ dpc = "check"
    /\ startStopQueue # <<>>
    /\ startStopQueue' = Tail(startStopQueue)
    /\ started' = (Head(startStopQueue) = "START")
    /\ dpc' = IF Head(startStopQueue) = "START" THEN "setting" ELSE "check"
    /\ UNCHANGED <<session, config, control, cam_on, settingsQueue, frame_config, buf,
                   exhausted, failed>>

KeepStreaming ==
    /\ dpc = "check"
    /\ startStopQueue = <<>> /\ started
    /\ dpc' = "setting"
    /\ UNCHANGED <<session, config, control, cam_on, startStopQueue, settingsQueue, started,
                   frame_config, buf, exhausted, failed>>

NoSettings ==
    /\ dpc = "setting"
    /\ settingsQueue = <<>>
    /\ dpc' = "loop"
    /\ UNCHANGED <<session, config, control, cam_on, startStopQueue, settingsQueue, started,
                   frame_config, buf, exhausted, failed>>

\* A run that fails is followed by another one, which starts stopped.
Restart == dpc' = "check" /\ started' = FALSE

\* Faulty variant of UpdateFrameConfig: a rate of zero is found before the
\* configuration is stored, and after the buffer is replaced.
UpdateUnlessZero(c) ==
    /\ buf' = IF c.max_len = frame_config.max_len THEN buf ELSE c.max_len
    /\ IF c.fps = 0
       THEN Restart /\ UNCHANGED frame_config
       ELSE dpc' = "loop" /\ frame_config' = c /\ UNCHANGED started
    /\ UNCHANGED exhausted

\* Faulty variant of UpdateFrameConfig: the old buffer is kept.
UpdateKeepsBuffer(c) ==
    /\ frame_config' = c
    /\ IF c.fps = 0 THEN Restart ELSE dpc' = "loop" /\ UNCHANGED started
    /\ UNCHANGED <<buf, exhausted>>

\* The buffer is replaced, then the configuration stored, then the rate looked
\* at.
UpdateFrameConfig(c) ==
    /\ buf' = IF c.max_len = frame_config.max_len THEN buf ELSE c.max_len
    /\ frame_config' = c
    /\ IF c.fps = 0 THEN Restart ELSE dpc' = "loop" /\ UNCHANGED started
    /\ UNCHANGED exhausted

\* The old buffer is free by then, and the configuration is not stored.
AllocationFails(c) ==
    /\ c.max_len # frame_config.max_len
    /\ buf' = NoBuf
    /\ exhausted' = TRUE
    /\ Restart
    /\ UNCHANGED frame_config

ReadSettings ==
    /\ dpc = "setting"
    /\ settingsQueue # <<>>
    /\ settingsQueue' = Tail(settingsQueue)
    /\ UpdateFrameConfig(Head(settingsQueue)) \/ AllocationFails(Head(settingsQueue))
    /\ UNCHANGED <<session, config, control, cam_on, startStopQueue, failed>>

\* espfsp_data_proto_handle_send: the callback send_frame is asked for a frame,
\* which is sent if there is one.
SendFrame ==
    /\ dpc = "loop"
    /\ dpc' = "check"
    /\ UNCHANGED <<session, config, control, cam_on, startStopQueue, settingsQueue, started,
                   frame_config, buf, exhausted, failed>>

SendFrameFails ==
    /\ dpc = "loop"
    /\ Restart
    /\ UNCHANGED <<session, config, control, cam_on, startStopQueue, settingsQueue,
                   frame_config, buf, exhausted, failed>>

-----------------------------------------------------------------------------
Message == SessionAck \/ StartStream \/ StopStream \/ \E c \in Configs : FrameSet(c)

NextCall ==
    \/ \E on \in BOOLEAN : CallCam(on)
    \/ SendCommand("start", "START") \/ SendCommand("stop", "STOP")
    \/ ResetSettings \/ SendSettings

ControlTask ==
    \/ Connect \/ QueueInit \/ NothingToDo \/ SendInit \/ NoAction
    \/ ConnectionStop \/ NextCall

DataTask ==
    \/ ReadCommand \/ KeepStreaming \/ NoSettings \/ ReadSettings
    \/ SendFrame \/ SendFrameFails

Next == RunFails \/ PeerGone \/ Message \/ ControlTask \/ DataTask

Spec == Init /\ [][Next]_vars

-----------------------------------------------------------------------------
(* Properties                                                              *)

\* What the data task does once it has read its commands.
Commanded ==
    IF startStopQueue = <<>> THEN started
    ELSE startStopQueue[Len(startStopQueue)] = "START"

\* The camera is started before the data task is told and stopped after it, in
\* every handler and whichever call fails: with its commands read, the data task
\* never asks a camera that is off for frames, and a camera the session counts
\* as started is on.
CameraOutlivesStream == Commanded \/ camera_started => cam_on

\* Any buffer there is has the length the send_frame callback is told as
\* max_allowed_size, through changes of the configuration, failed allocations
\* and restarts of the data task.
BufferMatchesLimit == buf \in {NoBuf, frame_config.max_len}

\* The configuration last set by the server is on its way to the data task or
\* has arrived, though an older one may be thrown away unread, the data task may
\* restart, and a rate of zero is refused.  Only a failed allocation loses it.
SettingsReachTask ==
    todo = <<>> =>
        IF settingsQueue = <<>> THEN frame_config = config \/ exhausted
        ELSE settingsQueue[Len(settingsQueue)] = config

\* A client that connects again has nothing left of its last session, if no
\* connection with a session has ended with an error: no flag is set, the camera
\* is off and the data task is or will be stopped.
CleanAfterLoss ==
    ctl = "connect" /\ ~failed =>
        ~active /\ ~camera_started /\ ~cam_on /\ ~Commanded

\* What the comment on `active' in state_def.h, "Session initiated", and the
\* task's "Shut down socket and restart..." imply: a client that starts over has
\* not got a session already, and can ask for one.
CanStartOver == ctl = "connect" => ~active /\ InitFits

=============================================================================
