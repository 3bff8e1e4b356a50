----------------------------- MODULE StreamPath -----------------------------
(***************************************************************************)
(* The way of a stream through the server: the cameras, the receiver       *)
(* buffer the receiving data task fills and the sending one empties, and   *)
(* the requests of the play client that start, stop and redirect it        *)
(* (server/espfsp_comm_proto_handlers.c, espfsp_data_proto.c,              *)
(* espfsp_message_buffer.c, espfsp_params_map.c).                          *)
(*                                                                         *)
(* ServerSessions has the sessions, and of the data tasks only whether they *)
(* run.  Here a session is either there or not, and what the handlers do   *)
(* to the data tasks, the buffer and the cameras is followed to its end:   *)
(* the commands and settings a data task reads between two rounds, the     *)
(* buffer freed and made anew at a START, the START and STOP on their way  *)
(* to a camera.  Memory allocations succeed.                               *)
(*                                                                         *)
(* When a handler fails, the run of the play client ends without a          *)
(* callback, and another play client takes its place at once.  When its    *)
(* connection is lost, the callback makes the calls of StopStream in the   *)
(* same order.                                                             *)
(* Of a camera only its control task is here, which reads and answers; its *)
(* data task is in PushClient.                                             *)
(***************************************************************************)
EXTENDS Naturals, Sequences, SequencesExt

CONSTANTS
    Cameras,
    FirstSource,     \* the one the play client has chosen at the beginning
    RateSpan,        \* 2^16: the frame rate is an uint16_t
    Settings,        \* pairs of a parameter and a value a play client sets
    DefaultRate,     \* fps of the configuration of the server,
    DefaultBefore,   \* and its fb_in_buffer_before_get
    LinkLen,         \* messages on their way to a camera
    StartStopLen,    \* QUEUE_MAX_SIZE of a data_proto
    MaxRequests,     \* bound: requests of the play client
    MaxFailures      \* bound: connections of cameras lost and runs failed

ASSUME RatesAssumption ==
    /\ RateSpan \in Nat \ {0, 1}
    /\ Settings \subseteq {"fps", "before"} \X Nat
    /\ DefaultRate \in 1 .. RateSpan - 1 /\ DefaultBefore \in 0 .. RateSpan - 1
ASSUME LimitsAssumption ==
    /\ LinkLen \in Nat \ {0} /\ StartStopLen \in Nat \ {0}
    /\ MaxRequests \in Nat /\ MaxFailures \in Nat

NoCamera == "none"     \* NULL
Viewer == "viewer"
ASSUME CamerasAssumption ==
    FirstSource \in Cameras /\ NoCamera \notin Cameras /\ Viewer \notin Cameras

Tasks == {"push", "play"}            \* the data tasks: receiving and sending
Actors == Cameras \cup {Viewer}      \* the connections whose tasks run handlers
Rates == 0 .. RateSpan - 1
NoSettings == RateSpan

VARIABLES
    conn,            \* of a camera: up, lost without the server knowing, or down
    camStarted,      \* stream_started of the cameras' sessions
    viewStarted,     \* and of the play client's
    primary,         \* primary_push_session
    config,          \* frame_config of the cameras' sessions
    todo,            \* calls a handler still has to make
    link,            \* messages on their way to a camera
    camOn,           \* camera_started in the session data of the cameras
    buffer,          \* rate and state of the receiver buffer
    startStopQueue,
    settingsQueue,   \* the settings waiting, if any
    at,              \* where in its round a data task is
    started,         \* its `started'
    rate,            \* its frame_config.fps, and unless zero its interval
    caught,          \* the buffer was not there all the time the round used it
    down,            \* the server has stopped for good
    zeroAsked,       \* history: a play client has asked for a rate of zero
    missed,          \* history: a command was not given or came in the wrong order
    upset,           \* history: since the last START a call or a run has failed,
                     \* or commands have come in the wrong order
    requests, failures \* counted up to the bounds

sessionVars == <<camStarted, viewStarted, primary, config>>
cameraVars == <<conn, link, camOn>>
taskVars == <<at, started, rate, caught>>
queueVars == <<startStopQueue, settingsQueue>>
histories == <<zeroAsked, missed, upset>>
counters == <<requests, failures>>
vars == <<sessionVars, cameraVars, taskVars, queueVars, buffer, todo, down,
          histories, counters>>

Commands == {"START", "STOP"}
Messages == Commands \cup {"PARAMS"}    \* to a camera

Calls ==
    [call : {"deinit", "notify"}]
        \cup [call : {"init"}, rate : Rates]
        \cup [call : {"settings"}, to : Tasks, rate : Rates]
        \cup [call : {"data"}, to : Tasks, cmd : Commands]
        \cup [call : {"send"}, to : Cameras, cmd : Messages]

TypeOK ==
    /\ conn \in [Cameras -> {"up", "lost", "down"}]
    /\ camStarted \in [Cameras -> BOOLEAN] /\ viewStarted \in BOOLEAN
    /\ primary \in Cameras \cup {NoCamera}
    /\ config \in [Cameras -> [fps : Rates, before : Rates]]
    /\ \A a \in Actors : \A i \in DOMAIN todo[a] : todo[a][i] \in Calls
    /\ \A c \in Cameras : link[c] \in SeqOf(Messages, LinkLen)
    /\ camOn \in [Cameras -> BOOLEAN]
    /\ buffer \in [rate : Rates, there : BOOLEAN]
    /\ \A d \in Tasks : startStopQueue[d] \in SeqOf(Commands, StartStopLen)
    /\ settingsQueue \in [Tasks -> Rates \cup {NoSettings}]
    /\ at \in [Tasks -> {"check", "setting", "loop"}]
    /\ started \in [Tasks -> BOOLEAN] /\ caught \in [Tasks -> BOOLEAN]
    /\ rate \in [Tasks -> Rates]
    /\ down \in {"no", "division", "fault"}
    /\ zeroAsked \in BOOLEAN /\ missed \in BOOLEAN /\ upset \in BOOLEAN
    /\ requests \in 0 .. MaxRequests /\ failures \in 0 .. MaxFailures

\* default_frame_config, which every session starts with.
DefaultConfig == [fps |-> DefaultRate, before |-> DefaultBefore]

\* create_new_server: the receiver buffer and the data protocols are made for
\* the same configuration.  All cameras have sessions, and the play client has
\* chosen one of them.
Init ==
    /\ conn = [c \in Cameras |-> "up"]
    /\ camStarted = [c \in Cameras |-> FALSE] /\ viewStarted = FALSE
    /\ primary = FirstSource
    /\ config = [c \in Cameras |-> DefaultConfig]
    /\ todo = [a \in Actors |-> <<>>]
    /\ link = [c \in Cameras |-> <<>>]
    /\ camOn = [c \in Cameras |-> FALSE]
    /\ buffer = [rate |-> DefaultRate, there |-> TRUE]
    /\ startStopQueue = [d \in Tasks |-> <<>>]
    /\ settingsQueue = [d \in Tasks |-> NoSettings]
    /\ at = [d \in Tasks |-> "check"]
    /\ started = [d \in Tasks |-> FALSE]
    /\ rate = [d \in Tasks |-> DefaultRate]
    /\ caught = [d \in Tasks |-> FALSE]
    /\ down = "no"
    /\ zeroAsked = FALSE /\ missed = FALSE /\ upset = FALSE
    /\ requests = 0 /\ failures = 0

-----------------------------------------------------------------------------
Live(c) == conn[c] # "down"

\* The slot is given back once the callback for a lost connection returns.
Active(c) == Live(c) \/ todo[c] # <<>>

Send(c, cmd) == [call |-> "send", to |-> c, cmd |-> cmd]
Data(d, cmd) == [call |-> "data", to |-> d, cmd |-> cmd]
NewRate(d, r) == [call |-> "settings", to |-> d, rate |-> r]

\* What a handler or a callback of a does once it has released the mutex.
Then(a, calls) == todo' = [todo EXCEPT ![a] = calls]

\* A command is still to be given to a data task or a camera.
IsCommand(c) == c.call \in {"data", "send"} /\ c.cmd \in Commands
Commanding(a) == \E i \in DOMAIN todo[a] : IsCommand(todo[a][i])

\* If another handler is not done with its commands yet, theirs get mixed.
Race(a) == \E b \in Actors \ {a} : Commanding(b)

-----------------------------------------------------------------------------
(* Requests of the play client, which has a session.                       *)

Request ==
    /\ todo[Viewer] = <<>>
    /\ requests < MaxRequests
    /\ requests' = requests + 1
    /\ UNCHANGED <<cameraVars, taskVars, queueVars, buffer, down, failures>>

Watching == Request /\ primary # NoCamera /\ Live(primary)

\* Faulty variant of MaySwitch: the flags only have to agree.
MaySwitchStreaming ==
    primary # NoCamera => Live(primary) /\ camStarted[primary] = viewStarted

MaySwitch ==
    primary # NoCamera => Live(primary) /\ ~camStarted[primary] /\ ~viewStarted

SourceSet(c) ==
    /\ Request
    /\ MaySwitch
    /\ Active(c)
    /\ primary' = c
    /\ UNCHANGED <<camStarted, viewStarted, config, todo, histories>>

\* Faulty variant of FrameConfig: two ids are swapped in frame_param_map.
FrameConfigSwapped(c, param, value) ==
    [config EXCEPT ![c] = IF param = "fps"
                          THEN [@ EXCEPT !.before = value % RateSpan]
                          ELSE [@ EXCEPT !.fps = value % RateSpan]]

\* espfsp_params_map_set_frame_config.  The other two parameters, of which the
\* handlers make what they make of fps, are left out.
FrameConfig(c, param, value) ==
    [config EXCEPT ![c] = [@ EXCEPT ![param] = value % RateSpan]]

\* Faulty variant of FrameCalls: the sending data task is not told.
FrameCallsCameraOnly(c, r) == <<Send(c, "PARAMS")>>

FrameCalls(c, r) == <<Send(c, "PARAMS"), NewRate("play", r)>>

\* The parameter goes to the camera and the configuration to the sending data
\* task, whether or not there is a stream.  The receiving one is not told, and
\* the buffer stays as it is.
FrameSet(param, value) ==
    /\ Watching
    /\ config' = FrameConfig(primary, param, value)
    /\ Then(Viewer, FrameCalls(primary, config'[primary].fps))
    /\ zeroAsked' = (zeroAsked \/ (param = "fps" /\ value % RateSpan = 0))
    /\ UNCHANGED <<camStarted, viewStarted, primary, missed, upset>>

\* The buffer was made with 0 for fb_in_buffer_before_get.
BufferDiffers(c) == config[c].before # 0 \/ config[c].fps # buffer.rate

\* Faulty variant of StartCalls: the play data task is not started.
StartCallsPushOnly(c, r) ==
    (IF BufferDiffers(c) THEN <<[call |-> "deinit"], [call |-> "init", rate |-> r]>>
                         ELSE <<>>)
        \o <<NewRate("push", r), NewRate("play", r), Data("push", "START"),
             Send(c, "START")>>

StartCalls(c, r) ==
    (IF BufferDiffers(c) THEN <<[call |-> "deinit"], [call |-> "init", rate |-> r]>>
                         ELSE <<>>)
        \o <<NewRate("push", r), NewRate("play", r),
             Data("push", "START"), Data("play", "START"), Send(c, "START")>>

StartStream ==
    /\ Watching
    /\ ~camStarted[primary] /\ ~viewStarted
    /\ camStarted' = [camStarted EXCEPT ![primary] = TRUE]
    /\ viewStarted' = TRUE
    /\ Then(Viewer, StartCalls(primary, config[primary].fps))
    /\ missed' = (missed \/ Race(Viewer))
    /\ upset' = Race(Viewer)
    /\ UNCHANGED <<primary, config, zeroAsked>>

\* Faulty variant of StopCalls: the play data task is not stopped.
StopCallsPushOnly(c) == <<Send(c, "STOP"), Data("push", "STOP")>>

StopCalls(c) == <<Send(c, "STOP"), Data("push", "STOP"), Data("play", "STOP")>>

StopStream ==
    /\ Watching
    /\ camStarted[primary] /\ viewStarted
    /\ camStarted' = [camStarted EXCEPT ![primary] = FALSE]
    /\ viewStarted' = FALSE
    /\ Then(Viewer, StopCalls(primary))
    /\ missed' = (missed \/ Race(Viewer))
    /\ upset' = (upset \/ Race(Viewer))
    /\ UNCHANGED <<primary, config, zeroAsked>>

-----------------------------------------------------------------------------
(* The cameras and their connections.                                      *)

CameraReads(c) ==
    /\ conn[c] = "up"
    /\ link[c] # <<>>
    /\ camOn' = IF Head(link[c]) \in Commands
                THEN [camOn EXCEPT ![c] = Head(link[c]) = "START"] ELSE camOn
    /\ link' = [link EXCEPT ![c] = Tail(@)]
    /\ UNCHANGED <<conn, sessionVars, taskVars, queueVars, buffer, todo, down,
                   histories, counters>>

\* The camera stops its data task as soon as it finds the connection lost, and
\* what was on its way is lost.
CameraLoses(c) ==
    /\ conn[c] = "up"
    /\ failures < MaxFailures
    /\ failures' = failures + 1
    /\ conn' = [conn EXCEPT ![c] = "lost"]
    /\ camOn' = [camOn EXCEPT ![c] = FALSE]
    /\ link' = [link EXCEPT ![c] = <<>>]
    /\ UNCHANGED <<sessionVars, taskVars, queueVars, buffer, todo, down,
                   histories, requests>>

Deactivate(c) ==
    /\ conn' = [conn EXCEPT ![c] = "down"]
    /\ primary' = IF primary = c THEN NoCamera ELSE primary

Streams(c) == primary = c /\ camStarted[c]

\* espfsp_server_connection_stop of a camera that does not stream.
ConnectionStopIdle(c) ==
    /\ conn[c] = "lost"
    /\ ~Streams(c)
    /\ Deactivate(c)
    /\ UNCHANGED <<link, camOn, camStarted, viewStarted, config, taskVars, queueVars,
                   buffer, todo, down, histories, counters>>

ConnectionStop(c) ==
    /\ conn[c] = "lost"
    /\ Streams(c)
    /\ camStarted' = [camStarted EXCEPT ![c] = FALSE]
    /\ viewStarted' = FALSE
    /\ Deactivate(c)
    /\ Then(c, <<[call |-> "notify"], Data("push", "STOP"), Data("play", "STOP")>>)
    /\ missed' = (missed \/ Race(c))
    /\ upset' = (upset \/ Race(c))
    /\ UNCHANGED <<link, camOn, config, taskVars, queueVars, buffer, down, zeroAsked, counters>>

\* A camera connects to the slot and gets a session.  What was left in the
\* queue of the slot names another session: see ControlLink.
CameraConnects(c) ==
    /\ ~Active(c)
    /\ conn' = [conn EXCEPT ![c] = "up"]
    /\ link' = [link EXCEPT ![c] = <<>>]
    /\ camStarted' = [camStarted EXCEPT ![c] = FALSE]
    /\ config' = [config EXCEPT ![c] = DefaultConfig]
    /\ UNCHANGED <<camOn, viewStarted, primary, taskVars, queueVars, buffer, todo, down,
                   histories, counters>>

-----------------------------------------------------------------------------
(* Calls made after the mutex is released.                                 *)

Calling(a, call) == todo[a] # <<>> /\ Head(todo[a]).call = call
CallDone(a) == todo' = [todo EXCEPT ![a] = Tail(@)]

\* The callback for a camera ends with the first call that fails.  A handler
\* fails with it and the run with the handler; the session of the next play client
\* begins without a stream, while that of the camera keeps its flag.
CallFails(a) ==
    /\ Then(a, <<>>)
    /\ viewStarted' = IF a = Viewer THEN FALSE ELSE viewStarted
    /\ missed' = (missed \/ Commanding(a))
    /\ upset' = TRUE
    /\ UNCHANGED zeroAsked

\* espfsp_message_buffer_deinit, whether or not a data task uses the buffer.
Deinit ==
    /\ Calling(Viewer, "deinit")
    /\ buffer' = [buffer EXCEPT !.there = FALSE]
    /\ caught' = [d \in Tasks |-> at[d] = "loop"]
    /\ CallDone(Viewer)
    /\ UNCHANGED <<sessionVars, cameraVars, at, started, rate, queueVars, down,
                   histories, counters>>

\* espfsp_message_buffer_init divides by the rate.
InitBuffer ==
    /\ Calling(Viewer, "init")
    /\ LET r == Head(todo[Viewer]).rate IN
       IF r = 0
       THEN /\ down' = "division"
            /\ UNCHANGED <<buffer, todo>>
       ELSE /\ buffer' = [rate |-> r, there |-> TRUE]
            /\ CallDone(Viewer)
            /\ UNCHANGED down
    /\ UNCHANGED <<sessionVars, cameraVars, taskVars, queueVars, histories, counters>>

\* espfsp_data_proto_set_frame_params replaces settings not read yet.
SetFrameParams ==
    /\ Calling(Viewer, "settings")
    /\ LET c == Head(todo[Viewer]) IN settingsQueue' = [settingsQueue EXCEPT ![c.to] = c.rate]
    /\ CallDone(Viewer)
    /\ UNCHANGED <<sessionVars, cameraVars, taskVars, startStopQueue, buffer, down,
                   histories, counters>>

\* Faulty variant of CommandFits: one command more than there is room for.
CommandAlwaysFits(d) == Len(startStopQueue[d]) <= StartStopLen

CommandFits(d) == Len(startStopQueue[d]) < StartStopLen

\* espfsp_data_proto_start and espfsp_data_proto_stop
InsertCommand(a) ==
    /\ Calling(a, "data")
    /\ LET c == Head(todo[a]) IN
       IF CommandFits(c.to)
       THEN /\ startStopQueue' = [startStopQueue EXCEPT ![c.to] = Append(@, c.cmd)]
            /\ CallDone(a)
            /\ UNCHANGED <<viewStarted, histories>>
       ELSE /\ CallFails(a)
            /\ UNCHANGED startStopQueue
    /\ UNCHANGED <<camStarted, primary, config, cameraVars, taskVars, settingsQueue,
                   buffer, down, counters>>

InsertAction ==
    /\ Calling(Viewer, "send")
    /\ LET c == Head(todo[Viewer]) IN
       IF Len(link[c.to]) < LinkLen
       THEN /\ link' = [link EXCEPT ![c.to] = Append(@, c.cmd)]
            /\ CallDone(Viewer)
            /\ UNCHANGED <<viewStarted, histories>>
       ELSE /\ CallFails(Viewer)
            /\ UNCHANGED link
    /\ UNCHANGED <<camStarted, primary, config, conn, camOn, taskVars, queueVars,
                   buffer, down, counters>>

\* The play client is told, if it has a session and its queue has room.
Notify(c) ==
    /\ Calling(c, "notify")
    /\ \/ CallDone(c) /\ UNCHANGED <<viewStarted, histories>>
       \/ CallFails(c)
    /\ UNCHANGED <<camStarted, primary, config, cameraVars, taskVars, queueVars,
                   buffer, down, counters>>

-----------------------------------------------------------------------------
(* A data task: espfsp_data_proto_run.                                     *)

TaskGoes(d, where) == at' = [at EXCEPT ![d] = where]

ReadCommand(d) ==
    /\ at[d] = "check"
    /\ startStopQueue[d] # <<>>
    /\ LET cmd == Head(startStopQueue[d]) IN
       /\ started' = [started EXCEPT ![d] = cmd = "START"]
       /\ TaskGoes(d, IF cmd = "START" THEN "setting" ELSE "check")
    /\ startStopQueue' = [startStopQueue EXCEPT ![d] = Tail(@)]
    /\ UNCHANGED <<sessionVars, cameraVars, rate, caught, settingsQueue, buffer, todo,
                   down, histories, counters>>

NoCommand(d) ==
    /\ at[d] = "check"
    /\ startStopQueue[d] = <<>>
    /\ started[d]
    /\ TaskGoes(d, "setting")
    /\ UNCHANGED <<sessionVars, cameraVars, started, rate, caught, queueVars, buffer,
                   todo, down, histories, counters>>

\* The settings waiting, if any, are taken over: update_frame_config.
Setting(d) ==
    /\ at[d] = "setting"
    /\ settingsQueue[d] # 0
    /\ rate' = IF settingsQueue[d] = NoSettings THEN rate
               ELSE [rate EXCEPT ![d] = settingsQueue[d]]
    /\ settingsQueue' = [settingsQueue EXCEPT ![d] = NoSettings]
    /\ caught' = [caught EXCEPT ![d] = ~buffer.there]
    /\ TaskGoes(d, "loop")
    /\ UNCHANGED <<sessionVars, cameraVars, started, startStopQueue, buffer, todo, down,
                   histories, counters>>

\* update_frame_config stores the settings before it refuses their rate of zero,
\* and the run ends.  The next run has forgotten that it was started.
SettingFails(d) ==
    /\ at[d] = "setting"
    /\ settingsQueue[d] = 0
    /\ rate' = [rate EXCEPT ![d] = 0]
    /\ settingsQueue' = [settingsQueue EXCEPT ![d] = NoSettings]
    /\ started' = [started EXCEPT ![d] = FALSE]
    /\ TaskGoes(d, "check")
    /\ upset' = TRUE
    /\ UNCHANGED <<sessionVars, cameraVars, caught, startStopQueue, buffer, todo, down,
                   zeroAsked, missed, counters>>

RoundDone(d) ==
    /\ at[d] = "loop"
    /\ caught' = [caught EXCEPT ![d] = FALSE]
    /\ TaskGoes(d, "check")
    /\ UNCHANGED <<sessionVars, cameraVars, started, rate, queueVars, buffer, todo, down,
                   histories, counters>>

\* The run fails on its socket, or on what a buffer that has gone looks like
\* to it.
RunFails(d) ==
    /\ at[d] = "loop"
    /\ started' = [started EXCEPT ![d] = FALSE]
    /\ caught' = [caught EXCEPT ![d] = FALSE]
    /\ TaskGoes(d, "check")
    /\ upset' = TRUE
    /\ failures < MaxFailures
    /\ failures' = failures + 1
    /\ UNCHANGED <<sessionVars, cameraVars, rate, queueVars, buffer, todo, down,
                   zeroAsked, missed, requests>>

\* Memory that has been freed is used.
Faults(d) ==
    /\ caught[d]
    /\ down' = "fault"
    /\ UNCHANGED <<sessionVars, cameraVars, taskVars, queueVars, buffer, todo,
                   histories, counters>>

-----------------------------------------------------------------------------
ViewerRequests ==
    \/ \E c \in Cameras : SourceSet(c)
    \/ \E s \in Settings : FrameSet(s[1], s[2])
    \/ StartStream \/ StopStream

NextCall(a) ==
    \/ InsertCommand(a)
    \/ a = Viewer /\ (Deinit \/ InitBuffer \/ SetFrameParams \/ InsertAction)
    \/ a # Viewer /\ Notify(a)

Camera(c) == CameraReads(c) \/ ConnectionStopIdle(c) \/ ConnectionStop(c)

DataTask(d) ==
    ReadCommand(d) \/ NoCommand(d) \/ Setting(d) \/ SettingFails(d) \/ RoundDone(d)

Next ==
    /\ down = "no"
    /\ \/ ViewerRequests
       \/ \E a \in Actors : NextCall(a)
       \/ \E c \in Cameras : Camera(c) \/ CameraLoses(c) \/ CameraConnects(c)
       \/ \E d \in Tasks : DataTask(d) \/ RunFails(d) \/ Faults(d)

Spec == Init /\ [][Next]_vars

\* Every task runs.  A round of a data task ends: receiving and waiting for a
\* frame have time limits.
Fairness ==
    /\ \A a \in Actors : WF_vars(down = "no" /\ NextCall(a))
    /\ \A c \in Cameras : WF_vars(down = "no" /\ Camera(c))
    /\ \A d \in Tasks : WF_vars(down = "no" /\ DataTask(d))

FairSpec == Spec /\ Fairness

-----------------------------------------------------------------------------
(* Properties                                                              *)

\* A data task that uses the receiver buffer while START_STREAM replaces it
\* has a STOP of the stream before waiting for it: nothing but the delay in
\* reading it brings the task and the replacement together, unless a STOP was
\* not given, for want of room, or two handlers mixed their calls.  No handler
\* waits for the task to read it.
OnlyStoppingTasksAreCaught ==
    \A d \in Tasks : caught[d] => "STOP" \in Range(startStopQueue[d]) \/ missed

\* Frames of two cameras are not mixed for long: a camera that sends frames
\* and is not the one streaming has a STOP on its way, also when the source was
\* changed and the new one started before the old one has read its STOP.
OldCameraIsStopped ==
    \A c \in Cameras : camOn[c] /\ ~Streams(c) =>
        \/ conn[c] # "up"
        \/ "STOP" \in Range(link[c])
        \/ Send(c, "STOP") \in Range(todo[Viewer])
        \/ missed

\* The data task has been told all there is to tell it, and has read it.
Settled(d) ==
    /\ settingsQueue[d] = NoSettings
    /\ \A r \in Rates : NewRate(d, r) \notin Range(todo[Viewer])

\* The two halves of the server keep to different rates on purpose.  The
\* receiving data task works at the rate its buffer was made for, that of the
\* last START_STREAM, whatever was set since.  During a stream the sending one
\* works at the rate FRAME_GET_PARAMS answers, that of the session, whatever
\* rates were set, cameras chosen or connections lost.  Excepted is only what a
\* handler has not told yet; one that fails ends the stream for its play client.
RatesAgree ==
    /\ Settled("push") => rate["push"] = buffer.rate
    /\ viewStarted /\ Settled("play") => rate["play"] = config[primary].fps

\* The division by the frame rate fails, or a data task ends for its rate of
\* zero, only if some play client has asked for a rate that is zero as an
\* uint16_t; the rate of a session is otherwise one asked for or the default.
ZeroRateWasAsked == down = "division" \/ (\E d \in Tasks : rate[d] = 0) => zeroAsked

Flowing ==
    /\ primary # NoCamera
    /\ camOn[primary]
    /\ \A d \in Tasks : started[d]

\* A stream that stays on flows in the end as far as the server can bring it
\* about: the camera has been started and both data tasks run, whatever went
\* wrong before its START.  What goes wrong after it, such as a data task that
\* restarts or a rate of zero that ends its run, is not made up for.
StreamFlows ==
    <>[]((\E c \in Cameras : Streams(c)) /\ viewStarted /\ ~upset /\ down = "no"
         /\ (\A c \in Cameras : conn[c] = "up"))
        => <>[]Flowing

=============================================================================
