-------------------------- MODULE PushClientProofs --------------------------
(***************************************************************************)
(* Type correctness of PushClient, that its camera outlives its stream,    *)
(* that its buffer has the length frames may have, that settings reach the *)
(* data task and that a lost connection leaves nothing behind, for any     *)
(* configurations and any queue lengths.                                   *)
(***************************************************************************)
EXTENDS PushClient, TLAPS, SequenceTheorems

SessionType ==
    /\ active \in BOOLEAN /\ camera_started \in BOOLEAN
    /\ pending \in 0 .. ActionQueueLen
    /\ config \in Configs
    /\ cam_on \in BOOLEAN
    /\ failed \in BOOLEAN

CommandsType ==
    /\ startStopQueue \in Seq({"START", "STOP"})
    /\ Len(startStopQueue) <= QueueLen

SettingsType ==
    /\ settingsQueue \in Seq(Configs)
    /\ Len(settingsQueue) <= QueueLen

DataType ==
    /\ dpc \in {"check", "setting", "loop"}
    /\ started \in BOOLEAN
    /\ frame_config \in Configs
    /\ buf \in Lens \cup {NoBuf}
    /\ exhausted \in BOOLEAN

\* Where a handler is in its calls: what is left of them tells what has been
\* done, in particular that the stop is queued when only stop_cam is left.
Progress ==
    \/ ctl \in {"connect", "connected", "listen", "action", "closed"} /\ todo = <<>>
    \/ ctl = "start" /\ todo = <<"start_cam", "reset", "settings", "start">>
    \/ ctl = "start" /\ todo = <<"reset", "settings", "start">> /\ cam_on
    \/ ctl = "start" /\ todo = <<"settings", "start">> /\ cam_on
    \/ ctl = "start" /\ todo = <<"start">> /\ cam_on
    \/ ctl \in {"stop", "lost"} /\ todo = <<"stop", "stop_cam">>
    \/ ctl \in {"stop", "lost"} /\ todo = <<"stop_cam">> /\ ~Commanded
    \/ ctl = "set" /\ todo = <<"reset", "settings">>
    \/ ctl = "set" /\ todo = <<"settings">>

IInv ==
    /\ SessionType /\ CommandsType /\ SettingsType /\ DataType
    /\ Progress /\ CameraOutlivesStream

-----------------------------------------------------------------------------
(* The progress of a handler from call to call.                            *)

\* What is left after the first of several calls.
LEMMA Tails ==
    /\ Tail(<<"start_cam", "reset", "settings", "start">>) = <<"reset", "settings", "start">>
    /\ Tail(<<"reset", "settings", "start">>) = <<"settings", "start">>
    /\ Tail(<<"settings", "start">>) = <<"start">>
    /\ Tail(<<"stop", "stop_cam">>) = <<"stop_cam">>
    /\ Tail(<<"reset", "settings">>) = <<"settings">>
  OBVIOUS

\* A call that is made is the first of what is left, which tells the handler
\* and what follows.
LEMMA CallCases ==
    ASSUME Progress, NEW call \in Calls, Calling(call)
    PROVE  /\ call = "start_cam" => ctl = "start" /\ Len(todo) = 4
                                    /\ Tail(todo) = <<"reset", "settings", "start">>
           /\ call = "start" => ctl = "start" /\ Len(todo) = 1 /\ cam_on
           /\ call = "stop" => ctl \in {"stop", "lost"} /\ Len(todo) = 2
                               /\ Tail(todo) = <<"stop_cam">>
           /\ call = "stop_cam" => ctl \in {"stop", "lost"} /\ Len(todo) = 1 /\ ~Commanded
           /\ call = "reset" =>
                \/ ctl = "start" /\ cam_on /\ Len(todo) = 3 /\ Tail(todo) = <<"settings", "start">>
                \/ ctl = "set" /\ Len(todo) = 2 /\ Tail(todo) = <<"settings">>
           /\ call = "settings" =>
                \/ ctl = "start" /\ cam_on /\ Len(todo) = 2 /\ Tail(todo) = <<"start">>
                \/ ctl = "set" /\ Len(todo) = 1
<1>1. todo # <<>> /\ Head(todo) = call
  BY DEF Calling
<1>2. CASE ctl \in {"connect", "connected", "listen", "action", "closed"} /\ todo = <<>>
  BY <1>1, <1>2
<1>3. CASE ctl = "start" /\ todo = <<"start_cam", "reset", "settings", "start">>
  BY <1>1, <1>3, Tails
<1>4. CASE ctl = "start" /\ todo = <<"reset", "settings", "start">> /\ cam_on
  BY <1>1, <1>4, Tails
<1>5. CASE ctl = "start" /\ todo = <<"settings", "start">> /\ cam_on
  BY <1>1, <1>5, Tails
<1>6. CASE ctl = "start" /\ todo = <<"start">> /\ cam_on
  BY <1>1, <1>6
<1>7. CASE ctl \in {"stop", "lost"} /\ todo = <<"stop", "stop_cam">>
  BY <1>1, <1>7, Tails
<1>8. CASE ctl \in {"stop", "lost"} /\ todo = <<"stop_cam">> /\ ~Commanded
  BY <1>1, <1>8
<1>9. CASE ctl = "set" /\ todo = <<"reset", "settings">>
  BY <1>1, <1>9, Tails
<1>10. CASE ctl = "set" /\ todo = <<"settings">>
  BY <1>1, <1>10
<1> QED
  BY <1>2, <1>3, <1>4, <1>5, <1>6, <1>7, <1>8, <1>9, <1>10 DEF Progress

\* A call that succeeds is followed by the next one, or ends the handler.
LEMMA NextCallFollows ==
    ASSUME CallDone, Len(todo) \in Nat, Len(todo) > 1
    PROVE  ctl' = ctl /\ todo' = Tail(todo) /\ UNCHANGED <<active, camera_started>>
  BY Zenon DEF CallDone, Then

LEMMA LastCallEnds ==
    ASSUME CallDone, Len(todo) = 1
    PROVE  /\ ctl' = (IF ctl = "lost" THEN "connect" ELSE "action") /\ todo' = <<>>
           /\ active' \in BOOLEAN
           /\ camera_started' = IF ctl = "set" THEN camera_started ELSE ctl = "start"
<1>1. ~(Len(todo) > 1)
  OBVIOUS
<1>2. /\ ctl' = (IF ctl = "lost" THEN "connect" ELSE "action") /\ todo' = <<>>
      /\ active' = (ctl # "lost")
      /\ camera_started' = IF ctl = "set" THEN camera_started ELSE ctl = "start"
  BY <1>1, Zenon DEF CallDone, Then
<1>3. active' \in BOOLEAN
  BY <1>2, Zenon
<1> QED
  BY <1>2, <1>3

\* A failed call leaves no handler unfinished.
LEMMA FailEnds ==
    ASSUME SessionType, CallFails
    PROVE  /\ active' \in BOOLEAN /\ camera_started' \in BOOLEAN /\ failed' \in BOOLEAN
           /\ camera_started' => camera_started
           /\ Progress'
  BY DEF SessionType, CallFails, Then, Progress

\* A queue after one more command, and after its first one is read.
LEMMA AppendCommand ==
    ASSUME CommandsType, Len(startStopQueue) < QueueLen, NEW cmd \in {"START", "STOP"},
           startStopQueue' = Append(startStopQueue, cmd)
    PROVE  CommandsType' /\ Commanded' = (cmd = "START")
<1>1. /\ startStopQueue' \in Seq({"START", "STOP"})
      /\ Len(startStopQueue') = Len(startStopQueue) + 1
      /\ startStopQueue'[Len(startStopQueue) + 1] = cmd
      /\ Len(startStopQueue) \in Nat
  BY DEF CommandsType
<1>2. startStopQueue' # <<>>
  BY <1>1
<1>3. startStopQueue'[Len(startStopQueue')] = cmd
  BY <1>1
<1>4. Commanded' = (cmd = "START")
  BY <1>2, <1>3, Zenon DEF Commanded
<1>5. CommandsType'
  BY <1>1, QueueLensAssumption DEF CommandsType
<1> QED
  BY <1>4, <1>5

LEMMA ReadKeepsCommanded ==
    ASSUME CommandsType, started \in BOOLEAN, ReadCommand
    PROVE  CommandsType' /\ Commanded' = Commanded
<1>1. /\ startStopQueue # <<>>
      /\ startStopQueue' = Tail(startStopQueue)
      /\ started' = (Head(startStopQueue) = "START")
  BY DEF ReadCommand
<1>2. /\ startStopQueue' \in Seq({"START", "STOP"})
      /\ Len(startStopQueue') = Len(startStopQueue) - 1
      /\ Len(startStopQueue) \in Nat \ {0}
      /\ \A i \in 1 .. Len(startStopQueue) - 1 : startStopQueue'[i] = startStopQueue[i + 1]
  BY <1>1 DEF CommandsType
<1>3. CommandsType'
  BY <1>2, QueueLensAssumption DEF CommandsType
<1>4. CASE Len(startStopQueue) = 1
  <2>1. startStopQueue' = <<>>
    BY <1>2, <1>4
  <2>2. Head(startStopQueue) = startStopQueue[Len(startStopQueue)]
    BY <1>1, <1>4
  <2> QED
    BY <1>1, <1>3, <2>1, <2>2, Zenon DEF Commanded
<1>5. CASE Len(startStopQueue) # 1
  <2>1. startStopQueue' # <<>>
    BY <1>2, <1>5
  <2>2. startStopQueue'[Len(startStopQueue')] = startStopQueue[Len(startStopQueue)]
    BY <1>2, <1>5
  <2> QED
    BY <1>1, <1>3, <2>1, <2>2, Zenon DEF Commanded
<1> QED
  BY <1>4, <1>5

-----------------------------------------------------------------------------
(* Initially, and in every step.                                           *)

LEMMA InitIInv == Init => IInv
<1> SUFFICES ASSUME Init PROVE IInv
  OBVIOUS
<1>1. SessionType
  <2>1. 0 \in 0 .. ActionQueueLen
    BY QueueLensAssumption
  <2> QED
    BY <2>1, InitConfigAssumption, Zenon DEF Init, SessionType
<1>2. Progress
  BY DEF Init, Progress
<1>3. CommandsType /\ SettingsType
  BY QueueLensAssumption DEF Init, CommandsType, SettingsType
<1>4. DataType
  BY InitConfigAssumption DEF Init, DataType, Configs
<1>5. CameraOutlivesStream
  BY DEF Init, CameraOutlivesStream, Commanded
<1> QED
  BY <1>1, <1>2, <1>3, <1>4, <1>5 DEF IInv

\* The control task between handlers, and the start of a handler.
LEMMA ControlStep ==
    ASSUME IInv,
           \/ Connect \/ QueueInit \/ NothingToDo \/ RunFails \/ PeerGone \/ SendInit
           \/ NoAction \/ SessionAck \/ StartStream \/ StopStream \/ ConnectionStop
           \/ \E c \in Configs : FrameSet(c)
    PROVE  IInv'
<1>1. UNCHANGED <<camera_started, cam_on, startStopQueue, settingsQueue, dataTask>>
  BY DEF Connect, QueueInit, NothingToDo, RunFails, PeerGone, SendInit, NoAction, SessionAck,
         StartStream, StopStream, ConnectionStop, FrameSet, session
<1>2. CommandsType' /\ SettingsType' /\ DataType'
  BY <1>1 DEF IInv, CommandsType, SettingsType, DataType, dataTask
<1>3. Commanded' = Commanded /\ CameraOutlivesStream'
  BY <1>1 DEF IInv, Commanded, CameraOutlivesStream, dataTask
<1>4. SessionType'
  <2>1. active' \in BOOLEAN /\ failed' \in BOOLEAN
    BY Zenon
       DEF IInv, SessionType, Connect, QueueInit, NothingToDo, RunFails, PeerGone, SendInit,
           NoAction, SessionAck, StartStream, StopStream, ConnectionStop, FrameSet, session
  <2>2. pending' \in 0 .. ActionQueueLen /\ config' \in Configs
    BY QueueLensAssumption
       DEF IInv, SessionType, Connect, QueueInit, InitFits, NothingToDo, RunFails, PeerGone,
           SendInit, NoAction, SessionAck, StartStream, StopStream, ConnectionStop, FrameSet,
           session
  <2> QED
    BY <1>1, <2>1, <2>2 DEF IInv, SessionType
<1>5. Progress'
  BY DEF IInv, Progress, Connect, QueueInit, NothingToDo, RunFails, PeerGone, SendInit,
         NoAction, SessionAck, StartStream, StopStream, ConnectionStop, FrameSet,
         Goto, Then, StartCalls, StopCalls
<1> QED
  BY <1>2, <1>3, <1>4, <1>5 DEF IInv

LEMMA CamStep ==
    ASSUME IInv, NEW on \in BOOLEAN, CallCam(on)
    PROVE  IInv'
<1>1. UNCHANGED <<pending, config, startStopQueue, settingsQueue, dataTask>>
  BY DEF CallCam
<1>2. CommandsType' /\ SettingsType' /\ DataType'
  BY <1>1 DEF IInv, CommandsType, SettingsType, DataType, dataTask
<1>3. Commanded' = Commanded
  BY <1>1 DEF Commanded, dataTask
<1>4. CASE CallFails /\ UNCHANGED cam_on
  <2>1. SessionType' /\ Progress'
    BY <1>1, <1>4, FailEnds DEF IInv, SessionType
  <2>2. CameraOutlivesStream'
    BY <1>3, <1>4, FailEnds DEF IInv, CameraOutlivesStream
  <2> QED
    BY <1>2, <2>1, <2>2 DEF IInv
<1>5. CASE CallDone /\ cam_on' = on /\ UNCHANGED failed
  <2>1. CASE on
    <3>1. ctl = "start" /\ Len(todo) = 4 /\ Tail(todo) = <<"reset", "settings", "start">>
      BY <2>1, CallCases DEF IInv, CallCam, Calls
    <3> Len(todo) \in Nat /\ Len(todo) > 1
      BY <3>1
    <3>2. /\ ctl' = "start" /\ todo' = <<"reset", "settings", "start">>
          /\ UNCHANGED <<active, camera_started>>
      BY <1>5, <3>1, NextCallFollows, Zenon
    <3>3. Progress'
      BY <1>5, <2>1, <3>2 DEF Progress
    <3>4. SessionType' /\ CameraOutlivesStream'
      BY <1>1, <1>5, <2>1, <3>2 DEF IInv, SessionType, CameraOutlivesStream
    <3> QED
      BY <1>2, <3>3, <3>4 DEF IInv
  <2>2. CASE ~on
    <3>1. ctl \in {"stop", "lost"} /\ Len(todo) = 1 /\ ~Commanded
      BY <2>2, CallCases DEF IInv, CallCam, Calls
    <3>2. /\ ctl' \in {"connect", "action"} /\ todo' = <<>>
          /\ active' \in BOOLEAN /\ camera_started' = FALSE
      BY <1>5, <3>1, NextCallFollows, LastCallEnds
    <3>3. Progress'
      BY <3>2 DEF Progress
    <3>4. SessionType'
      BY <1>1, <1>5, <3>2 DEF IInv, SessionType
    <3>5. CameraOutlivesStream'
      BY <1>3, <3>1, <3>2 DEF CameraOutlivesStream
    <3> QED
      BY <1>2, <3>3, <3>4, <3>5 DEF IInv
  <2> QED
    BY <2>1, <2>2
<1> QED
  BY <1>4, <1>5 DEF CallCam

LEMMA CommandStep ==
    ASSUME IInv, SendCommand("start", "START") \/ SendCommand("stop", "STOP")
    PROVE  IInv'
<1>1. UNCHANGED <<pending, config, cam_on, settingsQueue, dataTask>>
  BY DEF SendCommand
<1>2. SettingsType' /\ DataType'
  BY <1>1 DEF IInv, SettingsType, DataType, dataTask
<1>3. CASE CallFails /\ UNCHANGED startStopQueue
  <2>1. SessionType' /\ Progress'
    BY <1>1, <1>3, FailEnds DEF IInv, SessionType
  <2>2. Commanded' = Commanded /\ CommandsType'
    BY <1>1, <1>3 DEF IInv, Commanded, CommandsType, dataTask
  <2>3. CameraOutlivesStream'
    BY <1>1, <1>3, <2>2, FailEnds DEF IInv, CameraOutlivesStream
  <2> QED
    BY <1>2, <2>1, <2>2, <2>3 DEF IInv
<1>4. CASE /\ SendCommand("start", "START")
           /\ Len(startStopQueue) < QueueLen
           /\ startStopQueue' = Append(startStopQueue, "START")
           /\ CallDone /\ UNCHANGED failed
  <2>1. ctl = "start" /\ Len(todo) = 1 /\ cam_on
    BY <1>4, CallCases DEF IInv, SendCommand, Calls
  <2>2. /\ ctl' = "action" /\ todo' = <<>>
        /\ active' \in BOOLEAN /\ camera_started' \in BOOLEAN
    BY <1>4, <2>1, LastCallEnds DEF IInv
  <2>3. CommandsType'
    BY <1>4, AppendCommand DEF IInv
  <2> QED
    BY <1>1, <1>2, <1>4, <2>1, <2>2, <2>3
       DEF IInv, SessionType, Progress, CameraOutlivesStream
<1>5. CASE /\ SendCommand("stop", "STOP")
           /\ Len(startStopQueue) < QueueLen
           /\ startStopQueue' = Append(startStopQueue, "STOP")
           /\ CallDone /\ UNCHANGED failed
  <2>1. ctl \in {"stop", "lost"} /\ Len(todo) = 2 /\ Tail(todo) = <<"stop_cam">>
    BY <1>5, CallCases DEF IInv, SendCommand, Calls
  <2> Len(todo) \in Nat /\ Len(todo) > 1
    BY <2>1
  <2>2. /\ ctl' \in {"stop", "lost"} /\ todo' = <<"stop_cam">>
        /\ UNCHANGED <<active, camera_started>>
    BY <1>5, <2>1, NextCallFollows, Zenon
  <2>3. CommandsType' /\ Commanded' = FALSE
    BY <1>5, AppendCommand DEF IInv
  <2>4. Progress'
    BY <2>2, <2>3 DEF Progress
  <2>5. SessionType' /\ CameraOutlivesStream'
    BY <1>1, <1>5, <2>2, <2>3 DEF IInv, SessionType, CameraOutlivesStream
  <2> QED
    BY <1>2, <2>3, <2>4, <2>5 DEF IInv
<1> QED
  BY <1>3, <1>4, <1>5 DEF SendCommand

LEMMA SettingsStep ==
    ASSUME IInv, ResetSettings \/ SendSettings
    PROVE  IInv'
<1>1. UNCHANGED <<pending, config, cam_on, startStopQueue, dataTask>>
  BY DEF ResetSettings, SendSettings
<1>2. CommandsType' /\ DataType' /\ Commanded' = Commanded
  BY <1>1 DEF IInv, CommandsType, DataType, Commanded, dataTask
<1>3. SettingsType'
  <2>1. CASE settingsQueue' = <<>>
    BY <2>1, QueueLensAssumption DEF SettingsType
  <2>2. CASE /\ settingsQueue' = Append(settingsQueue, config)
             /\ Len(settingsQueue) < QueueLen
    BY <2>2, QueueLensAssumption DEF IInv, SessionType, SettingsType
  <2>3. CASE UNCHANGED settingsQueue
    BY <2>3 DEF IInv, SettingsType
  <2> QED
    BY <2>1, <2>2, <2>3 DEF ResetSettings, SendSettings
<1>4. CASE CallFails
  BY <1>1, <1>2, <1>3, <1>4, FailEnds DEF IInv, SessionType, CameraOutlivesStream
<1>5. CASE CallDone /\ UNCHANGED failed
  <2>1. CASE ResetSettings
    <3>1. \/ ctl = "start" /\ cam_on /\ Len(todo) = 3 /\ Tail(todo) = <<"settings", "start">>
          \/ ctl = "set" /\ Len(todo) = 2 /\ Tail(todo) = <<"settings">>
      BY <2>1, CallCases DEF IInv, ResetSettings, Calls
    <3>2. /\ ctl' = ctl /\ todo' = Tail(todo)
          /\ UNCHANGED <<active, camera_started>>
      BY <1>5, <3>1, NextCallFollows, LastCallEnds
    <3>3. Progress'
      BY <1>1, <3>1, <3>2 DEF Progress
    <3>4. SessionType' /\ CameraOutlivesStream'
      BY <1>1, <1>2, <1>5, <3>2 DEF IInv, SessionType, CameraOutlivesStream
    <3> QED
      BY <1>2, <1>3, <3>3, <3>4 DEF IInv
  <2>2. CASE SendSettings
    <3>1. \/ ctl = "start" /\ cam_on /\ Len(todo) = 2 /\ Tail(todo) = <<"start">>
          \/ ctl = "set" /\ Len(todo) = 1
      BY <2>2, CallCases DEF IInv, SendSettings, Calls
    <3>2. ASSUME Len(todo) = 1 PROVE Progress' /\ SessionType' /\ CameraOutlivesStream'
      <4>1. /\ ctl' = "action" /\ todo' = <<>>
            /\ active' \in BOOLEAN /\ UNCHANGED camera_started
        <5>1. ctl = "set"
          BY <3>1, <3>2
        <5> QED
          BY <1>5, <3>2, <5>1, LastCallEnds, Zenon
      <4> QED
        BY <1>1, <1>2, <1>5, <4>1 DEF IInv, SessionType, Progress, CameraOutlivesStream
    <3>3. ASSUME Len(todo) # 1 PROVE Progress' /\ SessionType' /\ CameraOutlivesStream'
      <4>1. /\ ctl = "start" /\ cam_on /\ Tail(todo) = <<"start">>
            /\ Len(todo) \in Nat /\ Len(todo) > 1
        BY <3>1, <3>3
      <4>2. /\ ctl' = "start" /\ todo' = <<"start">>
            /\ UNCHANGED <<active, camera_started>>
        BY <1>5, <4>1, NextCallFollows, Zenon
      <4> QED
        BY <1>1, <1>2, <1>5, <4>1, <4>2 DEF IInv, SessionType, Progress, CameraOutlivesStream
    <3> QED
      BY <1>2, <1>3, <3>2, <3>3 DEF IInv
  <2> QED
    BY <2>1, <2>2
<1> QED
  BY <1>4, <1>5 DEF ResetSettings, SendSettings

\* What the data task leaves alone, and that it only ever stops by itself.
LEMMA DataStep ==
    ASSUME IInv, DataTask
    PROVE  IInv'
<1>1. UNCHANGED <<session, config, control, cam_on, failed>>
  BY DEF DataTask, ReadCommand, KeepStreaming, NoSettings, ReadSettings, SendFrame,
         SendFrameFails
<1>2. SessionType'
  BY <1>1 DEF IInv, SessionType, session
<1>3. CommandsType' /\ (Commanded' => Commanded)
  <2>1. CASE ReadCommand
    BY <2>1, ReadKeepsCommanded DEF IInv, DataType
  <2>2. CASE UNCHANGED startStopQueue /\ (started' => started)
    BY <2>2 DEF IInv, CommandsType, Commanded
  <2> QED
    BY <2>1, <2>2 DEF DataTask, KeepStreaming, NoSettings, ReadSettings, UpdateFrameConfig,
                      AllocationFails, SendFrame, SendFrameFails, Restart
<1>4. Progress' /\ CameraOutlivesStream'
  BY <1>1, <1>3 DEF IInv, Progress, CameraOutlivesStream, session, control
<1>5. SettingsType' /\ DataType'
  <2>1. CASE ReadSettings
    <3>1. /\ Head(settingsQueue) \in Configs
          /\ Tail(settingsQueue) \in Seq(Configs)
          /\ Len(Tail(settingsQueue)) = Len(settingsQueue) - 1
          /\ Len(settingsQueue) \in Nat
      BY <2>1 DEF IInv, SettingsType, ReadSettings
    <3>2. SettingsType'
      BY <2>1, <3>1, QueueLensAssumption DEF IInv, SettingsType, ReadSettings
    <3>3. Head(settingsQueue).max_len \in Lens
      BY <3>1 DEF Configs
    <3>4. DataType'
      BY <2>1, <3>1, <3>3
         DEF IInv, DataType, ReadSettings, UpdateFrameConfig, AllocationFails, Restart
    <3> QED
      BY <3>2, <3>4
  <2>2. CASE ReadCommand \/ KeepStreaming \/ NoSettings \/ SendFrame \/ SendFrameFails
    BY <2>2 DEF IInv, SettingsType, DataType, ReadCommand, KeepStreaming, NoSettings,
                SendFrame, SendFrameFails, Restart
  <2> QED
    BY <2>1, <2>2 DEF DataTask
<1> QED
  BY <1>2, <1>3, <1>4, <1>5 DEF IInv

LEMMA Inductive == IInv /\ [Next]_vars => IInv'
<1> SUFFICES ASSUME IInv, [Next]_vars PROVE IInv'
  OBVIOUS
<1>1. CASE UNCHANGED vars
  BY <1>1 DEF IInv, SessionType, CommandsType, SettingsType, DataType, Progress,
              CameraOutlivesStream, Commanded, vars, session, control, dataTask
<1>2. CASE \E on \in BOOLEAN : CallCam(on)
  BY <1>2, CamStep
<1>3. CASE SendCommand("start", "START") \/ SendCommand("stop", "STOP")
  BY <1>3, CommandStep
<1>4. CASE ResetSettings \/ SendSettings
  BY <1>4, SettingsStep
<1>5. CASE DataTask
  BY <1>5, DataStep
<1> QED
  BY <1>1, <1>2, <1>3, <1>4, <1>5, ControlStep DEF Next, Message, ControlTask, NextCall

LEMMA Always == Spec => []IInv
<1> QED
  BY InitIInv, Inductive, PTL DEF Spec

-----------------------------------------------------------------------------
(* Theorems                                                                *)

\* Every variable keeps its type, and no queue exceeds its length.
THEOREM TypeCorrect == Spec => []TypeOK
<1>1. Progress => /\ ctl \in {"connect", "connected", "listen", "action", "closed",
                               "start", "stop", "set", "lost"}
                  /\ todo \in Seq(Calls)
  <2>1. /\ <<>> \in Seq(Calls)
        /\ <<"start_cam", "reset", "settings", "start">> \in Seq(Calls)
        /\ <<"reset", "settings", "start">> \in Seq(Calls)
        /\ <<"settings", "start">> \in Seq(Calls)
        /\ <<"start">> \in Seq(Calls)
        /\ <<"stop", "stop_cam">> \in Seq(Calls)
        /\ <<"stop_cam">> \in Seq(Calls)
        /\ <<"reset", "settings">> \in Seq(Calls)
        /\ <<"settings">> \in Seq(Calls)
    BY DEF Calls
  <2> QED
    BY <2>1, Zenon DEF Progress
<1>2. IInv => TypeOK
  <2>1. SessionType => /\ active \in BOOLEAN /\ camera_started \in BOOLEAN
                       /\ pending \in 0 .. ActionQueueLen /\ config \in Configs
                       /\ cam_on \in BOOLEAN /\ failed \in BOOLEAN
    BY DEF SessionType
  <2>2. DataType => /\ dpc \in {"check", "setting", "loop"} /\ started \in BOOLEAN
                    /\ frame_config \in Configs /\ buf \in Lens \cup {NoBuf}
                    /\ exhausted \in BOOLEAN
    BY DEF DataType
  <2> QED
    BY <1>1, <2>1, <2>2, Zenon DEF IInv, TypeOK, CommandsType, SettingsType
<1> QED
  BY <1>2, Always, PTL

\* Whatever calls fail and however the tasks interleave, the data task is not
\* left asking a camera that is off for frames (the order of the calls in
\* espfsp_client_push_req_start_stream_handler, _req_stop_stream_handler and
\* espfsp_client_push_connection_stop).
THEOREM CameraAlwaysOutlivesStream == Spec => []CameraOutlivesStream
<1>1. IInv => CameraOutlivesStream
  BY DEF IInv
<1> QED
  BY <1>1, Always, PTL

\* The send_frame callback is always told the length of the buffer it is given
\* (update_frame_config), if there is a buffer.
THEOREM BufferAlwaysMatchesLimit == Spec => []BufferMatchesLimit
<1>1. Init => BufferMatchesLimit
  BY DEF Init, BufferMatchesLimit
<1>2. BufferMatchesLimit /\ [Next]_vars => BufferMatchesLimit'
  <2> SUFFICES ASSUME BufferMatchesLimit, [Next]_vars PROVE BufferMatchesLimit'
    OBVIOUS
  <2>1. CASE ReadSettings
    BY <2>1 DEF BufferMatchesLimit, ReadSettings, UpdateFrameConfig, AllocationFails
  <2>2. CASE UNCHANGED <<frame_config, buf>>
    BY <2>2 DEF BufferMatchesLimit
  <2>3. ReadSettings \/ UNCHANGED <<frame_config, buf>>
    BY DEF Next, Message, ControlTask, DataTask, NextCall, Connect, QueueInit, NothingToDo,
           RunFails, PeerGone, SendInit, NoAction, SessionAck, StartStream, StopStream,
           ConnectionStop, FrameSet, CallCam, SendCommand, ResetSettings, SendSettings,
           ReadCommand, KeepStreaming, NoSettings, SendFrame, SendFrameFails, dataTask, vars
  <2> QED
    BY <2>1, <2>2, <2>3
<1> QED
  BY <1>1, <1>2, PTL DEF Spec

-----------------------------------------------------------------------------
(* The configuration on its way to the data task.                          *)

Delivered ==
    IF settingsQueue = <<>> THEN frame_config = config \/ exhausted
    ELSE settingsQueue[Len(settingsQueue)] = config

\* The configuration set last is on its way unless a handler still has to send it,
\* and for that there is room, since it has emptied the queue.
SettingsInv ==
    /\ todo # <<>> /\ Head(todo) = "settings" => settingsQueue = <<>>
    /\ ctl # "set" /\ todo # <<"settings", "start">> => Delivered

\* Which calls are not the sending of settings.
LEMMA Heads ==
    /\ Head(StartCalls) = "start_cam" /\ StartCalls # <<"settings", "start">>
    /\ Head(StopCalls) = "stop" /\ StopCalls # <<"settings", "start">>
    /\ Head(<<"reset", "settings">>) = "reset"
    /\ Head(<<"reset", "settings", "start">>) = "reset"
    /\ <<"reset", "settings", "start">> # <<"settings", "start">>
    /\ Head(<<"start">>) = "start" /\ <<"start">> # <<"settings", "start">>
    /\ Head(<<"stop_cam">>) = "stop_cam" /\ <<"stop_cam">> # <<"settings", "start">>
    /\ <<>> # <<"settings", "start">>
  BY DEF StartCalls, StopCalls

\* Between handlers there is no call to be made.
LEMMA NoCalls ==
    ASSUME Progress, ctl \in {"connect", "connected", "listen", "action", "closed"}
    PROVE  todo = <<>>
  BY DEF Progress

LEMMA SettingsControl ==
    ASSUME IInv, SettingsInv,
           \/ Connect \/ QueueInit \/ NothingToDo \/ RunFails \/ PeerGone \/ SendInit
           \/ NoAction \/ SessionAck \/ StartStream \/ StopStream \/ ConnectionStop
           \/ \E c \in Configs : FrameSet(c)
    PROVE  SettingsInv'
<1>1. todo = <<>> /\ ctl # "set"
  BY NoCalls DEF IInv, Connect, QueueInit, NothingToDo, RunFails, PeerGone, SendInit, NoAction,
     SessionAck, StartStream, StopStream, ConnectionStop, FrameSet
<1>2. Delivered
  BY <1>1, Heads DEF SettingsInv
<1>3. ASSUME NEW c \in Configs, FrameSet(c) PROVE SettingsInv'
  BY <1>3, Heads DEF FrameSet, Then, SettingsInv
<1>4. CASE UNCHANGED <<config, settingsQueue, dataTask>>
           /\ (todo' = <<>> \/ todo' = StartCalls \/ todo' = StopCalls)
  BY <1>2, <1>4, Heads DEF SettingsInv, Delivered, dataTask
<1> QED
  BY <1>1, <1>3, <1>4
     DEF Connect, QueueInit, NothingToDo, RunFails, PeerGone, SendInit, NoAction, SessionAck,
         StartStream, StopStream, ConnectionStop, Goto, Then

LEMMA SettingsCalls ==
    ASSUME IInv, SettingsInv, NextCall
    PROVE  SettingsInv'
<1>1. UNCHANGED <<config, dataTask>>
  BY DEF NextCall, CallCam, SendCommand, ResetSettings, SendSettings
<1>2. ASSUME Delivered, UNCHANGED settingsQueue,
             \/ CallFails
             \/ CallDone /\ Len(todo) = 1
             \/ CallDone /\ Len(todo) \in Nat /\ Len(todo) > 1
                /\ Tail(todo) \in {<<"reset", "settings", "start">>, <<"stop_cam">>}
      PROVE  SettingsInv'
  <2>1. Delivered'
    BY <1>1, <1>2 DEF Delivered, dataTask
  <2>2. todo' \in {<<>>, <<"reset", "settings", "start">>, <<"stop_cam">>}
    <3>1. CASE CallFails
      BY <3>1 DEF CallFails, Then
    <3>2. CASE CallDone /\ Len(todo) = 1
      BY <3>2, LastCallEnds
    <3>3. CASE CallDone /\ Len(todo) \in Nat /\ Len(todo) > 1
               /\ Tail(todo) \in {<<"reset", "settings", "start">>, <<"stop_cam">>}
      <4>1. todo' = Tail(todo)
        BY <3>3, NextCallFollows
      <4> QED
        BY <3>3, <4>1
    <3> QED
      BY <1>2, <3>1, <3>2, <3>3
  <2>3. todo' # <<>> => Head(todo') # "settings"
    BY <2>2, Heads
  <2> QED
    BY <2>1, <2>3 DEF SettingsInv
<1>3. ASSUME NEW on \in BOOLEAN, CallCam(on) PROVE SettingsInv'
  <2>1. Delivered /\ UNCHANGED settingsQueue
    BY <1>3, CallCases, Heads DEF IInv, SettingsInv, CallCam, Calls, Calling
  <2>2. \/ Len(todo) = 4 /\ Tail(todo) = <<"reset", "settings", "start">>
        \/ Len(todo) = 1
    BY <1>3, CallCases DEF IInv, CallCam, Calls
  <2>3. CallFails \/ CallDone
    BY <1>3 DEF CallCam
  <2> QED
    BY <1>2, <2>1, <2>2, <2>3
<1>4. CASE SendCommand("start", "START") \/ SendCommand("stop", "STOP")
  <2>1. Delivered /\ UNCHANGED settingsQueue
    BY <1>4, CallCases, Heads DEF IInv, SettingsInv, SendCommand, Calls, Calling
  <2>2. \/ Len(todo) = 2 /\ Tail(todo) = <<"stop_cam">>
        \/ Len(todo) = 1
    BY <1>4, CallCases DEF IInv, SendCommand, Calls
  <2>3. CallFails \/ CallDone
    BY <1>4 DEF SendCommand
  <2> QED
    BY <1>2, <2>1, <2>2, <2>3
<1>5. CASE ResetSettings
  <2>1. \/ ctl = "start" /\ Len(todo) = 3 /\ Tail(todo) = <<"settings", "start">>
        \/ ctl = "set" /\ Len(todo) = 2 /\ Tail(todo) = <<"settings">>
    BY <1>5, CallCases DEF IInv, ResetSettings, Calls
  <2>2. ctl' = ctl /\ todo' = Tail(todo)
    <3>1. CallDone /\ Len(todo) \in Nat /\ Len(todo) > 1
      BY <1>5, <2>1 DEF ResetSettings
    <3> QED
      BY <3>1, NextCallFollows
  <2> QED
    BY <1>5, <2>1, <2>2 DEF ResetSettings, SettingsInv
<1>6. CASE SendSettings
  <2>1. settingsQueue = <<>>
    BY <1>6 DEF SendSettings, Calling, SettingsInv
  <2>2. CallDone /\ settingsQueue' = Append(settingsQueue, config) /\ config \in Configs
    BY <1>6, <2>1, QueueLensAssumption DEF SendSettings, IInv, SessionType
  <2>3. settingsQueue' # <<>> /\ settingsQueue'[Len(settingsQueue')] = config
    BY <2>1, <2>2
  <2>4. Delivered'
    BY <1>1, <2>3 DEF Delivered
  <2>5. \/ Len(todo) = 2 /\ Tail(todo) = <<"start">>
        \/ Len(todo) = 1
    BY <1>6, CallCases DEF IInv, SendSettings, Calls
  <2>6. todo' \in {<<>>, <<"start">>}
    <3>1. CASE Len(todo) = 1
      BY <2>2, <3>1, LastCallEnds
    <3>2. CASE Len(todo) = 2 /\ Tail(todo) = <<"start">>
      <4>1. Len(todo) \in Nat /\ Len(todo) > 1
        BY <3>2
      <4> QED
        BY <2>2, <3>2, <4>1, NextCallFollows
    <3> QED
      BY <2>5, <3>1, <3>2
  <2>7. todo' # <<>> => Head(todo') # "settings"
    BY <2>6, Heads
  <2> QED
    BY <2>4, <2>7 DEF SettingsInv
<1> QED
  BY <1>3, <1>4, <1>5, <1>6 DEF NextCall

LEMMA SettingsData ==
    ASSUME IInv, SettingsInv, DataTask
    PROVE  SettingsInv'
<1>1. UNCHANGED <<config, ctl, todo>>
  BY DEF DataTask, ReadCommand, KeepStreaming, NoSettings, ReadSettings, SendFrame,
         SendFrameFails, control
<1>2. CASE UNCHANGED <<settingsQueue, frame_config, exhausted>>
  BY <1>1, <1>2 DEF SettingsInv, Delivered
<1>3. CASE ReadSettings
  <2>1. /\ settingsQueue # <<>> /\ settingsQueue' = Tail(settingsQueue)
        /\ frame_config' = Head(settingsQueue) \/ exhausted'
    BY <1>3 DEF ReadSettings, UpdateFrameConfig, AllocationFails
  <2>2. /\ settingsQueue' \in Seq(Configs) /\ Len(settingsQueue') = Len(settingsQueue) - 1
        /\ Len(settingsQueue) \in Nat \ {0} /\ Head(settingsQueue) = settingsQueue[1]
        /\ \A i \in 1 .. Len(settingsQueue) - 1 : settingsQueue'[i] = settingsQueue[i + 1]
    BY <2>1 DEF IInv, SettingsType
  <2>3. Delivered => Delivered'
    <3>1. CASE Len(settingsQueue) = 1
      <4>1. settingsQueue' = <<>> /\ Head(settingsQueue) = settingsQueue[Len(settingsQueue)]
        BY <2>2, <3>1
      <4> QED
        BY <1>1, <2>1, <4>1 DEF Delivered
    <3>2. CASE Len(settingsQueue) # 1
      <4>1. /\ settingsQueue' # <<>>
            /\ settingsQueue'[Len(settingsQueue')] = settingsQueue[Len(settingsQueue)]
        BY <2>2, <3>2
      <4> QED
        BY <1>1, <2>1, <4>1 DEF Delivered
    <3> QED
      BY <3>1, <3>2
  <2> QED
    BY <1>1, <2>1, <2>3 DEF SettingsInv
<1> QED
  BY <1>2, <1>3 DEF DataTask, ReadCommand, KeepStreaming, NoSettings, SendFrame, SendFrameFails

LEMMA SettingsAlways == Spec => []SettingsInv
<1>1. Init => SettingsInv
  BY DEF Init, SettingsInv, Delivered
<1>2. IInv /\ SettingsInv /\ [Next]_vars => SettingsInv'
  <2> SUFFICES ASSUME IInv, SettingsInv, [Next]_vars PROVE SettingsInv'
    OBVIOUS
  <2>1. CASE UNCHANGED vars
    BY <2>1 DEF SettingsInv, Delivered, vars, control, dataTask
  <2>2. CASE NextCall
    BY <2>2, SettingsCalls
  <2>3. CASE DataTask
    BY <2>3, SettingsData
  <2> QED
    BY <2>1, <2>2, <2>3, SettingsControl DEF Next, Message, ControlTask
<1> QED
  BY <1>1, <1>2, Always, PTL DEF Spec

\* Between handlers the configuration last set by the server is on its way to the
\* data task or has arrived there (xQueueReset and xQueueSend in
\* espfsp_data_proto_set_frame_params, update_frame_config), unless an allocation
\* failed: whichever settings were thrown away unread, and though the send of the
\* settings has an error path.
THEOREM SettingsAlwaysReachTask == Spec => []SettingsReachTask
<1>1. IInv /\ SettingsInv => SettingsReachTask
  <2> SUFFICES ASSUME IInv, SettingsInv, todo = <<>> PROVE Delivered
    BY DEF SettingsReachTask, Delivered
  <2>1. ctl # "set"
    BY DEF IInv, Progress
  <2> QED
    BY <2>1, Heads DEF SettingsInv
<1> QED
  BY <1>1, Always, SettingsAlways, PTL

-----------------------------------------------------------------------------
(* What is left of a session.                                              *)

\* As long as no connection with a session has ended with an error, every handler
\* has the session, one that stops has a camera, a client without a connection has
\* no session, and what is not counted as started is off, but for a start under
\* way.
CleanInv ==
    ~failed =>
        /\ ~active => ~camera_started /\ todo = <<>>
        /\ ctl \in {"connect", "connected"} => ~active
        /\ ctl \in {"stop", "lost"} => camera_started
        /\ ~camera_started /\ ctl # "start" => ~cam_on /\ ~Commanded

LEMMA CleanControl ==
    ASSUME IInv, CleanInv,
           \/ Connect \/ QueueInit \/ NothingToDo \/ RunFails \/ PeerGone \/ SendInit
           \/ NoAction \/ SessionAck \/ StartStream \/ StopStream \/ ConnectionStop
           \/ \E c \in Configs : FrameSet(c)
    PROVE  CleanInv'
<1> SUFFICES ASSUME ~failed' PROVE CleanInv'
  BY DEF CleanInv
<1>1. ~failed /\ UNCHANGED <<camera_started, cam_on>> /\ Commanded' = Commanded
  <2>1. UNCHANGED <<camera_started, cam_on, startStopQueue, dataTask>>
    BY DEF Connect, QueueInit, NothingToDo, RunFails, PeerGone, SendInit, NoAction, SessionAck,
           StartStream, StopStream, ConnectionStop, FrameSet, session
  <2>2. ~failed
    BY Zenon
       DEF Connect, QueueInit, NothingToDo, RunFails, PeerGone, SendInit, NoAction, SessionAck,
           StartStream, StopStream, ConnectionStop, FrameSet
  <2> QED
    BY <2>1, <2>2 DEF Commanded, dataTask
<1>2. todo = <<>> /\ ctl \notin {"start", "stop", "lost"}
  BY NoCalls DEF IInv, Connect, QueueInit, NothingToDo, RunFails, PeerGone, SendInit, NoAction,
     SessionAck, StartStream, StopStream, ConnectionStop, FrameSet
<1>3. active \in BOOLEAN /\ camera_started \in BOOLEAN
  BY DEF IInv, SessionType
<1>4. CASE Connect \/ QueueInit \/ NothingToDo \/ RunFails \/ PeerGone \/ SendInit \/ NoAction
  <2>1. active' = active /\ todo' = todo /\ ctl' \notin {"start", "stop", "lost"}
    BY <1>4 DEF Connect, QueueInit, NothingToDo, RunFails, PeerGone, SendInit, NoAction, Goto,
                session
  <2>2. ctl' \in {"connect", "connected"} => ~active
    BY <1>1, <1>4 DEF CleanInv, Connect, QueueInit, NothingToDo, RunFails, PeerGone, SendInit,
                      NoAction, Goto
  <2> QED
    BY <1>1, <1>2, <2>1, <2>2 DEF CleanInv
<1>5. CASE SessionAck \/ StartStream \/ StopStream \/ \E c \in Configs : FrameSet(c)
  BY <1>1, <1>2, <1>3, <1>5
     DEF CleanInv, SessionAck, StartStream, StopStream, FrameSet, Goto, Then, session
<1>6. CASE ConnectionStop
  BY <1>1, <1>2, <1>3, <1>6 DEF CleanInv, ConnectionStop, Goto, Then
<1> QED
  BY <1>4, <1>5, <1>6

LEMMA CleanCalls ==
    ASSUME IInv, CleanInv, NextCall
    PROVE  CleanInv'
<1> SUFFICES ASSUME ~failed' PROVE CleanInv'
  BY DEF CleanInv
<1>1. ~CallFails
  BY DEF CallFails
<1>2. todo # <<>> /\ ~failed /\ CallDone
  BY <1>1 DEF NextCall, CallCam, SendCommand, ResetSettings, SendSettings, Calling
<1>3. active /\ active \in BOOLEAN /\ camera_started \in BOOLEAN
  BY <1>2 DEF CleanInv, IInv, SessionType
<1>4. ctl \in {"start", "stop", "lost", "set"}
  BY <1>2 DEF IInv, Progress
<1>5. CASE Len(todo) \in Nat /\ Len(todo) > 1
  <2>1. ctl' = ctl /\ todo' = Tail(todo) /\ UNCHANGED <<active, camera_started>>
    BY <1>2, <1>5, NextCallFollows
  <2>2. ~camera_started /\ ctl # "start" => ~cam_on' /\ ~Commanded'
    <3> SUFFICES ASSUME ~camera_started, ctl # "start" PROVE ~cam_on' /\ ~Commanded'
      OBVIOUS
    <3>1. ctl = "set" /\ ~cam_on /\ ~Commanded
      BY <1>2, <1>4 DEF CleanInv
    <3>2. ResetSettings \/ SendSettings
      BY <3>1, CallCases DEF NextCall, CallCam, SendCommand, IInv, Calls
    <3> QED
      BY <3>1, <3>2 DEF ResetSettings, SendSettings, Commanded, dataTask
  <2> QED
    BY <1>2, <1>3, <1>4, <2>1, <2>2 DEF CleanInv
<1>6. CASE Len(todo) = 1
  <2>1. /\ ctl' = (IF ctl = "lost" THEN "connect" ELSE "action") /\ todo' = <<>>
        /\ active' = (ctl # "lost")
        /\ camera_started' = IF ctl = "set" THEN camera_started ELSE ctl = "start"
    <3>1. ~(Len(todo) > 1)
      BY <1>6
    <3> QED
      BY <1>2, <3>1, Zenon DEF CallDone, Then
  <2>2. ctl = "lost" => ~active' /\ ~camera_started' /\ ctl' = "connect"
    BY <2>1
  <2>3. ctl # "lost" => active' /\ ctl' = "action"
    BY <2>1
  <2>4. ~camera_started' => ~cam_on' /\ ~Commanded'
    <3>1. CASE ctl = "start"
      <4>1. camera_started'
        BY <2>1, <3>1
      <4> QED
        BY <4>1
    <3>2. CASE ctl \in {"stop", "lost"}
      <4>1. CallCam(FALSE) /\ ~Commanded
        BY <1>6, <3>2, CallCases DEF NextCall, CallCam, SendCommand, ResetSettings, SendSettings,
           IInv, Calls
      <4>2. UNCHANGED <<startStopQueue, dataTask>> /\ cam_on' = FALSE
        BY <1>1, <4>1 DEF CallCam
      <4> QED
        BY <4>1, <4>2 DEF Commanded, dataTask
    <3>3. CASE ctl = "set"
      <4>1. ResetSettings \/ SendSettings
        BY <3>3, CallCases DEF NextCall, CallCam, SendCommand, IInv, Calls
      <4>2. UNCHANGED <<cam_on, startStopQueue, dataTask>>
        BY <4>1 DEF ResetSettings, SendSettings
      <4>3. camera_started' = camera_started
        BY <2>1, <3>3
      <4> QED
        BY <1>2, <3>3, <4>2, <4>3 DEF CleanInv, Commanded, dataTask
    <3> QED
      BY <1>4, <3>1, <3>2, <3>3
  <2> QED
    BY <1>4, <2>1, <2>2, <2>3, <2>4 DEF CleanInv
<1>7. Len(todo) = 1 \/ (Len(todo) \in Nat /\ Len(todo) > 1)
  BY <1>2 DEF IInv, Progress
<1> QED
  BY <1>5, <1>6, <1>7

LEMMA CleanData ==
    ASSUME IInv, CleanInv, DataTask
    PROVE  CleanInv'
<1>1. UNCHANGED <<session, control, cam_on, failed>>
  BY DEF DataTask, ReadCommand, KeepStreaming, NoSettings, ReadSettings, SendFrame,
         SendFrameFails
<1>2. Commanded' => Commanded
  <2>1. CASE ReadCommand
    BY <2>1, ReadKeepsCommanded DEF IInv, DataType
  <2>2. CASE UNCHANGED startStopQueue /\ (started' => started)
    BY <2>2 DEF Commanded
  <2> QED
    BY <2>1, <2>2 DEF DataTask, KeepStreaming, NoSettings, ReadSettings, UpdateFrameConfig,
                      AllocationFails, SendFrame, SendFrameFails, Restart
<1> QED
  BY <1>1, <1>2 DEF CleanInv, session, control

LEMMA CleanAlways == Spec => []CleanInv
<1>1. Init => CleanInv
  BY DEF Init, CleanInv, Commanded
<1>2. IInv /\ CleanInv /\ [Next]_vars => CleanInv'
  <2> SUFFICES ASSUME IInv, CleanInv, [Next]_vars PROVE CleanInv'
    OBVIOUS
  <2>1. CASE UNCHANGED vars
    BY <2>1 DEF CleanInv, Commanded, vars, session, control, dataTask
  <2>2. CASE NextCall
    BY <2>2, CleanCalls
  <2>3. CASE DataTask
    BY <2>3, CleanData
  <2> QED
    BY <2>1, <2>2, <2>3, CleanControl DEF Next, Message, ControlTask
<1> QED
  BY <1>1, <1>2, Always, PTL DEF Spec

\* A camera whose connection was lost starts over from nothing, unless a run with a
\* session or a call of a handler has failed: espfsp_client_push_connection_stop
\* takes back all that the handlers have done.
THEOREM AlwaysCleanAfterLoss == Spec => []CleanAfterLoss
<1>1. IInv /\ CleanInv => CleanAfterLoss
  BY DEF IInv, SessionType, CleanInv, CleanAfterLoss
<1> QED
  BY <1>1, Always, CleanAlways, PTL

=============================================================================
