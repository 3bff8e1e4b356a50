----------------------- MODULE ServerSessionsProofs -----------------------
(***************************************************************************)
(* Type correctness of ServerSessions, that only the primary camera has    *)
(* its stream on, that the ends of the stream agree and that the data      *)
(* tasks follow the flags, for any number of slots, any queue lengths and  *)
(* any number of sessions.                                                 *)
(***************************************************************************)
EXTENDS ServerSessions, TLAPS, SequenceTheorems

\* What the handlers do to the sessions and where the tasks are.
ManagerType ==
    /\ active \in [Slots -> BOOLEAN]
    /\ session_id \in [Slots -> Ids]
    /\ stream_started \in [Slots -> BOOLEAN]
    /\ primary_push \in Push \cup {NoSlot}
    /\ primary_play \in Play \cup {NoSlot}
    /\ next_id \in 1 .. MaxId + 1

TaskType ==
    /\ pc \in [Slots -> {"none", "listen", "action", "post", "closed", "stop", "exit"}]
    /\ todo \in [Slots -> Seq(Calls)]

QueueType ==
    /\ reqActionQueue \in [Slots -> Seq(Messages)]
    /\ startStopQueue \in [Protos -> Seq({"START", "STOP"})]
    /\ running \in [Protos -> BOOLEAN]
    /\ upset \subseteq {"abrupt", "replaced", "disturbed"}
    /\ \A s \in Slots : Len(reqActionQueue[s]) <= ActionQueueLen
    /\ \A d \in Protos : Len(startStopQueue[d]) <= StartStopLen

LEMMA TypeSplit == TypeOK <=> ManagerType /\ TaskType /\ QueueType
  BY DEF TypeOK, ManagerType, TaskType, QueueType

LEMMA SlotFacts ==
    /\ Push \subseteq Slots /\ Play \subseteq Slots
    /\ NoSlot \notin Slots /\ Push \cap Play = {}
    /\ NoId \in Ids
  BY SlotsAssumption, MaxIdAssumption DEF Push, Play, Slots, NoSlot, NoId, Ids

\* The calls a handler leaves are well formed.
LEMMA CallTypes ==
    /\ \A s \in Slots, k \in {"ACK", "START", "STOP", "SET", "REPLY"}, i \in Ids :
          Send(s, k, i) \in Calls
    /\ \A d \in Protos, c \in {"START", "STOP"} : Data(d, c) \in Calls
    /\ [call |-> "rebuffer"] \in Calls
    /\ \A s \in Slots \cup {NoSlot} : [call |-> "stop_other", to |-> s] \in Calls
  BY DEF Send, Data, Calls, Messages

\* What is known of a call from its kind.
LEMMA CallShapes ==
    ASSUME NEW c \in Calls
    PROVE  /\ c.call = "send" => c.to \in Slots /\ c.msg \in Messages
           /\ c.call = "stop_other" => c.to \in Slots \cup {NoSlot}
           /\ c.call = "data" => c.to \in Protos /\ c.cmd \in {"START", "STOP"}
  BY DEF Calls

LEMMA InitType == Init => TypeOK
<1> SUFFICES ASSUME Init PROVE TypeOK
  OBVIOUS
<1>1. ManagerType
  BY SlotFacts, MaxIdAssumption DEF Init, ManagerType
<1>2. TaskType
  BY DEF Init, TaskType
<1>3. QueueType
  BY QueuesAssumption DEF Init, QueueType
<1> QED BY <1>1, <1>2, <1>3, TypeSplit

-----------------------------------------------------------------------------
(* Every step preserves the type of the sessions.                          *)

LEMMA ManagerStep == TypeOK /\ [Next]_vars => ManagerType'
<1> SUFFICES ASSUME TypeOK, [Next]_vars PROVE ManagerType'
  OBVIOUS
<1> USE SlotFacts, TypeSplit
<1>1. CASE UNCHANGED vars
  BY <1>1 DEF vars, manager, slotVars, primaryVars, ManagerType
<1>2. ASSUME NEW s \in Slots, Accept(s) PROVE ManagerType'
  BY <1>2 DEF Accept, primaryVars, ManagerType
<1>3. ASSUME NEW s \in Slots, SessionInit(s) PROVE ManagerType'
  <2>1. next_id \in Ids /\ next_id' \in 1 .. MaxId + 1
    BY <1>3, MaxIdAssumption DEF SessionInit, ManagerType, Ids
  <2>2. primary_play' \in Play \cup {NoSlot}
    BY <1>3 DEF SessionInit, ManagerType
  <2> QED BY <1>3, <2>1, <2>2 DEF SessionInit, ManagerType
<1>4. ASSUME NEW s \in Slots, SessionTerminate(s) PROVE ManagerType'
  BY <1>4 DEF SessionTerminate, Deactivate, ManagerType
<1>5. ASSUME NEW s \in Slots, NEW r \in BOOLEAN, StartStream(s, r) PROVE ManagerType'
  BY <1>5 DEF StartStream, SetStream, primaryVars, ManagerType
<1>6. ASSUME NEW s \in Slots, StopStream(s) PROVE ManagerType'
  BY <1>6 DEF StopStream, SetStream, primaryVars, ManagerType
<1>7. ASSUME NEW s \in Slots, NEW p \in Push, SourceSet(s, p) PROVE ManagerType'
  BY <1>7 DEF SourceSet, slotVars, ManagerType
<1>8. ASSUME NEW s \in Slots, StopIdleSession(s) PROVE ManagerType'
  BY <1>8 DEF StopIdleSession, Deactivate, ManagerType
<1>9. ASSUME NEW s \in Slots, StopStreamingSession(s) PROVE ManagerType'
  BY <1>9 DEF StopStreamingSession, Deactivate, SetStream, ManagerType
<1>10. ASSUME NEW s \in Slots, StopOtherNotLive(s) PROVE ManagerType'
  BY <1>10 DEF StopOtherNotLive, SetStream, primaryVars, ManagerType
<1>11. ASSUME NEW s \in Slots, ReturnSlot(s) PROVE ManagerType'
  BY <1>11 DEF ReturnSlot, primaryVars, ManagerType
<1>12. ASSUME UNCHANGED manager PROVE ManagerType'
  BY <1>12 DEF manager, slotVars, primaryVars, ManagerType
<1>13. ASSUME NEW s \in Slots,
              \/ PeerGone(s) \/ RunFails(s) \/ NothingToDo(s) \/ SendAction(s) \/ NoAction(s)
              \/ SetParams(s) \/ GetParams(s) \/ SourceGet(s) \/ StopWithoutSession(s) \/ NextCall(s)
       PROVE ManagerType'
  BY <1>12, <1>13 DEF PeerGone, RunFails, NothingToDo, SendAction, NoAction, SetParams, GetParams, SourceGet,
       StopWithoutSession, NextCall, InsertAction, InsertCommand, LookUpOther, Rebuffer
<1>14. ASSUME NEW d \in Protos, DataTask(d) PROVE ManagerType'
  BY <1>12, <1>14 DEF DataTask, ReadCommand, DataRestart
<1> QED
  BY <1>1, <1>2, <1>3, <1>4, <1>5, <1>6, <1>7, <1>8, <1>9, <1>10, <1>11, <1>13, <1>14
  DEF Next, Request, TaskStep, ConnectionStop

-----------------------------------------------------------------------------
(* Every step preserves the type of the tasks and of what they have to do. *)

PCs == {"none", "listen", "action", "post", "closed", "stop", "exit"}

LEMMA GotoType ==
    ASSUME TaskType, NEW s \in Slots, NEW where \in PCs, Goto(s, where), UNCHANGED todo
    PROVE  TaskType'
  BY DEF TaskType, PCs, Goto

LEMMA ThenType ==
    ASSUME TaskType, NEW s \in Slots, NEW where \in PCs, NEW calls \in Seq(Calls),
           Then(s, where, calls)
    PROVE  TaskType'
  BY DEF TaskType, PCs, Goto, Then

LEMMA CallDoneType ==
    ASSUME TaskType, NEW s \in Slots, todo[s] # <<>>, CallDone(s)
    PROVE  TaskType'
<1>1. Tail(todo[s]) \in Seq(Calls)
  BY DEF TaskType
<1>2. todo' \in [Slots -> Seq(Calls)]
  BY <1>1 DEF TaskType, CallDone
<1>3. After(s) \in PCs
  BY DEF After, PCs
<1>4. pc' \in [Slots -> PCs]
  BY <1>3 DEF TaskType, CallDone, Goto, PCs
<1> QED BY <1>2, <1>4 DEF TaskType, PCs

LEMMA CallFailsType ==
    ASSUME TaskType, NEW s \in Slots, CallFails(s)
    PROVE  TaskType'
<1>1. <<>> \in Seq(Calls)
  OBVIOUS
<1> QED BY <1>1, ThenType DEF CallFails, PCs

\* The call a task makes next.
LEMMA HeadCall ==
    ASSUME TaskType, NEW s \in Slots, todo[s] # <<>>
    PROVE  Head(todo[s]) \in Calls /\ Tail(todo[s]) \in Seq(Calls)
  BY DEF TaskType

LEMMA TaskStepType == TypeOK /\ [Next]_vars => TaskType'
<1> SUFFICES ASSUME TypeOK, [Next]_vars PROVE TaskType'
  OBVIOUS
<1> USE SlotFacts
<1>a. TaskType /\ ManagerType /\ QueueType
  BY TypeSplit
<1>b. \A r \in Slots : session_id[r] \in Ids
  BY <1>a DEF ManagerType
<1>1. CASE UNCHANGED vars
  BY <1>1, <1>a DEF vars, TaskType
<1>2. ASSUME NEW s \in Slots,
             \/ Accept(s) \/ NothingToDo(s) \/ RunFails(s) \/ PeerGone(s) \/ SendAction(s)
             \/ NoAction(s) \/ ReturnSlot(s) \/ SessionTerminate(s)
             \/ StopWithoutSession(s) \/ StopIdleSession(s) \/ StopOtherNotLive(s)
      PROVE TaskType'
  <2>1. UNCHANGED todo /\ \E where \in PCs : Goto(s, where)
    BY <1>2 DEF PCs, Accept, NothingToDo, RunFails, PeerGone, SendAction, NoAction, ReturnSlot,
         SessionTerminate, StopWithoutSession, StopIdleSession, StopOtherNotLive
  <2> QED BY <2>1, <1>a, GotoType
<1>3. ASSUME NEW s \in Slots, SessionInit(s) PROVE TaskType'
  <2>1. next_id \in Ids
    BY <1>3, <1>a, MaxIdAssumption DEF SessionInit, ManagerType, Ids
  <2>2. <<Send(s, "ACK", next_id)>> \in Seq(Calls)
    BY <2>1, CallTypes
  <2> QED BY <1>3, <2>2, <1>a, ThenType DEF SessionInit, PCs
<1>4. ASSUME NEW s \in Slots, NEW r \in BOOLEAN, StartStream(s, r) PROVE TaskType'
  <2> DEFINE p == primary_push
  <2>1. p \in Slots /\ session_id[p] \in Ids
    BY <1>4, <1>a DEF StartStream, Watching, ManagerType
  <2>2. Send(p, "START", session_id[p]) \in Calls
    BY <2>1, CallTypes
  <2>3. Data("push", "START") \in Calls /\ Data("play", "START") \in Calls
    BY CallTypes DEF Protos
  <2>4. StartCalls(r, p) \in Seq(Calls)
    BY <2>2, <2>3, CallTypes DEF StartCalls
  <2>5. Then(s, "post", StartCalls(r, p))
    BY <1>4 DEF StartStream
  <2> QED BY <2>4, <2>5, <1>a, ThenType DEF PCs
<1>5. ASSUME NEW s \in Slots, StopStream(s) PROVE TaskType'
  <2> DEFINE p == primary_push
  <2>1. p \in Slots /\ session_id[p] \in Ids
    BY <1>5, <1>a DEF StopStream, Watching, ManagerType
  <2>2. Send(p, "STOP", session_id[p]) \in Calls
    BY <2>1, CallTypes
  <2>3. Data("push", "STOP") \in Calls /\ Data("play", "STOP") \in Calls
    BY CallTypes DEF Protos
  <2>4. StopCalls(p) \in Seq(Calls)
    BY <2>2, <2>3 DEF StopCalls
  <2>5. Then(s, "post", StopCalls(p))
    BY <1>5 DEF StopStream
  <2> QED BY <2>4, <2>5, <1>a, ThenType DEF PCs
<1>6. ASSUME NEW s \in Slots, SetParams(s) PROVE TaskType'
  <2>1. primary_push \in Slots
    BY <1>6, <1>a DEF SetParams, Watching, ManagerType
  <2>2. <<Send(primary_push, "SET", session_id[primary_push])>> \in Seq(Calls)
    BY <1>b, <2>1, CallTypes
  <2> QED BY <1>6, <2>2, <1>a, ThenType DEF SetParams, PCs
<1>7. ASSUME NEW s \in Slots, GetParams(s) \/ SourceGet(s) PROVE TaskType'
  <2>1. <<Send(s, "REPLY", session_id[s])>> \in Seq(Calls)
    BY <1>b, CallTypes
  <2> QED BY <1>7, <2>1, <1>a, ThenType DEF GetParams, SourceGet, PCs
<1>8. ASSUME NEW s \in Slots, NEW p \in Push, SourceSet(s, p) PROVE TaskType'
  BY <1>8, <1>a, GotoType DEF SourceSet, PCs
<1>9. ASSUME NEW s \in Slots, StopStreamingSession(s) PROVE TaskType'
  <2> DEFINE other == [call |-> "stop_other", to |-> OtherPrimary(s)]
             calls == <<other, Data("push", "STOP"), Data("play", "STOP")>>
  <2>1. OtherPrimary(s) \in Slots \cup {NoSlot}
    BY <1>a DEF OtherPrimary, ManagerType
  <2>2. other \in Calls
    BY <2>1, CallTypes
  <2>3. Data("push", "STOP") \in Calls /\ Data("play", "STOP") \in Calls
    BY CallTypes DEF Protos
  <2>4. calls \in Seq(Calls)
    BY <2>2, <2>3
  <2>5. Then(s, "stop", calls)
    BY <1>9 DEF StopStreamingSession
  <2> QED BY <2>4, <2>5, <1>a, ThenType DEF PCs
<1>10. ASSUME NEW s \in Slots, InsertAction(s) \/ InsertCommand(s) \/ Rebuffer(s) PROVE TaskType'
  <2>1. todo[s] # <<>> /\ (CallDone(s) \/ CallFails(s))
    BY <1>10 DEF InsertAction, InsertCommand, Rebuffer, Calling
  <2> QED BY <2>1, <1>a, CallDoneType, CallFailsType
<1>11. ASSUME NEW s \in Slots, LookUpOther(s) PROVE TaskType'
  <2> DEFINE r == Head(todo[s]).to
             calls == <<Send(r, "STOP", session_id[r])>> \o Tail(todo[s])
  <2>1. Tail(todo[s]) \in Seq(Calls)
    BY <1>11, <1>a, HeadCall DEF LookUpOther, Calling
  <2>2. CASE CallFails(s)
    BY <2>2, <1>a, CallFailsType
  <2>3. CASE r # NoSlot /\ todo' = [todo EXCEPT ![s] = calls] /\ UNCHANGED pc
    <3>1. r \in Slots
      BY <1>11, <1>a, <2>3, HeadCall, CallShapes DEF LookUpOther, Calling
    <3>2. Send(r, "STOP", session_id[r]) \in Calls
      BY <1>b, <3>1, CallTypes
    <3>3. calls \in Seq(Calls)
      BY <2>1, <3>2
    <3> QED BY <2>3, <3>3, <1>a DEF TaskType
  <2> QED BY <1>11, <2>2, <2>3 DEF LookUpOther
<1>12. ASSUME NEW d \in Protos, DataTask(d) PROVE TaskType'
  BY <1>12, <1>a DEF DataTask, ReadCommand, DataRestart, TaskType
<1> QED
  BY <1>1, <1>2, <1>3, <1>4, <1>5, <1>6, <1>7, <1>8, <1>9, <1>10, <1>11, <1>12
  DEF Next, Request, TaskStep, ConnectionStop, NextCall

-----------------------------------------------------------------------------
(* Every step preserves the type of the queues: none ever overflows.       *)

LEMMA QueueStep == TypeOK /\ [Next]_vars => QueueType'
<1> SUFFICES ASSUME TypeOK, [Next]_vars PROVE QueueType'
  OBVIOUS
<1>a. TaskType /\ ManagerType /\ QueueType
  BY TypeSplit
<1>1. ASSUME UNCHANGED <<queues, running>>, upset' \subseteq upset \cup {"abrupt", "replaced", "disturbed"}
      PROVE  QueueType'
  BY <1>1, <1>a DEF queues, QueueType
<1>2. CASE UNCHANGED vars
  BY <1>1, <1>2 DEF vars
<1>3. ASSUME NEW s \in Slots,
             \/ Accept(s) \/ PeerGone(s) \/ RunFails(s) \/ Request(s) \/ NothingToDo(s)
             \/ NoAction(s) \/ ConnectionStop(s) \/ LookUpOther(s) \/ Rebuffer(s) \/ ReturnSlot(s)
      PROVE  QueueType'
  <2>1. UNCHANGED <<queues, running>>
    BY <1>3 DEF Accept, PeerGone, RunFails, NothingToDo, NoAction, ConnectionStop, LookUpOther,
         Rebuffer, ReturnSlot, Request, SessionInit, SessionTerminate, StartStream, StopStream,
         SetParams, GetParams, SourceGet, SourceSet, StopWithoutSession, StopIdleSession, StopStreamingSession,
         StopOtherNotLive
  <2>2. upset' \subseteq upset \cup {"abrupt", "replaced", "disturbed"}
    BY <1>3 DEF Accept, PeerGone, RunFails, NothingToDo, NoAction, ConnectionStop, LookUpOther,
         Rebuffer, ReturnSlot, Request, SessionInit, SessionTerminate, StartStream, StopStream,
         SetParams, GetParams, SourceGet, SourceSet, StopWithoutSession, StopIdleSession, StopStreamingSession,
         StopOtherNotLive, Race, CallFails
  <2> QED BY <2>1, <2>2, <1>1
<1>4. ASSUME NEW s \in Slots, SendAction(s) PROVE QueueType'
  <2>1. reqActionQueue[s] \in Seq(Messages) /\ reqActionQueue[s] # <<>>
    BY <1>4, <1>a DEF SendAction, QueueType
  <2>2. Tail(reqActionQueue[s]) \in Seq(Messages)
          /\ Len(Tail(reqActionQueue[s])) = Len(reqActionQueue[s]) - 1
    BY <2>1
  <2>3. Len(reqActionQueue[s]) \in Nat
    BY <2>1
  <2> QED BY <1>4, <1>a, <2>2, <2>3, QueuesAssumption DEF SendAction, QueueType
<1>5. ASSUME NEW s \in Slots, InsertAction(s) PROVE QueueType'
  <2> DEFINE c == Head(todo[s])
  <2>1. c.to \in Slots /\ c.msg \in Messages
    BY <1>5, <1>a, HeadCall, CallShapes DEF InsertAction, Calling
  <2>2. CASE UNCHANGED reqActionQueue
    BY <1>1, <1>5, <2>2 DEF InsertAction, CallFails, queues
  <2>3. CASE /\ ActionFits(c.to)
             /\ reqActionQueue' = [reqActionQueue EXCEPT ![c.to] = Append(@, c.msg)]
             /\ UNCHANGED upset
    <3>1. reqActionQueue[c.to] \in Seq(Messages)
      BY <2>1, <1>a DEF QueueType
    <3>2. /\ Append(reqActionQueue[c.to], c.msg) \in Seq(Messages)
          /\ Len(Append(reqActionQueue[c.to], c.msg)) = Len(reqActionQueue[c.to]) + 1
          /\ Len(reqActionQueue[c.to]) \in Nat
      BY <2>1, <3>1
    <3>3. Len(Append(reqActionQueue[c.to], c.msg)) <= ActionQueueLen
      BY <2>3, <3>2, QueuesAssumption DEF ActionFits
    <3> QED BY <1>5, <1>a, <2>1, <2>3, <3>2, <3>3 DEF InsertAction, QueueType
  <2> QED BY <1>5, <2>2, <2>3 DEF InsertAction
<1>6. ASSUME NEW s \in Slots, InsertCommand(s) PROVE QueueType'
  <2> DEFINE c == Head(todo[s])
  <2>1. c.to \in Protos /\ c.cmd \in {"START", "STOP"}
    BY <1>6, <1>a, HeadCall, CallShapes DEF InsertCommand, Calling
  <2>2. CASE UNCHANGED startStopQueue
    BY <1>1, <1>6, <2>2 DEF InsertCommand, CallFails, queues
  <2>3. CASE /\ CommandFits(c.to)
             /\ startStopQueue' = [startStopQueue EXCEPT ![c.to] = Append(@, c.cmd)]
             /\ UNCHANGED upset
    <3>1. startStopQueue[c.to] \in Seq({"START", "STOP"})
      BY <2>1, <1>a DEF QueueType
    <3>2. /\ Append(startStopQueue[c.to], c.cmd) \in Seq({"START", "STOP"})
          /\ Len(Append(startStopQueue[c.to], c.cmd)) = Len(startStopQueue[c.to]) + 1
          /\ Len(startStopQueue[c.to]) \in Nat
      BY <2>1, <3>1
    <3>3. Len(Append(startStopQueue[c.to], c.cmd)) <= StartStopLen
      BY <2>3, <3>2, QueuesAssumption DEF CommandFits
    <3> QED BY <1>6, <1>a, <2>1, <2>3, <3>2, <3>3 DEF InsertCommand, QueueType
  <2> QED BY <1>6, <2>2, <2>3 DEF InsertCommand
<1>7. ASSUME NEW d \in Protos, ReadCommand(d) PROVE QueueType'
  <2>1. startStopQueue[d] \in Seq({"START", "STOP"}) /\ startStopQueue[d] # <<>>
    BY <1>7, <1>a DEF ReadCommand, QueueType
  <2>2. /\ Tail(startStopQueue[d]) \in Seq({"START", "STOP"})
        /\ Len(Tail(startStopQueue[d])) = Len(startStopQueue[d]) - 1
        /\ Len(startStopQueue[d]) \in Nat
    BY <2>1
  <2>3. (Head(startStopQueue[d]) = "START") \in BOOLEAN
    OBVIOUS
  <2> QED BY <1>7, <1>a, <2>2, <2>3, QueuesAssumption DEF ReadCommand, QueueType
<1>8. ASSUME NEW d \in Protos, DataRestart(d) PROVE QueueType'
  BY <1>8, <1>a DEF DataRestart, queues, QueueType
<1> QED
  BY <1>2, <1>3, <1>4, <1>5, <1>6, <1>7, <1>8
  DEF Next, TaskStep, NextCall, DataTask

\* Type correctness: in particular neither an action queue nor a start-stop
\* queue ever holds more than it was created for, and every call a handler
\* still has to make is well formed (espfsp_comm_proto.c insert_action,
\* espfsp_data_proto.c start and stop).
THEOREM TypeCorrect == Spec => []TypeOK
<1>1. Init => TypeOK
  BY InitType
<1>2. TypeOK /\ [Next]_vars => TypeOK'
  <2> SUFFICES ASSUME TypeOK, [Next]_vars PROVE TypeOK'
    OBVIOUS
  <2>1. ManagerType' /\ TaskType' /\ QueueType'
    BY ManagerStep, TaskStepType, QueueStep
  <2> QED BY <2>1 DEF TypeOK, ManagerType, TaskType, QueueType
<1> QED BY <1>1, <1>2, PTL DEF Spec

-----------------------------------------------------------------------------
(* Only the primary camera has its stream on.                              *)

LEMMA OnlyPrimaryStep == TypeOK /\ OnlyPrimaryStreams /\ [Next]_vars => OnlyPrimaryStreams'
<1> SUFFICES ASSUME TypeOK, OnlyPrimaryStreams, [Next]_vars PROVE OnlyPrimaryStreams'
  OBVIOUS
<1> USE SlotFacts DEF OnlyPrimaryStreams, Live
<1>a. ManagerType
  BY TypeSplit
<1>1. ASSUME UNCHANGED <<session_id, stream_started, primary_push>> PROVE OnlyPrimaryStreams'
  BY <1>1
<1>2. CASE UNCHANGED vars
  BY <1>1, <1>2 DEF vars, manager, slotVars, primaryVars
<1>3. ASSUME NEW s \in Slots,
             \/ PeerGone(s) \/ RunFails(s) \/ NothingToDo(s) \/ SendAction(s) \/ NoAction(s)
             \/ SetParams(s) \/ GetParams(s) \/ SourceGet(s) \/ StopWithoutSession(s) \/ NextCall(s)
      PROVE OnlyPrimaryStreams'
  BY <1>1, <1>3 DEF PeerGone, RunFails, NothingToDo, SendAction, NoAction, SetParams, GetParams, SourceGet,
       StopWithoutSession, NextCall, InsertAction, InsertCommand, LookUpOther, Rebuffer,
       manager, slotVars, primaryVars
<1>4. ASSUME NEW s \in Slots, Accept(s) \/ ReturnSlot(s) PROVE OnlyPrimaryStreams'
  BY <1>4, <1>a DEF Accept, ReturnSlot, primaryVars, ManagerType
<1>5. ASSUME NEW s \in Slots, SessionInit(s) PROVE OnlyPrimaryStreams'
  BY <1>5, <1>a DEF SessionInit, ManagerType
\* The primary camera is given up only together with its session.
<1>6. ASSUME NEW s \in Slots, SessionTerminate(s) \/ StopIdleSession(s) PROVE OnlyPrimaryStreams'
  BY <1>6, <1>a DEF SessionTerminate, StopIdleSession, Deactivate, ManagerType
<1>7. ASSUME NEW s \in Slots, StopStreamingSession(s) PROVE OnlyPrimaryStreams'
  BY <1>7, <1>a DEF StopStreamingSession, Deactivate, SetStream, ManagerType
<1>8. ASSUME NEW s \in Slots, StopOtherNotLive(s) PROVE OnlyPrimaryStreams'
  BY <1>8, <1>a DEF StopOtherNotLive, SetStream, primaryVars, ManagerType
\* A stream is started for the primary camera only.
<1>9. ASSUME NEW s \in Slots, NEW r \in BOOLEAN, StartStream(s, r) PROVE OnlyPrimaryStreams'
  BY <1>9, <1>a DEF StartStream, Watching, SetStream, primaryVars, ManagerType
<1>10. ASSUME NEW s \in Slots, StopStream(s) PROVE OnlyPrimaryStreams'
  BY <1>10, <1>a DEF StopStream, SetStream, primaryVars, ManagerType
\* When the primary camera changes no camera has its stream on: the one before
\* has not, and any other would have been primary.
<1>11. ASSUME NEW s \in Slots, NEW p \in Push, SourceSet(s, p) PROVE OnlyPrimaryStreams'
  <2>1. \A r \in Push : ~(Live(r) /\ stream_started[r])
    <3>1. CASE primary_push = NoSlot
      BY <3>1
    <3>2. CASE primary_push # NoSlot
      BY <1>11, <3>2 DEF SourceSet, MaySwitch
    <3> QED BY <3>1, <3>2
  <2> QED BY <1>11, <2>1 DEF SourceSet, slotVars
<1>12. ASSUME NEW d \in Protos, DataTask(d) PROVE OnlyPrimaryStreams'
  BY <1>1, <1>12 DEF DataTask, ReadCommand, DataRestart, manager, slotVars, primaryVars
<1> QED
  BY <1>2, <1>3, <1>4, <1>5, <1>6, <1>7, <1>8, <1>9, <1>10, <1>11, <1>12
  DEF Next, Request, TaskStep, ConnectionStop

\* Whatever clients send, however connections end and however handlers and
\* tasks interleave, a camera whose session has its stream on is the primary
\* one (espfsp_session_manager.c, the START_STREAM, SOURCE_SET and
\* SESSION_TERMINATE handlers and espfsp_server_connection_stop).
THEOREM OnlyPrimaryStreamsAlways == Spec => []OnlyPrimaryStreams
<1>1. Init => OnlyPrimaryStreams
  BY SlotFacts DEF Init, OnlyPrimaryStreams, Live
<1>2. TypeOK /\ OnlyPrimaryStreams /\ [Next]_vars => OnlyPrimaryStreams'
  BY OnlyPrimaryStep
<1> QED BY <1>1, <1>2, TypeCorrect, PTL DEF Spec

\* At most one camera has its stream on at a time: "only one CLIENT_PUSH can
\* send DATA" (espfsp_session_manager.h).
AtMostOneStreams ==
    \A s, r \in Push : Live(s) /\ stream_started[s] /\ Live(r) /\ stream_started[r] => s = r

\* Consequence of the previous theorem for any number of cameras.
COROLLARY AtMostOneStreamsAlways == Spec => []AtMostOneStreams
<1>1. OnlyPrimaryStreams => AtMostOneStreams
  BY DEF OnlyPrimaryStreams, AtMostOneStreams
<1> QED BY <1>1, OnlyPrimaryStreamsAlways, PTL

-----------------------------------------------------------------------------
(* Where the tasks are, and whose session is primary.                      *)

\* Only a handler has calls to make, and only a connection has a session.
PlacesInv ==
    \A s \in Slots :
        /\ pc[s] \notin {"post", "stop"} => todo[s] = <<>>
        /\ active[s] <=> pc[s] # "none"
        /\ Live(s) => active[s]

\* Unless a slot has been given back with its session, the primary play client is
\* a session.
PrimaryInv == "abrupt" \notin upset => (primary_play # NoSlot => Live(primary_play))

On(s) == Live(s) /\ stream_started[s]

\* Without a change of play clients there is one session of a play client, and its
\* flag is that of the cameras.
AgreeInv ==
    upset \subseteq {"disturbed"} =>
        /\ \A s \in Play : Live(s) => primary_play = s
        /\ StreamOn <=> \E s \in Play : On(s)

\* What the next step of a handler in the middle of its calls does to them.
LEMMA CallSteps ==
    ASSUME TypeOK, NEW s \in Slots, NextCall(s)
    PROVE  /\ todo[s] # <<>> /\ UNCHANGED manager
           /\ \/ CallDone(s)
              \/ CallFails(s)
              \/ /\ Head(todo[s]).call = "stop_other" /\ UNCHANGED <<pc, upset>>
                 /\ \E r \in Slots : todo' = [todo EXCEPT ![s] =
                                                 <<Send(r, "STOP", session_id[r])>> \o Tail(@)]
<1>1. todo[s] # <<>> /\ UNCHANGED manager
  BY DEF NextCall, InsertAction, InsertCommand, LookUpOther, Rebuffer, Calling
<1>2. CASE InsertAction(s) \/ InsertCommand(s) \/ Rebuffer(s)
  BY <1>1, <1>2 DEF InsertAction, InsertCommand, Rebuffer
<1>3. CASE LookUpOther(s)
  <2>1. Head(todo[s]).call = "stop_other" /\ Head(todo[s]) \in Calls
    BY <1>1, <1>3, HeadCall, TypeSplit DEF LookUpOther, Calling
  <2>2. Head(todo[s]).to \in Slots \cup {NoSlot}
    BY <2>1, CallShapes
  <2> QED
    BY <1>1, <1>3, <2>1, <2>2 DEF LookUpOther
<1> QED
  BY <1>2, <1>3 DEF NextCall

LEMMA PlacesStep == ASSUME TypeOK, PlacesInv, [Next]_vars PROVE PlacesInv'
<1> USE SlotFacts
<1>a. TaskType /\ ManagerType
  BY TypeSplit
<1>1. CASE UNCHANGED vars
  BY <1>1 DEF vars, manager, slotVars, PlacesInv, Live
<1>2. ASSUME NEW s \in Slots, Accept(s) PROVE PlacesInv'
  BY <1>2, <1>a DEF Accept, PlacesInv, Live, Goto, TaskType, ManagerType
<1>3. ASSUME NEW s \in Slots, NEW where \in {"listen", "action", "closed", "exit"}, Goto(s, where),
             pc[s] \notin {"none", "post", "stop"}, UNCHANGED <<active, todo>>,
             \A r \in Slots : Live(r)' => Live(r)
      PROVE  PlacesInv'
  BY <1>3, <1>a DEF PlacesInv, Goto, TaskType
<1>4. ASSUME NEW s \in Slots,
             \/ NothingToDo(s) \/ RunFails(s) \/ PeerGone(s) \/ SendAction(s) \/ NoAction(s)
             \/ StopWithoutSession(s) \/ StopOtherNotLive(s) \/ \E p \in Push : SourceSet(s, p)
      PROVE  PlacesInv'
  <2>1. UNCHANGED <<active, session_id, todo>> /\ pc[s] \notin {"none", "post", "stop"}
    BY <1>4 DEF NothingToDo, RunFails, PeerGone, SendAction, NoAction, StopWithoutSession,
                StopOtherNotLive, SourceSet, Listening, manager, slotVars
  <2>2. \E where \in {"listen", "action", "closed", "exit"} : Goto(s, where)
    BY <1>4 DEF NothingToDo, RunFails, PeerGone, SendAction, NoAction, StopWithoutSession,
                StopOtherNotLive, SourceSet
  <2>3. \A r \in Slots : Live(r)' => Live(r)
    BY <2>1 DEF Live
  <2> QED
    BY <1>3, <2>1, <2>2, <2>3
<1>5. ASSUME NEW s \in Slots, SessionTerminate(s) \/ StopIdleSession(s) PROVE PlacesInv'
  <2>1. UNCHANGED <<active, todo>> /\ pc[s] \notin {"none", "post", "stop"}
    BY <1>5 DEF SessionTerminate, StopIdleSession, Listening
  <2>2. \E where \in {"listen", "action", "closed", "exit"} : Goto(s, where)
    BY <1>5 DEF SessionTerminate, StopIdleSession
  <2>3. \A r \in Slots : Live(r)' => Live(r)
    BY <1>5, <1>a DEF SessionTerminate, StopIdleSession, Deactivate, Live, ManagerType
  <2> QED
    BY <1>3, <2>1, <2>2, <2>3
<1>6. ASSUME NEW s \in Slots, NEW where \in {"post", "stop"}, NEW calls, Then(s, where, calls),
             pc[s] # "none", UNCHANGED active, \A r \in Slots \ {s} : Live(r)' => Live(r)
      PROVE  PlacesInv'
  BY <1>6, <1>a DEF PlacesInv, Then, Goto, TaskType
<1>7. ASSUME NEW s \in Slots, SessionInit(s) \/ StopStreamingSession(s) PROVE PlacesInv'
  <2>1. UNCHANGED active /\ pc[s] # "none"
    BY <1>7 DEF SessionInit, StopStreamingSession, Listening
  <2>2. \E where \in {"post", "stop"} : \E calls : Then(s, where, calls)
    BY <1>7 DEF SessionInit, StopStreamingSession
  <2>3. \A r \in Slots \ {s} : Live(r)' => Live(r)
    BY <1>7, <1>a DEF SessionInit, StopStreamingSession, Deactivate, Live, ManagerType
  <2> QED
    BY <1>6, <2>1, <2>2, <2>3
<1>8. ASSUME NEW s \in Slots,
             \/ SetParams(s) \/ GetParams(s) \/ SourceGet(s) \/ StopStream(s)
             \/ \E rebuffer \in BOOLEAN : StartStream(s, rebuffer)
      PROVE  PlacesInv'
  <2>1. UNCHANGED <<active, session_id>> /\ pc[s] # "none"
    BY <1>8 DEF SetParams, GetParams, SourceGet, StopStream, StartStream, Watching, Listening,
                manager, slotVars
  <2>2. \E calls : Then(s, "post", calls)
    BY <1>8 DEF SetParams, GetParams, SourceGet, StopStream, StartStream
  <2>3. \A r \in Slots : Live(r)' => Live(r)
    BY <2>1 DEF Live
  <2> QED
    BY <1>6, <2>1, <2>2, <2>3
<1>9. ASSUME NEW s \in Slots, ReturnSlot(s) PROVE PlacesInv'
  BY <1>9, <1>a DEF ReturnSlot, PlacesInv, Live, Goto, TaskType, ManagerType
<1>10. ASSUME NEW s \in Slots, NextCall(s) PROVE PlacesInv'
  <2>1. todo[s] # <<>> /\ UNCHANGED <<active, session_id>>
    BY <1>10, CallSteps DEF manager, slotVars
  <2>2. pc[s] \in {"post", "stop"}
    BY <2>1 DEF PlacesInv
  <2>3. todo[s] \in Seq(Calls)
    BY <1>a DEF TaskType
  <2>4. CASE CallDone(s) /\ Len(todo[s]) = 1
    <3>1. Tail(todo[s]) \in Seq(Calls) /\ Len(Tail(todo[s])) = 0
      BY <2>1, <2>3, <2>4
    <3>2. Tail(todo[s]) = <<>>
      BY <3>1, EmptySeq
    <3> QED
      BY <1>a, <2>1, <2>2, <2>4, <3>2 DEF CallDone, After, Goto, PlacesInv, Live, TaskType
  <2>5. CASE pc' = pc /\ \A r \in Slots \ {s} : todo'[r] = todo[r]
    BY <2>1, <2>2, <2>5 DEF PlacesInv, Live
  <2>6. CASE CallFails(s)
    BY <1>a, <2>1, <2>2, <2>6 DEF CallFails, Then, Goto, PlacesInv, Live, TaskType
  <2>7. CASE CallDone(s) /\ Len(todo[s]) # 1
    BY <1>a, <2>5, <2>7 DEF CallDone, TaskType
  <2>8. ASSUME NEW calls, todo' = [todo EXCEPT ![s] = calls], UNCHANGED pc PROVE PlacesInv'
    BY <1>a, <2>5, <2>8 DEF TaskType
  <2> QED
    BY <1>10, <2>4, <2>6, <2>7, <2>8, CallSteps
<1>11. ASSUME NEW d \in Protos, DataTask(d) PROVE PlacesInv'
  BY <1>11 DEF DataTask, ReadCommand, DataRestart, manager, slotVars, PlacesInv, Live
<1> QED
  BY <1>1, <1>2, <1>4, <1>5, <1>7, <1>8, <1>9, <1>10, <1>11
  DEF Next, Request, TaskStep, ConnectionStop

\* What has upset the stream is not forgotten.
LEMMA UpsetGrows == [Next]_vars => upset \subseteq upset'
  BY DEF Next, Request, TaskStep, ConnectionStop, NextCall, DataTask, Accept, PeerGone, RunFails,
         NothingToDo, SendAction, NoAction, ReturnSlot, SessionInit, SessionTerminate, StartStream,
         StopStream, SetParams, GetParams, SourceGet, SourceSet, StopWithoutSession,
         StopIdleSession, StopStreamingSession, StopOtherNotLive, InsertAction, InsertCommand,
         LookUpOther, Rebuffer, CallFails, ReadCommand, DataRestart, vars

LEMMA PrimaryStep == ASSUME TypeOK, PlacesInv, PrimaryInv, [Next]_vars PROVE PrimaryInv'
<1> SUFFICES ASSUME "abrupt" \notin upset' PROVE primary_play' # NoSlot => Live(primary_play)'
  BY DEF PrimaryInv
<1> USE SlotFacts
<1>a. ManagerType
  BY TypeSplit
<1>b. primary_play # NoSlot => Live(primary_play) /\ primary_play \in Slots
  BY <1>a, UpsetGrows DEF PrimaryInv, ManagerType
<1>1. CASE UNCHANGED <<session_id, primary_play>>
  BY <1>b, <1>1 DEF Live
<1>2. ASSUME NEW s \in Slots, Accept(s) PROVE primary_play' # NoSlot => Live(primary_play)'
  <2>1. ~Live(s)
    BY <1>2 DEF Accept, PlacesInv
  <2> QED
    BY <1>2, <1>a, <1>b, <2>1 DEF Accept, Live, primaryVars, ManagerType
<1>3. ASSUME NEW s \in Slots, SessionInit(s) PROVE primary_play' # NoSlot => Live(primary_play)'
  BY <1>3, <1>a, <1>b, MaxIdAssumption DEF SessionInit, Live, ManagerType, NoId
<1>4. ASSUME NEW s \in Slots, Deactivate(s) PROVE primary_play' # NoSlot => Live(primary_play)'
  BY <1>4, <1>a, <1>b DEF Deactivate, Live, ManagerType
<1>5. ASSUME NEW s \in Slots, ReturnSlot(s) PROVE primary_play' # NoSlot => Live(primary_play)'
  <2>1. ~Live(s)
    BY <1>5 DEF ReturnSlot
  <2> QED
    BY <1>5, <1>a, <1>b, <2>1 DEF ReturnSlot, Live, primaryVars, ManagerType
<1> QED
  BY <1>1, <1>2, <1>3, <1>4, <1>5
  DEF Next, Request, TaskStep, ConnectionStop, NextCall, DataTask, PeerGone, RunFails,
      NothingToDo, SendAction, NoAction, SessionTerminate, StartStream,
      StopStream, SetParams, GetParams, SourceGet, SourceSet, StopWithoutSession,
      StopIdleSession, StopStreamingSession, StopOtherNotLive, InsertAction, InsertCommand,
      LookUpOther, Rebuffer, ReadCommand, DataRestart, vars, manager, slotVars, primaryVars

\* A session comes, goes or gives up its slot: no flag that counts changes.
LEMMA OnKept ==
    ASSUME TypeOK, OnlyPrimaryStreams, PlacesInv, PrimaryInv, "abrupt" \notin upset', NEW s \in Slots,
           \/ Accept(s) \/ SessionInit(s) \/ SessionTerminate(s) \/ StopIdleSession(s)
           \/ StopOtherNotLive(s) \/ ReturnSlot(s)
    PROVE  /\ \A r \in Push : On(r)' <=> On(r)
           /\ (\A r \in Play : Live(r) => primary_play = r) => \A r \in Play : On(r)' <=> On(r)
<1> USE SlotFacts
<1>a. ManagerType
  BY TypeSplit
<1>1. ASSUME \A r \in Slots \ {s} : session_id'[r] = session_id[r] /\ stream_started'[r] = stream_started[r],
             ~On(s), ~On(s)'
      PROVE  \A r \in Slots : On(r)' <=> On(r)
  BY <1>1 DEF On, Live
<1>2. CASE Accept(s)
  <2>1. ~Live(s)
    BY <1>2 DEF Accept, PlacesInv
  <2> QED
    BY <1>1, <1>2, <1>a, <2>1 DEF Accept, On, Live, ManagerType
<1>3. CASE SessionInit(s)
  BY <1>1, <1>3, <1>a DEF SessionInit, On, Live, ManagerType
<1>4. CASE SessionTerminate(s)
  BY <1>1, <1>4, <1>a DEF SessionTerminate, Deactivate, On, Live, ManagerType
<1>5. CASE StopIdleSession(s)
  <2>1. /\ \A r \in Slots \ {s} : session_id'[r] = session_id[r]
        /\ session_id'[s] = NoId /\ stream_started' = stream_started
    BY <1>5, <1>a DEF StopIdleSession, Deactivate, ManagerType
  <2>2. s \in Push => ~On(s)
    BY <1>5 DEF StopIdleSession, Streams, Primary, OnlyPrimaryStreams, On
  <2>3. (\A r \in Play : Live(r) => primary_play = r) /\ s \in Play => ~On(s)
    BY <1>5 DEF StopIdleSession, Streams, Primary, On
  <2> QED
    BY <2>1, <2>2, <2>3 DEF On, Live
<1>6. CASE StopOtherNotLive(s)
  <2>1. s \notin Push
    <3> SUFFICES ASSUME s \in Push PROVE FALSE
      OBVIOUS
    <3>1. primary_play # NoSlot /\ ~Live(primary_play) /\ "abrupt" \notin upset
      BY <1>6 DEF StopOtherNotLive, OtherPrimary
    <3> QED
      BY <3>1 DEF PrimaryInv
  <2>2. \A r \in Slots : session_id'[r] = session_id[r] /\ stream_started'[r] = stream_started[r]
    BY <1>6, <1>a, <2>1 DEF StopOtherNotLive, SetStream, ManagerType
  <2> QED
    BY <2>2 DEF On, Live
<1>7. CASE ReturnSlot(s)
  <2>1. ~Live(s)
    BY <1>7 DEF ReturnSlot
  <2> QED
    BY <1>1, <1>7, <1>a, <2>1 DEF ReturnSlot, On, Live, ManagerType
<1> QED
  BY <1>2, <1>3, <1>4, <1>5, <1>6, <1>7

\* The stream is started, or stopped by a request: for both ends.
LEMMA OnTurned ==
    ASSUME TypeOK, OnlyPrimaryStreams, NEW s \in Slots, NEW on \in BOOLEAN,
           Watching(s), SetStream({primary_push, s}, on), UNCHANGED session_id
    PROVE  /\ StreamOn' <=> on
           /\ (\A r \in Play : Live(r) => primary_play = r) => ((\E r \in Play : On(r)') <=> on)
<1> USE SlotFacts
<1>a. ManagerType
  BY TypeSplit
<1>1. /\ primary_push \in Push /\ s \in Play
      /\ session_id'[primary_push] # NoId /\ Live(s)'
      /\ \A r \in Slots : Live(r)' <=> Live(r)
      /\ stream_started'[primary_push] = on /\ stream_started'[s] = on
      /\ \A r \in Slots \ {primary_push, s} : stream_started'[r] = stream_started[r]
  <2>1. primary_push \in Push /\ s \in Play /\ Live(primary_push) /\ Live(s)
    BY <1>a DEF Watching, ManagerType
  <2>2. \A r \in Slots : Live(r)' <=> Live(r)
    BY DEF Live
  <2>3. \A r \in Slots : stream_started'[r] = IF r \in {primary_push, s} THEN on ELSE stream_started[r]
    BY DEF SetStream
  <2>4. stream_started'[primary_push] = on /\ stream_started'[s] = on
    BY <2>1, <2>3
  <2>5. session_id'[primary_push] # NoId /\ Live(s)'
    BY <2>1 DEF Live
  <2> QED
    BY <2>1, <2>2, <2>3, <2>4, <2>5
<1>2. \A r \in Push \ {primary_push} : ~(Live(r) /\ stream_started[r])
  BY DEF OnlyPrimaryStreams
<1>3. (\A r \in Play : Live(r) => primary_play = r) => \A r \in Play \ {s} : ~Live(r)
  BY <1>1
<1>4. StreamOn' <=> on
  <2>1. \A r \in Push \ {primary_push} : ~(Live(r)' /\ stream_started'[r])
    BY <1>1, <1>2
  <2>2. (session_id'[primary_push] # NoId /\ stream_started'[primary_push]) <=> on
    BY <1>1
  <2> QED
    BY <1>1, <2>1, <2>2 DEF StreamOn, Live
<1>5. (\A r \in Play : Live(r) => primary_play = r) => ((\E r \in Play : On(r)') <=> on)
  BY <1>1, <1>3 DEF On
<1> QED
  BY <1>4, <1>5

\* The stream is stopped because one end is lost: for both.
LEMMA OnStopped ==
    ASSUME TypeOK, OnlyPrimaryStreams, NEW s \in Slots, StopStreamingSession(s)
    PROVE  /\ ~StreamOn'
           /\ (\A r \in Play : Live(r) => primary_play = r) => \A r \in Play : ~On(r)'
<1> USE SlotFacts
<1>a. ManagerType
  BY TypeSplit
<1>1. /\ \A r \in Slots : stream_started'[r] = IF r \in {s, OtherPrimary(s)} THEN FALSE ELSE stream_started[r]
      /\ \A r \in Slots : Live(r)' => Live(r)
  BY <1>a DEF StopStreamingSession, SetStream, Deactivate, ManagerType, Live
<1>2. primary_push \in {s, OtherPrimary(s)} /\ primary_play \in {s, OtherPrimary(s)}
  BY DEF StopStreamingSession, Streams, Primary, OtherPrimary
<1>3. \A r \in Push : ~(Live(r)' /\ stream_started'[r])
  BY <1>1, <1>2 DEF OnlyPrimaryStreams
<1>4. (\A r \in Play : Live(r) => primary_play = r) => \A r \in Play : ~(Live(r)' /\ stream_started'[r])
  BY <1>1, <1>2
<1> QED
  BY <1>3, <1>4 DEF StreamOn, On

\* The steps that leave sessions and flags alone.
LEMMA OtherSteps ==
    ASSUME [Next]_vars
    PROVE  \/ UNCHANGED <<session_id, stream_started, primary_play>>
           \/ \E s \in Slots :
                \/ Accept(s) \/ SessionInit(s) \/ SessionTerminate(s) \/ StopIdleSession(s)
                \/ StopOtherNotLive(s) \/ ReturnSlot(s)
                \/ StopStream(s) \/ StopStreamingSession(s)
                \/ \E rebuffer \in BOOLEAN : StartStream(s, rebuffer)
  BY DEF Next, Request, TaskStep, ConnectionStop, NextCall, DataTask, PeerGone, RunFails,
         NothingToDo, SendAction, NoAction, SetParams, GetParams, SourceGet, SourceSet,
         StopWithoutSession, InsertAction, InsertCommand, LookUpOther, Rebuffer, ReadCommand,
         DataRestart, vars, manager, slotVars, primaryVars

LEMMA AgreeStep ==
    ASSUME TypeOK, OnlyPrimaryStreams, PlacesInv, PrimaryInv, AgreeInv, [Next]_vars
    PROVE  AgreeInv'
<1> SUFFICES ASSUME upset' \subseteq {"disturbed"} PROVE AgreeInv'
  BY DEF AgreeInv
<1> USE SlotFacts
<1>a. ManagerType
  BY TypeSplit
<1>b. /\ upset \subseteq {"disturbed"} /\ "abrupt" \notin upset'
      /\ \A r \in Play : Live(r) => primary_play = r
      /\ StreamOn <=> \E r \in Play : On(r)
  BY UpsetGrows DEF AgreeInv
<1>1. CASE UNCHANGED <<session_id, stream_started, primary_play>>
  BY <1>b, <1>1 DEF AgreeInv, StreamOn, On, Live
<1>2. ASSUME NEW s \in Slots,
             \/ Accept(s) \/ SessionInit(s) \/ SessionTerminate(s) \/ StopIdleSession(s)
             \/ StopOtherNotLive(s) \/ ReturnSlot(s)
      PROVE  AgreeInv'
  <2>1. (\A r \in Push : On(r)' <=> On(r)) /\ (\A r \in Play : On(r)' <=> On(r))
    BY <1>2, <1>b, OnKept
  <2>2. StreamOn' <=> \E r \in Play : On(r)'
    BY <1>b, <2>1 DEF StreamOn, On
  <2>3. \A r \in Play : Live(r)' => primary_play' = r
    <3>1. CASE SessionInit(s)
      <4>1. s \in Play => primary_play \in {NoSlot, s}
        BY <3>1 DEF SessionInit
      <4>2. \A r \in Play \ {s} : s \in Play => ~Live(r)
        BY <1>b, <4>1
      <4> QED
        BY <1>a, <1>b, <3>1, <4>2 DEF SessionInit, Live, ManagerType
    <3>2. CASE SessionTerminate(s) \/ StopIdleSession(s)
      BY <1>a, <1>b, <3>2 DEF SessionTerminate, StopIdleSession, Deactivate, Live, ManagerType
    <3>3. CASE Accept(s) \/ StopOtherNotLive(s) \/ ReturnSlot(s)
      BY <1>a, <1>b, <3>3 DEF Accept, StopOtherNotLive, ReturnSlot, Live, ManagerType, primaryVars
    <3> QED
      BY <1>2, <3>1, <3>2, <3>3
  <2> QED
    BY <2>2, <2>3 DEF AgreeInv
<1>3. ASSUME NEW s \in Slots, StopStream(s) \/ \E rebuffer \in BOOLEAN : StartStream(s, rebuffer)
      PROVE  AgreeInv'
  <2>1. /\ \E on \in BOOLEAN : SetStream({primary_push, s}, on)
        /\ Watching(s) /\ UNCHANGED <<session_id, primary_play>>
    BY <1>3 DEF StopStream, StartStream, primaryVars
  <2>2. StreamOn' <=> \E r \in Play : On(r)'
    BY <1>b, <2>1, OnTurned
  <2> QED
    BY <1>b, <2>1, <2>2 DEF AgreeInv, Live
<1>4. ASSUME NEW s \in Slots, StopStreamingSession(s) PROVE AgreeInv'
  <2>1. \A r \in Play : Live(r)' => primary_play' = r
    BY <1>4, <1>a, <1>b DEF StopStreamingSession, Deactivate, Live, ManagerType
  <2> QED
    BY <1>4, <1>b, <2>1, OnStopped DEF AgreeInv
<1> QED
  BY <1>1, <1>2, <1>3, <1>4, OtherSteps

LEMMA AgreeAlways == Spec => [](TypeOK /\ OnlyPrimaryStreams /\ PlacesInv /\ PrimaryInv /\ AgreeInv)
<1>1. Init => PlacesInv /\ PrimaryInv /\ AgreeInv
  BY SlotFacts DEF Init, PlacesInv, PrimaryInv, AgreeInv, Live, On, StreamOn
<1>2. TypeOK /\ OnlyPrimaryStreams /\ PlacesInv /\ PrimaryInv /\ AgreeInv /\ [Next]_vars
        => (PlacesInv /\ PrimaryInv /\ AgreeInv)'
  BY PlacesStep, PrimaryStep, AgreeStep
<1> QED
  BY <1>1, <1>2, TypeCorrect, OnlyPrimaryStreamsAlways, PTL DEF Spec

\* For any number of cameras and play clients, whatever they send and however
\* their connections are lost, the two ends of the stream agree on whether it is
\* on, as START_STREAM, STOP_STREAM and SOURCE_SET take for granted: until a
\* session ends without espfsp_server_connection_stop or a play client takes the
\* place of another (activate_session in espfsp_session_manager.c).
THEOREM StreamsAlwaysAgree == Spec => []StreamsAgreeUnlessAbrupt
<1>1. TypeOK /\ OnlyPrimaryStreams /\ PrimaryInv /\ AgreeInv => StreamsAgreeUnlessAbrupt
  <2> SUFFICES ASSUME TypeOK, OnlyPrimaryStreams, AgreeInv, upset \subseteq {"disturbed"},
                      primary_push # NoSlot, Live(primary_push),
                      primary_play # NoSlot, Live(primary_play)
               PROVE  stream_started[primary_push] = stream_started[primary_play]
    BY DEF StreamsAgreeUnlessAbrupt
  <2>1. /\ primary_push \in Push /\ primary_play \in Play
        /\ stream_started[primary_push] \in BOOLEAN /\ stream_started[primary_play] \in BOOLEAN
    BY TypeSplit, SlotFacts DEF ManagerType
  <2>2. StreamOn <=> stream_started[primary_push]
    BY <2>1 DEF StreamOn, OnlyPrimaryStreams
  <2>3. (\E r \in Play : On(r)) <=> stream_started[primary_play]
    BY <2>1 DEF AgreeInv, On
  <2> QED
    BY <2>1, <2>2, <2>3 DEF AgreeInv
<1> QED
  BY <1>1, AgreeAlways, PTL

-----------------------------------------------------------------------------
(* The commands on their way to the data tasks.                            *)

\* What a data task does once it has read its commands.
LastCommand(d) ==
    IF startStopQueue[d] = <<>> THEN running[d]
    ELSE startStopQueue[d][Len(startStopQueue[d])] = "START"

\* The task of a connection still has calls to make for the stream, or a command to
\* give to a data task.
Streaming(s) == \E i \in DOMAIN todo[s] : StreamCall(todo[s][i])
Telling(s, d) == \E i \in DOMAIN todo[s] : todo[s][i].call = "data" /\ todo[s][i].to = d

\* One handler at most has calls to make for the stream, its commands are those
\* the flags want, and a data task nobody is about to tell has been told.
CommandInv ==
    upset \subseteq {"replaced"} =>
        /\ \A s, r \in Slots : Streaming(s) /\ Streaming(r) => s = r
        /\ \A s \in Slots : \A i \in DOMAIN todo[s] :
              todo[s][i].call = "data" => (todo[s][i].cmd = "START" <=> StreamOn)
        /\ \A d \in Protos : (\A s \in Slots : ~Telling(s, d)) => (LastCommand(d) <=> StreamOn)

LEMMA LastIsAppended ==
    ASSUME QueueType, NEW d \in Protos, NEW cmd \in {"START", "STOP"},
           startStopQueue' = [startStopQueue EXCEPT ![d] = Append(@, cmd)]
    PROVE  LastCommand(d)' <=> cmd = "START"
<1>1. startStopQueue[d] \in Seq({"START", "STOP"}) /\ startStopQueue'[d] = Append(startStopQueue[d], cmd)
  BY DEF QueueType
<1>2. /\ startStopQueue'[d] # <<>>
      /\ startStopQueue'[d][Len(startStopQueue'[d])] = cmd
  BY <1>1
<1> QED
  BY <1>2 DEF LastCommand

LEMMA LastStaysLast ==
    ASSUME QueueType, NEW d \in Protos, ReadCommand(d)
    PROVE  LastCommand(d)' <=> LastCommand(d)
<1> DEFINE q == startStopQueue[d]
<1>1. /\ q \in Seq({"START", "STOP"}) /\ q # <<>> /\ startStopQueue'[d] = Tail(q)
      /\ running'[d] <=> Head(q) = "START"
  BY DEF QueueType, ReadCommand
<1>2. /\ Tail(q) \in Seq({"START", "STOP"}) /\ Len(Tail(q)) = Len(q) - 1 /\ Len(q) \in Nat \ {0}
      /\ \A i \in 1 .. Len(q) - 1 : Tail(q)[i] = q[i + 1]
      /\ Head(q) = q[1]
  BY <1>1
<1> HIDE DEF q
<1>3. CASE Len(q) = 1
  <2>1. Tail(q) \in Seq({"START", "STOP"}) /\ Len(Tail(q)) = 0
    BY <1>2, <1>3
  <2>2. Tail(q) = <<>>
    BY <2>1, EmptySeq
  <2> QED
    BY <1>1, <1>2, <1>3, <2>2 DEF LastCommand, q
<1>4. CASE Len(q) # 1
  <2> DEFINE n == Len(q) - 1
  <2>1. n \in 1 .. Len(q) - 1 /\ n + 1 = Len(q) /\ Len(Tail(q)) = n /\ n # 0
    BY <1>2, <1>4
  <2>2. Tail(q)[n] = q[n + 1]
    BY <1>2, <2>1
  <2>3. Tail(q) # <<>>
    BY <2>1, EmptySeq
  <2>4. Tail(q)[Len(Tail(q))] = q[Len(q)]
    BY <2>1, <2>2
  <2> QED
    BY <1>1, <2>3, <2>4 DEF LastCommand, q
<1> QED
  BY <1>3, <1>4

\* Giving a command is a call for the stream.
LEMMA TellingIsStreaming == \A s \in Slots, d \in Protos : Telling(s, d) => Streaming(s)
  BY DEF Telling, Streaming, StreamCall

\* Neither the flags nor the calls for the stream change.
LEMMA CommandsKept ==
    ASSUME CommandInv, upset \subseteq upset', UNCHANGED <<startStopQueue, running>>, StreamOn' <=> StreamOn,
           \A s \in Slots : todo'[s] = todo[s] \/ (~Streaming(s) /\ ~Streaming(s)')
    PROVE  CommandInv'
<1> SUFFICES ASSUME upset' \subseteq {"replaced"} PROVE CommandInv'
  BY DEF CommandInv
<1>1. upset \subseteq {"replaced"}
  OBVIOUS
<1>2. \A s \in Slots : Streaming(s)' <=> Streaming(s)
  BY DEF Streaming
<1>3. \A s \in Slots, d \in Protos : Telling(s, d)' <=> Telling(s, d)
  BY DEF Streaming, Telling, StreamCall
<1>4. \A s \in Slots : \A i \in DOMAIN todo'[s] :
         todo'[s][i].call = "data" => (todo'[s][i].cmd = "START" <=> StreamOn')
  BY <1>1 DEF CommandInv, Streaming, StreamCall
<1>5. \A d \in Protos : LastCommand(d)' <=> LastCommand(d)
  BY DEF LastCommand
<1> QED
  BY <1>1, <1>2, <1>3, <1>4, <1>5 DEF CommandInv

\* A handler that finds no other with calls for the stream starts or stops it.
LEMMA CommandsBegin ==
    ASSUME TypeOK, CommandInv, upset \subseteq upset', NEW s \in Slots, NEW calls,
           todo' = [todo EXCEPT ![s] = calls], upset' = upset \cup Race(s),
           \A i \in DOMAIN calls : calls[i].call = "data" => (calls[i].cmd = "START" <=> StreamOn'),
           \A d \in Protos : \E i \in DOMAIN calls : calls[i].call = "data" /\ calls[i].to = d
    PROVE  CommandInv'
<1> SUFFICES ASSUME upset' \subseteq {"replaced"} PROVE CommandInv'
  BY DEF CommandInv
<1>1. todo'[s] = calls /\ \A r \in Slots \ {s} : todo'[r] = todo[r]
  BY DEF TypeOK
<1>2. \A r \in Slots \ {s} : ~Streaming(r)
  BY DEF Race, OthersPending, Streaming
<1>3. \A r \in Slots \ {s} : ~Streaming(r)'
  BY <1>1, <1>2 DEF Streaming
<1>4. \A r \in Slots : \A i \in DOMAIN todo'[r] :
         todo'[r][i].call = "data" => (todo'[r][i].cmd = "START" <=> StreamOn')
  BY <1>1, <1>2 DEF Streaming, StreamCall
<1>5. \A d \in Protos : Telling(s, d)'
  BY <1>1 DEF Telling
<1> QED
  BY <1>3, <1>4, <1>5 DEF CommandInv

\* The first call is done, and was no command.
LEMMA CommandsGoOn ==
    ASSUME TypeOK, CommandInv, upset \subseteq upset', StreamOn' <=> StreamOn, NEW s \in Slots,
           todo[s] # <<>>, todo' = [todo EXCEPT ![s] = Tail(@)],
           \A d \in Protos : \/ Head(todo[s]).call = "data" /\ Head(todo[s]).to = d
                                /\ (LastCommand(d)' <=> Head(todo[s]).cmd = "START")
                             \/ ~(Head(todo[s]).call = "data" /\ Head(todo[s]).to = d)
                                /\ (LastCommand(d)' <=> LastCommand(d))
    PROVE  CommandInv'
<1> SUFFICES ASSUME upset' \subseteq {"replaced"} PROVE CommandInv'
  BY DEF CommandInv
<1>1. todo'[s] = Tail(todo[s]) /\ \A r \in Slots \ {s} : todo'[r] = todo[r]
  BY DEF TypeOK
<1>2. /\ 1 \in DOMAIN todo[s] /\ Head(todo[s]) = todo[s][1]
      /\ \A i \in DOMAIN Tail(todo[s]) : i + 1 \in DOMAIN todo[s] /\ Tail(todo[s])[i] = todo[s][i + 1]
      /\ \A i \in DOMAIN todo[s] : i = 1 \/ (i - 1 \in DOMAIN Tail(todo[s]) /\ Tail(todo[s])[i - 1] = todo[s][i])
  <2>1. todo[s] \in Seq(Calls) /\ todo[s] # <<>>
    BY DEF TypeOK
  <2>2. Len(todo[s]) \in Nat \ {0} /\ Len(Tail(todo[s])) = Len(todo[s]) - 1 /\ Head(todo[s]) = todo[s][1]
    BY <2>1
  <2>3. \A i \in 1 .. Len(todo[s]) - 1 : Tail(todo[s])[i] = todo[s][i + 1]
    BY <2>1
  <2>4. DOMAIN todo[s] = 1 .. Len(todo[s]) /\ DOMAIN Tail(todo[s]) = 1 .. Len(todo[s]) - 1
    BY <2>1, <2>2
  <2> QED
    BY <2>2, <2>3, <2>4
<1>3. \A r \in Slots : \A i \in DOMAIN todo'[r] : \E j \in DOMAIN todo[r] : todo'[r][i] = todo[r][j]
  BY <1>1, <1>2
<1>4. \A r \in Slots : Streaming(r)' => Streaming(r)
  BY <1>3 DEF Streaming
<1>5. \A r \in Slots : \A i \in DOMAIN todo'[r] :
         todo'[r][i].call = "data" => (todo'[r][i].cmd = "START" <=> StreamOn')
  BY <1>3 DEF CommandInv
<1>6. ASSUME NEW d \in Protos, \A r \in Slots : ~Telling(r, d)' PROVE LastCommand(d)' <=> StreamOn'
  <2>1. CASE Head(todo[s]).call = "data" /\ Head(todo[s]).to = d
    BY <1>2, <2>1 DEF CommandInv
  <2>2. CASE ~(Head(todo[s]).call = "data" /\ Head(todo[s]).to = d)
    <3>1. \A r \in Slots \ {s} : ~Telling(r, d)
      BY <1>1, <1>6 DEF Telling
    <3>2. \A i \in DOMAIN todo[s] : ~(todo[s][i].call = "data" /\ todo[s][i].to = d)
      <4> SUFFICES ASSUME NEW i \in DOMAIN todo[s], todo[s][i].call = "data", todo[s][i].to = d PROVE FALSE
        OBVIOUS
      <4>1. i # 1
        BY <1>2, <2>2
      <4>2. i - 1 \in DOMAIN todo'[s] /\ todo'[s][i - 1] = todo[s][i]
        BY <1>1, <1>2, <4>1
      <4> QED
        BY <1>6, <4>2 DEF Telling
    <3>3. ~Telling(s, d)
      BY <3>2 DEF Telling
    <3> QED
      BY <2>2, <3>1, <3>3 DEF CommandInv
  <2> QED
    BY <2>1, <2>2
<1> QED
  BY <1>4, <1>5, <1>6 DEF CommandInv
\* Starting and stopping tell both data tasks, and neither of them otherwise.
LEMMA StartTells ==
    ASSUME NEW rebuffer \in BOOLEAN, NEW p
    PROVE  /\ \A i \in DOMAIN StartCalls(rebuffer, p) :
                 StartCalls(rebuffer, p)[i].call = "data" => StartCalls(rebuffer, p)[i].cmd = "START"
           /\ \A d \in Protos : \E i \in DOMAIN StartCalls(rebuffer, p) :
                 StartCalls(rebuffer, p)[i].call = "data" /\ StartCalls(rebuffer, p)[i].to = d
<1> DEFINE a == Data("push", "START")
           b == Data("play", "START")
           c == Send(p, "START", session_id[p])
           r == [call |-> "rebuffer"]
<1>1. /\ a.call = "data" /\ a.to = "push" /\ a.cmd = "START"
      /\ b.call = "data" /\ b.to = "play" /\ b.cmd = "START"
      /\ c.call # "data" /\ r.call # "data"
  BY DEF Data, Send
<1>2. StartCalls(rebuffer, p) = (IF rebuffer THEN <<r>> ELSE <<>>) \o <<a, b, c>>
  BY DEF StartCalls
<1> HIDE DEF a, b, c, r
<1> DEFINE T == {a, b, c, r}
           tells == <<a, b, c>>
<1>3. /\ tells \in Seq(T) /\ Len(tells) = 3 /\ DOMAIN tells = 1 .. 3
      /\ tells[1] = a /\ tells[2] = b /\ tells[3] = c
  OBVIOUS
<1> HIDE DEF tells, T
<1>4. CASE rebuffer
  <2> DEFINE calls == <<r>> \o tells
  <2>1. /\ Len(calls) = 4 /\ DOMAIN calls = 1 .. 4
        /\ calls[1] = r /\ calls[2] = tells[1] /\ calls[3] = tells[2] /\ calls[4] = tells[3]
    <3> DEFINE one == <<r>>
    <3>1. one \in Seq(T) /\ Len(one) = 1 /\ one[1] = r
      BY DEF T
    <3> HIDE DEF one
    <3>2. /\ one \o tells \in Seq(T) /\ Len(one \o tells) = 4
          /\ \A i \in 1 .. 4 : (one \o tells)[i] = IF i <= 1 THEN one[i] ELSE tells[i - 1]
      <4>1. /\ one \o tells \in Seq(T) /\ Len(one \o tells) = Len(one) + Len(tells)
            /\ \A i \in 1 .. Len(one) + Len(tells) :
                  (one \o tells)[i] = IF i <= Len(one) THEN one[i] ELSE tells[i - Len(one)]
        BY <1>3, <3>1, ConcatProperties
      <4> QED
        BY <1>3, <3>1, <4>1
    <3> QED
      BY <3>1, <3>2 DEF one
  <2>2. StartCalls(rebuffer, p) = calls
    BY <1>2, <1>4 DEF tells
  <2> QED
    BY <1>1, <1>3, <2>1, <2>2 DEF Protos
<1>5. CASE ~rebuffer
  <2>1. StartCalls(rebuffer, p) = tells
    BY <1>2, <1>3, <1>5, ConcatEmptySeq DEF tells
  <2> QED
    BY <1>1, <1>3, <2>1 DEF Protos
<1> QED
  BY <1>4, <1>5

LEMMA StopTells ==
    ASSUME NEW first, first.call # "data", NEW calls,
           calls = <<first, Data("push", "STOP"), Data("play", "STOP")>>
    PROVE  /\ \A i \in DOMAIN calls : calls[i].call = "data" => calls[i].cmd # "START"
           /\ \A d \in Protos : \E i \in DOMAIN calls : calls[i].call = "data" /\ calls[i].to = d
<1> DEFINE a == Data("push", "STOP")
           b == Data("play", "STOP")
<1>1. /\ a.call = "data" /\ a.to = "push" /\ a.cmd = "STOP"
      /\ b.call = "data" /\ b.to = "play" /\ b.cmd = "STOP"
  BY DEF Data
<1>2. calls = <<first, a, b>> /\ DOMAIN calls = 1 .. 3
  OBVIOUS
<1> HIDE DEF a, b
<1> QED
  BY <1>1, <1>2 DEF Protos

\* The message for the other end takes the place of the call that looks it up.
LEMMA CommandsLookedUp ==
    ASSUME TypeOK, CommandInv, UNCHANGED <<manager, queues, running, upset>>, NEW s \in Slots, NEW r \in Slots,
           todo[s] # <<>>, Head(todo[s]).call = "stop_other",
           todo' = [todo EXCEPT ![s] = <<Send(r, "STOP", session_id[r])>> \o Tail(@)]
    PROVE  CommandInv'
<1> DEFINE new == Send(r, "STOP", session_id[r])
           q == todo[s]
<1>1. todo'[s] = <<new>> \o Tail(q) /\ \A t \in Slots \ {s} : todo'[t] = todo[t]
  BY DEF TypeOK
<1>2. new.call = "send" /\ StreamCall(new)
  BY DEF Send, StreamCall
<1> HIDE DEF new
<1>3. q \in Seq(Calls) /\ q # <<>>
  BY DEF TypeOK
<1>4. /\ DOMAIN q = 1 .. Len(q) /\ Len(q) \in Nat \ {0} /\ Head(q) = q[1]
      /\ Tail(q) \in Seq(Calls) /\ Len(Tail(q)) = Len(q) - 1
      /\ \A i \in 1 .. Len(q) - 1 : Tail(q)[i] = q[i + 1]
  BY <1>3
<1>5. /\ DOMAIN todo'[s] = DOMAIN q /\ 1 \in DOMAIN q
      /\ todo'[s][1] = new
      /\ \A i \in DOMAIN q \ {1} : todo'[s][i] = q[i]
  <2>1. Len(<<new>> \o Tail(q)) = Len(q) /\ DOMAIN (<<new>> \o Tail(q)) = 1 .. Len(q)
    BY <1>4
  <2>2. (<<new>> \o Tail(q))[1] = new
    BY <1>4
  <2>3. \A i \in 2 .. Len(q) : (<<new>> \o Tail(q))[i] = Tail(q)[i - 1]
    BY <1>4
  <2>4. \A i \in 2 .. Len(q) : Tail(q)[i - 1] = q[i]
    BY <1>4
  <2>5. DOMAIN q \ {1} = 2 .. Len(q) /\ 1 \in DOMAIN q
    BY <1>4
  <2> QED
    BY <1>1, <1>4, <2>1, <2>2, <2>3, <2>4, <2>5
<1>6. Streaming(s) /\ Streaming(s)'
  <2>1. StreamCall(q[1])
    BY <1>4 DEF StreamCall
  <2> QED
    BY <1>2, <1>5, <2>1 DEF Streaming, q
<1>7. \A t \in Slots : Streaming(t)' <=> Streaming(t)
  BY <1>1, <1>6 DEF Streaming
<1>8. \A t \in Slots, d \in Protos : Telling(t, d)' <=> Telling(t, d)
  <2>1. ASSUME NEW d \in Protos PROVE Telling(s, d)' <=> Telling(s, d)
    BY <1>2, <1>4, <1>5 DEF Telling, q
  <2> QED
    BY <1>1, <2>1 DEF Telling
<1>9. (StreamOn' <=> StreamOn) /\ \A d \in Protos : LastCommand(d)' <=> LastCommand(d)
  BY DEF StreamOn, Live, LastCommand, manager, slotVars, queues
<1>10. SUFFICES ASSUME upset \subseteq {"replaced"} PROVE CommandInv'
  BY DEF CommandInv
<1>11. \A t \in Slots : \A i \in DOMAIN todo'[t] :
         todo'[t][i].call = "data" => (todo'[t][i].cmd = "START" <=> StreamOn')
  <2>1. \A i \in DOMAIN todo'[s] : todo'[s][i].call = "data" => (todo'[s][i].cmd = "START" <=> StreamOn)
    BY <1>2, <1>5, <1>10 DEF CommandInv, q
  <2> QED
    BY <1>1, <1>9, <1>10, <2>1 DEF CommandInv
<1> QED
  BY <1>7, <1>8, <1>9, <1>10, <1>11 DEF CommandInv
\* A handler with nothing to do yet answers, or passes on a request.
LEMMA CommandsAnswered ==
    ASSUME TypeOK, PlacesInv, CommandInv, upset \subseteq upset', UNCHANGED <<queues, running>>,
           StreamOn' <=> StreamOn, NEW s \in Slots, Listening(s), NEW r, NEW k \in {"ACK", "SET", "REPLY"},
           NEW id, Then(s, "post", <<Send(r, k, id)>>)
    PROVE  CommandInv'
<1>1. todo[s] = <<>> /\ todo'[s] = <<Send(r, k, id)>> /\ \A t \in Slots \ {s} : todo'[t] = todo[t]
  BY DEF PlacesInv, Listening, Then, TypeOK
<1>2. ~StreamCall(Send(r, k, id))
  BY DEF StreamCall, Send
<1>3. ~Streaming(s) /\ ~Streaming(s)'
  BY <1>1, <1>2 DEF Streaming
<1> QED
  BY <1>1, <1>3, CommandsKept DEF queues

LEMMA CommandStep ==
    ASSUME TypeOK, OnlyPrimaryStreams, PlacesInv, PrimaryInv, CommandInv, [Next]_vars
    PROVE  CommandInv'
<1> SUFFICES ASSUME upset' \subseteq {"replaced"} PROVE CommandInv'
  BY DEF CommandInv
<1> USE SlotFacts
<1>a. TaskType /\ ManagerType /\ QueueType
  BY TypeSplit
<1>b. upset \subseteq upset' /\ "abrupt" \notin upset' /\ "disturbed" \notin upset'
  BY UpsetGrows
<1>1. CASE UNCHANGED vars
  BY <1>1, <1>b, CommandsKept DEF vars, manager, slotVars, queues, StreamOn, Live
<1>2. ASSUME NEW s \in Slots,
             \/ PeerGone(s) \/ RunFails(s) \/ NothingToDo(s) \/ SendAction(s) \/ NoAction(s)
             \/ StopWithoutSession(s) \/ \E p \in Push : SourceSet(s, p)
      PROVE  CommandInv'
  <2>1. UNCHANGED <<session_id, stream_started, todo, startStopQueue, running>>
    BY <1>2 DEF PeerGone, RunFails, NothingToDo, SendAction, NoAction, StopWithoutSession, SourceSet,
                manager, slotVars, queues
  <2> QED
    BY <2>1, <1>b, CommandsKept DEF StreamOn, Live
<1>3. ASSUME NEW s \in Slots,
             \/ Accept(s) \/ SessionTerminate(s) \/ StopIdleSession(s)
             \/ StopOtherNotLive(s) \/ ReturnSlot(s)
      PROVE  CommandInv'
  <2>1. StreamOn' <=> StreamOn
    BY <1>3, <1>b, OnKept DEF StreamOn, On
  <2>2. UNCHANGED <<todo, startStopQueue, running>>
    BY <1>3 DEF Accept, SessionTerminate, StopIdleSession, StopOtherNotLive, ReturnSlot, queues
  <2> QED
    BY <2>1, <2>2, <1>b, CommandsKept
<1>4. ASSUME NEW s \in Slots, SessionInit(s) PROVE CommandInv'
  <2>1. StreamOn' <=> StreamOn
    BY <1>4, <1>b, OnKept DEF StreamOn, On
  <2>2. Listening(s) /\ Then(s, "post", <<Send(s, "ACK", next_id)>>) /\ UNCHANGED <<queues, running>>
    BY <1>4 DEF SessionInit
  <2> QED
    BY <2>1, <2>2, <1>b, CommandsAnswered
<1>5. ASSUME NEW s \in Slots, SetParams(s) \/ GetParams(s) \/ SourceGet(s) PROVE CommandInv'
  <2>1. Listening(s) /\ UNCHANGED <<manager, queues, running>>
    BY <1>5 DEF SetParams, GetParams, SourceGet, Watching
  <2>2. StreamOn' <=> StreamOn
    BY <2>1 DEF manager, slotVars, StreamOn, Live
  <2>3. \E r \in Slots \cup {NoSlot}, k \in {"ACK", "SET", "REPLY"}, id \in Ids :
           Then(s, "post", <<Send(r, k, id)>>)
    <3>1. CASE SetParams(s)
      <4>1. primary_push \in Slots /\ session_id[primary_push] \in Ids
        BY <1>a, <3>1 DEF SetParams, Watching, ManagerType
      <4> QED
        BY <3>1, <4>1 DEF SetParams
    <3>2. CASE GetParams(s) \/ SourceGet(s)
      <4>1. session_id[s] \in Ids
        BY <1>a DEF ManagerType
      <4> QED
        BY <3>2, <4>1 DEF GetParams, SourceGet
    <3> QED
      BY <1>5, <3>1, <3>2
  <2> QED
    BY <2>1, <2>2, <2>3, <1>b, CommandsAnswered
<1>6. ASSUME NEW s \in Slots, NEW rebuffer \in BOOLEAN, StartStream(s, rebuffer) PROVE CommandInv'
  <2> DEFINE calls == StartCalls(rebuffer, primary_push)
  <2>1. todo' = [todo EXCEPT ![s] = calls] /\ upset' = upset \cup Race(s)
    BY <1>6 DEF StartStream, Then
  <2>2. StreamOn'
    <3>1. Watching(s) /\ SetStream({primary_push, s}, TRUE) /\ UNCHANGED session_id
      BY <1>6 DEF StartStream
    <3> QED
      BY <3>1, OnTurned
  <2>3. /\ \A i \in DOMAIN calls : calls[i].call = "data" => calls[i].cmd = "START"
        /\ \A d \in Protos : \E i \in DOMAIN calls : calls[i].call = "data" /\ calls[i].to = d
    BY StartTells
  <2> HIDE DEF calls
  <2>4. \A i \in DOMAIN calls : calls[i].call = "data" => (calls[i].cmd = "START" <=> StreamOn')
    BY <2>2, <2>3
  <2>5. TypeOK /\ CommandInv /\ s \in Slots /\ upset \subseteq upset'
    BY <1>b
  <2> QED
    BY ONLY <2>1, <2>3, <2>4, <2>5, CommandsBegin
<1>7. ASSUME NEW s \in Slots, StopStream(s) PROVE CommandInv'
  <2> DEFINE calls == StopCalls(primary_push)
             first == Send(primary_push, "STOP", session_id[primary_push])
  <2>1. /\ Watching(s) /\ SetStream({primary_push, s}, FALSE) /\ UNCHANGED session_id
        /\ todo' = [todo EXCEPT ![s] = calls] /\ upset' = upset \cup Race(s)
    BY <1>7 DEF StopStream, Then
  <2>2. ~StreamOn'
    BY <2>1, OnTurned
  <2>3. calls = <<first, Data("push", "STOP"), Data("play", "STOP")>> /\ first.call # "data"
    BY DEF StopCalls, Send
  <2> HIDE DEF calls, first
  <2>4. /\ \A i \in DOMAIN calls : calls[i].call = "data" => calls[i].cmd # "START"
        /\ \A d \in Protos : \E i \in DOMAIN calls : calls[i].call = "data" /\ calls[i].to = d
    BY <2>3, StopTells
  <2>5. \A i \in DOMAIN calls : calls[i].call = "data" => (calls[i].cmd = "START" <=> StreamOn')
    BY <2>2, <2>4
  <2> QED
    BY <2>1, <2>4, <2>5, <1>b, CommandsBegin
<1>8. ASSUME NEW s \in Slots, StopStreamingSession(s) PROVE CommandInv'
  <2> DEFINE first == [call |-> "stop_other", to |-> OtherPrimary(s)]
             calls == <<first, Data("push", "STOP"), Data("play", "STOP")>>
  <2>1. todo' = [todo EXCEPT ![s] = calls] /\ upset' = upset \cup Race(s)
    BY <1>8 DEF StopStreamingSession, Then
  <2>2. ~StreamOn'
    BY <1>8, OnStopped
  <2>3. calls = <<first, Data("push", "STOP"), Data("play", "STOP")>> /\ first.call # "data"
    OBVIOUS
  <2> HIDE DEF calls, first
  <2>4. /\ \A i \in DOMAIN calls : calls[i].call = "data" => calls[i].cmd # "START"
        /\ \A d \in Protos : \E i \in DOMAIN calls : calls[i].call = "data" /\ calls[i].to = d
    BY <2>3, StopTells
  <2>5. \A i \in DOMAIN calls : calls[i].call = "data" => (calls[i].cmd = "START" <=> StreamOn')
    BY <2>2, <2>4
  <2> QED
    BY <2>1, <2>4, <2>5, <1>b, CommandsBegin
<1>9. ASSUME NEW s \in Slots, NextCall(s) PROVE CommandInv'
  <2>1. todo[s] # <<>> /\ UNCHANGED manager /\ Head(todo[s]) \in Calls
    BY <1>9, <1>a, CallSteps, HeadCall
  <2>2. StreamOn' <=> StreamOn
    BY <2>1 DEF manager, slotVars, StreamOn, Live
  <2>3. CASE CallFails(s) /\ UNCHANGED <<startStopQueue, running>>
    <3>1. ~Streaming(s)
      BY <1>b, <2>3 DEF CallFails, Streaming
    <3>2. todo'[s] = <<>> /\ \A r \in Slots \ {s} : todo'[r] = todo[r]
      BY <1>a, <2>3 DEF CallFails, Then, TaskType
    <3>3. ~Streaming(s)'
      BY <3>2 DEF Streaming
    <3> QED
      BY <1>b, <2>2, <2>3, <3>1, <3>2, <3>3, CommandsKept
  <2>4. CASE CallDone(s) /\ Head(todo[s]).call # "data" /\ UNCHANGED <<startStopQueue, running>>
    <3>1. \A d \in Protos : LastCommand(d)' <=> LastCommand(d)
      BY <2>4 DEF LastCommand
    <3> QED
      BY <1>b, <2>1, <2>2, <2>4, <3>1, CommandsGoOn DEF CallDone
  <2>5. CASE InsertCommand(s) /\ CallDone(s)
    <3>1. /\ Head(todo[s]).call = "data" /\ UNCHANGED running
          /\ \E d \in Protos, cmd \in {"START", "STOP"} : Head(todo[s]).to = d /\ Head(todo[s]).cmd = cmd
      BY <2>1, <2>5, CallShapes DEF InsertCommand, Calling
    <3>2. CASE startStopQueue' = [startStopQueue EXCEPT ![Head(todo[s]).to] = Append(@, Head(todo[s]).cmd)]
      <4>1. PICK d \in Protos, cmd \in {"START", "STOP"} : Head(todo[s]).to = d /\ Head(todo[s]).cmd = cmd
        BY <3>1
      <4>2. LastCommand(d)' <=> cmd = "START"
        BY <1>a, <3>2, <4>1, LastIsAppended
      <4>3. \A e \in Protos \ {d} : startStopQueue'[e] = startStopQueue[e]
        BY <1>a, <3>2, <4>1 DEF QueueType
      <4>4. \A e \in Protos \ {d} : LastCommand(e)' <=> LastCommand(e)
        BY <3>1, <4>3 DEF LastCommand
      <4>5. \A e \in Protos : \/ Head(todo[s]).call = "data" /\ Head(todo[s]).to = e
                                 /\ (LastCommand(e)' <=> Head(todo[s]).cmd = "START")
                              \/ ~(Head(todo[s]).call = "data" /\ Head(todo[s]).to = e)
                                 /\ (LastCommand(e)' <=> LastCommand(e))
        BY <3>1, <4>1, <4>2, <4>4
      <4> QED
        BY <1>b, <2>1, <2>2, <2>5, <4>5, CommandsGoOn DEF CallDone
    <3>3. CASE CallFails(s) /\ UNCHANGED startStopQueue
      BY <2>3, <3>1, <3>3
    <3> QED
      BY <2>5, <3>2, <3>3 DEF InsertCommand
  <2>6. CASE LookUpOther(s)
    <3>1. Head(todo[s]).call = "stop_other" /\ UNCHANGED <<queues, running>>
      BY <2>6 DEF LookUpOther, Calling
    <3>2. Head(todo[s]).to \in Slots \cup {NoSlot}
      BY <2>1, <3>1, CallShapes
    <3>3. CASE CallFails(s)
      BY <2>3, <3>1, <3>3 DEF queues
    <3>4. CASE ~CallFails(s)
      BY <2>1, <2>6, <3>1, <3>2, <3>4, CommandsLookedUp DEF LookUpOther
    <3> QED
      BY <3>3, <3>4
  <2>7. CASE InsertAction(s)
    BY <2>3, <2>4, <2>7 DEF InsertAction, Calling
  <2>8. CASE Rebuffer(s)
    BY <2>4, <2>8 DEF Rebuffer, Calling, queues
  <2>9. CASE InsertCommand(s) /\ CallFails(s) /\ UNCHANGED startStopQueue
    BY <2>3, <2>9 DEF InsertCommand
  <2> QED
    BY <1>9, <2>5, <2>6, <2>7, <2>8, <2>9 DEF NextCall, InsertCommand
<1>10. ASSUME NEW d \in Protos, ReadCommand(d) PROVE CommandInv'
  <2>1. LastCommand(d)' <=> LastCommand(d)
    BY <1>10, <1>a, LastStaysLast
  <2>2. \A e \in Protos \ {d} : startStopQueue'[e] = startStopQueue[e] /\ running'[e] = running[e]
    BY <1>10, <1>a DEF ReadCommand, QueueType
  <2>3. \A e \in Protos : LastCommand(e)' <=> LastCommand(e)
    BY <2>1, <2>2 DEF LastCommand
  <2>4. UNCHANGED <<todo, upset>> /\ (StreamOn' <=> StreamOn)
    BY <1>10 DEF ReadCommand, manager, slotVars, StreamOn, Live
  <2> QED
    BY <2>3, <2>4 DEF CommandInv, Streaming, Telling
<1>11. ASSUME NEW d \in Protos, DataRestart(d) PROVE CommandInv'
  BY <1>11, <1>b DEF DataRestart
<1> QED
  BY <1>1, <1>2, <1>3, <1>4, <1>5, <1>6, <1>7, <1>8, <1>9, <1>10, <1>11
  DEF Next, Request, TaskStep, ConnectionStop, DataTask

\* For any number of cameras and play clients and any queue lengths, once every
\* call is made and every command read, both data tasks run exactly when the
\* stream is on: the flags that START_STREAM, STOP_STREAM and
\* espfsp_server_connection_stop set under the mutex and the commands they put in
\* the queues of the data tasks after releasing it stay in step, unless a session
\* ended without connection_stop, calls were mixed or failed, a data task
\* restarted or its buffer was replaced.
THEOREM DataAlwaysFollowsFlags == Spec => []DataFollowsFlags
<1>1. Init => CommandInv
  BY SlotFacts DEF Init, CommandInv, LastCommand, Streaming, Telling, StreamOn, Live
<1>2. TypeOK /\ OnlyPrimaryStreams /\ PlacesInv /\ PrimaryInv /\ CommandInv /\ [Next]_vars => CommandInv'
  BY CommandStep
<1>3. TypeOK /\ CommandInv => DataFollowsFlags
  <2> SUFFICES ASSUME TypeOK, CommandInv, upset \subseteq {"replaced"}, Quiescent, NEW d \in Protos
               PROVE  running[d] = StreamOn
    BY DEF DataFollowsFlags
  <2>1. \A s \in Slots : ~Telling(s, d)
    BY DEF Quiescent, Telling
  <2>2. startStopQueue[d] = <<>> /\ running[d] \in BOOLEAN
    BY DEF Quiescent, TypeOK
  <2>3. running[d] <=> StreamOn
    BY <2>1, <2>2 DEF CommandInv, LastCommand
  <2> QED
    BY <2>2, <2>3 DEF StreamOn
<1> QED
  BY <1>1, <1>2, <1>3, AgreeAlways, PTL DEF Spec

=============================================================================
