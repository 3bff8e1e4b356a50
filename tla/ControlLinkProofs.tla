------------------------- MODULE ControlLinkProofs -------------------------
(***************************************************************************)
(* Theorems about ControlLink, for any number of slots, cameras and        *)
(* connections and queues of any length.                                   *)
(***************************************************************************)
EXTENDS ControlLink, TLAPS

LEMMA ConstantFacts ==
    /\ NSlots \in Nat \ {0} /\ ActionQueueLen \in Nat \ {0} /\ NetLen \in Nat \ {0}
    /\ MaxConns \in Nat
    /\ \A s \in Slots : s \in Nat /\ s # NoSlot
    /\ \A k \in Conns : k \in Nat /\ k \in Ids /\ k # NoId
    /\ NoId \in Ids
BY SizesAssumption DEF Slots, Conns, Ids, NoSlot, NoId

LEMMA EmptySeq == ASSUME NEW S PROVE <<>> \in Seq(S) /\ Len(<<>>) = 0
OBVIOUS

LEMMA Appended ==
    ASSUME NEW S, NEW s \in Seq(S), NEW e \in S
    PROVE  /\ Append(s, e) \in Seq(S) /\ Len(Append(s, e)) = Len(s) + 1
           /\ \A i \in DOMAIN Append(s, e) : Append(s, e)[i] = e \/ \E j \in DOMAIN s : Append(s, e)[i] = s[j]
OBVIOUS

LEMMA Shortened ==
    ASSUME NEW S, NEW s \in Seq(S), s # <<>>
    PROVE  /\ Head(s) \in S /\ 1 \in DOMAIN s /\ Head(s) = s[1]
           /\ Tail(s) \in Seq(S) /\ Len(Tail(s)) = Len(s) - 1
           /\ \A i \in DOMAIN Tail(s) : \E j \in DOMAIN s : Tail(s)[i] = s[j]
<1>1. Len(s) > 0
    OBVIOUS
<1>2. Tail(s) \in Seq(S) /\ Len(Tail(s)) = Len(s) - 1 /\ Head(s) = s[1] /\ Head(s) \in S
    BY <1>1
<1>3. ASSUME NEW i \in DOMAIN Tail(s) PROVE i + 1 \in DOMAIN s /\ Tail(s)[i] = s[i + 1]
    BY <1>1, <1>2
<1> QED
    BY <1>1, <1>2, <1>3

-----------------------------------------------------------------------------
(* Types.                                                                  *)

LEMMA InitTypes == Init => TypeOK
<1> SUFFICES ASSUME Init PROVE TypeOK
    OBVIOUS
<1> USE ConstantFacts, EmptySeq DEF Init
<1>1. reqActionQueue \in [Slots -> Seq(Messages)] /\ \A s \in Slots : Len(reqActionQueue[s]) <= ActionQueueLen
    OBVIOUS
<1>2. up \in [Conns -> Seq({"INIT", "REST"})]
    OBVIOUS
<1>3. down \in [Conns -> Seq(Messages)] /\ \A k \in Conns : Len(down[k]) <= NetLen
    OBVIOUS
<1>4. pending \in [Cameras -> 0 .. ActionQueueLen]
    OBVIOUS
<1>5. call \in [to : Slots, id : Ids] \cup {NoCall}
    OBVIOUS
<1> QED
    BY <1>1, <1>2, <1>3, <1>4, <1>5 DEF TypeOK

LEMMA MessageTypes ==
    /\ \A k \in Conns : Message("ACK", k) \in Messages
    /\ \A id \in Ids : Message("REQ", id) \in Messages
    /\ Message("REST", NoId) \in Messages
BY ConstantFacts DEF Message, Messages

LEMMA CameraTypes ==
    ASSUME TypeOK, NEW c \in Cameras,
           \/ \E k \in Conns : Connect(c, k)
           \/ CameraSends(c) \/ CameraReads(c) \/ CameraReadsPart(c) \/ CameraLoses(c)
    PROVE  TypeOK'
<1> USE DEF TypeOK, slots, tasks, removal
<1>1. ASSUME NEW k \in Conns, Connect(c, k) PROVE TypeOK'
    <2>1. pending' \in [Cameras -> 0 .. ActionQueueLen]
        <3>1. pending[c] < ActionQueueLen => pending[c] + 1 \in 0 .. ActionQueueLen
            BY ConstantFacts
        <3> QED
            BY <1>1, <3>1 DEF Connect, InitFits
    <2>2. conn' \in [Cameras -> Conns \cup {0}] /\ tainted' \subseteq Conns
        BY <1>1 DEF Connect
    <2> QED
        BY <1>1, <2>1, <2>2 DEF Connect
<1>2. ASSUME CameraSends(c) PROVE TypeOK'
    <2>1. up' \in [Conns -> Seq({"INIT", "REST"})]
        BY <1>2, Appended DEF CameraSends
    <2>2. pending' \in [Cameras -> 0 .. ActionQueueLen]
        BY <1>2, ConstantFacts DEF CameraSends
    <2> QED
        BY <1>2, <2>1, <2>2 DEF CameraSends
<1>3. ASSUME NEW k \in Conns, k = conn[c], down' = [down EXCEPT ![k] = <<>>]
      PROVE  down' \in [Conns -> Seq(Messages)] /\ \A j \in Conns : Len(down'[j]) <= NetLen
    BY <1>3, EmptySeq, ConstantFacts
<1>4. ASSUME NEW k \in Conns, k = conn[c], down[k] # <<>>, down' = [down EXCEPT ![k] = Tail(@)]
      PROVE  down' \in [Conns -> Seq(Messages)] /\ \A j \in Conns : Len(down'[j]) <= NetLen
    <2>1. Tail(down[k]) \in Seq(Messages) /\ Len(Tail(down[k])) <= NetLen
        BY <1>4, Shortened, ConstantFacts
    <2> QED
        BY <1>4, <2>1
<1>5. ASSUME NEW k \in Conns, k = conn[c], down[k] # <<>>,
             down' = [down EXCEPT ![k] = <<Message("REST", NoId)>> \o Tail(@)]
      PROVE  down' \in [Conns -> Seq(Messages)] /\ \A j \in Conns : Len(down'[j]) <= NetLen
    <2>1. Tail(down[k]) \in Seq(Messages) /\ Len(Tail(down[k])) = Len(down[k]) - 1
        BY <1>5, Shortened
    <2>2. <<Message("REST", NoId)>> \in Seq(Messages) /\ Len(<<Message("REST", NoId)>>) = 1
        BY MessageTypes
    <2> DEFINE new == <<Message("REST", NoId)>> \o Tail(down[k])
    <2>3. new \in Seq(Messages) /\ Len(new) = Len(down[k])
        BY <2>1, <2>2
    <2> HIDE DEF new
    <2>4. down' = [down EXCEPT ![k] = new]
        BY <1>5 DEF new
    <2> QED
        BY <2>3, <2>4
<1>6. conn[c] # 0 => conn[c] \in Conns
    OBVIOUS
<1>7. ASSUME CameraReads(c) PROVE TypeOK'
    <2> DEFINE k == conn[c]
    <2>1. k \in Conns /\ down[k] # <<>> /\ Head(down[k]) \in Messages
        BY <1>6, <1>7, Shortened DEF CameraReads
    <2>2. down' \in [Conns -> Seq(Messages)] /\ \A j \in Conns : Len(down'[j]) <= NetLen
        BY <1>3, <1>4, <1>7, <2>1 DEF CameraReads, Leave
    <2>3. csession' \in [Cameras -> Ids \cup {Garbled}]
        BY <1>7, <2>1 DEF CameraReads, Messages
    <2>4. conn' \in [Cameras -> Conns \cup {0}]
        BY <1>7 DEF CameraReads, Leave
    <2> QED
        BY <1>7, <2>2, <2>3, <2>4 DEF CameraReads
<1>8. ASSUME CameraReadsPart(c) PROVE TypeOK'
    <2> DEFINE k == conn[c]
    <2>1. k \in Conns /\ down[k] # <<>>
        BY <1>6, <1>8 DEF CameraReadsPart
    <2>2. down' \in [Conns -> Seq(Messages)] /\ \A j \in Conns : Len(down'[j]) <= NetLen
        BY <1>3, <1>5, <1>8, <2>1 DEF CameraReadsPart, Leave
    <2>3. csession' \in [Cameras -> Ids \cup {Garbled}] /\ conn' \in [Cameras -> Conns \cup {0}]
        BY <1>8 DEF CameraReadsPart, Leave
    <2>4. tainted' \subseteq Conns
        BY <1>8, <2>1 DEF CameraReadsPart
    <2> QED
        BY <1>8, <2>2, <2>3, <2>4 DEF CameraReadsPart
<1>9. ASSUME CameraLoses(c) PROVE TypeOK'
    <2>1. down' \in [Conns -> Seq(Messages)] /\ \A j \in Conns : Len(down'[j]) <= NetLen
        BY <1>3, <1>6, <1>9 DEF CameraLoses, Leave
    <2>2. csession' \in [Cameras -> Ids \cup {Garbled}] /\ conn' \in [Cameras -> Conns \cup {0}]
        BY <1>9, ConstantFacts DEF CameraLoses, Leave
    <2> QED
        BY <1>9, <2>1, <2>2 DEF CameraLoses
<1> QED
    BY <1>1, <1>2, <1>7, <1>8, <1>9

LEMMA ServerTypes ==
    ASSUME TypeOK, NEW k \in Conns,
           ServerStep(k) \/ ServerSends(k) \/ ServerLoses(k) \/ \E part \in BOOLEAN : ServerReads(k, part),
           slot[k] = NoSlot => srv[k] \notin {"begin", "loop", "ack", "exit"}
    PROVE  TypeOK'
<1> USE DEF TypeOK, slots, removal, cameras, Goto, Looping
<1>h. srv[k] \in {"begin", "loop", "ack", "exit"} => slot[k] \in Slots
    OBVIOUS
<1>1. ASSUME AcceptConnection(k) PROVE TypeOK'
    BY <1>1 DEF AcceptConnection
<1>2. ASSUME NEW s \in Slots, TakeSlot(k, s) PROVE TypeOK'
    BY <1>2, ConstantFacts DEF TakeSlot
<1>3. ASSUME NoSlotFree(k) PROVE TypeOK'
    BY <1>3, EmptySeq DEF NoSlotFree
<1>4. ASSUME Begin(k) PROVE TypeOK'
    BY <1>4, <1>h DEF Begin
<1>5. ASSUME Acknowledge(k) PROVE TypeOK'
    <2> DEFINE new == Append(reqActionQueue[slot[k]], Message("ACK", k))
    <2>1. new \in Seq(Messages) /\ Len(new) = Len(reqActionQueue[slot[k]]) + 1
        BY <1>5, <1>h, MessageTypes, Appended DEF Acknowledge
    <2> HIDE DEF new
    <2>2. CASE Len(reqActionQueue[slot[k]]) < ActionQueueLen
        <3>1. reqActionQueue' = [reqActionQueue EXCEPT ![slot[k]] = new]
            BY <1>5, <2>2 DEF Acknowledge, new
        <3>2. /\ reqActionQueue' \in [Slots -> Seq(Messages)]
              /\ \A s \in Slots : Len(reqActionQueue'[s]) <= ActionQueueLen
            BY <1>5, <1>h, <2>1, <2>2, <3>1, ConstantFacts DEF Acknowledge
        <3> QED
            BY <1>5, <2>2, <3>2 DEF Acknowledge
    <2>3. CASE ~(Len(reqActionQueue[slot[k]]) < ActionQueueLen)
        BY <1>5, <2>3 DEF Acknowledge
    <2> QED
        BY <2>2, <2>3
<1>6. ASSUME RunStops(k) PROVE TypeOK'
    BY <1>6 DEF RunStops
<1>7. ASSUME ReturnSlot(k) PROVE TypeOK'
    BY <1>7, <1>h, EmptySeq, ConstantFacts DEF ReturnSlot
<1>8. ASSUME ServerSends(k) PROVE TypeOK'
    <2> DEFINE queue == reqActionQueue[slot[k]]
               new == Append(down[k], Head(queue))
    <2>1. queue \in Seq(Messages) /\ queue # <<>>
        BY <1>8, <1>h DEF ServerSends
    <2>2. Tail(queue) \in Seq(Messages) /\ Len(Tail(queue)) <= ActionQueueLen /\ Head(queue) \in Messages
        BY <1>8, <1>h, <2>1, Shortened, ConstantFacts DEF ServerSends
    <2>3. new \in Seq(Messages) /\ Len(new) <= NetLen
        BY <1>8, <2>2, Appended, ConstantFacts DEF ServerSends
    <2>4. /\ reqActionQueue' \in [Slots -> Seq(Messages)]
          /\ \A s \in Slots : Len(reqActionQueue'[s]) <= ActionQueueLen
        BY <1>8, <2>2 DEF ServerSends
    <2>5. down' \in [Conns -> Seq(Messages)] /\ \A j \in Conns : Len(down'[j]) <= NetLen
        BY <1>8, <2>3 DEF ServerSends
    <2> QED
        BY <1>8, <2>4, <2>5 DEF ServerSends, tasks
<1>9. ASSUME ServerLoses(k) PROVE TypeOK'
    BY <1>9, ConstantFacts DEF ServerLoses
<1>10. ASSUME NEW part \in BOOLEAN, ServerReads(k, part) PROVE TypeOK'
    <2>1. up' \in [Conns -> Seq({"INIT", "REST"})]
        <3>1. Tail(up[k]) \in Seq({"INIT", "REST"})
            BY <1>10, Shortened DEF ServerReads
        <3>2. <<"REST">> \o Tail(up[k]) \in Seq({"INIT", "REST"})
            BY <3>1
        <3> QED
            BY <1>10, <3>1, <3>2 DEF ServerReads
    <2>2. session_id' \in [Slots -> Ids] /\ srv' \in [Conns -> {"none", "new", "task", "begin", "loop", "ack", "exit", "gone"}]
        <3>1. CASE session_id' = [session_id EXCEPT ![slot[k]] = k] /\ srv' = [srv EXCEPT ![k] = "ack"]
            BY <3>1, ConstantFacts
        <3>2. CASE session_id' = session_id /\ srv' = [srv EXCEPT ![k] = "exit"]
            BY <3>2
        <3> QED
            BY <1>10, <3>1, <3>2 DEF ServerReads
    <2> QED
        BY <1>10, <2>1, <2>2 DEF ServerReads
<1> QED
    BY <1>1, <1>2, <1>3, <1>4, <1>5, <1>6, <1>7, <1>8, <1>9, <1>10 DEF ServerStep

LEMMA OtherTypes ==
    ASSUME TypeOK,
           (\E s \in Slots : PrepareRequest(s) \/ StopRun(s)) \/ QueueRequest \/ DeleteTasks
    PROVE  TypeOK'
<1> USE DEF TypeOK, slots, tasks, removal, cameras
<1>1. ASSUME NEW s \in Slots, PrepareRequest(s) PROVE TypeOK'
    BY <1>1 DEF PrepareRequest
<1>2. ASSUME NEW s \in Slots, StopRun(s) PROVE TypeOK'
    BY <1>2 DEF StopRun
<1>3. ASSUME QueueRequest PROVE TypeOK'
    <2> DEFINE s == call.to
               new == Append(reqActionQueue[s], Message("REQ", call.id))
    <2>1. call.to \in Slots /\ call.id \in Ids
        BY <1>3 DEF QueueRequest
    <2>2. new \in Seq(Messages) /\ Len(new) = Len(reqActionQueue[s]) + 1
        BY <2>1, MessageTypes, Appended
    <2> HIDE DEF new
    <2>3. \/ reqActionQueue' = [reqActionQueue EXCEPT ![s] = new] /\ Len(reqActionQueue[s]) < ActionQueueLen
          \/ reqActionQueue' = reqActionQueue
        BY <1>3 DEF QueueRequest, new
    <2>4. /\ reqActionQueue' \in [Slots -> Seq(Messages)]
          /\ \A r \in Slots : Len(reqActionQueue'[r]) <= ActionQueueLen
        <3>1. CASE reqActionQueue' = [reqActionQueue EXCEPT ![s] = new] /\ Len(reqActionQueue[s]) < ActionQueueLen
            <4>1. Len(new) <= ActionQueueLen
                BY <2>1, <2>2, <3>1, ConstantFacts
            <4> HIDE DEF s
            <4>2. s \in Slots
                BY <2>1 DEF s
            <4> QED
                BY <2>2, <3>1, <4>1, <4>2
        <3>2. CASE reqActionQueue' = reqActionQueue
            BY <3>2
        <3> QED
            BY <2>3, <3>1, <3>2
    <2>5. call' = NoCall
        BY <1>3 DEF QueueRequest
    <2> QED
        BY <1>3, <2>4, <2>5 DEF QueueRequest
<1>4. ASSUME DeleteTasks PROVE TypeOK'
    BY <1>4 DEF DeleteTasks
<1> QED
    BY <1>1, <1>2, <1>3, <1>4

-----------------------------------------------------------------------------
(* One task per slot.                                                      *)

Holding == {"begin", "loop", "ack", "exit"}

LEMMA TaskMoves ==
    ASSUME TypeOK, OneTaskPerSlot, NEW k \in Conns, NEW where,
           srv' = [srv EXCEPT ![k] = where], srv[k] \in Holding <=> where \in Holding,
           slot' = slot, active' = active
    PROVE  OneTaskPerSlot'
BY DEF TypeOK, OneTaskPerSlot, Holding

LEMMA SlotIsTaken ==
    ASSUME TypeOK, OneTaskPerSlot, NEW k \in Conns, NEW s \in Slots, TakeSlot(k, s)
    PROVE  OneTaskPerSlot'
<1>1. slot[k] = NoSlot /\ ~active[s] /\ \A j \in Conns : slot[j] # s
    BY DEF TakeSlot, IsFirstFree, OneTaskPerSlot
<1>2. /\ slot' = [slot EXCEPT ![k] = s] /\ active' = [active EXCEPT ![s] = TRUE]
      /\ srv' = [srv EXCEPT ![k] = "begin"]
    BY DEF TakeSlot, Goto
<1>3. s # NoSlot
    BY ConstantFacts
<1>4. (\A j \in Conns : slot[j] # NoSlot <=> srv[j] \in {"begin", "loop", "ack", "exit"})'
    BY <1>2, <1>3 DEF TypeOK, OneTaskPerSlot
<1>5. (\A r \in Slots : active[r] <=> \E j \in Conns : slot[j] = r)'
    <2>1. ASSUME NEW r \in Slots, r # s PROVE active'[r] <=> \E j \in Conns : slot'[j] = r
        BY <1>1, <1>2, <2>1, ConstantFacts DEF TypeOK, OneTaskPerSlot
    <2>2. active'[s] /\ slot'[k] = s
        BY <1>2 DEF TypeOK
    <2> QED
        BY <2>1, <2>2
<1>6. (\A i, j \in Conns : slot[i] = slot[j] /\ slot[i] # NoSlot => i = j)'
    BY <1>1, <1>2 DEF TypeOK, OneTaskPerSlot
<1> QED
    BY <1>4, <1>5, <1>6 DEF OneTaskPerSlot

LEMMA SlotIsReturned ==
    ASSUME TypeOK, OneTaskPerSlot, NEW k \in Conns, ReturnSlot(k)
    PROVE  OneTaskPerSlot'
<1> DEFINE s == slot[k]
<1>1. s \in Slots /\ s # NoSlot /\ \A j \in Conns : slot[j] = s => j = k
    BY DEF ReturnSlot, TypeOK, OneTaskPerSlot
<1>2. /\ slot' = [slot EXCEPT ![k] = NoSlot] /\ active' = [active EXCEPT ![s] = FALSE]
      /\ srv' = [srv EXCEPT ![k] = "gone"]
    BY DEF ReturnSlot, Goto
<1> HIDE DEF s
<1>4. (\A j \in Conns : slot[j] # NoSlot <=> srv[j] \in {"begin", "loop", "ack", "exit"})'
    BY <1>2 DEF TypeOK, OneTaskPerSlot
<1>5. (\A r \in Slots : active[r] <=> \E j \in Conns : slot[j] = r)'
    <2>1. ASSUME NEW r \in Slots, r # s PROVE active'[r] <=> \E j \in Conns : slot'[j] = r
        <3>1. active'[r] = active[r] /\ \A j \in Conns : slot'[j] = r <=> slot[j] = r
            BY <1>1, <1>2, <2>1, ConstantFacts DEF TypeOK, s
        <3> QED
            BY <3>1 DEF OneTaskPerSlot
    <2>2. ~active'[s] /\ \A j \in Conns : slot'[j] # s
        BY <1>1, <1>2 DEF TypeOK
    <2> QED
        BY <2>1, <2>2
<1>6. (\A i, j \in Conns : slot[i] = slot[j] /\ slot[i] # NoSlot => i = j)'
    BY <1>2 DEF TypeOK, OneTaskPerSlot
<1> QED
    BY <1>4, <1>5, <1>6 DEF OneTaskPerSlot

LEMMA SlotsStep ==
    ASSUME TypeOK, OneTaskPerSlot, [Next]_vars PROVE TypeOK' /\ OneTaskPerSlot'
<1>1. CASE UNCHANGED vars
    BY <1>1 DEF vars, slots, tasks, removal, cameras, TypeOK, OneTaskPerSlot
<1>2. ASSUME NEW c \in Cameras, NEW k \in Conns, Connect(c, k) PROVE TypeOK' /\ OneTaskPerSlot'
    <2>1. OneTaskPerSlot'
        BY <1>2, TaskMoves DEF Connect, slots, Holding
    <2> QED
        BY <1>2, <2>1, CameraTypes
<1>3. ASSUME NEW c \in Cameras,
             CameraSends(c) \/ CameraReads(c) \/ CameraReadsPart(c) \/ CameraLoses(c)
      PROVE  TypeOK' /\ OneTaskPerSlot'
    <2>1. UNCHANGED <<slots, tasks>>
        BY <1>3 DEF CameraSends, CameraReads, CameraReadsPart, CameraLoses
    <2> QED
        BY <1>3, <2>1, CameraTypes DEF OneTaskPerSlot, slots, tasks
<1>4. ASSUME NEW k \in Conns,
             ServerStep(k) \/ ServerSends(k) \/ ServerLoses(k) \/ \E part \in BOOLEAN : ServerReads(k, part)
      PROVE  TypeOK' /\ OneTaskPerSlot'
    <2>1. TypeOK'
        BY <1>4, ServerTypes DEF OneTaskPerSlot
    <2>2. CASE \E s \in Slots : TakeSlot(k, s)
        BY <2>1, <2>2, SlotIsTaken
    <2>3. CASE ReturnSlot(k)
        BY <2>1, <2>3, SlotIsReturned
    <2>4. CASE AcceptConnection(k) \/ NoSlotFree(k)
        BY <2>1, <2>4, TaskMoves DEF AcceptConnection, NoSlotFree, slots, Goto, Holding
    <2>5. CASE Begin(k)
        BY <2>1, <2>5, TaskMoves DEF Begin, Goto, Holding
    <2>6. CASE Acknowledge(k)
        BY <2>1, <2>6, TaskMoves DEF Acknowledge, Goto, Holding
    <2>7. CASE RunStops(k) \/ ServerLoses(k)
        BY <2>1, <2>7, TaskMoves DEF RunStops, ServerLoses, Looping, slots, Goto, Holding
    <2>8. CASE ServerSends(k)
        BY <2>1, <2>8 DEF ServerSends, tasks, OneTaskPerSlot
    <2>9. ASSUME NEW part \in BOOLEAN, ServerReads(k, part) PROVE OneTaskPerSlot'
        BY <2>9, TaskMoves DEF ServerReads, Looping, Goto, Holding
    <2> QED
        BY <1>4, <2>1, <2>2, <2>3, <2>4, <2>5, <2>6, <2>7, <2>8, <2>9 DEF ServerStep
<1>5. ASSUME (\E s \in Slots : PrepareRequest(s) \/ StopRun(s)) \/ QueueRequest \/ DeleteTasks
      PROVE  TypeOK' /\ OneTaskPerSlot'
    <2>1. UNCHANGED <<active, tasks>>
        BY <1>5 DEF PrepareRequest, StopRun, QueueRequest, DeleteTasks, slots
    <2> QED
        BY <1>5, <2>1, OtherTypes DEF OneTaskPerSlot, tasks
<1> QED
    BY <1>1, <1>2, <1>3, <1>4, <1>5 DEF Next

-----------------------------------------------------------------------------
(* Whose messages they are.                                                *)

\* The session of a slot is the one of its task, and so is that of a request on its
\* way to the slot, if it was not on its way before the task took the slot.
SessionOfHolder == \A k \in Conns : slot[k] # NoSlot => session_id[slot[k]] \in {NoId, k}
CallForHolder == \A k \in Conns \ tainted : slot[k] # NoSlot /\ slot[k] = call.to => call.id = k

MessagesInv == SessionOfHolder /\ CallForHolder /\ MessagesAreForSession /\ CameraKnowsItsSession

\* Handlers that touch neither sessions nor messages.
LEMMA NoMessageMoves ==
    ASSUME MessagesInv,
           UNCHANGED <<session_id, slot, call, reqActionQueue, down, conn, csession, tainted>>
    PROVE  MessagesInv'
BY DEF MessagesInv, SessionOfHolder, CallForHolder, MessagesAreForSession, CameraKnowsItsSession

\* Handlers of a camera leave the server's part as it is.
LEMMA CameraMoves ==
    ASSUME MessagesInv, UNCHANGED <<session_id, slot, call, reqActionQueue>>,
           tainted \subseteq tainted',
           \A k \in Conns \ tainted' : \A i \in DOMAIN down'[k] : down'[k][i].id = k,
           CameraKnowsItsSession'
    PROVE  MessagesInv'
<1>1. SessionOfHolder' /\ CallForHolder'
    BY DEF MessagesInv, SessionOfHolder, CallForHolder
<1>2. MessagesAreForSession'
    BY DEF MessagesInv, MessagesAreForSession
<1> QED
    BY <1>1, <1>2 DEF MessagesInv

LEMMA CameraMessages ==
    ASSUME TypeOK, MessagesInv, NEW c \in Cameras,
           \/ \E k \in Conns : Connect(c, k)
           \/ CameraSends(c) \/ CameraReads(c) \/ CameraReadsPart(c) \/ CameraLoses(c)
    PROVE  MessagesInv'
<1>t. conn \in [Cameras -> Conns \cup {0}] /\ csession \in [Cameras -> Ids \cup {Garbled}]
      /\ down \in [Conns -> Seq(Messages)]
    BY DEF TypeOK
<1>1. ASSUME NEW k \in Conns, Connect(c, k) PROVE MessagesInv'
    <2>1. UNCHANGED <<session_id, slot, call, reqActionQueue, down, csession>> /\ tainted \subseteq tainted'
        BY <1>1 DEF Connect, slots
    <2>2. CameraKnowsItsSession'
        <3>1. \/ conn' = conn
              \/ conn' = [conn EXCEPT ![c] = k] /\ (csession[c] # NoId => k \in tainted')
            BY <1>1 DEF Connect
        <3> QED
            BY <1>t, <2>1, <3>1 DEF MessagesInv, CameraKnowsItsSession
    <2>3. \A j \in Conns \ tainted' : \A i \in DOMAIN down'[j] : down'[j][i].id = j
        BY <2>1 DEF MessagesInv, MessagesAreForSession
    <2> QED
        BY <2>1, <2>2, <2>3, CameraMoves
<1>2. CASE CameraSends(c)
    BY <1>2, NoMessageMoves DEF CameraSends, slots, tasks
<1>3. ASSUME NEW k \in Conns, Leave(c, k), UNCHANGED <<slots, tasks, call>>, tainted \subseteq tainted',
             csession' = csession \/ csession' = [csession EXCEPT ![c] = NoId]
      PROVE  MessagesInv'
    <2>1. conn' = [conn EXCEPT ![c] = 0] /\ down' = [down EXCEPT ![k] = <<>>]
        BY <1>3 DEF Leave
    <2>2. \A j \in Conns \ tainted' : \A i \in DOMAIN down'[j] : down'[j][i].id = j
        BY <1>3, <1>t, <2>1 DEF MessagesInv, MessagesAreForSession
    <2>3. CameraKnowsItsSession'
        BY <1>3, <1>t, <2>1 DEF MessagesInv, CameraKnowsItsSession
    <2> QED
        BY <1>3, <2>2, <2>3, CameraMoves DEF slots, tasks
<1>4. CASE CameraReads(c)
    <2> DEFINE k == conn[c]
               m == Head(down[k])
    <2>1. k \in Conns /\ down[k] \in Seq(Messages) /\ down[k] # <<>>
        BY <1>4, <1>t DEF CameraReads
    <2>2. CASE Refuses(c, m)
        BY <1>3, <1>4, <2>1, <2>2 DEF CameraReads
    <2>3. CASE ~Refuses(c, m)
        <3>1. UNCHANGED <<slots, tasks, call, tainted, conn>> /\ down' = [down EXCEPT ![k] = Tail(@)]
            BY <1>4, <2>3 DEF CameraReads
        <3>2. \A j \in Conns \ tainted' : \A i \in DOMAIN down'[j] : down'[j][i].id = j
            <4>1. ASSUME NEW j \in Conns \ tainted', NEW i \in DOMAIN down'[j] PROVE down'[j][i].id = j
                <5>1. j # k => down'[j] = down[j]
                    BY <1>t, <3>1
                <5>2. j = k => down'[j] = Tail(down[k])
                    BY <1>t, <3>1
                <5>3. \E l \in DOMAIN down[j] : down'[j][i] = down[j][l]
                    <6>1. CASE j # k
                        BY <4>1, <5>1, <6>1
                    <6>2. CASE j = k
                        <7>1. \A l \in DOMAIN Tail(down[k]) :
                                \E h \in DOMAIN down[k] : Tail(down[k])[l] = down[k][h]
                            BY <2>1, Shortened
                        <7> QED
                            BY <4>1, <5>2, <6>2, <7>1
                    <6> QED
                        BY <6>1, <6>2
                <5> QED
                    BY <3>1, <5>3 DEF MessagesInv, MessagesAreForSession
            <4> QED
                BY <4>1
        <3>3. k \notin tainted => m.id = k
            BY <2>1, Shortened DEF MessagesInv, MessagesAreForSession
        <3>4. csession' = csession \/ csession' = [csession EXCEPT ![c] = m.id]
            BY <1>4, <2>3 DEF CameraReads
        <3>5. CameraKnowsItsSession'
            BY <1>t, <3>1, <3>3, <3>4 DEF MessagesInv, CameraKnowsItsSession
        <3> QED
            BY <3>1, <3>2, <3>5, CameraMoves DEF slots, tasks
    <2> QED
        BY <2>2, <2>3
<1>5. CASE CameraReadsPart(c)
    <2> DEFINE k == conn[c]
               new == <<Message("REST", NoId)>> \o Tail(down[k])
    <2>1. k \in Conns /\ UNCHANGED <<slots, tasks, call>> /\ tainted' = tainted \cup {k}
        BY <1>5, <1>t DEF CameraReadsPart
    <2>2. CASE Leave(c, k) /\ UNCHANGED csession
        BY <1>3, <2>1, <2>2
    <2>3. CASE /\ conn' = conn /\ down' = [down EXCEPT ![k] = new]
               /\ csession' = csession \/ csession' = [csession EXCEPT ![c] = Garbled]
        <3>1. \A j \in Conns \ tainted' : \A i \in DOMAIN down'[j] : down'[j][i].id = j
            <4>1. \A j \in Conns \ tainted' : down'[j] = down[j] /\ j \notin tainted
                BY <1>t, <2>1, <2>3
            <4> QED
                BY <4>1 DEF MessagesInv, MessagesAreForSession
        <3>2. CameraKnowsItsSession'
            BY <1>t, <2>1, <2>3 DEF MessagesInv, CameraKnowsItsSession
        <3> QED
            BY <2>1, <3>1, <3>2, CameraMoves DEF slots, tasks
    <2> QED
        BY <1>5, <2>2, <2>3 DEF CameraReadsPart
<1>6. CASE CameraLoses(c)
    BY <1>3, <1>6, <1>t DEF CameraLoses
<1> QED
    BY <1>1, <1>2, <1>4, <1>5, <1>6

LEMMA ServerMessages ==
    ASSUME TypeOK, OneTaskPerSlot, MessagesInv, NEW k \in Conns,
           ServerStep(k) \/ ServerSends(k) \/ ServerLoses(k) \/ \E part \in BOOLEAN : ServerReads(k, part)
    PROVE  MessagesInv'
<1>t. /\ slot \in [Conns -> Slots \cup {NoSlot}] /\ session_id \in [Slots -> Ids]
      /\ reqActionQueue \in [Slots -> Seq(Messages)] /\ down \in [Conns -> Seq(Messages)]
      /\ \A s \in Slots : s # NoSlot
    BY ConstantFacts DEF TypeOK
<1>o. \A j \in Conns : slot[j] = slot[k] /\ slot[j] # NoSlot => j = k
    BY DEF OneTaskPerSlot
<1>h. srv[k] \in {"begin", "loop", "ack", "exit"} => slot[k] \in Slots
    BY <1>t DEF OneTaskPerSlot
<1>1. CASE AcceptConnection(k) \/ NoSlotFree(k) \/ Begin(k) \/ RunStops(k)
    BY <1>1, NoMessageMoves DEF AcceptConnection, NoSlotFree, Begin, RunStops, slots, cameras
<1>2. ASSUME NEW s \in Slots, TakeSlot(k, s) PROVE MessagesInv'
    <2>1. /\ session_id' = [session_id EXCEPT ![s] = NoId] /\ slot' = [slot EXCEPT ![k] = s]
          /\ UNCHANGED <<reqActionQueue, call, down, conn, csession>> /\ tainted \subseteq tainted'
          /\ reqActionQueue[s] # <<>> \/ call.to = s => k \in tainted'
        BY <1>2 DEF TakeSlot, cameras
    <2>2. \A j \in Conns : slot[j] # s
        BY <1>2 DEF TakeSlot, IsFirstFree, OneTaskPerSlot
    <2>3. SessionOfHolder'
        BY <1>t, <2>1, <2>2 DEF MessagesInv, SessionOfHolder
    <2>4. CallForHolder'
        BY <1>t, <2>1 DEF MessagesInv, CallForHolder
    <2>5. MessagesAreForSession'
        <3>1. \A j \in Conns \ tainted' : \A i \in DOMAIN down'[j] : down'[j][i].id = j
            BY <2>1 DEF MessagesInv, MessagesAreForSession
        <3>2. ASSUME NEW j \in Conns \ tainted', slot'[j] # NoSlot, NEW i \in DOMAIN reqActionQueue'[slot'[j]]
              PROVE  reqActionQueue'[slot'[j]][i].id = j
            <4>1. CASE j = k
                BY <1>t, <2>1, <3>2, <4>1
            <4>2. CASE j # k
                BY <1>t, <2>1, <3>2, <4>2 DEF MessagesInv, MessagesAreForSession
            <4> QED
                BY <4>1, <4>2
        <3> QED
            BY <3>1, <3>2 DEF MessagesAreForSession
    <2>6. CameraKnowsItsSession'
        BY <2>1 DEF MessagesInv, CameraKnowsItsSession
    <2> QED
        BY <2>3, <2>4, <2>5, <2>6 DEF MessagesInv
<1>3. CASE Acknowledge(k)
    <2> DEFINE s == slot[k]
               new == Append(reqActionQueue[s], Message("ACK", k))
    <2>1. /\ UNCHANGED <<session_id, slot, call, down, conn, csession, tainted>>
          /\ reqActionQueue' = reqActionQueue \/ reqActionQueue' = [reqActionQueue EXCEPT ![s] = new]
        BY <1>3 DEF Acknowledge, cameras
    <2>2. s \in Slots
        BY <1>3, <1>h DEF Acknowledge
    <2>3. \A i \in DOMAIN new : new[i].id = k \/ \E j \in DOMAIN reqActionQueue[s] : new[i] = reqActionQueue[s][j]
        BY <1>t, <2>2, MessageTypes, Appended DEF Message
    <2> HIDE DEF new, s
    <2>4. k \notin tainted => \A i \in DOMAIN new : new[i].id = k
        <3>1. k \notin tainted => \A j \in DOMAIN reqActionQueue[s] : reqActionQueue[s][j].id = k
            BY <1>t, <2>2 DEF MessagesInv, MessagesAreForSession, s
        <3> QED
            BY <2>3, <3>1
    <2>5. ASSUME NEW j \in Conns \ tainted', slot'[j] # NoSlot, NEW i \in DOMAIN reqActionQueue'[slot'[j]]
          PROVE  reqActionQueue'[slot'[j]][i].id = j
        <3>1. CASE j = k /\ reqActionQueue' # reqActionQueue
            BY <1>t, <2>1, <2>2, <2>4, <2>5, <3>1 DEF s
        <3>2. CASE j # k \/ reqActionQueue' = reqActionQueue
            <4>1. reqActionQueue'[slot'[j]] = reqActionQueue[slot[j]]
                BY <1>t, <1>o, <2>1, <2>5, <3>2 DEF s
            <4> QED
                BY <2>1, <2>5, <4>1 DEF MessagesInv, MessagesAreForSession
        <3> QED
            BY <3>1, <3>2
    <2>6. MessagesAreForSession'
        BY <2>1, <2>5 DEF MessagesInv, MessagesAreForSession
    <2>7. SessionOfHolder' /\ CallForHolder' /\ CameraKnowsItsSession'
        BY <2>1 DEF MessagesInv, SessionOfHolder, CallForHolder, CameraKnowsItsSession
    <2> QED
        BY <2>6, <2>7 DEF MessagesInv
<1>4. CASE ReturnSlot(k)
    <2>1. /\ session_id' = [session_id EXCEPT ![slot[k]] = NoId] /\ slot' = [slot EXCEPT ![k] = NoSlot]
          /\ UNCHANGED <<reqActionQueue, call, down, conn, csession, tainted>>
        BY <1>4 DEF ReturnSlot, cameras
    <2>2. SessionOfHolder'
        BY <1>t, <2>1 DEF MessagesInv, SessionOfHolder
    <2>3. CallForHolder' /\ CameraKnowsItsSession' /\ MessagesAreForSession'
        BY <1>t, <2>1 DEF MessagesInv, CallForHolder, CameraKnowsItsSession, MessagesAreForSession
    <2> QED
        BY <2>2, <2>3 DEF MessagesInv
<1>5. CASE ServerSends(k)
    <2> DEFINE s == slot[k]
               m == Head(reqActionQueue[s])
               rest == Tail(reqActionQueue[s])
               new == Append(down[k], m)
    <2>1. /\ UNCHANGED <<session_id, slot, call, conn, csession, tainted>>
          /\ reqActionQueue' = [reqActionQueue EXCEPT ![s] = rest]
          /\ down' = down \/ down' = [down EXCEPT ![k] = new]
        BY <1>5 DEF ServerSends, tasks, cameras
    <2>2. s \in Slots /\ reqActionQueue[s] \in Seq(Messages) /\ reqActionQueue[s] # <<>>
        BY <1>5, <1>h, <1>t DEF ServerSends, Looping
    <2>3. \E j \in DOMAIN reqActionQueue[s] : m = reqActionQueue[s][j]
        BY <2>2, Shortened
    <2>4. \A i \in DOMAIN rest : \E j \in DOMAIN reqActionQueue[s] : rest[i] = reqActionQueue[s][j]
        BY <2>2, Shortened
    <2>5. m \in Messages
        BY <2>2, Shortened
    <2>6. \A i \in DOMAIN new : new[i] = m \/ \E j \in DOMAIN down[k] : new[i] = down[k][j]
        <3> HIDE DEF m
        <3>1. down[k] \in Seq(Messages)
            BY <1>t
        <3> QED
            BY <2>5, <3>1, Appended
    <2> HIDE DEF new, rest, m, s
    <2>7. k \notin tainted => m.id = k /\ \A i \in DOMAIN rest : rest[i].id = k
        <3>1. s # NoSlot
            BY <2>2, ConstantFacts
        <3>2. k \notin tainted => \A j \in DOMAIN reqActionQueue[s] : reqActionQueue[s][j].id = k
            BY <3>1 DEF MessagesInv, MessagesAreForSession, s
        <3> QED
            BY <2>3, <2>4, <3>2
    <2>8. k \notin tainted => \A i \in DOMAIN new : new[i].id = k
        BY <2>6, <2>7 DEF MessagesInv, MessagesAreForSession
    <2>9. \A j \in Conns \ tainted' : \A i \in DOMAIN down'[j] : down'[j][i].id = j
        BY <1>t, <2>1, <2>8 DEF MessagesInv, MessagesAreForSession
    <2>10. ASSUME NEW j \in Conns \ tainted', slot'[j] # NoSlot, NEW i \in DOMAIN reqActionQueue'[slot'[j]]
           PROVE  reqActionQueue'[slot'[j]][i].id = j
        <3>1. CASE j = k
            BY <1>t, <2>1, <2>2, <2>7, <2>10, <3>1 DEF s
        <3>2. CASE j # k
            <4>1. reqActionQueue'[slot'[j]] = reqActionQueue[slot[j]]
                BY <1>t, <1>o, <2>1, <2>10, <3>2 DEF s
            <4> QED
                BY <2>1, <2>10, <4>1 DEF MessagesInv, MessagesAreForSession
        <3> QED
            BY <3>1, <3>2
    <2>11. SessionOfHolder' /\ CallForHolder' /\ CameraKnowsItsSession'
        BY <2>1 DEF MessagesInv, SessionOfHolder, CallForHolder, CameraKnowsItsSession
    <2> QED
        BY <2>9, <2>10, <2>11 DEF MessagesInv, MessagesAreForSession
<1>6. ASSUME UNCHANGED <<slot, call, reqActionQueue, down, conn, csession, tainted>>, SessionOfHolder'
      PROVE  MessagesInv'
    BY <1>6 DEF MessagesInv, CallForHolder, MessagesAreForSession, CameraKnowsItsSession
<1>7. CASE ServerLoses(k)
    <2>1. SessionOfHolder'
        BY <1>7, <1>t, <1>h DEF ServerLoses, Looping, MessagesInv, SessionOfHolder
    <2> QED
        BY <1>6, <1>7, <2>1 DEF ServerLoses, cameras
<1>8. ASSUME NEW part \in BOOLEAN, ServerReads(k, part) PROVE MessagesInv'
    <2>1. session_id' = session_id \/ session_id' = [session_id EXCEPT ![slot[k]] = k]
        BY <1>8 DEF ServerReads
    <2>2. slot' = slot /\ slot[k] \in Slots
        BY <1>8, <1>h DEF ServerReads, Looping
    <2>3. SessionOfHolder'
        BY <1>t, <1>o, <2>1, <2>2 DEF MessagesInv, SessionOfHolder
    <2> QED
        BY <1>6, <1>8, <2>3 DEF ServerReads, cameras
<1> QED
    BY <1>1, <1>2, <1>3, <1>4, <1>5, <1>7, <1>8 DEF ServerStep

LEMMA OtherMessages ==
    ASSUME TypeOK, OneTaskPerSlot, MessagesInv,
           (\E s \in Slots : PrepareRequest(s) \/ StopRun(s)) \/ QueueRequest \/ DeleteTasks
    PROVE  MessagesInv'
<1>t. slot \in [Conns -> Slots \cup {NoSlot}] /\ reqActionQueue \in [Slots -> Seq(Messages)]
    BY DEF TypeOK
<1>1. CASE (\E s \in Slots : StopRun(s)) \/ DeleteTasks
    BY <1>1, NoMessageMoves DEF StopRun, DeleteTasks, slots, tasks, cameras
<1>2. ASSUME NEW s \in Slots, PrepareRequest(s) PROVE MessagesInv'
    <2>1. UNCHANGED <<session_id, slot, reqActionQueue, down, conn, csession, tainted>>
        BY <1>2 DEF PrepareRequest, slots, tasks, cameras
    <2>2. CallForHolder'
        <3>1. call'.to = s /\ call'.id = session_id[s] /\ session_id[s] # NoId
            BY <1>2 DEF PrepareRequest
        <3> QED
            BY <2>1, <3>1 DEF MessagesInv, SessionOfHolder, CallForHolder
    <2> QED
        BY <2>1, <2>2 DEF MessagesInv, SessionOfHolder, MessagesAreForSession, CameraKnowsItsSession
<1>3. CASE QueueRequest
    <2> DEFINE s == call.to
               new == Append(reqActionQueue[s], Message("REQ", call.id))
    <2>1. s \in Slots /\ call.id \in Ids
        BY <1>3 DEF QueueRequest, TypeOK
    <2>2. /\ UNCHANGED <<session_id, slot, down, conn, csession, tainted>> /\ call' = NoCall
          /\ reqActionQueue' = reqActionQueue \/ reqActionQueue' = [reqActionQueue EXCEPT ![s] = new]
        BY <1>3 DEF QueueRequest, tasks, cameras
    <2>3. \A i \in DOMAIN new : new[i].id = call.id \/ \E j \in DOMAIN reqActionQueue[s] : new[i] = reqActionQueue[s][j]
        BY <1>t, <2>1, MessageTypes, Appended DEF Message
    <2> HIDE DEF new, s
    <2>4. ASSUME NEW j \in Conns \ tainted', slot'[j] # NoSlot, NEW i \in DOMAIN reqActionQueue'[slot'[j]]
          PROVE  reqActionQueue'[slot'[j]][i].id = j
        <3>1. CASE slot[j] = s /\ reqActionQueue' # reqActionQueue
            <4>1. call.id = j
                BY <2>2, <2>4, <3>1 DEF MessagesInv, CallForHolder, s
            <4>2. reqActionQueue'[slot'[j]] = new
                BY <1>t, <2>1, <2>2, <3>1
            <4> QED
                BY <2>2, <2>3, <2>4, <3>1, <4>1, <4>2 DEF MessagesInv, MessagesAreForSession
        <3>2. CASE slot[j] # s \/ reqActionQueue' = reqActionQueue
            <4>1. reqActionQueue'[slot'[j]] = reqActionQueue[slot[j]]
                BY <1>t, <2>2, <2>4, <3>2
            <4> QED
                BY <2>2, <2>4, <4>1 DEF MessagesInv, MessagesAreForSession
        <3> QED
            BY <3>1, <3>2
    <2>5. CallForHolder'
        BY <2>2 DEF CallForHolder, NoCall
    <2>6. MessagesAreForSession'
        BY <2>2, <2>4 DEF MessagesInv, MessagesAreForSession
    <2> QED
        BY <2>2, <2>5, <2>6 DEF MessagesInv, SessionOfHolder, CameraKnowsItsSession
<1> QED
    BY <1>1, <1>2, <1>3

-----------------------------------------------------------------------------
(* The removal of the server.                                              *)

LEMMA RemovalStep ==
    ASSUME TypeOK, OneTaskPerSlot, OnlyLateRunsMissTheStop, [Next]_vars PROVE OnlyLateRunsMissTheStop'
<1>t. /\ en \in [Slots -> BOOLEAN] /\ slot \in [Conns -> Slots \cup {NoSlot}] /\ stopped \subseteq Slots
      /\ srv \in [Conns -> {"none", "new", "task", "begin", "loop", "ack", "exit", "gone"}]
      /\ \A s \in Slots : s # NoSlot
    BY ConstantFacts DEF TypeOK
<1>h. \A k \in Conns : srv[k] \in {"begin", "loop", "ack", "exit"} => slot[k] \in Slots
    BY <1>t DEF OneTaskPerSlot
<1>1. CASE UNCHANGED vars
    BY <1>1 DEF vars, slots, tasks, removal, OnlyLateRunsMissTheStop
<1>2. ASSUME ~deleted, UNCHANGED <<en, slot, lateRuns, removal>>, NEW k \in Conns,
             NEW where \in {"new", "task", "loop", "ack", "exit", "gone"},
             srv' = [srv EXCEPT ![k] = where], where \in {"loop", "ack"} => srv[k] \in {"loop", "ack"}
      PROVE  OnlyLateRunsMissTheStop'
    BY <1>t, <1>2 DEF removal, OnlyLateRunsMissTheStop
<1>3. ASSUME ~deleted, NEW c \in Cameras, NEW k \in Conns, Connect(c, k) PROVE OnlyLateRunsMissTheStop'
    <2>1. srv' = [srv EXCEPT ![k] = "new"]
        BY <1>3 DEF Connect
    <2> QED
        BY <1>2, <1>3, <2>1 DEF Connect, slots
<1>4. ASSUME ~deleted, UNCHANGED <<en, tasks, removal>> PROVE OnlyLateRunsMissTheStop'
    BY <1>4 DEF tasks, removal, OnlyLateRunsMissTheStop
<1>5. ASSUME ~deleted, NEW c \in Cameras,
             CameraSends(c) \/ CameraReads(c) \/ CameraReadsPart(c) \/ CameraLoses(c)
      PROVE  OnlyLateRunsMissTheStop'
    BY <1>4, <1>5 DEF CameraSends, CameraReads, CameraReadsPart, CameraLoses, slots
<1>6. ASSUME ~deleted, NEW k \in Conns, ServerStep(k) \/ ServerSends(k) \/ ServerLoses(k)
                                          \/ \E part \in BOOLEAN : ServerReads(k, part)
      PROVE  OnlyLateRunsMissTheStop'
    <2>1. CASE AcceptConnection(k)
        <3>1. srv' = [srv EXCEPT ![k] = "task"]
            BY <2>1 DEF AcceptConnection, Goto
        <3>2. UNCHANGED <<en, slot, lateRuns, removal>>
            BY <2>1 DEF AcceptConnection, slots
        <3> QED
            BY <1>2, <1>6, <3>1, <3>2
    <2>2. CASE NoSlotFree(k)
        <3>1. srv' = [srv EXCEPT ![k] = "gone"]
            BY <2>2 DEF NoSlotFree, Goto
        <3>2. UNCHANGED <<en, slot, lateRuns, removal>>
            BY <2>2 DEF NoSlotFree, slots
        <3> QED
            BY <1>2, <1>6, <3>1, <3>2
    <2>3. ASSUME NEW s \in Slots, TakeSlot(k, s) PROVE OnlyLateRunsMissTheStop'
        <3>1. /\ srv' = [srv EXCEPT ![k] = "begin"] /\ slot' = [slot EXCEPT ![k] = s]
              /\ UNCHANGED <<en, lateRuns, removal>>
            BY <2>3 DEF TakeSlot, Goto
        <3> QED
            BY <1>6, <1>t, <3>1 DEF removal, OnlyLateRunsMissTheStop
    <2>4. CASE Begin(k)
        <3>1. /\ srv' = [srv EXCEPT ![k] = "loop"] /\ en' = [en EXCEPT ![slot[k]] = TRUE]
              /\ UNCHANGED <<slot, removal>>
              /\ lateRuns' = IF slot[k] \in stopped THEN lateRuns \cup {k} ELSE lateRuns
              /\ slot[k] \in Slots
            BY <1>h, <2>4 DEF Begin, Goto
        <3>2. \A j \in Conns : slot[j] = slot[k] => j = k
            BY <1>t, <3>1 DEF OneTaskPerSlot
        <3>3. ASSUME NEW j \in Conns, j # k, srv'[j] \in {"loop", "ack"}, slot'[j] \in stopped',
                     en'[slot'[j]]
              PROVE  j \in lateRuns'
            <4>1. srv[j] = srv'[j] /\ slot[j] \in stopped /\ en[slot[j]]
                BY <1>t, <3>1, <3>2, <3>3 DEF removal
            <4> QED
                BY <3>1, <3>3, <4>1 DEF OnlyLateRunsMissTheStop
        <3> QED
            BY <3>1, <3>3 DEF removal, OnlyLateRunsMissTheStop
    <2>5. CASE Acknowledge(k)
        <3>1. \E where \in {"loop", "exit"} : srv' = [srv EXCEPT ![k] = where]
            BY <2>5 DEF Acknowledge, Goto
        <3> QED
            BY <1>2, <1>6, <2>5, <3>1 DEF Acknowledge
    <2>6. CASE RunStops(k) \/ ServerLoses(k)
        <3>1. srv' = [srv EXCEPT ![k] = "exit"] /\ UNCHANGED <<en, slot, lateRuns, removal>>
            BY <2>6 DEF RunStops, ServerLoses, Goto, slots
        <3> QED
            BY <1>2, <1>6, <3>1
    <2>7. CASE ReturnSlot(k)
        <3>1. /\ srv' = [srv EXCEPT ![k] = "gone"] /\ slot' = [slot EXCEPT ![k] = NoSlot]
              /\ UNCHANGED <<en, lateRuns, removal>>
            BY <2>7 DEF ReturnSlot, Goto
        <3> QED
            BY <1>6, <1>t, <3>1 DEF removal, OnlyLateRunsMissTheStop
    <2>8. CASE ServerSends(k)
        BY <1>4, <1>6, <2>8 DEF ServerSends
    <2>9. ASSUME NEW part \in BOOLEAN, ServerReads(k, part) PROVE OnlyLateRunsMissTheStop'
        <3>1. srv[k] = "loop" /\ \E where \in {"ack", "exit"} : srv' = [srv EXCEPT ![k] = where]
            BY <2>9 DEF ServerReads, Goto, Looping
        <3> QED
            BY <1>2, <1>6, <2>9, <3>1 DEF ServerReads
    <2> QED
        BY <1>6, <2>1, <2>2, <2>3, <2>4, <2>5, <2>6, <2>7, <2>8, <2>9 DEF ServerStep
<1>7. ASSUME ~deleted, NEW s \in Slots, PrepareRequest(s) \/ QueueRequest PROVE OnlyLateRunsMissTheStop'
    BY <1>4, <1>7 DEF PrepareRequest, QueueRequest, slots
<1>8. ASSUME ~deleted, NEW s \in Slots, StopRun(s) PROVE OnlyLateRunsMissTheStop'
    <2>1. stopped' = stopped \cup {s} /\ en' = [en EXCEPT ![s] = FALSE] /\ UNCHANGED <<tasks, deleted>>
        BY <1>8 DEF StopRun
    <2> QED
        BY <1>t, <2>1 DEF tasks, OnlyLateRunsMissTheStop
<1>9. ASSUME DeleteTasks PROVE OnlyLateRunsMissTheStop'
    BY <1>9 DEF DeleteTasks, slots, tasks, OnlyLateRunsMissTheStop
<1>10. ASSUME ~deleted, QueueRequest PROVE OnlyLateRunsMissTheStop'
    BY <1>4, <1>10 DEF QueueRequest
<1> QED
    BY <1>1, <1>3, <1>5, <1>6, <1>7, <1>8, <1>9, <1>10 DEF Next

-----------------------------------------------------------------------------
(* The specification.                                                      *)

IInv == TypeOK /\ OneTaskPerSlot /\ MessagesInv /\ OnlyLateRunsMissTheStop

LEMMA InitIInv == Init => IInv
<1> SUFFICES ASSUME Init PROVE IInv
    OBVIOUS
<1>1. TypeOK
    BY InitTypes
<1>2. OneTaskPerSlot
    BY ConstantFacts DEF Init, OneTaskPerSlot
<1>3. SessionOfHolder /\ CallForHolder /\ CameraKnowsItsSession
    BY DEF Init, SessionOfHolder, CallForHolder, CameraKnowsItsSession
<1>4. MessagesAreForSession
    BY DEF Init, MessagesAreForSession
<1>5. OnlyLateRunsMissTheStop
    BY DEF Init, OnlyLateRunsMissTheStop
<1> QED
    BY <1>1, <1>2, <1>3, <1>4, <1>5 DEF IInv, MessagesInv

LEMMA NextIInv == IInv /\ [Next]_vars => IInv'
<1> SUFFICES ASSUME IInv, [Next]_vars PROVE IInv'
    OBVIOUS
<1>1. TypeOK' /\ OneTaskPerSlot'
    BY SlotsStep DEF IInv
<1>2. OnlyLateRunsMissTheStop'
    BY RemovalStep DEF IInv
<1>3. MessagesInv'
    <2>1. CASE UNCHANGED vars
        BY <2>1, NoMessageMoves DEF IInv, vars, slots, tasks, cameras
    <2>2. CASE Next
        BY <2>2, CameraMessages, ServerMessages, OtherMessages DEF IInv, Next
    <2> QED
        BY <2>1, <2>2
<1> QED
    BY <1>1, <1>2, <1>3 DEF IInv

LEMMA Invariant == Spec => []IInv
BY InitIInv, NextIInv, PTL DEF Spec

\* The variables keep their types, no queue grows past its length, and TCP holds no
\* more than it takes (the guards of insert_action and of the sends).
THEOREM TypeCorrect == Spec => []TypeOK
<1>1. IInv => TypeOK
    BY DEF IInv
<1> QED
    BY <1>1, Invariant, PTL

\* Whatever connections come, fail and end, and in whatever order their tasks run, a
\* slot has one task from espfsp_session_manager_get_comm_proto to _return_comm_proto.
THEOREM SlotAlwaysHasOneTask == Spec => []OneTaskPerSlot
<1>1. IInv => OneTaskPerSlot
    BY DEF IInv
<1> QED
    BY <1>1, Invariant, PTL

\* Messages are for the session of the connection they go to, unless the slot was
\* taken with a message in its queue or on its way there, or the camera came with a
\* session or read a part of a message.
THEOREM MessagesAreAlwaysForSession == Spec => []MessagesAreForSession
<1>1. IInv => MessagesAreForSession
    BY DEF IInv, MessagesInv
<1> QED
    BY <1>1, Invariant, PTL

\* What the camera takes for its session is then the one the server made for it.
THEOREM CameraAlwaysKnowsItsSession == Spec => []CameraKnowsItsSession
<1>1. IInv => CameraKnowsItsSession
    BY DEF IInv, MessagesInv
<1> QED
    BY <1>1, Invariant, PTL

\* espfsp_comm_proto_stop is lost only on runs that begin after it, even when the
\* slot passes to another connection in between.
THEOREM OnlyLateRunsEverMissTheStop == Spec => []OnlyLateRunsMissTheStop
<1>1. IInv => OnlyLateRunsMissTheStop
    BY DEF IInv
<1> QED
    BY <1>1, Invariant, PTL

=============================================================================
