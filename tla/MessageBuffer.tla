--------------------------- MODULE MessageBuffer ---------------------------
(***************************************************************************)
(* The receiver buffer (espfsp_message_buffer.c).  UDP messages, each one  *)
(* part of a frame, are put together in assemblies by the producer (the    *)
(* receiving data task); completed frames pass through frameQueue to the   *)
(* consumer (the sending data task of the server, or the application of a  *)
(* play client).  The two run in different tasks and share the bits of the *)
(* assemblies and the FreeRTOS queue without a lock, so every operation    *)
(* below is split at the accesses the other task can come between.         *)
(*                                                                         *)
(* A frame is named by its timestamp.  The network loses, reorders and     *)
(* duplicates messages.  Lengths are counted in parts of                   *)
(* MESSAGE_BUFFER_SIZE bytes; the contents of a buffer are, for each part, *)
(* the frame whose bytes were copied there last.                           *)
(***************************************************************************)
EXTENDS Naturals, Sequences, FiniteSets

CONSTANTS
    NAss,        \* config->buffered_fbs
    MaxParts,    \* config->frame_max_len, in parts
    BeforeGet,   \* config->fb_in_buffer_before_get
    Frames,      \* timestamps of the frames the sender sends
    Total,       \* msg_total of each frame
    MaxCopies,   \* bound: how often the network delivers one message
    NoFrame,     \* contents of a part nothing was copied to
    NoAss        \* NULL

ASSUME NAssAssumption == NAss \in Nat \ {0}
ASSUME BeforeGetAssumption == BeforeGet \in Nat
ASSUME FramesAssumption == Frames \subseteq Nat /\ NoFrame \notin Frames
ASSUME TotalAssumption == MaxParts \in Nat \ {0} /\ Total \in [Frames -> Nat \ {0}]
ASSUME CopiesAssumption == MaxCopies \in Nat
ASSUME NoAssAssumption == NoAss \notin 1 .. NAss

Assemblies == 1 .. NAss
Parts == 0 .. MaxParts - 1
Messages == UNION {{f} \X (0 .. Total[f] - 1) : f \in Frames}

VARIABLES
    bits,           \* owner and usage bits: "free" = PRODUCER|FREE,
                    \* "used" = PRODUCER|USED, "done" = CONSUMER|FREE
    stamp,          \* timestamp of an assembly
    msg_received,   \* parts counted in since the assembly was claimed
    buf,            \* for each part, the frame whose bytes are there
    frameQueue,     \* completed assemblies, oldest first
    s_ass,          \* the assembly the consumer holds
    buffer_locked,  \* get_fb waits until BeforeGet frames are queued
    ppc, msg, ass,  \* producer: where it is, message and assembly in hand
    cpc,            \* consumer: where it is
    copies          \* deliveries so far of each message that was not discarded

prodVars == <<ppc, msg, ass, copies>>
consVars == <<s_ass, buffer_locked, cpc>>
assVars  == <<bits, stamp, msg_received, buf>>
vars == <<assVars, frameQueue, consVars, prodVars>>

TypeOK ==
    /\ bits \in [Assemblies -> {"free", "used", "done"}]
    /\ stamp \in [Assemblies -> Frames \cup {NoFrame}]
    /\ msg_received \in [Assemblies -> Nat]
    /\ buf \in [Assemblies -> [Parts -> Frames \cup {NoFrame}]]
    /\ frameQueue \in Seq(Assemblies)
    /\ s_ass \in Assemblies \cup {NoAss}
    /\ buffer_locked \in BOOLEAN
    /\ ppc \in {"idle", "search", "steal", "evict", "store", "publish"}
    /\ msg \in Messages \cup {<<NoFrame, 0>>}
    /\ ass \in Assemblies \cup {NoAss}
    /\ cpc \in {"idle", "interval", "recv", "hold"}
    /\ copies \in [Messages -> 0 .. MaxCopies]

\* espfsp_message_buffer_init
Init ==
    /\ bits = [a \in Assemblies |-> "free"]
    /\ stamp = [a \in Assemblies |-> NoFrame]
    /\ msg_received = [a \in Assemblies |-> 0]
    /\ buf = [a \in Assemblies |-> [p \in Parts |-> NoFrame]]
    /\ frameQueue = <<>>
    /\ s_ass = NoAss
    /\ buffer_locked = TRUE
    /\ ppc = "idle" /\ msg = <<NoFrame, 0>> /\ ass = NoAss
    /\ cpc = "idle"
    /\ copies = [m \in Messages |-> 0]

-----------------------------------------------------------------------------
(* The producer: espfsp_message_buffer_process_message.                    *)

\* A message arrives.  One whose frame does not fit a buffer is discarded.
ReceiveMessage(m) ==
    /\ ppc = "idle"
    /\ copies[m] < MaxCopies
    /\ IF Total[m[1]] > MaxParts
       THEN UNCHANGED <<ppc, msg, copies>>
       ELSE /\ ppc' = "search" /\ msg' = m
            /\ copies' = [copies EXCEPT ![m] = @ + 1]
    /\ UNCHANGED <<assVars, frameQueue, consVars, ass>>

\* get_assembly_with_timestamp
HasTimestamp(a) == bits[a] = "used" /\ stamp[a] = msg[1]
Matching == {a \in Assemblies : HasTimestamp(a)}

\* get_free_assembly scans for the first one.  It reads the bits one assembly
\* at a time, and the consumer may free an earlier one behind the scan, so any
\* free assembly may be found.
Free == {a \in Assemblies : bits[a] = "free"}

\* get_earliest_used_assembly
IsEarliestUsed(a) ==
    /\ bits[a] = "used"
    /\ \A b \in Assemblies : bits[b] = "used" => stamp[a] <= stamp[b]

\* Faulty variant of Claim: the count of the previous frame is kept.
ClaimKeepsCount(a) ==
    /\ bits' = [bits EXCEPT ![a] = "used"]
    /\ stamp' = [stamp EXCEPT ![a] = msg[1]]
    /\ ass' = a
    /\ ppc' = "store"
    /\ UNCHANGED <<buf, msg_received, msg, copies>>

\* The assembly is taken over for the frame of the message in hand.
Claim(a) ==
    /\ bits' = [bits EXCEPT ![a] = "used"]
    /\ stamp' = [stamp EXCEPT ![a] = msg[1]]
    /\ msg_received' = [msg_received EXCEPT ![a] = 0]
    /\ ass' = a
    /\ ppc' = "store"
    /\ UNCHANGED <<buf, msg, copies>>

UseMatching(a) ==
    /\ ppc = "search"
    /\ HasTimestamp(a)
    /\ ass' = a
    /\ ppc' = "store"
    /\ UNCHANGED <<assVars, frameQueue, consVars, msg, copies>>

\* Faulty variant of ClaimFree: assemblies are not looked up by timestamp.
ClaimFreeAlways(a) ==
    /\ ppc = "search"
    /\ a \in Free
    /\ Claim(a)
    /\ UNCHANGED <<frameQueue, consVars>>

ClaimFree(a) ==
    /\ ppc = "search"
    /\ Matching = {}
    /\ a \in Free
    /\ Claim(a)
    /\ UNCHANGED <<frameQueue, consVars>>

NoneFree ==
    /\ ppc = "search"
    /\ Matching = {}
    /\ Free = {}
    /\ ppc' = "steal"
    /\ UNCHANGED <<assVars, frameQueue, consVars, msg, ass, copies>>

\* Faulty variant of StealOldest: the newest completed frame is given up.
StealNewest ==
    /\ ppc = "steal"
    /\ frameQueue # <<>>
    /\ Claim(frameQueue[Len(frameQueue)])
    /\ frameQueue' = SubSeq(frameQueue, 1, Len(frameQueue) - 1)
    /\ UNCHANGED consVars

\* Faulty variant of StealOldest: the queue is peeked instead of received from.
StealPeeks ==
    /\ ppc = "steal"
    /\ frameQueue # <<>>
    /\ Claim(Head(frameQueue))
    /\ UNCHANGED <<frameQueue, consVars>>

\* Nothing is free: the oldest completed frame is given up.
StealOldest ==
    /\ ppc = "steal"
    /\ frameQueue # <<>>
    /\ Claim(Head(frameQueue))
    /\ frameQueue' = Tail(frameQueue)
    /\ UNCHANGED consVars

NoneQueued ==
    /\ ppc = "steal"
    /\ frameQueue = <<>>
    /\ ppc' = "evict"
    /\ UNCHANGED <<assVars, frameQueue, consVars, msg, ass, copies>>

\* Nothing is queued either: the earliest frame in assembly is given up.
EvictEarliest(a) ==
    /\ ppc = "evict"
    /\ IsEarliestUsed(a)
    /\ Claim(a)
    /\ UNCHANGED <<frameQueue, consVars>>

\* "Bad usage. Assemblies not returned to buffer": the message is dropped.
NothingToEvict ==
    /\ ppc = "evict"
    /\ \A a \in Assemblies : bits[a] # "used"
    /\ ppc' = "idle"
    /\ UNCHANGED <<assVars, frameQueue, consVars, msg, ass, copies>>

\* Faulty variant of StorePart: a complete frame stays with the producer.
StoreKeepsOwner ==
    /\ ppc = "store"
    /\ buf' = [buf EXCEPT ![ass][msg[2]] = msg[1]]
    /\ msg_received' = [msg_received EXCEPT ![ass] = @ + 1]
    /\ ppc' = IF msg_received[ass] + 1 = Total[stamp[ass]] THEN "publish" ELSE "idle"
    /\ UNCHANGED <<bits, stamp, frameQueue, consVars, msg, ass, copies>>

\* The part is copied and counted; the last one hands the assembly over.
StorePart ==
    /\ ppc = "store"
    /\ buf' = [buf EXCEPT ![ass][msg[2]] = msg[1]]
    /\ msg_received' = [msg_received EXCEPT ![ass] = @ + 1]
    /\ IF msg_received[ass] + 1 = Total[stamp[ass]]
       THEN /\ bits' = [bits EXCEPT ![ass] = "done"]
            /\ ppc' = "publish"
       ELSE /\ ppc' = "idle"
            /\ UNCHANGED bits
    /\ UNCHANGED <<stamp, frameQueue, consVars, msg, ass, copies>>

\* Faulty variant of Publish: the consumer's pointer is queued.
PublishWrongPointer ==
    /\ ppc = "publish"
    /\ frameQueue' = IF Len(frameQueue) < NAss THEN Append(frameQueue, s_ass) ELSE frameQueue
    /\ ppc' = "idle"
    /\ UNCHANGED <<assVars, consVars, msg, ass, copies>>

\* xQueueSend does not wait: a full queue would lose the assembly for good.
Publish ==
    /\ ppc = "publish"
    /\ frameQueue' = IF Len(frameQueue) < NAss THEN Append(frameQueue, ass) ELSE frameQueue
    /\ ppc' = "idle"
    /\ UNCHANGED <<assVars, consVars, msg, ass, copies>>

-----------------------------------------------------------------------------
(* The consumer: espfsp_message_buffer_get_fb, then the frame is read,     *)
(* then espfsp_message_buffer_return_fb.                                   *)

\* Faulty variant of BufferUnlocks: one frame too many is waited for.
BufferUnlocksLate ==
    /\ cpc = "idle"
    /\ buffer_locked
    /\ Len(frameQueue) > BeforeGet
    /\ buffer_locked' = FALSE
    /\ cpc' = "interval"
    /\ UNCHANGED <<assVars, frameQueue, s_ass, prodVars>>

\* is_buffer_locked, prebuffering done
BufferUnlocks ==
    /\ cpc = "idle"
    /\ buffer_locked
    /\ Len(frameQueue) >= BeforeGet
    /\ buffer_locked' = FALSE
    /\ cpc' = "interval"
    /\ UNCHANGED <<assVars, frameQueue, s_ass, prodVars>>

\* is_buffer_locked, not locked and nothing to prebuffer again
BufferOpen ==
    /\ cpc = "idle"
    /\ ~buffer_locked
    /\ frameQueue # <<>> \/ BeforeGet = 0
    /\ cpc' = "interval"
    /\ UNCHANGED <<assVars, frameQueue, s_ass, buffer_locked, prodVars>>

\* is_buffer_locked, drained: prebuffering starts again and get_fb returns NULL
BufferRelocks ==
    /\ cpc = "idle"
    /\ ~buffer_locked
    /\ frameQueue = <<>>
    /\ BeforeGet # 0
    /\ buffer_locked' = TRUE
    /\ UNCHANGED <<assVars, frameQueue, s_ass, cpc, prodVars>>

\* is_buffer_interval_met, before the timeout or not
IntervalMet ==
    /\ cpc = "interval"
    /\ cpc' = "recv"
    /\ UNCHANGED <<assVars, frameQueue, s_ass, buffer_locked, prodVars>>

IntervalTimeout ==
    /\ cpc = "interval"
    /\ cpc' = "idle"
    /\ UNCHANGED <<assVars, frameQueue, s_ass, buffer_locked, prodVars>>

TakeFrame ==
    /\ cpc = "recv"
    /\ frameQueue # <<>>
    /\ s_ass' = Head(frameQueue)
    /\ frameQueue' = Tail(frameQueue)
    /\ cpc' = "hold"
    /\ UNCHANGED <<assVars, buffer_locked, prodVars>>

TakeTimeout ==
    /\ cpc = "recv"
    /\ frameQueue = <<>>
    /\ cpc' = "idle"
    /\ UNCHANGED <<assVars, frameQueue, s_ass, buffer_locked, prodVars>>

\* Faulty variant of ReturnFrame: the assembly keeps its consumer bit.
ReturnKeepsOwner ==
    /\ cpc = "hold"
    /\ s_ass' = NoAss
    /\ cpc' = "idle"
    /\ UNCHANGED <<assVars, frameQueue, buffer_locked, prodVars>>

ReturnFrame ==
    /\ cpc = "hold"
    /\ bits' = [bits EXCEPT ![s_ass] = "free"]
    /\ s_ass' = NoAss
    /\ cpc' = "idle"
    /\ UNCHANGED <<stamp, msg_received, buf, frameQueue, buffer_locked, prodVars>>

-----------------------------------------------------------------------------
Search ==
    \/ \E a \in Assemblies : UseMatching(a) \/ ClaimFree(a) \/ EvictEarliest(a)
    \/ NoneFree \/ StealOldest \/ NoneQueued \/ NothingToEvict

Process == Search \/ StorePart \/ Publish
Get == BufferUnlocks \/ BufferOpen \/ BufferRelocks \/ TakeFrame \/ TakeTimeout

Next ==
    \/ \E m \in Messages : ReceiveMessage(m)
    \/ Process
    \/ Get
    \/ IntervalMet
    \/ IntervalTimeout
    \/ ReturnFrame

\* Both tasks keep running, and time passes, so a consumer that keeps asking
\* meets the interval in the end.  The network owes nothing.
Fairness ==
    /\ WF_vars(Process)
    /\ WF_vars(Get)
    /\ WF_vars(IntervalMet \/ IntervalTimeout)
    /\ SF_vars(IntervalMet)
    /\ WF_vars(ReturnFrame)

Spec == Init /\ [][Next]_vars
FairSpec == Spec /\ Fairness

-----------------------------------------------------------------------------
(* Properties                                                              *)

Queued == {frameQueue[i] : i \in DOMAIN frameQueue}
InPublish == IF ppc = "publish" THEN {ass} ELSE {}
Held == IF s_ass = NoAss THEN {} ELSE {s_ass}

\* The owner bit, the queue and the two tasks agree on who owns an assembly:
\* it is with the consumer side exactly when it is queued, held by the
\* consumer or about to be queued, it is in one of these places only, and the
\* producer never works on an assembly that is there.  No assembly leaks and
\* none is handed out twice, although nothing but the bits protects them
\* (espfsp_message_buffer.c get_fb, return_fb and process_message).
OwnershipAgrees ==
    /\ {a \in Assemblies : bits[a] = "done"} = Queued \cup Held \cup InPublish
    /\ \A i, j \in DOMAIN frameQueue : i # j => frameQueue[i] # frameQueue[j]
    /\ Queued \cap Held = {} /\ Queued \cap InPublish = {} /\ Held \cap InPublish = {}
    /\ ppc = "store" => bits[ass] = "used"
    /\ cpc = "hold" <=> s_ass # NoAss

\* xQueueSend, which does not wait, always finds room: a completed frame is
\* never lost between its last part and the queue.
QueueHasRoom == ppc = "publish" => Len(frameQueue) < NAss

\* The parts of a frame are collected in one place: no two assemblies are
\* being filled for the same timestamp, so a frame cannot be split over two
\* assemblies neither of which would ever complete.
OneAssemblyPerFrame ==
    \A a, b \in Assemblies :
        bits[a] = "used" /\ bits[b] = "used" /\ stamp[a] = stamp[b] => a = b

DeliveredOnce(f) == \A m \in Messages : m[1] = f => copies[m] <= 1

\* Whatever is lost, reordered, given up or evicted, a frame handed to the
\* consumer side holds all its own parts and no other frame's, if the network
\* did not duplicate one of its messages: parts are only counted
\* (msg_received), so a duplicate stands for a part that never came.
WholeFrames ==
    \A a \in Assemblies :
        bits[a] = "done" /\ DeliveredOnce(stamp[a]) =>
            \A p \in 0 .. Total[stamp[a]] - 1 : buf[a][p] = stamp[a]

\* While the consumer reads a frame, nothing the producer does changes its
\* bytes or its description.
HeldFrameStable ==
    [][s_ass # NoAss /\ s_ass' # NoAss =>
        /\ s_ass' = s_ass
        /\ buf'[s_ass] = buf[s_ass]
        /\ stamp'[s_ass] = stamp[s_ass]]_vars

\* What the buffer promises, as FrameQueue states it.
FQ == INSTANCE FrameQueue WITH
        Capacity <- NAss,
        ready <- [i \in DOMAIN frameQueue |-> stamp[frameQueue[i]]],
        reading <- IF s_ass = NoAss THEN NoFrame ELSE stamp[s_ass]

\* Frames reach the consumer in the order they were completed, and only the
\* oldest waiting one is ever given up.
ImplementsFrameQueue == FQ!Spec

Available == frameQueue # <<>> /\ Len(frameQueue) >= BeforeGet

\* A polling consumer gets a frame, or the producer takes the frames back:
\* prebuffering does not keep a sufficiently filled buffer locked for ever.
AvailableIsTaken == Available ~> (s_ass # NoAss \/ ~Available)

=============================================================================
