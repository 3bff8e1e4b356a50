------------------------ MODULE MessageBufferProofs ------------------------
(***************************************************************************)
(* MessageBuffer for any number of assemblies, any frames and any          *)
(* behaviour of the network: the two tasks agree on who owns an assembly,  *)
(* although they share the ownership bits and the queue without a lock, a  *)
(* completed frame always finds room in the queue and is whole, and the    *)
(* buffer behaves like the queue of frames FrameQueue describes.           *)
(***************************************************************************)
EXTENDS MessageBuffer, FiniteSetTheorems, SequenceTheorems, TLAPS

\* The message in hand fits and has a matching assembly exactly where the
\* search may still find one; the assembly in hand is one.
ProducerAgrees ==
    /\ ppc # "idle" => msg \in Messages /\ Total[msg[1]] <= MaxParts
    /\ ppc \in {"store", "publish"} => ass \in Assemblies
    /\ ppc \in {"steal", "evict"} => Matching = {}
    /\ \A a \in Assemblies : bits[a] = "used" => stamp[a] \in Frames

IInv == TypeOK /\ ProducerAgrees /\ OwnershipAgrees /\ OneAssemblyPerFrame

LEMMA MessageFacts ==
    ASSUME NEW m \in Messages
    PROVE  /\ m = <<m[1], m[2]>>
           /\ m[1] \in Frames
           /\ m[2] \in 0 .. Total[m[1]] - 1
           /\ Total[m[1]] \in Nat \ {0}
  BY TotalAssumption DEF Messages

LEMMA NoFrameNotInMessages == <<NoFrame, 0>> \notin Messages
  BY FramesAssumption, MessageFacts

LEMMA InitIInv == Init => IInv
<1> SUFFICES ASSUME Init PROVE IInv
  OBVIOUS
<1>1. TypeOK
  BY CopiesAssumption DEF Init, TypeOK
<1>2. ProducerAgrees
  BY DEF Init, ProducerAgrees
<1>3. OwnershipAgrees
  BY DEF Init, OwnershipAgrees, Queued, Held, InPublish
<1>4. OneAssemblyPerFrame
  BY DEF Init, OneAssemblyPerFrame
<1> QED BY <1>1, <1>2, <1>3, <1>4 DEF IInv

-----------------------------------------------------------------------------
(* A queue of different assemblies.                                        *)

\* It is not longer than there are assemblies to be in it.
LEMMA DistinctLength ==
    ASSUME NEW S, IsFiniteSet(S), NEW q \in Seq(S),
           \A i, j \in DOMAIN q : i # j => q[i] # q[j]
    PROVE  Len(q) <= Cardinality(S)
<1>1. Len(q) \in Nat /\ DOMAIN q = 1 .. Len(q) /\ q \in [1 .. Len(q) -> S]
  OBVIOUS
<1>2. q \in Injection(1 .. Len(q), S)
  BY <1>1 DEF Injection, IsInjective
<1>3. IsFiniteSet(1 .. Len(q)) /\ Cardinality(1 .. Len(q)) = Len(q)
  BY <1>1, FS_Interval
<1>4. Cardinality(1 .. Len(q)) <= Cardinality(S)
  BY <1>2, FS_Injection
<1> QED BY <1>3, <1>4

\* What is left of it after its head, and what is in it after an append.
LEMMA QueueFacts ==
    ASSUME NEW q \in Seq(Assemblies)
    PROVE  /\ q # <<>> => /\ Head(q) \in Assemblies
                          /\ Head(q) = q[1] /\ 1 \in DOMAIN q
                          /\ Tail(q) \in Seq(Assemblies)
                          /\ DOMAIN Tail(q) = 1 .. Len(q) - 1
                          /\ \A i \in DOMAIN Tail(q) : Tail(q)[i] = q[i + 1] /\ i + 1 \in DOMAIN q
                          /\ \A i \in DOMAIN q : i # 1 => i - 1 \in DOMAIN Tail(q)
           /\ \A a \in Assemblies :
                 /\ Append(q, a) \in Seq(Assemblies)
                 /\ DOMAIN Append(q, a) = DOMAIN q \cup {Len(q) + 1}
                 /\ Append(q, a)[Len(q) + 1] = a
                 /\ \A i \in DOMAIN q : Append(q, a)[i] = q[i] /\ i # Len(q) + 1
  OBVIOUS

\* Taking the head of a queue of different assemblies.
LEMMA TakeHead ==
    ASSUME frameQueue \in Seq(Assemblies), frameQueue # <<>>,
           \A i, j \in DOMAIN frameQueue : i # j => frameQueue[i] # frameQueue[j],
           frameQueue' = Tail(frameQueue)
    PROVE  /\ Head(frameQueue) \in Queued
           /\ Queued' = Queued \ {Head(frameQueue)}
           /\ \A i, j \in DOMAIN frameQueue' : i # j => frameQueue'[i] # frameQueue'[j]
<1>1. DOMAIN frameQueue = 1 .. Len(frameQueue) /\ Len(frameQueue) \in Nat
  OBVIOUS
<1>2. Head(frameQueue) \in Queued
  BY QueueFacts DEF Queued
<1>3. \A i, j \in DOMAIN frameQueue' : i # j => frameQueue'[i] # frameQueue'[j]
  <2> SUFFICES ASSUME NEW i \in DOMAIN Tail(frameQueue), NEW j \in DOMAIN Tail(frameQueue), i # j
               PROVE  Tail(frameQueue)[i] # Tail(frameQueue)[j]
    OBVIOUS
  <2>1. i \in Int /\ j \in Int /\ i + 1 # j + 1
    BY <1>1, QueueFacts
  <2> QED BY <2>1, QueueFacts
<1>4. Queued' \subseteq Queued \ {Head(frameQueue)}
  <2> SUFFICES ASSUME NEW i \in DOMAIN Tail(frameQueue)
               PROVE  Tail(frameQueue)[i] \in Queued \ {Head(frameQueue)}
    BY DEF Queued
  <2>1. i + 1 \in DOMAIN frameQueue /\ i + 1 # 1 /\ Tail(frameQueue)[i] = frameQueue[i + 1]
    BY <1>1, QueueFacts
  <2>2. Head(frameQueue) = frameQueue[1] /\ 1 \in DOMAIN frameQueue
    BY QueueFacts
  <2>3. frameQueue[i + 1] # frameQueue[1]
    BY <2>1, <2>2
  <2> QED BY <2>1, <2>2, <2>3 DEF Queued
<1>5. Queued \ {Head(frameQueue)} \subseteq Queued'
  <2> SUFFICES ASSUME NEW i \in DOMAIN frameQueue, frameQueue[i] # Head(frameQueue)
               PROVE  frameQueue[i] \in Queued'
    BY DEF Queued
  <2>1. i # 1
    BY QueueFacts
  <2>2. i - 1 \in DOMAIN Tail(frameQueue)
    BY <2>1, QueueFacts
  <2>3. i \in Int /\ (i - 1) + 1 = i
    BY <1>1
  <2>4. Tail(frameQueue)[i - 1] = frameQueue[i]
    BY <2>2, <2>3, QueueFacts
  <2> QED BY <2>2, <2>4 DEF Queued
<1> QED BY <1>2, <1>3, <1>4, <1>5

\* Putting an assembly that is not there behind a queue of different ones.
LEMMA PutLast ==
    ASSUME frameQueue \in Seq(Assemblies), NEW a \in Assemblies, a \notin Queued,
           \A i, j \in DOMAIN frameQueue : i # j => frameQueue[i] # frameQueue[j],
           frameQueue' = Append(frameQueue, a)
    PROVE  /\ Queued' = Queued \cup {a}
           /\ \A i, j \in DOMAIN frameQueue' : i # j => frameQueue'[i] # frameQueue'[j]
<1>1. Queued' = Queued \cup {a}
  BY QueueFacts DEF Queued
<1>2. \A i, j \in DOMAIN frameQueue' : i # j => frameQueue'[i] # frameQueue'[j]
  BY QueueFacts DEF Queued
<1> QED BY <1>1, <1>2

\* The assembly being published is not queued, so a place is left for it.
LEMMA RoomToPublish == IInv => QueueHasRoom
<1> SUFFICES ASSUME IInv, ppc = "publish" PROVE Len(frameQueue) < NAss
  BY DEF QueueHasRoom
<1>1. ass \in Assemblies /\ ass \notin Queued /\ frameQueue \in Seq(Assemblies)
  BY DEF IInv, TypeOK, ProducerAgrees, OwnershipAgrees, InPublish
<1>2. Len(frameQueue) \in Nat /\ DOMAIN frameQueue = 1 .. Len(frameQueue)
  BY <1>1
<1>3. frameQueue \in Seq(Assemblies \ {ass})
  BY <1>1, <1>2 DEF Queued
<1>4. IsFiniteSet(Assemblies) /\ Cardinality(Assemblies) = NAss
  BY NAssAssumption, FS_Interval DEF Assemblies
<1>5. IsFiniteSet(Assemblies \ {ass}) /\ Cardinality(Assemblies \ {ass}) = NAss - 1
  BY <1>1, <1>4, FS_RemoveElement
<1>6. Len(frameQueue) <= NAss - 1
  BY <1>3, <1>5, DistinctLength DEF IInv, OwnershipAgrees
<1> QED BY <1>2, <1>6, NAssAssumption

-----------------------------------------------------------------------------
(* Every step preserves the types.                                         *)

LEMMA ClaimType ==
    ASSUME TypeOK, msg \in Messages, NEW a \in Assemblies, Claim(a),
           frameQueue' \in Seq(Assemblies), UNCHANGED consVars
    PROVE  TypeOK'
<1>1. msg[1] \in Frames
  BY MessageFacts
<1> QED BY <1>1 DEF TypeOK, Claim, consVars

LEMMA TypeStep == IInv /\ [Next]_vars => TypeOK'
<1> SUFFICES ASSUME IInv, [Next]_vars PROVE TypeOK'
  OBVIOUS
<1>a. TypeOK /\ ProducerAgrees /\ OwnershipAgrees
  BY DEF IInv
<1>b. ppc # "idle" => msg \in Messages
  BY <1>a DEF ProducerAgrees
<1>1. CASE UNCHANGED vars
  BY <1>1, <1>a DEF vars, assVars, consVars, prodVars, TypeOK
<1>2. ASSUME NEW m \in Messages, ReceiveMessage(m) PROVE TypeOK'
  <2>1. copies[m] + 1 \in 0 .. MaxCopies
    BY <1>2, <1>a, CopiesAssumption DEF ReceiveMessage, TypeOK
  <2> QED BY <1>2, <1>a, <2>1 DEF ReceiveMessage, assVars, consVars, TypeOK
<1>3. ASSUME NEW a \in Assemblies, UseMatching(a) PROVE TypeOK'
  BY <1>3, <1>a DEF UseMatching, assVars, consVars, TypeOK
<1>4. ASSUME NEW a \in Assemblies, ClaimFree(a) \/ EvictEarliest(a) PROVE TypeOK'
  <2>1. Claim(a) /\ UNCHANGED <<frameQueue, consVars>> /\ ppc # "idle"
    BY <1>4 DEF ClaimFree, EvictEarliest
  <2> QED BY <2>1, <1>a, <1>b, ClaimType DEF TypeOK
<1>5. ASSUME NoneFree \/ NoneQueued \/ NothingToEvict PROVE TypeOK'
  BY <1>5, <1>a DEF NoneFree, NoneQueued, NothingToEvict, assVars, consVars, TypeOK
<1>6. ASSUME StealOldest PROVE TypeOK'
  <2>1. frameQueue \in Seq(Assemblies) /\ frameQueue # <<>>
    BY <1>6, <1>a DEF StealOldest, TypeOK
  <2>2. Head(frameQueue) \in Assemblies /\ Tail(frameQueue) \in Seq(Assemblies)
    BY <2>1, QueueFacts
  <2> QED BY <1>6, <1>a, <1>b, <2>2, ClaimType DEF StealOldest
<1>7. ASSUME StorePart PROVE TypeOK'
  <2>1. msg \in Messages /\ ass \in Assemblies
    BY <1>7, <1>a DEF StorePart, ProducerAgrees
  <2>2. msg[1] \in Frames
    BY <2>1, MessageFacts
  <2>3. buf' \in [Assemblies -> [Parts -> Frames \cup {NoFrame}]]
    BY <1>7, <1>a, <2>1, <2>2 DEF StorePart, TypeOK
  <2>4. msg_received' \in [Assemblies -> Nat]
    BY <1>7, <1>a, <2>1 DEF StorePart, TypeOK
  <2> QED BY <1>7, <1>a, <2>1, <2>3, <2>4 DEF StorePart, consVars, TypeOK
<1>8. ASSUME Publish PROVE TypeOK'
  <2>1. ass \in Assemblies /\ frameQueue \in Seq(Assemblies)
    BY <1>8, <1>a DEF Publish, ProducerAgrees, TypeOK
  <2>2. Append(frameQueue, ass) \in Seq(Assemblies)
    BY <2>1, QueueFacts
  <2> QED BY <1>8, <1>a, <2>1, <2>2 DEF Publish, assVars, consVars, TypeOK
<1>9. ASSUME \/ BufferUnlocks \/ BufferOpen \/ BufferRelocks
             \/ TakeTimeout \/ IntervalMet \/ IntervalTimeout
      PROVE  TypeOK'
  BY <1>9, <1>a DEF BufferUnlocks, BufferOpen, BufferRelocks, TakeTimeout, IntervalMet,
       IntervalTimeout, assVars, prodVars, TypeOK
<1>10. ASSUME TakeFrame PROVE TypeOK'
  <2>1. Head(frameQueue) \in Assemblies /\ Tail(frameQueue) \in Seq(Assemblies)
    BY <1>10, <1>a, QueueFacts DEF TakeFrame, TypeOK
  <2> QED BY <1>10, <1>a, <2>1 DEF TakeFrame, assVars, prodVars, TypeOK
<1>11. ASSUME ReturnFrame PROVE TypeOK'
  BY <1>11, <1>a DEF ReturnFrame, prodVars, TypeOK
<1> QED
  BY <1>1, <1>2, <1>3, <1>4, <1>5, <1>6, <1>7, <1>8, <1>9, <1>10, <1>11
  DEF Next, Process, Search, Get

-----------------------------------------------------------------------------
(* Every step preserves what the producer relies on, and that no two       *)
(* assemblies are filled for the same frame.                               *)

\* Nothing that is not used for the frame yet is claimed for it.
LEMMA ClaimProducer ==
    ASSUME IInv, ppc # "idle", Matching = {}, NEW a \in Assemblies, Claim(a)
    PROVE  ProducerAgrees' /\ OneAssemblyPerFrame'
<1>1. msg \in Messages /\ Total[msg[1]] <= MaxParts /\ msg[1] \in Frames
  BY MessageFacts DEF IInv, ProducerAgrees
<1>2. \A b \in Assemblies : bits[b] = "used" => stamp[b] # msg[1]
  BY DEF Matching, HasTimestamp
<1>3. \A b \in Assemblies :
        /\ bits'[b] = "used" <=> b = a \/ bits[b] = "used"
        /\ stamp'[b] = IF b = a THEN msg[1] ELSE stamp[b]
  BY DEF IInv, TypeOK, Claim
<1>4. ProducerAgrees'
  BY <1>1, <1>3 DEF IInv, ProducerAgrees, Claim
<1>5. OneAssemblyPerFrame'
  BY <1>2, <1>3 DEF IInv, OneAssemblyPerFrame
<1> QED BY <1>4, <1>5

LEMMA ProducerStep == IInv /\ [Next]_vars => ProducerAgrees' /\ OneAssemblyPerFrame'
<1> SUFFICES ASSUME IInv, [Next]_vars PROVE ProducerAgrees' /\ OneAssemblyPerFrame'
  OBVIOUS
<1>a. TypeOK /\ ProducerAgrees /\ OwnershipAgrees /\ OneAssemblyPerFrame
  BY DEF IInv
\* The producer stays where it is and no assembly becomes used.
<1>1. ASSUME UNCHANGED <<stamp, ppc, msg, ass>>,
             \A a \in Assemblies : bits'[a] = "used" => bits[a] = "used"
      PROVE  ProducerAgrees' /\ OneAssemblyPerFrame'
  BY <1>1, <1>a DEF ProducerAgrees, OneAssemblyPerFrame, Matching, HasTimestamp
<1>2. CASE UNCHANGED vars
  BY <1>1, <1>2 DEF vars, assVars, prodVars
<1>3. ASSUME BufferUnlocks \/ BufferOpen \/ BufferRelocks \/ TakeTimeout \/ TakeFrame
             \/ IntervalMet \/ IntervalTimeout
      PROVE  ProducerAgrees' /\ OneAssemblyPerFrame'
  BY <1>1, <1>3 DEF BufferUnlocks, BufferOpen, BufferRelocks, TakeTimeout, TakeFrame,
       IntervalMet, IntervalTimeout, assVars, prodVars
<1>4. ASSUME ReturnFrame PROVE ProducerAgrees' /\ OneAssemblyPerFrame'
  <2>1. \A a \in Assemblies : bits'[a] = "used" => bits[a] = "used"
    BY <1>4, <1>a DEF ReturnFrame, TypeOK
  <2> QED BY <1>1, <1>4, <2>1 DEF ReturnFrame, prodVars
<1>5. ASSUME NEW m \in Messages, ReceiveMessage(m) PROVE ProducerAgrees' /\ OneAssemblyPerFrame'
  <2>1. Total[m[1]] \in Nat
    BY MessageFacts
  <2> QED BY <1>5, <1>a, <2>1, TotalAssumption
       DEF ReceiveMessage, ProducerAgrees, OneAssemblyPerFrame, assVars
<1>6. ASSUME NEW a \in Assemblies, UseMatching(a) PROVE ProducerAgrees' /\ OneAssemblyPerFrame'
  BY <1>6, <1>a DEF UseMatching, ProducerAgrees, OneAssemblyPerFrame, assVars
<1>7. ASSUME NEW a \in Assemblies, ClaimFree(a) \/ EvictEarliest(a)
      PROVE  ProducerAgrees' /\ OneAssemblyPerFrame'
  <2>1. Claim(a) /\ ppc # "idle" /\ Matching = {}
    BY <1>7, <1>a DEF ClaimFree, EvictEarliest, ProducerAgrees
  <2> QED BY <2>1, ClaimProducer
<1>8. ASSUME StealOldest PROVE ProducerAgrees' /\ OneAssemblyPerFrame'
  <2>1. Claim(Head(frameQueue)) /\ ppc # "idle" /\ Matching = {}
    BY <1>8, <1>a DEF StealOldest, ProducerAgrees
  <2>2. Head(frameQueue) \in Assemblies
    BY <1>8, <1>a, QueueFacts DEF StealOldest, TypeOK
  <2> QED BY <2>1, <2>2, ClaimProducer
<1>9. ASSUME NoneFree \/ NoneQueued \/ NothingToEvict PROVE ProducerAgrees' /\ OneAssemblyPerFrame'
  BY <1>9, <1>a DEF NoneFree, NoneQueued, NothingToEvict, ProducerAgrees, OneAssemblyPerFrame,
       Matching, HasTimestamp, assVars
<1>10. ASSUME StorePart PROVE ProducerAgrees' /\ OneAssemblyPerFrame'
  <2>1. \A a \in Assemblies : bits'[a] = "used" => bits[a] = "used"
    BY <1>10, <1>a DEF StorePart, TypeOK
  <2> QED BY <1>10, <1>a, <2>1 DEF StorePart, ProducerAgrees, OneAssemblyPerFrame
<1>11. ASSUME Publish PROVE ProducerAgrees' /\ OneAssemblyPerFrame'
  BY <1>11, <1>a DEF Publish, ProducerAgrees, OneAssemblyPerFrame, assVars
<1> QED
  BY <1>2, <1>3, <1>4, <1>5, <1>6, <1>7, <1>8, <1>9, <1>10, <1>11
  DEF Next, Process, Search, Get

-----------------------------------------------------------------------------
(* Every step preserves the agreement on ownership.                        *)

Done == {a \in Assemblies : bits[a] = "done"}

LEMMA OwnershipStep == IInv /\ [Next]_vars => OwnershipAgrees'
<1> SUFFICES ASSUME IInv, [Next]_vars PROVE OwnershipAgrees'
  OBVIOUS
<1>a. TypeOK /\ ProducerAgrees /\ OwnershipAgrees
  BY DEF IInv
<1>b. /\ frameQueue \in Seq(Assemblies)
      /\ \A i, j \in DOMAIN frameQueue : i # j => frameQueue[i] # frameQueue[j]
      /\ Done = Queued \cup Held \cup InPublish
  BY <1>a DEF TypeOK, OwnershipAgrees, Done
\* Neither the queue nor an owner changes, and nothing is held or published
\* that was not.
<1>1. ASSUME UNCHANGED <<frameQueue, s_ass>>, Done' = Done,
             (InPublish = {} /\ InPublish' = {}) \/ UNCHANGED <<ppc, ass>>,
             ppc' = "store" => bits'[ass'] = "used", cpc' = "hold" <=> s_ass' # NoAss
      PROVE  OwnershipAgrees'
  BY <1>1, <1>a DEF OwnershipAgrees, Queued, Held, InPublish, Done
<1>2. CASE UNCHANGED vars
  BY <1>2, <1>a DEF vars, assVars, consVars, prodVars, OwnershipAgrees, Queued, Held, InPublish
<1>3. ASSUME NEW m \in Messages, ReceiveMessage(m) PROVE OwnershipAgrees'
  BY <1>1, <1>3, <1>a DEF ReceiveMessage, assVars, consVars, InPublish, Done, OwnershipAgrees
<1>4. ASSUME NEW a \in Assemblies, UseMatching(a) PROVE OwnershipAgrees'
  BY <1>1, <1>4, <1>a DEF UseMatching, HasTimestamp, assVars, consVars, InPublish, Done,
       OwnershipAgrees
<1>5. ASSUME NoneFree \/ NoneQueued \/ NothingToEvict PROVE OwnershipAgrees'
  BY <1>1, <1>5, <1>a DEF NoneFree, NoneQueued, NothingToEvict, assVars, consVars, InPublish, Done,
       OwnershipAgrees
<1>6. ASSUME \/ BufferUnlocks \/ BufferOpen \/ BufferRelocks
             \/ TakeTimeout \/ IntervalMet \/ IntervalTimeout
      PROVE  OwnershipAgrees'
  BY <1>1, <1>6, <1>a DEF BufferUnlocks, BufferOpen, BufferRelocks, TakeTimeout, IntervalMet,
       IntervalTimeout, assVars, prodVars, Done, OwnershipAgrees
\* An assembly the consumer side does not own is claimed.
<1>7. ASSUME NEW a \in Assemblies, ClaimFree(a) \/ EvictEarliest(a) PROVE OwnershipAgrees'
  <2>1. /\ Claim(a) /\ UNCHANGED <<frameQueue, consVars>>
        /\ bits[a] # "done" /\ ppc \notin {"publish", "store"}
    BY <1>7 DEF ClaimFree, EvictEarliest, Free, IsEarliestUsed
  <2>2. Done' = Done /\ bits'[a] = "used"
    BY <2>1, <1>a DEF Claim, TypeOK, Done
  <2> QED BY <1>1, <2>1, <2>2, <1>a DEF Claim, consVars, InPublish, OwnershipAgrees
\* The head of the queue is taken back from the consumer side.
<1>8. ASSUME StealOldest PROVE OwnershipAgrees'
  <2> DEFINE h == Head(frameQueue)
  <2>1. /\ h \in Queued /\ Queued' = Queued \ {h}
        /\ \A i, j \in DOMAIN frameQueue' : i # j => frameQueue'[i] # frameQueue'[j]
    BY <1>8, <1>b, TakeHead DEF StealOldest
  <2>2. h \in Assemblies
    BY <1>8, <1>b, QueueFacts DEF StealOldest
  <2>3. Done' = Done \ {h} /\ bits'[h] = "used"
    BY <1>8, <2>2, <1>a DEF StealOldest, Claim, TypeOK, Done
  <2>4. InPublish = {} /\ InPublish' = {} /\ Held' = Held /\ ass' = h /\ UNCHANGED <<cpc, s_ass>>
    BY <1>8 DEF StealOldest, Claim, consVars, InPublish, Held
  <2>5. Held \cap Queued = {}
    BY <1>a DEF OwnershipAgrees
  <2>6. Done' = Queued' \cup Held' \cup InPublish'
    BY <1>b, <2>1, <2>3, <2>4, <2>5
  <2> QED BY <1>a, <2>1, <2>3, <2>4, <2>5, <2>6 DEF OwnershipAgrees, Done
\* The last part hands the assembly in hand to the consumer side.
<1>9. ASSUME StorePart PROVE OwnershipAgrees'
  <2>1. ass \in Assemblies /\ bits[ass] = "used" /\ InPublish = {}
    BY <1>9, <1>a DEF StorePart, ProducerAgrees, OwnershipAgrees, InPublish
  <2>2. Queued' = Queued /\ Held' = Held /\ UNCHANGED <<frameQueue, s_ass, cpc, ass>>
    BY <1>9 DEF StorePart, consVars, Queued, Held
  <2>3. CASE ppc' = "idle" /\ UNCHANGED bits
    BY <1>1, <2>1, <2>2, <2>3, <1>a DEF InPublish, Done, OwnershipAgrees
  <2>4. CASE ppc' = "publish" /\ bits' = [bits EXCEPT ![ass] = "done"]
    <3>1. InPublish' = {ass} /\ Done' = Done \cup {ass} /\ ass \notin Done
      BY <2>1, <2>2, <2>4, <1>a DEF InPublish, TypeOK, Done
    <3>2. ass \notin Queued \cup Held
      BY <3>1, <1>b
    <3> QED BY <1>a, <1>b, <2>1, <2>2, <2>4, <3>1, <3>2 DEF OwnershipAgrees, Done
  <2> QED BY <1>9, <2>3, <2>4 DEF StorePart
\* There is room, so the assembly is queued.
<1>10. ASSUME Publish PROVE OwnershipAgrees'
  <2>1. ass \in Assemblies /\ InPublish = {ass} /\ ass \notin Queued
    BY <1>10, <1>a DEF Publish, ProducerAgrees, OwnershipAgrees, InPublish
  <2>2. frameQueue' = Append(frameQueue, ass)
    BY <1>10, RoomToPublish DEF Publish, QueueHasRoom
  <2>3. /\ Queued' = Queued \cup {ass}
        /\ \A i, j \in DOMAIN frameQueue' : i # j => frameQueue'[i] # frameQueue'[j]
    BY <2>1, <2>2, <1>b, PutLast
  <2>4. InPublish' = {} /\ Held' = Held /\ Done' = Done /\ UNCHANGED <<cpc, s_ass>> /\ ppc' = "idle"
    BY <1>10 DEF Publish, assVars, consVars, InPublish, Held, Done
  <2> QED BY <1>a, <1>b, <2>1, <2>3, <2>4 DEF OwnershipAgrees, Done
<1>11. ASSUME TakeFrame PROVE OwnershipAgrees'
  <2> DEFINE h == Head(frameQueue)
  <2>1. /\ h \in Queued /\ Queued' = Queued \ {h}
        /\ \A i, j \in DOMAIN frameQueue' : i # j => frameQueue'[i] # frameQueue'[j]
    BY <1>11, <1>b, TakeHead DEF TakeFrame
  <2>2. h \in Assemblies /\ h # NoAss
    BY <1>11, <1>b, QueueFacts, NoAssAssumption DEF TakeFrame, Assemblies
  <2>3. Held = {} /\ Held' = {h} /\ s_ass' # NoAss /\ cpc' = "hold"
    BY <1>11, <2>2, <1>a DEF TakeFrame, OwnershipAgrees, Held
  <2>4. InPublish' = InPublish /\ Done' = Done /\ UNCHANGED <<ppc, ass, bits>>
    BY <1>11 DEF TakeFrame, assVars, prodVars, InPublish, Done
  <2>5. Queued \cap InPublish = {}
    BY <1>a DEF OwnershipAgrees
  <2> QED BY <1>a, <1>b, <2>1, <2>3, <2>4, <2>5 DEF OwnershipAgrees, Done
<1>12. ASSUME ReturnFrame PROVE OwnershipAgrees'
  <2>1. s_ass # NoAss /\ s_ass \in Assemblies /\ Held = {s_ass}
    BY <1>12, <1>a DEF ReturnFrame, OwnershipAgrees, Held, TypeOK
  <2>2. Done' = Done \ {s_ass} /\ Held' = {} /\ cpc' # "hold" /\ s_ass' = NoAss
    BY <1>12, <2>1, <1>a DEF ReturnFrame, TypeOK, Done, Held
  <2>3. Queued' = Queued /\ InPublish' = InPublish /\ UNCHANGED <<frameQueue, ppc, ass>>
    BY <1>12 DEF ReturnFrame, prodVars, Queued, InPublish
  <2>4. ppc' = "store" => bits'[ass'] = "used"
    <3>1. s_ass \in Done
      BY <2>1, <1>b
    <3> QED BY <1>12, <1>a, <2>1, <2>3, <3>1 DEF ReturnFrame, ProducerAgrees,
             OwnershipAgrees, TypeOK, Done
  <2> QED BY <1>a, <1>b, <2>1, <2>2, <2>3, <2>4 DEF OwnershipAgrees, Done
<1> QED
  BY <1>2, <1>3, <1>4, <1>5, <1>6, <1>7, <1>8, <1>9, <1>10, <1>11, <1>12
  DEF Next, Process, Search, Get

-----------------------------------------------------------------------------
LEMMA IInvAlways == Spec => []IInv
<1>1. IInv /\ [Next]_vars => IInv'
  BY TypeStep, ProducerStep, OwnershipStep DEF IInv
<1> QED BY <1>1, InitIInv, PTL DEF Spec

\* Type correctness of the receiver buffer (espfsp_message_buffer.c).
THEOREM TypeCorrect == Spec => []TypeOK
<1>1. IInv => TypeOK
  BY DEF IInv
<1> QED BY <1>1, IInvAlways, PTL

\* With any number of assemblies, and whatever the network does, no assembly is
\* lost, handed out twice or written to by the producer while the consumer side
\* owns it, although the tasks share bits and queue without a lock
\* (process_message, get_fb, return_fb).
THEOREM OwnershipAlwaysAgrees == Spec => []OwnershipAgrees
<1>1. IInv => OwnershipAgrees
  BY DEF IInv
<1> QED BY <1>1, IInvAlways, PTL

\* The xQueueSend of process_message, which does not wait, never fails.
THEOREM QueueAlwaysHasRoom == Spec => []QueueHasRoom
<1> QED BY RoomToPublish, IInvAlways, PTL

\* No frame is ever split over two assemblies (get_assembly_with_timestamp).
THEOREM OneAssemblyPerFrameAlways == Spec => []OneAssemblyPerFrame
<1>1. IInv => OneAssemblyPerFrame
  BY DEF IInv
<1> QED BY <1>1, IInvAlways, PTL

-----------------------------------------------------------------------------
(* What the consumer reads does not change under it.                       *)

HeldUnchanged ==
    s_ass # NoAss /\ s_ass' # NoAss =>
        /\ s_ass' = s_ass
        /\ buf'[s_ass] = buf[s_ass]
        /\ stamp'[s_ass] = stamp[s_ass]

LEMMA HeldStep == IInv /\ [Next]_vars => HeldUnchanged
<1> SUFFICES ASSUME IInv, [Next]_vars, s_ass # NoAss, s_ass' # NoAss
             PROVE  /\ s_ass' = s_ass
                    /\ buf'[s_ass] = buf[s_ass]
                    /\ stamp'[s_ass] = stamp[s_ass]
  BY DEF HeldUnchanged
\* The assembly the consumer holds is done, and not in the queue.
<1>a. s_ass \in Assemblies /\ bits[s_ass] = "done" /\ s_ass \notin Queued /\ cpc = "hold"
  BY DEF IInv, TypeOK, OwnershipAgrees, Held
<1>1. ASSUME NEW a \in Assemblies, Claim(a), a # s_ass, UNCHANGED consVars PROVE HeldUnchanged
  BY <1>1, <1>a DEF HeldUnchanged, Claim, consVars, IInv, TypeOK
<1>2. CASE UNCHANGED <<buf, stamp, s_ass>>
  BY <1>2
<1>3. ASSUME NEW a \in Assemblies, ClaimFree(a) \/ EvictEarliest(a) PROVE HeldUnchanged
  <2>1. Claim(a) /\ a # s_ass /\ UNCHANGED consVars
    BY <1>3, <1>a DEF ClaimFree, EvictEarliest, Free, IsEarliestUsed
  <2> QED BY <1>1, <2>1
<1>4. ASSUME StealOldest PROVE HeldUnchanged
  <2>1. frameQueue \in Seq(Assemblies) /\ frameQueue # <<>>
    BY <1>4 DEF StealOldest, IInv, TypeOK
  <2>2. Head(frameQueue) \in Assemblies /\ Head(frameQueue) \in Queued
    BY <2>1, QueueFacts DEF Queued
  <2>3. Claim(Head(frameQueue)) /\ Head(frameQueue) # s_ass /\ UNCHANGED consVars
    BY <1>4, <1>a, <2>2 DEF StealOldest
  <2> QED BY <1>1, <2>2, <2>3
<1>5. ASSUME StorePart PROVE HeldUnchanged
  <2>1. ass \in Assemblies /\ ass # s_ass
    BY <1>5, <1>a DEF StorePart, IInv, ProducerAgrees, OwnershipAgrees
  <2> QED BY <1>5, <1>a, <2>1 DEF StorePart, HeldUnchanged, consVars, IInv, TypeOK
<1>6. CASE UNCHANGED vars \/ (\E m \in Messages : ReceiveMessage(m))
           \/ (\E a \in Assemblies : UseMatching(a))
           \/ NoneFree \/ NoneQueued \/ NothingToEvict \/ Publish
  BY <1>2, <1>6 DEF ReceiveMessage, UseMatching, NoneFree, NoneQueued, NothingToEvict, Publish,
       vars, assVars, consVars
\* The consumer itself only returns the frame while it holds one.
<1>7. CASE Get \/ IntervalMet \/ IntervalTimeout \/ ReturnFrame
  BY <1>7, <1>a DEF Get, BufferUnlocks, BufferOpen, BufferRelocks, TakeFrame, TakeTimeout,
       IntervalMet, IntervalTimeout, ReturnFrame
<1> QED
  BY <1>3, <1>4, <1>5, <1>6, <1>7 DEF Next, Process, Search, HeldUnchanged

\* From get_fb to return_fb the bytes and the timestamp of the frame stay as
\* they are, whatever the producer does meanwhile.
THEOREM HeldFrameAlwaysStable == Spec => HeldFrameStable
<1>1. IInv /\ [Next]_vars => [HeldUnchanged]_vars
  BY HeldStep
<1> QED BY <1>1, IInvAlways, PTL DEF Spec, HeldFrameStable, HeldUnchanged
-----------------------------------------------------------------------------
(* A frame that is handed over is whole.                                   *)

\* The parts of f that are in a.
OwnParts(a, f) == {p \in 0 .. Total[f] - 1 : buf[a][p] = f}

\* Bytes in a buffer came with a message that was delivered, and those of the
\* message in hand are not there yet if it is the first of its kind.
ArrivedInv ==
    /\ ppc # "idle" => copies[msg] >= 1
    /\ \A a \in Assemblies, p \in Parts :
          buf[a][p] # NoFrame => <<buf[a][p], p>> \in Messages /\ copies[<<buf[a][p], p>>] >= 1
    /\ ppc \in {"search", "steal", "evict", "store"} =>
          \A a \in Assemblies : buf[a][msg[2]] = msg[1] => copies[msg] >= 2

\* An assembly counts no more parts than it has of its frame if none came twice,
\* and is handed over when it has counted all.
CountInv ==
    /\ ppc = "store" => stamp[ass] = msg[1]
    /\ \A a \in Assemblies : bits[a] # "free" => stamp[a] \in Frames
    /\ \A a \in Assemblies, f \in Frames : bits[a] # "free" /\ stamp[a] = f =>
          /\ Total[f] <= MaxParts
          /\ DeliveredOnce(f) => msg_received[a] <= Cardinality(OwnParts(a, f))
          /\ bits[a] = "done" => msg_received[a] = Total[f]

LEMMA TotalType == \A f \in Frames : Total[f] \in Nat \ {0}
  BY TotalAssumption

\* What is known of the steps that neither deliver nor store a message.
LEMMA ArrivedKept ==
    ASSUME ArrivedInv, UNCHANGED <<buf, copies>>,
           \/ ppc' = "idle"
           \/ UNCHANGED <<ppc, msg>>
           \/ ppc \in {"search", "steal", "evict"} /\ UNCHANGED msg
    PROVE  ArrivedInv'
  BY DEF ArrivedInv

LEMMA ArrivedStep == ASSUME IInv, ArrivedInv, [Next]_vars PROVE ArrivedInv'
<1>a. TypeOK /\ ProducerAgrees
  BY DEF IInv
<1>1. CASE UNCHANGED vars
  BY <1>1, ArrivedKept DEF vars, assVars, prodVars
<1>2. ASSUME NEW m \in Messages, ReceiveMessage(m) PROVE ArrivedInv'
  <2>1. CASE UNCHANGED <<ppc, msg, copies>>
    BY <1>2, <2>1, ArrivedKept DEF ReceiveMessage, assVars
  <2>2. CASE ppc' = "search" /\ msg' = m /\ copies' = [copies EXCEPT ![m] = @ + 1] /\ Total[m[1]] <= MaxParts
    <3>1. \A n \in Messages : copies[n] \in Nat /\ copies'[n] = IF n = m THEN copies[n] + 1 ELSE copies[n]
      BY <1>a, <2>2, CopiesAssumption DEF TypeOK
    <3>2. UNCHANGED buf
      BY <1>2 DEF ReceiveMessage, assVars
    <3>3. m[2] \in Parts /\ m[1] \in Frames /\ m = <<m[1], m[2]>> /\ m[1] # NoFrame
      <4>1. m[2] \in 0 .. Total[m[1]] - 1 /\ Total[m[1]] \in Nat
        BY MessageFacts
      <4> QED
        BY <2>2, <4>1, MessageFacts, TotalAssumption, FramesAssumption DEF Parts
    <3>4. \A a \in Assemblies : buf[a][m[2]] = m[1] => copies[m] >= 1
      BY <3>3 DEF ArrivedInv
    <3>5. \A a \in Assemblies : buf'[a][msg'[2]] = msg'[1] => copies'[msg'] >= 2
      BY <2>2, <3>1, <3>2, <3>4
    <3>6. \A a \in Assemblies, p \in Parts :
            buf'[a][p] # NoFrame => <<buf'[a][p], p>> \in Messages /\ copies'[<<buf'[a][p], p>>] >= 1
      BY <3>1, <3>2 DEF ArrivedInv
    <3>7. copies'[msg'] >= 1
      BY <2>2, <3>1
    <3> QED
      BY <3>5, <3>6, <3>7 DEF ArrivedInv
  <2> QED
    <3>1. Total[m[1]] \in Nat /\ MaxParts \in Nat
      BY MessageFacts, TotalAssumption
    <3>2. CASE Total[m[1]] > MaxParts
      BY <1>2, <2>1, <3>2 DEF ReceiveMessage
    <3>3. CASE ~(Total[m[1]] > MaxParts)
      BY <1>2, <2>2, <3>1, <3>3 DEF ReceiveMessage
    <3> QED
      BY <3>2, <3>3
<1>3. ASSUME NEW a \in Assemblies, UseMatching(a) \/ ClaimFree(a) \/ EvictEarliest(a) PROVE ArrivedInv'
  BY <1>3, ArrivedKept DEF UseMatching, ClaimFree, EvictEarliest, Claim, assVars
<1>4. ASSUME NoneFree \/ NoneQueued \/ NothingToEvict \/ StealOldest \/ Publish PROVE ArrivedInv'
  BY <1>4, ArrivedKept DEF NoneFree, NoneQueued, NothingToEvict, StealOldest, Claim, Publish, assVars
<1>5. ASSUME StorePart PROVE ArrivedInv'
  <2>1. msg \in Messages /\ ass \in Assemblies /\ ppc # "idle"
    BY <1>5, <1>a DEF StorePart, ProducerAgrees
  <2>2. \A a \in Assemblies, p \in Parts :
          buf'[a][p] = IF a = ass /\ p = msg[2] THEN msg[1] ELSE buf[a][p]
    BY <1>5, <1>a DEF StorePart, TypeOK
  <2>3. msg = <<msg[1], msg[2]>> /\ copies[msg] >= 1
    BY <2>1, MessageFacts DEF ArrivedInv
  <2>4. \A a \in Assemblies, p \in Parts :
          buf'[a][p] # NoFrame => <<buf'[a][p], p>> \in Messages /\ copies[<<buf'[a][p], p>>] >= 1
    BY <2>1, <2>2, <2>3 DEF ArrivedInv
  <2> QED
    BY <1>5, <2>3, <2>4 DEF StorePart, ArrivedInv
<1>6. CASE Get \/ IntervalMet \/ IntervalTimeout \/ ReturnFrame
  BY <1>6, ArrivedKept DEF Get, BufferUnlocks, BufferOpen, BufferRelocks, TakeFrame, TakeTimeout,
       IntervalMet, IntervalTimeout, ReturnFrame, assVars, prodVars
<1> QED
  BY <1>1, <1>2, <1>3, <1>4, <1>5, <1>6 DEF Next, Process, Search
\* Messages only become more, so what was delivered once was before.
LEMMA DeliveredBefore ==
    ASSUME TypeOK, [Next]_vars, NEW f \in Frames, DeliveredOnce(f)'
    PROVE  DeliveredOnce(f)
<1>1. \A m \in Messages : copies[m] \in Nat /\ copies'[m] \in Nat /\ copies'[m] >= copies[m]
  <2>1. \A m \in Messages : copies[m] \in Nat
    BY CopiesAssumption DEF TypeOK
  <2>2. CASE UNCHANGED copies
    BY <2>1, <2>2
  <2>3. ASSUME NEW n \in Messages, copies' = [copies EXCEPT ![n] = @ + 1]
        PROVE  \A m \in Messages : copies'[m] \in Nat /\ copies'[m] >= copies[m]
    <3>1. \A m \in Messages : copies'[m] = IF m = n THEN copies[m] + 1 ELSE copies[m]
      BY <2>3 DEF TypeOK
    <3> QED
      BY <2>1, <3>1
  <2>4. UNCHANGED copies \/ \E n \in Messages : copies' = [copies EXCEPT ![n] = @ + 1]
    BY DEF Next, Process, Search, Get, ReceiveMessage, UseMatching, ClaimFree, EvictEarliest, Claim,
           NoneFree, StealOldest, NoneQueued, NothingToEvict, StorePart, Publish, BufferUnlocks,
           BufferOpen, BufferRelocks, TakeFrame, TakeTimeout, IntervalMet, IntervalTimeout,
           ReturnFrame, prodVars, vars
  <2> QED
    BY <2>1, <2>2, <2>3, <2>4
<1> QED
  BY <1>1 DEF DeliveredOnce

\* No assembly gets parts, and none that was free becomes used.
LEMMA CountKept ==
    ASSUME TypeOK, CountInv, [Next]_vars, UNCHANGED <<stamp, msg_received, buf>>,
           \A a \in Assemblies : bits'[a] \in {bits[a], "free"},
           ppc' = "store" => stamp'[ass'] = msg'[1]
    PROVE  CountInv'
<1>1. \A a \in Assemblies : bits'[a] # "free" => bits'[a] = bits[a]
  OBVIOUS
<1>2. \A a \in Assemblies, f \in Frames : OwnParts(a, f)' = OwnParts(a, f)
  BY DEF OwnParts
<1>3. ASSUME NEW a \in Assemblies, NEW f \in Frames, bits'[a] # "free" /\ stamp'[a] = f
      PROVE  /\ Total[f] <= MaxParts
             /\ DeliveredOnce(f)' => msg_received'[a] <= Cardinality(OwnParts(a, f))
             /\ bits'[a] = "done" => msg_received'[a] = Total[f]
  BY <1>1, <1>3, DeliveredBefore DEF CountInv
<1>4. \A a \in Assemblies, f \in Frames : bits'[a] # "free" /\ stamp'[a] = f =>
         /\ Total[f] <= MaxParts
         /\ DeliveredOnce(f)' => msg_received'[a] <= Cardinality(OwnParts(a, f)')
         /\ bits'[a] = "done" => msg_received'[a] = Total[f]
  BY <1>2, <1>3
<1>5. \A a \in Assemblies : bits'[a] # "free" => stamp'[a] \in Frames
  BY <1>1 DEF CountInv
<1> QED
  BY <1>4, <1>5 DEF CountInv

\* An assembly is claimed: it has counted no part yet.
LEMMA CountClaimed ==
    ASSUME IInv, CountInv, [Next]_vars, NEW a \in Assemblies, Claim(a), ppc # "idle"
    PROVE  CountInv'
<1>1. /\ msg[1] \in Frames /\ Total[msg[1]] <= MaxParts
      /\ UNCHANGED <<buf, msg>> /\ ass' = a
      /\ \A b \in Assemblies :
            /\ bits'[b] = IF b = a THEN "used" ELSE bits[b]
            /\ stamp'[b] = IF b = a THEN msg[1] ELSE stamp[b]
            /\ msg_received'[b] = IF b = a THEN 0 ELSE msg_received[b]
  BY MessageFacts DEF IInv, TypeOK, ProducerAgrees, Claim
<1>2. \A b \in Assemblies, f \in Frames :
         OwnParts(b, f)' = OwnParts(b, f) /\ Cardinality(OwnParts(b, f)) \in Nat
  <2> SUFFICES ASSUME NEW b \in Assemblies, NEW f \in Frames
               PROVE  OwnParts(b, f)' = OwnParts(b, f) /\ Cardinality(OwnParts(b, f)) \in Nat
    OBVIOUS
  <2>1. IsFiniteSet(0 .. Total[f] - 1)
    BY TotalType, FS_Interval
  <2>2. IsFiniteSet(OwnParts(b, f))
    BY <2>1, FS_Subset DEF OwnParts
  <2> QED
    BY <1>1, <2>2, FS_CardinalityType DEF OwnParts
<1>3. ASSUME NEW b \in Assemblies, NEW f \in Frames, bits'[b] # "free" /\ stamp'[b] = f
      PROVE  /\ Total[f] <= MaxParts
             /\ DeliveredOnce(f)' => msg_received'[b] <= Cardinality(OwnParts(b, f)')
             /\ bits'[b] = "done" => msg_received'[b] = Total[f]
  <2>1. CASE b = a
    <3>1. bits'[b] = "used" /\ msg_received'[b] = 0 /\ f = msg[1]
      BY <1>1, <1>3, <2>1
    <3>2. Cardinality(OwnParts(b, f)') \in Nat
      BY <1>2
    <3> QED
      BY <1>1, <3>1, <3>2
  <2>2. CASE b # a
    <3>1. bits'[b] = bits[b] /\ stamp'[b] = stamp[b] /\ msg_received'[b] = msg_received[b]
      BY <1>1, <2>2
    <3> QED
      BY <1>2, <1>3, <3>1, DeliveredBefore DEF CountInv, IInv
  <2> QED
    BY <2>1, <2>2
<1>4. \A b \in Assemblies : bits'[b] # "free" => stamp'[b] \in Frames
  BY <1>1 DEF CountInv
<1>5. stamp'[ass'] = msg'[1]
  BY <1>1
<1> QED
  BY <1>3, <1>4, <1>5 DEF CountInv

\* A part is stored that the assembly did not have, if none came twice.
LEMMA CountStored ==
    ASSUME IInv, ArrivedInv, CountInv, [Next]_vars, StorePart
    PROVE  CountInv'
<1>1. /\ msg \in Messages /\ ass \in Assemblies /\ msg[1] \in Frames
      /\ msg[2] \in 0 .. Total[msg[1]] - 1 /\ Total[msg[1]] <= MaxParts
      /\ stamp[ass] = msg[1] /\ bits[ass] = "used" /\ msg_received[ass] \in Nat
      /\ copies[msg] \in Nat
  BY MessageFacts, CopiesAssumption DEF StorePart, IInv, TypeOK, ProducerAgrees, OwnershipAgrees, CountInv
<1>2. PICK c \in Assemblies, f \in Frames, p \in Nat :
         c = ass /\ f = msg[1] /\ p = msg[2] /\ p \in 0 .. Total[f] - 1
  BY <1>1
<1>3. p \in Parts /\ 0 .. Total[f] - 1 \subseteq Parts /\ Total[f] \in Nat \ {0} /\ Total[f] <= MaxParts
  BY <1>1, <1>2, TotalAssumption DEF Parts
<1>4. /\ UNCHANGED stamp /\ ppc' # "store"
      /\ \A a \in Assemblies :
            /\ msg_received'[a] = IF a = c THEN msg_received[a] + 1 ELSE msg_received[a]
            /\ bits'[a] = IF a = c /\ msg_received[a] + 1 = Total[f] THEN "done" ELSE bits[a]
            /\ \A q \in Parts : buf'[a][q] = IF a = c /\ q = p THEN f ELSE buf[a][q]
  <2>1. /\ stamp' = stamp /\ ppc' # "store"
        /\ buf' = [buf EXCEPT ![c][p] = f]
        /\ msg_received' = [msg_received EXCEPT ![c] = @ + 1]
        /\ bits' = IF msg_received[c] + 1 = Total[f] THEN [bits EXCEPT ![c] = "done"] ELSE bits
    BY <1>1, <1>2 DEF StorePart
  <2> QED
    BY <1>3, <2>1 DEF IInv, TypeOK
<1>5. \A a \in Assemblies \ {c}, g \in Frames : Total[g] <= MaxParts => OwnParts(a, g)' = OwnParts(a, g)
  <2> SUFFICES ASSUME NEW a \in Assemblies \ {c}, NEW g \in Frames, Total[g] <= MaxParts
               PROVE  OwnParts(a, g)' = OwnParts(a, g)
    OBVIOUS
  <2>1. 0 .. Total[g] - 1 \subseteq Parts
    BY TotalType, TotalAssumption DEF Parts
  <2> QED
    BY <1>4, <2>1 DEF OwnParts
<1>6. DeliveredOnce(f)' => msg_received[c] + 1 <= Cardinality(OwnParts(c, f)')
  <2> SUFFICES ASSUME DeliveredOnce(f)' PROVE msg_received[c] + 1 <= Cardinality(OwnParts(c, f)')
    OBVIOUS
  <2>1. DeliveredOnce(f)
    BY DeliveredBefore DEF IInv
  <2>2. copies[msg] <= 1
    BY <1>1, <1>2, <2>1 DEF DeliveredOnce
  <2>3. p \notin OwnParts(c, f)
    BY <1>1, <1>2, <2>2 DEF StorePart, ArrivedInv, OwnParts
  <2>4. \A q \in 0 .. Total[f] - 1 : buf'[c][q] = IF q = p THEN f ELSE buf[c][q]
    BY <1>3, <1>4
  <2>5. OwnParts(c, f)' = OwnParts(c, f) \cup {p}
    BY <1>2, <2>4 DEF OwnParts
  <2>6. IsFiniteSet(0 .. Total[f] - 1)
    BY <1>3, FS_Interval
  <2>7. IsFiniteSet(OwnParts(c, f))
    BY <2>6, FS_Subset DEF OwnParts
  <2>8. Cardinality(OwnParts(c, f) \cup {p}) = Cardinality(OwnParts(c, f)) + 1
    BY <2>3, <2>7, FS_AddElement
  <2>9. msg_received[c] <= Cardinality(OwnParts(c, f)) /\ Cardinality(OwnParts(c, f)) \in Nat
    BY <1>1, <1>2, <2>1, <2>7, FS_CardinalityType DEF CountInv
  <2> QED
    BY <1>1, <1>2, <2>5, <2>8, <2>9
<1>7. ASSUME NEW a \in Assemblies, NEW g \in Frames, bits'[a] # "free" /\ stamp'[a] = g
      PROVE  /\ Total[g] <= MaxParts
             /\ DeliveredOnce(g)' => msg_received'[a] <= Cardinality(OwnParts(a, g)')
             /\ bits'[a] = "done" => msg_received'[a] = Total[g]
  <2>1. CASE a = c
    <3>1. g = f /\ msg_received'[a] = msg_received[c] + 1 /\ (bits'[a] = "done" => msg_received[c] + 1 = Total[f])
      BY <1>1, <1>2, <1>4, <1>7, <2>1
    <3> QED
      BY <1>3, <1>6, <2>1, <3>1
  <2>2. CASE a # c
    <3>1. bits[a] # "free" /\ stamp[a] = g /\ msg_received'[a] = msg_received[a] /\ bits'[a] = bits[a]
      BY <1>4, <1>7, <2>2
    <3>2. Total[g] <= MaxParts
      BY <3>1 DEF CountInv
    <3>3. OwnParts(a, g)' = OwnParts(a, g)
      BY <1>5, <2>2, <3>2
    <3> QED
      BY <3>1, <3>2, <3>3, DeliveredBefore DEF CountInv, IInv
  <2> QED
    BY <2>1, <2>2
<1>8. \A a \in Assemblies : bits'[a] # "free" => stamp'[a] \in Frames
  BY <1>1, <1>2, <1>4 DEF CountInv
<1> QED
  BY <1>4, <1>7, <1>8 DEF CountInv

LEMMA CountStep == ASSUME IInv, ArrivedInv, CountInv, [Next]_vars PROVE CountInv'
<1>a. TypeOK /\ ProducerAgrees
  BY DEF IInv
<1>1. CASE UNCHANGED vars
  BY <1>1, <1>a, CountKept DEF vars, assVars, prodVars, CountInv
<1>2. ASSUME NEW m \in Messages, ReceiveMessage(m) PROVE CountInv'
  <2>1. UNCHANGED <<stamp, msg_received, buf, bits>> /\ ppc' # "store"
    BY <1>2 DEF ReceiveMessage, assVars
  <2> QED
    BY <1>a, <2>1, CountKept
<1>3. ASSUME NEW a \in Assemblies, UseMatching(a) PROVE CountInv'
  <2>1. UNCHANGED <<stamp, msg_received, buf, bits>> /\ stamp'[ass'] = msg'[1]
    BY <1>3 DEF UseMatching, HasTimestamp, assVars
  <2> QED
    BY <1>a, <2>1, CountKept
<1>4. ASSUME NEW a \in Assemblies, ClaimFree(a) \/ EvictEarliest(a) PROVE CountInv'
  <2>1. Claim(a) /\ ppc # "idle"
    BY <1>4 DEF ClaimFree, EvictEarliest
  <2> QED
    BY <2>1, CountClaimed
<1>5. ASSUME StealOldest PROVE CountInv'
  <2>1. Head(frameQueue) \in Assemblies
    BY <1>5, <1>a, QueueFacts DEF StealOldest, TypeOK
  <2>2. Claim(Head(frameQueue)) /\ ppc # "idle"
    BY <1>5 DEF StealOldest
  <2> QED
    BY <2>1, <2>2, CountClaimed
<1>6. ASSUME NoneFree \/ NoneQueued \/ NothingToEvict \/ Publish PROVE CountInv'
  <2>1. UNCHANGED <<stamp, msg_received, buf, bits>> /\ ppc' # "store"
    BY <1>6 DEF NoneFree, NoneQueued, NothingToEvict, Publish, assVars
  <2> QED
    BY <1>a, <2>1, CountKept
<1>7. ASSUME BufferUnlocks \/ BufferOpen \/ BufferRelocks \/ TakeFrame \/ TakeTimeout
             \/ IntervalMet \/ IntervalTimeout
      PROVE  CountInv'
  <2>1. UNCHANGED <<stamp, msg_received, buf, bits, ppc, ass, msg>>
    BY <1>7 DEF BufferUnlocks, BufferOpen, BufferRelocks, TakeFrame, TakeTimeout, IntervalMet,
         IntervalTimeout, assVars, prodVars
  <2>2. ppc' = "store" => stamp'[ass'] = msg'[1]
    BY <2>1 DEF CountInv
  <2> QED
    BY <1>a, <2>1, <2>2, CountKept
<1>8. ASSUME ReturnFrame PROVE CountInv'
  <2>1. UNCHANGED <<stamp, msg_received, buf, ppc, ass, msg>>
    BY <1>8 DEF ReturnFrame, prodVars
  <2>2. \A a \in Assemblies : bits'[a] \in {bits[a], "free"}
    BY <1>8, <1>a DEF ReturnFrame, TypeOK
  <2>3. ppc' = "store" => stamp'[ass'] = msg'[1]
    BY <2>1 DEF CountInv
  <2> QED
    BY <1>a, <2>1, <2>2, <2>3, CountKept
<1>9. ASSUME StorePart PROVE CountInv'
  BY <1>9, CountStored
<1> QED
  BY <1>1, <1>2, <1>3, <1>4, <1>5, <1>6, <1>7, <1>8, <1>9 DEF Next, Process, Search, Get

LEMMA CountAlways == Spec => [](IInv /\ ArrivedInv /\ CountInv)
<1>1. Init => ArrivedInv /\ CountInv
  BY NoFrameNotInMessages DEF Init, ArrivedInv, CountInv
<1>2. IInv /\ ArrivedInv /\ CountInv /\ [Next]_vars => ArrivedInv' /\ CountInv'
  BY ArrivedStep, CountStep
<1> QED
  BY <1>1, <1>2, IInvAlways, PTL DEF Spec

\* For any number of assemblies and any frames, whatever messages are lost,
\* reordered, given up or evicted: a frame handed to the consumer side holds all
\* its own parts and no other frame's, although process_message only counts them,
\* if none of its messages was delivered twice.
THEOREM FramesAreAlwaysWhole == Spec => []WholeFrames
<1>1. IInv /\ CountInv => WholeFrames
  <2> SUFFICES ASSUME IInv, CountInv, NEW a \in Assemblies, bits[a] = "done", DeliveredOnce(stamp[a]),
                      NEW q \in 0 .. Total[stamp[a]] - 1
               PROVE  buf[a][q] = stamp[a]
    BY DEF WholeFrames
  <2> DEFINE f == stamp[a]
             all == 0 .. Total[f] - 1
             own == OwnParts(a, f)
  <2>1. f \in Frames
    BY DEF CountInv
  <2>2. Total[f] \in Nat \ {0}
    BY <2>1, TotalType
  <2> HIDE DEF f
  <2>3. IsFiniteSet(all) /\ Cardinality(all) = Total[f]
    <3>1. 0 \in Int /\ Total[f] - 1 \in Int /\ ~(0 > Total[f] - 1) /\ Total[f] - 1 - 0 + 1 = Total[f]
      BY <2>2
    <3> QED
      BY <3>1, FS_Interval
  <2>4. own \subseteq all /\ IsFiniteSet(own) /\ Cardinality(own) <= Cardinality(all)
    BY <2>3, FS_Subset DEF OwnParts
  <2>5. Total[f] <= Cardinality(own) /\ Cardinality(own) \in Nat
    BY <2>1, <2>4, FS_CardinalityType DEF CountInv, f
  <2>6. own = all
    BY <2>2, <2>3, <2>4, <2>5, FS_Subset
  <2> QED
    BY <2>6 DEF OwnParts, f
<1> QED
  BY <1>1, CountAlways, PTL
-----------------------------------------------------------------------------
(* MessageBuffer implements FrameQueue.                                    *)

\* The frames of a queue of assemblies, and of the assembly that is held.
FramesOf(q, st) == [i \in DOMAIN q |-> st[q[i]]]
FrameHeld(a, st) == IF a = NoAss THEN NoFrame ELSE st[a]

LEMMA FramesOfFacts ==
    ASSUME NEW q \in Seq(Assemblies), NEW st, \A i \in DOMAIN q : st[q[i]] \in Frames
    PROVE  /\ FramesOf(q, st) \in Seq(Frames)
           /\ Len(FramesOf(q, st)) = Len(q)
           /\ \A i \in 1 .. Len(q) : FramesOf(q, st)[i] = st[q[i]]
<1>1. DOMAIN q = 1 .. Len(q) /\ Len(q) \in Nat
  OBVIOUS
<1>2. FramesOf(q, st) \in [1 .. Len(q) -> Frames]
  BY <1>1 DEF FramesOf
<1>3. FramesOf(q, st) \in Seq(Frames)
  BY <1>1, <1>2, SeqDef
<1>4. DOMAIN FramesOf(q, st) = 1 .. Len(q)
  BY <1>1 DEF FramesOf
<1>5. Len(FramesOf(q, st)) = Len(q)
  BY <1>1, <1>3, <1>4
<1> QED
  BY <1>1, <1>3, <1>5 DEF FramesOf

\* The frames that are taken or given up are those of the oldest assembly.
LEMMA FramesOfTail ==
    ASSUME NEW q \in Seq(Assemblies), q # <<>>, NEW st, \A i \in DOMAIN q : st[q[i]] \in Frames
    PROVE  /\ FramesOf(q, st) # <<>> /\ Head(FramesOf(q, st)) = st[Head(q)]
           /\ FramesOf(Tail(q), st) = Tail(FramesOf(q, st))
<1> DEFINE r == FramesOf(q, st)
           t == FramesOf(Tail(q), st)
<1>1. /\ Len(q) \in Nat \ {0} /\ DOMAIN q = 1 .. Len(q) /\ Head(q) = q[1]
      /\ Tail(q) \in Seq(Assemblies) /\ Len(Tail(q)) = Len(q) - 1 /\ DOMAIN Tail(q) = 1 .. Len(q) - 1
      /\ \A i \in 1 .. Len(q) - 1 : Tail(q)[i] = q[i + 1]
  OBVIOUS
<1>2. r \in Seq(Frames) /\ Len(r) = Len(q) /\ \A i \in 1 .. Len(q) : r[i] = st[q[i]]
  BY FramesOfFacts
<1>3. \A i \in DOMAIN Tail(q) : i + 1 \in DOMAIN q /\ Tail(q)[i] = q[i + 1]
  BY <1>1
<1>4. \A i \in DOMAIN Tail(q) : st[Tail(q)[i]] \in Frames
  BY <1>3
<1>5. t \in Seq(Frames) /\ Len(t) = Len(q) - 1 /\ \A i \in 1 .. Len(q) - 1 : t[i] = st[q[i + 1]]
  <2>1. t \in Seq(Frames) /\ Len(t) = Len(Tail(q)) /\ \A i \in 1 .. Len(Tail(q)) : t[i] = st[Tail(q)[i]]
    BY <1>1, <1>4, FramesOfFacts
  <2> HIDE DEF t
  <2> QED
    BY <1>1, <2>1
<1> HIDE DEF r, t
<1>6. /\ r # <<>> /\ Head(r) = r[1] /\ Tail(r) \in Seq(Frames) /\ Len(Tail(r)) = Len(q) - 1
      /\ \A i \in 1 .. Len(q) - 1 : Tail(r)[i] = r[i + 1]
  BY <1>1, <1>2
<1>7. \A i \in 1 .. Len(q) - 1 : t[i] = Tail(r)[i]
  <2> SUFFICES ASSUME NEW i \in 1 .. Len(q) - 1 PROVE t[i] = Tail(r)[i]
    OBVIOUS
  <2>1. i + 1 \in 1 .. Len(q)
    BY <1>1
  <2> QED
    BY <1>2, <1>5, <1>6, <2>1
<1>8. t = Tail(r)
  BY <1>5, <1>6, <1>7, SeqEqual
<1>9. r[1] = st[q[1]]
  BY <1>1, <1>2
<1> QED
  BY <1>1, <1>6, <1>8, <1>9 DEF r, t

LEMMA FramesOfAppend ==
    ASSUME NEW q \in Seq(Assemblies), NEW a \in Assemblies, NEW st, st[a] \in Frames,
           \A i \in DOMAIN q : st[q[i]] \in Frames
    PROVE  FramesOf(Append(q, a), st) = Append(FramesOf(q, st), st[a])
<1> DEFINE r == FramesOf(q, st)
           p == Append(q, a)
           t == FramesOf(p, st)
<1>1. /\ Len(q) \in Nat /\ DOMAIN q = 1 .. Len(q)
      /\ p \in Seq(Assemblies) /\ Len(p) = Len(q) + 1 /\ DOMAIN p = 1 .. Len(q) + 1
      /\ \A i \in 1 .. Len(q) + 1 : p[i] = IF i = Len(q) + 1 THEN a ELSE q[i]
  OBVIOUS
<1> HIDE DEF p
<1>2. r \in Seq(Frames) /\ Len(r) = Len(q) /\ \A i \in 1 .. Len(q) : r[i] = st[q[i]]
  BY FramesOfFacts
<1>3. \A i \in DOMAIN p : st[p[i]] \in Frames
  BY <1>1
<1>4. t \in Seq(Frames) /\ Len(t) = Len(q) + 1 /\ \A i \in 1 .. Len(q) + 1 : t[i] = st[p[i]]
  BY <1>1, <1>3, FramesOfFacts
<1> HIDE DEF r, t
<1>5. /\ Append(r, st[a]) \in Seq(Frames) /\ Len(Append(r, st[a])) = Len(q) + 1
      /\ \A i \in 1 .. Len(q) + 1 : Append(r, st[a])[i] = IF i = Len(q) + 1 THEN st[a] ELSE r[i]
  BY <1>1, <1>2
<1>6. \A i \in 1 .. Len(q) + 1 : t[i] = Append(r, st[a])[i]
  BY <1>1, <1>2, <1>4, <1>5
<1>7. t = Append(r, st[a])
  BY <1>4, <1>5, <1>6, SeqEqual
<1> QED
  BY <1>7 DEF p, r, t

\* The assembly being published is neither queued nor held.
LEMMA RoomBesideHeld ==
    ASSUME IInv, ppc = "publish"
    PROVE  Len(frameQueue) + (IF s_ass = NoAss THEN 0 ELSE 1) < NAss
<1>1. /\ ass \in Assemblies /\ frameQueue \in Seq(Assemblies)
      /\ ass \notin Queued /\ (s_ass # NoAss => s_ass \in Assemblies /\ s_ass # ass /\ s_ass \notin Queued)
  BY DEF IInv, TypeOK, ProducerAgrees, OwnershipAgrees, InPublish, Held
<1>2. Len(frameQueue) \in Nat /\ DOMAIN frameQueue = 1 .. Len(frameQueue)
  BY <1>1
<1>3. CASE s_ass = NoAss
  BY <1>2, <1>3, RoomToPublish DEF QueueHasRoom
<1>4. CASE s_ass # NoAss
  <2>1. frameQueue \in Seq((Assemblies \ {ass}) \ {s_ass})
    BY <1>1, <1>2, <1>4 DEF Queued
  <2>2. IsFiniteSet(Assemblies) /\ Cardinality(Assemblies) = NAss
    BY NAssAssumption, FS_Interval DEF Assemblies
  <2>3. IsFiniteSet(Assemblies \ {ass}) /\ Cardinality(Assemblies \ {ass}) = NAss - 1
    BY <1>1, <2>2, FS_RemoveElement
  <2>4. /\ IsFiniteSet((Assemblies \ {ass}) \ {s_ass})
        /\ Cardinality((Assemblies \ {ass}) \ {s_ass}) = NAss - 1 - 1
    BY <1>1, <1>4, <2>3, FS_RemoveElement
  <2>5. Len(frameQueue) <= NAss - 1 - 1
    BY <2>1, <2>4, DistinctLength DEF IInv, OwnershipAgrees
  <2> QED
    BY <1>2, <1>4, <2>5, NAssAssumption
<1> QED
  BY <1>3, <1>4
\* What the mapping needs of a state: the frames on the consumer side are frames.
LEMMA MappedFacts ==
    ASSUME IInv, CountInv
    PROVE  /\ frameQueue \in Seq(Assemblies)
           /\ \A i \in DOMAIN frameQueue : frameQueue[i] \in Queued /\ stamp[frameQueue[i]] \in Frames
           /\ s_ass # NoAss => s_ass \in Assemblies /\ s_ass \in Held /\ stamp[s_ass] \in Frames
           /\ FrameHeld(s_ass, stamp) = NoFrame <=> s_ass = NoAss
<1>1. frameQueue \in Seq(Assemblies) /\ \A i \in DOMAIN frameQueue : frameQueue[i] \in Queued
  BY DEF IInv, TypeOK, Queued
<1>2. \A a \in Queued \cup Held : a \in Assemblies /\ bits[a] = "done"
  BY DEF IInv, OwnershipAgrees
<1>3. \A a \in Queued \cup Held : stamp[a] \in Frames
  BY <1>2 DEF CountInv
<1>4. s_ass # NoAss => s_ass \in Held
  BY DEF Held
<1> QED
  BY <1>1, <1>2, <1>3, <1>4, FramesAssumption DEF FrameHeld

\* A step that leaves the queue, the held assembly and their frames alone.
MappedSame ==
    /\ UNCHANGED <<frameQueue, s_ass>>
    /\ \A a \in Queued \cup Held : stamp'[a] = stamp[a]

LEMMA MappedStutter ==
    ASSUME IInv, CountInv, MappedSame
    PROVE  /\ FramesOf(frameQueue', stamp') = FramesOf(frameQueue, stamp)
           /\ FrameHeld(s_ass', stamp') = FrameHeld(s_ass, stamp)
  BY MappedFacts DEF FramesOf, FrameHeld, MappedSame

\* The frames the claim of an assembly that is not on the consumer side leaves
\* alone.
LEMMA ClaimSame ==
    ASSUME IInv, NEW a \in Assemblies, Claim(a)
    PROVE  \A b \in Assemblies \ {a} : stamp'[b] = stamp[b]
  BY DEF IInv, TypeOK, Claim

LEMMA FrameQueueStep ==
    ASSUME IInv, CountInv, [Next]_vars
    PROVE  [FQ!Next]_(FQ!vars)
<1> DEFINE ready == FramesOf(frameQueue, stamp)
           reading == FrameHeld(s_ass, stamp)
           ready1 == FramesOf(frameQueue', stamp')
           reading1 == FrameHeld(s_ass', stamp')
<1>a. /\ frameQueue \in Seq(Assemblies)
      /\ \A i \in DOMAIN frameQueue : frameQueue[i] \in Queued /\ stamp[frameQueue[i]] \in Frames
      /\ s_ass # NoAss => s_ass \in Assemblies /\ s_ass \in Held /\ stamp[s_ass] \in Frames
      /\ reading = NoFrame <=> s_ass = NoAss
  BY MappedFacts
<1>b. Queued \cup Held \subseteq Assemblies /\ Queued \cap Held = {}
  BY DEF IInv, OwnershipAgrees
<1>1. ASSUME MappedSame PROVE ready1 = ready /\ reading1 = reading
  BY <1>1, MappedStutter
\* The producer completes a frame.
<1>2. ASSUME Publish
      PROVE  /\ Len(ready) + (IF reading = NoFrame THEN 0 ELSE 1) < NAss
             /\ \E f \in Frames : ready1 = Append(ready, f)
             /\ reading1 = reading
  <2>1. ass \in Assemblies /\ stamp[ass] \in Frames /\ UNCHANGED <<stamp, s_ass>>
    BY <1>2 DEF Publish, assVars, consVars, IInv, ProducerAgrees, OwnershipAgrees, InPublish, CountInv
  <2>2. frameQueue' = Append(frameQueue, ass)
    BY <1>2, RoomToPublish DEF Publish, QueueHasRoom
  <2>3. ready1 = Append(ready, stamp[ass])
    BY <1>a, <2>1, <2>2, FramesOfAppend
  <2>4. Len(ready) = Len(frameQueue)
    BY <1>a, FramesOfFacts
  <2>5. Len(frameQueue) + (IF s_ass = NoAss THEN 0 ELSE 1) < NAss
    BY <1>2, RoomBesideHeld DEF Publish
  <2>6. Len(ready) + (IF reading = NoFrame THEN 0 ELSE 1) < NAss
    BY <1>a, <2>4, <2>5
  <2> QED
    BY <2>1, <2>3, <2>6
\* It takes back the oldest one.
<1>3. ASSUME StealOldest
      PROVE  ready # <<>> /\ ready1 = Tail(ready) /\ reading1 = reading
  <2> DEFINE h == Head(frameQueue)
  <2>1. frameQueue # <<>> /\ Claim(h) /\ frameQueue' = Tail(frameQueue) /\ s_ass' = s_ass
    BY <1>3 DEF StealOldest, consVars
  <2>2. h \in Assemblies /\ h \in Queued /\ Queued' = Queued \ {h}
    BY <1>a, <2>1, QueueFacts, TakeHead DEF IInv, OwnershipAgrees
  <2>3. Tail(frameQueue) \in Seq(Assemblies)
        /\ \A i \in DOMAIN Tail(frameQueue) : Tail(frameQueue)[i] \in Queued \ {h}
    BY <1>a, <2>1, <2>2, QueueFacts DEF Queued
  <2> HIDE DEF h
  <2>4. \A b \in Assemblies \ {h} : stamp'[b] = stamp[b]
    BY <2>1, <2>2, ClaimSame
  <2>5. FramesOf(Tail(frameQueue), stamp') = FramesOf(Tail(frameQueue), stamp)
    BY <1>b, <2>3, <2>4 DEF FramesOf
  <2>6. ready # <<>> /\ FramesOf(Tail(frameQueue), stamp) = Tail(ready)
    BY <1>a, <2>1, FramesOfTail
  <2>7. reading1 = reading
    BY <1>a, <1>b, <2>1, <2>2, <2>4 DEF FrameHeld
  <2> QED
    BY <2>1, <2>5, <2>6, <2>7
\* The consumer takes the oldest one.
<1>4. ASSUME TakeFrame
      PROVE  /\ reading = NoFrame /\ ready # <<>>
             /\ reading1 = Head(ready) /\ ready1 = Tail(ready)
  <2>1. frameQueue # <<>> /\ s_ass' = Head(frameQueue) /\ frameQueue' = Tail(frameQueue) /\ stamp' = stamp
    BY <1>4 DEF TakeFrame, assVars
  <2>2. s_ass = NoAss
    BY <1>4 DEF TakeFrame, IInv, OwnershipAgrees
  <2>3. Head(frameQueue) # NoAss
    BY <1>a, <2>1, QueueFacts, NoAssAssumption DEF Assemblies
  <2>4. ready # <<>> /\ Head(ready) = stamp[Head(frameQueue)] /\ FramesOf(Tail(frameQueue), stamp) = Tail(ready)
    BY <1>a, <2>1, FramesOfTail
  <2> QED
    BY <1>a, <2>1, <2>2, <2>3, <2>4 DEF FrameHeld
\* It returns the one it has read.
<1>5. ASSUME ReturnFrame
      PROVE  reading # NoFrame /\ reading1 = NoFrame /\ ready1 = ready
  <2>1. s_ass # NoAss /\ s_ass' = NoAss /\ UNCHANGED <<stamp, frameQueue>>
    BY <1>5 DEF ReturnFrame, IInv, OwnershipAgrees
  <2> QED
    BY <1>a, <2>1 DEF FrameHeld
<1>6. ASSUME NEW a \in Assemblies, ClaimFree(a) \/ EvictEarliest(a) PROVE MappedSame
  <2>1. Claim(a) /\ UNCHANGED <<frameQueue, s_ass>> /\ bits[a] # "done"
    BY <1>6 DEF ClaimFree, EvictEarliest, Free, IsEarliestUsed, consVars
  <2>2. a \notin Queued \cup Held
    BY <2>1 DEF IInv, OwnershipAgrees
  <2> QED
    BY <1>b, <2>1, <2>2, ClaimSame DEF MappedSame
<1>7. ASSUME \/ UNCHANGED vars \/ (\E m \in Messages : ReceiveMessage(m))
             \/ (\E a \in Assemblies : UseMatching(a))
             \/ NoneFree \/ NoneQueued \/ NothingToEvict \/ StorePart
             \/ BufferUnlocks \/ BufferOpen \/ BufferRelocks \/ TakeTimeout
             \/ IntervalMet \/ IntervalTimeout
      PROVE  MappedSame
  <2>1. UNCHANGED <<frameQueue, s_ass, stamp>>
    BY <1>7 DEF vars, assVars, consVars, ReceiveMessage, UseMatching, NoneFree, NoneQueued,
         NothingToEvict, StorePart, BufferUnlocks, BufferOpen, BufferRelocks, TakeTimeout,
         IntervalMet, IntervalTimeout
  <2> QED
    BY <2>1 DEF MappedSame
<1>8. \/ MappedSame \/ Publish \/ StealOldest \/ TakeFrame \/ ReturnFrame
  BY <1>6, <1>7 DEF Next, Process, Search, Get
<1>9. CASE MappedSame
  BY <1>1, <1>9 DEF FQ!vars, FramesOf, FrameHeld
<1>10. CASE Publish
  <2>1. \E f \in Frames : FQ!Put(f)
    BY <1>2, <1>10 DEF FQ!Put, FQ!Occupied, FramesOf, FrameHeld
  <2> QED
    BY <2>1 DEF FQ!Next
<1>11. CASE StealOldest
  <2>1. FQ!DropOldest
    BY <1>3, <1>11 DEF FQ!DropOldest, FramesOf, FrameHeld
  <2> QED
    BY <2>1 DEF FQ!Next
<1>12. CASE TakeFrame
  <2>1. FQ!Take
    BY <1>4, <1>12 DEF FQ!Take, FramesOf, FrameHeld
  <2> QED
    BY <2>1 DEF FQ!Next
<1>13. CASE ReturnFrame
  <2>1. FQ!Release
    BY <1>5, <1>13 DEF FQ!Release, FramesOf, FrameHeld
  <2> QED
    BY <2>1 DEF FQ!Next
<1> QED
  BY <1>8, <1>9, <1>10, <1>11, <1>12, <1>13

\* Whatever the network does and however the tasks interleave, the frames of the
\* buffer behave like the bounded queue of FrameQueue: they reach get_fb in the
\* order process_message completed them, only the oldest waiting one is ever
\* given up, and the one being read stays until return_fb.
THEOREM FrameQueueIsImplemented == Spec => ImplementsFrameQueue
<1>1. Init => FQ!Init
  <2> SUFFICES ASSUME Init PROVE FQ!Init
    OBVIOUS
  <2>1. frameQueue = <<>> /\ s_ass = NoAss
    BY DEF Init
  <2>2. FramesOf(frameQueue, stamp) \in Seq(Frames) /\ Len(FramesOf(frameQueue, stamp)) = 0
    <3>1. frameQueue \in Seq(Assemblies) /\ Len(frameQueue) = 0 /\ \A i \in DOMAIN frameQueue : FALSE
      BY <2>1
    <3>2. \A i \in DOMAIN frameQueue : stamp[frameQueue[i]] \in Frames
      BY <3>1
    <3> QED
      BY <3>1, <3>2, FramesOfFacts
  <2>3. FramesOf(frameQueue, stamp) = <<>>
    BY <2>2, EmptySeq
  <2> QED
    BY <2>1, <2>3 DEF FQ!Init, FramesOf
<1>2. IInv /\ CountInv /\ [Next]_vars => [FQ!Next]_(FQ!vars)
  BY FrameQueueStep
<1> QED
  BY <1>1, <1>2, CountAlways, PTL DEF Spec, FQ!Spec, ImplementsFrameQueue

=============================================================================
