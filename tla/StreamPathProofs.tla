-------------------------- MODULE StreamPathProofs --------------------------
(***************************************************************************)
(* Theorems about StreamPath: each half of the server works at the rate it *)
(* is meant to, a rate of zero was asked for, a camera that goes on sending *)
(* has a STOP to read, and so has a data task that uses the buffer while   *)
(* it is replaced.  They hold for any number of cameras, requests and      *)
(* failures, and for all values a play client sets.                        *)
(***************************************************************************)
EXTENDS StreamPath, TLAPS

\* The calls the handlers of the play client have still to make.
Left == todo[Viewer]

\* The types the two invariants rest on.
Types ==
    /\ conn \in [Cameras -> {"up", "lost", "down"}]
    /\ camStarted \in [Cameras -> BOOLEAN] /\ viewStarted \in BOOLEAN
    /\ config \in [Cameras -> [fps : Rates, before : Rates]]
    /\ primary \in Cameras \cup {NoCamera}
    /\ todo \in [Actors -> Seq(Calls)]
    /\ buffer \in [rate : Rates, there : BOOLEAN]
    /\ settingsQueue \in [Tasks -> Rates \cup {NoSettings}]
    /\ rate \in [Tasks -> Rates]

\* The rate a data task works at once it has read its settings.
Told(d) == IF settingsQueue[d] = NoSettings THEN rate[d] ELSE settingsQueue[d]

Tells(call, d) == call.call = "settings" /\ call.to = d

\* The handlers have told a data task the rate r, or are about to.
Agrees(d, r) ==
    /\ \A i \in DOMAIN Left : Tells(Left[i], d) => Left[i].rate = r
    /\ (\A i \in DOMAIN Left : ~Tells(Left[i], d)) => Told(d) = r

NoInit(calls) == \A i \in DOMAIN calls : calls[i].call # "init"

\* The order of the calls: the buffer is made first, then the receiving task is told
\* its rate, and only then something may fail.
Ordered(calls) ==
    /\ \A i, j \in DOMAIN calls : i < j =>
        /\ calls[i].call \in {"settings", "data", "send"} => calls[j].call \notin {"deinit", "init"}
        /\ calls[i].call \in {"data", "send"} => ~Tells(calls[j], "push")
    /\ ~NoInit(calls) => \E j \in DOMAIN calls : Tells(calls[j], "push")
    /\ \A i, j \in DOMAIN calls :
        calls[i].call = "init" /\ Tells(calls[j], "push") => calls[i].rate = calls[j].rate

BufferInv == Ordered(Left) /\ (NoInit(Left) => Agrees("push", buffer.rate))

\* A stream has its camera, which cannot be replaced or forgotten under it.
StreamInv ==
    viewStarted =>
        /\ primary \in Cameras /\ camStarted[primary] /\ conn[primary] # "down"
        /\ Agrees("play", config[primary].fps)

ZeroInv ==
    /\ \A c \in Cameras : config[c].fps = 0 => zeroAsked
    /\ \A i \in DOMAIN Left : Left[i].call \in {"init", "settings"} /\ Left[i].rate = 0 => zeroAsked
    /\ \A d \in Tasks : settingsQueue[d] = 0 => zeroAsked
    /\ ZeroRateWasAsked

IInv == Types /\ BufferInv /\ StreamInv /\ ZeroInv

-----------------------------------------------------------------------------
LEMMA ConstantFacts ==
    /\ RateSpan \in Nat \ {0, 1} /\ NoSettings \notin Rates /\ 0 \in Rates /\ NoSettings # 0
    /\ DefaultRate \in Rates /\ DefaultRate # 0 /\ DefaultBefore \in Rates
    /\ FirstSource \in Cameras /\ NoCamera \notin Cameras
    /\ Viewer \in Actors /\ Viewer \notin Cameras /\ Cameras \subseteq Actors
    /\ Tasks = {"push", "play"}
BY RatesAssumption, CamerasAssumption DEF Rates, NoSettings, Actors, Tasks

LEMMA Remainder == \A value \in Nat : value % RateSpan \in Rates
BY ConstantFacts DEF Rates

LEMMA EmptySeq == ASSUME NEW S PROVE <<>> \in Seq(S) /\ DOMAIN <<>> = {}
OBVIOUS

LEMMA NoneIsEmpty == ASSUME NEW S, NEW s \in Seq(S), Len(s) = 0 PROVE s = <<>>
OBVIOUS

LEMMA Shortened ==
    ASSUME NEW S, NEW s \in Seq(S), s # <<>>
    PROVE  /\ 1 \in DOMAIN s /\ Head(s) = s[1] /\ Head(s) \in S
           /\ Tail(s) \in Seq(S)
           /\ \A i \in DOMAIN Tail(s) : i \in Nat /\ i >= 1 /\ i + 1 \in DOMAIN s /\ Tail(s)[i] = s[i + 1]
           /\ \A i \in DOMAIN s : i \in Nat /\ i >= 1 /\ (i # 1 => i - 1 \in DOMAIN Tail(s) /\ Tail(s)[i - 1] = s[i])
<1>1. Len(s) > 0
    OBVIOUS
<1>2. Tail(s) \in Seq(S) /\ Len(Tail(s)) = Len(s) - 1 /\ Head(s) = s[1] /\ Head(s) \in S
    BY <1>1
<1>3. ASSUME NEW i \in DOMAIN Tail(s)
      PROVE  i \in Nat /\ i >= 1 /\ i + 1 \in DOMAIN s /\ Tail(s)[i] = s[i + 1]
    BY <1>1, <1>2
<1>4. ASSUME NEW i \in DOMAIN s
      PROVE  i \in Nat /\ i >= 1 /\ (i # 1 => i - 1 \in DOMAIN Tail(s) /\ Tail(s)[i - 1] = s[i])
    BY <1>1, <1>2
<1> QED
    BY <1>1, <1>2, <1>3, <1>4

\* What is left of ordered calls is ordered.
LEMMA OrderedTail ==
    ASSUME NEW calls \in Seq(Calls), calls # <<>>, Ordered(calls)
    PROVE  Ordered(Tail(calls))
<1> DEFINE rest == Tail(calls)
<1>1. \A i \in DOMAIN rest : i \in Nat /\ i >= 1 /\ i + 1 \in DOMAIN calls /\ rest[i] = calls[i + 1]
    BY Shortened
<1>2. \A i \in DOMAIN calls : i \in Nat /\ i >= 1 /\ (i # 1 => i - 1 \in DOMAIN rest /\ rest[i - 1] = calls[i])
    BY Shortened
<1> HIDE DEF rest
<1>3. ASSUME NEW i \in DOMAIN rest, NEW j \in DOMAIN rest, i < j
      PROVE  /\ rest[i].call \in {"settings", "data", "send"} => rest[j].call \notin {"deinit", "init"}
             /\ rest[i].call \in {"data", "send"} => ~Tells(rest[j], "push")
    <2>1. i + 1 < j + 1
        BY <1>1, <1>3
    <2> QED
        BY <1>1, <2>1 DEF Ordered
<1>4. ASSUME NEW i \in DOMAIN rest, rest[i].call = "init"
      PROVE  \E j \in DOMAIN rest : Tells(rest[j], "push")
    <2>1. PICK j \in DOMAIN calls : Tells(calls[j], "push")
        BY <1>1, <1>4 DEF Ordered, NoInit
    <2>2. j # 1
        <3>1. SUFFICES ASSUME j = 1 PROVE FALSE
            OBVIOUS
        <3>2. j < i + 1
            BY <1>1, <3>1
        <3> QED
            BY <1>1, <1>4, <2>1, <3>2 DEF Ordered, Tells
    <2> QED
        BY <1>2, <2>1, <2>2
<1>5. ASSUME NEW i \in DOMAIN rest, NEW j \in DOMAIN rest, rest[i].call = "init", Tells(rest[j], "push")
      PROVE  rest[i].rate = rest[j].rate
    BY <1>1, <1>5 DEF Ordered
<1> QED
    BY <1>3, <1>4, <1>5 DEF Ordered, NoInit, rest

LEMMA PairBefore ==
    ASSUME NEW S, NEW x \in S, NEW y \in S, NEW s \in Seq(S), NEW whole, whole = <<x, y>> \o s
    PROVE  /\ Len(whole) = Len(s) + 2 /\ DOMAIN whole = 1 .. Len(s) + 2
           /\ whole[1] = x /\ whole[2] = y
           /\ \A i \in 1 .. Len(s) : whole[i + 2] = s[i]
OBVIOUS

\* Whoever comes to a call that may fail has made the buffer and told the receiving
\* task.
LEMMA HeadFacts ==
    ASSUME NEW calls \in Seq(Calls), calls # <<>>, Ordered(calls)
    PROVE  /\ Head(calls).call \in {"settings", "data", "send"} => NoInit(calls)
           /\ Head(calls).call \in {"data", "send"} => \A i \in DOMAIN calls : ~Tells(calls[i], "push")
<1>1. /\ 1 \in DOMAIN calls /\ Head(calls) = calls[1]
      /\ \A i \in DOMAIN calls : i = 1 \/ 1 < i
    BY Shortened
<1>2. Head(calls).call \in {"settings", "data", "send"} => NoInit(calls)
    BY <1>1 DEF Ordered, NoInit
<1>3. Head(calls).call \in {"data", "send"} => \A i \in DOMAIN calls : ~Tells(calls[i], "push")
    BY <1>1 DEF Ordered, Tells
<1> QED
    BY <1>2, <1>3

\* The calls START_STREAM leaves.
LEMMA StartCallsFacts ==
    ASSUME NEW c \in Cameras, NEW r \in Rates
    PROVE  LET calls == StartCalls(c, r) IN
           /\ calls \in Seq(Calls) /\ Ordered(calls)
           /\ \A d \in Tasks : \E i \in DOMAIN calls : Tells(calls[i], d)
           /\ \A i \in DOMAIN calls : calls[i].call \in {"init", "settings"} => calls[i].rate = r
           /\ NoInit(calls) => ~BufferDiffers(c)
<1> DEFINE a == [call |-> "deinit"]
           b == [call |-> "init", rate |-> r]
           t == <<NewRate("push", r), NewRate("play", r),
                  Data("push", "START"), Data("play", "START"), Send(c, "START")>>
           f == <<a, b>> \o t
<1>1. t \in Seq(Calls) /\ <<a, b>> \in Seq(Calls) /\ f \in Seq(Calls)
    <2>1. /\ NewRate("push", r) \in Calls /\ NewRate("play", r) \in Calls
          /\ Data("push", "START") \in Calls /\ Data("play", "START") \in Calls
          /\ Send(c, "START") \in Calls /\ a \in Calls /\ b \in Calls
        BY ConstantFacts DEF NewRate, Data, Send, Calls, Commands, Messages
    <2>2. t \in Seq(Calls)
        BY <2>1
    <2>3. <<a, b>> \in Seq(Calls)
        <3> HIDE DEF a, b
        <3> QED
            BY <2>1
    <2> HIDE DEF a, b, t
    <2> QED
        BY <2>2, <2>3
<1>2. StartCalls(c, r) = IF BufferDiffers(c) THEN f ELSE t
    <2>1. <<>> \o t = t
        <3> HIDE DEF t
        <3> QED
            BY <1>1
    <2> QED
        BY <2>1 DEF StartCalls
<1>3. /\ DOMAIN t = 1 .. 5
      /\ t[1].call = "settings" /\ t[1].to = "push" /\ t[1].rate = r
      /\ t[2].call = "settings" /\ t[2].to = "play" /\ t[2].rate = r
      /\ t[3].call = "data" /\ t[4].call = "data" /\ t[5].call = "send"
    BY DEF NewRate, Data, Send
<1>4. /\ DOMAIN f = 1 .. 7
      /\ f[1].call = "deinit" /\ f[2].call = "init" /\ f[2].rate = r
      /\ f[3].call = "settings" /\ f[3].to = "push" /\ f[3].rate = r
      /\ f[4].call = "settings" /\ f[4].to = "play" /\ f[4].rate = r
      /\ f[5].call = "data" /\ f[6].call = "data" /\ f[7].call = "send"
    <2>1. Len(t) = 5
        OBVIOUS
    <2> HIDE DEF t
    <2>2. /\ DOMAIN f = 1 .. 7 /\ f[1] = a /\ f[2] = b
          /\ f[3] = t[1] /\ f[4] = t[2] /\ f[5] = t[3] /\ f[6] = t[4] /\ f[7] = t[5]
        <3>1. a \in Calls /\ b \in Calls
            BY ConstantFacts DEF Calls
        <3>2. f = <<a, b>> \o t
            OBVIOUS
        <3> HIDE DEF a, b, f
        <3>3. /\ DOMAIN f = 1 .. Len(t) + 2 /\ f[1] = a /\ f[2] = b
              /\ \A i \in 1 .. Len(t) : f[i + 2] = t[i]
            BY <1>1, <3>1, <3>2, PairBefore
        <3>4. f[1 + 2] = t[1] /\ f[2 + 2] = t[2] /\ f[3 + 2] = t[3] /\ f[4 + 2] = t[4] /\ f[5 + 2] = t[5]
            BY <2>1, <3>3
        <3> QED
            BY <2>1, <3>3, <3>4
    <2> QED
        BY <1>3, <2>2
<1> HIDE DEF t, f
<1>5. /\ Ordered(t) /\ Ordered(f)
      /\ \A d \in Tasks : (\E i \in DOMAIN t : Tells(t[i], d)) /\ (\E i \in DOMAIN f : Tells(f[i], d))
    <2>1. 1 \in DOMAIN t /\ 2 \in DOMAIN t /\ 3 \in DOMAIN f /\ 4 \in DOMAIN f
        BY <1>3, <1>4
    <2>2. \A d \in Tasks : (\E i \in DOMAIN t : Tells(t[i], d)) /\ (\E i \in DOMAIN f : Tells(f[i], d))
        BY <1>3, <1>4, <2>1, ConstantFacts DEF Tells
    <2>3. \A i, j \in DOMAIN t : i < j =>
            /\ t[i].call \in {"settings", "data", "send"} => t[j].call \notin {"deinit", "init"}
            /\ t[i].call \in {"data", "send"} => ~Tells(t[j], "push")
        <3>1. \A i \in DOMAIN t : t[i].call \notin {"deinit", "init"}
            BY <1>3
        <3>2. \A i \in DOMAIN t : i <= 2 <=> t[i].call = "settings"
            BY <1>3
        <3>3. DOMAIN t \subseteq Nat
            BY <1>3
        <3> QED
            BY <3>1, <3>2, <3>3 DEF Tells
    <2>4. \A i, j \in DOMAIN f : i < j =>
            /\ f[i].call \in {"settings", "data", "send"} => f[j].call \notin {"deinit", "init"}
            /\ f[i].call \in {"data", "send"} => ~Tells(f[j], "push")
        <3>2. \A i \in DOMAIN f : i <= 2 <=> f[i].call \in {"deinit", "init"}
            BY <1>4
        <3>3. \A i \in DOMAIN f : i >= 5 <=> f[i].call \in {"data", "send"}
            BY <1>4
        <3>4. DOMAIN f \subseteq Nat
            BY <1>4
        <3> QED
            BY <3>2, <3>3, <3>4 DEF Tells
    <2>5. \A i, j \in DOMAIN t : t[i].call = "init" /\ Tells(t[j], "push") => t[i].rate = t[j].rate
        BY <1>3
    <2>6. \A i, j \in DOMAIN f : f[i].call = "init" /\ Tells(f[j], "push") => f[i].rate = f[j].rate
        BY <1>4 DEF Tells
    <2>7. "push" \in Tasks
        BY ConstantFacts
    <2> QED
        BY <2>2, <2>3, <2>4, <2>5, <2>6, <2>7 DEF Ordered
<1>6. /\ \A i \in DOMAIN t : t[i].call \in {"init", "settings"} => t[i].rate = r
      /\ \A i \in DOMAIN f : f[i].call \in {"init", "settings"} => f[i].rate = r
    BY <1>3, <1>4
<1>7. ~NoInit(f)
    BY <1>4 DEF NoInit
<1> QED
    BY <1>1, <1>2, <1>5, <1>6, <1>7

\* Those FRAME_SET_PARAMS leaves: the sending task is told, the receiving one is not.
LEMMA FrameCallsFacts ==
    ASSUME NEW c \in Cameras, NEW r \in Rates
    PROVE  LET calls == FrameCalls(c, r) IN
           /\ calls \in Seq(Calls) /\ Ordered(calls) /\ NoInit(calls)
           /\ \A i \in DOMAIN calls : ~Tells(calls[i], "push")
           /\ \E i \in DOMAIN calls : Tells(calls[i], "play")
           /\ \A i \in DOMAIN calls : calls[i].call = "settings" => calls[i].rate = r
           /\ \A i \in DOMAIN calls : ~IsCommand(calls[i])
<1> DEFINE s == FrameCalls(c, r)
<1>1. Send(c, "PARAMS") \in Calls /\ NewRate("play", r) \in Calls
    BY ConstantFacts DEF NewRate, Send, Calls, Messages
<1>2. /\ s \in Seq(Calls) /\ DOMAIN s = 1 .. 2
      /\ s[1] = Send(c, "PARAMS") /\ s[2] = NewRate("play", r)
    <2>1. s = <<Send(c, "PARAMS"), NewRate("play", r)>>
        BY DEF FrameCalls
    <2> QED
        BY <1>1, <2>1
<1> HIDE DEF s
<1>3. s[1].call = "send" /\ s[1].cmd = "PARAMS" /\ s[2].call = "settings" /\ s[2].to = "play" /\ s[2].rate = r
    BY <1>2 DEF Send, NewRate
<1>4. NoInit(s)
    BY <1>2, <1>3 DEF NoInit
<1>7. Ordered(s)
    <2>1. \A i \in DOMAIN s : ~Tells(s[i], "push") /\ s[i].call \in {"send", "settings"}
        BY <1>2, <1>3 DEF Tells
    <2> QED
        BY <1>4, <2>1 DEF NoInit, Ordered
<1>5. 2 \in DOMAIN s /\ Tells(s[2], "play")
    BY <1>2, <1>3 DEF Tells
<1>6. \A i \in DOMAIN s : ~IsCommand(s[i]) /\ ~Tells(s[i], "push") /\ (s[i].call = "settings" => s[i].rate = r)
    BY <1>2, <1>3 DEF IsCommand, Commands, Tells
<1> QED
    BY <1>2, <1>4, <1>5, <1>6, <1>7 DEF s

\* Calls that tell the tasks nothing: those STOP_STREAM leaves, and none.
Quiet(calls) ==
    /\ calls \in Seq(Calls) /\ Ordered(calls)
    /\ \A i \in DOMAIN calls : calls[i].call \notin {"deinit", "init", "settings"}

LEMMA QuietCalls ==
    /\ \A c \in Cameras : Quiet(StopCalls(c))
    /\ Quiet(<<>>)
<1>1. ASSUME NEW c \in Cameras PROVE Quiet(StopCalls(c))
    <2> DEFINE s == StopCalls(c)
    <2>1. Send(c, "STOP") \in Calls /\ Data("push", "STOP") \in Calls /\ Data("play", "STOP") \in Calls
        BY ConstantFacts DEF Data, Send, Calls, Commands, Messages
    <2>2. /\ s \in Seq(Calls) /\ DOMAIN s = 1 .. 3
          /\ s[1].call = "send" /\ s[2].call = "data" /\ s[3].call = "data"
        BY <2>1 DEF StopCalls, Data, Send
    <2> HIDE DEF s
    <2>3. \A i \in DOMAIN s : s[i].call \in {"data", "send"}
        BY <2>2
    <2>4. Ordered(s)
        BY <2>3 DEF Ordered, NoInit, Tells
    <2> QED
        BY <2>2, <2>3, <2>4 DEF Quiet, s
<1>3. Quiet(<<>>)
    BY EmptySeq DEF Quiet, Ordered, NoInit
<1> QED
    BY <1>1, <1>3

-----------------------------------------------------------------------------
LEMMA InitIInv == Init => IInv
<1> SUFFICES ASSUME Init PROVE IInv
    OBVIOUS
<1> USE ConstantFacts DEF Init
<1>1. Types
    BY EmptySeq DEF Types, DefaultConfig
<1>2. Left = <<>> /\ DOMAIN Left = {}
    BY EmptySeq DEF Left
<1>3. BufferInv
    BY <1>2 DEF BufferInv, Ordered, NoInit, Agrees, Told
<1>4. ZeroInv
    BY <1>2 DEF ZeroInv, ZeroRateWasAsked, DefaultConfig
<1>5. StreamInv
    BY DEF StreamInv
<1> QED
    BY <1>1, <1>3, <1>4, <1>5 DEF IInv

\* A stream goes on with its camera, if it goes on.
StreamStays ==
    viewStarted' =>
        /\ viewStarted
        /\ primary' = primary /\ camStarted'[primary] = camStarted[primary]
        /\ conn[primary] # "down" => conn'[primary] # "down"
        /\ config'[primary].fps = config[primary].fps

\* Steps that tell nobody anything.
LEMMA OtherSteps ==
    ASSUME IInv, Types', StreamStays, UNCHANGED <<config, buffer, zeroAsked>>, Left' = Left,
           \A d \in Tasks : /\ Told(d)' = Told(d)
                            /\ rate'[d] \in {rate[d], settingsQueue[d]}
                            /\ settingsQueue'[d] \in {settingsQueue[d], NoSettings},
           down' = down \/ down' = "fault"
    PROVE  IInv'
<1>1. BufferInv'
    BY ConstantFacts DEF IInv, BufferInv, Agrees
<1>2. StreamInv'
    BY ConstantFacts DEF IInv, StreamInv, StreamStays, Agrees
<1>3. ZeroInv'
    BY ConstantFacts DEF IInv, ZeroInv, ZeroRateWasAsked
<1> QED
    BY <1>1, <1>2, <1>3 DEF IInv

\* The calls that are left are replaced by others that tell the tasks nothing.
LEMMA Replaced ==
    ASSUME IInv, Types', UNCHANGED <<config, buffer, settingsQueue, rate, zeroAsked, down>>,
           NoInit(Left), \A i \in DOMAIN Left : ~Tells(Left[i], "push"),
           NEW calls, Quiet(calls), Left' = calls,
           ~viewStarted'
    PROVE  IInv'
<1>1. NoInit(calls) /\ \A d : \A i \in DOMAIN calls : ~Tells(calls[i], d)
    BY DEF Quiet, NoInit, Tells
<1>2. BufferInv'
    BY <1>1 DEF IInv, BufferInv, Agrees, Told, Quiet
<1>3. StreamInv'
    BY DEF StreamInv
<1>4. ZeroInv'
    BY DEF IInv, ZeroInv, ZeroRateWasAsked, Quiet
<1> QED
    BY <1>2, <1>3, <1>4 DEF IInv

\* A call of the play client's handlers is made.
LEMMA LeftTail ==
    ASSUME IInv, Left # <<>>, CallDone(Viewer)
    PROVE  /\ Left \in Seq(Calls) /\ Left' = Tail(Left) /\ todo' \in [Actors -> Seq(Calls)]
           /\ 1 \in DOMAIN Left /\ Head(Left) = Left[1] /\ Head(Left) \in Calls
           /\ \A i \in DOMAIN Left' : i \in Nat /\ i >= 1 /\ i + 1 \in DOMAIN Left /\ Left'[i] = Left[i + 1]
           /\ \A i \in DOMAIN Left : i # 1 => i - 1 \in DOMAIN Left' /\ Left'[i - 1] = Left[i]
           /\ Ordered(Left) /\ Ordered(Left')
<1>t. todo \in [Actors -> Seq(Calls)] /\ Viewer \in Actors /\ Left \in Seq(Calls)
    BY ConstantFacts DEF IInv, Types, Left
<1>1. todo' = [todo EXCEPT ![Viewer] = Tail(Left)] /\ Left' = Tail(Left)
    BY <1>t DEF CallDone, Left
<1>2. Tail(Left) \in Seq(Calls)
    BY <1>t, Shortened
<1>3. todo' \in [Actors -> Seq(Calls)]
    BY <1>t, <1>1, <1>2
<1>4. Ordered(Left) /\ Ordered(Tail(Left))
    BY <1>t, OrderedTail DEF IInv, BufferInv
<1> QED
    BY <1>t, <1>1, <1>3, <1>4, Shortened

LEMMA AgreesAfterCall ==
    ASSUME IInv, Left # <<>>, CallDone(Viewer), NEW d \in Tasks, NEW r, Agrees(d, r),
           Told(d)' = IF Tells(Head(Left), d) THEN Head(Left).rate ELSE Told(d)
    PROVE  Agrees(d, r)'
<1>1. /\ 1 \in DOMAIN Left /\ Head(Left) = Left[1]
      /\ \A i \in DOMAIN Left' : i + 1 \in DOMAIN Left /\ Left'[i] = Left[i + 1]
      /\ \A i \in DOMAIN Left : i # 1 => i - 1 \in DOMAIN Left' /\ Left'[i - 1] = Left[i]
    BY LeftTail
<1>2. \A i \in DOMAIN Left' : Tells(Left'[i], d) => Left'[i].rate = r
    BY <1>1 DEF Agrees
<1>3. ASSUME \A i \in DOMAIN Left' : ~Tells(Left'[i], d) PROVE Told(d)' = r
    <2>1. CASE Tells(Head(Left), d)
        BY <1>1, <2>1 DEF Agrees
    <2>2. CASE ~Tells(Head(Left), d)
        <3>1. \A i \in DOMAIN Left : ~Tells(Left[i], d)
            BY <1>1, <1>3, <2>2
        <3> QED
            BY <2>2, <3>1 DEF Agrees
    <2> QED
        BY <2>1, <2>2
<1> QED
    BY <1>2, <1>3 DEF Agrees

\* Nor does it matter to a stream which one.
LEMMA StreamCallDone ==
    ASSUME IInv, Left # <<>>, CallDone(Viewer), StreamStays, UNCHANGED config,
           \A d \in Tasks : Told(d)' = IF Tells(Head(Left), d) THEN Head(Left).rate ELSE Told(d)
    PROVE  StreamInv'
<1> SUFFICES ASSUME viewStarted' PROVE StreamInv'
    BY DEF StreamInv
<1>1. /\ viewStarted /\ primary' = primary /\ primary \in Cameras
      /\ camStarted'[primary] /\ conn'[primary] # "down"
    BY DEF StreamStays, IInv, StreamInv
<1>3. Agrees("play", config[primary].fps)'
    <2>1. PICK r : r = config[primary].fps
        OBVIOUS
    <2>2. Agrees("play", r)
        BY <1>1, <2>1 DEF IInv, StreamInv
    <2>3. Agrees("play", r)'
        BY <2>2, AgreesAfterCall, ConstantFacts
    <2>4. config'[primary'].fps = r
        BY <1>1, <2>1
    <2> QED
        BY <2>3, <2>4 DEF Agrees
<1> QED
    BY <1>1, <1>3 DEF StreamInv

LEMMA ViewerCallDone ==
    ASSUME IInv, Left # <<>>, CallDone(Viewer),
           UNCHANGED <<config, zeroAsked, conn, camStarted, viewStarted, primary, rate, down>>,
           buffer' \in [rate : Rates, there : BOOLEAN],
           buffer'.rate = IF Head(Left).call = "init" THEN Head(Left).rate ELSE buffer.rate,
           settingsQueue' = IF Head(Left).call = "settings"
                            THEN [settingsQueue EXCEPT ![Head(Left).to] = Head(Left).rate] ELSE settingsQueue
    PROVE  IInv'
<1> DEFINE m == Head(Left)
<1>1. /\ todo' \in [Actors -> Seq(Calls)] /\ Left \in Seq(Calls)
      /\ 1 \in DOMAIN Left /\ m = Left[1] /\ m \in Calls
      /\ \A i \in DOMAIN Left' : i \in Nat /\ i >= 1 /\ i + 1 \in DOMAIN Left /\ Left'[i] = Left[i + 1]
      /\ \A i \in DOMAIN Left : i # 1 => i - 1 \in DOMAIN Left' /\ Left'[i - 1] = Left[i]
      /\ Ordered(Left) /\ Ordered(Left')
    BY LeftTail
<1> HIDE DEF m
<1>2. m.call = "settings" => m.to \in Tasks /\ m.rate \in Rates
    BY <1>1 DEF Calls
<1>3. Types'
    BY <1>1, <1>2 DEF m, IInv, Types
<1>4. \A d \in Tasks : Told(d)' = IF Tells(m, d) THEN m.rate ELSE Told(d)
    BY <1>2, ConstantFacts DEF m, IInv, Types, Told, Tells
<1>5. BufferInv'
    <2>1. CASE m.call = "init"
        <3>1. PICK j \in DOMAIN Left : Tells(Left[j], "push")
            BY <1>1, <2>1 DEF Ordered, NoInit
        <3>2. j - 1 \in DOMAIN Left' /\ Left'[j - 1] = Left[j]
            BY <1>1, <2>1, <3>1 DEF Tells
        <3>3. \A i \in DOMAIN Left' : Tells(Left'[i], "push") => Left'[i].rate = m.rate
            BY <1>1, <2>1 DEF Ordered
        <3> QED
            BY <1>1, <2>1, <3>1, <3>2, <3>3 DEF m, BufferInv, Agrees
    <2>2. CASE m.call # "init"
        <3> SUFFICES ASSUME NoInit(Left') PROVE Agrees("push", buffer.rate)'
            BY <1>1 DEF BufferInv
        <3>1. NoInit(Left)
            BY <1>1, <2>2 DEF NoInit
        <3>2. PICK r : r = buffer.rate
            OBVIOUS
        <3>3. Agrees("push", r)
            BY <3>1, <3>2 DEF IInv, BufferInv
        <3>4. Agrees("push", r)'
            BY <1>4, <3>3, AgreesAfterCall, ConstantFacts DEF m
        <3>5. buffer'.rate = r
            BY <2>2, <3>2 DEF m
        <3> QED
            BY <3>4, <3>5 DEF Agrees
    <2> QED
        BY <2>1, <2>2
<1>6. StreamInv'
    BY <1>4, StreamCallDone DEF m, StreamStays
<1>7. ZeroInv'
    <2>1. \A d \in Tasks : settingsQueue'[d] = 0 => zeroAsked
        BY <1>1, <1>2 DEF m, IInv, Types, ZeroInv
    <2> QED
        BY <1>1, <2>1 DEF IInv, ZeroInv, ZeroRateWasAsked
<1> QED
    BY <1>3, <1>5, <1>6, <1>7 DEF IInv
LEMMA SettingsStep == ASSUME IInv, SetFrameParams PROVE IInv'
<1>1. /\ Left # <<>> /\ Head(Left).call = "settings" /\ CallDone(Viewer)
      /\ settingsQueue' = [settingsQueue EXCEPT ![Head(Left).to] = Head(Left).rate]
      /\ UNCHANGED <<config, zeroAsked, conn, camStarted, viewStarted, primary, rate, down, buffer>>
    BY DEF SetFrameParams, Calling, Left, sessionVars, cameraVars, taskVars, histories
<1>2. buffer' \in [rate : Rates, there : BOOLEAN]
    BY <1>1 DEF IInv, Types
<1> QED
    BY <1>1, <1>2, ViewerCallDone

LEMMA InitStep == ASSUME IInv, InitBuffer PROVE IInv'
<1> DEFINE r == Head(Left).rate
<1>1. /\ Left # <<>> /\ Head(Left).call = "init"
      /\ UNCHANGED <<config, zeroAsked, conn, camStarted, viewStarted, primary, rate, settingsQueue>>
    BY DEF InitBuffer, Calling, Left, sessionVars, cameraVars, taskVars, queueVars, histories
<1>2. Left \in Seq(Calls)
    BY ConstantFacts DEF IInv, Types, Left
<1>3. 1 \in DOMAIN Left /\ Head(Left) = Left[1] /\ Head(Left) \in Calls
    BY <1>1, <1>2, Shortened
<1>4. r \in Rates
    BY <1>1, <1>3 DEF Calls
<1>5. CASE r = 0
    <2>1. down' = "division" /\ UNCHANGED <<buffer, todo>>
        BY <1>5 DEF InitBuffer, Left
    <2>2. zeroAsked
        BY <1>1, <1>3, <1>5 DEF IInv, ZeroInv
    <2>3. Types' /\ BufferInv' /\ StreamInv'
        BY <1>1, <2>1 DEF IInv, Types, BufferInv, StreamInv, Agrees, Told, Left
    <2>4. ZeroInv'
        BY <1>1, <2>2 DEF ZeroInv, ZeroRateWasAsked
    <2> QED
        BY <2>3, <2>4 DEF IInv
<1>6. CASE r # 0
    <2>1. buffer' = [rate |-> r, there |-> TRUE] /\ CallDone(Viewer) /\ UNCHANGED down
        BY <1>6 DEF InitBuffer, Left
    <2>2. buffer' \in [rate : Rates, there : BOOLEAN] /\ buffer'.rate = r
        BY <1>4, <2>1
    <2> QED
        BY <1>1, <2>1, <2>2, ViewerCallDone
<1> QED
    BY <1>5, <1>6

LEMMA StartStep == ASSUME IInv, StartStream PROVE IInv'
<1> DEFINE c == primary
           r == config[c].fps
           calls == StartCalls(c, r)
<1>1. /\ c \in Cameras /\ r \in Rates /\ r = config[c].fps
      /\ todo \in [Actors -> Seq(Calls)] /\ Viewer \in Actors
    BY ConstantFacts DEF IInv, Types, StartStream, Watching
<1>2. /\ todo' = [todo EXCEPT ![Viewer] = calls]
      /\ camStarted' = [camStarted EXCEPT ![c] = TRUE] /\ viewStarted' = TRUE
      /\ conn[c] # "down"
      /\ UNCHANGED <<config, conn, buffer, settingsQueue, rate, zeroAsked, primary, down>>
    BY DEF StartStream, Watching, Live, Request, Then, cameraVars, taskVars, queueVars
<1> HIDE DEF r, c
<1>3. /\ calls \in Seq(Calls) /\ Ordered(calls)
      /\ \A d \in Tasks : \E i \in DOMAIN calls : Tells(calls[i], d)
      /\ \A i \in DOMAIN calls : calls[i].call \in {"init", "settings"} => calls[i].rate = r
      /\ NoInit(calls) => ~BufferDiffers(c)
    BY <1>1, StartCallsFacts
<1> HIDE DEF calls
<1>4. Left' = calls
    BY <1>1, <1>2 DEF Left
<1>5. Types'
    BY <1>1, <1>2, <1>3 DEF IInv, Types
<1>6. NoInit(calls) => r = buffer.rate
    BY <1>1, <1>3 DEF BufferDiffers
<1>a. \A d \in Tasks : (\E i \in DOMAIN calls : Tells(calls[i], d)) /\ \A i \in DOMAIN calls : Tells(calls[i], d) => calls[i].rate = r
    BY <1>3 DEF Tells
<1>7. BufferInv'
    <2>1. NoInit(calls) => Agrees("push", buffer.rate)'
        BY <1>2, <1>4, <1>6, <1>a, ConstantFacts DEF Agrees
    <2> QED
        BY <1>3, <1>4, <2>1 DEF BufferInv
<1>8. StreamInv'
    <2>1. config'[primary'].fps = r
        BY <1>1, <1>2 DEF c
    <2>2. Agrees("play", config[primary].fps)'
        BY <1>4, <1>a, <2>1, ConstantFacts DEF Agrees
    <2>3. primary' \in Cameras /\ camStarted'[primary'] /\ conn'[primary'] # "down"
        BY <1>1, <1>2 DEF c, IInv, Types
    <2> QED
        BY <2>2, <2>3 DEF StreamInv
<1>9. ZeroInv'
    BY <1>1, <1>2, <1>3, <1>4 DEF IInv, ZeroInv, ZeroRateWasAsked
<1> QED
    BY <1>5, <1>7, <1>8, <1>9 DEF IInv

\* The sending task hears of a new rate, the receiving one and the buffer do not.
LEMMA FrameStep == ASSUME IInv, NEW param, NEW value, <<param, value>> \in Settings, FrameSet(param, value) PROVE IInv'
<1> DEFINE c == primary
           new == [config[c] EXCEPT ![param] = value % RateSpan]
           r == config'[c].fps
           calls == FrameCalls(c, r)
<1>t. /\ config \in [Cameras -> [fps : Rates, before : Rates]]
      /\ todo \in [Actors -> Seq(Calls)] /\ Viewer \in Actors
    BY ConstantFacts DEF IInv, Types
<1>1. c \in Cameras /\ Left = <<>>
    BY ConstantFacts DEF IInv, Types, FrameSet, Watching, Request, Left
<1>2. param \in {"fps", "before"} /\ value % RateSpan \in Rates
    BY RatesAssumption, Remainder
<1>3. /\ new \in [fps : Rates, before : Rates]
      /\ \/ new.fps = config[c].fps
         \/ param = "fps" /\ new.fps = value % RateSpan
    <2>1. config[c] \in [fps : Rates, before : Rates]
        BY <1>t, <1>1
    <2>2. CASE param = "fps"
        <3>1. new = [config[c] EXCEPT !.fps = value % RateSpan]
            BY <2>2
        <3> HIDE DEF new
        <3> QED
            BY <1>2, <2>1, <2>2, <3>1
    <2>3. CASE param = "before"
        <3>1. new = [config[c] EXCEPT !.before = value % RateSpan]
            BY <2>3
        <3> HIDE DEF new
        <3> QED
            BY <1>2, <2>1, <3>1
    <2> HIDE DEF new
    <2> QED
        BY <1>2, <2>2, <2>3
<1>4. /\ config' = [config EXCEPT ![c] = new] /\ todo' = [todo EXCEPT ![Viewer] = calls]
      /\ zeroAsked' = (zeroAsked \/ (param = "fps" /\ value % RateSpan = 0))
      /\ UNCHANGED <<conn, camStarted, viewStarted, primary, buffer, settingsQueue, rate, down>>
    BY DEF FrameSet, FrameConfig, Watching, Request, Then, cameraVars, taskVars, queueVars
<1> HIDE DEF new
<1>5. r = new.fps /\ r \in Rates /\ (r = 0 => zeroAsked' \/ r = config[c].fps)
    BY <1>t, <1>1, <1>3, <1>4
<1> HIDE DEF r, c
<1>6. /\ calls \in Seq(Calls) /\ Ordered(calls) /\ NoInit(calls)
      /\ \A i \in DOMAIN calls : ~Tells(calls[i], "push")
      /\ \E i \in DOMAIN calls : Tells(calls[i], "play")
      /\ \A i \in DOMAIN calls : calls[i].call = "settings" => calls[i].rate = r
    BY <1>1, <1>5, FrameCallsFacts
<1> HIDE DEF calls
<1>7. Left' = calls
    BY <1>t, <1>4 DEF Left
<1>8. Types'
    BY <1>t, <1>1, <1>3, <1>4, <1>6 DEF IInv, Types
<1>9. BufferInv'
    <2>1. NoInit(Left) /\ \A i \in DOMAIN Left : ~Tells(Left[i], "push")
        BY <1>1, EmptySeq DEF NoInit
    <2>2. Told("push") = buffer.rate
        BY <2>1 DEF IInv, BufferInv, Agrees
    <2> QED
        BY <1>4, <1>6, <1>7, <2>2 DEF BufferInv, Agrees, Told
<1>10. StreamInv'
    <2> SUFFICES ASSUME viewStarted' PROVE StreamInv'
        BY DEF StreamInv
    <2>1. primary' \in Cameras /\ camStarted'[primary'] /\ conn'[primary'] # "down"
        BY <1>4 DEF IInv, StreamInv
    <2>2. config'[primary'].fps = r
        BY <1>4 DEF r, c
    <2>3. Agrees("play", config[primary].fps)'
        BY <1>6, <1>7, <2>2 DEF Agrees, Tells
    <2> QED
        BY <2>1, <2>3 DEF StreamInv
<1>11. ZeroInv'
    <2>1. r = 0 => zeroAsked'
        BY <1>1, <1>4, <1>5 DEF IInv, ZeroInv
    <2>2. \A b \in Cameras : config'[b].fps = 0 => zeroAsked'
        BY <1>t, <1>1, <1>3, <1>4, <1>5, <2>1 DEF IInv, ZeroInv
    <2>3. \A i \in DOMAIN Left' : Left'[i].call \in {"init", "settings"} /\ Left'[i].rate = 0 => zeroAsked'
        BY <1>6, <1>7, <2>1 DEF NoInit
    <2> QED
        BY <1>4, <2>2, <2>3 DEF IInv, ZeroInv, ZeroRateWasAsked
<1> QED
    BY <1>8, <1>9, <1>10, <1>11 DEF IInv

\* The settings are read, also those a data task refuses.
LEMMA SettingStep == ASSUME IInv, NEW d \in Tasks, Setting(d) \/ SettingFails(d) PROVE IInv'
<1>1. /\ rate' = (IF settingsQueue[d] = NoSettings THEN rate ELSE [rate EXCEPT ![d] = settingsQueue[d]])
      /\ settingsQueue' = [settingsQueue EXCEPT ![d] = NoSettings]
      /\ UNCHANGED <<config, buffer, todo, zeroAsked, conn, camStarted, viewStarted, primary, down>>
    BY ConstantFacts DEF Setting, SettingFails, sessionVars, cameraVars, histories
<1>2. Types'
    BY <1>1 DEF IInv, Types
<1>3. \A e \in Tasks : /\ Told(e)' = Told(e)
                       /\ rate'[e] \in {rate[e], settingsQueue[e]}
                       /\ settingsQueue'[e] \in {settingsQueue[e], NoSettings}
    BY <1>1, ConstantFacts DEF IInv, Types, Told
<1> QED
    BY <1>1, <1>2, <1>3, OtherSteps DEF StreamStays, Left

LEMMA StopStep ==
    ASSUME IInv, primary \in Cameras, StopStream, NoInit(Left), \A i \in DOMAIN Left : ~Tells(Left[i], "push"),
           UNCHANGED <<conn, buffer, settingsQueue, rate, down>>
    PROVE  IInv'
<1>1. /\ todo' = [todo EXCEPT ![Viewer] = StopCalls(primary)] /\ viewStarted' = FALSE
      /\ camStarted' = [camStarted EXCEPT ![primary] = FALSE]
      /\ UNCHANGED <<primary, config, zeroAsked>>
    BY DEF StopStream, Then
<1>2. Quiet(StopCalls(primary))
    BY QuietCalls
<1> DEFINE calls == StopCalls(primary)
<1> HIDE DEF calls
<1>3. Left' = calls /\ Types'
    <2>1. calls \in Seq(Calls)
        BY <1>2 DEF calls, Quiet
    <2>2. todo' = [todo EXCEPT ![Viewer] = calls]
        BY <1>1 DEF calls
    <2>3. Left' = calls /\ todo' \in [Actors -> Seq(Calls)]
        BY <2>1, <2>2, ConstantFacts DEF IInv, Types, Left
    <2>4. Types'
        BY <1>1, <2>3 DEF IInv, Types
    <2> QED
        BY <2>3, <2>4
<1>4. Quiet(calls)
    BY <1>2 DEF calls
<1> QED
    BY <1>1, <1>3, <1>4, Replaced

\* A handler fails, or a call of a connection of a camera is made.
LEMMA CallEnds ==
    ASSUME IInv, NEW a \in Actors, todo[a] # <<>>,
           CallFails(a) \/ (CallDone(a) /\ UNCHANGED zeroAsked),
           a = Viewer => Head(Left).call \in {"data", "send"},
           CallFails(a) \/ UNCHANGED viewStarted,
           UNCHANGED <<config, conn, camStarted, buffer, settingsQueue, rate, primary, down>>
    PROVE  IInv'
<1>t. todo \in [Actors -> Seq(Calls)] /\ Viewer \in Actors /\ Left \in Seq(Calls)
    BY ConstantFacts DEF IInv, Types, Left
<1>1. /\ zeroAsked' = zeroAsked /\ StreamStays /\ viewStarted' \in BOOLEAN
      /\ a # Viewer => viewStarted' = viewStarted
    <2>1. zeroAsked' = zeroAsked
        BY DEF CallFails
    <2>2. (a = Viewer /\ viewStarted' = FALSE) \/ viewStarted' = viewStarted
        BY DEF CallFails
    <2>3. viewStarted \in BOOLEAN
        BY DEF IInv, Types
    <2>4. viewStarted' \in BOOLEAN /\ (a # Viewer => viewStarted' = viewStarted)
        BY <2>2, <2>3
    <2>5. StreamStays
        <3>1. viewStarted' => viewStarted
            BY <2>2
        <3> QED
            BY <3>1 DEF StreamStays
    <2> QED
        BY <2>1, <2>4, <2>5
<1>2. CASE a # Viewer
    <2>1. Tail(todo[a]) \in Seq(Calls) /\ <<>> \in Seq(Calls)
        BY <1>t, Shortened, EmptySeq
    <2>2. todo' \in [Actors -> Seq(Calls)] /\ Left' = Left
        BY <1>t, <1>2, <2>1 DEF CallFails, CallDone, Then, Left
    <2>3. Types'
        BY <1>1, <2>2 DEF IInv, Types
    <2> QED
        BY <1>1, <2>2, <2>3, OtherSteps DEF Told
<1>3. CASE a = Viewer /\ CallFails(a)
    <2>1. Quiet(<<>>)
        BY QuietCalls
    <2>2. todo' = [todo EXCEPT ![Viewer] = <<>>] /\ ~viewStarted'
        BY <1>3 DEF CallFails, Then
    <2>3. Left' = <<>> /\ Types'
        BY <1>t, <1>1, <2>1, <2>2 DEF Quiet, IInv, Types, Left
    <2>4. NoInit(Left) /\ \A i \in DOMAIN Left : ~Tells(Left[i], "push")
        BY <1>t, <1>3, HeadFacts DEF IInv, BufferInv, Left
    <2> QED
        BY <1>1, <2>1, <2>2, <2>3, <2>4, Replaced
<1>4. CASE a = Viewer /\ CallDone(a) /\ UNCHANGED viewStarted
    <2>1. Left # <<>> /\ Head(Left).call \notin {"init", "settings"}
        BY <1>4 DEF Left
    <2>2. buffer' \in [rate : Rates, there : BOOLEAN]
        BY DEF IInv, Types
    <2> QED
        BY <1>1, <1>4, <2>1, <2>2, ViewerCallDone
<1> QED
    BY <1>2, <1>3, <1>4

LEMMA CallSteps == ASSUME IInv, NEW a \in Actors, NextCall(a) PROVE IInv'
<1> USE DEF sessionVars, cameraVars, taskVars, queueVars, histories, Calling
<1>1. CASE InsertCommand(a)
    <2>1. /\ UNCHANGED <<config, conn, camStarted, buffer, settingsQueue, rate, primary, down>>
          /\ CallFails(a) \/ UNCHANGED viewStarted
        BY <1>1 DEF InsertCommand
    <2>2. todo[a] # <<>> /\ (a = Viewer => Head(Left).call \in {"data", "send"})
        BY <1>1 DEF InsertCommand, Left
    <2>3. CallFails(a) \/ (CallDone(a) /\ UNCHANGED zeroAsked)
        BY <1>1 DEF InsertCommand
    <2> QED
        BY <2>1, <2>2, <2>3, CallEnds
<1>2. CASE a = Viewer /\ Deinit
    <2>1. /\ Left # <<>> /\ Head(Left).call = "deinit" /\ CallDone(Viewer)
          /\ buffer' = [buffer EXCEPT !.there = FALSE]
          /\ UNCHANGED <<config, zeroAsked, conn, camStarted, viewStarted, primary, rate, settingsQueue, down>>
        BY <1>2 DEF Deinit, Left
    <2>2. buffer' \in [rate : Rates, there : BOOLEAN] /\ buffer'.rate = buffer.rate
        BY <2>1 DEF IInv, Types
    <2> QED
        BY <2>1, <2>2, ViewerCallDone
<1>3. CASE a = Viewer /\ InitBuffer
    BY <1>3, InitStep
<1>4. CASE a = Viewer /\ SetFrameParams
    BY <1>4, SettingsStep
<1>5. CASE a = Viewer /\ InsertAction
    <2>1. /\ UNCHANGED <<config, conn, camStarted, buffer, settingsQueue, rate, primary, down>>
          /\ CallFails(a) \/ UNCHANGED viewStarted
        BY <1>5 DEF InsertAction
    <2>2. todo[a] # <<>> /\ (a = Viewer => Head(Left).call \in {"data", "send"})
        BY <1>5 DEF InsertAction, Left
    <2>3. CallFails(a) \/ (CallDone(a) /\ UNCHANGED zeroAsked)
        BY <1>5 DEF InsertAction
    <2> QED
        BY <2>1, <2>2, <2>3, CallEnds
<1>6. CASE a # Viewer /\ Notify(a)
    <2>1. /\ UNCHANGED <<config, conn, camStarted, buffer, settingsQueue, rate, primary, down>>
          /\ CallFails(a) \/ UNCHANGED viewStarted
        BY <1>6 DEF Notify
    <2>2. CallFails(a) \/ (CallDone(a) /\ UNCHANGED zeroAsked)
        BY <1>6 DEF Notify
    <2> QED
        BY <1>6, <2>1, <2>2, CallEnds DEF Notify
<1> QED
    BY <1>1, <1>2, <1>3, <1>4, <1>5, <1>6 DEF NextCall

LEMMA RequestSteps == ASSUME IInv, ViewerRequests PROVE IInv'
<1>1. ASSUME NEW c \in Cameras, SourceSet(c) PROVE IInv'
    <2>1. /\ UNCHANGED <<config, conn, camStarted, viewStarted, todo, buffer, settingsQueue, rate, zeroAsked, down>>
          /\ primary' = c /\ MaySwitch
        BY <1>1 DEF SourceSet, Request, cameraVars, taskVars, queueVars, histories
    <2>2. ~viewStarted
        BY <2>1, ConstantFacts DEF MaySwitch, IInv, StreamInv
    <2>3. Types' /\ StreamStays
        BY <2>1, <2>2 DEF IInv, Types, StreamStays
    <2> QED
        BY <2>1, <2>3, OtherSteps DEF Told, Left
<1>2. ASSUME NEW s \in Settings, FrameSet(s[1], s[2]) PROVE IInv'
    <2>1. <<s[1], s[2]>> \in Settings
        BY RatesAssumption
    <2> QED
        BY <1>2, <2>1, FrameStep
<1>3. CASE StartStream
    BY <1>3, StartStep
<1>4. CASE StopStream
    <2>1. /\ primary \in Cameras /\ Left = <<>>
          /\ UNCHANGED <<conn, buffer, settingsQueue, rate, down>>
        BY <1>4 DEF IInv, Types, StopStream, Watching, Request, Left, cameraVars, taskVars, queueVars
    <2>2. NoInit(Left) /\ \A i \in DOMAIN Left : ~Tells(Left[i], "push")
        BY <2>1, EmptySeq DEF NoInit
    <2> QED
        BY <1>4, <2>1, <2>2, StopStep
<1> QED
    BY <1>1, <1>2, <1>3, <1>4 DEF ViewerRequests

LEMMA CameraSteps ==
    ASSUME IInv, NEW c \in Cameras, Camera(c) \/ CameraLoses(c) \/ CameraConnects(c)
    PROVE  IInv'
<1>t. todo \in [Actors -> Seq(Calls)] /\ c \in Actors /\ c # Viewer
    BY ConstantFacts DEF IInv, Types
<1> USE DEF sessionVars, taskVars, queueVars, histories
<1>1. CASE CameraReads(c) \/ CameraLoses(c)
    <2>1. /\ UNCHANGED <<sessionVars, todo, buffer, settingsQueue, rate, zeroAsked, down>>
          /\ conn' = conn \/ conn' = [conn EXCEPT ![c] = "lost"]
        BY <1>1 DEF CameraReads, CameraLoses
    <2>2. Types' /\ StreamStays
        BY <2>1 DEF IInv, Types, StreamInv, StreamStays
    <2> QED
        BY <2>1, <2>2, OtherSteps DEF Told, Left
<1>2. CASE ConnectionStopIdle(c)
    <2>1. /\ UNCHANGED <<camStarted, viewStarted, config, todo, buffer, settingsQueue, rate, zeroAsked, down>>
          /\ conn' = [conn EXCEPT ![c] = "down"]
          /\ primary' = IF primary = c THEN NoCamera ELSE primary
          /\ ~(primary = c /\ camStarted[c])
        BY <1>2 DEF ConnectionStopIdle, Deactivate, Streams
    <2>2. Types' /\ StreamStays
        BY <2>1 DEF IInv, Types, StreamInv, StreamStays
    <2> QED
        BY <2>1, <2>2, OtherSteps DEF Told, Left
<1>3. CASE ConnectionStop(c)
    <2> DEFINE calls == <<[call |-> "notify"], Data("push", "STOP"), Data("play", "STOP")>>
    <2>1. calls \in Seq(Calls)
        <3>1. [call |-> "notify"] \in Calls /\ Data("push", "STOP") \in Calls /\ Data("play", "STOP") \in Calls
            BY ConstantFacts DEF Data, Calls, Commands
        <3> QED
            BY <3>1
    <2>2. todo' = [todo EXCEPT ![c] = calls]
        BY <1>3 DEF ConnectionStop, Then
    <2> HIDE DEF calls
    <2>3. /\ viewStarted' = FALSE /\ camStarted' = [camStarted EXCEPT ![c] = FALSE]
          /\ conn' = [conn EXCEPT ![c] = "down"]
          /\ primary' = IF primary = c THEN NoCamera ELSE primary
          /\ UNCHANGED <<config, buffer, settingsQueue, rate, zeroAsked, down>>
        BY <1>3 DEF ConnectionStop, Deactivate
    <2>4. Types' /\ Left' = Left /\ StreamStays
        <3>1. todo' \in [Actors -> Seq(Calls)] /\ Left' = Left
            BY <1>t, <2>1, <2>2 DEF Left
        <3>2. Types'
            BY <2>3, <3>1 DEF IInv, Types
        <3> QED
            BY <2>3, <3>1, <3>2 DEF StreamStays
    <2> QED
        BY <2>3, <2>4, OtherSteps DEF Told
<1>4. CASE CameraConnects(c)
    <2>1. DefaultConfig \in [fps : Rates, before : Rates] /\ DefaultConfig.fps # 0
        BY ConstantFacts DEF DefaultConfig
    <2>2. /\ config' = [config EXCEPT ![c] = DefaultConfig] /\ conn[c] = "down"
          /\ conn' = [conn EXCEPT ![c] = "up"] /\ camStarted' = [camStarted EXCEPT ![c] = FALSE]
          /\ UNCHANGED <<viewStarted, primary, todo, buffer, settingsQueue, rate, zeroAsked, down>>
        BY <1>4 DEF CameraConnects, Active, Live
    <2>3. Types'
        BY <2>1, <2>2 DEF IInv, Types
    <2>4. BufferInv'
        BY <2>2 DEF IInv, BufferInv, Agrees, Told, Left
    <2>5. StreamInv'
        <3>1. viewStarted => config'[primary] = config[primary] /\ camStarted'[primary] = camStarted[primary] /\ conn'[primary] = conn[primary]
            BY <2>2 DEF IInv, Types, StreamInv
        <3> QED
            BY <2>2, <3>1 DEF IInv, StreamInv, Agrees, Told, Left
    <2>6. ZeroInv'
        BY <2>1, <2>2 DEF IInv, Types, ZeroInv, ZeroRateWasAsked, Left
    <2> QED
        BY <2>3, <2>4, <2>5, <2>6 DEF IInv
<1> QED
    BY <1>1, <1>2, <1>3, <1>4 DEF Camera

LEMMA NextIInv == IInv /\ [Next]_vars => IInv'
<1> SUFFICES ASSUME IInv, [Next]_vars PROVE IInv'
    OBVIOUS
<1> USE DEF sessionVars, cameraVars, taskVars, queueVars, histories
<1>1. CASE UNCHANGED vars
    <2>1. Types' /\ StreamStays
        BY <1>1 DEF vars, IInv, Types, StreamStays
    <2> QED
        BY <1>1, <2>1, OtherSteps DEF vars, Told, Left
<1>2. ASSUME NEW d \in Tasks, DataTask(d) \/ RunFails(d) \/ Faults(d) PROVE IInv'
    <2>1. CASE Setting(d) \/ SettingFails(d)
        BY <2>1, SettingStep
    <2>2. CASE ReadCommand(d) \/ NoCommand(d) \/ RoundDone(d) \/ RunFails(d) \/ Faults(d)
        <3>1. /\ UNCHANGED <<sessionVars, conn, todo, buffer, settingsQueue, rate, zeroAsked>>
              /\ down' = down \/ down' = "fault"
            BY <2>2 DEF ReadCommand, NoCommand, RoundDone, RunFails, Faults
        <3>2. Types' /\ StreamStays
            BY <3>1 DEF IInv, Types, StreamStays
        <3> QED
            BY <3>1, <3>2, OtherSteps DEF Told, Left
    <2> QED
        BY <1>2, <2>1, <2>2 DEF DataTask
<1>3. CASE Next
    BY <1>2, <1>3, RequestSteps, CallSteps, CameraSteps DEF Next
<1> QED
    BY <1>1, <1>3

LEMMA Invariant == Spec => []IInv
BY InitIInv, NextIInv, PTL DEF Spec
-----------------------------------------------------------------------------
(* Whom a START and a STOP reach: for OldCameraIsStopped and               *)
(* OnlyStoppingTasksAreCaught.                                             *)

CommandTypes ==
    /\ camOn \in [Cameras -> BOOLEAN]
    /\ link \in [Cameras -> Seq(Messages)]
    /\ startStopQueue \in [Tasks -> Seq(Commands)]
    /\ started \in [Tasks -> BOOLEAN] /\ caught \in [Tasks -> BOOLEAN]
    /\ at \in [Tasks -> {"check", "setting", "loop"}]

Ends(queue, cmd) == queue # <<>> /\ queue[Len(queue)] = cmd

\* Whether a camera sends frames once it has read the messages of a queue.
On(queue, on) ==
    \/ \E i \in DOMAIN queue :
        queue[i] = "START" /\ \A j \in DOMAIN queue : i < j => queue[j] # "STOP"
    \/ on /\ "STOP" \notin Range(queue)

\* What a camera, or a data task, does once it has read what is on its way.
CameraOn(c) == On(link[c], camOn[c])
TaskOff(d) == IF startStopQueue[d] = <<>> THEN ~started[d] ELSE Ends(startStopQueue[d], "STOP")

OldCameraInv ==
    /\ \A c \in Cameras : conn[c] # "up" => ~camOn[c]
    /\ ~missed => \A c \in Cameras :
        /\ Send(c, "START") \in Range(Left) => Streams(c) /\ conn[c] # "down"
        /\ conn[c] = "up" /\ CameraOn(c) /\ Send(c, "STOP") \notin Range(Left) => Streams(c)

\* A buffer is made for tasks that are started after that, once, and what is freed is
\* made anew.
StartsAfter(calls) ==
    /\ \A i \in DOMAIN calls : calls[i].call = "deinit" =>
        \E j \in DOMAIN calls : i < j /\ calls[j].call = "init"
    /\ \A i \in DOMAIN calls : calls[i].call \in {"deinit", "init"} =>
        \A d \in Tasks : Data(d, "START") \in Range(calls)
    /\ \A d \in Tasks : \A i, j \in DOMAIN calls :
        calls[i] = Data(d, "START") /\ calls[j] = Data(d, "START") => i = j

\* A camera streams, whether or not there still is the play client it was started for.
StreamOn == primary \in Cameras /\ camStarted[primary]

\* Only the camera that is the source streams, and the server has not given it up.
PrimaryInv == \A c \in Cameras : camStarted[c] => primary = c /\ conn[c] # "down"

\* The sessions, what is left to be called and the queue of commands tell together
\* whether a data task will run: where the buffer is replaced, it will not.
CaughtInv ==
    /\ \A d \in Tasks : (at[d] # "check" => started[d]) /\ (caught[d] => at[d] = "loop")
    /\ ~buffer.there => ~NoInit(Left)
    /\ \A c \in Cameras : \A d \in Tasks : Data(d, "START") \notin Range(todo[c])
    /\ StartsAfter(Left)
    /\ ~missed => \A d \in Tasks :
        /\ Data(d, "START") \in Range(Left) => TaskOff(d) /\ StreamOn
        /\ ~StreamOn /\ (\A a \in Actors : Data(d, "STOP") \notin Range(todo[a])) => TaskOff(d)
        /\ caught[d] => "STOP" \in Range(startStopQueue[d])

LEMMA Ranges ==
    ASSUME NEW S, NEW s \in Seq(S), NEW e \in S
    PROVE  /\ Range(Append(s, e)) = Range(s) \cup {e} /\ Ends(Append(s, e), e)
           /\ Append(s, e) \in Seq(S) /\ Append(s, e) # <<>>
           /\ Range(<<>>) = {}
           /\ \A x : Ends(s, x) => x \in Range(s)
           /\ s # <<>> => /\ Range(s) = Range(Tail(s)) \cup {Head(s)}
                          /\ Tail(s) = <<>> => Ends(s, Head(s))
                          /\ Tail(s) # <<>> => \A x : Ends(Tail(s), x) <=> Ends(s, x)
<1>1. /\ Append(s, e) \in Seq(S) /\ Len(Append(s, e)) = Len(s) + 1 /\ Append(s, e)[Len(s) + 1] = e
      /\ \A i \in 1 .. Len(s) : Append(s, e)[i] = s[i]
      /\ DOMAIN Append(s, e) = 1 .. Len(s) + 1 /\ DOMAIN s = 1 .. Len(s) /\ Len(s) \in Nat
    OBVIOUS
<1>2. Append(s, e) # <<>>
    BY <1>1
<1>3. Range(Append(s, e)) = Range(s) \cup {e}
    <2>1. ASSUME NEW x, x \in Range(s) \cup {e} PROVE x \in Range(Append(s, e))
        BY <1>1, <2>1 DEF Range
    <2>2. ASSUME NEW i \in DOMAIN Append(s, e) PROVE Append(s, e)[i] \in Range(s) \cup {e}
        <3>1. i = Len(s) + 1 \/ i \in 1 .. Len(s)
            BY <1>1
        <3> QED
            BY <1>1, <3>1 DEF Range
    <2> QED
        BY <2>1, <2>2 DEF Range
<1>4. Ends(Append(s, e), e)
    BY <1>1, <1>2 DEF Ends
<1>5. Range(<<>>) = {}
    BY EmptySeq DEF Range
<1>6. ASSUME NEW x, Ends(s, x) PROVE x \in Range(s)
    <2>1. Len(s) \in DOMAIN s
        BY <1>6 DEF Ends
    <2> QED
        BY <1>6, <2>1 DEF Ends, Range
<1>7. ASSUME s # <<>>
      PROVE  /\ Range(s) = Range(Tail(s)) \cup {Head(s)}
             /\ Tail(s) = <<>> => Ends(s, Head(s))
             /\ Tail(s) # <<>> => \A x : Ends(Tail(s), x) <=> Ends(s, x)
    <2>1. /\ 1 \in DOMAIN s /\ Head(s) = s[1]
          /\ \A i \in DOMAIN Tail(s) : i + 1 \in DOMAIN s /\ Tail(s)[i] = s[i + 1]
          /\ \A i \in DOMAIN s : i # 1 => i - 1 \in DOMAIN Tail(s) /\ Tail(s)[i - 1] = s[i]
        BY <1>7, Shortened
    <2>2. Range(s) = Range(Tail(s)) \cup {Head(s)}
        <3>1. \A i \in DOMAIN s : s[i] \in Range(Tail(s)) \cup {Head(s)}
            BY <2>1 DEF Range
        <3>2. \A i \in DOMAIN Tail(s) : Tail(s)[i] \in Range(s)
            BY <2>1 DEF Range
        <3>3. Head(s) \in Range(s)
            BY <2>1 DEF Range
        <3>4. Range(Tail(s)) \subseteq Range(s)
            BY <3>2 DEF Range
        <3>5. Range(s) \subseteq Range(Tail(s)) \cup {Head(s)}
            <4>1. \A x \in Range(s) : \E i \in DOMAIN s : x = s[i]
                BY DEF Range
            <4> QED
                BY <3>1, <4>1
        <3> QED
            BY <3>3, <3>4, <3>5
    <2>3. Len(s) > 0 /\ Tail(s) \in Seq(S) /\ Len(Tail(s)) = Len(s) - 1
        BY <1>7
    <2>4. Tail(s) = <<>> => Len(s) = 1
        BY <2>3
    <2>5. Tail(s) # <<>> => Len(Tail(s)) \in DOMAIN Tail(s) /\ Len(Tail(s)) + 1 = Len(s)
        BY <2>3
    <2> QED
        BY <1>7, <2>1, <2>2, <2>4, <2>5 DEF Ends
<1> QED
    BY <1>1, <1>2, <1>3, <1>4, <1>5, <1>6, <1>7

LEMMA OnNone == ASSUME NEW on \in BOOLEAN PROVE On(<<>>, on) <=> on
BY EmptySeq DEF On, Range

\* What another message makes of it: nothing but START and STOP matter.
LEMMA OnFacts ==
    ASSUME NEW q \in Seq(Messages), NEW on \in BOOLEAN
    PROVE  /\ On(Append(q, "START"), on) /\ ~On(Append(q, "STOP"), on)
           /\ On(Append(q, "PARAMS"), on) <=> On(q, on)
           /\ q # <<>> => (On(Tail(q), IF Head(q) \in Commands THEN Head(q) = "START" ELSE on) <=> On(q, on))
<1>1. ASSUME NEW m \in Messages
      PROVE  /\ Append(q, m) \in Seq(Messages) /\ Append(q, m)[Len(q) + 1] = m /\ Len(q) + 1 \in DOMAIN Append(q, m)
             /\ \A i \in DOMAIN q : i \in DOMAIN Append(q, m) /\ Append(q, m)[i] = q[i] /\ i < Len(q) + 1 /\ i \in Nat
             /\ \A i \in DOMAIN Append(q, m) : i = Len(q) + 1 \/ i \in DOMAIN q
             /\ Range(Append(q, m)) = Range(q) \cup {m}
    BY Ranges
<1>2. "START" \in Messages /\ "STOP" \in Messages /\ "PARAMS" \in Messages /\ Len(q) + 1 \in Nat
    BY DEF Messages, Commands
<1>3. On(Append(q, "START"), on)
    <2> DEFINE a == Append(q, "START")
    <2>1. a[Len(q) + 1] = "START" /\ Len(q) + 1 \in DOMAIN a /\ \A j \in DOMAIN a : j = Len(q) + 1 \/ j < Len(q) + 1
        BY <1>1, <1>2
    <2> HIDE DEF a
    <2>2. \A j \in DOMAIN a : ~(Len(q) + 1 < j)
        BY <1>2, <2>1
    <2>3. On(a, on)
        BY <2>1, <2>2 DEF On
    <2> QED
        BY <2>3 DEF a
<1>4. ~On(Append(q, "STOP"), on)
    <2> DEFINE a == Append(q, "STOP")
    <2>1. /\ a[Len(q) + 1] = "STOP" /\ Len(q) + 1 \in DOMAIN a /\ "STOP" \in Range(a)
          /\ \A j \in DOMAIN a : j = Len(q) + 1 \/ j < Len(q) + 1
        BY <1>1, <1>2
    <2> HIDE DEF a
    <2>2. ~On(a, on)
        BY <2>1 DEF On
    <2> QED
        BY <2>2 DEF a
<1>5. On(Append(q, "PARAMS"), on) <=> On(q, on)
    <2> DEFINE a == Append(q, "PARAMS")
               n == Len(q) + 1
    <2>1. /\ a[n] = "PARAMS" /\ Range(a) = Range(q) \cup {"PARAMS"}
          /\ \A i \in DOMAIN q : i \in DOMAIN a /\ a[i] = q[i]
          /\ \A i \in DOMAIN a : i = n \/ i \in DOMAIN q
        BY <1>1, <1>2
    <2> HIDE DEF a, n
    <2>2. On(a, on) => On(q, on)
        BY <2>1 DEF On
    <2>3. On(q, on) => On(a, on)
        BY <2>1 DEF On
    <2> QED
        BY <2>2, <2>3 DEF a
<1>6. ASSUME q # <<>>
      PROVE  On(Tail(q), IF Head(q) \in Commands THEN Head(q) = "START" ELSE on) <=> On(q, on)
    <2> DEFINE t == Tail(q)
    <2>1. /\ 1 \in DOMAIN q /\ Head(q) = q[1] /\ Head(q) \in Messages
          /\ \A i \in DOMAIN t : i \in Nat /\ i >= 1 /\ i + 1 \in DOMAIN q /\ t[i] = q[i + 1]
          /\ \A i \in DOMAIN q : i \in Nat /\ i >= 1 /\ (i # 1 => i - 1 \in DOMAIN t /\ t[i - 1] = q[i])
          /\ Range(q) = Range(t) \cup {Head(q)}
        BY <1>2, <1>6, Shortened, Ranges
    <2> HIDE DEF t
    <2> DEFINE In(s) == \E i \in DOMAIN s : s[i] = "START" /\ \A j \in DOMAIN s : i < j => s[j] # "STOP"
    <2>2. In(t) => In(q)
        <3> SUFFICES ASSUME NEW i \in DOMAIN t, t[i] = "START", \A j \in DOMAIN t : i < j => t[j] # "STOP" PROVE In(q)
            OBVIOUS
        <3>1. ASSUME NEW j \in DOMAIN q, i + 1 < j PROVE q[j] # "STOP"
            <4>1. j # 1 /\ i < j - 1
                BY <2>1, <3>1
            <4> QED
                BY <2>1, <4>1
        <3> QED
            BY <2>1, <3>1
    <2>3. ASSUME NEW i \in DOMAIN q, i # 1, q[i] = "START", \A j \in DOMAIN q : i < j => q[j] # "STOP" PROVE In(t)
        <3>1. ASSUME NEW j \in DOMAIN t, i - 1 < j PROVE t[j] # "STOP"
            <4>1. i < j + 1
                BY <2>1, <3>1
            <4> QED
                BY <2>1, <2>3, <4>1
        <3> QED
            BY <2>1, <2>3, <3>1
    <2>4. (q[1] = "START" /\ \A j \in DOMAIN q : 1 < j => q[j] # "STOP") <=> (q[1] = "START" /\ "STOP" \notin Range(t))
        <3>1. ASSUME \A j \in DOMAIN q : 1 < j => q[j] # "STOP" PROVE "STOP" \notin Range(t)
            <4>1. \A i \in DOMAIN t : 1 < i + 1 /\ t[i] # "STOP"
                BY <2>1, <3>1
            <4> QED
                BY <4>1 DEF Range
        <3>2. ASSUME "STOP" \notin Range(t), NEW j \in DOMAIN q, 1 < j PROVE q[j] # "STOP"
            <4>1. j - 1 \in DOMAIN t /\ t[j - 1] = q[j]
                BY <2>1, <3>2
            <4> QED
                BY <3>2, <4>1 DEF Range
        <3> QED
            BY <3>1, <3>2
    <2>5. In(q) <=> In(t) \/ (q[1] = "START" /\ "STOP" \notin Range(t))
        BY <2>1, <2>2, <2>3, <2>4
    <2> HIDE DEF In
    <2>6. \A s, o : On(s, o) <=> In(s) \/ (o /\ "STOP" \notin Range(s))
        BY DEF On, In
    <2>7. CASE Head(q) = "START"
        BY <2>1, <2>5, <2>6, <2>7 DEF t, Commands
    <2>8. CASE Head(q) = "STOP"
        BY <2>1, <2>5, <2>6, <2>8 DEF t, Commands
    <2>9. CASE Head(q) = "PARAMS"
        BY <2>1, <2>5, <2>6, <2>9 DEF t, Commands
    <2> QED
        BY <2>1, <2>7, <2>8, <2>9 DEF Messages, Commands
<1> QED
    BY <1>3, <1>4, <1>5, <1>6

\* A handler or callback that has no command to give.
LEMMA NotGiven ==
    ASSUME NEW a \in Actors, ~Commanding(a)
    PROVE  \A cmd \in Commands : \A x : Send(x, cmd) \notin Range(todo[a]) /\ Data(x, cmd) \notin Range(todo[a])
<1>1. \A cmd \in Commands : \A x : IsCommand(Send(x, cmd)) /\ IsCommand(Data(x, cmd))
    BY DEF IsCommand, Send, Data
<1>2. \A y \in Range(todo[a]) : ~IsCommand(y)
    BY DEF Commanding, Range
<1> QED
    BY <1>1, <1>2

LEMMA NothingLeft == /\ Range(<<>>) = {} /\ NoInit(<<>>) /\ StartsAfter(<<>>)
BY EmptySeq DEF Range, NoInit, StartsAfter

\* A handler or callback that fails and has commands to give is missed.
LEMMA CommandsFailed ==
    ASSUME IInv, NEW a \in Actors, CallFails(a)
    PROVE  /\ missed => missed'
           /\ ~missed' => \A b \in Actors : \A cmd \in Commands : \A x :
                /\ Send(x, cmd) \in Range(todo'[b]) <=> Send(x, cmd) \in Range(todo[b])
                /\ Data(x, cmd) \in Range(todo'[b]) <=> Data(x, cmd) \in Range(todo[b])
           /\ ~missed' => \A x \in Cameras :
                /\ Send(x, "START") \in Range(Left') => Send(x, "START") \in Range(Left)
                /\ Send(x, "STOP") \in Range(Left) => Send(x, "STOP") \in Range(Left')
<1>1. /\ missed' = (missed \/ Commanding(a))
      /\ todo' = [todo EXCEPT ![a] = <<>>]
    BY DEF CallFails, Then
<1>2. \A x, cmd : Send(x, cmd) \notin Range(todo'[a]) /\ Data(x, cmd) \notin Range(todo'[a])
    BY <1>1, NothingLeft DEF IInv, Types
<1>3. ASSUME ~missed', NEW b \in Actors, NEW cmd \in Commands, NEW x
      PROVE  /\ Send(x, cmd) \in Range(todo'[b]) <=> Send(x, cmd) \in Range(todo[b])
             /\ Data(x, cmd) \in Range(todo'[b]) <=> Data(x, cmd) \in Range(todo[b])
    <2>1. CASE b = a
        BY <1>1, <1>2, <1>3, <2>1, NotGiven
    <2>2. CASE b # a
        BY <1>1, <2>2 DEF IInv, Types
    <2> QED
        BY <2>1, <2>2
<1> QED
    BY <1>1, <1>3, ConstantFacts DEF Left, Commands

\* What FRAME_SET_PARAMS leaves holds no command, and no buffer is made.
LEMMA FrameLeft ==
    ASSUME IInv, NEW param, NEW value, <<param, value>> \in Settings, FrameSet(param, value)
    PROVE  /\ Left = <<>> /\ Left' \in Seq(Calls) /\ NoInit(Left') /\ StartsAfter(Left')
           /\ todo' = [todo EXCEPT ![Viewer] = Left']
           /\ \A i \in DOMAIN Left' : ~IsCommand(Left'[i])
           /\ \A cmd \in Commands : \A x : Send(x, cmd) \notin Range(Left') /\ Data(x, cmd) \notin Range(Left')
<1> DEFINE r == config'[primary].fps
           calls == FrameCalls(primary, r)
<1>1. primary \in Cameras /\ Left = <<>> /\ todo' = [todo EXCEPT ![Viewer] = calls] /\ primary' = primary
    BY ConstantFacts DEF IInv, Types, FrameSet, Watching, Request, Then, Left
<1>2. r \in Rates
    <2>1. IInv'
        BY FrameStep
    <2> QED
        BY <1>1, <2>1 DEF IInv, Types
<1> HIDE DEF r
<1>3. calls \in Seq(Calls) /\ Ordered(calls) /\ NoInit(calls) /\ \A i \in DOMAIN calls : ~IsCommand(calls[i])
    BY <1>1, <1>2, FrameCallsFacts
<1>d. \A i \in DOMAIN calls : calls[i].call # "deinit"
    <2>1. DOMAIN calls = 1 .. 2 /\ calls[1] = Send(primary, "PARAMS") /\ calls[2] = NewRate("play", r)
        BY DEF FrameCalls
    <2> HIDE DEF calls
    <2> QED
        BY <2>1 DEF Send, NewRate
<1> HIDE DEF calls
<1>4. Left' = calls
    BY <1>1, ConstantFacts DEF IInv, Types, Left
<1>5. \A cmd \in Commands : \A x : IsCommand(Send(x, cmd)) /\ IsCommand(Data(x, cmd))
    BY DEF IsCommand, Send, Data
<1>6. \A cmd \in Commands : \A x : Send(x, cmd) \notin Range(calls) /\ Data(x, cmd) \notin Range(calls)
    BY <1>3, <1>5 DEF Range
<1>7. StartsAfter(calls)
    BY <1>3, <1>5, <1>d DEF StartsAfter, NoInit, Commands
<1> QED
    BY <1>1, <1>3, <1>4, <1>6, <1>7

\* The calls of the handlers once more.
LEMMA HandlerCalls ==
    ASSUME NEW c \in Cameras, NEW r \in Rates
    PROVE  /\ StartsAfter(StartCalls(c, r)) /\ StartsAfter(StopCalls(c))
           /\ \A x \in Cameras : /\ Send(x, "START") \in Range(StartCalls(c, r)) => x = c
                                 /\ Send(x, "STOP") \notin Range(StartCalls(c, r))
                                 /\ Send(x, "START") \notin Range(StopCalls(c))
           /\ Send(c, "STOP") \in Range(StopCalls(c))
           /\ NoInit(StopCalls(c))
           /\ \A d \in Tasks : /\ Data(d, "STOP") \notin Range(StartCalls(c, r))
                               /\ Data(d, "STOP") \in Range(StopCalls(c))
                               /\ Data(d, "START") \notin Range(StopCalls(c))
           /\ Send(c, "START") \in Range(StartCalls(c, r))
           /\ \A d \in Tasks : Data(d, "START") \in Range(StartCalls(c, r))
<1> DEFINE a == [call |-> "deinit"]
           b == [call |-> "init", rate |-> r]
           t == <<NewRate("push", r), NewRate("play", r),
                  Data("push", "START"), Data("play", "START"), Send(c, "START")>>
           f == <<a, b>> \o t
           u == StopCalls(c)
<1>1. /\ NewRate("push", r) \in Calls /\ NewRate("play", r) \in Calls
      /\ Data("push", "START") \in Calls /\ Data("play", "START") \in Calls
      /\ Send(c, "START") \in Calls /\ a \in Calls /\ b \in Calls
    BY ConstantFacts DEF NewRate, Data, Send, Calls, Commands, Messages
<1>2. t \in Seq(Calls) /\ Len(t) = 5 /\ DOMAIN t = 1 .. 5
    BY <1>1
<1>3. /\ t[1] = NewRate("push", r) /\ t[2] = NewRate("play", r) /\ t[3] = Data("push", "START")
      /\ t[4] = Data("play", "START") /\ t[5] = Send(c, "START")
    OBVIOUS
<1>4. StartCalls(c, r) = IF BufferDiffers(c) THEN f ELSE t
    <2>1. <<>> \o t = t
        <3> HIDE DEF t
        <3> QED
            BY <1>2
    <2> QED
        BY <2>1 DEF StartCalls
<1>5. /\ DOMAIN f = 1 .. 7 /\ f[1] = a /\ f[2] = b
      /\ f[3] = t[1] /\ f[4] = t[2] /\ f[5] = t[3] /\ f[6] = t[4] /\ f[7] = t[5]
    <2>1. f = <<a, b>> \o t
        OBVIOUS
    <2>t. t \in Seq(Calls)
        BY <1>2
    <2>a. a \in Calls /\ b \in Calls
        BY <1>1
    <2> HIDE DEF a, b, f, t
    <2>2. /\ DOMAIN f = 1 .. Len(t) + 2 /\ f[1] = a /\ f[2] = b
          /\ \A i \in 1 .. Len(t) : f[i + 2] = t[i]
        BY <2>1, <2>t, <2>a, PairBefore
    <2>3. f[1 + 2] = t[1] /\ f[2 + 2] = t[2] /\ f[3 + 2] = t[3] /\ f[4 + 2] = t[4] /\ f[5 + 2] = t[5]
        BY <1>2, <2>2
    <2> QED
        BY <1>2, <2>2, <2>3
<1>6. u[1] = Send(c, "STOP") /\ u[2] = Data("push", "STOP") /\ u[3] = Data("play", "STOP") /\ DOMAIN u = 1 .. 3
    BY DEF StopCalls
<1> HIDE DEF f, t, u
<1>7. /\ Range(t) = {NewRate("push", r), NewRate("play", r), Data("push", "START"), Data("play", "START"),
                     Send(c, "START")}
      /\ Range(f) = {a, b} \cup Range(t)
      /\ Range(u) = {Send(c, "STOP"), Data("push", "STOP"), Data("play", "STOP")}
    <2>1. \A i \in 1 .. 7 : i = 1 \/ i = 2 \/ i = 3 \/ i = 4 \/ i = 5 \/ i = 6 \/ i = 7
        OBVIOUS
    <2>2. 1 .. 5 = {1, 2, 3, 4, 5} /\ 1 .. 7 = {1, 2, 3, 4, 5, 6, 7} /\ 1 .. 3 = {1, 2, 3}
        OBVIOUS
    <2> HIDE DEF a, b
    <2>3. Range(t) = {NewRate("push", r), NewRate("play", r), Data("push", "START"), Data("play", "START"),
                      Send(c, "START")}
        BY <1>2, <1>3, <2>2 DEF Range
    <2>4. Range(f) = {a, b, t[1], t[2], t[3], t[4], t[5]}
        BY <1>5, <2>2 DEF Range
    <2>5. Range(u) = {Send(c, "STOP"), Data("push", "STOP"), Data("play", "STOP")}
        BY <1>6, <2>2 DEF Range
    <2> QED
        BY <1>3, <2>3, <2>4, <2>5
<1>8. \A d \in Tasks : Data(d, "START") \in Range(t) /\ Data(d, "START") \in Range(f)
    BY <1>7, ConstantFacts
<1>9. StartsAfter(t)
    <2>1. \A d \in Tasks : \A i, j \in 1 .. 5 : t[i] = Data(d, "START") /\ t[j] = Data(d, "START") => i = j
        BY <1>3 DEF Data, Send, NewRate
    <2>2. \A i \in 1 .. 5 : t[i].call \notin {"deinit", "init"}
        BY <1>3 DEF Data, Send, NewRate
    <2> QED
        BY <1>2, <1>8, <2>1, <2>2 DEF StartsAfter
<1>10. StartsAfter(f)
    <2>1. \A d \in Tasks : \A i, j \in 1 .. 7 : f[i] = Data(d, "START") /\ f[j] = Data(d, "START") => i = j
        BY <1>3, <1>5 DEF Data, Send, NewRate
    <2>2. \A i \in 1 .. 7 : f[i].call = "deinit" => i < 2
        BY <1>3, <1>5 DEF Data, Send, NewRate
    <2>3. f[2].call = "init" /\ 2 \in DOMAIN f
        BY <1>5
    <2> QED
        BY <1>5, <1>8, <2>1, <2>2, <2>3 DEF StartsAfter
<1>11. StartsAfter(u) /\ NoInit(u)
    <2>1. \A i \in 1 .. 3 : u[i].call \in {"send", "data"} /\ \A d \in Tasks : u[i] # Data(d, "START")
        BY <1>6 DEF Data, Send
    <2> QED
        BY <1>6, <2>1 DEF StartsAfter, NoInit
<1>12. \A x \in Cameras : /\ Send(x, "START") \in Range(t) \cup Range(f) => x = c
                          /\ Send(x, "STOP") \notin Range(t) \cup Range(f)
                          /\ Send(x, "START") \notin Range(u)
    BY <1>7 DEF Send, Data, NewRate
<1>13. \A d \in Tasks : /\ Data(d, "STOP") \notin Range(t) \cup Range(f)
                        /\ Data(d, "STOP") \in Range(u)
                        /\ Data(d, "START") \notin Range(u)
    BY <1>7, ConstantFacts DEF Send, Data, NewRate
<1>14. Send(c, "STOP") \in Range(u) /\ Send(c, "START") \in Range(t) /\ Send(c, "START") \in Range(f)
    BY <1>7
<1> QED
    BY <1>4, <1>8, <1>9, <1>10, <1>11, <1>12, <1>13, <1>14 DEF u

LEMMA StartsAfterTail ==
    ASSUME NEW calls \in Seq(Calls), calls # <<>>, Ordered(calls), StartsAfter(calls)
    PROVE  StartsAfter(Tail(calls))
<1> DEFINE rest == Tail(calls)
<1>1. /\ 1 \in DOMAIN calls /\ Head(calls) = calls[1]
      /\ \A i \in DOMAIN rest : i \in Nat /\ i >= 1 /\ i + 1 \in DOMAIN calls /\ rest[i] = calls[i + 1]
    BY Shortened
<1>2. Range(calls) = Range(rest) \cup {calls[1]}
    <2>1. [call |-> "deinit"] \in Calls
        BY DEF Calls
    <2> QED
        BY <1>1, <2>1, Ranges
<1> HIDE DEF rest
<1>3. ASSUME NEW i \in DOMAIN rest, rest[i].call \in {"deinit", "init"}, NEW d \in Tasks
      PROVE  Data(d, "START") \in Range(rest)
    <2>1. Data(d, "START") \in Range(calls)
        BY <1>1, <1>3 DEF StartsAfter
    <2>2. calls[1] # Data(d, "START")
        <3>1. 1 < i + 1
            BY <1>1
        <3> QED
            BY <1>1, <1>3, <3>1 DEF Ordered, Data
    <2> QED
        BY <1>2, <2>1, <2>2
<1>4. ASSUME NEW d \in Tasks, NEW i \in DOMAIN rest, NEW j \in DOMAIN rest,
             rest[i] = Data(d, "START"), rest[j] = Data(d, "START")
      PROVE  i = j
    <2>1. i + 1 = j + 1
        BY <1>1, <1>4 DEF StartsAfter
    <2> QED
        BY <1>1, <2>1
<1>5. ASSUME NEW i \in DOMAIN rest, rest[i].call = "deinit"
      PROVE  \E j \in DOMAIN rest : i < j /\ rest[j].call = "init"
    <2>1. PICK j \in DOMAIN calls : i + 1 < j /\ calls[j].call = "init"
        BY <1>1, <1>5 DEF StartsAfter
    <2>2. j \in Nat /\ j # 1 /\ j - 1 \in DOMAIN rest /\ rest[j - 1] = calls[j]
        BY <1>1, <2>1, Shortened DEF rest
    <2>3. i < j - 1
        BY <1>1, <2>1, <2>2
    <2> QED
        BY <2>1, <2>2, <2>3
<1> QED
    BY <1>3, <1>4, <1>5 DEF StartsAfter, rest

\* A step leaves the cameras alone, and no command to one of them is lost.
LEMMA OldCameraFrame ==
    ASSUME OldCameraInv, UNCHANGED <<conn, camOn, link, camStarted, primary>>,
           missed => missed',
           ~missed' => \A c \in Cameras :
             /\ Send(c, "START") \in Range(Left') => Send(c, "START") \in Range(Left)
             /\ Send(c, "STOP") \in Range(Left) => Send(c, "STOP") \in Range(Left')
    PROVE  OldCameraInv'
BY DEF OldCameraInv, CameraOn, Streams

LEMMA LeftRange ==
    ASSUME IInv, Left # <<>>, CallDone(Viewer)
    PROVE  Range(Left) = Range(Left') \cup {Head(Left)} /\ Left' = Tail(Left)
<1>1. todo \in [Actors -> Seq(Calls)] /\ Left \in Seq(Calls) /\ [call |-> "deinit"] \in Calls /\ Viewer \in Actors
    BY ConstantFacts DEF IInv, Types, Left, Calls
<1>2. Left' = Tail(Left)
    BY <1>1 DEF CallDone, Left
<1> QED
    BY <1>1, <1>2, Ranges

\* The stream is stopped.
LEMMA OldCameraStop ==
    ASSUME IInv, CommandTypes, OldCameraInv, StopStream, primary \in Cameras, UNCHANGED <<conn, camOn, link>>,
           \A x \in Cameras : \A cmd : Send(x, cmd) \notin Range(Left)
    PROVE  OldCameraInv'
<1> DEFINE calls == StopCalls(primary)
<1>1. /\ primary' = primary /\ (missed => missed')
      /\ camStarted' = [camStarted EXCEPT ![primary] = FALSE]
      /\ todo' = [todo EXCEPT ![Viewer] = calls]
    BY DEF StopStream, Then
<1>2. Send(primary, "STOP") \in Range(calls) /\ \A c \in Cameras : Send(c, "START") \notin Range(calls)
    BY ConstantFacts, HandlerCalls
<1> HIDE DEF calls
<1>3. Left' = calls
    BY <1>1, ConstantFacts DEF IInv, Types, Left
<1>4. \A c \in Cameras : c # primary => Streams(c)' = Streams(c)
    BY <1>1 DEF IInv, Types, Streams
<1> QED
    BY <1>1, <1>2, <1>3, <1>4 DEF OldCameraInv, CameraOn

LEMMA OldCameraCalls ==
    ASSUME IInv, CommandTypes, OldCameraInv, NEW a \in Actors, NextCall(a)
    PROVE  OldCameraInv'
<1>t. todo \in [Actors -> Seq(Calls)] /\ Viewer \in Actors
    BY ConstantFacts DEF IInv, Types
<1> USE DEF sessionVars, cameraVars, histories
<1>1. ASSUME CallFails(a) \/ (CallDone(a) /\ UNCHANGED missed), todo[a] # <<>>,
             UNCHANGED <<conn, camOn, link, camStarted, primary>>,
             a = Viewer => Head(Left).call # "send"
      PROVE  OldCameraInv'
    <2>1. CASE CallFails(a)
        <3>1. /\ missed => missed'
              /\ ~missed' => \A x \in Cameras : /\ Send(x, "START") \in Range(Left') => Send(x, "START") \in Range(Left)
                                                /\ Send(x, "STOP") \in Range(Left) => Send(x, "STOP") \in Range(Left')
            BY <1>t, <2>1, CommandsFailed
        <3> QED
            BY <1>1, <3>1, OldCameraFrame
    <2>2. CASE CallDone(a) /\ UNCHANGED missed /\ a # Viewer
        <3>1. Left' = Left
            BY <1>t, <2>2 DEF CallDone, Left
        <3> QED
            BY <1>1, <2>2, <3>1, OldCameraFrame
    <2>3. CASE CallDone(a) /\ UNCHANGED missed /\ a = Viewer
        <3>1. Range(Left) = Range(Left') \cup {Head(Left)}
            BY <1>1, <2>3, LeftRange DEF Left
        <3>2. \A c \in Cameras : \A cmd : Send(c, cmd) # Head(Left)
            BY <1>1, <2>3 DEF Send
        <3> QED
            BY <1>1, <2>3, <3>1, <3>2, OldCameraFrame
    <2> QED
        BY <1>1, <2>1, <2>2, <2>3
<1>2. CASE InsertCommand(a)
    BY <1>1, <1>2 DEF InsertCommand, Calling, Left
<1>3. CASE a # Viewer /\ Notify(a)
    BY <1>1, <1>3 DEF Notify, Calling
<1>4. CASE a = Viewer /\ Deinit
    BY <1>1, <1>4 DEF Deinit, Calling, Left
<1>5. CASE a = Viewer /\ InitBuffer
    <2>1. CASE UNCHANGED todo
        BY <1>5, <2>1, OldCameraFrame DEF InitBuffer, Left
    <2>2. CASE CallDone(Viewer)
        BY <1>1, <1>5, <2>2 DEF InitBuffer, Calling, Left
    <2> QED
        BY <1>5, <2>1, <2>2 DEF InitBuffer
<1>6. CASE a = Viewer /\ SetFrameParams
    BY <1>1, <1>6 DEF SetFrameParams, Calling, Left
<1>7. CASE a = Viewer /\ InsertAction
    <2> DEFINE m == Head(Left)
    <2>1. Left # <<>> /\ m.call = "send"
        BY <1>7 DEF InsertAction, Calling, Left
    <2>2. m \in Calls /\ m = Left[1] /\ 1 \in DOMAIN Left
        <3>1. Left \in Seq(Calls)
            BY <1>t DEF Left
        <3> QED
            BY <2>1, <3>1, Shortened
    <2>3. m.to \in Cameras /\ m.cmd \in Messages /\ m = Send(m.to, m.cmd)
        <3>1. m \in [call : {"send"}, to : Cameras, cmd : Messages]
            BY <2>1, <2>2 DEF Calls
        <3> QED
            BY <3>1 DEF Send
    <2>4. UNCHANGED <<conn, camOn, camStarted, primary>>
        BY <1>7 DEF InsertAction
    <2>5. CASE CallFails(Viewer) /\ link' = link
        BY <1>t, <2>4, <2>5, CommandsFailed, OldCameraFrame
    <2>6. CASE CallDone(Viewer) /\ link' = [link EXCEPT ![m.to] = Append(@, m.cmd)] /\ UNCHANGED histories
        <3>1. Range(Left) = Range(Left') \cup {m}
            BY <2>1, <2>6, LeftRange
        <3> HIDE DEF m
        <3>2. link'[m.to] = Append(link[m.to], m.cmd) /\ link[m.to] \in Seq(Messages) /\ camOn[m.to] \in BOOLEAN
            BY <2>3, <2>6 DEF CommandTypes
        <3>3. \A c \in Cameras : c # m.to => link'[c] = link[c]
            BY <2>3, <2>6 DEF CommandTypes
        <3>4. ASSUME ~missed, NEW c \in Cameras, Send(c, "START") \in Range(Left')
              PROVE  Streams(c)' /\ conn'[c] # "down"
            BY <2>4, <3>1, <3>4 DEF OldCameraInv, Streams
        <3>5. ASSUME ~missed, NEW c \in Cameras, conn[c] = "up", CameraOn(c)', Send(c, "STOP") \notin Range(Left')
              PROVE  Streams(c)
            <4>1. CASE c = m.to
                <5>1. CASE m.cmd = "START"
                    <6>1. Send(c, "START") \in Range(Left)
                        BY <2>3, <3>1, <4>1, <5>1
                    <6> QED
                        BY <3>5, <6>1 DEF OldCameraInv
                <5>2. CASE m.cmd = "STOP"
                    <6>1. ~On(Append(link[c], "STOP"), camOn[c])
                        BY <3>2, <4>1, OnFacts
                    <6>2. ~CameraOn(c)'
                        BY <2>4, <3>2, <4>1, <5>2, <6>1 DEF CameraOn
                    <6> QED
                        BY <3>5, <6>2
                <5>3. CASE m.cmd = "PARAMS"
                    <6>3. On(Append(link[c], "PARAMS"), camOn[c]) <=> On(link[c], camOn[c])
                        BY <3>2, <4>1, OnFacts
                    <6>1. CameraOn(c)
                        BY <2>4, <3>2, <3>5, <4>1, <5>3, <6>3 DEF CameraOn
                    <6>2. Send(c, "STOP") \notin Range(Left)
                        BY <2>3, <3>1, <3>5, <5>3 DEF Send
                    <6> QED
                        BY <3>5, <6>1, <6>2 DEF OldCameraInv
                <5> QED
                    BY <2>3, <5>1, <5>2, <5>3 DEF Messages, Commands
            <4>2. CASE c # m.to
                <5>1. CameraOn(c)
                    BY <2>4, <3>3, <3>5, <4>2 DEF CameraOn
                <5>2. Send(c, "STOP") \notin Range(Left)
                    <6>1. Send(c, "STOP") # Send(m.to, m.cmd)
                        BY <4>2 DEF Send
                    <6> QED
                        BY <2>3, <3>1, <3>5, <6>1
                <5> QED
                    BY <3>5, <5>1, <5>2 DEF OldCameraInv
            <4> QED
                BY <4>1, <4>2
        <3>6. \A c \in Cameras : conn'[c] # "up" => ~camOn'[c]
            BY <2>4 DEF OldCameraInv
        <3>7. missed' = missed /\ \A c \in Cameras : Streams(c)' = Streams(c)
            BY <2>4, <2>6 DEF Streams
        <3> QED
            BY <2>4, <3>4, <3>5, <3>6, <3>7 DEF OldCameraInv
    <2> QED
        BY <1>7, <2>5, <2>6 DEF InsertAction, Left
<1> QED
    BY <1>2, <1>3, <1>4, <1>5, <1>6, <1>7 DEF NextCall

LEMMA OldCameraRequests ==
    ASSUME IInv, CommandTypes, OldCameraInv, ViewerRequests PROVE OldCameraInv'
<1>t. /\ todo \in [Actors -> Seq(Calls)] /\ Viewer \in Actors /\ primary \in Cameras \cup {NoCamera}
      /\ config \in [Cameras -> [fps : Rates, before : Rates]] /\ NoCamera \notin Cameras
      /\ camStarted \in [Cameras -> BOOLEAN]
    BY ConstantFacts DEF IInv, Types
<1>e. Left = <<>> => Range(Left) = {}
    BY EmptySeq DEF Range
<1> USE DEF Request, cameraVars
<1>1. ASSUME NEW c \in Cameras, SourceSet(c) PROVE OldCameraInv'
    <2>1. \A x \in Cameras : ~Streams(x)
        BY <1>1, <1>t DEF SourceSet, MaySwitch, Streams
    <2>2. UNCHANGED <<conn, camOn, link, missed, todo>>
        BY <1>1 DEF SourceSet, histories
    <2> QED
        BY <2>1, <2>2 DEF OldCameraInv, CameraOn, Left
<1>2. ASSUME NEW s \in Settings, FrameSet(s[1], s[2]) PROVE OldCameraInv'
    <2>1. UNCHANGED <<conn, camOn, link, camStarted, primary, missed>> /\ Left = <<>>
        BY <1>2 DEF FrameSet, Watching, Left
    <2>2. \A x \in Cameras : \A cmd \in Commands : Send(x, cmd) \notin Range(Left')
        <3>1. <<s[1], s[2]>> \in Settings
            BY RatesAssumption
        <3> QED
            BY <1>2, <3>1, FrameLeft
    <2> QED
        BY <1>e, <2>1, <2>2, OldCameraFrame DEF Commands
<1>3. CASE StartStream
    <2> DEFINE calls == StartCalls(primary, config[primary].fps)
    <2>1. primary \in Cameras /\ Left = <<>> /\ conn[primary] # "down" /\ config[primary].fps \in Rates
        BY <1>3, <1>t DEF StartStream, Watching, Live, Left
    <2>2. /\ UNCHANGED <<conn, camOn, link, primary>> /\ (missed => missed')
          /\ camStarted' = [camStarted EXCEPT ![primary] = TRUE]
          /\ todo' = [todo EXCEPT ![Viewer] = calls]
        BY <1>3 DEF StartStream, Watching, Then
    <2>3. \A c \in Cameras : /\ Send(c, "START") \in Range(calls) => c = primary
                             /\ Send(c, "STOP") \notin Range(calls)
        BY <2>1, HandlerCalls
    <2> HIDE DEF calls
    <2>4. Left' = calls
        BY <1>t, <2>2 DEF Left
    <2>5. Streams(primary)' /\ \A c \in Cameras : Streams(c) => Streams(c)'
        BY <1>t, <2>1, <2>2 DEF Streams
    <2> QED
        BY <1>e, <2>1, <2>2, <2>3, <2>4, <2>5 DEF OldCameraInv, CameraOn
<1>4. CASE StopStream
    <2>1. primary \in Cameras /\ Left = <<>> /\ UNCHANGED <<conn, camOn, link>>
        BY <1>4, <1>t DEF StopStream, Watching, Left
    <2> QED
        BY <1>4, <1>e, <2>1, OldCameraStop
<1> QED
    BY <1>1, <1>2, <1>3, <1>4 DEF ViewerRequests

LEMMA OldCameraCameras ==
    ASSUME IInv, CommandTypes, OldCameraInv, NEW c \in Cameras,
           Camera(c) \/ CameraLoses(c) \/ CameraConnects(c)
    PROVE  OldCameraInv'
<1>t. /\ conn \in [Cameras -> {"up", "lost", "down"}] /\ camOn \in [Cameras -> BOOLEAN]
      /\ link \in [Cameras -> Seq(Messages)] /\ camStarted \in [Cameras -> BOOLEAN]
      /\ todo \in [Actors -> Seq(Calls)] /\ Viewer \in Actors /\ Viewer # c /\ NoCamera \notin Cameras
    BY ConstantFacts DEF CommandTypes, IInv, Types
<1> USE DEF sessionVars, histories
<1>1. CASE CameraReads(c)
    <2> DEFINE on == IF Head(link[c]) \in Commands THEN Head(link[c]) = "START" ELSE camOn[c]
    <2>1. /\ UNCHANGED <<conn, camStarted, primary, missed, todo>> /\ conn[c] = "up" /\ link[c] # <<>>
          /\ camOn' = [camOn EXCEPT ![c] = on]
          /\ link' = [link EXCEPT ![c] = Tail(link[c])]
        BY <1>1, <1>t DEF CameraReads
    <2>2. CameraOn(c)' => CameraOn(c)
        <3>1. On(Tail(link[c]), on) => On(link[c], camOn[c])
            BY <1>t, <2>1, OnFacts
        <3>2. link'[c] = Tail(link[c]) /\ camOn'[c] = on
            BY <1>t, <2>1
        <3> HIDE DEF on
        <3> QED
            BY <3>1, <3>2 DEF CameraOn
    <2> HIDE DEF on
    <2>3. \A x \in Cameras : x # c => CameraOn(x)' = CameraOn(x) /\ camOn'[x] = camOn[x]
        BY <1>t, <2>1 DEF CameraOn
    <2>4. \A x \in Cameras : conn'[x] # "up" => ~camOn'[x]
        BY <2>1, <2>3 DEF OldCameraInv
    <2> QED
        BY <2>1, <2>2, <2>3, <2>4 DEF OldCameraInv, Streams, Left
<1>2. CASE CameraLoses(c)
    <2>1. /\ UNCHANGED <<camStarted, primary, missed, todo>>
          /\ conn' = [conn EXCEPT ![c] = "lost"] /\ conn[c] = "up"
          /\ camOn' = [camOn EXCEPT ![c] = FALSE] /\ link' = [link EXCEPT ![c] = <<>>]
        BY <1>2 DEF CameraLoses
    <2>2. conn'[c] = "lost" /\ ~camOn'[c]
        BY <1>t, <2>1
    <2>3. \A x \in Cameras : x # c => CameraOn(x)' = CameraOn(x) /\ camOn'[x] = camOn[x] /\ conn'[x] = conn[x]
        BY <1>t, <2>1 DEF CameraOn
    <2> QED
        BY <2>1, <2>2, <2>3 DEF OldCameraInv, Streams, Left
<1>3. ASSUME Deactivate(c), conn[c] = "lost", UNCHANGED <<link, camOn>>, Left' = Left, missed => missed',
             ~missed' => Send(c, "START") \notin Range(Left),
             camStarted' = camStarted \/ camStarted' = [camStarted EXCEPT ![c] = FALSE]
      PROVE  OldCameraInv'
    <2>1. conn' = [conn EXCEPT ![c] = "down"] /\ primary' = IF primary = c THEN NoCamera ELSE primary
        BY <1>3 DEF Deactivate
    <2>2. conn'[c] = "down" /\ ~camOn'[c]
        BY <1>3, <1>t, <2>1 DEF OldCameraInv
    <2>3. \A x \in Cameras : x # c => /\ CameraOn(x)' = CameraOn(x) /\ camOn'[x] = camOn[x] /\ conn'[x] = conn[x]
                                      /\ Streams(x) => Streams(x)'
        BY <1>3, <1>t, <2>1 DEF CameraOn, Streams
    <2> QED
        BY <1>3, <2>2, <2>3 DEF OldCameraInv, Left
<1>4. CASE ConnectionStopIdle(c)
    <2>1. ~missed => Send(c, "START") \notin Range(Left)
        BY <1>4 DEF ConnectionStopIdle, OldCameraInv
    <2>2. Left' = Left /\ UNCHANGED <<link, camOn, camStarted, missed>> /\ conn[c] = "lost" /\ Deactivate(c)
        BY <1>4 DEF ConnectionStopIdle, Left
    <2> QED
        BY <1>3, <2>1, <2>2
<1>5. CASE ConnectionStop(c)
    <2>1. ~missed' => ~Commanding(Viewer)
        BY <1>5, <1>t DEF ConnectionStop, Race
    <2>2. ~missed' => Send(c, "START") \notin Range(Left)
        BY <2>1, <1>t, NotGiven DEF Commands, Left
    <2>3. Left' = Left /\ conn[c] = "lost" /\ Deactivate(c) /\ (missed => missed')
          /\ UNCHANGED <<link, camOn>> /\ camStarted' = [camStarted EXCEPT ![c] = FALSE]
        BY <1>5, <1>t DEF ConnectionStop, Then, Left
    <2> QED
        BY <1>3, <2>2, <2>3
<1>6. CASE CameraConnects(c)
    <2>1. /\ UNCHANGED <<camOn, primary, missed, todo>> /\ conn[c] = "down"
          /\ conn' = [conn EXCEPT ![c] = "up"] /\ link' = [link EXCEPT ![c] = <<>>]
          /\ camStarted' = [camStarted EXCEPT ![c] = FALSE]
        BY <1>6 DEF CameraConnects, Active, Live
    <2>2. ~camOn[c] /\ ~CameraOn(c)'
        <3>1. ~camOn[c] /\ link'[c] = <<>> /\ camOn'[c] = camOn[c]
            BY <1>t, <2>1 DEF OldCameraInv
        <3> QED
            BY <1>t, <3>1, OnNone DEF CameraOn
    <2>3. ~missed => Send(c, "START") \notin Range(Left)
        BY <2>1 DEF OldCameraInv
    <2>4. \A x \in Cameras : x # c => /\ CameraOn(x)' = CameraOn(x) /\ conn'[x] = conn[x]
                                      /\ Streams(x) => Streams(x)'
        BY <1>t, <2>1 DEF CameraOn, Streams
    <2> QED
        BY <2>1, <2>2, <2>3, <2>4 DEF OldCameraInv, Left
<1> QED
    BY <1>1, <1>2, <1>4, <1>5, <1>6 DEF Camera

-----------------------------------------------------------------------------
-----------------------------------------------------------------------------
LEMMA DataHead ==
    ASSUME IInv, NEW a \in Actors, Calling(a, "data")
    PROVE  LET m == Head(todo[a]) IN
           /\ todo[a] \in Seq(Calls) /\ todo[a] # <<>>
           /\ m.to \in Tasks /\ m.cmd \in Commands /\ m = Data(m.to, m.cmd)
<1> DEFINE m == Head(todo[a])
<1>1. todo[a] \in Seq(Calls) /\ todo[a] # <<>> /\ m.call = "data"
    BY DEF IInv, Types, Calling
<1>2. m \in Calls
    BY <1>1, Shortened
<1> HIDE DEF m
<1>3. m \in [call : {"data"}, to : Tasks, cmd : Commands]
    BY <1>1, <1>2 DEF Calls
<1>4. m.to \in Tasks /\ m.cmd \in Commands /\ m = Data(m.to, m.cmd)
    BY <1>3 DEF Data
<1> QED
    BY <1>1, <1>4 DEF m

LEMMA CommandTypesStep ==
    ASSUME IInv, CommandTypes, [Next]_vars PROVE CommandTypes'
<1> USE DEF CommandTypes, cameraVars, sessionVars, taskVars, queueVars
<1>1. CASE UNCHANGED vars
    BY <1>1 DEF vars
<1>2. CASE ViewerRequests
    BY <1>2 DEF ViewerRequests, SourceSet, FrameSet, StartStream, StopStream, Watching, Request
<1>3. ASSUME NEW a \in Actors, InsertCommand(a) PROVE CommandTypes'
    <2> DEFINE m == Head(todo[a])
    <2>1. m.to \in Tasks /\ m.cmd \in Commands
        BY <1>3, DataHead DEF InsertCommand
    <2>2. startStopQueue' = startStopQueue \/ startStopQueue' = [startStopQueue EXCEPT ![m.to] = Append(@, m.cmd)]
        BY <1>3 DEF InsertCommand
    <2> HIDE DEF m
    <2>3. startStopQueue' \in [Tasks -> Seq(Commands)]
        <3>1. Append(startStopQueue[m.to], m.cmd) \in Seq(Commands)
            BY <2>1, Ranges
        <3> QED
            BY <2>1, <2>2, <3>1
    <2> QED
        BY <1>3, <2>3 DEF InsertCommand
<1>4. ASSUME NEW a \in Actors, Notify(a) PROVE CommandTypes'
    BY <1>4 DEF Notify
<1>5. CASE Deinit
    BY <1>5 DEF Deinit
<1>6. CASE InitBuffer \/ SetFrameParams
    BY <1>6 DEF InitBuffer, SetFrameParams
<1>7. CASE InsertAction
    <2> DEFINE m == Head(Left)
    <2>1. Left \in Seq(Calls) /\ Left # <<>> /\ m.call = "send"
        BY <1>7, ConstantFacts DEF InsertAction, Calling, Left, IInv, Types
    <2>2. m \in Calls
        BY <2>1, Shortened
    <2>3. link' = link \/ link' = [link EXCEPT ![m.to] = Append(@, m.cmd)]
        BY <1>7 DEF InsertAction, Left
    <2> HIDE DEF m
    <2>4. m.to \in Cameras /\ m.cmd \in Messages
        BY <2>1, <2>2 DEF Calls
    <2>5. link' \in [Cameras -> Seq(Messages)]
        <3>1. Append(link[m.to], m.cmd) \in Seq(Messages)
            BY <2>4, Ranges
        <3> QED
            BY <2>3, <2>4, <3>1
    <2> QED
        BY <1>7, <2>5 DEF InsertAction
<1>8. ASSUME NEW c \in Cameras, CameraReads(c) PROVE CommandTypes'
    <2>1. Tail(link[c]) \in Seq(Messages)
        BY <1>8, Shortened DEF CameraReads
    <2> QED
        BY <1>8, <2>1 DEF CameraReads
<1>9. ASSUME NEW c \in Cameras, CameraLoses(c) \/ CameraConnects(c) PROVE CommandTypes'
    <2>1. <<>> \in Seq(Messages)
        BY EmptySeq
    <2>2. CASE CameraLoses(c)
        BY <2>1, <2>2 DEF CameraLoses
    <2>3. CASE CameraConnects(c)
        BY <2>1, <2>3 DEF CameraConnects
    <2> QED
        BY <1>9, <2>2, <2>3
<1>10. ASSUME NEW c \in Cameras, ConnectionStopIdle(c) \/ ConnectionStop(c) PROVE CommandTypes'
    BY <1>10 DEF ConnectionStopIdle, ConnectionStop, Deactivate
<1>11. ASSUME NEW d \in Tasks, ReadCommand(d) PROVE CommandTypes'
    <2>1. Tail(startStopQueue[d]) \in Seq(Commands)
        BY <1>11, Shortened DEF ReadCommand
    <2> QED
        BY <1>11, <2>1 DEF ReadCommand, TaskGoes
<1>12. ASSUME NEW d \in Tasks, NoCommand(d) \/ Setting(d) \/ SettingFails(d) \/ RoundDone(d) \/ RunFails(d) \/ Faults(d)
       PROVE  CommandTypes'
    <2>b. buffer.there \in BOOLEAN
        BY DEF IInv, Types
    <2> QED
        BY <1>12, <2>b DEF NoCommand, Setting, SettingFails, RoundDone, RunFails, Faults, TaskGoes
<1> QED
    BY <1>1, <1>2, <1>3, <1>4, <1>5, <1>6, <1>7, <1>8, <1>9, <1>10, <1>11, <1>12
    DEF Next, NextCall, Camera, DataTask

-----------------------------------------------------------------------------
\* A step leaves the data tasks alone, and no command to one of them is lost.
LEMMA CaughtFrame ==
    ASSUME CaughtInv, UNCHANGED <<at, started, caught, startStopQueue>>, missed => missed',
           ~buffer'.there => ~NoInit(Left'), StartsAfter(Left'),
           \A c \in Cameras : \A d \in Tasks : Data(d, "START") \notin Range(todo'[c]),
           ~missed' => /\ StreamOn' = StreamOn
                       /\ \A d \in Tasks :
                            /\ Data(d, "START") \in Range(Left') => Data(d, "START") \in Range(Left)
                            /\ \A a \in Actors : Data(d, "STOP") \in Range(todo[a])
                                                    => Data(d, "STOP") \in Range(todo'[a])
    PROVE  CaughtInv'
<1>1. ASSUME ~missed', NEW d \in Tasks
      PROVE  /\ Data(d, "START") \in Range(Left') => TaskOff(d)' /\ StreamOn'
             /\ ~StreamOn' /\ (\A a \in Actors : Data(d, "STOP") \notin Range(todo'[a])) => TaskOff(d)'
             /\ caught'[d] => "STOP" \in Range(startStopQueue'[d])
    BY <1>1 DEF CaughtInv, TaskOff
<1> QED
    BY <1>1 DEF CaughtInv

LEMMA CaughtSame ==
    ASSUME CaughtInv, UNCHANGED <<at, started, caught, startStopQueue, todo, buffer>>,
           missed => missed', StreamOn' = StreamOn
    PROVE  CaughtInv'
<1>1. Left' = Left
    BY DEF Left
<1> QED
    BY <1>1, CaughtFrame DEF CaughtInv

\* Of the calls the next one is made.
LEMMA CallRange ==
    ASSUME IInv, NEW a \in Actors, todo[a] # <<>>, CallDone(a)
    PROVE  /\ Range(todo[a]) = Range(todo'[a]) \cup {Head(todo[a])}
           /\ \A b \in Actors : b # a => todo'[b] = todo[b]
<1>1. todo \in [Actors -> Seq(Calls)] /\ [call |-> "deinit"] \in Calls
    BY DEF IInv, Types, Calls
<1>2. todo'[a] = Tail(todo[a]) /\ \A b \in Actors : b # a => todo'[b] = todo[b]
    BY <1>1 DEF CallDone
<1> QED
    BY <1>1, <1>2, Ranges

\* Calls that do not concern the data tasks, and calls that fail.
LEMMA CaughtCallEnds ==
    ASSUME IInv, CaughtInv, NEW a \in Actors, todo[a] # <<>>,
           UNCHANGED <<at, started, caught, startStopQueue, camStarted, primary>>,
           \/ CallFails(a) /\ UNCHANGED buffer /\ (a = Viewer => Head(Left).call \in {"data", "send"})
           \/ /\ CallDone(a) /\ UNCHANGED missed /\ Head(todo[a]).call \notin {"data", "deinit"}
              /\ \/ buffer' = buffer /\ Head(todo[a]).call # "init"
                 \/ a = Viewer /\ buffer'.there
    PROVE  CaughtInv'
<1>t. todo \in [Actors -> Seq(Calls)] /\ Viewer \in Actors /\ Cameras \subseteq Actors /\ Viewer \notin Cameras
    BY ConstantFacts DEF IInv, Types
<1>s. StreamOn' = StreamOn
    BY DEF StreamOn
<1>1. CASE CallFails(a) /\ UNCHANGED buffer /\ (a = Viewer => Head(Left).call \in {"data", "send"})
    <2>1. todo' = [todo EXCEPT ![a] = <<>>]
        BY <1>1 DEF CallFails, Then
    <2>2. StartsAfter(Left') /\ (~buffer.there => ~NoInit(Left'))
        <3>1. CASE a # Viewer
            <4>1. Left' = Left
                BY <1>t, <2>1, <3>1 DEF Left
            <4> QED
                BY <4>1 DEF CaughtInv
        <3>2. CASE a = Viewer
            <4>1. Left' = <<>>
                BY <1>t, <2>1, <3>2 DEF Left
            <4>2. NoInit(Left)
                BY <1>1, <1>t, <3>2, HeadFacts DEF IInv, BufferInv, Left
            <4> QED
                BY <4>1, <4>2, NothingLeft DEF CaughtInv
        <3> QED
            BY <3>1, <3>2
    <2>3. \A c \in Cameras : \A d \in Tasks : Data(d, "START") \notin Range(todo'[c])
        <3>1. \A c \in Cameras : todo'[c] = todo[c] \/ todo'[c] = <<>>
            BY <1>t, <2>1
        <3> QED
            BY <3>1, NothingLeft DEF CaughtInv
    <2>4. /\ missed => missed'
          /\ ~missed' => \A d \in Tasks :
               /\ Data(d, "START") \in Range(Left') => Data(d, "START") \in Range(Left)
               /\ \A b \in Actors : Data(d, "STOP") \in Range(todo[b]) => Data(d, "STOP") \in Range(todo'[b])
        BY <1>1, <1>t, CommandsFailed DEF Commands, Left
    <2> QED
        BY <1>1, <1>s, <2>2, <2>3, <2>4, CaughtFrame
<1>2. CASE /\ CallDone(a) /\ UNCHANGED missed /\ Head(todo[a]).call \notin {"data", "deinit"}
           /\ \/ buffer' = buffer /\ Head(todo[a]).call # "init"
              \/ a = Viewer /\ buffer'.there
    <2>1. /\ Range(todo[a]) = Range(todo'[a]) \cup {Head(todo[a])}
          /\ \A b \in Actors : b # a => todo'[b] = todo[b]
        BY <1>2, CallRange
    <2>2. \A d \in Tasks : \A cmd : Data(d, cmd) # Head(todo[a])
        BY <1>2 DEF Data
    <2>3. \A d \in Tasks : \A cmd : \A b \in Actors : Data(d, cmd) \in Range(todo'[b]) <=> Data(d, cmd) \in Range(todo[b])
        BY <2>1, <2>2
    <2>4. StartsAfter(Left') /\ (~buffer'.there => ~NoInit(Left'))
        <3>1. CASE a # Viewer
            <4>1. Left' = Left
                BY <1>t, <2>1, <3>1 DEF Left
            <4> QED
                BY <1>2, <3>1, <4>1 DEF CaughtInv
        <3>2. CASE a = Viewer
            <4>1. Left' = Tail(Left) /\ Left \in Seq(Calls) /\ Left # <<>>
                BY <1>2, <1>t, <3>2 DEF CallDone, Left
            <4>2. StartsAfter(Left')
                BY <4>1, StartsAfterTail DEF CaughtInv, IInv, BufferInv
            <4>3. ASSUME ~buffer'.there PROVE ~NoInit(Left')
                <5>1. PICK i \in DOMAIN Left : Left[i].call = "init"
                    BY <1>2, <4>3 DEF CaughtInv, NoInit
                <5>2. i # 1 /\ Head(Left) = Left[1]
                    BY <1>2, <3>2, <4>1, <4>3, <5>1, Shortened DEF Left
                <5>3. i - 1 \in DOMAIN Left' /\ Left'[i - 1] = Left[i]
                    BY <4>1, <5>2, Shortened
                <5> QED
                    BY <5>1, <5>3 DEF NoInit
            <4> QED
                BY <4>2, <4>3
        <3> QED
            BY <3>1, <3>2
    <2>5. \A c \in Cameras : \A d \in Tasks : Data(d, "START") \notin Range(todo'[c])
        BY <1>t, <2>3 DEF CaughtInv
    <2> QED
        BY <1>2, <1>s, <1>t, <2>3, <2>4, <2>5, CaughtFrame DEF Left
<1> QED
    BY <1>1, <1>2

\* A task that is to be started goes on in its round only with a STOP to read.
LEMMA StopIsQueued ==
    ASSUME CommandTypes, CaughtInv, ~missed, NEW d \in Tasks, at[d] # "check",
           Data(d, "START") \in Range(Left)
    PROVE  "STOP" \in Range(startStopQueue[d])
<1>1. started[d] /\ TaskOff(d)
    BY DEF CaughtInv
<1>2. Ends(startStopQueue[d], "STOP") /\ startStopQueue[d] \in Seq(Commands) /\ "STOP" \in Commands
    BY <1>1 DEF TaskOff, CommandTypes, Commands, Ends
<1> QED
    BY <1>2, Ranges

\* The play client's handler leaves new calls.
LEMMA CaughtReplaced ==
    ASSUME IInv, CaughtInv, NEW calls, todo' = [todo EXCEPT ![Viewer] = calls], NoInit(Left), StartsAfter(calls),
           UNCHANGED <<at, started, caught, startStopQueue, buffer>>,
           missed => missed',
           ~missed' => \A d \in Tasks :
             /\ Data(d, "START") \in Range(calls) => TaskOff(d) /\ StreamOn'
             /\ StreamOn' \/ Data(d, "STOP") \in Range(calls)
    PROVE  CaughtInv'
<1>t. /\ todo \in [Actors -> Seq(Calls)] /\ Viewer \in Actors /\ Viewer \notin Cameras
      /\ Cameras \subseteq Actors
    BY ConstantFacts DEF IInv, Types
<1>1. Left' = calls /\ todo'[Viewer] = calls /\ \A c \in Cameras : todo'[c] = todo[c]
    BY <1>t DEF Left
<1>2. buffer'.there
    BY DEF CaughtInv
<1>3. \A d \in Tasks : TaskOff(d)' = TaskOff(d)
    BY DEF TaskOff
<1> QED
    BY <1>t, <1>1, <1>2, <1>3 DEF CaughtInv

LEMMA CaughtStop ==
    ASSUME IInv, CaughtInv, StopStream, primary \in Cameras, NoInit(Left),
           UNCHANGED <<at, started, caught, startStopQueue, buffer>>
    PROVE  CaughtInv'
<1> DEFINE calls == StopCalls(primary)
<1>1. todo' = [todo EXCEPT ![Viewer] = calls] /\ (missed => missed')
    BY DEF StopStream, Then
<1>2. StartsAfter(calls) /\ \A d \in Tasks : /\ Data(d, "STOP") \in Range(calls)
                                             /\ Data(d, "START") \notin Range(calls)
    BY ConstantFacts, HandlerCalls
<1> HIDE DEF calls
<1> QED
    BY <1>1, <1>2, CaughtReplaced

LEMMA CaughtCalls ==
    ASSUME IInv, CommandTypes, CaughtInv, NEW a \in Actors, NextCall(a) PROVE CaughtInv'
<1>t. /\ todo \in [Actors -> Seq(Calls)] /\ Viewer \in Actors /\ Viewer \notin Cameras
      /\ Cameras \subseteq Actors /\ Actors = Cameras \cup {Viewer}
    BY ConstantFacts DEF IInv, Types, Actors
<1> USE DEF sessionVars, cameraVars, taskVars, queueVars, histories
<1>1. CASE InsertCommand(a)
    <2> DEFINE m == Head(todo[a])
    <2>1. /\ todo[a] \in Seq(Calls) /\ todo[a] # <<>> /\ Calling(a, "data")
          /\ m.to \in Tasks /\ m.cmd \in Commands /\ m = Data(m.to, m.cmd)
        BY <1>1, DataHead DEF InsertCommand
    <2>2. CASE CallFails(a) /\ UNCHANGED startStopQueue
        BY <1>1, <2>1, <2>2, CaughtCallEnds DEF InsertCommand, Calling, Left
    <2>3. CASE /\ startStopQueue' = [startStopQueue EXCEPT ![m.to] = Append(@, m.cmd)]
               /\ CallDone(a) /\ UNCHANGED missed
        <3>0. UNCHANGED <<at, started, caught, buffer>> /\ StreamOn' = StreamOn
            BY <1>1 DEF InsertCommand, StreamOn
        <3>1. /\ Range(todo[a]) = Range(todo'[a]) \cup {m}
              /\ \A b \in Actors : b # a => todo'[b] = todo[b]
            BY <2>1, <2>3, CallRange
        <3>2. a = Viewer => Left' = Tail(Left)
            BY <1>t, <2>3 DEF CallDone, Left
        <3>3. StartsAfter(Left') /\ (~buffer'.there => ~NoInit(Left'))
            <4>1. CASE a # Viewer
                BY <1>t, <3>0, <3>1, <4>1 DEF Left, CaughtInv
            <4>2. CASE a = Viewer
                <5>1. StartsAfter(Left')
                    BY <2>1, <3>2, <4>2, StartsAfterTail DEF CaughtInv, IInv, BufferInv, Left
                <5>2. NoInit(Left)
                    <6>1. Head(Left).call \in {"data", "send"} /\ Left # <<>>
                        BY <2>1, <4>2 DEF Left, Calling
                    <6> QED
                        BY <1>t, <6>1, HeadFacts DEF IInv, BufferInv, Left
                <5> QED
                    BY <3>0, <5>1, <5>2 DEF CaughtInv
            <4> QED
                BY <4>1, <4>2
        <3>4. a # Viewer => m.cmd = "STOP"
            BY <1>t, <2>1, <3>1 DEF CaughtInv, Commands
        <3>5. m.cmd = "START" => Data(m.to, "START") \in Range(Left) /\ Data(m.to, "START") \notin Range(Left')
            <4>1. SUFFICES ASSUME m.cmd = "START", a = Viewer
                           PROVE  Data(m.to, "START") \in Range(Left) /\ Data(m.to, "START") \notin Range(Left')
                BY <3>4
            <4>2. Data(m.to, "START") \in Range(Left)
                BY <2>1, <3>1, <4>1 DEF Left
            <4>3. /\ 1 \in DOMAIN Left /\ Left[1] = m
                  /\ \A i \in DOMAIN Left' : i \in Nat /\ i >= 1 /\ i + 1 \in DOMAIN Left /\ Left'[i] = Left[i + 1]
                <5>1. Left \in Seq(Calls) /\ Left # <<>> /\ m = Head(Left) /\ Left' = Tail(Left)
                    BY <2>1, <3>2, <4>1 DEF Left
                <5> HIDE DEF m
                <5> QED
                    BY <5>1, Shortened
            <4>4. ASSUME NEW i \in DOMAIN Left', Left'[i] = Data(m.to, "START") PROVE FALSE
                <5>1. Left[1] = Data(m.to, "START") /\ Left[i + 1] = Data(m.to, "START")
                    BY <2>1, <4>1, <4>3, <4>4
                <5>2. 1 = i + 1
                    BY <2>1, <4>3, <5>1 DEF CaughtInv, StartsAfter
                <5> QED
                    BY <4>3, <5>2
            <4> QED
                BY <4>2, <4>4 DEF Range
        <3> HIDE DEF m
        <3>6. /\ startStopQueue'[m.to] = Append(startStopQueue[m.to], m.cmd)
              /\ \A d \in Tasks : d # m.to => startStopQueue'[d] = startStopQueue[d]
            BY <2>1, <2>3 DEF CommandTypes
        <3>7. /\ startStopQueue'[m.to] # <<>> /\ Ends(startStopQueue'[m.to], m.cmd)
              /\ Range(startStopQueue[m.to]) \subseteq Range(startStopQueue'[m.to])
            <4>1. startStopQueue[m.to] \in Seq(Commands)
                BY <2>1 DEF CommandTypes
            <4> HIDE DEF Commands
            <4> QED
                BY <2>1, <3>6, <4>1, Ranges
        <3>8. ASSUME ~missed, NEW d \in Tasks
              PROVE  /\ Data(d, "START") \in Range(Left') => TaskOff(d)' /\ StreamOn'
                     /\ ~StreamOn' /\ (\A b \in Actors : Data(d, "STOP") \notin Range(todo'[b])) => TaskOff(d)'
                     /\ caught'[d] => "STOP" \in Range(startStopQueue'[d])
            <4>r. Range(Left') \subseteq Range(Left)
                BY <1>t, <3>1 DEF Left
            <4>1. CASE d # m.to
                <5>1. TaskOff(d)' = TaskOff(d)
                    BY <3>0, <3>6, <4>1 DEF TaskOff
                <5>2. Data(d, "STOP") # m
                    BY <2>1, <4>1 DEF Data
                <5>3. \A b \in Actors : Data(d, "STOP") \in Range(todo[b]) => Data(d, "STOP") \in Range(todo'[b])
                    BY <3>1, <5>2
                <5> QED
                    BY <2>3, <3>0, <3>6, <3>8, <4>1, <4>r, <5>1, <5>3 DEF CaughtInv
            <4>2. CASE d = m.to /\ m.cmd = "STOP"
                <5>1. TaskOff(d)'
                    BY <3>7, <4>2 DEF TaskOff
                <5> QED
                    BY <2>3, <3>0, <3>7, <3>8, <4>2, <4>r, <5>1 DEF CaughtInv
            <4>3. CASE d = m.to /\ m.cmd = "START"
                <5>1. StreamOn
                    BY <3>5, <3>8, <4>3 DEF CaughtInv
                <5> QED
                    BY <2>3, <3>0, <3>5, <3>7, <3>8, <4>3, <5>1 DEF CaughtInv
            <4> QED
                BY <2>1, <4>1, <4>2, <4>3 DEF Commands
        <3>9. \A c \in Cameras : \A d \in Tasks : Data(d, "START") \notin Range(todo'[c])
            BY <1>t, <3>1 DEF CaughtInv
        <3> QED
            BY <2>3, <3>0, <3>3, <3>8, <3>9 DEF CaughtInv
    <2> QED
        BY <1>1, <2>2, <2>3 DEF InsertCommand
<1>2. CASE a # Viewer /\ Notify(a)
    BY <1>2, CaughtCallEnds DEF Notify, Calling
<1>3. CASE a = Viewer /\ Deinit
    <2>1. /\ Left # <<>> /\ Head(Left).call = "deinit" /\ CallDone(Viewer) /\ Left \in Seq(Calls)
          /\ buffer' = [buffer EXCEPT !.there = FALSE] /\ caught' = [d \in Tasks |-> at[d] = "loop"]
          /\ UNCHANGED <<at, started, startStopQueue, missed>> /\ StreamOn' = StreamOn
        BY <1>3, <1>t DEF Deinit, Calling, Left, StreamOn
    <2>2. /\ 1 \in DOMAIN Left /\ Head(Left) = Left[1] /\ Left' = Tail(Left)
          /\ Range(Left) = Range(Left') \cup {Head(Left)}
          /\ \A b \in Actors : b # Viewer => todo'[b] = todo[b]
        BY <1>t, <2>1, LeftRange, CallRange, Shortened DEF Left
    <2>3. StartsAfter(Left')
        BY <2>1, <2>2, StartsAfterTail DEF CaughtInv, IInv, BufferInv
    <2>4. ~NoInit(Left')
        <3>1. PICK j \in DOMAIN Left : 1 < j /\ Left[j].call = "init"
            BY <2>1, <2>2 DEF CaughtInv, StartsAfter
        <3>2. j # 1
            BY <3>1
        <3>3. j - 1 \in DOMAIN Left' /\ Left'[j - 1] = Left[j]
            BY <2>1, <2>2, <3>2, Shortened
        <3> QED
            BY <3>1, <3>3 DEF NoInit
    <2>5. \A d \in Tasks : \A cmd : \A b \in Actors : Data(d, cmd) \in Range(todo'[b]) <=> Data(d, cmd) \in Range(todo[b])
        <3>1. \A d \in Tasks : \A cmd : Data(d, cmd) # Head(Left)
            BY <2>1 DEF Data
        <3> QED
            BY <2>2, <3>1 DEF Left
    <2>6. ASSUME ~missed, NEW d \in Tasks, caught'[d] PROVE "STOP" \in Range(startStopQueue'[d])
        <3>1. at[d] = "loop" /\ Data(d, "START") \in Range(Left)
            BY <2>1, <2>2, <2>6 DEF CaughtInv, StartsAfter
        <3>2. at[d] # "check"
            BY <3>1
        <3> QED
            BY <2>1, <2>6, <3>1, <3>2, StopIsQueued
    <2>7. \A d \in Tasks : TaskOff(d)' = TaskOff(d)
        BY <2>1 DEF TaskOff
    <2>8. \A d \in Tasks : (at'[d] # "check" => started'[d]) /\ (caught'[d] => at'[d] = "loop")
        BY <2>1 DEF CaughtInv
    <2>9. \A c \in Cameras : \A d \in Tasks : Data(d, "START") \notin Range(todo'[c])
        BY <1>t, <2>5 DEF CaughtInv
    <2>10. ASSUME ~missed, NEW d \in Tasks
           PROVE  /\ Data(d, "START") \in Range(Left') => TaskOff(d)' /\ StreamOn'
                  /\ ~StreamOn' /\ (\A b \in Actors : Data(d, "STOP") \notin Range(todo'[b])) => TaskOff(d)'
        BY <1>t, <2>1, <2>5, <2>7, <2>10 DEF CaughtInv, Left
    <2> QED
        BY <2>1, <2>3, <2>4, <2>6, <2>8, <2>9, <2>10 DEF CaughtInv
<1>4. CASE a = Viewer /\ InitBuffer
    <2>1. CASE UNCHANGED <<buffer, todo>>
        BY <1>4, <2>1, CaughtSame DEF InitBuffer, StreamOn
    <2>2. CASE buffer'.there /\ CallDone(Viewer)
        BY <1>4, <2>2, CaughtCallEnds DEF InitBuffer, Calling
    <2> QED
        BY <1>4, <2>1, <2>2 DEF InitBuffer
<1>5. CASE a = Viewer /\ SetFrameParams
    BY <1>5, CaughtCallEnds DEF SetFrameParams, Calling
<1>6. CASE a = Viewer /\ InsertAction
    BY <1>6, CaughtCallEnds DEF InsertAction, Calling, Left
<1> QED
    BY <1>1, <1>2, <1>3, <1>4, <1>5, <1>6 DEF NextCall

LEMMA CaughtRequests ==
    ASSUME IInv, CommandTypes, PrimaryInv, CaughtInv, ViewerRequests PROVE CaughtInv'
<1>t. /\ todo \in [Actors -> Seq(Calls)] /\ Viewer \in Actors /\ primary \in Cameras \cup {NoCamera}
      /\ config \in [Cameras -> [fps : Rates, before : Rates]] /\ Viewer \notin Cameras
      /\ Cameras \subseteq Actors
    BY ConstantFacts DEF IInv, Types
<1>r. Range(<<>>) = {} /\ NoInit(<<>>)
    BY EmptySeq DEF Range, NoInit
<1> USE DEF Request, taskVars, queueVars, histories
<1>1. ASSUME NEW c \in Cameras, SourceSet(c) PROVE CaughtInv'
    <2>1. ~StreamOn /\ ~StreamOn'
        BY <1>1, <1>t, ConstantFacts DEF SourceSet, MaySwitch, PrimaryInv, StreamOn
    <2>2. StreamOn' = StreamOn
        BY <2>1 DEF StreamOn
    <2> QED
        BY <1>1, <2>2, CaughtSame DEF SourceSet
<1>2. ASSUME NEW s \in Settings, FrameSet(s[1], s[2]) PROVE CaughtInv'
    <2>0. <<s[1], s[2]>> \in Settings
        BY RatesAssumption
    <2>1. /\ Left = <<>> /\ NoInit(Left') /\ StartsAfter(Left') /\ todo' = [todo EXCEPT ![Viewer] = Left']
          /\ \A d \in Tasks : Data(d, "START") \notin Range(Left')
        BY <1>2, <2>0, FrameLeft DEF Commands
    <2>2. UNCHANGED <<at, started, caught, startStopQueue, missed, buffer>> /\ StreamOn' = StreamOn
        BY <1>2 DEF FrameSet, Watching, StreamOn
    <2>3. \A b \in Actors : b # Viewer => todo'[b] = todo[b]
        BY <1>t, <2>1
    <2>4. Range(todo[Viewer]) = {} /\ buffer.there
        BY <1>r, <2>1 DEF CaughtInv, Left
    <2>5. \A c \in Cameras : \A d \in Tasks : Data(d, "START") \notin Range(todo'[c])
        BY <1>t, <2>3 DEF CaughtInv
    <2>6. \A d \in Tasks : \A b \in Actors : Data(d, "STOP") \in Range(todo[b]) => Data(d, "STOP") \in Range(todo'[b])
        BY <2>3, <2>4
    <2> QED
        BY <2>1, <2>2, <2>4, <2>5, <2>6, CaughtFrame
<1>4. CASE StartStream
    <2> DEFINE calls == StartCalls(primary, config[primary].fps)
    <2>1. primary \in Cameras /\ Left = <<>> /\ config[primary].fps \in Rates
        BY <1>4, <1>t DEF StartStream, Watching, Left
    <2>2. /\ todo' = [todo EXCEPT ![Viewer] = calls] /\ StreamOn' /\ ~StreamOn
          /\ missed' = (missed \/ Race(Viewer))
          /\ UNCHANGED <<at, started, caught, startStopQueue, buffer>>
        BY <1>4, <2>1 DEF StartStream, Watching, Then, StreamOn, IInv, Types
    <2>3. StartsAfter(calls)
        BY <2>1, HandlerCalls
    <2>4. ASSUME ~missed', NEW d \in Tasks PROVE TaskOff(d)
        <3>1. \A b \in Actors : b # Viewer => Data(d, "STOP") \notin Range(todo[b])
            BY <2>2, <2>4, NotGiven DEF Race, Commands
        <3>2. Data(d, "STOP") \notin Range(todo[Viewer])
            BY <1>r, <2>1 DEF Left
        <3> QED
            BY <2>2, <2>4, <3>1, <3>2 DEF CaughtInv
    <2> HIDE DEF calls
    <2> QED
        BY <1>r, <2>1, <2>2, <2>3, <2>4, CaughtReplaced
<1>5. CASE StopStream
    <2>1. primary \in Cameras /\ Left = <<>> /\ UNCHANGED <<at, started, caught, startStopQueue, buffer>>
        BY <1>5, <1>t DEF StopStream, Watching, Left
    <2> QED
        BY <1>5, <1>r, <2>1, CaughtStop
<1> QED
    BY <1>1, <1>2, <1>4, <1>5 DEF ViewerRequests

LEMMA CaughtCameras ==
    ASSUME IInv, CommandTypes, PrimaryInv, CaughtInv, NEW c \in Cameras,
           Camera(c) \/ CameraLoses(c) \/ CameraConnects(c)
    PROVE  CaughtInv'
<1>t. /\ todo \in [Actors -> Seq(Calls)] /\ Viewer \in Actors /\ Viewer # c /\ c \in Actors /\ Viewer \notin Cameras
    BY ConstantFacts DEF IInv, Types
<1> USE DEF sessionVars, taskVars, queueVars, histories
<1>1. CASE CameraReads(c) \/ CameraLoses(c) \/ CameraConnects(c) \/ ConnectionStopIdle(c)
    <2>1. StreamOn' = StreamOn
        BY <1>1, ConstantFacts DEF CameraReads, CameraLoses, CameraConnects, ConnectionStopIdle, Deactivate,
           Active, Live, Streams, StreamOn, PrimaryInv, IInv, Types
    <2> QED
        BY <1>1, <2>1, CaughtSame DEF CameraReads, CameraLoses, CameraConnects, ConnectionStopIdle
<1>2. CASE ConnectionStop(c)
    <2> DEFINE calls == <<[call |-> "notify"], Data("push", "STOP"), Data("play", "STOP")>>
    <2>1. /\ todo' = [todo EXCEPT ![c] = calls] /\ missed' = (missed \/ Race(c))
          /\ UNCHANGED <<at, started, caught, startStopQueue, buffer>>
        BY <1>2 DEF ConnectionStop, Then
    <2>2. \A d \in Tasks : Data(d, "STOP") \in Range(calls) /\ Data(d, "START") \notin Range(calls)
        <3>1. DOMAIN calls = 1 .. 3 /\ calls[1] = [call |-> "notify"] /\ calls[2] = Data("push", "STOP")
              /\ calls[3] = Data("play", "STOP")
            OBVIOUS
        <3> HIDE DEF calls
        <3>2. \A i \in 1 .. 3 : i = 1 \/ i = 2 \/ i = 3
            OBVIOUS
        <3>3. \A d \in Tasks : \A i \in 1 .. 3 : calls[i] # Data(d, "START")
            BY <3>1, <3>2 DEF Data
        <3>4. Data("push", "STOP") \in Range(calls) /\ Data("play", "STOP") \in Range(calls)
            BY <3>1 DEF Range
        <3> QED
            BY <3>1, <3>3, <3>4, ConstantFacts DEF Range
    <2> HIDE DEF calls
    <2>3. Left' = Left /\ todo'[c] = calls /\ \A b \in Actors : b # c => todo'[b] = todo[b]
        BY <1>t, <2>1 DEF Left
    <2>4. ~missed' => ~Commanding(Viewer) /\ ~missed
        BY <1>t, <2>1 DEF Race
    <2>5. ~Commanding(Viewer) => \A d \in Tasks : Data(d, "START") \notin Range(Left)
        BY <1>t, NotGiven DEF Left, Commands
    <2>6. \A d \in Tasks : TaskOff(d)' = TaskOff(d)
        BY <2>1 DEF TaskOff
    <2>7. \A x \in Cameras : \A d \in Tasks : Data(d, "START") \notin Range(todo'[x])
        BY <2>2, <2>3, ConstantFacts DEF CaughtInv
    <2>8. ASSUME ~missed', NEW d \in Tasks
          PROVE  /\ Data(d, "START") \notin Range(Left')
                 /\ Data(d, "STOP") \in Range(todo'[c])
                 /\ caught'[d] => "STOP" \in Range(startStopQueue'[d])
        BY <2>1, <2>2, <2>3, <2>4, <2>5, <2>8 DEF CaughtInv
    <2> QED
        BY <1>t, <2>1, <2>3, <2>7, <2>8 DEF CaughtInv
<1> QED
    BY <1>1, <1>2 DEF Camera

LEMMA CaughtTasks ==
    ASSUME IInv, CommandTypes, CaughtInv, NEW d \in Tasks, DataTask(d) \/ RunFails(d) \/ Faults(d)
    PROVE  CaughtInv'
<1>t. /\ startStopQueue \in [Tasks -> Seq(Commands)] /\ started \in [Tasks -> BOOLEAN]
      /\ caught \in [Tasks -> BOOLEAN] /\ at \in [Tasks -> {"check", "setting", "loop"}]
    BY DEF CommandTypes
<1> USE DEF sessionVars, taskVars, queueVars, histories, TaskGoes
\* The round of a task, and what it leaves alone.
<1>1. ASSUME UNCHANGED <<todo, buffer, camStarted, primary, missed>>,
             \A e \in Tasks : e # d => UNCHANGED <<at[e], started[e], caught[e], startStopQueue[e]>>,
             at'[d] # "check" => started'[d], caught'[d] => at'[d] = "loop",
             TaskOff(d) => TaskOff(d)',
             ~missed => (caught'[d] => "STOP" \in Range(startStopQueue'[d]))
      PROVE  CaughtInv'
    <2>1. Left' = Left /\ \A e \in Tasks : e # d => TaskOff(e)' = TaskOff(e)
        BY <1>1 DEF Left, TaskOff
    <2>2. \A e \in Tasks : (at'[e] # "check" => started'[e]) /\ (caught'[e] => at'[e] = "loop")
        BY <1>1 DEF CaughtInv
    <2>3. ASSUME ~missed, NEW e \in Tasks
          PROVE  /\ TaskOff(e) => TaskOff(e)'
                 /\ caught'[e] => "STOP" \in Range(startStopQueue'[e])
        BY <1>1, <2>1, <2>3 DEF CaughtInv
    <2> QED
        BY <1>1, <2>1, <2>2, <2>3 DEF CaughtInv, StreamOn
<1>2. CASE ReadCommand(d)
    <2> DEFINE q == startStopQueue[d]
    <2>1. /\ at[d] = "check" /\ q # <<>> /\ q \in Seq(Commands)
          /\ started' = [started EXCEPT ![d] = Head(q) = "START"]
          /\ at' = [at EXCEPT ![d] = IF Head(q) = "START" THEN "setting" ELSE "check"]
          /\ startStopQueue' = [startStopQueue EXCEPT ![d] = Tail(q)]
          /\ UNCHANGED <<todo, buffer, camStarted, primary, missed, caught>>
        BY <1>2, <1>t DEF ReadCommand
    <2>2. ~caught[d]
        BY <2>1 DEF CaughtInv
    <2>3. TaskOff(d) => TaskOff(d)'
        <3>1. /\ Tail(q) = <<>> => Ends(q, Head(q))
              /\ Tail(q) # <<>> => \A x : Ends(Tail(q), x) <=> Ends(q, x)
            <4>1. "STOP" \in Commands
                BY DEF Commands
            <4> QED
                BY <2>1, <4>1, Ranges
        <3>2. startStopQueue'[d] = Tail(q) /\ started'[d] = (Head(q) = "START")
            BY <1>t, <2>1
        <3> QED
            BY <2>1, <3>1, <3>2 DEF TaskOff, Ends
    <2> QED
        BY <1>1, <1>t, <2>1, <2>2, <2>3
<1>3. CASE NoCommand(d)
    <2>1. /\ at[d] = "check" /\ started[d] /\ at' = [at EXCEPT ![d] = "setting"]
          /\ UNCHANGED <<todo, buffer, camStarted, primary, missed, caught, started, startStopQueue>>
        BY <1>3 DEF NoCommand
    <2>2. ~caught[d] /\ TaskOff(d)' = TaskOff(d)
        BY <2>1 DEF CaughtInv, TaskOff
    <2> QED
        BY <1>1, <1>t, <2>1, <2>2
<1>4. CASE Setting(d)
    <2>1. /\ at[d] = "setting" /\ at' = [at EXCEPT ![d] = "loop"]
          /\ caught' = [caught EXCEPT ![d] = ~buffer.there]
          /\ UNCHANGED <<todo, buffer, camStarted, primary, missed, started, startStopQueue>>
        BY <1>4 DEF Setting
    <2>2. started[d] /\ TaskOff(d)' = TaskOff(d)
        BY <2>1 DEF CaughtInv, TaskOff
    <2>3. ASSUME ~missed, caught'[d] PROVE "STOP" \in Range(startStopQueue'[d])
        <3>1. ~buffer.there
            BY <1>t, <2>1, <2>3
        <3>2. Data(d, "START") \in Range(Left)
            BY <3>1 DEF CaughtInv, NoInit, StartsAfter
        <3>3. at[d] # "check"
            BY <2>1
        <3> QED
            BY <2>1, <2>3, <3>2, <3>3, StopIsQueued
    <2>4. at'[d] = "loop" /\ started'[d]
        BY <1>t, <2>1, <2>2
    <2> QED
        BY <1>1, <1>t, <2>1, <2>2, <2>3, <2>4
<1>5. CASE RoundDone(d)
    <2>1. /\ at' = [at EXCEPT ![d] = "check"] /\ caught' = [caught EXCEPT ![d] = FALSE]
          /\ UNCHANGED <<todo, buffer, camStarted, primary, missed, started, startStopQueue>>
        BY <1>5 DEF RoundDone
    <2>2. at'[d] = "check" /\ ~caught'[d] /\ TaskOff(d)' = TaskOff(d)
        BY <1>t, <2>1 DEF TaskOff
    <2> QED
        BY <1>1, <1>t, <2>1, <2>2
<1>6. CASE RunFails(d)
    <2>1. /\ at' = [at EXCEPT ![d] = "check"] /\ caught' = [caught EXCEPT ![d] = FALSE]
          /\ started' = [started EXCEPT ![d] = FALSE]
          /\ UNCHANGED <<todo, buffer, camStarted, primary, missed, startStopQueue>>
        BY <1>6 DEF RunFails
    <2>2. at'[d] = "check" /\ ~caught'[d] /\ ~started'[d] /\ (TaskOff(d) => TaskOff(d)')
        BY <1>t, <2>1 DEF TaskOff
    <2> QED
        BY <1>1, <1>t, <2>1, <2>2
<1>7. CASE Faults(d)
    BY <1>7, CaughtSame DEF Faults, StreamOn
<1>8. CASE SettingFails(d)
    <2>1. /\ at[d] = "setting" /\ at' = [at EXCEPT ![d] = "check"]
          /\ started' = [started EXCEPT ![d] = FALSE]
          /\ UNCHANGED <<todo, buffer, camStarted, primary, missed, caught, startStopQueue>>
        BY <1>8 DEF SettingFails
    <2>2. at'[d] = "check" /\ ~caught'[d] /\ ~started'[d] /\ (TaskOff(d) => TaskOff(d)')
        BY <1>t, <2>1 DEF TaskOff, CaughtInv
    <2> QED
        BY <1>1, <1>t, <2>1, <2>2
<1> QED
    BY <1>2, <1>3, <1>4, <1>5, <1>6, <1>7, <1>8 DEF DataTask

-----------------------------------------------------------------------------
LEMMA PrimaryStep ==
    ASSUME IInv, PrimaryInv, [Next]_vars PROVE PrimaryInv'
<1> USE DEF PrimaryInv, sessionVars, cameraVars
<1>t. camStarted \in [Cameras -> BOOLEAN] /\ conn \in [Cameras -> {"up", "lost", "down"}]
    BY DEF IInv, Types
<1>1. CASE UNCHANGED vars
    BY <1>1 DEF vars
<1>2. CASE ViewerRequests
    BY <1>2, <1>t, ConstantFacts DEF ViewerRequests, SourceSet, MaySwitch, FrameSet, StartStream, StopStream,
       Watching, Request, Live
<1>3. ASSUME NEW a \in Actors, NextCall(a) PROVE PrimaryInv'
    BY <1>3 DEF NextCall, InsertCommand, Deinit, InitBuffer, SetFrameParams, InsertAction, Notify
<1>4. ASSUME NEW c \in Cameras, Camera(c) \/ CameraLoses(c) \/ CameraConnects(c) PROVE PrimaryInv'
    BY <1>4, <1>t DEF Camera, CameraReads, CameraLoses, CameraConnects, ConnectionStopIdle, ConnectionStop,
       Deactivate, Streams
<1>5. ASSUME NEW d \in Tasks, DataTask(d) \/ RunFails(d) \/ Faults(d) PROVE PrimaryInv'
    BY <1>5 DEF DataTask, ReadCommand, NoCommand, Setting, SettingFails, RoundDone, RunFails, Faults
<1> QED
    BY <1>1, <1>2, <1>3, <1>4, <1>5 DEF Next

CommandsInv == CommandTypes /\ PrimaryInv /\ OldCameraInv /\ CaughtInv

LEMMA InitCommandsInv == Init => CommandsInv
<1> SUFFICES ASSUME Init PROVE CommandsInv
    OBVIOUS
<1>1. CommandTypes
    BY EmptySeq, ConstantFacts DEF Init, CommandTypes
<1>2. /\ Left = <<>> /\ \A a \in Actors : Range(todo[a]) = {}
      /\ DOMAIN Left = {} /\ Range(Left) = {}
    BY EmptySeq, ConstantFacts DEF Init, Left, Range
<1>3. OldCameraInv
    <2>1. \A c \in Cameras : ~CameraOn(c)
        BY OnNone DEF Init, CameraOn
    <2> QED
        BY <1>2, <2>1 DEF Init, OldCameraInv
<1>4. CaughtInv
    <2>1. \A d \in Tasks : TaskOff(d)
        BY DEF Init, TaskOff
    <2>2. StartsAfter(Left)
        BY <1>2 DEF StartsAfter
    <2> QED
        BY <1>2, <2>1, <2>2, ConstantFacts DEF Init, CaughtInv
<1>5. PrimaryInv
    BY DEF Init, PrimaryInv
<1> QED
    BY <1>1, <1>3, <1>4, <1>5 DEF CommandsInv

LEMMA NextCommandsInv == IInv /\ CommandsInv /\ [Next]_vars => CommandsInv'
<1> SUFFICES ASSUME IInv, CommandsInv, [Next]_vars PROVE CommandsInv'
    OBVIOUS
<1> USE DEF CommandsInv, sessionVars, cameraVars, taskVars, queueVars, histories
<1>1. CommandTypes' /\ PrimaryInv'
    BY CommandTypesStep, PrimaryStep
<1>2. CASE UNCHANGED vars
    <2>1. OldCameraInv'
        BY <1>2, OldCameraFrame DEF vars, Left
    <2>2. CaughtInv'
        BY <1>2, CaughtSame DEF vars, StreamOn
    <2> QED
        BY <1>1, <2>1, <2>2
<1>3. CASE ViewerRequests
    BY <1>1, <1>3, OldCameraRequests, CaughtRequests
<1>4. ASSUME NEW a \in Actors, NextCall(a) PROVE CommandsInv'
    BY <1>1, <1>4, OldCameraCalls, CaughtCalls
<1>5. ASSUME NEW c \in Cameras, Camera(c) \/ CameraLoses(c) \/ CameraConnects(c) PROVE CommandsInv'
    BY <1>1, <1>5, OldCameraCameras, CaughtCameras
<1>6. ASSUME NEW d \in Tasks, DataTask(d) \/ RunFails(d) \/ Faults(d) PROVE CommandsInv'
    <2>1. UNCHANGED <<conn, camOn, link, camStarted, primary, missed, todo>>
        BY <1>6 DEF DataTask, ReadCommand, NoCommand, Setting, SettingFails, RoundDone, RunFails, Faults
    <2>2. OldCameraInv'
        BY <2>1, OldCameraFrame DEF Left
    <2> QED
        BY <1>1, <1>6, <2>2, CaughtTasks
<1> QED
    BY <1>2, <1>3, <1>4, <1>5, <1>6 DEF Next

LEMMA CommandsInvariant == Spec => []CommandsInv
<1>1. Spec => [](IInv /\ CommandsInv)
    BY InitIInv, NextIInv, InitCommandsInv, NextCommandsInv, PTL DEF Spec
<1> QED
    BY <1>1, PTL

\* However requests, lost connections and new ones follow one another, a camera that
\* sends and is not the one that streams has a STOP on its way, unless one was not
\* given (START_STREAM, STOP_STREAM, SOURCE_SET, espfsp_server_connection_stop).
THEOREM OldCameraIsAlwaysStopped == Spec => []OldCameraIsStopped
<1>1. CommandsInv => OldCameraIsStopped
    BY DEF CommandsInv, OldCameraInv, OldCameraIsStopped, CameraOn, On, Left
<1> QED
    BY <1>1, CommandsInvariant, PTL

\* START_STREAM replaces the buffer only under tasks that have a STOP to read, unless
\* one was not given or two handlers mixed their calls.
THEOREM OnlyStoppingTasksAreEverCaught == Spec => []OnlyStoppingTasksAreCaught
<1>1. CommandsInv => OnlyStoppingTasksAreCaught
    BY DEF CommandsInv, CaughtInv, OnlyStoppingTasksAreCaught
<1> QED
    BY <1>1, CommandsInvariant, PTL

\* The receiving data task, once it has read its settings, works at the rate the buffer
\* was made for (espfsp_message_buffer_init); the sending one, during a stream, at the
\* rate of the session, also one set by FRAME_SET_PARAMS while it runs
\* (espfsp_data_proto_set_frame_params, update_frame_config), whatever was set, stopped,
\* lost or given up halfway.
THEOREM RatesAlwaysAgree == Spec => []RatesAgree
<1>1. ASSUME IInv, NEW d \in Tasks, Settled(d)
      PROVE  Told(d) = rate[d] /\ \A i \in DOMAIN Left : ~Tells(Left[i], d)
    <2>1. Left \in Seq(Calls)
        BY <1>1, ConstantFacts DEF IInv, Types, Left
    <2>2. ASSUME NEW i \in DOMAIN Left, Tells(Left[i], d) PROVE FALSE
        <3>1. Left[i] \in Calls
            BY <2>1
        <3>2. Left[i] \in [call : {"settings"}, to : Tasks, rate : Rates]
            BY <2>2, <3>1 DEF Calls, Tells
        <3>3. Left[i].rate \in Rates /\ Left[i] = NewRate(d, Left[i].rate)
            BY <2>2, <3>2 DEF Tells, NewRate
        <3>4. Left[i] \in Range(Left)
            BY DEF Range
        <3> QED
            BY <1>1, <3>3, <3>4 DEF Settled, Left
    <2> QED
        BY <1>1, <2>2 DEF Settled, Told
<1>3. ASSUME IInv, Settled("push") PROVE rate["push"] = buffer.rate
    <2>1. Told("push") = rate["push"] /\ \A i \in DOMAIN Left : ~Tells(Left[i], "push")
        BY <1>1, <1>3, ConstantFacts
    <2>2. NoInit(Left)
        BY <1>3, <2>1 DEF IInv, BufferInv, Ordered
    <2> QED
        BY <1>3, <2>1, <2>2 DEF IInv, BufferInv, Agrees
<1>4. ASSUME IInv, viewStarted, Settled("play") PROVE rate["play"] = config[primary].fps
    <2>1. Told("play") = rate["play"] /\ \A i \in DOMAIN Left : ~Tells(Left[i], "play")
        BY <1>1, <1>4, ConstantFacts
    <2> QED
        BY <1>4, <2>1 DEF IInv, StreamInv, Agrees
<1>5. IInv => RatesAgree
    BY <1>3, <1>4 DEF RatesAgree
<1> QED
    BY <1>5, Invariant, PTL

\* espfsp_message_buffer_init divides by a rate of zero, and update_frame_config refuses
\* one, only when a play client has set it; no order of requests and failures brings one
\* about otherwise.
THEOREM ZeroRateWasAlwaysAsked == Spec => []ZeroRateWasAsked
<1>1. IInv => ZeroRateWasAsked
    BY DEF IInv, ZeroInv
<1> QED
    BY <1>1, Invariant, PTL
-----------------------------------------------------------------------------
(* Type correctness: what Types and CommandTypes leave out.                *)

LEMMA SeqUpTo ==
    ASSUME NEW S, NEW n \in Nat, NEW s \in Seq(S), Len(s) <= n
    PROVE  s \in SeqOf(S, n)
<1>1. Len(s) \in 0 .. n /\ s \in [1 .. Len(s) -> S]
    OBVIOUS
<1> QED
    BY <1>1 DEF SeqOf

Flags ==
    /\ zeroAsked \in BOOLEAN /\ missed \in BOOLEAN /\ upset \in BOOLEAN

Bounds ==
    /\ \A c \in Cameras : Len(link[c]) <= LinkLen
    /\ \A d \in Tasks : Len(startStopQueue[d]) <= StartStopLen
    /\ down \in {"no", "division", "fault"}
    /\ requests \in 0 .. MaxRequests /\ failures \in 0 .. MaxFailures

LEMMA InitBounds == Init => Flags /\ Bounds
<1> SUFFICES ASSUME Init PROVE Flags /\ Bounds
    OBVIOUS
<1>1. Flags
    BY DEF Init, Flags
<1>2. Bounds
    BY LimitsAssumption, EmptySeq DEF Init, Bounds
<1> QED
    BY <1>1, <1>2

LEMMA NextFlags == Flags /\ [Next]_vars => Flags'
<1> SUFFICES ASSUME Flags, [Next]_vars PROVE Flags'
    OBVIOUS
<1> USE DEF sessionVars, histories
<1>1. CASE UNCHANGED vars
    BY <1>1 DEF vars, Flags
<1>2. ASSUME NEW a \in Actors, CallFails(a) PROVE Flags'
    BY <1>2, Zenon DEF CallFails, Commanding, Flags
<1>3. ASSUME NEW c \in Cameras, SourceSet(c) PROVE Flags'
    BY <1>3 DEF SourceSet, Flags
<1>4. ASSUME NEW s \in Settings, FrameSet(s[1], s[2]) PROVE Flags'
    BY <1>4, Zenon DEF FrameSet, Flags
<1>5. CASE StartStream
    BY <1>5, Zenon DEF StartStream, Flags, Race
<1>6. CASE StopStream
    BY <1>6, Zenon DEF StopStream, Flags, Race
<1>7. ASSUME NEW a \in Actors, NextCall(a) PROVE Flags'
    <2>1. CASE InsertCommand(a)
        BY <1>2, <2>1, Zenon DEF InsertCommand, Flags
    <2>2. CASE Deinit \/ InitBuffer \/ SetFrameParams
        BY <2>2 DEF Deinit, InitBuffer, SetFrameParams, Flags
    <2>3. CASE InsertAction
        <3>1. Viewer \in Actors
            BY ConstantFacts
        <3> QED
            BY <1>2, <2>3, <3>1, Zenon DEF InsertAction, Flags
    <2>4. CASE Notify(a)
        BY <1>2, <2>4, Zenon DEF Notify, Flags
    <2> QED
        BY <1>7, <2>1, <2>2, <2>3, <2>4 DEF NextCall
<1>8. ASSUME NEW c \in Cameras,
             CameraReads(c) \/ CameraLoses(c) \/ CameraConnects(c) \/ ConnectionStopIdle(c)
      PROVE  Flags'
    BY <1>8 DEF CameraReads, CameraLoses, CameraConnects, ConnectionStopIdle, Flags
<1>9. ASSUME NEW c \in Cameras, ConnectionStop(c) PROVE Flags'
    BY <1>9, Zenon DEF ConnectionStop, Flags, Race
<1>10. ASSUME NEW d \in Tasks, DataTask(d) \/ RunFails(d) \/ Faults(d) PROVE Flags'
    BY <1>10 DEF DataTask, ReadCommand, NoCommand, Setting, SettingFails, RoundDone, RunFails, Faults, Flags
<1> QED
    BY <1>1, <1>3, <1>4, <1>5, <1>6, <1>7, <1>8, <1>9, <1>10 DEF Next, ViewerRequests, Camera

\* A command is added where there is room for it, and read or dropped.
LEMMA NextBounds == IInv /\ CommandTypes /\ Bounds /\ [Next]_vars => Bounds'
<1> SUFFICES ASSUME IInv, CommandTypes, Bounds, [Next]_vars PROVE Bounds'
    OBVIOUS
<1> USE DEF cameraVars, queueVars, counters
<1>1. CASE UNCHANGED vars
    BY <1>1 DEF vars, Bounds
<1>2. CASE ViewerRequests
    BY <1>2, LimitsAssumption
    DEF ViewerRequests, SourceSet, FrameSet, StartStream, StopStream, Watching, Request, Bounds
<1>3. ASSUME NEW a \in Actors, InsertCommand(a) PROVE Bounds'
    <2> DEFINE m == Head(todo[a])
    <2>1. m.to \in Tasks /\ m.cmd \in Commands
        BY <1>3, DataHead DEF InsertCommand
    <2>2. \/ startStopQueue' = startStopQueue
          \/ /\ Len(startStopQueue[m.to]) < StartStopLen
             /\ startStopQueue' = [startStopQueue EXCEPT ![m.to] = Append(@, m.cmd)]
        BY <1>3 DEF InsertCommand, CommandFits
    <2> HIDE DEF m
    <2>3. \A d \in Tasks : Len(startStopQueue'[d]) <= StartStopLen
        <3> DEFINE q == startStopQueue[m.to]
        <3>1. q \in Seq(Commands) /\ Len(Append(q, m.cmd)) = Len(q) + 1
            BY <2>1 DEF CommandTypes
        <3>2. Len(q) < StartStopLen => Len(Append(q, m.cmd)) <= StartStopLen
            BY <3>1, LimitsAssumption
        <3> QED
            BY <2>1, <2>2, <3>2 DEF CommandTypes, Bounds
    <2> QED
        BY <1>3, <2>3 DEF InsertCommand, Bounds
<1>4. CASE Deinit \/ InitBuffer \/ SetFrameParams
    BY <1>4 DEF Deinit, InitBuffer, SetFrameParams, Bounds
<1>5. CASE InsertAction
    <2> DEFINE m == Head(Left)
    <2>1. Left \in Seq(Calls) /\ Left # <<>> /\ m.call = "send"
        BY <1>5, ConstantFacts DEF InsertAction, Calling, Left, IInv, Types
    <2>2. m \in Calls
        BY <2>1, Shortened
    <2>3. \/ link' = link
          \/ Len(link[m.to]) < LinkLen /\ link' = [link EXCEPT ![m.to] = Append(@, m.cmd)]
        BY <1>5 DEF InsertAction, Left
    <2> HIDE DEF m
    <2>4. m.to \in Cameras /\ m.cmd \in Messages
        BY <2>1, <2>2 DEF Calls
    <2>5. \A c \in Cameras : Len(link'[c]) <= LinkLen
        <3> DEFINE q == link[m.to]
        <3>1. q \in Seq(Messages) /\ Len(Append(q, m.cmd)) = Len(q) + 1
            BY <2>4 DEF CommandTypes
        <3>2. Len(q) < LinkLen => Len(Append(q, m.cmd)) <= LinkLen
            BY <3>1, LimitsAssumption
        <3> QED
            BY <2>3, <2>4, <3>2 DEF CommandTypes, Bounds
    <2> QED
        BY <1>5, <2>5 DEF InsertAction, Bounds
<1>6. ASSUME NEW a \in Actors, Notify(a) PROVE Bounds'
    BY <1>6 DEF Notify, Bounds
<1>7. ASSUME NEW c \in Cameras, CameraReads(c) PROVE Bounds'
    <2>1. link[c] \in Seq(Messages) /\ link[c] # <<>> /\ Len(link[c]) <= LinkLen
        BY <1>7 DEF CameraReads, CommandTypes, Bounds
    <2>2. Len(Tail(link[c])) <= LinkLen
        BY <2>1, LimitsAssumption
    <2> QED
        BY <1>7, <2>2 DEF CameraReads, CommandTypes, Bounds
<1>8. ASSUME NEW c \in Cameras, CameraLoses(c) \/ CameraConnects(c) PROVE Bounds'
    <2>1. link' = [link EXCEPT ![c] = <<>>] /\ Len(<<>>) <= LinkLen
        BY <1>8, LimitsAssumption DEF CameraLoses, CameraConnects
    <2>2. \A b \in Cameras : Len(link'[b]) <= LinkLen
        BY <2>1 DEF CommandTypes, Bounds
    <2> QED
        BY <1>8, <2>2, LimitsAssumption DEF CameraLoses, CameraConnects, Bounds
<1>9. ASSUME NEW c \in Cameras, ConnectionStopIdle(c) \/ ConnectionStop(c) PROVE Bounds'
    BY <1>9 DEF ConnectionStopIdle, ConnectionStop, Bounds
<1>10. ASSUME NEW d \in Tasks, ReadCommand(d) PROVE Bounds'
    <2>1. /\ startStopQueue[d] \in Seq(Commands) /\ startStopQueue[d] # <<>>
          /\ Len(startStopQueue[d]) <= StartStopLen
        BY <1>10 DEF ReadCommand, CommandTypes, Bounds
    <2>2. Len(Tail(startStopQueue[d])) <= StartStopLen
        BY <2>1, LimitsAssumption
    <2> QED
        BY <1>10, <2>2 DEF ReadCommand, CommandTypes, Bounds
<1>11. ASSUME NEW d \in Tasks, NoCommand(d) \/ Setting(d) \/ SettingFails(d) \/ RoundDone(d) \/ RunFails(d) \/ Faults(d)
       PROVE  Bounds'
    BY <1>11, LimitsAssumption DEF NoCommand, Setting, SettingFails, RoundDone, RunFails, Faults, Bounds
<1> QED
    BY <1>1, <1>2, <1>3, <1>4, <1>5, <1>6, <1>7, <1>8, <1>9, <1>10, <1>11
    DEF Next, NextCall, Camera, DataTask

\* Type correctness: no queue of commands grows beyond its length, the rates that are
\* set, waiting and worked at fit an uint16_t, and a call that is left names a camera
\* or a data task there is.
THEOREM TypeCorrect == Spec => []TypeOK
<1>1. Spec => [](IInv /\ CommandsInv /\ Flags /\ Bounds)
    <2>1. Init => IInv /\ CommandsInv /\ Flags /\ Bounds
        BY InitIInv, InitCommandsInv, InitBounds
    <2>2. IInv /\ CommandsInv /\ Flags /\ Bounds /\ [Next]_vars
            => (IInv /\ CommandsInv /\ Flags /\ Bounds)'
        <3>1. CommandsInv => CommandTypes
            BY DEF CommandsInv
        <3> QED
            BY <3>1, NextIInv, NextCommandsInv, NextFlags, NextBounds
    <2> QED
        BY <2>1, <2>2, PTL DEF Spec
<1>2. IInv /\ CommandsInv /\ Flags /\ Bounds => TypeOK
    <2> SUFFICES ASSUME IInv, CommandTypes, Flags, Bounds PROVE TypeOK
        BY DEF CommandsInv
    <2>1. \A a \in Actors : \A i \in DOMAIN todo[a] : todo[a][i] \in Calls
        <3> SUFFICES ASSUME NEW a \in Actors, NEW i \in DOMAIN todo[a] PROVE todo[a][i] \in Calls
            OBVIOUS
        <3>1. todo[a] \in Seq(Calls)
            BY DEF IInv, Types
        <3> QED
            BY <3>1
    <2>2. ASSUME NEW c \in Cameras PROVE link[c] \in SeqOf(Messages, LinkLen)
        <3> DEFINE q == link[c]
        <3>1. q \in Seq(Messages) /\ Len(q) <= LinkLen /\ LinkLen \in Nat
            BY LimitsAssumption DEF CommandTypes, Bounds
        <3> HIDE DEF q
        <3>2. q \in SeqOf(Messages, LinkLen)
            BY ONLY <3>1, SeqUpTo
        <3> QED
            BY <3>2 DEF q
    <2>3. ASSUME NEW d \in Tasks PROVE startStopQueue[d] \in SeqOf(Commands, StartStopLen)
        <3> DEFINE q == startStopQueue[d]
        <3>1. q \in Seq(Commands) /\ Len(q) <= StartStopLen /\ StartStopLen \in Nat
            BY LimitsAssumption DEF CommandTypes, Bounds
        <3> HIDE DEF q
        <3>2. q \in SeqOf(Commands, StartStopLen)
            BY ONLY <3>1, SeqUpTo
        <3> QED
            BY <3>2 DEF q
    <2> QED
        BY <2>1, <2>2, <2>3 DEF TypeOK, IInv, Types, CommandTypes, Flags, Bounds
<1> QED
    BY <1>1, <1>2, PTL
-----------------------------------------------------------------------------
(* What StreamFlows rests on: nothing a START has set going is lost.       *)

\* The camera and both data tasks are on, told to be, or about to be told, and
\* nobody is about to stop one of them.
Flow ==
    /\ primary \in Cameras /\ Streams(primary) /\ conn[primary] # "down"
    /\ \A a \in Actors : \A d \in Tasks : Data(d, "STOP") \notin Range(todo[a])
    /\ \A c \in Cameras : Send(c, "STOP") \notin Range(Left)
    /\ conn[primary] = "up" /\ Send(primary, "START") \notin Range(Left) => CameraOn(primary)
    /\ \A d \in Tasks : Data(d, "START") \notin Range(Left) => ~TaskOff(d)

FlowInv == ~upset /\ viewStarted => Flow

\* A step drops no START and adds no STOP.
LEMMA FlowFrame ==
    ASSUME Flow, UNCHANGED <<conn, camStarted, primary>>,
           \A a \in Actors : \A d \in Tasks :
                Data(d, "STOP") \in Range(todo'[a]) => Data(d, "STOP") \in Range(todo[a]),
           \A c \in Cameras : Send(c, "STOP") \in Range(Left') => Send(c, "STOP") \in Range(Left),
           CameraOn(primary) \/ Send(primary, "START") \in Range(Left)
                => CameraOn(primary)' \/ Send(primary, "START") \in Range(Left'),
           \A d \in Tasks : ~TaskOff(d) \/ Data(d, "START") \in Range(Left)
                => ~TaskOff(d)' \/ Data(d, "START") \in Range(Left')
    PROVE  Flow'
BY DEF Flow, Streams

\* A call is made.
LEMMA FlowCalls ==
    ASSUME IInv, CommandTypes, FlowInv, NEW a \in Actors, NextCall(a) PROVE FlowInv'
<1> SUFFICES ASSUME ~upset', viewStarted' PROVE Flow'
    BY DEF FlowInv
<1> USE DEF sessionVars, cameraVars, taskVars, queueVars, histories
<1>t. todo \in [Actors -> Seq(Calls)] /\ Viewer \in Actors /\ Left = todo[Viewer] /\ Left' = todo'[Viewer]
    BY ConstantFacts DEF IInv, Types, Left
<1>f. ~CallFails(a) /\ ~CallFails(Viewer)
    BY DEF CallFails
<1>1. ASSUME UNCHANGED <<upset, viewStarted>> PROVE Flow
    BY <1>1 DEF FlowInv
<1>2. ASSUME NEW b \in Actors, CallDone(b), todo[b] # <<>>
      PROVE  /\ Head(todo[b]) \in Range(todo[b])
             /\ \A x : x \in Range(todo'[b]) => x \in Range(todo[b])
             /\ \A x : x \in Range(todo[b]) /\ x # Head(todo[b]) => x \in Range(todo'[b])
             /\ \A e \in Actors : e # b => todo'[e] = todo[e]
    BY <1>2, CallRange
\* Calls that are neither commands nor messages.
<1>3. ASSUME NEW b \in Actors, CallDone(b), todo[b] # <<>>, Head(todo[b]).call \notin {"data", "send"},
             UNCHANGED <<conn, camStarted, primary, upset, viewStarted, link, camOn, startStopQueue, started>>
      PROVE  Flow'
    <2>1. \A x : x.call \in {"data", "send"} => \A e \in Actors : x \in Range(todo'[e]) <=> x \in Range(todo[e])
        BY <1>2, <1>3
    <2>2. \A d : \A cmd : Data(d, cmd).call \in {"data", "send"} /\ Send(d, cmd).call \in {"data", "send"}
        BY DEF Data, Send
    <2>3. CameraOn(primary)' = CameraOn(primary) /\ \A d \in Tasks : TaskOff(d)' = TaskOff(d)
        BY <1>3 DEF CameraOn, TaskOff
    <2>4. \A e \in Actors : \A d \in Tasks : \A cmd :
            Data(d, cmd) \in Range(todo'[e]) <=> Data(d, cmd) \in Range(todo[e])
        BY <2>1, <2>2
    <2>5. \A c : \A cmd : Send(c, cmd) \in Range(Left') <=> Send(c, cmd) \in Range(Left)
        BY <1>t, <2>1, <2>2
    <2>6. Flow /\ UNCHANGED <<conn, camStarted, primary>>
        BY <1>1, <1>3
    <2>7. \A d \in Tasks : \A cmd : Data(d, cmd) \in Range(Left') <=> Data(d, cmd) \in Range(Left)
        BY <1>t, <2>4
    <2> QED
        BY ONLY <2>3, <2>4, <2>5, <2>6, <2>7, FlowFrame
<1>4. CASE InsertCommand(a)
    <2> DEFINE m == Head(todo[a])
    <2>1. m.to \in Tasks /\ m.cmd \in Commands /\ m = Data(m.to, m.cmd) /\ todo[a] # <<>>
        BY <1>4, DataHead DEF InsertCommand
    <2>2. /\ CallDone(a) /\ startStopQueue' = [startStopQueue EXCEPT ![m.to] = Append(@, m.cmd)]
          /\ UNCHANGED <<conn, camStarted, primary, upset, viewStarted, link, camOn, started>>
        BY <1>4, <1>f DEF InsertCommand
    <2>3. Flow
        BY <1>1, <2>2
    <2>4. m.cmd = "START"
        <3>1. m \in Range(todo[a])
            BY <1>2, <2>1, <2>2
        <3> HIDE DEF m
        <3> QED
            BY <2>1, <2>3, <3>1 DEF Flow, Commands
    <2> HIDE DEF m
    <2>e. PICK e \in Tasks : e = m.to
        BY <2>1
    <2>5. ~TaskOff(e)' /\ \A d \in Tasks : d # e => TaskOff(d)' = TaskOff(d)
        <3>1. startStopQueue[e] \in Seq(Commands) /\ startStopQueue'[e] = Append(startStopQueue[e], "START")
            BY <2>2, <2>4, <2>e DEF CommandTypes
        <3>2. startStopQueue'[e] # <<>> /\ Ends(startStopQueue'[e], "START")
            BY <3>1, Ranges DEF Commands
        <3>3. \A d \in Tasks : d # e => startStopQueue'[d] = startStopQueue[d]
            BY <2>2, <2>e DEF CommandTypes
        <3>4. startStopQueue'[e][Len(startStopQueue'[e])] = "START"
            BY <3>2 DEF Ends
        <3>5. ~TaskOff(e)'
            BY <3>2, <3>4 DEF TaskOff, Ends
        <3>6. ASSUME NEW d \in Tasks, d # e PROVE TaskOff(d)' = TaskOff(d)
            <4>1. startStopQueue'[d] = startStopQueue[d] /\ started'[d] = started[d]
                BY <2>2, <3>3, <3>6
            <4> QED
                BY ONLY <4>1 DEF TaskOff, Ends
        <3> QED
            BY <3>5, <3>6
    <2>6. \A x : \A b \in Actors : x # m /\ x \in Range(todo[b]) => x \in Range(todo'[b])
        BY <1>2, <2>1, <2>2 DEF m
    <2>7. \A x : \A b \in Actors : x \in Range(todo'[b]) => x \in Range(todo[b])
        BY <1>2, <2>1, <2>2
    <2>8. \A c, cmd : Send(c, cmd) # m
        BY <2>1 DEF Send, Data
    <2>9. \A d \in Tasks : d # e => Data(d, "START") # m
        BY <2>1, <2>e DEF Data
    <2>10. CameraOn(primary)' = CameraOn(primary)
        BY <2>2 DEF CameraOn
    <2> QED
        <3>1. \A b \in Actors : \A d \in Tasks :
                Data(d, "STOP") \in Range(todo'[b]) => Data(d, "STOP") \in Range(todo[b])
            BY <2>7
        <3>2. \A c : \A cmd : Send(c, cmd) \in Range(Left') <=> Send(c, cmd) \in Range(Left)
            BY <1>t, <2>6, <2>7, <2>8
        <3>3. Flow /\ UNCHANGED <<conn, camStarted, primary>>
            BY <2>2, <2>3
        <3>4. ASSUME NEW d \in Tasks, ~TaskOff(d) \/ Data(d, "START") \in Range(Left)
              PROVE  ~TaskOff(d)' \/ Data(d, "START") \in Range(Left')
            <4>1. CASE d = e
                BY <2>5, <4>1
            <4>2. CASE d # e
                BY <1>t, <2>5, <2>6, <2>9, <3>4, <4>2
            <4> QED
                BY <4>1, <4>2
        <3> QED
            BY ONLY <2>10, <3>1, <3>2, <3>3, <3>4, FlowFrame
<1>5. CASE a # Viewer /\ Notify(a)
    BY <1>3, <1>5, <1>f DEF Notify, Calling
<1>6. CASE a = Viewer /\ Deinit
    BY <1>3, <1>6 DEF Deinit, Calling
<1>7. CASE a = Viewer /\ InitBuffer
    <2>1. CASE UNCHANGED todo
        <3>1. UNCHANGED <<conn, camStarted, primary, upset, viewStarted, link, camOn, startStopQueue, started>>
            BY <1>7 DEF InitBuffer
        <3> QED
            BY <1>1, <1>t, <2>1, <3>1, FlowFrame DEF CameraOn, TaskOff
    <2>2. CASE CallDone(Viewer)
        BY <1>3, <1>7, <2>2 DEF InitBuffer, Calling
    <2> QED
        BY <1>7, <2>1, <2>2 DEF InitBuffer
<1>8. CASE a = Viewer /\ SetFrameParams
    BY <1>3, <1>8 DEF SetFrameParams, Calling
<1>9. CASE a = Viewer /\ InsertAction
    <2> DEFINE m == Head(Left)
    <2>1. Left # <<>> /\ m.call = "send"
        BY <1>9, <1>t DEF InsertAction, Calling
    <2>2. m \in Calls
        BY <1>t, <2>1, Shortened
    <2>3. m.to \in Cameras /\ m.cmd \in Messages /\ m = Send(m.to, m.cmd)
        <3>1. m \in [call : {"send"}, to : Cameras, cmd : Messages]
            BY <2>1, <2>2 DEF Calls
        <3> QED
            BY <3>1 DEF Send
    <2>4. /\ CallDone(Viewer) /\ link' = [link EXCEPT ![m.to] = Append(@, m.cmd)]
          /\ UNCHANGED <<conn, camStarted, primary, upset, viewStarted, camOn, startStopQueue, started>>
        BY <1>9, <1>f, <1>t DEF InsertAction
    <2>5. Flow
        BY <1>1, <2>4
    <2>6. m.cmd \in {"START", "PARAMS"}
        <3>1. m \in Range(Left)
            BY <1>2, <1>t, <2>1, <2>4
        <3> HIDE DEF m
        <3> QED
            BY <2>3, <2>5, <3>1 DEF Flow, Commands, Messages
    <2> HIDE DEF m
    <2>e. PICK e \in Cameras : e = m.to
        BY <2>3
    <2>7. /\ m.cmd = "START" \/ CameraOn(e) => CameraOn(e)'
          /\ \A c \in Cameras : c # e => CameraOn(c)' = CameraOn(c)
        <3>1. /\ link[e] \in Seq(Messages) /\ link'[e] = Append(link[e], m.cmd)
              /\ camOn[e] \in BOOLEAN /\ camOn'[e] = camOn[e]
            BY <2>4, <2>e DEF CommandTypes
        <3>2. On(Append(link[e], "START"), camOn[e]) /\ (On(Append(link[e], "PARAMS"), camOn[e]) <=> On(link[e], camOn[e]))
            BY <3>1, OnFacts
        <3>3. \A c \in Cameras : c # e => link'[c] = link[c] /\ camOn'[c] = camOn[c]
            BY <2>4, <2>e DEF CommandTypes
        <3>4. m.cmd = "START" \/ CameraOn(e) => CameraOn(e)'
            BY <2>6, <3>1, <3>2 DEF CameraOn
        <3>5. ASSUME NEW c \in Cameras, c # e PROVE CameraOn(c)' = CameraOn(c)
            BY <3>3, <3>5 DEF CameraOn
        <3> QED
            BY <3>4, <3>5
    <2>8. \A x : \A b \in Actors : x # m /\ x \in Range(todo[b]) => x \in Range(todo'[b])
        BY <1>2, <1>t, <2>1, <2>4 DEF m
    <2>9. \A x : \A b \in Actors : x \in Range(todo'[b]) => x \in Range(todo[b])
        BY <1>2, <1>t, <2>1, <2>4
    <2>10. \A d, cmd : Data(d, cmd) # m
        BY <2>3 DEF Send, Data
    <2>11. \A c \in Cameras : c # e => Send(c, "START") # m
        BY <2>3, <2>e DEF Send
    <2>12. \A d \in Tasks : TaskOff(d)' = TaskOff(d)
        BY <2>4 DEF TaskOff
    <2>13. primary \in Cameras
        BY <2>5 DEF Flow
    <2> QED
        <3>1. \A b \in Actors : \A d \in Tasks :
                Data(d, "STOP") \in Range(todo'[b]) => Data(d, "STOP") \in Range(todo[b])
            BY <2>9
        <3>2. \A c \in Cameras : Send(c, "STOP") \in Range(Left') => Send(c, "STOP") \in Range(Left)
            BY <1>t, <2>9
        <3>3. Flow /\ UNCHANGED <<conn, camStarted, primary>>
            BY <2>4, <2>5
        <3>4. ASSUME NEW d \in Tasks, ~TaskOff(d) \/ Data(d, "START") \in Range(Left)
              PROVE  ~TaskOff(d)' \/ Data(d, "START") \in Range(Left')
            BY <1>t, <2>8, <2>10, <2>12, <3>4
        <3>5. ASSUME CameraOn(primary) \/ Send(primary, "START") \in Range(Left)
              PROVE  CameraOn(primary)' \/ Send(primary, "START") \in Range(Left')
            <4>1. primary' = primary
                BY <2>4
            <4>2. CASE primary = e
                <5>1. CASE m.cmd = "START" \/ CameraOn(e)
                    BY <2>7, <4>1, <4>2, <5>1 DEF CameraOn
                <5>2. CASE m.cmd = "PARAMS" /\ Send(primary, "START") \in Range(Left)
                    <6>1. Send(primary, "START") # m
                        BY <2>3, <5>2 DEF Send
                    <6> QED
                        BY <1>t, <2>8, <5>2, <6>1
                <5> QED
                    BY <2>6, <3>5, <4>2, <5>1, <5>2
            <4>3. CASE primary # e
                <5>1. CameraOn(primary)' = CameraOn(primary)
                    BY <2>7, <2>13, <4>1, <4>3 DEF CameraOn
                <5>2. Send(primary, "START") # m
                    BY <2>11, <2>13, <4>3
                <5> QED
                    BY <1>t, <2>8, <3>5, <5>1, <5>2
            <4> QED
                BY <4>2, <4>3
        <3> QED
            BY ONLY <3>1, <3>2, <3>3, <3>4, <3>5, FlowFrame
<1> QED
    BY <1>4, <1>5, <1>6, <1>7, <1>8, <1>9 DEF NextCall

\* A request of the play client.
LEMMA FlowRequests ==
    ASSUME IInv, CommandTypes, FlowInv, ViewerRequests PROVE FlowInv'
<1> SUFFICES ASSUME ~upset', viewStarted' PROVE Flow'
    BY DEF FlowInv
<1> USE DEF sessionVars, cameraVars, taskVars, queueVars, histories, Request
<1>t. /\ todo \in [Actors -> Seq(Calls)] /\ Viewer \in Actors /\ Left = todo[Viewer] /\ Left' = todo'[Viewer]
      /\ NoCamera \notin Cameras
    BY ConstantFacts DEF IInv, Types, Left
<1>1. ASSUME NEW c \in Cameras, SourceSet(c) PROVE FALSE
    <2>1. Flow
        BY <1>1 DEF SourceSet, FlowInv
    <2> QED
        BY <1>t, <1>1, <2>1 DEF SourceSet, MaySwitch, Flow
<1>2. ASSUME NEW s \in Settings, FrameSet(s[1], s[2]) PROVE Flow'
    <2>1. /\ UNCHANGED <<conn, camStarted, primary, upset, viewStarted>>
          /\ UNCHANGED <<link, camOn, startStopQueue, started>>
        BY <1>2 DEF FrameSet, Watching
    <2>2. Flow
        BY <2>1 DEF FlowInv
    <2>3. CameraOn(primary)' = CameraOn(primary) /\ \A d \in Tasks : TaskOff(d)' = TaskOff(d)
        BY ONLY <2>1 DEF CameraOn, TaskOff, Ends
    <2>4. <<s[1], s[2]>> \in Settings
        BY RatesAssumption
    <2>5. /\ Left = <<>> /\ todo' = [todo EXCEPT ![Viewer] = Left']
          /\ \A cmd \in Commands : \A x : Send(x, cmd) \notin Range(Left') /\ Data(x, cmd) \notin Range(Left')
        BY <1>2, <2>4, FrameLeft
    <2>6. /\ \A x : x \notin Range(Left)
          /\ \A b \in Actors : b # Viewer => todo'[b] = todo[b]
        BY <1>t, <2>5, EmptySeq DEF Range
    <2>7. \A b \in Actors : \A d \in Tasks : Data(d, "STOP") \in Range(todo'[b]) => Data(d, "STOP") \in Range(todo[b])
        BY <1>t, <2>5, <2>6 DEF Commands
    <2>8. \A c \in Cameras : Send(c, "STOP") \in Range(Left') => Send(c, "STOP") \in Range(Left)
        BY <2>5 DEF Commands
    <2> QED
        BY ONLY <2>1, <2>2, <2>3, <2>6, <2>7, <2>8, FlowFrame
<1>3. CASE StartStream
    <2> DEFINE r == config[primary].fps
    <2>1. /\ primary \in Cameras /\ conn[primary] # "down" /\ primary' = primary
          /\ UNCHANGED conn /\ camStarted' = [camStarted EXCEPT ![primary] = TRUE]
          /\ todo' = [todo EXCEPT ![Viewer] = StartCalls(primary, r)]
          /\ ~Race(Viewer)
        BY <1>3 DEF StartStream, Watching, Live, Then, IInv, Types
    <2>2. r \in Rates
        BY <2>1 DEF IInv, Types
    <2>3. /\ Left' = StartCalls(primary, r)
          /\ \A b \in Actors : b # Viewer => todo'[b] = todo[b] /\ ~Commanding(b)
        BY <1>t, <2>1 DEF Race
    <2>4. /\ \A x \in Cameras : Send(x, "STOP") \notin Range(Left')
          /\ \A d \in Tasks : Data(d, "STOP") \notin Range(Left') /\ Data(d, "START") \in Range(Left')
          /\ Send(primary, "START") \in Range(Left')
        <3> HIDE DEF r
        <3> QED
            BY <2>1, <2>2, <2>3, HandlerCalls
    <2>5. \A b \in Actors : b # Viewer => \A d : Data(d, "STOP") \notin Range(todo[b])
        BY <2>3, NotGiven DEF Commands
    <2>6. \A b \in Actors : \A d \in Tasks : Data(d, "STOP") \notin Range(todo'[b])
        BY <1>t, <2>3, <2>4, <2>5
    <2>7. Streams(primary)'
        BY <2>1 DEF Streams, IInv, Types
    <2> QED
        BY <2>1, <2>4, <2>6, <2>7 DEF Flow
<1>4. CASE StopStream
    BY <1>4 DEF StopStream
<1> QED
    BY <1>1, <1>2, <1>3, <1>4 DEF ViewerRequests

\* A step of a camera or of its connection.
LEMMA FlowCameras ==
    ASSUME IInv, CommandTypes, FlowInv, NEW c \in Cameras,
           Camera(c) \/ CameraLoses(c) \/ CameraConnects(c)
    PROVE  FlowInv'
<1> SUFFICES ASSUME ~upset', viewStarted' PROVE Flow'
    BY DEF FlowInv
<1> USE DEF sessionVars, taskVars, queueVars, histories
<1>0. ASSUME UNCHANGED <<upset, viewStarted>> PROVE Flow
    BY <1>0 DEF FlowInv
\* Steps of a camera that does not stream.
<1>1. ASSUME Flow, c # primary, UNCHANGED <<primary, todo, startStopQueue, started>>,
             \A b \in Cameras : b # c =>
                /\ conn'[b] = conn[b] /\ camStarted'[b] = camStarted[b]
                /\ link'[b] = link[b] /\ camOn'[b] = camOn[b]
      PROVE  Flow'
    <2>1. CameraOn(primary)' = CameraOn(primary) /\ \A d \in Tasks : TaskOff(d)' = TaskOff(d)
        BY <1>1 DEF CameraOn, TaskOff, Flow, Ends
    <2>2. Left' = Left
        BY <1>1 DEF Left
    <2> QED
        BY <1>1, <2>1, <2>2 DEF Flow, Streams
<1>2. CASE CameraReads(c)
    <2> DEFINE on == IF Head(link[c]) \in Commands THEN Head(link[c]) = "START" ELSE camOn[c]
    <2>1. /\ UNCHANGED <<conn, camStarted, primary, upset, viewStarted, todo, startStopQueue, started>>
          /\ link[c] # <<>> /\ link[c] \in Seq(Messages) /\ camOn[c] \in BOOLEAN
          /\ link'[c] = Tail(link[c]) /\ camOn'[c] = on
          /\ \A b \in Cameras : b # c => link'[b] = link[b] /\ camOn'[b] = camOn[b]
        BY <1>2 DEF CameraReads, CommandTypes
    <2>2. Flow
        BY <1>0, <2>1
    <2>3. CASE c # primary
        BY <1>1, <2>1, <2>2, <2>3
    <2>4. CASE c = primary
        <3>1. On(Tail(link[c]), on) <=> On(link[c], camOn[c])
            BY <2>1, OnFacts
        <3> HIDE DEF on
        <3>2. CameraOn(primary)' <=> CameraOn(primary)
            BY <2>1, <2>4, <3>1 DEF CameraOn
        <3>3. \A d \in Tasks : TaskOff(d)' = TaskOff(d)
            BY <2>1 DEF TaskOff, Ends
        <3> QED
            BY <2>1, <2>2, <3>2, <3>3, FlowFrame DEF Left
    <2> QED
        BY <2>3, <2>4
<1>3. CASE CameraLoses(c)
    <2>1. /\ UNCHANGED <<camStarted, primary, upset, viewStarted, todo, startStopQueue, started>>
          /\ conn'[c] = "lost"
          /\ \A b \in Cameras : b # c => link'[b] = link[b] /\ camOn'[b] = camOn[b] /\ conn'[b] = conn[b]
        BY <1>3 DEF CameraLoses, CommandTypes, IInv, Types
    <2>2. Flow
        BY <1>0, <2>1
    <2>3. CASE c = primary
        <3>1. \A d \in Tasks : TaskOff(d)' = TaskOff(d)
            BY <2>1 DEF TaskOff, Ends
        <3> QED
            BY <2>1, <2>2, <2>3, <3>1 DEF Flow, Streams, Left
    <2> QED
        BY <1>1, <2>1, <2>2, <2>3
<1>4. CASE ConnectionStopIdle(c)
    <2>1. Flow
        BY <1>0, <1>4 DEF ConnectionStopIdle
    <2>2. c # primary
        BY <1>4, <2>1 DEF ConnectionStopIdle, Flow
    <2> QED
        BY <1>1, <1>4, <2>1, <2>2 DEF ConnectionStopIdle, Deactivate, CommandTypes, IInv, Types
<1>5. CASE ConnectionStop(c)
    BY <1>5 DEF ConnectionStop
<1>6. CASE CameraConnects(c)
    <2>1. Flow
        BY <1>0, <1>6 DEF CameraConnects
    <2>2. c # primary
        BY <1>6, <2>1 DEF CameraConnects, Active, Live, Flow
    <2> QED
        BY <1>1, <1>6, <2>1, <2>2 DEF CameraConnects, CommandTypes, IInv, Types
<1> QED
    BY <1>2, <1>3, <1>4, <1>5, <1>6 DEF Camera

\* A step of a data task.
LEMMA FlowTasks ==
    ASSUME IInv, CommandTypes, FlowInv, NEW d \in Tasks, DataTask(d) \/ RunFails(d) \/ Faults(d)
    PROVE  FlowInv'
<1> SUFFICES ASSUME ~upset', viewStarted' PROVE Flow'
    BY DEF FlowInv
<1> USE DEF sessionVars, cameraVars, taskVars, queueVars, histories
<1>1. ~RunFails(d) /\ ~SettingFails(d)
    BY DEF RunFails, SettingFails
<1>2. UNCHANGED <<conn, camStarted, primary, upset, viewStarted, todo, link, camOn>>
    BY <1>1 DEF DataTask, ReadCommand, NoCommand, Setting, RoundDone, Faults
<1>3. ASSUME \A e \in Tasks : TaskOff(e)' <=> TaskOff(e) PROVE Flow'
    <2>1. Flow /\ UNCHANGED <<conn, camStarted, primary, todo>>
        BY <1>2, <1>3 DEF FlowInv
    <2>2. CameraOn(primary)' = CameraOn(primary) /\ Left' = Left
        BY <1>2, <1>3 DEF CameraOn, Left
    <2> QED
        BY ONLY <1>3, <2>1, <2>2, FlowFrame
<1>4. CASE ReadCommand(d)
    <2>2. /\ startStopQueue[d] # <<>> /\ startStopQueue[d] \in Seq(Commands)
          /\ Head(startStopQueue[d]) \in Commands
          /\ startStopQueue'[d] = Tail(startStopQueue[d])
          /\ started'[d] = (Head(startStopQueue[d]) = "START")
          /\ \A e \in Tasks : e # d => startStopQueue'[e] = startStopQueue[e] /\ started'[e] = started[e]
        BY <1>4 DEF ReadCommand, CommandTypes
    <2>3. TaskOff(d) <=> Ends(startStopQueue[d], "STOP")
        BY <2>2 DEF TaskOff
    <2>4. TaskOff(d)' <=> TaskOff(d)
        <3>1. CASE startStopQueue'[d] = <<>>
            <4>1. Ends(startStopQueue[d], Head(startStopQueue[d]))
                BY <2>2, <3>1, Ranges
            <4>2. Ends(startStopQueue[d], "STOP") <=> ~started'[d]
                BY <2>2, <4>1 DEF Ends, Commands
            <4> QED
                BY <2>3, <3>1, <4>2 DEF TaskOff
        <3>2. CASE startStopQueue'[d] # <<>>
            <4>1. Ends(startStopQueue[d], "STOP") <=> Ends(startStopQueue'[d], "STOP")
                BY <2>2, <3>2, Ranges DEF Commands
            <4> QED
                BY <2>3, <3>2, <4>1 DEF TaskOff, Ends
        <3> QED
            BY <3>1, <3>2
    <2>5. ASSUME NEW e \in Tasks, e # d PROVE TaskOff(e)' <=> TaskOff(e)
        <3>1. startStopQueue'[e] = startStopQueue[e] /\ started'[e] = started[e]
            BY <2>2, <2>5
        <3> QED
            BY ONLY <3>1 DEF TaskOff, Ends
    <2> QED
        BY <1>3, <2>4, <2>5
<1>5. CASE UNCHANGED <<startStopQueue, started>>
    BY <1>3, <1>5 DEF TaskOff, Ends
<1> QED
    BY <1>1, <1>4, <1>5 DEF DataTask, NoCommand, Setting, RoundDone, Faults

\* Once everything is made and read, a stream that was not disturbed since its START
\* flows: the camera sends, and both data tasks of the server run.  Setting a rate while
\* it runs is no disturbance, setting one of zero is: the sending task's run ends over it
\* and the next one waits for a START.  What StreamFlows adds is that everything is made
\* and read (start_stream, frame_set_params, connection_stop and espfsp_data_proto_run).
FlowsOnceRead ==
    ~upset /\ viewStarted /\ conn[primary] = "up" /\ Left = <<>> /\ link[primary] = <<>>
        /\ (\A d \in Tasks : startStopQueue[d] = <<>>)
    => Flowing

THEOREM StreamFlowsOnceRead == Spec => []FlowsOnceRead
<1>1. Init => FlowInv
    BY DEF Init, FlowInv
<1>2. IInv /\ CommandTypes /\ FlowInv /\ [Next]_vars => FlowInv'
    <2> SUFFICES ASSUME IInv, CommandTypes, FlowInv, [Next]_vars PROVE FlowInv'
        OBVIOUS
    <2>1. CASE UNCHANGED vars
        BY <2>1 DEF vars, sessionVars, cameraVars, taskVars, queueVars, histories,
            FlowInv, Flow, Streams, CameraOn, TaskOff, Ends, Left
    <2>2. CASE Next
        BY <2>2, FlowCalls, FlowRequests, FlowCameras, FlowTasks DEF Next
    <2> QED
        BY <2>1, <2>2
<1>3. IInv /\ CommandTypes /\ FlowInv => FlowsOnceRead
    <2>1. \A x : x \notin Range(<<>>)
        BY EmptySeq DEF Range
    <2> QED
        BY <2>1, ConstantFacts, OnNone DEF FlowInv, Flow, FlowsOnceRead, Flowing, CameraOn, TaskOff, CommandTypes
<1>4. CommandsInv => CommandTypes
    BY DEF CommandsInv
<1> QED
    BY <1>1, <1>2, <1>3, <1>4, Invariant, CommandsInvariant, PTL DEF Spec

=============================================================================
