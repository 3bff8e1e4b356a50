---------------------------- MODULE NatTraversal ----------------------------
(***************************************************************************)
(* The last hop of the stream: the sending data task of the server and the *)
(* receiving data task of a viewer behind a NAT.  The viewer sends signals *)
(* when it has not received a frame for a while; the server connects its   *)
(* UDP socket to the address the last signal came from and sends its       *)
(* frames there (data_proto/espfsp_data_signal.c, espfsp_data_send_proto.c *)
(* and espfsp_data_recv_proto.c).                                          *)
(*                                                                         *)
(* The NAT gives the viewer another address now and then.  UDP loses       *)
(* signals and frames, and a connected socket takes packets of its peer    *)
(* only.  Time is counted in ticks and kept as ages, which stop at the age *)
(* from which on the code treats them alike; from the moment the sender    *)
(* reads the clock to the one it notes its traffic, no more than one tick  *)
(* passes.  The commands that start and stop the two tasks come from       *)
(* elsewhere (ServerSessions, PlayClient) and in any order.                *)
(***************************************************************************)
EXTENDS Sequences, FrameParts

CONSTANTS
    Addrs,       \* addresses the NAT may give the viewer
    NoAddr,      \* the peer of a socket that is not connected
    NatIdle,     \* MAX_TIME_US_NO_NAT_TRAVERSAL, in ticks
    Never,       \* the age of TRAFFIC_NO_SIGNAL
    FrameLens,   \* lengths of the frames the server has
    MaxLen,      \* frame_max_len of the task of the viewer
    MailLen,     \* bound: signals a socket keeps until they are read
    MaxRemaps,   \* bound: how often the NAT changes the address
    MaxTime      \* bound: frame_interval_us

ASSUME AddrsAssumption == Addrs # {} /\ NoAddr \notin Addrs
ASSUME IdleAssumption == NatIdle \in Nat \ {0} /\ Never \notin Nat
ASSUME LensAssumption == FrameLens \subseteq Nat \ {0} /\ MaxLen \in Nat
ASSUME BoundsAssumption == MailLen \in Nat \ {0} /\ MaxRemaps \in Nat /\ MaxTime \in Nat

VARIABLES
    nat,         \* the address of the viewer as seen from the server
    remaps,      \* changes of it so far
    \* sending data task of the server
    sOn,         \* `started' of its espfsp_data_proto_run
    spc,         \* where it is
    frame,       \* length of the frame in its send_fb, 0 when it is done with it
    sAge,        \* age of its last_traffic
    sNow,        \* age of its current_time
    latest,      \* addr, where the last signal read came from
    peer,        \* what its socket is connected to
    mail,        \* signals in its socket, oldest first
    \* receiving data task of the viewer
    vOn, vpc, vAge,
    vbox         \* the frame in its socket

server == <<sOn, spc, frame, sAge, sNow, latest, peer>>
viewer == <<vOn, vpc, vAge>>
vars == <<nat, remaps, server, mail, viewer, vbox>>

Ages == 0 .. NatIdle

TypeOK ==
    /\ nat \in Addrs /\ remaps \in 0 .. MaxRemaps
    /\ sOn \in BOOLEAN /\ vOn \in BOOLEAN
    /\ spc \in {"check", "signal", "wait", "connect", "send"}
    /\ frame \in FrameLens \cup {0}
    /\ vpc \in {"check", "recv"}
    /\ sAge \in Ages \cup {Never} /\ vAge \in Ages \cup {Never}
    /\ sNow \in {0, 1}
    /\ latest \in Addrs \cup {NoAddr} /\ peer \in Addrs \cup {NoAddr}
    /\ mail \in Seq(Addrs) /\ Len(mail) <= MailLen
    /\ vbox \in {"none", "fits", "long"}

Init ==
    /\ nat \in Addrs /\ remaps = 0
    /\ sOn = FALSE /\ spc = "check" /\ frame = 0 /\ sAge = Never /\ sNow = 0
    /\ latest = NoAddr /\ peer = NoAddr /\ mail = <<>>
    /\ vOn = FALSE /\ vpc = "check" /\ vAge = Never /\ vbox = "none"

\* should_signal_be_handled
ShouldHandle(age) == age \in {Never, NatIdle}

\* What a frame is for the viewer.
Kind(len) == IF len <= MaxLen THEN "fits" ELSE "long"

-----------------------------------------------------------------------------
(* The server.                                                             *)

\* Its task reads START or STOP; last_traffic stays as it is.
ServerCommand ==
    /\ spc = "check"
    /\ sOn' = ~sOn
    /\ UNCHANGED <<nat, remaps, spc, frame, sAge, sNow, latest, peer, mail, viewer, vbox>>

\* The callback send_frame obtains a frame.  (If it does not, nothing happens.)
GetFrame ==
    /\ spc = "check" /\ spc' = "signal"
    /\ sOn
    /\ frame' \in FrameLens
    /\ UNCHANGED <<nat, remaps, sOn, sAge, sNow, latest, peer, mail, viewer, vbox>>

\* There has been traffic lately, and the socket stays connected.
NoNeed ==
    /\ spc = "signal" /\ spc' = "send"
    /\ ~ShouldHandle(sAge)
    /\ UNCHANGED <<nat, remaps, sOn, frame, sAge, sNow, latest, peer, mail, viewer, vbox>>

\* Faulty variant of Disconnect: the socket keeps its peer while it waits.
DisconnectKeepsPeer ==
    /\ spc = "signal" /\ spc' = "wait"
    /\ ShouldHandle(sAge)
    /\ UNCHANGED <<nat, remaps, sOn, frame, sAge, sNow, latest, peer, mail, viewer, vbox>>

Disconnect ==
    /\ spc = "signal" /\ spc' = "wait"
    /\ ShouldHandle(sAge)
    /\ peer' = NoAddr
    /\ UNCHANGED <<nat, remaps, sOn, frame, sAge, sNow, latest, mail, viewer, vbox>>

\* get_last_signal reads signals until there are none left.
TakeSignals ==
    /\ spc = "wait" /\ spc' = "connect"
    /\ mail # <<>>
    /\ latest' = mail[Len(mail)]
    /\ mail' = <<>>
    /\ UNCHANGED <<nat, remaps, sOn, frame, sAge, sNow, peer, viewer, vbox>>

\* The frame is dropped.
NoSignal ==
    /\ spc = "wait" /\ spc' = "check"
    /\ mail = <<>>
    /\ sNow' = 0 /\ frame' = 0
    /\ UNCHANGED <<nat, remaps, sOn, sAge, latest, peer, mail, viewer, vbox>>

\* espfsp_connect.  send_fb reads the clock again.
Connect ==
    /\ spc = "connect" /\ spc' = "send"
    /\ peer' = latest
    /\ sAge' = sNow
    /\ sNow' = 0
    /\ UNCHANGED <<nat, remaps, sOn, frame, latest, mail, viewer, vbox>>

\* espfsp_send_whole_fb_within, in Parts(frame).  They may be lost, and are unless
\* the NAT knows the address.
Send ==
    /\ spc = "send" /\ spc' = "check"
    /\ sAge' = sNow
    /\ sNow' = 0 /\ frame' = 0
    /\ vbox' \in {vbox} \cup {kind \in {Kind(frame)} : peer = nat}
    /\ UNCHANGED <<nat, remaps, sOn, latest, peer, mail, viewer>>

\* Faulty variant of ServerFails: a new run goes on with the old traffic.
ServerFailsKeepsTraffic ==
    /\ sOn /\ sOn' = FALSE
    /\ spc' = "check" /\ sNow' = 0 /\ frame' = 0
    /\ latest' = NoAddr /\ peer' = NoAddr /\ mail' = <<>>
    /\ UNCHANGED <<nat, remaps, sAge, viewer, vbox>>

\* The callback or a call on the socket fails: the run ends, the socket is
\* closed, and the next run starts with a new one.
ServerFails ==
    /\ sOn /\ sOn' = FALSE
    /\ spc' = "check" /\ sNow' = 0 /\ frame' = 0
    /\ sAge' = Never
    /\ latest' = NoAddr /\ peer' = NoAddr /\ mail' = <<>>
    /\ UNCHANGED <<nat, remaps, viewer, vbox>>

-----------------------------------------------------------------------------
(* The viewer.                                                             *)

ViewerCommand ==
    /\ vpc = "check"
    /\ vOn' = ~vOn
    /\ UNCHANGED <<nat, remaps, server, mail, vpc, vAge, vbox>>

\* How many signals of the viewer the socket of the server still takes: a
\* connected one takes those of its peer only, and a full one none.
Room == IF peer \in {NoAddr, nat} THEN MailLen - Len(mail) ELSE 0

\* A burst of SIGNALS_TO_SEND signals, n of which are kept.
Punch(n) ==
    /\ vpc = "check" /\ vpc' = "recv"
    /\ vOn
    /\ ShouldHandle(vAge)
    /\ n <= Room
    /\ mail' = mail \o [i \in 1 .. n |-> nat]
    /\ vAge' = 0
    /\ UNCHANGED <<nat, remaps, server, vOn, vbox>>

NoPunch ==
    /\ vpc = "check"
    /\ vOn
    /\ ~ShouldHandle(vAge)
    /\ vpc' = "recv"
    /\ UNCHANGED <<nat, remaps, server, mail, vOn, vAge, vbox>>

\* Faulty variant of Receive: a frame that is thrown away counts as traffic.
ReceiveAny ==
    /\ vpc = "recv" /\ vpc' = "check"
    /\ vbox' = "none"
    /\ vAge' = IF vbox # "none" THEN 0 ELSE vAge
    /\ UNCHANGED <<nat, remaps, server, mail, vOn>>

\* recv_msg.  A frame longer than the frame_max_len the task was made with is
\* thrown away: nobody tells this task another one.
Receive ==
    /\ vpc = "recv" /\ vpc' = "check"
    /\ vbox' = "none"
    /\ vAge' = IF vbox = "fits" THEN 0 ELSE vAge
    /\ UNCHANGED <<nat, remaps, server, mail, vOn>>

ViewerFails ==
    /\ vOn /\ vOn' = FALSE
    /\ vpc' = "check"
    /\ vAge' = Never
    /\ vbox' = "none"
    /\ UNCHANGED <<nat, remaps, server, mail>>

-----------------------------------------------------------------------------
(* The network and time.                                                   *)

Remap ==
    /\ remaps < MaxRemaps
    /\ nat' \in Addrs \ {nat}
    /\ remaps' = remaps + 1
    /\ UNCHANGED <<server, mail, viewer, vbox>>

\* Faulty variant of Older: an age that never ends.
OlderForever(age) == IF age \in 0 .. NatIdle THEN age + 1 ELSE age

\* current_time - last_traffic, a tick later.
Older(age) == IF age \in 0 .. NatIdle - 1 THEN age + 1 ELSE age

Tick ==
    /\ sNow = 0
    /\ spc # "signal"
    /\ sAge' = Older(sAge) /\ vAge' = Older(vAge)
    /\ sNow' = IF spc = "check" THEN 0 ELSE 1
    /\ UNCHANGED <<nat, remaps, sOn, spc, frame, latest, peer, mail, vOn, vpc, vbox>>

-----------------------------------------------------------------------------
ServerStep ==
    \/ NoNeed \/ Disconnect \/ TakeSignals \/ NoSignal \/ Connect \/ Send

ViewerStep == (\E n \in 0 .. MailLen : Punch(n)) \/ NoPunch \/ Receive

Next ==
    \/ ServerCommand \/ GetFrame \/ ServerStep \/ ServerFails
    \/ ViewerCommand \/ ViewerStep \/ ViewerFails
    \/ Remap \/ Tick

\* Both tasks keep running and time passes.  Of the signals of a viewer that
\* sends them again and again some arrive: that is what ten of them are for.
Fairness ==
    /\ WF_vars(ServerStep) /\ WF_vars(ViewerStep)
    /\ SF_vars(Tick) /\ SF_vars(Punch(1))

Spec == Init /\ [][Next]_vars
FairSpec == Spec /\ Fairness

-----------------------------------------------------------------------------
\* A server that counts as streaming has a viewer: a frame is sent on a socket
\* that is connected only, and traffic less than MAX_TIME_US_NO_NAT_TRAVERSAL
\* ago, which makes the next frame skip the search for a viewer, was on the
\* socket there is now (espfsp_data_proto_handle_incoming_signal, send_fb; the
\* reset of last_traffic in espfsp_data_proto_run).
StreamHasPeer ==
    /\ spc = "send" => peer # NoAddr
    /\ ~ShouldHandle(sAge) => peer # NoAddr

\* The frame in send_fb reaches the viewer as it is if its parts do
\* (espfsp_send_whole_fb_within, espfsp_message_buffer_process_message).
PartsMakeTheFrame == MakeTheFrame(frame)

\* The parts of the frame are spread over frame_interval_us, however long that is
\* (espfsp_send_whole_fb_within).
PartsFillTheInterval == frame # 0 => \A time \in 0 .. MaxTime : FillsInterval(frame, time)

\* A viewer the NAT has moved is found again: the server is connected to its
\* address again and again for as long as both tasks are on and there are
\* frames, unless from some point on frames go out to the old address without
\* a pause of MAX_TIME_US_NO_NAT_TRAVERSAL.  ("We assume that NAT entry could
\* gone away and we need to make new one".)
MovedViewerIsFound ==
    <>[](sOn /\ vOn) /\ []<><<GetFrame>>_vars
        => []<>(peer = nat) \/ <>[](spc = "signal" => ~ShouldHandle(sAge))

\* A viewer that gets no frame it can use keeps sending signals, whatever else
\* it receives: it never waits for the server in silence (recv_msg, "We cannot
\* block on this call as maybe another NAT hole punch is required").
StarvedViewerKnocks ==
    <>[]vOn => []<>(vbox = "fits") \/ []<>(vpc = "check" /\ ShouldHandle(vAge))

=============================================================================
