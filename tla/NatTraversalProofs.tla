------------------------- MODULE NatTraversalProofs -------------------------
(***************************************************************************)
(* Theorems about NatTraversal, for any addresses, frames and numbers of   *)
(* changes of address.                                                     *)
(***************************************************************************)
EXTENDS NatTraversal, FramePartsProofs, TLAPS

\* A signal read came from somewhere.
SignalHasSender == spc = "connect" => latest # NoAddr

IInv == TypeOK /\ StreamHasPeer /\ SignalHasSender

USE AddrsAssumption, IdleAssumption, LensAssumption, BoundsAssumption

LEMMA NoMail == <<>> \in Seq(Addrs) /\ Len(<<>>) <= MailLen
OBVIOUS

\* A run starts without a peer, and without traffic that says it has one.
LEMMA InitInv == Init => IInv
<1>1. Init => TypeOK
    <2> SUFFICES ASSUME Init PROVE TypeOK
        OBVIOUS
    <2>1. mail \in Seq(Addrs) /\ Len(mail) <= MailLen
        BY NoMail DEF Init
    <2>2. remaps \in 0 .. MaxRemaps
        BY DEF Init
    <2> QED
        BY <2>1, <2>2 DEF Init, TypeOK
<1>2. Init => StreamHasPeer /\ SignalHasSender
    BY DEF Init, StreamHasPeer, SignalHasSender, ShouldHandle
<1> QED
    BY <1>1, <1>2 DEF IInv

\* Ages stay ages: from NatIdle on they do not grow, and an age at which a
\* signal is due stays one.
LEMMA OlderAge ==
    ASSUME NEW age \in Ages \cup {Never}
    PROVE  /\ Older(age) \in Ages \cup {Never}
           /\ ShouldHandle(age) => ShouldHandle(Older(age))
BY DEF Older, Ages, ShouldHandle

\* One step per action; those of the server that move its socket are the
\* interesting ones.
LEMMA NextInv == IInv /\ [Next]_vars => IInv'
<1> SUFFICES ASSUME IInv, [Next]_vars PROVE IInv'
    OBVIOUS
<1> USE DEF IInv, TypeOK, StreamHasPeer, SignalHasSender
<1>1. CASE ServerCommand
    BY <1>1 DEF ServerCommand, viewer, ShouldHandle
<1>2. CASE GetFrame
    BY <1>2 DEF GetFrame, viewer, ShouldHandle
<1>3. CASE NoNeed
    BY <1>3 DEF NoNeed, viewer, ShouldHandle
<1>4. CASE Disconnect
    BY <1>4 DEF Disconnect, viewer, ShouldHandle
<1>5. CASE TakeSignals
    <2>1. mail[Len(mail)] \in Addrs
        BY <1>5 DEF TakeSignals
    <2> QED
        BY <1>5, <2>1 DEF TakeSignals, viewer, ShouldHandle
<1>6. CASE NoSignal
    BY <1>6 DEF NoSignal, viewer, ShouldHandle
<1>7. CASE Connect
    BY <1>7 DEF Connect, viewer, ShouldHandle, Ages
<1>8. CASE Send
    <2>1. vbox' \in {"none", "fits", "long"}
        BY <1>8 DEF Send, Kind
    <2> QED
        BY <1>8, <2>1 DEF Send, viewer, ShouldHandle, Ages
<1>9. CASE ServerFails
    BY <1>9, NoMail DEF ServerFails, viewer, ShouldHandle
<1>10. CASE ViewerCommand
    BY <1>10 DEF ViewerCommand, server, ShouldHandle
<1>11. ASSUME NEW n \in 0 .. MailLen, Punch(n) PROVE IInv'
    <2>1. /\ mail' \in Seq(Addrs)
          /\ Len(mail') <= MailLen
        <3> DEFINE burst == [i \in 1 .. n |-> nat]
        <3>1. burst \in Seq(Addrs) /\ Len(burst) = n
            BY MailLen \in Nat
        <3>2. Len(mail \o burst) = Len(mail) + n
            BY <3>1
        <3>3. n <= MailLen - Len(mail)
            BY <1>11 DEF Punch, Room
        <3> QED
            BY <1>11, <3>1, <3>2, <3>3 DEF Punch
    <2> QED
        BY <1>11, <2>1 DEF Punch, server, ShouldHandle, Ages
<1>12. CASE NoPunch
    BY <1>12 DEF NoPunch, server, ShouldHandle
<1>13. CASE Receive
    BY <1>13 DEF Receive, server, ShouldHandle, Ages
<1>14. CASE ViewerFails
    BY <1>14 DEF ViewerFails, server, ShouldHandle
<1>15. CASE Remap
    BY <1>15 DEF Remap, server, viewer, ShouldHandle
<1>16. CASE Tick
    <2>1. /\ sAge' \in Ages \cup {Never}
          /\ vAge' \in Ages \cup {Never}
          /\ ShouldHandle(sAge) => ShouldHandle(sAge')
        BY <1>16, OlderAge DEF Tick
    <2> QED
        BY <1>16, <2>1 DEF Tick
<1>17. CASE UNCHANGED vars
    BY <1>17 DEF vars, server, viewer, ShouldHandle
<1> QED
    BY <1>1, <1>2, <1>3, <1>4, <1>5, <1>6, <1>7, <1>8, <1>9, <1>10, <1>11, <1>12, <1>13,
       <1>14, <1>15, <1>16, <1>17 DEF Next, ServerStep, ViewerStep

LEMMA Invariance == Spec => []IInv
BY InitInv, NextInv, PTL DEF Spec

\* Type correctness: no more signals wait than a socket keeps, and ages stop.
THEOREM TypeCorrect == Spec => []TypeOK
BY Invariance, PTL DEF IInv

\* A frame never goes to a socket that is not connected, and traffic that makes
\* the next frame skip the search for the viewer was on the present socket,
\* whatever is lost and wherever the viewer moves.
THEOREM StreamAlwaysHasPeer == Spec => []StreamHasPeer
BY Invariance, PTL DEF IInv

\* The frame in hand arrives as it is cut, of whatever frames the server has.
THEOREM PartsAlwaysMakeTheFrame == Spec => []PartsMakeTheFrame
<1>1. IInv => PartsMakeTheFrame
    BY EmptyFrameIsMade, EveryFrameIsMade, LensAssumption DEF IInv, TypeOK, PartsMakeTheFrame
<1> QED
    BY Invariance, <1>1, PTL
\* And it takes its interval to send, however long frame_interval_us is.
THEOREM PartsAlwaysFillTheInterval == Spec => []PartsFillTheInterval
<1>1. IInv => PartsFillTheInterval
    <2> SUFFICES ASSUME IInv, frame # 0, NEW time \in 0 .. MaxTime
                 PROVE  FillsInterval(frame, time)
        BY DEF PartsFillTheInterval
    <2>1. frame \in Nat \ {0} /\ time \in Nat
        BY DEF IInv, TypeOK
    <2> QED
        BY <2>1, EveryFrameFillsItsInterval
<1> QED
    BY Invariance, <1>1, PTL

=============================================================================
