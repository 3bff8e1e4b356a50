----------------------------- MODULE FrameParts -----------------------------
(***************************************************************************)
(* How a frame is cut into messages, how the messages are spread over the  *)
(* interval of a frame (espfsp_send_whole_fb_within in espfsp_sock_op.c)   *)
(* and where the receiver puts them (espfsp_message_buffer_process_message *)
(* in espfsp_message_buffer.c).                                            *)
(***************************************************************************)
EXTENDS Integers, FiniteSets

CONSTANTS
    PartSize,    \* MESSAGE_BUFFER_SIZE
    TickUs       \* portTICK_PERIOD_US

ASSUME SizesAssumption == PartSize \in Nat \ {0} /\ TickUs \in Nat \ {0}

\* msg_total
Total(len) == len \div PartSize + (IF len % PartSize > 0 THEN 1 ELSE 0)

\* The values of i in the loop over the frame.
Offsets(len) == {PartSize * k : k \in 0 .. (len - 1) \div PartSize}

\* Faulty variant of Part: every part is sent as a full one.
PartFull(len, i) == [number |-> i \div PartSize, from |-> i, size |-> PartSize]

\* msg_number, where in the frame buf comes from, and msg_len
Part(len, i) ==
    [number |-> i \div PartSize,
     from   |-> i,
     size   |-> IF i + PartSize <= len THEN PartSize ELSE len - i]

Parts(len) == {Part(len, i) : i \in Offsets(len)}

\* The bytes of its assembly a part is copied to, and what is copied there.
Stored(part) ==
    [b \in part.number * PartSize .. part.number * PartSize + part.size - 1 |->
        part.from + (b - part.number * PartSize)]

\* Faulty variant of Carry: what is left of a tick is forgotten.
CarryNone(acc) == 0

\* acc_time_to_wait_us after the delay for its whole ticks
Carry(acc) == IF TickUs <= acc THEN acc % TickUs ELSE acc

\* The ticks slept and the time left over after k parts of a frame of `total'
\* parts; time is frame_interval_us.  A frame without a byte has no parts, and the
\* share of a part is undefined.
Paced(time, total) ==
    LET after[k \in 0 .. total] ==
            IF k = 0 THEN [ticks |-> 0, acc |-> 0]
            ELSE LET acc == after[k - 1].acc + time \div total
                 IN  [ticks |-> after[k - 1].ticks + acc \div TickUs, acc |-> Carry(acc)]
    IN  after

-----------------------------------------------------------------------------
\* A frame is complete exactly when all of it has been stored, whatever order its
\* parts come in: msg_total messages are sent, no two of them the same, and each
\* byte of the frame is stored once, at its own place, and none beyond it.
\* (espfsp_message_buffer_process_message compares msg_received with msg_total
\* and looks at nothing else.)
MakeTheFrame(len) ==
    /\ Cardinality(Parts(len)) = Total(len)
    /\ {p.number : p \in Parts(len)} = 0 .. Total(len) - 1
    /\ UNION {DOMAIN Stored(p) : p \in Parts(len)} = 0 .. len - 1
    /\ \A p \in Parts(len) : \A b \in DOMAIN Stored(p) : Stored(p)[b] = b

\* A frame takes its interval to send and no longer: after k of its parts the
\* task has slept for all the whole ticks in k shares of the interval, so at the
\* end of the frame it is never late, and early by less than a tick and a
\* microsecond per part.
FillsInterval(len, time) ==
    LET total == Total(len)
        slept == Paced(time, total)
    IN  /\ \A k \in 0 .. total : slept[k].ticks = (k * (time \div total)) \div TickUs
        /\ slept[total].ticks * TickUs <= time
        /\ time - slept[total].ticks * TickUs < TickUs + total

=============================================================================
