-------------------------- MODULE FramePartsProofs --------------------------
(***************************************************************************)
(* That the parts of a frame make the frame, for any size of a part and    *)
(* any length of a frame.                                                  *)
(***************************************************************************)
EXTENDS FrameParts, FiniteSetTheorems, WellFoundedInduction, TLAPS

\* Division.  The products are of two variables, so each fact is stated for
\* itself and cited.
LEMMA DivMod ==
    ASSUME NEW a \in Nat, NEW p \in Nat \ {0}
    PROVE  a = p * (a \div p) + (a % p) /\ a % p \in 0 .. p - 1 /\ a \div p \in Nat
OBVIOUS

LEMMA NextMultiple ==
    ASSUME NEW p \in Nat \ {0}, NEW k \in Int, NEW j \in Int, k < j
    PROVE  p * k + p <= p * j
OBVIOUS

LEMMA DivIs ==
    ASSUME NEW p \in Nat \ {0}, NEW k \in Nat, NEW s \in 0 .. p - 1
    PROVE  (p * k + s) \div p = k
<1> DEFINE d == (p * k + s) \div p
           m == (p * k + s) % p
<1>1. p * k + s = p * d + m /\ m \in 0 .. p - 1 /\ d \in Nat
    <2>1. p * k + s \in Nat
        OBVIOUS
    <2> QED
        BY <2>1, DivMod
<1> HIDE DEF d, m
<1>2. ASSUME d < k PROVE FALSE
    BY <1>1, <1>2, NextMultiple
<1>3. ASSUME k < d PROVE FALSE
    BY <1>1, <1>3, NextMultiple
<1> QED
    BY <1>1, <1>2, <1>3 DEF d

\* msg_total is the number of rounds of the loop, and the last of them starts
\* inside the frame.
LEMMA Rounds ==
    ASSUME NEW len \in Nat \ {0}
    PROVE  /\ Total(len) \in Nat \ {0}
           /\ (len - 1) \div PartSize = Total(len) - 1
           /\ len - PartSize * (Total(len) - 1) \in 1 .. PartSize
<1> DEFINE q == len \div PartSize
           r == len % PartSize
<1>1. len = PartSize * q + r /\ r \in 0 .. PartSize - 1 /\ q \in Nat
    BY DivMod, SizesAssumption
<1>2. Total(len) = IF r > 0 THEN q + 1 ELSE q
    BY <1>1 DEF Total
<1> HIDE DEF q, r
<1>p. PartSize * q \in Nat
    BY <1>1, SizesAssumption
<1>3. CASE r > 0
    <2>1. len - 1 = PartSize * q + (r - 1)
        BY <1>1, <1>p, SizesAssumption
    <2>2. r - 1 \in 0 .. PartSize - 1
        BY <1>1, <1>3, SizesAssumption
    <2>3. (len - 1) \div PartSize = q
        BY <1>1, <2>1, <2>2, DivIs, SizesAssumption
    <2> QED
        BY <1>1, <1>2, <1>3, <2>3, SizesAssumption
<1>4. CASE r = 0
    <2>1. q > 0
        BY <1>1, <1>4, SizesAssumption
    <2>2. len - 1 = PartSize * (q - 1) + (PartSize - 1)
        BY <1>1, <1>4, <2>1, SizesAssumption
    <2>3. (len - 1) \div PartSize = q - 1
        BY <1>1, <2>1, <2>2, DivIs, SizesAssumption
    <2>4. len - PartSize * (q - 1) = PartSize
        BY <1>1, <1>4, SizesAssumption
    <2> QED
        BY <1>1, <1>2, <1>4, <2>1, <2>3, <2>4, SizesAssumption
<1> QED
    BY <1>1, <1>3, <1>4

\* The part of round k, and where it ends.
LEMMA PartOfRound ==
    ASSUME NEW len \in Nat \ {0}, NEW k \in 0 .. Total(len) - 1
    PROVE  LET part == Part(len, PartSize * k)
           IN  /\ part.number = k
               /\ part.from = PartSize * k
               /\ part.size \in 1 .. PartSize
               /\ k < Total(len) - 1 => part.size = PartSize
               /\ PartSize * k + part.size <= len
               /\ k = Total(len) - 1 => PartSize * k + part.size = len
<1> DEFINE last == Total(len) - 1
<1>1. last \in Nat /\ k \in 0 .. last
    BY Rounds
<1>2. len - PartSize * last \in 1 .. PartSize
    BY Rounds
<1>3. (PartSize * k) \div PartSize = k
    BY <1>1, DivIs, SizesAssumption
<1> HIDE DEF last
<1>4. k < last => PartSize * k + PartSize <= PartSize * last
    BY <1>1, NextMultiple, SizesAssumption
<1>5. PartSize * k \in Nat /\ PartSize * last \in Nat
    BY <1>1, SizesAssumption
<1>6. CASE k < last
    BY <1>1, <1>2, <1>3, <1>4, <1>5, <1>6, SizesAssumption DEF Part, last
<1>7. CASE k = last
    BY <1>1, <1>2, <1>3, <1>5, <1>7, SizesAssumption DEF Part, last
<1> QED
    BY <1>1, <1>6, <1>7

\* The messages sent, one for each round.
LEMMA PartsByRound ==
    ASSUME NEW len \in Nat \ {0}
    PROVE  Parts(len) = {Part(len, PartSize * k) : k \in 0 .. Total(len) - 1}
BY Rounds DEF Parts, Offsets

\* Every frame of at least one byte arrives as it was: msg_total messages, all of
\* them different, that cover the frame and nothing else, each byte at its place
\* (espfsp_send_whole_fb_within, espfsp_message_buffer_process_message).
THEOREM EveryFrameIsMade == \A len \in Nat \ {0} : MakeTheFrame(len)
<1> SUFFICES ASSUME NEW len \in Nat \ {0} PROVE MakeTheFrame(len)
    OBVIOUS
<1> DEFINE rounds == 0 .. Total(len) - 1
           part(k) == Part(len, PartSize * k)
<1>1. Total(len) \in Nat \ {0}
    BY Rounds
<1>2. Parts(len) = {part(k) : k \in rounds}
    BY PartsByRound
<1>3. \A k \in rounds :
        /\ part(k).number = k
        /\ part(k).from = PartSize * k
        /\ part(k).size \in 1 .. PartSize
        /\ k < Total(len) - 1 => part(k).size = PartSize
        /\ PartSize * k + part(k).size <= len
        /\ k = Total(len) - 1 => PartSize * k + part(k).size = len
    BY PartOfRound
<1> HIDE DEF part
<1>4. Cardinality(Parts(len)) = Total(len)
    <2> DEFINE f == [k \in rounds |-> part(k)]
    <2>1. f \in Bijection(rounds, Parts(len))
        <3>1. f \in [rounds -> Parts(len)]
            BY <1>2
        <3>2. \A j, k \in rounds : f[j] = f[k] => j = k
            BY <1>3
        <3>3. \A p \in Parts(len) : \E k \in rounds : f[k] = p
            BY <1>2
        <3> QED
            BY <3>1, <3>2, <3>3 DEF Bijection, Injection, Surjection, IsInjective
    <2>2. IsFiniteSet(rounds) /\ Cardinality(rounds) = Total(len)
        <3>1. /\ IsFiniteSet(rounds)
              /\ Cardinality(rounds) = IF 0 > Total(len) - 1 THEN 0 ELSE Total(len) - 1 - 0 + 1
            BY <1>1, FS_Interval, 0 \in Int, Total(len) - 1 \in Int
        <3> HIDE DEF rounds
        <3> QED
            BY <1>1, <3>1
    <2> QED
        BY <2>1, <2>2, FS_Bijection DEF ExistsBijection
<1>5. {p.number : p \in Parts(len)} = rounds
    BY <1>2, <1>3
<1>6. \A k \in rounds :
        /\ DOMAIN Stored(part(k)) = PartSize * k .. PartSize * k + part(k).size - 1
        /\ \A b \in DOMAIN Stored(part(k)) : Stored(part(k))[b] = b
    <2> SUFFICES ASSUME NEW k \in rounds
                 PROVE  /\ DOMAIN Stored(part(k)) = PartSize * k .. PartSize * k + part(k).size - 1
                        /\ \A b \in DOMAIN Stored(part(k)) : Stored(part(k))[b] = b
        OBVIOUS
    <2>1. PartSize * k \in Nat /\ k * PartSize = PartSize * k
        BY <1>1, SizesAssumption
    <2> QED
        BY <1>3, <2>1, SizesAssumption DEF Stored
<1>7. UNION {DOMAIN Stored(p) : p \in Parts(len)} = 0 .. len - 1
    <2>1. ASSUME NEW k \in rounds, NEW b \in DOMAIN Stored(part(k)) PROVE b \in 0 .. len - 1
        <3>1. PartSize * k \in Nat
            BY <1>1, SizesAssumption
        <3> QED
            BY <1>3, <1>6, <2>1, <3>1, SizesAssumption
    <2>2. ASSUME NEW b \in 0 .. len - 1 PROVE \E k \in rounds : b \in DOMAIN Stored(part(k))
        <3> DEFINE k == b \div PartSize
                   m == b % PartSize
        <3>1. b = PartSize * k + m /\ m \in 0 .. PartSize - 1 /\ k \in Nat
            <4>1. b \in Nat
                BY <1>1
            <4> QED
                BY <4>1, DivMod, SizesAssumption
        <3> HIDE DEF k, m
        <3>2. k <= Total(len) - 1
            <4>1. len - PartSize * (Total(len) - 1) \in 1 .. PartSize
                BY Rounds
            <4>2. ASSUME Total(len) - 1 < k PROVE FALSE
                <5>1. PartSize * (Total(len) - 1) + PartSize <= PartSize * k
                    BY <1>1, <3>1, <4>2, NextMultiple, SizesAssumption
                <5>2. PartSize * k \in Nat /\ PartSize * (Total(len) - 1) \in Nat
                    BY <1>1, <3>1, SizesAssumption
                <5> QED
                    BY <3>1, <4>1, <5>1, <5>2, SizesAssumption
            <4> QED
                BY <1>1, <3>1, <4>2
        <3>3. k \in rounds
            BY <1>1, <3>1, <3>2
        <3>4. b \in PartSize * k .. PartSize * k + part(k).size - 1
            <4>1. PartSize * k \in Nat
                BY <3>1, SizesAssumption
            <4>2. CASE k < Total(len) - 1
                BY <1>3, <3>1, <3>3, <4>1, <4>2, SizesAssumption
            <4>3. CASE k = Total(len) - 1
                BY <1>3, <3>1, <3>3, <4>1, <4>3, SizesAssumption
            <4> QED
                BY <1>1, <3>1, <3>2, <4>2, <4>3
        <3> QED
            BY <1>6, <3>3, <3>4
    <2> QED
        BY <1>2, <2>1, <2>2
<1>8. \A p \in Parts(len) : \A b \in DOMAIN Stored(p) : Stored(p)[b] = b
    BY <1>2, <1>6
<1> QED
    BY <1>1, <1>4, <1>5, <1>7, <1>8 DEF MakeTheFrame

\* Nothing is sent of an empty frame.  (What comes before the loop, the division
\* by its number of parts, is another matter.)
LEMMA EmptyFrameIsMade == MakeTheFrame(0)
<1>1. Total(0) = 0
    BY DivMod, SizesAssumption DEF Total
<1>2. Parts(0) = {}
    <2>1. (0 - 1) \div PartSize < 0
        BY SizesAssumption
    <2> QED
        BY <2>1, SizesAssumption DEF Parts, Offsets
<1>3. Cardinality({}) = 0
    BY FS_EmptySet
<1>4. 0 .. 0 - 1 = {}
    OBVIOUS
<1>5. {p.number : p \in {}} = {} /\ UNION {DOMAIN Stored(p) : p \in {}} = {}
    OBVIOUS
<1> QED
    BY <1>1, <1>2, <1>3, <1>4, <1>5 DEF MakeTheFrame
\* The remainder that goes with DivIs.
LEMMA ModIs ==
    ASSUME NEW p \in Nat \ {0}, NEW k \in Nat, NEW s \in 0 .. p - 1
    PROVE  (p * k + s) % p = s
<1> DEFINE d == (p * k + s) \div p
           m == (p * k + s) % p
<1>1. p * k + s \in Nat
    OBVIOUS
<1>2. p * k + s = p * d + m
    BY <1>1, DivMod
<1>3. d = k
    BY DivIs
<1> HIDE DEF d, m
<1>4. p * k \in Nat
    OBVIOUS
<1>5. m \in Int
    <2>1. m \in 0 .. p - 1
        BY <1>1, DivMod DEF m
    <2> QED
        BY <2>1
<1>6. p * k + s = p * k + m
    BY <1>2, <1>3
<1>7. s = m
    <2> DEFINE a == p * k
    <2>1. a \in Nat /\ a + s = a + m
        BY <1>4, <1>6
    <2> HIDE DEF a
    <2> QED
        BY <1>5, <2>1
<1> QED
    BY <1>7 DEF m

\* A share is added to a time counted in ticks and what is left of them.
LEMMA TicksOfSum ==
    ASSUME NEW t \in Nat, NEW share \in Nat
    PROVE  LET left == (t % TickUs) + share IN
           /\ left \in Nat
           /\ (t \div TickUs) + (left \div TickUs) = (t + share) \div TickUs
           /\ Carry(left) = (t + share) % TickUs
<1> DEFINE left == (t % TickUs) + share
           q == t \div TickUs
           u == left \div TickUs
           r == left % TickUs
<1>1. t = TickUs * q + (t % TickUs) /\ t % TickUs \in 0 .. TickUs - 1 /\ q \in Nat
    BY DivMod, SizesAssumption
<1>2. left \in Nat
    BY <1>1, SizesAssumption
<1>3. left = TickUs * u + r /\ r \in 0 .. TickUs - 1 /\ u \in Nat
    BY <1>2, DivMod, SizesAssumption
<1>4. TickUs * (q + u) = TickUs * q + TickUs * u
    BY <1>1, <1>3, SizesAssumption
<1>5. t + share = TickUs * (q + u) + r
    <2> DEFINE a == TickUs * q
               b == TickUs * u
               c == t % TickUs
    <2>1. a \in Nat /\ b \in Nat /\ c \in Nat /\ r \in Nat
        BY <1>1, <1>3, SizesAssumption
    <2>2. t = a + c /\ c + share = b + r
        BY <1>1, <1>3
    <2> HIDE DEF a, b, c, r
    <2>3. t + share = (a + b) + r
        BY <2>1, <2>2
    <2> QED
        BY <1>4, <2>3 DEF a, b
<1>6. q + u \in Nat
    BY <1>1, <1>3
<1>7. (t + share) \div TickUs = q + u /\ (t + share) % TickUs = r
    <2> HIDE DEF q, u, r
    <2> QED
        BY <1>3, <1>5, <1>6, DivIs, ModIs, SizesAssumption
<1>8. Carry(left) = r
    <2>1. CASE TickUs <= left
        BY <2>1 DEF Carry
    <2>2. CASE ~(TickUs <= left)
        <3>1. left \in 0 .. TickUs - 1 /\ left = TickUs * 0 + left
            BY <1>2, <2>2, SizesAssumption
        <3>2. left % TickUs = left
            <4> HIDE DEF left
            <4> QED
                BY <3>1, ModIs, SizesAssumption
        <3> QED
            BY <2>2, <3>2 DEF Carry
    <2> QED
        BY <2>1, <2>2
<1> QED
    BY <1>2, <1>7, <1>8

\* A set of natural numbers has a least one.
LEMMA Least ==
    ASSUME NEW T, T \subseteq Nat, T # {}
    PROVE  \E k \in T : \A j \in T : ~(j < k)
<1>1. \E k \in T : \A j \in T : ~(<<j, k>> \in OpToRel(<, Nat))
    BY NatLessThanWellFounded, WFMin
<1>2. \A j, k \in Nat : j < k => <<j, k>> \in OpToRel(<, Nat)
    BY DEF OpToRel
<1> QED
    BY <1>1, <1>2
\* One round of the pacing: what its recursive function makes of itself.
PacingRound(g, total, share) ==
    [k \in 0 .. total |->
        IF k = 0 THEN [ticks |-> 0, acc |-> 0]
        ELSE LET acc == g[k - 1].acc + share
             IN  [ticks |-> g[k - 1].ticks + acc \div TickUs, acc |-> Carry(acc)]]

\* What the pacing should come to: the whole ticks in k shares, and the rest.
Shares(total, share) ==
    [k \in 0 .. total |-> [ticks |-> (k * share) \div TickUs, acc |-> (k * share) % TickUs]]

\* The shares satisfy the recursion,
LEMMA SharesRound ==
    ASSUME NEW total \in Nat, NEW share \in Nat, NEW k \in 1 .. total, NEW g,
           g[k - 1] = Shares(total, share)[k - 1]
    PROVE  PacingRound(g, total, share)[k] = Shares(total, share)[k]
<1> DEFINE t == (k - 1) * share
           left == (t % TickUs) + share
<1>1. t \in Nat /\ t + share = k * share
    OBVIOUS
<1>2. g[k - 1] = [ticks |-> t \div TickUs, acc |-> t % TickUs]
    BY DEF Shares
<1>3. /\ (t \div TickUs) + (left \div TickUs) = (k * share) \div TickUs
      /\ Carry(left) = (k * share) % TickUs
    <2> HIDE DEF t
    <2> QED
        BY <1>1, TicksOfSum
<1> HIDE DEF t
<1>4. k \in 0 .. total /\ k # 0
    OBVIOUS
<1>5. PacingRound(g, total, share)[k] =
        [ticks |-> (t \div TickUs) + (left \div TickUs), acc |-> Carry(left)]
    BY <1>2, <1>4 DEF PacingRound
<1>6. Shares(total, share)[k] = [ticks |-> (k * share) \div TickUs, acc |-> (k * share) % TickUs]
    BY <1>4 DEF Shares
<1> QED
    BY <1>3, <1>5, <1>6

LEMMA SharesStart ==
    ASSUME NEW total \in Nat, NEW share \in Nat
    PROVE  Shares(total, share)[0] = [ticks |-> 0, acc |-> 0]
<1>1. 0 \in 0 .. total /\ 0 * share = 0
    OBVIOUS
<1>2. 0 \div TickUs = 0 /\ 0 % TickUs = 0
    BY SizesAssumption
<1> QED
    BY <1>1, <1>2 DEF Shares

LEMMA SharesPace ==
    ASSUME NEW total \in Nat, NEW share \in Nat
    PROVE  PacingRound(Shares(total, share), total, share) = Shares(total, share)
<1> DEFINE s == Shares(total, share)
           p == PacingRound(s, total, share)
<1>1. ASSUME NEW k \in 0 .. total PROVE p[k] = s[k]
    <2>1. CASE k = 0
        <3>1. p[0] = [ticks |-> 0, acc |-> 0]
            BY DEF PacingRound
        <3> QED
            BY <2>1, <3>1, SharesStart
    <2>2. CASE k # 0
        <3>1. k \in 1 .. total
            BY <2>2
        <3>2. s[k - 1] = Shares(total, share)[k - 1]
            OBVIOUS
        <3> HIDE DEF s
        <3>3. PacingRound(s, total, share)[k] = Shares(total, share)[k]
            BY <3>1, <3>2, SharesRound
        <3> QED
            BY <3>3 DEF s
    <2> QED
        BY <2>1, <2>2
<1>2. p = [k \in 0 .. total |-> p[k]] /\ s = [k \in 0 .. total |-> s[k]]
    BY DEF PacingRound, Shares
<1> HIDE DEF p, s
<1>3. p = s
    BY <1>1, <1>2
<1> QED
    BY <1>3 DEF p, s

\* and nothing else does: where another function first differed from them, the
\* round before would already have.
LEMMA PaceIsShares ==
    ASSUME NEW total \in Nat, NEW share \in Nat, NEW g, g = PacingRound(g, total, share)
    PROVE  g = Shares(total, share)
<1> DEFINE s == Shares(total, share)
           wrong == {k \in 0 .. total : g[k] # s[k]}
<1>1. ASSUME wrong # {} PROVE FALSE
    <2>1. wrong \subseteq Nat
        OBVIOUS
    <2>2. PICK k \in wrong : \A j \in wrong : ~(j < k)
        <3> HIDE DEF wrong
        <3> QED
            BY <1>1, <2>1, Least
    <2>3. k \in 0 .. total /\ g[k] # s[k]
        BY <2>2
    <2>4. k # 0
        <3>1. g[0] = [ticks |-> 0, acc |-> 0]
            BY DEF PacingRound
        <3> QED
            BY <2>3, <3>1, SharesStart
    <2>5. k \in 1 .. total /\ k - 1 \in 0 .. total /\ k - 1 < k
        BY <2>3, <2>4
    <2>6. g[k - 1] = Shares(total, share)[k - 1]
        BY <2>2, <2>5
    <2>7. PacingRound(g, total, share)[k] = Shares(total, share)[k]
        BY <2>5, <2>6, SharesRound
    <2> QED
        BY <2>3, <2>7
<1>2. \A k \in 0 .. total : g[k] = s[k]
    BY <1>1
<1>3. g = [k \in 0 .. total |-> g[k]]
    <2> DEFINE p == PacingRound(g, total, share)
    <2>1. p = [k \in 0 .. total |-> p[k]]
        BY DEF PacingRound
    <2>2. g = p
        OBVIOUS
    <2> HIDE DEF p
    <2> QED
        BY <2>1, <2>2
<1>4. s = [k \in 0 .. total |-> s[k]]
    BY DEF Shares
<1> HIDE DEF s
<1> QED
    BY <1>2, <1>3, <1>4 DEF s

\* After k parts the task has slept the whole ticks in k shares of the interval
\* and carries the rest along, to the end of the frame.
LEMMA PacedIsShares ==
    ASSUME NEW total \in Nat, NEW time, time \div total \in Nat
    PROVE  Paced(time, total) = Shares(total, time \div total)
<1> DEFINE share == time \div total
<1>1. Paced(time, total) = CHOOSE g : g = PacingRound(g, total, share)
    BY DEF Paced, PacingRound
<1> HIDE DEF share
<1>2. share \in Nat
    BY DEF share
<1>3. \E g : g = PacingRound(g, total, share)
    BY <1>2, SharesPace
<1>4. Paced(time, total) = PacingRound(Paced(time, total), total, share)
    BY <1>1, <1>3
<1>5. Paced(time, total) = Shares(total, share)
    <2> DEFINE g == Paced(time, total)
    <2>1. g = PacingRound(g, total, share)
        BY <1>4
    <2> HIDE DEF g
    <2>2. g = Shares(total, share)
        BY <1>2, <2>1, PaceIsShares
    <2> QED
        BY <2>2 DEF g
<1> QED
    BY <1>5 DEF share
\* A frame takes its interval to send, whatever its length, the size of a part, the
\* length of a tick and the interval: after each part the task has slept the whole
\* ticks of the shares so far, it is never late, and early by less than a tick and
\* a microsecond per part (espfsp_send_whole_fb_within).
THEOREM EveryFrameFillsItsInterval ==
    \A len \in Nat \ {0} : \A time \in Nat : FillsInterval(len, time)
<1> SUFFICES ASSUME NEW len \in Nat \ {0}, NEW time \in Nat PROVE FillsInterval(len, time)
    OBVIOUS
<1> DEFINE total == Total(len)
           share == time \div total
           rest == time % total
           whole == total * share
           ticks == whole \div TickUs
           left == whole % TickUs
<1>1. total \in Nat \ {0}
    BY Rounds
<1>2. time = whole + rest /\ rest \in 0 .. total - 1 /\ share \in Nat
    <2> HIDE DEF total
    <2> QED
        BY <1>1, DivMod
<1>3. Paced(time, total) = Shares(total, share)
    <2> HIDE DEF total
    <2> QED
        BY <1>1, <1>2, PacedIsShares
<1>4. \A k \in 0 .. total : Paced(time, total)[k].ticks = (k * share) \div TickUs
    <2> HIDE DEF total, share
    <2> QED
        BY <1>3 DEF Shares
<1>5. Paced(time, total)[total].ticks = ticks
    <2>1. total \in 0 .. total
        BY <1>1
    <2> QED
        BY <1>4, <2>1
<1>6. whole \in Nat
    <2> HIDE DEF total, share
    <2> QED
        BY <1>1, <1>2 DEF whole
<1>7. whole = TickUs * ticks + left /\ left \in 0 .. TickUs - 1 /\ ticks \in Nat
    <2> HIDE DEF whole
    <2> QED
        BY <1>6, DivMod, SizesAssumption
<1>8. ticks * TickUs <= time /\ time - ticks * TickUs < TickUs + total
    <2> HIDE DEF total, share, rest, whole, ticks, left
    <2> DEFINE slept == TickUs * ticks
    <2>1. slept \in Nat /\ ticks * TickUs = slept
        BY <1>7, SizesAssumption
    <2>2. time = (slept + left) + rest
        BY <1>2, <1>7
    <2> HIDE DEF slept
    <2>3. slept <= time /\ time - slept < TickUs + total
        BY <1>1, <1>2, <1>7, <2>1, <2>2, SizesAssumption
    <2> QED
        BY <2>1, <2>3
<1> QED
    BY <1>4, <1>5, <1>8 DEF FillsInterval

=============================================================================
