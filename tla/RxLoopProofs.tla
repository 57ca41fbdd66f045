----------------------------- MODULE RxLoopProofs -----------------------------
(***************************************************************************)
(* Types of the receive path in the main loop, for every byte alphabet,    *)
(* frame size, FIFO, timeout, loop period and pause that the assumptions   *)
(* allow, and for every number of frames; with them the lemmas on bytes    *)
(* and frames that FrameChannelProofs builds on.                           *)
(*                                                                         *)
(* The parser's own invariant IInv (SxiReceiveProofs) carries over: each   *)
(* step of the loop is a step of the parser or adds bytes to the FIFO.     *)
(***************************************************************************)
EXTENDS RxLoop, SxiReceiveProofs

\* The part of LoopTypeOK that is about the loop's own variables.
LoopType ==
    /\ pc \in {"usb", "sxi", "protocol", "answer"}
    /\ wire \in Seq(Byte)
    /\ next_ctr \in Ctr
    /\ last \in {"whole", "broken", "oversized"}
    /\ broken \in Nat
    /\ sent \in Seq([ctr : Ctr, payload : Payloads])
    /\ delivered \in Seq([ctr : Ctr, payload : Seq(Byte)])
    /\ \A i \in 1 .. Len(delivered) : Len(delivered[i].payload) <= MaxCto
    /\ quiet \in 0 .. Pause

-----------------------------------------------------------------------------
\* Lemmas about numbers, bytes and frames.

LEMMA LoopConstants ==
    /\ LoopGap \in Nat /\ LoopGap > 0 /\ LoopGap <= IdleTimeout
    /\ Pause \in Nat /\ IdleTimeout + LoopGap < Pause
    /\ FirstCtr \in Ctr /\ MaxCto + 1 \in Ctr /\ MaxCto \in Ctr
    /\ \A p \in Payloads : /\ p \in Seq(Byte) /\ Len(p) \in Nat
                           /\ Len(p) <= MaxCto /\ Len(p) \in Ctr
<1>1. CtrMod \in Nat
  BY ReceiveAssumption DEF CtrMod
<1>2. \A p \in Payloads : p \in Seq(Byte) /\ Len(p) <= MaxCto /\ Len(p) \in Nat
  BY LoopAssumption, LenProperties
<1> QED BY <1>1, <1>2, LoopAssumption, ReceiveAssumption DEF Ctr

LEMMA DivisionParts ==
    ASSUME NEW r \in Nat, r > 1, NEW x \in 0 .. r * r - 1
    PROVE  /\ x % r \in 0 .. r - 1 /\ x \div r \in 0 .. r - 1
           /\ (x % r) + r * (x \div r) = x
OBVIOUS

\* The two digits of a 16-bit value are bytes, and read back they are the value.
LEMMA Digits ==
    ASSUME NEW x \in Ctr
    PROVE  /\ x % Radix \in Byte /\ x \div Radix \in Byte
           /\ U16(x % Radix, x \div Radix) = x
BY ReceiveAssumption, DivisionParts DEF Ctr, CtrMod, Byte, U16

LEMMA FourBytes ==
    ASSUME NEW a \in Byte, NEW b \in Byte, NEW c \in Byte, NEW d \in Byte
    PROVE  /\ <<a, b, c, d>> \in Seq(Byte) /\ Len(<<a, b, c, d>>) = 4
           /\ <<a, b, c, d>>[1] = a /\ <<a, b, c, d>>[2] = b
           /\ <<a, b, c, d>>[3] = c /\ <<a, b, c, d>>[4] = d
OBVIOUS

\* A header for LEN len and CTR c, as Frame and Oversized write it, and bytes
\* after it.
Header(len, c) == <<len % Radix, len \div Radix, c % Radix, c \div Radix>>
Headed(len, c, p) == Header(len, c) \o p

LEMMA HeaderShape ==
    ASSUME NEW len \in Ctr, NEW c \in Ctr, NEW p \in Seq(Byte)
    PROVE  /\ Headed(len, c, p) \in Seq(Byte) /\ Len(p) \in Nat
           /\ Len(Headed(len, c, p)) = HeaderSize + Len(p)
           /\ U16(Headed(len, c, p)[1], Headed(len, c, p)[2]) = len
           /\ U16(Headed(len, c, p)[3], Headed(len, c, p)[4]) = c
           /\ SubSeq(Headed(len, c, p), HeaderSize + 1, HeaderSize + Len(p)) = p
<1> DEFINE h == Header(len, c)
<1>1. /\ h \in Seq(Byte) /\ Len(h) = 4
      /\ U16(h[1], h[2]) = len /\ U16(h[3], h[4]) = c
  BY Digits, FourBytes DEF Header
<1> HIDE DEF h
<1>2. Len(p) \in Nat
  BY LenProperties
<1>3. /\ h \o p \in Seq(Byte) /\ Len(h \o p) = 4 + Len(p)
      /\ \A i \in 1 .. 4 + Len(p) :
             (h \o p)[i] = IF i <= 4 THEN h[i] ELSE p[i - 4]
  <2>1. /\ h \o p \in Seq(Byte) /\ Len(h \o p) = Len(h) + Len(p)
        /\ \A i \in 1 .. Len(h) + Len(p) :
               (h \o p)[i] = IF i <= Len(h) THEN h[i] ELSE p[i - Len(h)]
    BY <1>1, ConcatProperties
  <2> QED BY <1>1, <2>1
<1>4. /\ (h \o p)[1] = h[1] /\ (h \o p)[2] = h[2]
      /\ (h \o p)[3] = h[3] /\ (h \o p)[4] = h[4]
  BY <1>2, <1>3
<1>5. SubSeq(h \o p, 5, 4 + Len(p)) = p
  <2> DEFINE q == h \o p  s == SubSeq(q, 5, 4 + Len(p))
  <2>1. \A i \in 5 .. 4 + Len(p) : q[i] \in Byte
    BY <1>2, <1>3, ElementOfSeq
  <2>2. \A i \in 5 .. 4 + Len(p) : q[i] = p[i - 4]
    BY <1>2, <1>3
  <2>3. \A i \in 1 .. Len(p) : q[4 + i] = p[i]
    <3> TAKE i \in 1 .. Len(p)
    <3>1. 4 + i \in 5 .. 4 + Len(p) /\ (4 + i) - 4 = i
      BY <1>2
    <3> QED BY <2>2, <3>1
  <2> HIDE DEF q
  <2>4. /\ s \in Seq(Byte) /\ Len(s) = Len(p)
        /\ \A i \in 1 .. Len(p) : s[i] = q[5 + i - 1]
    BY <1>2, <2>1, SubSeqProperties
  <2>5. \A i \in 1 .. Len(s) : s[i] = p[i]
    BY <1>2, <2>3, <2>4
  <2> HIDE DEF s
  <2>6. s = p
    BY <2>4, <2>5, SeqEqual
  <2> QED BY <2>6 DEF s, q
<1> QED BY <1>1, <1>2, <1>3, <1>4, <1>5 DEF h, Headed, HeaderSize

\* A frame is bytes, and its header and payload read back as they were written.
LEMMA FrameShape ==
    ASSUME NEW c \in Ctr, NEW p \in Payloads
    PROVE  /\ Frame(c, p) \in Seq(Byte)
           /\ Len(Frame(c, p)) = HeaderSize + Len(p)
           /\ U16(Frame(c, p)[1], Frame(c, p)[2]) = Len(p)
           /\ U16(Frame(c, p)[3], Frame(c, p)[4]) = c
           /\ SubSeq(Frame(c, p), HeaderSize + 1, HeaderSize + Len(p)) = p
<1>1. p \in Seq(Byte) /\ Len(p) \in Ctr
  BY LoopConstants
<1>2. Frame(c, p) = Headed(Len(p), c, p)
  BY DEF Frame, Header, Headed
<1>3. \A n \in Ctr :
          /\ Headed(n, c, p) \in Seq(Byte)
          /\ Len(Headed(n, c, p)) = HeaderSize + Len(p)
          /\ U16(Headed(n, c, p)[1], Headed(n, c, p)[2]) = n
          /\ U16(Headed(n, c, p)[3], Headed(n, c, p)[4]) = c
          /\ SubSeq(Headed(n, c, p), HeaderSize + 1, HeaderSize + Len(p)) = p
  BY <1>1, HeaderShape
<1> QED BY <1>1, <1>2, <1>3

LEMMA OversizedShape ==
    ASSUME NEW c \in Ctr, NEW j \in Junk
    PROVE  /\ Headed(MaxCto + 1, c, j) = Oversized(c) \o j
           /\ Headed(MaxCto + 1, c, j) \in Seq(Byte) /\ Len(j) \in Nat
           /\ Len(Headed(MaxCto + 1, c, j)) = HeaderSize + Len(j)
           /\ U16(Headed(MaxCto + 1, c, j)[1], Headed(MaxCto + 1, c, j)[2])
                 = MaxCto + 1
<1>1. j \in Seq(Byte) /\ MaxCto + 1 \in Ctr
  BY LoopConstants, LoopAssumption
<1>2. Headed(MaxCto + 1, c, j) = Oversized(c) \o j
  BY DEF Oversized, Header, Headed
<1>3. /\ Headed(MaxCto + 1, c, j) \in Seq(Byte) /\ Len(j) \in Nat
      /\ Len(Headed(MaxCto + 1, c, j)) = HeaderSize + Len(j)
      /\ U16(Headed(MaxCto + 1, c, j)[1], Headed(MaxCto + 1, c, j)[2]) = MaxCto + 1
  <2> DEFINE n == MaxCto + 1
  <2>1. n \in Ctr /\ j \in Seq(Byte)
    BY <1>1
  <2> HIDE DEF n
  <2>2. /\ Headed(n, c, j) \in Seq(Byte) /\ Len(j) \in Nat
        /\ Len(Headed(n, c, j)) = HeaderSize + Len(j)
        /\ U16(Headed(n, c, j)[1], Headed(n, c, j)[2]) = n
    BY <2>1, HeaderShape
  <2> QED BY <2>2 DEF n
<1> QED BY <1>2, <1>3, Zenon

\* A piece from the front of a sequence.
LEMMA FrontShape ==
    ASSUME NEW s \in Seq(Byte), NEW n \in Nat, n <= Len(s)
    PROVE  /\ SubSeq(s, 1, n) \in Seq(Byte) /\ Len(SubSeq(s, 1, n)) = n
           /\ \A i \in 1 .. n : SubSeq(s, 1, n)[i] = s[i]
           /\ SubSeq(s, n + 1, Len(s)) \in Seq(Byte)
           /\ Len(SubSeq(s, n + 1, Len(s))) = Len(s) - n
           /\ SubSeq(s, 1, n) \o SubSeq(s, n + 1, Len(s)) = s
<1>1. Len(s) \in Nat /\ \A i \in 1 .. Len(s) : s[i] \in Byte
  BY LenProperties, ElementOfSeq
<1>2. /\ SubSeq(s, 1, n) \in Seq(Byte) /\ Len(SubSeq(s, 1, n)) = n
      /\ \A i \in 1 .. n : SubSeq(s, 1, n)[i] = s[i]
  <2>1. \A i \in 1 .. n : s[i] \in Byte
    BY <1>1
  <2>2. /\ SubSeq(s, 1, n) \in Seq(Byte)
        /\ Len(SubSeq(s, 1, n)) = IF 1 <= n THEN n - 1 + 1 ELSE 0
        /\ \A i \in 1 .. n - 1 + 1 : SubSeq(s, 1, n)[i] = s[1 + i - 1]
    BY <2>1, SubSeqProperties
  <2> QED BY <2>2
<1>3. /\ SubSeq(s, n + 1, Len(s)) \in Seq(Byte)
      /\ Len(SubSeq(s, n + 1, Len(s))) = Len(s) - n
  <2>1. \A i \in n + 1 .. Len(s) : s[i] \in Byte
    BY <1>1
  <2>2. /\ SubSeq(s, n + 1, Len(s)) \in Seq(Byte)
        /\ Len(SubSeq(s, n + 1, Len(s)))
               = IF n + 1 <= Len(s) THEN Len(s) - (n + 1) + 1 ELSE 0
    BY <1>1, <2>1, SubSeqProperties
  <2> QED BY <1>1, <2>2
<1>4. SubSeq(s, 1, n) \o SubSeq(s, n + 1, Len(s)) = s
  <2>1. SubSeq(s, 1, n) \o SubSeq(s, n + 1, Len(s)) = SubSeq(s, 1, Len(s))
    <3>1. /\ 1 \in 1 .. Len(s) + 1 /\ n \in 1 - 1 .. Len(s)
          /\ Len(s) \in n .. Len(s)
      BY <1>1
    <3> QED BY <3>1, ConcatAdjacentSubSeq
  <2> QED BY <2>1, SubSeqFull
<1> QED BY <1>2, <1>3, <1>4

-----------------------------------------------------------------------------
\* Types.

LEMMA LoopTypeParts == (LoopTypeOK <=> TypeOK /\ LoopType)
BY DEF LoopTypeOK, LoopType

\* CTRs count round.
Succ(c) == (c + 1) % CtrMod

LEMMA CountRound ==
    ASSUME NEW m \in Nat, m > 0, NEW c \in 0 .. m - 1
    PROVE  (c + 1) % m = IF c + 1 = m THEN 0 ELSE c + 1
OBVIOUS

LEMMA CtrModType == CtrMod \in Nat /\ CtrMod > 0
<1>1. Radix \in Nat /\ Radix > 1
  BY ReceiveAssumption
<1> QED BY <1>1 DEF CtrMod

LEMMA SuccType ==
    ASSUME NEW c \in Ctr
    PROVE  Succ(c) \in Ctr /\ Succ(c) = IF c + 1 = CtrMod THEN 0 ELSE c + 1
BY CtrModType, CountRound DEF Succ, Ctr

LEMMA BytesAssociative ==
    ASSUME NEW s \in Seq(Byte), NEW t \in Seq(Byte), NEW u \in Seq(Byte)
    PROVE  (s \o t) \o u = s \o (t \o u)
BY ConcatAssociative, SMTT(30)

\* tud_task moves bytes from the wire to the FIFO and loses none.
LEMMA FillShape ==
    ASSUME fifo \in Seq(Byte), wire \in Seq(Byte), Fill
    PROVE  /\ fifo' \in Seq(Byte) /\ Len(fifo') <= FifoCap
           /\ wire' \in Seq(Byte) /\ fifo' \o wire' = fifo \o wire
           /\ fifo' # <<>> /\ wire # <<>>
           /\ arrived \in Nat => arrived' \in Nat
<1>1. PICK n \in 1 .. Len(wire) :
          /\ Len(fifo) + n <= FifoCap
          /\ fifo' = fifo \o SubSeq(wire, 1, n)
          /\ wire' = SubSeq(wire, n + 1, Len(wire))
          /\ arrived' = arrived + n
  BY DEF Fill
<1>2. Len(wire) \in Nat /\ Len(fifo) \in Nat
  BY LenProperties
<1>3. n \in Nat /\ n >= 1 /\ n <= Len(wire)
  BY <1>2
<1> DEFINE a == SubSeq(wire, 1, n)  b == SubSeq(wire, n + 1, Len(wire))
<1>4. a \in Seq(Byte) /\ Len(a) = n /\ b \in Seq(Byte) /\ a \o b = wire
  BY <1>3, FrontShape
<1>5. fifo' = fifo \o a /\ wire' = b
  BY <1>1
<1> HIDE DEF a, b
<1>6. fifo \o a \in Seq(Byte) /\ Len(fifo \o a) = Len(fifo) + n
  BY <1>4, ConcatProperties
<1>7. (fifo \o a) \o b = fifo \o (a \o b)
  <2>1. fifo \in Seq(Byte) /\ a \in Seq(Byte) /\ b \in Seq(Byte)
    BY <1>4
  <2> QED BY <2>1, BytesAssociative, Zenon
<1>8. fifo' # <<>> /\ wire # <<>>
  <2>1. Len(fifo') > 0 /\ Len(wire) > 0
    BY <1>2, <1>3, <1>5, <1>6
  <2> QED BY <2>1, EmptySeq
<1>9. arrived \in Nat => arrived' \in Nat
  BY <1>1, <1>3
<1> QED BY <1>1, <1>4, <1>5, <1>6, <1>7, <1>8, <1>9

LEMMA FillInvariant ==
    ASSUME IInv, LoopType, Fill,
           UNCHANGED <<parserVars, ctrVars, rx_last_byte_time, clockVars,
                       stats, taken, silence>>
    PROVE  IInv'
<1>1. /\ TypeOK /\ ParserShape /\ SilenceMeasured
      /\ ParserType /\ ClockType /\ CountType
  BY TypeParts DEF IInv
<1>2. fifo' \in Seq(Byte) /\ Len(fifo') <= FifoCap /\ arrived' \in Nat
  BY <1>1, FillShape DEF LoopType, ParserType, CountType
<1>3. ParserType' /\ ParserShape'
  BY <1>1, <1>2 DEF ParserType, ParserShape, parserVars, ctrVars
<1>4. ClockType' /\ CountType' /\ SilenceMeasured'
  BY <1>1, <1>2 DEF ClockType, CountType, SilenceMeasured, MidFrame, Elapsed,
     parserVars, clockVars
<1> QED BY <1>3, <1>4, TypeParts DEF IInv

LEMMA SameInvariant == IInv /\ UNCHANGED vars => IInv'
BY StepInvariant

\* Every step keeps the parser's invariant.
LEMMA LoopKeepsParser ==
    ASSUME IInv, LoopType, [LoopNext]_loopVars
    PROVE  IInv'
<1>1. CASE WriteWhole \/ WriteBroken \/ WriteOversized
  BY <1>1, SameInvariant DEF WriteWhole, WriteBroken, WriteOversized, Write
<1>2. CASE FillMeanwhile
  BY <1>2, FillInvariant DEF FillMeanwhile
<1>3. CASE UsbTask
  <2>1. CASE Fill
    BY <1>3, <2>1, FillInvariant DEF UsbTask
  <2>2. CASE UNCHANGED <<fifo, wire, arrived>>
    BY <1>3, <2>2, SameInvariant
       DEF UsbTask, vars, parserVars, ctrVars, clockVars
  <2> QED BY <1>3, <2>1, <2>2 DEF UsbTask
<1>4. CASE LoopSxiTask
  BY <1>4, TaskInvariant DEF LoopSxiTask
<1>5. CASE ProtocolTask
  <2>1. GetPacket \/ UNCHANGED vars
    BY <1>5 DEF ProtocolTask
  <2> QED BY <2>1, StepInvariant DEF Next
<1>6. CASE Answered
  BY <1>6, SameInvariant DEF Answered
<1>7. CASE LoopTick
  BY <1>7, StepInvariant DEF LoopTick, Next
<1>8. CASE UNCHANGED loopVars
  BY <1>8, SameInvariant DEF loopVars
<1> QED BY <1>1, <1>2, <1>3, <1>4, <1>5, <1>6, <1>7, <1>8 DEF LoopNext, LoopStep

\* What a write puts on the wire.
LEMMA WriteType ==
    ASSUME LoopType, NEW bytes, NEW kind, bytes \in Seq(Byte),
           kind \in {"whole", "broken", "oversized"}, Write(bytes, kind),
           broken' \in Nat, sent' \in Seq([ctr : Ctr, payload : Payloads])
    PROVE  LoopType'
<1>1. next_ctr' \in Ctr
  BY SuccType DEF LoopType, Write, Succ
<1>2. 0 \in 0 .. Pause
  BY LoopConstants
<1> QED BY <1>1, <1>2 DEF LoopType, Write

\* The bytes of the three writes.
LEMMA WriteBytes ==
    ASSUME LoopType
    PROVE  /\ \A p \in Payloads : Frame(next_ctr, p) \in Seq(Byte)
           /\ \A p \in Payloads : \A n \in 1 .. HeaderSize + Len(p) - 1 :
                  /\ SubSeq(Frame(next_ctr, p), 1, n) \in Seq(Byte)
                  /\ Len(SubSeq(Frame(next_ctr, p), 1, n)) = n
           /\ \A j \in Junk : Oversized(next_ctr) \o j \in Seq(Byte)
<1>1. next_ctr \in Ctr
  BY DEF LoopType
<1>2. \A p \in Payloads : Frame(next_ctr, p) \in Seq(Byte)
  BY <1>1, FrameShape
<1>3. ASSUME NEW p \in Payloads, NEW n \in 1 .. HeaderSize + Len(p) - 1
      PROVE  /\ SubSeq(Frame(next_ctr, p), 1, n) \in Seq(Byte)
             /\ Len(SubSeq(Frame(next_ctr, p), 1, n)) = n
  <2> DEFINE f == Frame(next_ctr, p)
  <2>1. f \in Seq(Byte) /\ Len(f) = HeaderSize + Len(p)
    BY <1>1, FrameShape
  <2> HIDE DEF f
  <2>2. n \in Nat /\ n <= Len(f)
    BY <2>1, LoopConstants DEF HeaderSize
  <2>3. SubSeq(f, 1, n) \in Seq(Byte) /\ Len(SubSeq(f, 1, n)) = n
    BY <2>1, <2>2, FrontShape
  <2> QED BY <2>3 DEF f
<1>4. \A j \in Junk : Oversized(next_ctr) \o j \in Seq(Byte)
  BY <1>1, OversizedShape
<1> QED BY <1>2, <1>3, <1>4

\* The payload handed over is bytes, as many as the header announced.
LEMMA PayloadShape ==
    ASSUME IInv, rx_state = "FRAME_READY"
    PROVE  /\ Payload \in Seq(Byte) /\ Len(Payload) = rx_expected
           /\ rx_expected \in 0 .. MaxCto
<1>1. /\ rx \in Seq(Byte) /\ rx_expected \in 0 .. MaxCto
      /\ Len(rx) = HeaderSize + rx_expected
  BY DEF IInv, TypeOK, ParserShape
<1> DEFINE e == rx_expected
<1>2. e \in Nat /\ Len(rx) = 4 + e
  BY <1>1, SizeConstants DEF HeaderSize
<1> HIDE DEF e
<1>3. \A i \in 5 .. 4 + e : rx[i] \in Byte
  BY <1>1, <1>2, ElementOfSeq
<1>4. /\ SubSeq(rx, 5, 4 + e) \in Seq(Byte)
      /\ Len(SubSeq(rx, 5, 4 + e)) = IF 5 <= 4 + e THEN 4 + e - 5 + 1 ELSE 0
  BY <1>2, <1>3, SubSeqProperties
<1>5. Len(SubSeq(rx, 5, 4 + e)) = e
  BY <1>2, <1>4
<1>6. Payload = SubSeq(rx, 5, 4 + e)
  BY DEF Payload, HeaderSize, e
<1> QED BY <1>1, <1>4, <1>5, <1>6 DEF e

LEMMA LoopTypeNext ==
    ASSUME IInv, LoopType, [LoopNext]_loopVars
    PROVE  LoopType'
<1>1. fifo \in Seq(Byte) /\ wire \in Seq(Byte)
  BY DEF IInv, TypeOK, LoopType
<1>2. CASE WriteWhole
  <2>1. PICK p \in Payloads :
            /\ Write(Frame(next_ctr, p), "whole")
            /\ sent' = Append(sent, [ctr |-> next_ctr, payload |-> p])
            /\ UNCHANGED broken
    BY <1>2 DEF WriteWhole
  <2> DEFINE f == [ctr |-> next_ctr, payload |-> p]  F == [ctr : Ctr, payload : Payloads]
  <2>2. f \in F /\ sent \in Seq(F) /\ sent' = Append(sent, f) /\ broken' \in Nat
    BY <2>1 DEF LoopType
  <2> HIDE DEF f, F
  <2>3. sent' \in Seq(F)
    BY <2>2, AppendProperties
  <2>4. sent' \in Seq([ctr : Ctr, payload : Payloads])
    BY <2>3 DEF F
  <2>5. Frame(next_ctr, p) \in Seq(Byte)
    BY WriteBytes
  <2> QED BY <2>1, <2>2, <2>4, <2>5, WriteType
<1>3. CASE WriteBroken
  <2>0. PICK p \in Payloads : \E n \in 1 .. HeaderSize + Len(p) - 1 :
            Write(SubSeq(Frame(next_ctr, p), 1, n), "broken")
    BY <1>3 DEF WriteBroken
  <2>1. PICK n \in 1 .. HeaderSize + Len(p) - 1 :
            Write(SubSeq(Frame(next_ctr, p), 1, n), "broken")
    BY <2>0
  <2>2. broken' \in Nat /\ sent' \in Seq([ctr : Ctr, payload : Payloads])
    BY <1>3 DEF WriteBroken, LoopType
  <2>3. SubSeq(Frame(next_ctr, p), 1, n) \in Seq(Byte)
    BY WriteBytes
  <2> QED BY <2>1, <2>2, <2>3, WriteType
<1>4. CASE WriteOversized
  <2>1. PICK j \in Junk : Write(Oversized(next_ctr) \o j, "oversized")
    BY <1>4 DEF WriteOversized
  <2>2. broken' \in Nat /\ sent' \in Seq([ctr : Ctr, payload : Payloads])
    BY <1>4 DEF WriteOversized, LoopType
  <2> DEFINE b == Oversized(next_ctr) \o j
  <2>3. b \in Seq(Byte) /\ Write(b, "oversized")
    BY <2>1, WriteBytes
  <2> HIDE DEF b
  <2> QED BY <2>2, <2>3, WriteType
<1>5. ASSUME wire' \in Seq(Byte), pc' \in {"usb", "sxi", "protocol", "answer"},
             UNCHANGED <<masterVars, delivered, quiet>>
      PROVE  LoopType'
  BY <1>5 DEF LoopType, masterVars
<1>6. CASE FillMeanwhile
  BY <1>1, <1>5, <1>6, FillShape DEF FillMeanwhile, LoopType
<1>7. CASE UsbTask
  <2>1. wire' \in Seq(Byte)
    BY <1>1, <1>7, FillShape DEF UsbTask
  <2> QED BY <1>5, <1>7, <2>1 DEF UsbTask
<1>8. CASE LoopSxiTask
  BY <1>1, <1>5, <1>8 DEF LoopSxiTask
<1>9. CASE ProtocolTask
  <2>1. CASE GetPacket /\ pc' = "answer"
             /\ delivered' = Append(delivered,
                                    [ctr |-> rx_last_ctr, payload |-> Payload])
    <3> DEFINE f == [ctr |-> rx_last_ctr, payload |-> Payload]
               D == [ctr : Ctr, payload : Seq(Byte)]
    <3>1. rx_last_ctr \in Ctr /\ Payload \in Seq(Byte) /\ Len(Payload) <= MaxCto
      <4>1. rx_last_ctr \in Ctr
        BY Zenon DEF IInv, TypeOK
      <4>2. rx_state = "FRAME_READY"
        BY <2>1 DEF GetPacket
      <4>3. Payload \in Seq(Byte) /\ Len(Payload) = rx_expected /\ rx_expected \in 0 .. MaxCto
        BY <4>2, PayloadShape
      <4> QED BY <4>1, <4>3, SizeConstants
    <3>2. f \in D /\ delivered \in Seq(D) /\ Len(f.payload) <= MaxCto
          /\ delivered' = Append(delivered, f)
          /\ \A i \in 1 .. Len(delivered) : Len(delivered[i].payload) <= MaxCto
      BY <2>1, <3>1 DEF LoopType
    <3> HIDE DEF f, D
    <3>3. /\ delivered' \in Seq(D) /\ Len(delivered') = Len(delivered) + 1
          /\ \A i \in 1 .. Len(delivered) : delivered'[i] = delivered[i]
          /\ delivered'[Len(delivered) + 1] = f /\ Len(delivered) \in Nat
      BY <3>2, AppendProperties, LenProperties
    <3>4. \A i \in 1 .. Len(delivered') : Len(delivered'[i].payload) <= MaxCto
      <4> TAKE i \in 1 .. Len(delivered')
      <4>1. i \in 1 .. Len(delivered) \/ i = Len(delivered) + 1
        BY <3>3
      <4> QED BY <3>2, <3>3, <4>1
    <3>5. delivered' \in Seq([ctr : Ctr, payload : Seq(Byte)])
      BY <3>3 DEF D
    <3> QED BY <1>9, <2>1, <3>4, <3>5 DEF ProtocolTask, LoopType, masterVars
  <2>2. CASE pc' = "usb" /\ UNCHANGED <<vars, delivered>>
    BY <1>1, <1>5, <1>9, <2>2 DEF ProtocolTask
  <2> QED BY <1>9, <2>1, <2>2 DEF ProtocolTask
<1>10. CASE Answered
  BY <1>1, <1>5, <1>10 DEF Answered
<1>11. CASE LoopTick
  <2>1. quiet' \in 0 .. Pause
    BY <1>11, LoopConstants DEF LoopTick, LoopType
  <2> QED BY <1>11, <2>1 DEF LoopTick, LoopType, masterVars
<1>12. CASE UNCHANGED loopVars
  BY <1>1, <1>5, <1>12 DEF loopVars, LoopType
<1> QED BY <1>2, <1>3, <1>4, <1>6, <1>7, <1>8, <1>9, <1>10, <1>11, <1>12
        DEF LoopNext, LoopStep

LEMMA LoopTypeInit == LoopInit => IInv /\ LoopType
<1> SUFFICES ASSUME LoopInit PROVE IInv /\ LoopType
  OBVIOUS
<1>1. IInv
  BY InitInvariant DEF LoopInit
<1>2. /\ <<>> \in Seq(Byte) /\ Len(<<>>) = 0
      /\ <<>> \in Seq([ctr : Ctr, payload : Payloads])
      /\ <<>> \in Seq([ctr : Ctr, payload : Seq(Byte)])
  BY EmptySeq
<1> QED BY <1>1, <1>2, LoopConstants DEF LoopInit, LoopType

\* Types of the whole receive path, for every value of the constants.
THEOREM LoopTypeCorrect == LoopSpec => []LoopTypeOK
<1>1. IInv /\ LoopType /\ [LoopNext]_loopVars => (IInv /\ LoopType)'
  BY LoopKeepsParser, LoopTypeNext
<1>2. IInv /\ LoopType => LoopTypeOK
  BY LoopTypeParts DEF IInv
<1> QED BY <1>1, <1>2, LoopTypeInit, PTL DEF LoopSpec

=============================================================================
