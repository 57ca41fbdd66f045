-------------------------- MODULE FrameChannelProofs --------------------------
(***************************************************************************)
(* The receive path in the main loop is a reliable frame channel: byte     *)
(* stream, framing, idle timeout and back-pressure together.  The frames   *)
(* written whole are delivered unchanged and in order, a broken one is     *)
(* always counted, and nothing else is.                                    *)
(*                                                                         *)
(* The inductive invariant LoopInv says what the bytes between the master  *)
(* and the protocol layer are: the frames written whole and not yet        *)
(* delivered, one after the other, and then what is left of the last frame *)
(* if that one broke off (Stream).  Around it stand the CTRs of those      *)
(* frames (Consecutive), the times that tell a pause from a busy loop      *)
(* (Prompt, QuietTime), and the counters (Tally): each broken frame is     *)
(* counted or still to be noticed, and is charged at most one CTR error.   *)
(*                                                                         *)
(* The theorems need HarmlessAfter: what follows an impossible header does *)
(* not read as a header the parser accepts, as in test_oversized_len_      *)
(* rejection of tools/test_sxi_loopback.py.  Junk that does is taken for a *)
(* frame (run oversized_frame_reparsed).                                   *)
(***************************************************************************)
EXTENDS RxLoopProofs

-----------------------------------------------------------------------------
\* The byte stream.

\* Read header by header, the bytes announce nothing the parser accepts.
Unacceptable(t) ==
    \A k \in Nat :
        HeaderSize * k + HeaderSize <= Len(t) =>
            U16(t[HeaderSize * k + 1], t[HeaderSize * k + 2]) > MaxCto

\* The junk after an impossible LEN is like that.
HarmlessAfter == \A j \in Junk : Unacceptable(j)

\* Concatenation, kept folded: the provers take an equation between two
\* concatenations apart instead of using it.
Join(s, t) == s \o t

\* The bytes that are held by the parser, in the FIFO or on the wire.
Queue == fifo \o wire
Backlog == rx \o Queue

\* There are whole frames among them.
Pending == Len(delivered) < Len(sent)
FrameOf(f) == Frame(f.ctr, f.payload)
NextFrame == sent[Len(delivered) + 1]

\* The CTR of the last frame begun.
LastCtr == IF next_ctr = 0 THEN CtrMod - 1 ELSE next_ctr - 1

\* Of the last frame, a broken one, something the slave will count is still to
\* come.
Unnoticed ==
    \/ last = "broken" /\ (Pending \/ Backlog # <<>>)
    \/ last = "oversized" /\ (Pending \/ Len(Backlog) >= HeaderSize)

\* rest[i] is what follows the i-th whole frame: the backlog is the frames not
\* yet delivered, one after the other, and then rest[Len(sent)].
Chain(rest) ==
    /\ rest \in [Len(delivered) .. Len(sent) -> Seq(Byte)]
    /\ rest[Len(delivered)] = Backlog
    /\ \A i \in Len(delivered) .. Len(sent) - 1 :
           rest[i] = Join(FrameOf(sent[i + 1]), rest[i + 1])

\* What follows the last whole frame is part of a frame, or bytes that the
\* parser will reject, or nothing.
LastTail(t) ==
    /\ last = "whole" => t = <<>>
    /\ last = "broken" /\ Unnoticed =>
           \E p \in Payloads : \E n \in 1 .. HeaderSize + Len(p) - 1 :
               t = SubSeq(Frame(LastCtr, p), 1, n)
    /\ last = "oversized" /\ Unnoticed =>
           t \in Seq(Byte) /\ Len(t) >= HeaderSize /\ Unacceptable(t)

Stream ==
    /\ Len(delivered) <= Len(sent)
    /\ \E rest : Chain(rest) /\ LastTail(rest[Len(sent)])

-----------------------------------------------------------------------------
\* Lemmas about sequences of bytes.

LEMMA BytesJoin ==
    ASSUME NEW s \in Seq(Byte), NEW t \in Seq(Byte)
    PROVE  /\ Join(s, t) \in Seq(Byte) /\ Len(s) \in Nat /\ Len(t) \in Nat
           /\ Len(Join(s, t)) = Len(s) + Len(t)
           /\ \A i \in 1 .. Len(s) : Join(s, t)[i] = s[i]
<1>1. /\ s \o t \in Seq(Byte) /\ Len(s \o t) = Len(s) + Len(t)
      /\ \A i \in 1 .. Len(s) + Len(t) :
             (s \o t)[i] = IF i <= Len(s) THEN s[i] ELSE t[i - Len(s)]
  BY ConcatProperties
<1>2. Len(s) \in Nat /\ Len(t) \in Nat
  BY LenProperties
<1>3. \A i \in 1 .. Len(s) : (s \o t)[i] = s[i]
  BY <1>1, <1>2
<1> QED BY <1>1, <1>2, <1>3 DEF Join

LEMMA BytesEmpty ==
    /\ <<>> \in Seq(Byte) /\ Len(<<>>) = 0
    /\ \A s \in Seq(Byte) : /\ Join(s, <<>>) = s /\ Join(<<>>, s) = s
                            /\ Len(s) = 0 <=> s = <<>>
BY ConcatEmptySeq, EmptySeq DEF Join

LEMMA JoinAssociative ==
    ASSUME NEW s \in Seq(Byte), NEW t \in Seq(Byte), NEW u \in Seq(Byte)
    PROVE  Join(Join(s, t), u) = Join(s, Join(t, u))
BY ConcatAssociative DEF Join

LEMMA JoinCancels ==
    ASSUME NEW s \in Seq(Byte), NEW t \in Seq(Byte), NEW u \in Seq(Byte),
           Join(s, t) = Join(s, u)
    PROVE  t = u
BY ConcatSimplifications DEF Join

\* Two ways of cutting the same bytes agree on the common front.
LEMMA SameFront ==
    ASSUME NEW b \in Seq(Byte), NEW z \in Seq(Byte),
           NEW f \in Seq(Byte), NEW r \in Seq(Byte), Join(b, z) = Join(f, r),
           NEW i \in 1 .. Len(b), i <= Len(f)
    PROVE  b[i] = f[i]
<1>1. Len(b) \in Nat /\ Len(f) \in Nat
  BY LenProperties
<1>2. i \in 1 .. Len(f)
  BY <1>1
<1>3. Join(b, z)[i] = b[i]
  BY BytesJoin
<1>4. Join(f, r)[i] = f[i]
  BY <1>2, BytesJoin
<1> QED BY <1>3, <1>4

LEMMA SameCut ==
    ASSUME NEW b \in Seq(Byte), NEW z \in Seq(Byte),
           NEW f \in Seq(Byte), NEW r \in Seq(Byte), Join(b, z) = Join(f, r),
           Len(b) = Len(f)
    PROVE  b = f /\ z = r
<1>1. \A i \in 1 .. Len(b) : b[i] = f[i]
  BY SameFront, LenProperties
<1>2. b = f
  BY <1>1, SeqEqual
<1>3. z = r
  BY <1>2, JoinCancels
<1> QED BY <1>2, <1>3

LEMMA HeaderOfFront ==
    ASSUME NEW b \in Seq(Byte), NEW z \in Seq(Byte), Len(b) >= HeaderSize
    PROVE  /\ U16(b[1], b[2]) = U16(Join(b, z)[1], Join(b, z)[2])
           /\ U16(b[3], b[4]) = U16(Join(b, z)[3], Join(b, z)[4])
<1>1. Len(b) \in Nat /\ \A i \in 1 .. Len(b) : Join(b, z)[i] = b[i]
  BY BytesJoin
<1>2. /\ 1 \in 1 .. Len(b) /\ 2 \in 1 .. Len(b)
      /\ 3 \in 1 .. Len(b) /\ 4 \in 1 .. Len(b)
  BY <1>1 DEF HeaderSize
<1>3. /\ b[1] = Join(b, z)[1] /\ b[2] = Join(b, z)[2]
      /\ b[3] = Join(b, z)[3] /\ b[4] = Join(b, z)[4]
  BY <1>1, <1>2
<1> QED BY <1>3

\* The header of a frame is read from any front of it that holds it.
LEMMA WholeHeader ==
    ASSUME NEW c \in Ctr, NEW p \in Payloads, NEW b \in Seq(Byte),
           NEW z \in Seq(Byte), NEW r \in Seq(Byte),
           Join(b, z) = Join(Frame(c, p), r), Len(b) >= HeaderSize
    PROVE  U16(b[1], b[2]) = Len(p) /\ U16(b[3], b[4]) = c
<1> DEFINE f == Frame(c, p)
<1>1. /\ f \in Seq(Byte) /\ Len(f) >= HeaderSize
      /\ U16(f[1], f[2]) = Len(p) /\ U16(f[3], f[4]) = c
  BY FrameShape, LoopConstants DEF HeaderSize
<1>2. Join(b, z) = Join(f, r)
  OBVIOUS
<1> HIDE DEF f
<1> DEFINE s == Join(f, r)
<1>3. U16(f[1], f[2]) = U16(s[1], s[2]) /\ U16(f[3], f[4]) = U16(s[3], s[4])
  BY <1>1, HeaderOfFront
<1>4. U16(b[1], b[2]) = U16(s[1], s[2]) /\ U16(b[3], b[4]) = U16(s[3], s[4])
  BY <1>2, HeaderOfFront
<1> QED BY <1>1, <1>3, <1>4

LEMMA BrokenHeader ==
    ASSUME NEW c \in Ctr, NEW p \in Payloads, NEW b \in Seq(Byte),
           NEW z \in Seq(Byte), NEW s \in Seq(Byte), NEW u \in Seq(Byte),
           Join(b, z) = s, Join(s, u) = Frame(c, p), Len(b) >= HeaderSize
    PROVE  U16(b[1], b[2]) = Len(p) /\ U16(b[3], b[4]) = c
<1> DEFINE f == Frame(c, p)
<1>1. U16(f[1], f[2]) = Len(p) /\ U16(f[3], f[4]) = c
  BY FrameShape
<1>2. Join(s, u) = f
  OBVIOUS
<1> HIDE DEF f
<1>3. Len(s) >= HeaderSize
  <2>1. Len(b) \in Nat /\ Len(z) \in Nat /\ Len(Join(b, z)) = Len(b) + Len(z)
    BY BytesJoin
  <2> QED BY <2>1 DEF HeaderSize
<1>4. U16(s[1], s[2]) = U16(f[1], f[2]) /\ U16(s[3], s[4]) = U16(f[3], f[4])
  BY <1>2, <1>3, HeaderOfFront
<1>5. U16(b[1], b[2]) = U16(s[1], s[2]) /\ U16(b[3], b[4]) = U16(s[3], s[4])
  BY HeaderOfFront
<1> QED BY <1>1, <1>4, <1>5

\* An impossible header makes its frame unacceptable, and so is what remains
\* when the parser has dropped a header.
LEMMA HeadedUnacceptable ==
    ASSUME HarmlessAfter, NEW c \in Ctr, NEW j \in Junk
    PROVE  Unacceptable(Headed(MaxCto + 1, c, j))
<1> DEFINE f == Headed(MaxCto + 1, c, j)
<1>1. /\ Len(f) = HeaderSize + Len(j) /\ Len(j) \in Nat
      /\ U16(f[1], f[2]) = MaxCto + 1
  BY OversizedShape
<1>2. \A i \in 1 .. Len(j) : f[HeaderSize + i] = j[i]
  <2> DEFINE h == Header(MaxCto + 1, c)
  <2>1. h \in Seq(Byte) /\ Len(h) = 4 /\ j \in Seq(Byte)
    BY LoopConstants, LoopAssumption, Digits, FourBytes DEF Header
  <2>2. f = h \o j
    BY DEF Headed
  <2> HIDE DEF f, h
  <2>3. \A i \in 1 .. Len(h) + Len(j) :
            (h \o j)[i] = IF i <= Len(h) THEN h[i] ELSE j[i - Len(h)]
    BY <2>1, ConcatProperties
  <2> QED BY <1>1, <2>1, <2>2, <2>3 DEF HeaderSize
<1>3. Unacceptable(j)
  BY DEF HarmlessAfter
<1> HIDE DEF f
<1>4. ASSUME NEW k \in Nat, HeaderSize * k + HeaderSize <= Len(f)
      PROVE  U16(f[HeaderSize * k + 1], f[HeaderSize * k + 2]) > MaxCto
  <2>1. CASE k = 0
    <3>1. HeaderSize * k + 1 = 1 /\ HeaderSize * k + 2 = 2
      BY <2>1 DEF HeaderSize
    <3> QED BY <1>1, <3>1, SizeConstants
  <2>2. CASE k # 0
    <3>1. PICK i \in Nat : i = k - 1
      BY <2>2
    <3>2. /\ HeaderSize * i + HeaderSize <= Len(j)
          /\ HeaderSize * i + 1 \in 1 .. Len(j)
          /\ HeaderSize * i + 2 \in 1 .. Len(j)
          /\ HeaderSize * k + 1 = HeaderSize + (HeaderSize * i + 1)
          /\ HeaderSize * k + 2 = HeaderSize + (HeaderSize * i + 2)
      BY <1>1, <1>4, <3>1 DEF HeaderSize
    <3>3. U16(j[HeaderSize * i + 1], j[HeaderSize * i + 2]) > MaxCto
      BY <1>3, <3>2 DEF Unacceptable
    <3> QED BY <1>2, <3>2, <3>3
  <2> QED BY <2>1, <2>2
<1>5. Unacceptable(f)
  BY <1>4 DEF Unacceptable
<1> QED BY <1>5 DEF f

LEMMA RestUnacceptable ==
    ASSUME NEW b \in Seq(Byte), NEW z \in Seq(Byte), NEW t, Join(b, z) = t,
           Len(b) = HeaderSize, Unacceptable(t)
    PROVE  Unacceptable(z)
<1>1. /\ Len(z) \in Nat /\ Len(t) = HeaderSize + Len(z)
      /\ \A i \in 1 .. Len(z) : t[HeaderSize + i] = z[i]
  <2>1. /\ Len(b \o z) = Len(b) + Len(z) /\ Len(z) \in Nat /\ t = b \o z
        /\ \A i \in 1 .. Len(b) + Len(z) :
               (b \o z)[i] = IF i <= Len(b) THEN b[i] ELSE z[i - Len(b)]
    BY ConcatProperties, LenProperties DEF Join
  <2> QED BY <2>1 DEF HeaderSize
<1>2. ASSUME NEW k \in Nat, HeaderSize * k + HeaderSize <= Len(z)
      PROVE  U16(z[HeaderSize * k + 1], z[HeaderSize * k + 2]) > MaxCto
  <2>1. PICK i \in Nat : i = k + 1
    OBVIOUS
  <2>2. /\ HeaderSize * i + HeaderSize <= Len(t)
        /\ HeaderSize * k + 1 \in 1 .. Len(z)
        /\ HeaderSize * k + 2 \in 1 .. Len(z)
        /\ HeaderSize * i + 1 = HeaderSize + (HeaderSize * k + 1)
        /\ HeaderSize * i + 2 = HeaderSize + (HeaderSize * k + 2)
    BY <1>1, <1>2, <2>1 DEF HeaderSize
  <2>3. U16(t[HeaderSize * i + 1], t[HeaderSize * i + 2]) > MaxCto
    BY <2>2 DEF Unacceptable
  <2> QED BY <1>1, <2>2, <2>3
<1> QED BY <1>2 DEF Unacceptable

-----------------------------------------------------------------------------
\* What the backlog begins with.

LEMMA BacklogType ==
    ASSUME IInv, LoopType
    PROVE  /\ rx \in Seq(Byte) /\ fifo \in Seq(Byte) /\ wire \in Seq(Byte)
           /\ Queue \in Seq(Byte) /\ Backlog \in Seq(Byte)
           /\ Len(rx) \in Nat /\ Len(Queue) \in Nat /\ Len(Backlog) \in Nat
           /\ Len(Backlog) = Len(rx) + Len(Queue)
           /\ Queue = Join(fifo, wire) /\ Backlog = Join(rx, Queue)
           /\ Queue = <<>> <=> fifo = <<>> /\ wire = <<>>
           /\ Queue = <<>> => Backlog = rx
           /\ Backlog = <<>> <=> rx = <<>> /\ Queue = <<>>
<1>1. rx \in Seq(Byte) /\ fifo \in Seq(Byte) /\ wire \in Seq(Byte)
  BY DEF IInv, TypeOK, LoopType
<1>2. Queue = Join(fifo, wire) /\ Backlog = Join(rx, Queue)
  BY DEF Queue, Backlog, Join
<1>3. /\ Queue \in Seq(Byte) /\ Len(Queue) = Len(fifo) + Len(wire)
      /\ Len(fifo) \in Nat /\ Len(wire) \in Nat
  BY <1>1, <1>2, BytesJoin
<1>4. /\ Backlog \in Seq(Byte) /\ Len(Backlog) = Len(rx) + Len(Queue)
      /\ Len(rx) \in Nat /\ Len(Queue) \in Nat
  BY <1>1, <1>2, <1>3, BytesJoin
<1>5. Queue = <<>> <=> fifo = <<>> /\ wire = <<>>
  <2>1. Len(Queue) = 0 <=> Len(fifo) = 0 /\ Len(wire) = 0
    BY <1>3
  <2> QED BY <1>1, <1>3, <2>1, BytesEmpty
<1>6. Queue = <<>> => Backlog = rx
  BY <1>1, <1>2, BytesEmpty
<1>7. Backlog = <<>> <=> rx = <<>> /\ Queue = <<>>
  <2>1. Len(Backlog) = 0 <=> Len(rx) = 0 /\ Len(Queue) = 0
    BY <1>4
  <2> QED BY <1>1, <1>3, <1>4, <2>1, BytesEmpty
<1> QED BY <1>1, <1>2, <1>3, <1>4, <1>5, <1>6, <1>7

LEMMA CountsType ==
    ASSUME LoopType
    PROVE  /\ Len(sent) \in Nat /\ Len(delivered) \in Nat
           /\ \A i \in 1 .. Len(sent) :
                  /\ sent[i] \in [ctr : Ctr, payload : Payloads]
                  /\ sent[i].ctr \in Ctr /\ sent[i].payload \in Payloads
           /\ LastCtr \in Ctr /\ next_ctr \in Ctr /\ next_ctr = Succ(LastCtr)
<1>1. /\ Len(sent) \in Nat /\ Len(delivered) \in Nat
      /\ \A i \in 1 .. Len(sent) : sent[i] \in [ctr : Ctr, payload : Payloads]
  BY LenProperties, ElementOfSeq DEF LoopType
<1>2. LastCtr \in Ctr /\ next_ctr \in Ctr
  BY CtrModType DEF LoopType, LastCtr, Ctr
<1>3. next_ctr = Succ(LastCtr)
  <2>1. Succ(LastCtr) = IF LastCtr + 1 = CtrMod THEN 0 ELSE LastCtr + 1
    BY <1>2, SuccType
  <2> QED BY <1>2, <2>1, CtrModType DEF LastCtr, Ctr
<1> QED BY <1>1, <1>2, <1>3

\* A tail that is still to be noticed is the front of a frame, or a header or
\* more of bytes to reject.
LEMMA TailShape ==
    ASSUME LoopType, Unnoticed, NEW t, LastTail(t)
    PROVE  \/ /\ last = "broken" /\ t \in Seq(Byte) /\ t # <<>>
              /\ \E p \in Payloads, u \in Seq(Byte) :
                     /\ Join(t, u) = Frame(LastCtr, p)
                     /\ Len(t) < HeaderSize + Len(p)
           \/ /\ last = "oversized" /\ t \in Seq(Byte) /\ t # <<>>
              /\ Len(t) >= HeaderSize /\ Unacceptable(t)
<1>1. CASE last = "broken"
  <2>1. PICK p \in Payloads : \E n \in 1 .. HeaderSize + Len(p) - 1 :
            t = SubSeq(Frame(LastCtr, p), 1, n)
    BY <1>1 DEF LastTail
  <2>2. PICK n \in 1 .. HeaderSize + Len(p) - 1 :
            t = SubSeq(Frame(LastCtr, p), 1, n)
    BY <2>1
  <2> DEFINE f == Frame(LastCtr, p)  u == SubSeq(f, n + 1, Len(f))
  <2>3. f \in Seq(Byte) /\ Len(f) = HeaderSize + Len(p)
    BY CountsType, FrameShape
  <2>4. n \in Nat /\ n >= 1 /\ n < HeaderSize + Len(p) /\ n <= Len(f)
    BY <2>3, LoopConstants DEF HeaderSize
  <2>5. t = SubSeq(f, 1, n)
    BY <2>2
  <2> HIDE DEF f
  <2>6. t \in Seq(Byte) /\ Len(t) = n /\ u \in Seq(Byte) /\ Join(t, u) = f
    BY <2>3, <2>4, <2>5, FrontShape DEF Join
  <2>7. t # <<>>
    BY <2>4, <2>6, BytesEmpty
  <2> HIDE DEF u
  <2>8. Join(t, u) = Frame(LastCtr, p)
    BY <2>6 DEF f
  <2> QED BY <1>1, <2>4, <2>6, <2>7, <2>8
<1>2. CASE last = "oversized"
  <2>1. t \in Seq(Byte) /\ Len(t) >= HeaderSize /\ Unacceptable(t)
    BY <1>2 DEF LastTail
  <2>2. t # <<>>
    BY <2>1, BytesEmpty DEF HeaderSize
  <2> QED BY <1>2, <2>1, <2>2
<1> QED BY <1>1, <1>2 DEF Unnoticed

\* While whole frames are pending the backlog begins with the next one, and
\* the bytes of a broken frame come after it.
LEMMA NextFrameFirst ==
    ASSUME LoopType, Stream, Pending
    PROVE  /\ NextFrame \in [ctr : Ctr, payload : Payloads]
           /\ NextFrame.ctr \in Ctr /\ NextFrame.payload \in Payloads
           /\ FrameOf(NextFrame) \in Seq(Byte)
           /\ \E r \in Seq(Byte) : /\ Backlog = Join(FrameOf(NextFrame), r)
                                   /\ r = <<>> => last = "whole"
<1> DEFINE d == Len(delivered)  m == Len(sent)
<1>1. d \in Nat /\ m \in Nat /\ d < m
  BY CountsType DEF Pending
<1>2. PICK rest : Chain(rest) /\ LastTail(rest[m])
  BY DEF Stream
<1>3. /\ \A i \in d .. m : rest[i] \in Seq(Byte)
      /\ rest[d] = Backlog
      /\ \A i \in d .. m - 1 : rest[i] = Join(FrameOf(sent[i + 1]), rest[i + 1])
  BY <1>2, Zenon DEF Chain
<1>4. d + 1 \in 1 .. m /\ d \in d .. m - 1 /\ d + 1 \in d .. m
  BY <1>1
<1>5. /\ NextFrame \in [ctr : Ctr, payload : Payloads]
      /\ NextFrame.ctr \in Ctr /\ NextFrame.payload \in Payloads
  BY <1>4, CountsType DEF NextFrame
<1>6. Backlog = Join(FrameOf(NextFrame), rest[d + 1])
  <2>1. rest[d] = Join(FrameOf(sent[d + 1]), rest[d + 1])
    BY <1>3, <1>4, Zenon
  <2> QED BY <1>3, <1>4, <2>1 DEF NextFrame
<1>7. ASSUME rest[d + 1] = <<>> PROVE last = "whole"
  <2>1. CASE d + 1 < m
    <3> DEFINE k == d + 1
    <3>1. k + 1 \in 1 .. m /\ k \in d .. m - 1 /\ k + 1 \in d .. m
      BY <1>1, <2>1
    <3> HIDE DEF k
    <3> DEFINE f == FrameOf(sent[k + 1])  r == rest[k + 1]
    <3>2. rest[k] = Join(f, r) /\ r \in Seq(Byte)
      BY <1>3, <3>1, Zenon
    <3>3. f \in Seq(Byte) /\ Len(f) >= 4
      <4>1. PICK c \in Ctr, p \in Payloads : f = Frame(c, p)
        BY <3>1, CountsType DEF FrameOf
      <4>2. Frame(c, p) \in Seq(Byte) /\ Len(Frame(c, p)) = HeaderSize + Len(p)
        BY FrameShape
      <4> QED BY <4>1, <4>2, LoopConstants DEF HeaderSize
    <3> HIDE DEF f, r
    <3>4. Len(Join(f, r)) >= 4 /\ Join(f, r) \in Seq(Byte)
      BY <3>2, <3>3, BytesJoin
    <3>5. Join(f, r) # <<>>
      BY <3>4, BytesEmpty
    <3> QED BY <1>7, <3>2, <3>5 DEF k
  <2>2. CASE d + 1 = m
    <3>1. LastTail(<<>>)
      BY <1>2, <1>7, <2>2
    <3>2. ~Unnoticed
      BY <3>1, TailShape
    <3> QED BY <3>2 DEF Unnoticed, LoopType
  <2> QED BY <1>1, <2>1, <2>2
<1>8. rest[d + 1] \in Seq(Byte)
  BY <1>3, <1>4
<1>9. FrameOf(NextFrame) \in Seq(Byte)
  BY <1>5, FrameShape DEF FrameOf
<1> HIDE DEF d, m
<1>10. \E r \in Seq(Byte) : /\ Backlog = Join(FrameOf(NextFrame), r)
                            /\ r = <<>> => last = "whole"
  BY <1>6, <1>7, <1>8
<1> QED BY <1>5, <1>9, <1>10

LEMMA OnlyTail ==
    ASSUME LoopType, Stream, ~Pending
    PROVE  LastTail(Backlog)
<1>1. Len(sent) = Len(delivered)
  BY CountsType DEF Stream, Pending
<1>2. PICK rest : Chain(rest) /\ LastTail(rest[Len(sent)])
  BY DEF Stream
<1>3. rest[Len(sent)] = Backlog
  BY <1>1, <1>2 DEF Chain
<1> QED BY <1>2, <1>3

\* What four or more bytes from the front of the backlog say: they are the
\* header of the next whole frame, or of a frame that broke off and is not
\* complete, or the impossible header.
SaysWhole(b) ==
    /\ Pending
    /\ U16(b[1], b[2]) = Len(NextFrame.payload) /\ U16(b[1], b[2]) <= MaxCto
    /\ U16(b[3], b[4]) = NextFrame.ctr
SaysBroken(b) ==
    /\ ~Pending /\ Unnoticed /\ last = "broken"
    /\ U16(b[1], b[2]) <= MaxCto
    /\ Len(Backlog) < HeaderSize + U16(b[1], b[2])
    /\ U16(b[3], b[4]) = LastCtr
SaysOversized(b) ==
    /\ ~Pending /\ Unnoticed /\ last = "oversized"
    /\ U16(b[1], b[2]) \in Ctr /\ U16(b[1], b[2]) > MaxCto
    /\ Unacceptable(Backlog)

LEMMA HeaderMeans ==
    ASSUME HarmlessAfter, IInv, LoopType, Stream,
           NEW b \in Seq(Byte), NEW z \in Seq(Byte), Join(b, z) = Backlog,
           Len(b) >= HeaderSize
    PROVE  SaysWhole(b) \/ SaysBroken(b) \/ SaysOversized(b)
<1>1. Len(b) \in Nat /\ Len(z) \in Nat /\ Len(Backlog) = Len(b) + Len(z)
      /\ Backlog \in Seq(Byte)
  BY BytesJoin
<1>2. Len(Backlog) >= HeaderSize
  BY <1>1 DEF HeaderSize
<1>3. CASE Pending
  <2>1. PICK r \in Seq(Byte) : Backlog = Join(FrameOf(NextFrame), r)
    BY <1>3, NextFrameFirst
  <2>2. PICK c \in Ctr, p \in Payloads :
            /\ c = NextFrame.ctr /\ p = NextFrame.payload
            /\ FrameOf(NextFrame) = Frame(c, p)
    BY <1>3, NextFrameFirst DEF FrameOf
  <2>3. Join(b, z) = Join(Frame(c, p), r)
    BY <2>1, <2>2
  <2>4. U16(b[1], b[2]) = Len(p) /\ U16(b[3], b[4]) = c
    BY <2>1, <2>2, <2>3, WholeHeader
  <2>5. Len(p) <= MaxCto
    BY LoopConstants
  <2> QED BY <1>3, <2>2, <2>4, <2>5 DEF SaysWhole
<1>4. CASE ~Pending
  <2>1. LastTail(Backlog)
    BY <1>4, OnlyTail
  <2>2. Unnoticed
    <3>1. Backlog # <<>>
      BY <1>1, <1>2, BytesEmpty DEF HeaderSize
    <3> QED BY <1>2, <2>1, <3>1 DEF Unnoticed, LastTail, LoopType
  <2>3. CASE last = "broken"
    <3>1. PICK p \in Payloads, u \in Seq(Byte) :
              /\ Join(Backlog, u) = Frame(LastCtr, p)
              /\ Len(Backlog) < HeaderSize + Len(p)
      BY <2>1, <2>2, <2>3, TailShape
    <3>2. LastCtr \in Ctr /\ Len(p) <= MaxCto
      BY CountsType, LoopConstants
    <3>3. U16(b[1], b[2]) = Len(p) /\ U16(b[3], b[4]) = LastCtr
      BY <1>1, <3>1, <3>2, BrokenHeader
    <3> QED BY <1>4, <2>2, <2>3, <3>1, <3>2, <3>3 DEF SaysBroken
  <2>4. CASE last = "oversized"
    <3> DEFINE f == Backlog
    <3>1. Len(f) >= HeaderSize /\ f \in Seq(Byte) /\ Unacceptable(f)
      BY <1>1, <2>1, <2>2, <2>4, TailShape
    <3>2. Join(b, z) = f
      OBVIOUS
    <3> HIDE DEF f
    <3>3. U16(b[1], b[2]) = U16(f[1], f[2])
      BY <3>2, HeaderOfFront
    <3>4. U16(f[1], f[2]) > MaxCto
      <4>1. PICK k \in Nat : k = 0
        OBVIOUS
      <4>2. /\ HeaderSize * k + HeaderSize <= Len(f)
            /\ HeaderSize * k + 1 = 1 /\ HeaderSize * k + 2 = 2
        BY <3>1, <4>1 DEF HeaderSize
      <4>3. U16(f[HeaderSize * k + 1], f[HeaderSize * k + 2]) > MaxCto
        BY <3>1, <4>2 DEF Unacceptable
      <4> QED BY <4>2, <4>3
    <3>5. U16(b[1], b[2]) \in Ctr
      <4>1. b[1] \in Byte /\ b[2] \in Byte
        <5>1. 1 \in 1 .. Len(b) /\ 2 \in 1 .. Len(b)
          BY <1>1 DEF HeaderSize
        <5> QED BY <5>1, ElementOfSeq
      <4> QED BY <4>1, U16Type
    <3>6. Unacceptable(Backlog)
      BY <3>1 DEF f
    <3> QED BY <1>4, <2>2, <2>4, <3>3, <3>4, <3>5, <3>6 DEF SaysOversized
  <2> QED BY <2>2, <2>3, <2>4 DEF Unnoticed
<1> QED BY <1>3, <1>4

\* A frame that is ready is the next whole frame, and nothing else.
LEMMA ReadyIsNext ==
    ASSUME HarmlessAfter, IInv, LoopType, Stream, rx_state = "FRAME_READY"
    PROVE  /\ Pending /\ rx = FrameOf(NextFrame)
           /\ Backlog = Join(FrameOf(NextFrame), Queue)
           /\ rx_last_ctr = NextFrame.ctr /\ Payload = NextFrame.payload
           /\ Queue = <<>> => last = "whole"
<1>1. /\ rx_expected = U16(rx[1], rx[2]) /\ rx_last_ctr = U16(rx[3], rx[4])
      /\ Len(rx) = HeaderSize + rx_expected /\ rx_expected \in 0 .. MaxCto
  BY DEF IInv, ParserShape, TypeOK
<1>2. /\ rx \in Seq(Byte) /\ Queue \in Seq(Byte) /\ Join(rx, Queue) = Backlog
      /\ Len(Backlog) = Len(rx) + Len(Queue) /\ Len(Queue) \in Nat
  BY BacklogType
<1>3. rx_expected \in Nat /\ MaxCto \in Nat
  BY <1>1, SizeConstants
<1>4. Len(rx) >= HeaderSize
  BY <1>1, <1>3 DEF HeaderSize
<1>5. SaysWhole(rx) \/ SaysBroken(rx) \/ SaysOversized(rx)
  BY <1>2, <1>4, HeaderMeans
<1>6. ~SaysBroken(rx)
  BY <1>1, <1>2, <1>3 DEF SaysBroken, HeaderSize
<1>7. ~SaysOversized(rx)
  BY <1>1, <1>3 DEF SaysOversized
<1>8. /\ Pending /\ rx_expected = Len(NextFrame.payload)
      /\ rx_last_ctr = NextFrame.ctr
  BY <1>1, <1>5, <1>6, <1>7 DEF SaysWhole
<1> DEFINE f == FrameOf(NextFrame)
<1>9. PICK r \in Seq(Byte) : Backlog = Join(f, r) /\ (r = <<>> => last = "whole")
  BY <1>8, NextFrameFirst
<1>10. PICK c \in Ctr, p \in Payloads :
          c = NextFrame.ctr /\ p = NextFrame.payload /\ f = Frame(c, p)
  BY <1>8, NextFrameFirst DEF FrameOf
<1> HIDE DEF f
<1>11. /\ f \in Seq(Byte) /\ Len(f) = HeaderSize + Len(p)
       /\ SubSeq(f, HeaderSize + 1, HeaderSize + Len(p)) = p
  <2>1. /\ Frame(c, p) \in Seq(Byte) /\ Len(Frame(c, p)) = HeaderSize + Len(p)
        /\ SubSeq(Frame(c, p), HeaderSize + 1, HeaderSize + Len(p)) = p
    BY FrameShape
  <2> QED BY <1>10, <2>1
<1>12. rx = f /\ Queue = r
  <2>1. Len(rx) = Len(f)
    BY <1>1, <1>8, <1>10, <1>11
  <2>2. Join(rx, Queue) = Join(f, r)
    BY <1>2, <1>9
  <2> QED BY <1>2, <1>9, <1>11, <2>1, <2>2, SameCut
<1>13. Payload = NextFrame.payload
  BY <1>8, <1>10, <1>11, <1>12 DEF Payload
<1>14. Queue = <<>> => last = "whole"
  BY <1>9, <1>12
<1>15. Backlog = Join(f, Queue) /\ rx = f
  BY <1>2, <1>12
<1> QED BY <1>8, <1>13, <1>14, <1>15 DEF f

-----------------------------------------------------------------------------
\* The inductive invariant of the loop.

\* Something of a broken frame is still in the backlog.
Remains == last # "whole" /\ (Pending \/ Backlog # <<>>)

\* The pending frames have consecutive CTRs up to the last frame begun.
Consecutive ==
    /\ \A i \in Len(delivered) + 1 .. Len(sent) - 1 :
           sent[i + 1].ctr = Succ(sent[i].ctr)
    /\ Pending => LastCtr = IF last = "whole" THEN sent[Len(sent)].ctr
                                              ELSE Succ(sent[Len(sent)].ctr)

\* The CTR of the next header the parser will accept, the bytes of a broken
\* frame included, and whether it will be found to leave a gap.
Upcoming ==
    IF Pending THEN NextFrame.ctr ELSE IF Unnoticed THEN LastCtr ELSE next_ctr
Gap == rx_state = "WAIT_HEADER" /\ rx_ctr_initialised
           /\ Upcoming # Succ(rx_last_ctr)

\* The header of a broken frame has not been accepted yet.
HeaderAhead == Unnoticed /\ (Pending \/ rx_state = "WAIT_HEADER")

\* In the middle of a frame the loop is never busy for long, and while bytes
\* are waiting the silence is only the time since the last poll.
Prompt ==
    /\ pc = "answer" => rx = <<>> /\ rx_state = "WAIT_HEADER"
    /\ MidFrame => /\ unpolled <= LoopGap
                   /\ fifo # <<>> \/ wire # <<>> => silence = unpolled
                   /\ pc = "sxi" /\ wire # <<>> => fifo # <<>>

\* The master's pause is no longer than the silence the parser measures.
QuietTime ==
    last # "whole" => /\ quiet > 0 => wire = <<>> /\ fifo = <<>>
                      /\ MidFrame => quiet <= silence

\* What is counted, and what is still to be counted, of the broken frames.
Count(b) == IF b THEN 1 ELSE 0
Tally ==
    /\ broken = 0 => stats.framing_errors = 0
    /\ stats.idle_timeouts + Count(Remains) <= broken
    /\ stats.idle_timeouts + stats.framing_errors + Count(Unnoticed) >= broken
    /\ stats.ctr_errors + (Count(Gap) + Count(HeaderAhead)) <= broken

LoopInv ==
    /\ IInv /\ LoopType /\ Stream /\ Consecutive
    /\ Prompt /\ QuietTime /\ Tally

\* Bytes that only move along leave the stream as it is.
LEMMA SameStream ==
    ASSUME Backlog' = Backlog, UNCHANGED <<masterVars, delivered>>
    PROVE  /\ Unnoticed' <=> Unnoticed
           /\ Pending' <=> Pending
           /\ Remains' <=> Remains
           /\ LastCtr' = LastCtr /\ Upcoming' = Upcoming
           /\ Stream => Stream'
           /\ Consecutive => Consecutive'
<1>1. /\ UNCHANGED <<next_ctr, last, broken, sent, delivered>>
      /\ Pending' <=> Pending
  BY DEF masterVars, Pending
<1>2. /\ Unnoticed' <=> Unnoticed
      /\ Remains' <=> Remains
  BY <1>1 DEF Unnoticed, Remains
<1>3. LastCtr' = LastCtr
  BY <1>1 DEF LastCtr
<1>4. Upcoming' = Upcoming
  BY <1>1, <1>2, <1>3 DEF Upcoming, NextFrame
<1>5. Stream => Stream'
  BY <1>1, <1>2, <1>3 DEF Stream, Chain, LastTail
<1>6. Consecutive => Consecutive'
  BY <1>1, <1>3 DEF Consecutive
<1> QED BY <1>1, <1>2, <1>3, <1>4, <1>5, <1>6

LEMMA SameTally ==
    ASSUME Tally, Backlog' = Backlog, UNCHANGED <<masterVars, delivered>>,
           stats' = stats, rx_last_ctr' = rx_last_ctr,
           rx_ctr_initialised' = rx_ctr_initialised,
           rx_state' = "WAIT_HEADER" <=> rx_state = "WAIT_HEADER"
    PROVE  Tally'
<1>1. /\ Gap' <=> Gap
      /\ HeaderAhead' <=> HeaderAhead
  BY SameStream DEF Gap, HeaderAhead
<1>2. /\ Count(Unnoticed)' = Count(Unnoticed) /\ Count(Remains)' = Count(Remains)
      /\ Count(Gap)' = Count(Gap) /\ Count(HeaderAhead)' = Count(HeaderAhead)
      /\ broken' = broken
  BY <1>1, SameStream DEF Count, masterVars
<1> QED BY <1>2 DEF Tally

\* A parser that waits in the middle of a frame, with nothing left to come,
\* holds the bytes of a broken frame.
LEMMA StuckIsBroken ==
    ASSUME HarmlessAfter, IInv, LoopType, Stream, MidFrame, Queue = <<>>
    PROVE  /\ ~Pending /\ last # "whole" /\ Backlog = rx /\ rx # <<>> /\ Remains
           /\ last = "oversized" => ~Unnoticed /\ rx_state = "WAIT_HEADER"
           /\ last = "broken" => Unnoticed
           /\ rx_state # "WAIT_HEADER" => rx_last_ctr = LastCtr
<1>1. /\ rx \in Seq(Byte) /\ Queue \in Seq(Byte) /\ Len(rx) \in Nat
      /\ Backlog = rx /\ Join(rx, Queue) = Backlog
  BY BacklogType
<1>2. /\ rx_state \in {"WAIT_HEADER", "WAIT_PAYLOAD"}
      /\ rx_state = "WAIT_HEADER" => Len(rx) < 4
      /\ rx_state = "WAIT_PAYLOAD" =>
             /\ Len(rx) >= 4 /\ Len(rx) < 4 + rx_expected
             /\ rx_expected = U16(rx[1], rx[2]) /\ rx_last_ctr = U16(rx[3], rx[4])
      /\ rx_expected \in 0 .. MaxCto
  BY DEF IInv, TypeOK, ParserShape, MidFrame, HeaderSize
<1>3. rx # <<>>
  BY <1>1, <1>2, BytesEmpty DEF MidFrame
<1>4. rx_expected \in Nat /\ rx_expected <= MaxCto /\ MaxCto \in Nat
  BY <1>2, SizeConstants
<1>5. rx_state = "WAIT_PAYLOAD" =>
          SaysWhole(rx) \/ SaysBroken(rx) \/ SaysOversized(rx)
  BY <1>1, <1>2, HeaderMeans DEF HeaderSize
<1>6. rx_state = "WAIT_PAYLOAD" => ~SaysOversized(rx)
  BY <1>2, <1>4 DEF SaysOversized
<1>7. ~Pending
  <2> SUFFICES ASSUME Pending PROVE FALSE
    OBVIOUS
  <2>1. PICK r \in Seq(Byte) : Backlog = Join(FrameOf(NextFrame), r)
    BY NextFrameFirst
  <2>2. PICK c \in Ctr, p \in Payloads :
            p = NextFrame.payload /\ FrameOf(NextFrame) = Frame(c, p)
    BY NextFrameFirst DEF FrameOf
  <2>3. Frame(c, p) \in Seq(Byte) /\ Len(Frame(c, p)) = 4 + Len(p)
        /\ Len(p) \in Nat
    BY FrameShape, LoopConstants DEF HeaderSize
  <2>4. Len(Join(Frame(c, p), r)) = 4 + Len(p) + Len(r) /\ Len(r) \in Nat
    BY <2>3, BytesJoin
  <2>5. Len(rx) >= 4 + Len(p)
    BY <1>1, <2>1, <2>2, <2>3, <2>4
  <2>6. rx_state = "WAIT_PAYLOAD" /\ SaysWhole(rx)
    BY <1>2, <1>5, <1>6, <2>3, <2>5 DEF SaysBroken
  <2> QED BY <1>2, <2>2, <2>3, <2>5, <2>6 DEF SaysWhole
<1>8. last # "whole"
  BY <1>1, <1>3, <1>7, OnlyTail DEF LastTail
<1>9. last = "oversized" => ~Unnoticed /\ rx_state = "WAIT_HEADER"
  <2>1. rx_state = "WAIT_PAYLOAD" => last = "broken"
    BY <1>5, <1>6, <1>7 DEF SaysWhole, SaysBroken
  <2> QED BY <1>1, <1>2, <1>7, <2>1 DEF Unnoticed, HeaderSize
<1>10. last = "broken" => Unnoticed
  BY <1>1, <1>3 DEF Unnoticed
<1>11. rx_state # "WAIT_HEADER" => rx_last_ctr = LastCtr
  BY <1>2, <1>5, <1>6, <1>7 DEF SaysWhole, SaysBroken
<1>12. Remains
  BY <1>1, <1>3, <1>8 DEF Remains
<1> QED BY <1>1, <1>3, <1>7, <1>8, <1>9, <1>10, <1>11, <1>12

LEMMA TimeNumbers ==
    ASSUME IInv, LoopType
    PROVE  /\ silence \in Nat /\ unpolled \in Nat /\ quiet \in Nat
           /\ LoopGap \in Nat /\ IdleTimeout \in Nat /\ Pause \in Nat
           /\ LoopGap > 0 /\ LoopGap <= IdleTimeout
           /\ IdleTimeout + LoopGap < Pause
<1>1. /\ silence \in 0 .. TimeMod /\ unpolled \in 0 .. PollGap
      /\ quiet \in 0 .. Pause
  BY DEF IInv, TypeOK, LoopType
<1> QED BY <1>1, LoopConstants, TimeConstants

\* Only a parser with nothing left to read is found stalled.
LEMMA StalledIsDry ==
    ASSUME LoopInv, Stalled
    PROVE  MidFrame /\ fifo = <<>> /\ wire = <<>>
<1>1. MidFrame /\ Elapsed(now, rx_last_byte_time) > IdleTimeout
  BY DEF Stalled
<1>2. silence > IdleTimeout
  BY <1>1 DEF LoopInv, IInv, SilenceMeasured
<1>3. fifo # <<>> \/ wire # <<>> => silence <= IdleTimeout
  BY <1>1, TimeNumbers DEF LoopInv, Prompt
<1> QED BY <1>1, <1>2, <1>3, TimeNumbers DEF LoopInv

\* When the master's pause is over nothing of the broken frame is left.
LEMMA PauseClears ==
    ASSUME HarmlessAfter, LoopInv, last # "whole", quiet = Pause
    PROVE  /\ Queue = <<>> /\ rx = <<>> /\ rx_state = "WAIT_HEADER"
           /\ Backlog = <<>> /\ ~Pending /\ ~Unnoticed
<1> USE DEF LoopInv
<1>1. Queue = <<>>
  <2>1. quiet > 0
    BY TimeNumbers
  <2> QED BY <2>1, BacklogType DEF QuietTime
<1>2. ~MidFrame
  <2> SUFFICES ASSUME MidFrame PROVE FALSE
    OBVIOUS
  <2>1. quiet <= silence /\ unpolled <= LoopGap
        /\ silence <= IdleTimeout + unpolled
    BY DEF QuietTime, Prompt, IInv, SilenceMeasured
  <2> QED BY <2>1, TimeNumbers
<1>3. rx_state # "FRAME_READY"
  BY <1>1, ReadyIsNext
<1>4. rx = <<>> /\ rx_state = "WAIT_HEADER"
  BY <1>2, <1>3 DEF MidFrame
<1>5. Backlog = <<>> /\ Len(Backlog) = 0
  BY <1>1, <1>4, BacklogType, BytesEmpty
<1>6. ~Pending
  <2> SUFFICES ASSUME Pending PROVE FALSE
    OBVIOUS
  <2>1. PICK r \in Seq(Byte) : Backlog = Join(FrameOf(NextFrame), r)
    BY NextFrameFirst
  <2>2. PICK c \in Ctr, p \in Payloads : FrameOf(NextFrame) = Frame(c, p)
    BY NextFrameFirst DEF FrameOf
  <2>3. Frame(c, p) \in Seq(Byte) /\ Len(Frame(c, p)) = 4 + Len(p)
        /\ Len(p) \in Nat
    BY FrameShape, LoopConstants DEF HeaderSize
  <2>4. Len(Join(Frame(c, p), r)) = 4 + Len(p) + Len(r) /\ Len(r) \in Nat
    BY <2>3, BytesJoin
  <2> QED BY <1>5, <2>1, <2>2, <2>3, <2>4
<1>7. ~Unnoticed
  BY <1>5, <1>6 DEF Unnoticed, HeaderSize
<1> QED BY <1>1, <1>4, <1>5, <1>6, <1>7

\* When the master writes, the stream ends with a whole frame, and a parser in
\* the middle of one still has bytes to read.
LEMMA WriteClean ==
    ASSUME HarmlessAfter, LoopInv, MayWrite
    PROVE  /\ wire = <<>> /\ Queue = fifo
           /\ ~Unnoticed /\ (Pending => last = "whole")
           /\ Upcoming = IF Pending THEN NextFrame.ctr ELSE next_ctr
           /\ MidFrame => fifo # <<>>
           /\ \A t : LastTail(t) /\ (~Pending => t = Backlog) => t = <<>>
<1>1. wire = <<>> /\ (last # "whole" => quiet = Pause)
  BY DEF MayWrite
<1>2. Queue = fifo
  BY <1>1, BacklogType, BytesEmpty DEF LoopInv
<1>3. CASE last = "whole"
  <2>1. ~Unnoticed
    BY <1>3 DEF Unnoticed
  <2>2. MidFrame => fifo # <<>>
    BY <1>2, <1>3, StuckIsBroken DEF LoopInv
  <2> QED BY <1>1, <1>2, <1>3, <2>1, <2>2 DEF Upcoming, LastTail
<1>4. CASE last # "whole"
  <2>1. /\ rx = <<>> /\ rx_state = "WAIT_HEADER" /\ Backlog = <<>>
        /\ ~Pending /\ ~Unnoticed
    BY <1>1, <1>4, PauseClears
  <2> QED BY <1>1, <1>2, <2>1 DEF Upcoming, MidFrame
<1> QED BY <1>3, <1>4

-----------------------------------------------------------------------------
\* Timing: Prompt and QuietTime.

\* Steps that neither read nor let time pass.
LEMMA SameTiming ==
    ASSUME Prompt, UNCHANGED <<parserVars, fifo, wire, unpolled, silence>>,
           pc' = "answer" => rx = <<>> /\ rx_state = "WAIT_HEADER",
           pc' = "sxi" => pc = "sxi" \/ ~MidFrame \/ wire = <<>>
    PROVE  Prompt'
BY DEF Prompt, MidFrame, parserVars

LEMMA SameQuiet ==
    ASSUME QuietTime,
           UNCHANGED <<parserVars, fifo, wire, silence, last, quiet>>
    PROVE  QuietTime'
BY DEF QuietTime, MidFrame, parserVars

LEMMA FillTiming ==
    ASSUME LoopInv, Fill, pc' # "answer" \/ pc = "answer",
           UNCHANGED <<parserVars, unpolled, silence, last, quiet>>
    PROVE  Prompt' /\ QuietTime'
<1>1. wire # <<>> /\ fifo' # <<>>
  BY FillShape DEF LoopInv, IInv, TypeOK, LoopType
<1>2. rx' = rx /\ rx_state' = rx_state /\ (MidFrame' <=> MidFrame)
  BY DEF parserVars, MidFrame
<1>3. Prompt'
  BY <1>1, <1>2 DEF LoopInv, Prompt
<1>4. last # "whole" => quiet = 0
  BY <1>1, TimeNumbers DEF LoopInv, QuietTime
<1>5. QuietTime'
  BY <1>2, <1>4, TimeNumbers DEF LoopInv, QuietTime
<1> QED BY <1>3, <1>5

LEMMA WriteTiming ==
    ASSUME HarmlessAfter, LoopInv, NEW bytes, NEW kind, Write(bytes, kind)
    PROVE  Prompt' /\ QuietTime'
<1>1. /\ MayWrite /\ quiet' = 0 /\ pc' = pc
      /\ UNCHANGED <<fifo, rx, rx_state, unpolled, silence>>
  BY DEF Write, vars
<1>2. MidFrame => fifo # <<>>
  BY <1>1, WriteClean
<1>3. MidFrame' <=> MidFrame
  BY <1>1 DEF MidFrame
<1>4. Prompt'
  BY <1>1, <1>2, <1>3 DEF LoopInv, Prompt
<1>5. QuietTime'
  BY <1>1, TimeNumbers DEF LoopInv, QuietTime
<1> QED BY <1>4, <1>5

LEMMA TickTiming ==
    ASSUME LoopInv, LoopTick
    PROVE  Prompt' /\ QuietTime'
<1>1. /\ pc' = pc /\ wire' = wire /\ last' = last
      /\ UNCHANGED <<fifo, rx, rx_state>>
      /\ unpolled' = unpolled + 1
      /\ pc # "answer" => unpolled < LoopGap
      /\ quiet' = IF last # "whole" /\ wire = <<>> /\ fifo = <<>> /\ quiet < Pause
                  THEN quiet + 1 ELSE quiet
      /\ unpolled < PollGap
      /\ silence' = IF silence < TimeMod THEN silence + 1 ELSE silence
  BY DEF LoopTick, Tick, parserVars, masterVars
<1>2. MidFrame' <=> MidFrame
  BY <1>1 DEF MidFrame
<1>3. MidFrame => pc # "answer" /\ silence <= IdleTimeout + unpolled
  BY DEF LoopInv, Prompt, MidFrame, IInv, SilenceMeasured
<1>4. MidFrame => silence' = silence + 1
  BY <1>1, <1>3, TimeNumbers, TimeConstants DEF LoopInv
<1>5. Prompt'
  BY <1>1, <1>2, <1>3, <1>4, TimeNumbers DEF LoopInv, Prompt
<1>6. QuietTime'
  BY <1>1, <1>2, <1>4, TimeNumbers DEF LoopInv, QuietTime
<1> QED BY <1>5, <1>6

\* A read sets the silence back, and the bytes it takes were still waiting.
LEMMA ReadTiming ==
    ASSUME LoopInv, Read, pc' = "protocol", UNCHANGED <<wire, last, quiet>>
    PROVE  Prompt' /\ QuietTime'
<1>1. Received > 0 /\ silence' = 0 /\ unpolled' = 0
  BY DEF Read
<1>2. Prompt'
  BY <1>1, TimeNumbers DEF LoopInv, Prompt
<1>3. fifo # <<>>
  <2>1. Received <= Len(fifo) /\ Len(fifo) \in Nat /\ Received \in Nat
    BY <1>1, ReadShape DEF Read, LoopInv, IInv
  <2>2. Len(fifo) # 0
    BY <1>1, <2>1
  <2> QED BY <2>2, BytesEmpty
<1>4. last # "whole" => quiet = 0
  BY <1>3, TimeNumbers DEF LoopInv, QuietTime
<1>5. QuietTime'
  BY <1>1, <1>4 DEF QuietTime
<1> QED BY <1>2, <1>5

\* A poll that finds nothing: had there been bytes on the wire, the FIFO would
\* have held some.
LEMMA EmptyTiming ==
    ASSUME LoopInv, TaskEmpty, pc = "sxi", pc' = "protocol",
           UNCHANGED <<wire, last, quiet>>
    PROVE  Prompt' /\ QuietTime'
<1>1. MidFrame' => ~Stalled /\ MidFrame
  BY DEF TaskEmpty, MidFrame, StateNow, BufNow
<1>2. fifo' = fifo /\ silence' = silence /\ unpolled' = 0
      /\ StateNow # "FRAME_READY" /\ Received = 0
  BY DEF TaskEmpty
<1>3. fifo = <<>>
  <2>1. BytesNeeded > 0 /\ BytesNeeded \in Int
    BY <1>2, NowShape DEF LoopInv, IInv
  <2>2. Len(fifo) = 0 /\ fifo \in Seq(Byte)
    BY <1>2, <2>1 DEF Received, LoopInv, IInv, TypeOK
  <2> QED BY <2>2, BytesEmpty
<1>4. MidFrame => wire = <<>>
  BY <1>3 DEF LoopInv, Prompt
<1>5. Prompt'
  BY <1>1, <1>2, <1>3, <1>4, LoopConstants DEF Prompt
<1>6. QuietTime'
  BY <1>1, <1>2, <1>3 DEF LoopInv, QuietTime
<1> QED BY <1>5, <1>6

LEMMA HoldTiming ==
    ASSUME LoopInv, TaskHold, pc' = "protocol", UNCHANGED <<wire, last, quiet>>
    PROVE  Prompt' /\ QuietTime'
<1>1. rx_state = "FRAME_READY" /\ rx_state' = "FRAME_READY"
  BY DEF TaskHold, StateNow, parserVars
<1> QED BY <1>1 DEF TaskHold, LoopInv, Prompt, QuietTime, MidFrame

LEMMA TimingNext ==
    ASSUME HarmlessAfter, LoopInv, [LoopNext]_loopVars
    PROVE  Prompt' /\ QuietTime'
<1> USE DEF LoopInv
<1>1. CASE WriteWhole
  BY <1>1, WriteTiming DEF WriteWhole
<1>2. CASE WriteBroken
  BY <1>2, WriteTiming DEF WriteBroken
<1>3. CASE WriteOversized
  BY <1>3, WriteTiming DEF WriteOversized
<1>4. CASE FillMeanwhile
  BY <1>4, FillTiming DEF FillMeanwhile, clockVars, masterVars
<1>5. CASE UsbTask
  <2>1. CASE Fill
    BY <1>5, <2>1, FillTiming DEF UsbTask, clockVars, masterVars
  <2>2. CASE (wire = <<>> \/ Len(fifo) = FifoCap)
             /\ UNCHANGED <<fifo, wire, arrived>>
    <3>1. /\ pc' = "sxi" /\ last' = last /\ quiet' = quiet
          /\ UNCHANGED <<parserVars, fifo, wire, unpolled, silence>>
      BY <1>5, <2>2 DEF UsbTask, clockVars, masterVars
    <3>2. wire # <<>> => fifo # <<>>
      BY <2>2, SizeConstants, BytesEmpty
    <3>3. Prompt'
      BY <3>1, <3>2 DEF Prompt, MidFrame, parserVars
    <3> QED BY <3>1, <3>3, SameQuiet
  <2> QED BY <1>5, <2>1, <2>2 DEF UsbTask
<1>6. CASE LoopSxiTask
  <2>1. pc = "sxi" /\ pc' = "protocol" /\ UNCHANGED <<wire, last, quiet>>
    BY <1>6 DEF LoopSxiTask, masterVars
  <2>2. \/ TaskHold \/ TaskEmpty \/ Read
    BY <1>6 DEF LoopSxiTask, SxiTask, TaskPartial, TaskReject, TaskAccept,
       TaskPayload
  <2> QED BY <2>1, <2>2, HoldTiming, EmptyTiming, ReadTiming
<1>7. CASE ProtocolTask
  <2>1. CASE GetPacket /\ pc' = "answer"
    <3>1. /\ rx' = <<>> /\ rx_state' = "WAIT_HEADER"
          /\ UNCHANGED <<fifo, wire, last, quiet>>
      BY <1>7, <2>1 DEF ProtocolTask, GetPacket, masterVars
    <3> QED BY <3>1 DEF Prompt, QuietTime, MidFrame
  <2>2. CASE pc' = "usb" /\ UNCHANGED vars
    <3>1. /\ UNCHANGED <<parserVars, fifo, wire, unpolled, silence, last, quiet>>
      BY <1>7, <2>2 DEF ProtocolTask, vars, parserVars, masterVars
    <3> QED BY <2>2, <3>1, SameTiming, SameQuiet
  <2> QED BY <1>7, <2>1, <2>2 DEF ProtocolTask
<1>8. CASE Answered
  <2>1. pc' = "usb"
        /\ UNCHANGED <<parserVars, fifo, wire, unpolled, silence, last, quiet>>
    BY <1>8 DEF Answered, vars, parserVars, masterVars
  <2> QED BY <2>1, SameTiming, SameQuiet
<1>9. CASE LoopTick
  BY <1>9, TickTiming
<1>10. CASE UNCHANGED loopVars
  <2>1. pc' = pc
        /\ UNCHANGED <<parserVars, fifo, wire, unpolled, silence, last, quiet>>
    BY <1>10 DEF loopVars, vars, parserVars, masterVars
  <2> QED BY <2>1, SameTiming, SameQuiet DEF Prompt
<1> QED BY <1>1, <1>2, <1>3, <1>4, <1>5, <1>6, <1>7, <1>8, <1>9, <1>10
        DEF LoopNext, LoopStep

-----------------------------------------------------------------------------
\* The steps of the SxI task and of the protocol task, on the stream.

\* A read that finds the parser still waiting moves bytes and loses none.
LEMMA ReadJoin ==
    ASSUME IInv, LoopType, Read, ~Stalled, UNCHANGED wire
    PROVE  /\ BufFed \in Seq(Byte) /\ Queue' \in Seq(Byte)
           /\ Join(BufFed, Queue') = Backlog
           /\ rx' = BufFed => Backlog' = Backlog
<1>1. /\ rx \in Seq(Byte) /\ fifo \in Seq(Byte) /\ wire \in Seq(Byte)
      /\ Queue = Join(fifo, wire) /\ Backlog = Join(rx, Queue)
  BY BacklogType
<1>2. /\ Received \in Nat /\ Received <= Len(fifo) /\ BufNow = rx
      /\ BufFed \in Seq(Byte)
      /\ fifo' = SubSeq(fifo, Received + 1, Len(fifo))
  BY ReadShape DEF Read, IInv, BufNow
<1> DEFINE a == SubSeq(fifo, 1, Received)
           b == SubSeq(fifo, Received + 1, Len(fifo))
<1>3. a \in Seq(Byte) /\ b \in Seq(Byte) /\ Join(a, b) = fifo
  BY <1>1, <1>2, FrontShape DEF Join
<1>4. BufFed = Join(rx, a) /\ fifo' = b /\ wire' = wire
  BY <1>2 DEF BufFed, Join
<1> HIDE DEF a, b
<1>5. Queue' = Join(b, wire) /\ Queue' \in Seq(Byte)
  BY <1>1, <1>3, <1>4, BytesJoin DEF Queue, Join
<1>6. Join(a, Join(b, wire)) = Queue
  BY <1>1, <1>3, JoinAssociative
<1>7. Join(Join(rx, a), Join(b, wire)) = Join(rx, Join(a, Join(b, wire)))
  <2>1. Join(b, wire) \in Seq(Byte)
    BY <1>5
  <2> QED BY <1>1, <1>3, <2>1, JoinAssociative
<1>8. Join(BufFed, Queue') = Backlog
  BY <1>1, <1>4, <1>5, <1>6, <1>7
<1>9. rx' = BufFed => Backlog' = Backlog
  BY <1>8 DEF Backlog, Join
<1> QED BY <1>2, <1>5, <1>8, <1>9

\* The three parts of LoopInv that are about the stream.
StreamInv == Stream /\ Consecutive /\ Tally

\* Bytes that only move along keep them.
LEMMA SameStreamInv ==
    ASSUME LoopInv, Backlog' = Backlog, UNCHANGED <<masterVars, delivered>>,
           stats' = stats, rx_last_ctr' = rx_last_ctr,
           rx_ctr_initialised' = rx_ctr_initialised,
           rx_state' = "WAIT_HEADER" <=> rx_state = "WAIT_HEADER"
    PROVE  StreamInv'
BY SameStream, SameTally DEF LoopInv, StreamInv

LEMMA FillStream ==
    ASSUME LoopInv, Fill,
           UNCHANGED <<parserVars, ctrVars, stats, masterVars, delivered>>
    PROVE  StreamInv'
<1>1. fifo' \o wire' = fifo \o wire
  BY FillShape DEF LoopInv, IInv, TypeOK, LoopType
<1>2. Backlog' = Backlog
  BY <1>1 DEF Backlog, Queue, parserVars
<1> QED BY <1>2, SameStreamInv DEF parserVars, ctrVars

\* When the last whole frame has been delivered and the rest has been dropped
\* or may be dropped, any bytes can be left.
LEMMA DroppedStream ==
    ASSUME LoopInv, ~Pending, Backlog' \in Seq(Byte), LastTail(Backlog)',
           UNCHANGED <<masterVars, delivered>>
    PROVE  Stream' /\ Consecutive' /\ ~Pending'
<1>1. /\ UNCHANGED <<sent, delivered, last, next_ctr>> /\ ~Pending'
  BY DEF masterVars, Pending
<1>2. Len(delivered) = Len(sent) /\ Len(sent) \in Nat
  BY CountsType DEF LoopInv, Stream, Pending
<1> DEFINE m == Len(sent)
<1>3. PICK rest \in [m .. m -> Seq(Byte)] : rest[m] = Backlog'
  <2>1. [i \in m .. m |-> Backlog'] \in [m .. m -> Seq(Byte)]
        /\ [i \in m .. m |-> Backlog'][m] = Backlog'
    BY <1>2
  <2> QED BY <2>1
<1>4. Len(delivered') = m /\ Len(sent') = m /\ m .. m - 1 = {}
  BY <1>1, <1>2
<1> HIDE DEF m
<1>5. Chain(rest)'
  <2>1. \A i \in m .. m - 1 :
            rest[i] = Join(FrameOf(sent'[i + 1]), rest[i + 1])
    BY <1>4
  <2> QED BY <1>3, <1>4, <2>1, Zenon DEF Chain
<1>6. LastTail(rest[Len(sent)])'
  <2>1. rest[Len(sent')] = Backlog'
    BY <1>3, <1>4
  <2> QED BY <2>1, Zenon DEF LastTail
<1>7. Stream'
  BY <1>4, <1>5, <1>6 DEF Stream
<1>8. Consecutive'
  <2>1. Len(delivered') + 1 .. Len(sent') - 1 = {}
    BY <1>2, <1>4 DEF m
  <2> QED BY <1>1, <2>1 DEF Consecutive
<1> QED BY <1>1, <1>7, <1>8

\* The counters, as numbers.
LEMMA CountersType ==
    ASSUME IInv, LoopType
    PROVE  /\ stats.framing_errors \in Nat /\ stats.idle_timeouts \in Nat
           /\ stats.ctr_errors \in Nat /\ broken \in Nat /\ stats \in Stats
BY DEF IInv, TypeOK, LoopType, Stats

\* An accepted header is that of the next whole frame or of the broken frame:
\* the gap it is charged with was there before, and none is left.
LEMMA AcceptStream ==
    ASSUME HarmlessAfter, LoopInv, TaskAccept, ~Stalled,
           UNCHANGED <<wire, masterVars, delivered>>
    PROVE  StreamInv'
<1> USE DEF LoopInv
<1>1. /\ Read /\ HeaderComplete /\ HeaderLen <= MaxCto /\ rx' = BufFed
      /\ rx_state' # "WAIT_HEADER" /\ rx_state = "WAIT_HEADER"
  BY DEF TaskAccept, HeaderComplete, StateNow
<1>2. /\ BufFed \in Seq(Byte) /\ Queue' \in Seq(Byte)
      /\ Join(BufFed, Queue') = Backlog /\ Backlog' = Backlog
      /\ Len(BufFed) >= HeaderSize
  BY <1>1, ReadJoin DEF HeaderComplete
<1>3. SaysWhole(BufFed) \/ SaysBroken(BufFed) \/ SaysOversized(BufFed)
  <2> DEFINE b == BufFed  z == Queue'
  <2>1. /\ b \in Seq(Byte) /\ z \in Seq(Byte) /\ Join(b, z) = Backlog
        /\ Len(b) >= HeaderSize
    BY <1>2
  <2> HIDE DEF b, z
  <2>2. SaysWhole(b) \/ SaysBroken(b) \/ SaysOversized(b)
    BY <2>1, HeaderMeans
  <2> QED BY <2>2 DEF b
<1>4. ~SaysOversized(BufFed)
  BY <1>1, SizeConstants, CtrModType DEF SaysOversized, HeaderLen, Ctr
<1>5. HeaderCtr = Upcoming
  BY <1>3, <1>4 DEF SaysWhole, SaysBroken, HeaderCtr, Upcoming
<1>6. CtrGap <=> Gap
  BY <1>1, <1>5 DEF CtrGap, Gap, Succ
<1>7. /\ stats'.framing_errors = stats.framing_errors
      /\ stats'.idle_timeouts = stats.idle_timeouts
      /\ stats'.ctr_errors = stats.ctr_errors + Count(Gap)
  BY <1>6, CountersType DEF TaskAccept, StatsNow, Stats, Count
<1>8. /\ Stream' /\ Consecutive' /\ (Unnoticed' <=> Unnoticed)
      /\ (Pending' <=> Pending) /\ (Remains' <=> Remains)
  BY <1>2, SameStream
<1>9. ~Gap' /\ (HeaderAhead' => HeaderAhead)
  BY <1>1, <1>8 DEF Gap, HeaderAhead
<1>10. Tally'
  <2>1. /\ last' = last /\ broken' = broken
        /\ Count(Unnoticed)' = Count(Unnoticed)
        /\ Count(Remains)' = Count(Remains) /\ Count(Gap)' = 0
        /\ Count(HeaderAhead)' <= Count(HeaderAhead)
        /\ Count(HeaderAhead) \in 0 .. 1 /\ Count(HeaderAhead)' \in 0 .. 1
        /\ Count(Gap) \in 0 .. 1
    BY <1>8, <1>9 DEF Count, masterVars
  <2> QED BY <1>7, <2>1, CountersType DEF Tally
<1> QED BY <1>8, <1>10 DEF StreamInv

\* A rejected header is the impossible one or junk behind it.
LEMMA RejectStream ==
    ASSUME HarmlessAfter, LoopInv, TaskReject, ~Stalled,
           UNCHANGED <<wire, masterVars, delivered>>
    PROVE  StreamInv'
<1> USE DEF LoopInv
<1>1. /\ Read /\ HeaderComplete /\ HeaderLen > MaxCto /\ rx' = <<>>
      /\ rx_state' = "WAIT_HEADER" /\ rx_state = "WAIT_HEADER"
      /\ Len(BufFed) = HeaderSize
  BY RejectCounts DEF TaskReject, HeaderComplete, StateNow
<1>2. /\ BufFed \in Seq(Byte) /\ Queue' \in Seq(Byte)
      /\ Join(BufFed, Queue') = Backlog
  BY <1>1, ReadJoin
<1> DEFINE b == BufFed  z == Queue'
<1>3. /\ b \in Seq(Byte) /\ z \in Seq(Byte) /\ Join(b, z) = Backlog
      /\ Len(b) = HeaderSize
  BY <1>1, <1>2
<1>4. U16(b[1], b[2]) > MaxCto
  BY <1>1 DEF HeaderLen
<1>5. Backlog' = z
  BY <1>1, <1>3, BytesEmpty DEF Backlog, Join
<1> HIDE DEF b, z
<1>6. SaysWhole(b) \/ SaysBroken(b) \/ SaysOversized(b)
  <2>1. Len(b) >= HeaderSize
    BY <1>3 DEF HeaderSize
  <2> QED BY <1>3, <2>1, HeaderMeans
<1>7. ~Pending /\ Unnoticed /\ last = "oversized" /\ Unacceptable(Backlog)
  <2>1. U16(b[1], b[2]) <= MaxCto => FALSE
    <3>1. U16(b[1], b[2]) \in Ctr
      <4>1. b[1] \in Byte /\ b[2] \in Byte
        <5>1. 1 \in 1 .. Len(b) /\ 2 \in 1 .. Len(b)
          BY <1>3 DEF HeaderSize
        <5> QED BY <1>3, <5>1, ElementOfSeq
      <4> QED BY <4>1, U16Type
    <3> QED BY <1>4, <3>1, SizeConstants, CtrModType DEF Ctr
  <2> QED BY <1>6, <2>1 DEF SaysWhole, SaysBroken, SaysOversized
<1>8. Unacceptable(Backlog') /\ Backlog' \in Seq(Byte)
  <2> DEFINE t == Backlog
  <2>1. Join(b, z) = t /\ Unacceptable(t)
    BY <1>3, <1>7
  <2> HIDE DEF t
  <2>2. Unacceptable(z)
    BY <1>3, <2>1, RestUnacceptable
  <2> QED BY <1>3, <1>5, <2>2
<1>9. /\ last' = last /\ broken' = broken /\ next_ctr' = next_ctr
      /\ ~Pending' /\ LastCtr' = LastCtr
  BY <1>7 DEF masterVars, Pending, LastCtr
<1>10. Unnoticed' => Len(Backlog') >= HeaderSize
  BY <1>7, <1>9 DEF Unnoticed
<1>11. Stream' /\ Consecutive'
  BY <1>7, <1>8, <1>9, <1>10, DroppedStream DEF LastTail
<1>12. /\ stats'.framing_errors = stats.framing_errors + 1
       /\ stats'.idle_timeouts = stats.idle_timeouts
       /\ stats'.ctr_errors = stats.ctr_errors
  BY CountersType DEF TaskReject, StatsNow, Stats
<1>13. HeaderAhead /\ (HeaderAhead' => Unnoticed') /\ Remains
  <2>1. Backlog # <<>>
    <3>1. Len(Backlog) > 0
      <4>1. Len(Backlog) = Len(b) + Len(z) /\ Len(z) \in Nat
        BY <1>3, BytesJoin
      <4> QED BY <1>3, <4>1 DEF HeaderSize
    <3> QED BY <3>1, BytesEmpty
  <2> QED BY <1>1, <1>7, <2>1 DEF HeaderAhead, Remains
\* More of it may be to come, and then the next header is awaited as before.
<1>14. HeaderAhead' => (Gap' <=> Gap)
  <2>1. Unnoticed' => Upcoming' = Upcoming
    BY <1>7, <1>9 DEF Upcoming
  <2> QED BY <1>1, <1>13, <2>1 DEF Gap, TaskReject, ctrVars
<1>15. Tally'
  <2>1. /\ Count(Unnoticed) = 1 /\ Count(Unnoticed)' \in 0 .. 1
        /\ Count(Remains) = 1 /\ Count(Remains)' \in 0 .. 1
        /\ Count(HeaderAhead) = 1 /\ Count(HeaderAhead)' \in 0 .. 1
        /\ Count(Gap) \in 0 .. 1 /\ Count(Gap)' \in 0 .. 1
        /\ Count(HeaderAhead)' = 1 => Count(Gap)' = Count(Gap)
    BY <1>7, <1>13, <1>14 DEF Count
  <2> QED BY <1>9, <1>12, <2>1, CountersType DEF Tally
<1> QED BY <1>11, <1>15 DEF StreamInv

\* A timeout drops what is left of the broken frame, and counts it.
LEMMA StallStream ==
    ASSUME HarmlessAfter, LoopInv, TaskEmpty, Stalled,
           UNCHANGED <<wire, masterVars, delivered>>
    PROVE  StreamInv'
<1> USE DEF LoopInv
<1>1. MidFrame /\ fifo = <<>> /\ wire = <<>>
  BY StalledIsDry
<1>2. /\ ~Pending /\ last # "whole" /\ Remains
      /\ last = "oversized" => ~Unnoticed /\ rx_state = "WAIT_HEADER"
      /\ last = "broken" => Unnoticed
      /\ rx_state # "WAIT_HEADER" => rx_last_ctr = LastCtr
  BY <1>1, BacklogType, StuckIsBroken
<1>3. /\ Backlog' = <<>> /\ rx_state' = "WAIT_HEADER" /\ UNCHANGED ctrVars
      /\ stats' = StatsNow
  BY <1>1, BytesEmpty DEF TaskEmpty, BufNow, StateNow, Backlog, Queue
<1>4. last' = last /\ broken' = broken /\ next_ctr' = next_ctr /\ ~Pending'
  BY <1>2 DEF masterVars, Pending
<1>5. ~Unnoticed' /\ ~Remains'
  BY <1>3, <1>4, BytesEmpty DEF Unnoticed, Remains, HeaderSize
<1>6. Stream' /\ Consecutive'
  BY <1>2, <1>3, <1>4, <1>5, BytesEmpty, DroppedStream DEF LastTail
<1>7. /\ stats'.framing_errors = stats.framing_errors
      /\ stats'.idle_timeouts = stats.idle_timeouts + 1
      /\ stats'.ctr_errors = stats.ctr_errors
  BY <1>3, CountersType DEF StatsNow, Stats
<1>8. ~HeaderAhead' /\ Upcoming' = next_ctr
  BY <1>4, <1>5 DEF HeaderAhead, Upcoming
<1>9. Gap' => Gap \/ HeaderAhead
  <2>1. CASE last = "broken" /\ rx_state = "WAIT_HEADER"
    BY <1>2, <2>1 DEF HeaderAhead
  <2>2. CASE rx_state # "WAIT_HEADER"
    <3>1. next_ctr = Succ(rx_last_ctr)
      BY <1>2, <2>2, CountsType
    <3> QED BY <1>3, <1>8, <3>1 DEF Gap, ctrVars
  <2>3. CASE last = "oversized"
    <3>1. Upcoming = next_ctr /\ rx_state = "WAIT_HEADER"
      BY <1>2, <2>3 DEF Upcoming
    <3> QED BY <1>3, <1>8, <3>1 DEF Gap, ctrVars
  <2> QED BY <1>2, <2>1, <2>2, <2>3 DEF LoopType
<1>10. Tally'
  <2>1. /\ Count(Unnoticed) \in 0 .. 1 /\ Count(Unnoticed)' = 0
        /\ Count(Remains) = 1 /\ Count(Remains)' = 0
        /\ Count(HeaderAhead)' = 0
        /\ Count(Gap) \in 0 .. 1 /\ Count(HeaderAhead) \in 0 .. 1
        /\ Count(Gap)' \in 0 .. 1
        /\ Count(Gap)' <= Count(Gap) + Count(HeaderAhead)
    BY <1>2, <1>5, <1>8, <1>9 DEF Count
  <2> QED BY <1>4, <1>7, <2>1, CountersType DEF Tally
<1> QED BY <1>6, <1>10 DEF StreamInv

\* A call of the SxI task.
LEMMA TaskStream ==
    ASSUME HarmlessAfter, LoopInv, SxiTask,
           UNCHANGED <<wire, masterVars, delivered>>
    PROVE  StreamInv'
<1>1. CASE Stalled
  <2>1. StateNow = "WAIT_HEADER" /\ fifo = <<>>
    BY <1>1, StalledIsDry DEF StateNow
  <2>2. Received <= 0
    <3>1. BytesNeeded > 0 /\ BytesNeeded \in Int
      BY <2>1, NowShape DEF LoopInv, IInv
    <3> QED BY <2>1, <3>1, BytesEmpty DEF Received
  <2>3. Received \in Int
    BY <2>1, BytesEmpty, NowShape DEF Received, LoopInv, IInv
  <2>4. ~Read /\ ~TaskHold
    BY <2>1, <2>2, <2>3 DEF Read, TaskHold
  <2>5. TaskEmpty
    BY <2>4 DEF SxiTask, TaskPartial, TaskReject, TaskAccept, TaskPayload
  <2> QED BY <1>1, <2>5, StallStream
<1>2. CASE ~Stalled
  <2>0. /\ StateNow = rx_state /\ BufNow = rx /\ ExpectedNow = rx_expected
        /\ StatsNow = stats
    BY <1>2 DEF StateNow, BufNow, ExpectedNow, StatsNow
  <2>1. CASE TaskHold \/ TaskEmpty
    <3>1. /\ Backlog' = Backlog /\ stats' = stats /\ UNCHANGED ctrVars
          /\ rx_state' = rx_state
      BY <2>0, <2>1 DEF TaskHold, TaskEmpty, parserVars, Backlog, Queue
    <3> QED BY <3>1, SameStreamInv DEF ctrVars
  <2>2. CASE TaskPartial \/ TaskPayload
    <3>1. Read /\ rx' = BufFed /\ stats' = stats /\ UNCHANGED ctrVars
      BY <2>0, <2>2 DEF TaskPartial, TaskPayload
    <3>2. rx_state' = "WAIT_HEADER" <=> rx_state = "WAIT_HEADER"
      BY <2>0, <2>2 DEF TaskPartial, TaskPayload, PayloadComplete
    <3>3. Backlog' = Backlog
      BY <1>2, <3>1, ReadJoin DEF LoopInv
    <3> QED BY <3>1, <3>2, <3>3, SameStreamInv DEF ctrVars
  <2> QED BY <1>2, <2>1, <2>2, AcceptStream, RejectStream DEF SxiTask
<1> QED BY <1>1, <1>2

\* A delivery takes the first of the pending frames off the stream.
LEMMA DeliverStream ==
    ASSUME HarmlessAfter, LoopInv, GetPacket, UNCHANGED <<wire, masterVars>>,
           delivered' = Append(delivered,
                               [ctr |-> rx_last_ctr, payload |-> Payload])
    PROVE  StreamInv'
<1> USE DEF LoopInv
<1> DEFINE d == Len(delivered)  m == Len(sent)
<1>1. /\ Pending /\ Backlog = Join(FrameOf(NextFrame), Queue)
      /\ rx_last_ctr = NextFrame.ctr
      /\ (Queue = <<>> => last = "whole")
  BY ReadyIsNext DEF GetPacket
<1>2. /\ UNCHANGED <<next_ctr, last, broken, sent, fifo, wire, rx_last_ctr,
                     rx_ctr_initialised>>
      /\ rx' = <<>> /\ rx_state = "FRAME_READY" /\ rx_state' = "WAIT_HEADER"
      /\ stats' = [stats EXCEPT !.frames_received = @ + 1]
  BY DEF GetPacket, masterVars, ctrVars
<1>3. d \in Nat /\ m \in Nat /\ d < m /\ Len(delivered') = d + 1
  <2>1. Len(delivered') = Len(delivered) + 1
    <3> DEFINE f == [ctr |-> rx_last_ctr, payload |-> Payload]
               D == [ctr : Ctr, payload : Seq(Byte)]
    <3>1. f \in D /\ delivered \in Seq(D) /\ delivered' = Append(delivered, f)
      BY <1>2, PayloadShape DEF IInv, TypeOK, LoopType
    <3> HIDE DEF f, D
    <3> QED BY <3>1, AppendProperties
  <2> QED BY <1>1, <2>1, CountsType DEF Pending
<1>4. Backlog' = Queue /\ Queue \in Seq(Byte) /\ Queue' = Queue
  BY <1>2, BacklogType, BytesEmpty DEF Backlog, Queue, Join
<1>5. PICK rest : Chain(rest) /\ LastTail(rest[m])
  BY DEF Stream
<1>6. /\ \A i \in d .. m : rest[i] \in Seq(Byte)
      /\ rest[d] = Backlog
      /\ \A i \in d .. m - 1 : rest[i] = Join(FrameOf(sent[i + 1]), rest[i + 1])
  BY <1>5, Zenon DEF Chain
<1>7. rest[d + 1] = Queue
  <2>1. /\ rest[d] = Join(FrameOf(sent[d + 1]), rest[d + 1])
        /\ rest[d + 1] \in Seq(Byte)
    <3>1. d \in d .. m - 1 /\ d + 1 \in d .. m
      BY <1>3
    <3> QED BY <1>6, <3>1, Zenon
  <2> DEFINE f == FrameOf(NextFrame)  r == rest[d + 1]
  <2>2. f \in Seq(Byte)
    BY <1>1, NextFrameFirst
  <2>3. Join(f, r) = Join(f, Queue) /\ r \in Seq(Byte)
    BY <1>1, <1>6, <2>1, Zenon DEF NextFrame
  <2> HIDE DEF f, r
  <2>4. r = Queue
    BY <1>4, <2>2, <2>3, JoinCancels
  <2> QED BY <2>4 DEF r
<1>8. /\ Pending' <=> d + 1 < m
      /\ (~Pending' => Backlog' = rest[m] /\ d + 1 = m)
  BY <1>2, <1>3, <1>4, <1>7 DEF Pending
\* What the last frame left is still to come.
<1>9. ~Pending' /\ last # "whole" => Unnoticed'
  <2> SUFFICES ASSUME ~Pending', last # "whole" PROVE Unnoticed'
    OBVIOUS
  <2>1. Unnoticed /\ LastTail(Queue)
    BY <1>1, <1>4, <1>5, <1>8 DEF Unnoticed, LoopType
  <2>2. last = "broken" => Queue # <<>>
    BY <2>1, TailShape
  <2>3. last = "oversized" => Len(Queue) >= HeaderSize
    BY <2>1, TailShape
  <2> QED BY <1>2, <1>4, <2>2, <2>3 DEF Unnoticed, LoopType
<1>10. /\ Unnoticed' <=> last # "whole"
       /\ Unnoticed <=> last # "whole"
       /\ Remains' => Remains
  BY <1>1, <1>2, <1>9 DEF Unnoticed, Remains, LoopType
<1>11. LastCtr' = LastCtr
  BY <1>2 DEF LastCtr
<1>12. Stream'
  <2>1. PICK rest2 \in [d + 1 .. m -> Seq(Byte)] :
            \A i \in d + 1 .. m : rest2[i] = rest[i]
    <3>1. \A i \in d + 1 .. m : i \in d .. m
      BY <1>3
    <3>2. [i \in d + 1 .. m |-> rest[i]] \in [d + 1 .. m -> Seq(Byte)]
      BY <1>6, <3>1
    <3> QED BY <3>2
  <2>2. rest2[d + 1] = Queue /\ rest2[m] = rest[m]
    <3>1. d + 1 \in d + 1 .. m /\ m \in d + 1 .. m
      BY <1>3
    <3> QED BY <1>7, <2>1, <3>1
  <2>3. \A i \in d + 1 .. m - 1 :
            rest2[i] = Join(FrameOf(sent[i + 1]), rest2[i + 1])
    <3> TAKE i \in d + 1 .. m - 1
    <3>1. i \in d + 1 .. m /\ i + 1 \in d + 1 .. m /\ i \in d .. m - 1
      BY <1>3
    <3>2. rest2[i] = rest[i] /\ rest2[i + 1] = rest[i + 1]
      BY <2>1, <3>1
    <3>3. rest[i] = Join(FrameOf(sent[i + 1]), rest[i + 1])
      BY <1>6, <3>1, Zenon
    <3> QED BY <3>2, <3>3, Zenon
  <2>4. Len(delivered') = d + 1 /\ Len(sent') = m /\ sent' = sent
        /\ Backlog' = Queue
    BY <1>2, <1>3, <1>4
  <2> HIDE DEF d, m
  <2>5. Chain(rest2)'
    BY <2>1, <2>2, <2>3, <2>4, Zenon DEF Chain
  <2>6. LastTail(rest2[Len(sent)])'
    <3>1. LastTail(rest2[m])
      BY <1>5, <2>2
    <3>2. last' = last /\ (Unnoticed' <=> Unnoticed)
      BY <1>2, <1>10
    <3> QED BY <1>11, <2>4, <3>1, <3>2 DEF LastTail
  <2>7. Len(delivered') <= Len(sent')
    BY <1>3, <2>4 DEF d, m
  <2> QED BY <2>5, <2>6, <2>7 DEF Stream
<1>13. Consecutive'
  <2>1. \A i \in d + 1 + 1 .. m - 1 : sent[i + 1].ctr = Succ(sent[i].ctr)
    <3>1. \A i \in d + 1 + 1 .. m - 1 : i \in d + 1 .. m - 1
      BY <1>3
    <3> QED BY <3>1 DEF Consecutive
  <2> QED BY <1>1, <1>2, <1>3, <1>11, <2>1 DEF Consecutive
<1>14. Upcoming' = Succ(rx_last_ctr)
  <2>1. NextFrame = sent[d + 1]
    BY DEF NextFrame
  <2>2. CASE Pending'
    <3>1. d + 1 \in d + 1 .. m - 1
      BY <1>3, <1>8, <2>2
    <3>2. sent[d + 1 + 1].ctr = Succ(sent[d + 1].ctr)
      BY <3>1 DEF Consecutive
    <3>3. Upcoming' = sent[d + 1 + 1].ctr
      BY <1>2, <1>3, <2>2 DEF Upcoming, NextFrame
    <3> QED BY <1>1, <2>1, <3>2, <3>3
  <2>3. CASE ~Pending'
    <3>1. LastCtr = IF last = "whole" THEN rx_last_ctr ELSE Succ(rx_last_ctr)
      BY <1>1, <1>8, <2>1, <2>3 DEF Consecutive
    <3>2. next_ctr = Succ(LastCtr)
      BY CountsType
    <3> QED BY <1>2, <1>10, <1>11, <2>3, <3>1, <3>2 DEF Upcoming
  <2> QED BY <2>2, <2>3
<1>15. ~Gap' /\ (HeaderAhead' => HeaderAhead)
  BY <1>1, <1>2, <1>10, <1>14 DEF Gap, HeaderAhead
<1>16. Tally'
  <2>1. /\ last' = last /\ broken' = broken
        /\ stats'.framing_errors = stats.framing_errors
        /\ stats'.idle_timeouts = stats.idle_timeouts
        /\ stats'.ctr_errors = stats.ctr_errors
    BY <1>2, CountersType DEF Stats
  <2>2. /\ Count(Unnoticed)' = Count(Unnoticed)
        /\ Count(Remains)' <= Count(Remains) /\ Count(Gap)' = 0
        /\ Count(HeaderAhead)' <= Count(HeaderAhead)
        /\ Count(HeaderAhead) \in 0 .. 1 /\ Count(HeaderAhead)' \in 0 .. 1
        /\ Count(Gap) \in 0 .. 1
        /\ Count(Remains) \in 0 .. 1 /\ Count(Remains)' \in 0 .. 1
    BY <1>2, <1>10, <1>15 DEF Count
  <2> QED BY <2>1, <2>2, CountersType DEF Tally
<1> QED BY <1>12, <1>13, <1>16 DEF StreamInv

-----------------------------------------------------------------------------
\* The writes.

\* Bytes put behind the stream stand behind each of its rests.
LEMMA ChainJoin ==
    ASSUME LoopType, NEW rest, Chain(rest), NEW b \in Seq(Byte)
    PROVE  /\ \A i \in Len(delivered) .. Len(sent) :
                  rest[i] \in Seq(Byte) /\ Join(rest[i], b) \in Seq(Byte)
           /\ \A i \in Len(delivered) .. Len(sent) - 1 :
                  Join(rest[i], b)
                      = Join(FrameOf(sent[i + 1]), Join(rest[i + 1], b))
<1> DEFINE d == Len(delivered)  m == Len(sent)
<1>1. d \in Nat /\ m \in Nat
  BY CountsType
<1>2. /\ \A i \in d .. m : rest[i] \in Seq(Byte)
      /\ \A i \in d .. m - 1 : rest[i] = Join(FrameOf(sent[i + 1]), rest[i + 1])
  BY Zenon DEF Chain
<1>3. \A i \in d .. m : Join(rest[i], b) \in Seq(Byte)
  BY <1>2, BytesJoin
<1>4. ASSUME NEW i \in d .. m - 1
      PROVE  Join(rest[i], b) = Join(FrameOf(sent[i + 1]), Join(rest[i + 1], b))
  <2> DEFINE f == FrameOf(sent[i + 1])  r == rest[i + 1]
  <2>1. i + 1 \in d .. m /\ i + 1 \in 1 .. m
    BY <1>1
  <2>2. f \in Seq(Byte)
    <3>1. PICK c \in Ctr, p \in Payloads : f = Frame(c, p)
      BY <2>1, CountsType DEF FrameOf
    <3>2. Frame(c, p) \in Seq(Byte)
      BY FrameShape
    <3> QED BY <3>1, <3>2
  <2>3. r \in Seq(Byte) /\ rest[i] = Join(f, r)
    BY <1>2, <2>1, Zenon
  <2> HIDE DEF f, r
  <2>4. Join(Join(f, r), b) = Join(f, Join(r, b))
    BY <2>2, <2>3, JoinAssociative
  <2>5. Join(rest[i], b) = Join(f, Join(r, b))
    BY <2>3, <2>4, Zenon
  <2> QED BY <2>5 DEF f, r
<1> QED BY <1>2, <1>3, <1>4, Zenon

\* What every write does to the stream.
LEMMA WriteShape ==
    ASSUME HarmlessAfter, LoopInv, NEW bytes \in Seq(Byte), NEW kind,
           Write(bytes, kind)
    PROVE  /\ MayWrite /\ Backlog' = Join(Backlog, bytes)
           /\ Backlog' \in Seq(Byte) /\ Len(Backlog') >= Len(bytes)
           /\ last' = kind /\ LastCtr' = next_ctr
           /\ UNCHANGED <<vars, delivered>>
           /\ \E rest : Chain(rest) /\ rest[Len(sent)] = <<>>
           /\ \A t : LastTail(t) => (Pending => t = <<>>)
<1> USE DEF LoopInv
<1>1. /\ MayWrite /\ wire' = bytes /\ last' = kind
      /\ next_ctr' = Succ(next_ctr) /\ UNCHANGED <<vars, delivered>>
      /\ rx' = rx /\ fifo' = fifo
  BY DEF Write, Succ, vars
<1>2. /\ wire = <<>> /\ Queue = fifo /\ (Pending => last = "whole")
      /\ \A t : LastTail(t) /\ (~Pending => t = Backlog) => t = <<>>
  BY <1>1, WriteClean
<1>3. /\ rx \in Seq(Byte) /\ fifo \in Seq(Byte) /\ Backlog = Join(rx, fifo)
      /\ Backlog \in Seq(Byte)
  BY <1>2, BacklogType
<1>4. Backlog' = Join(rx, Join(fifo, bytes))
  BY <1>1 DEF Backlog, Queue, Join
<1>5. Backlog' = Join(Backlog, bytes)
  BY <1>3, <1>4, JoinAssociative
<1>6. Backlog' \in Seq(Byte) /\ Len(Backlog') >= Len(bytes)
  <2>1. /\ Join(Backlog, bytes) \in Seq(Byte)
        /\ Len(Join(Backlog, bytes)) = Len(Backlog) + Len(bytes)
        /\ Len(Backlog) \in Nat /\ Len(bytes) \in Nat
    BY <1>3, BytesJoin
  <2> QED BY <1>5, <2>1
<1>7. LastCtr' = next_ctr
  <2>1. next_ctr \in Ctr
        /\ next_ctr' = IF next_ctr + 1 = CtrMod THEN 0 ELSE next_ctr + 1
    BY <1>1, CountsType, SuccType
  <2> QED BY <2>1, CtrModType DEF LastCtr, Ctr
<1>8. \A t : LastTail(t) => (Pending => t = <<>>)
  BY <1>2 DEF LastTail
<1>9. \E rest : Chain(rest) /\ rest[Len(sent)] = <<>>
  <2>1. PICK rest : Chain(rest) /\ LastTail(rest[Len(sent)])
    BY DEF Stream
  <2>2. ~Pending => rest[Len(sent)] = Backlog
    <3>1. ~Pending => Len(sent) = Len(delivered)
      BY CountsType DEF Stream, Pending
    <3> QED BY <2>1, <3>1 DEF Chain
  <2> QED BY <1>2, <2>1, <2>2
<1> QED BY <1>1, <1>5, <1>6, <1>7, <1>8, <1>9

\* Writing does not change what the next header will be.
LEMMA WholeStream ==
    ASSUME HarmlessAfter, LoopInv, NEW p \in Payloads,
           Write(Frame(next_ctr, p), "whole"),
           sent' = Append(sent, [ctr |-> next_ctr, payload |-> p]),
           UNCHANGED broken
    PROVE  StreamInv'
<1> USE DEF LoopInv
<1> DEFINE d == Len(delivered)  m == Len(sent)
           f == [ctr |-> next_ctr, payload |-> p]
           b == Frame(next_ctr, p)
<1>1. b \in Seq(Byte) /\ FrameOf(f) = b
  BY CountsType, FrameShape DEF FrameOf
<1>2. /\ MayWrite /\ Backlog' = Join(Backlog, b) /\ Backlog' \in Seq(Byte)
      /\ last' = "whole" /\ LastCtr' = next_ctr
      /\ UNCHANGED <<vars, delivered>>
  BY <1>1, WriteShape
<1>3. PICK rest : Chain(rest) /\ rest[m] = <<>>
  BY <1>1, WriteShape
<1>4. /\ d \in Nat /\ m \in Nat /\ d <= m /\ Len(sent') = m + 1
      /\ \A i \in 1 .. m : sent'[i] = sent[i]
      /\ sent'[m + 1] = f
  <2> DEFINE F == [ctr : Ctr, payload : Payloads]
  <2>1. f \in F /\ sent \in Seq(F) /\ sent' = Append(sent, f)
    BY DEF LoopType
  <2> HIDE DEF f, F
  <2>2. /\ Len(sent') = Len(sent) + 1 /\ sent'[Len(sent) + 1] = f
        /\ \A i \in 1 .. Len(sent) : sent'[i] = sent[i]
    BY <2>1, AppendProperties
  <2> QED BY <2>2, CountsType DEF Stream
<1>5. f.ctr = next_ctr /\ Len(delivered') = d
  BY <1>2
<1>6. /\ ~Unnoticed /\ (Pending => last = "whole") /\ next_ctr = Succ(LastCtr)
      /\ Upcoming = IF Pending THEN NextFrame.ctr ELSE next_ctr
  BY <1>2, WriteClean, CountsType
<1>7. Pending' /\ ~Unnoticed' /\ ~Remains'
  BY <1>2, <1>4, <1>5 DEF Pending, Unnoticed, Remains
<1>8. Stream'
  <2>1. /\ \A i \in d .. m : rest[i] \in Seq(Byte) /\ Join(rest[i], b) \in Seq(Byte)
        /\ \A i \in d .. m - 1 :
               Join(rest[i], b) = Join(FrameOf(sent[i + 1]), Join(rest[i + 1], b))
    BY <1>1, <1>3, ChainJoin
  <2>2. rest[d] = Backlog
    BY <1>3 DEF Chain
  <2>3. PICK new \in [d .. m + 1 -> Seq(Byte)] :
            \A i \in d .. m + 1 :
                new[i] = IF i = m + 1 THEN <<>> ELSE Join(rest[i], b)
    <3> DEFINE g == [i \in d .. m + 1 |->
                        IF i = m + 1 THEN <<>> ELSE Join(rest[i], b)]
    <3>1. \A i \in d .. m + 1 :
              (IF i = m + 1 THEN <<>> ELSE Join(rest[i], b)) \in Seq(Byte)
      <4> TAKE i \in d .. m + 1
      <4>1. i = m + 1 \/ i \in d .. m
        BY <1>4
      <4> QED BY <2>1, <4>1, BytesEmpty
    <3>2. g \in [d .. m + 1 -> Seq(Byte)]
      BY <3>1
    <3> QED BY <3>2
  <2>4. /\ new[m + 1] = <<>> /\ new[m] = Join(<<>>, b)
        /\ new[d] = Join(Backlog, b)
    <3>1. d \in d .. m + 1 /\ m \in d .. m + 1 /\ m + 1 \in d .. m + 1
          /\ m # m + 1 /\ d # m + 1
      BY <1>4
    <3> QED BY <1>3, <2>2, <2>3, <3>1
  <2>5. \A i \in d .. m : new[i] = Join(FrameOf(sent'[i + 1]), new[i + 1])
    <3> TAKE i \in d .. m
    <3>1. CASE i = m
      <4>1. Join(<<>>, b) = b /\ Join(b, <<>>) = b
        BY <1>1, BytesEmpty
      <4> QED BY <1>1, <1>4, <2>4, <3>1, <4>1
    <3>2. CASE i # m
      <4>1. /\ i \in d .. m - 1 /\ i \in d .. m + 1 /\ i + 1 \in d .. m + 1
            /\ i + 1 \in 1 .. m /\ i # m + 1 /\ i + 1 # m + 1
        BY <1>4, <3>2
      <4>2. new[i] = Join(rest[i], b) /\ new[i + 1] = Join(rest[i + 1], b)
            /\ sent'[i + 1] = sent[i + 1]
        BY <1>4, <2>3, <4>1
      <4> QED BY <2>1, <4>1, <4>2, Zenon
    <3> QED BY <3>1, <3>2
  <2>6. Len(delivered') = d /\ Len(sent') = m + 1 /\ Backlog' = Join(Backlog, b)
        /\ d <= m + 1 /\ d .. m = d .. (m + 1) - 1
    BY <1>2, <1>4, <1>5
  <2> HIDE DEF d, m, b
  <2>7. Chain(new)'
    <3>1. \A i \in Len(delivered') .. Len(sent') - 1 :
              new[i] = Join(FrameOf(sent'[i + 1]), new[i + 1])
      BY <2>5, <2>6
    <3>2. new \in [Len(delivered') .. Len(sent') -> Seq(Byte)]
      BY <2>3, <2>6
    <3>3. new[Len(delivered')] = Backlog'
      BY <2>4, <2>6
    <3> QED BY <3>1, <3>2, <3>3, Zenon DEF Chain
  <2>8. LastTail(new[Len(sent)])'
    BY <1>2, <2>4, <2>6 DEF LastTail
  <2> QED BY <2>6, <2>7, <2>8 DEF Stream
<1>9. Consecutive'
  <2>1. ASSUME NEW i \in d + 1 .. m
        PROVE  sent'[i + 1].ctr = Succ(sent'[i].ctr)
    <3>1. CASE i = m
      <4>1. Pending /\ LastCtr = sent[m].ctr /\ m \in 1 .. m
        BY <1>4, <1>6, <3>1 DEF Consecutive, Pending
      <4> QED BY <1>4, <1>5, <1>6, <3>1, <4>1
    <3>2. CASE i # m
      <4>1. i \in d + 1 .. m - 1 /\ i \in 1 .. m /\ i + 1 \in 1 .. m
        BY <1>4, <3>2
      <4> QED BY <1>4, <4>1 DEF Consecutive
    <3> QED BY <3>1, <3>2
  <2>2. LastCtr' = sent'[m + 1].ctr
    BY <1>2, <1>4, <1>5
  <2>3. Len(delivered') + 1 = d + 1 /\ Len(sent') - 1 = m
    BY <1>4, <1>5
  <2> QED BY <1>2, <1>4, <2>1, <2>2, <2>3 DEF Consecutive
<1>10. Upcoming' = Upcoming
  <2>1. Upcoming' = sent'[d + 1].ctr
    BY <1>5, <1>7 DEF Upcoming, NextFrame
  <2>2. CASE Pending
    <3>1. d + 1 \in 1 .. m
      BY <1>4, <2>2 DEF Pending
    <3> QED BY <1>4, <1>6, <2>1, <2>2, <3>1 DEF NextFrame
  <2>3. CASE ~Pending
    <3>1. d = m
      BY <1>4, <2>3 DEF Pending
    <3> QED BY <1>4, <1>5, <1>6, <2>1, <2>3, <3>1
  <2> QED BY <2>2, <2>3
<1>11. Tally'
  <2>1. stats' = stats /\ broken' = broken /\ (Gap' <=> Gap) /\ ~HeaderAhead'
    BY <1>2, <1>7, <1>10 DEF vars, Gap, HeaderAhead
  <2>2. /\ Count(Unnoticed) = 0 /\ Count(Unnoticed)' = 0
        /\ Count(Remains)' = 0 /\ Count(Gap)' = Count(Gap)
        /\ Count(HeaderAhead)' = 0
        /\ Count(HeaderAhead) \in 0 .. 1 /\ Count(Gap) \in 0 .. 1
        /\ Count(Remains) \in 0 .. 1
    BY <1>6, <1>7, <2>1 DEF Count
  <2> QED BY <2>1, <2>2, CountersType DEF Tally
<1> QED BY <1>8, <1>9, <1>11 DEF StreamInv

\* A frame that is not whole becomes the tail of the stream.
LEMMA BrokenStream ==
    ASSUME HarmlessAfter, LoopInv, NEW bytes \in Seq(Byte), NEW kind,
           kind \in {"broken", "oversized"}, Write(bytes, kind),
           bytes # <<>>, kind = "oversized" => Len(bytes) >= HeaderSize,
           broken' = broken + 1, UNCHANGED sent,
           LastTail(bytes)'
    PROVE  StreamInv'
<1> USE DEF LoopInv
<1> DEFINE d == Len(delivered)  m == Len(sent)
<1>1. /\ MayWrite /\ Backlog' = Join(Backlog, bytes) /\ Backlog' \in Seq(Byte)
      /\ Len(Backlog') >= Len(bytes) /\ Len(bytes) \in Nat /\ Len(bytes) > 0
      /\ last' = kind /\ LastCtr' = next_ctr
      /\ UNCHANGED <<vars, delivered, sent>>
  <2>1. Len(bytes) \in Nat /\ Len(bytes) # 0
    BY LenProperties, BytesEmpty
  <2> QED BY <2>1, WriteShape
<1>2. PICK rest : Chain(rest) /\ rest[m] = <<>>
  BY WriteShape
<1>3. d \in Nat /\ m \in Nat /\ d <= m /\ Len(delivered') = d /\ Len(sent') = m
  BY <1>1, CountsType DEF Stream
<1>4. /\ ~Unnoticed /\ (Pending => last = "whole") /\ next_ctr = Succ(LastCtr)
      /\ Upcoming = IF Pending THEN NextFrame.ctr ELSE next_ctr
  BY <1>1, WriteClean, CountsType
<1>5. (Pending' <=> Pending) /\ Unnoticed'
  <2>1. Pending' <=> Pending
    BY <1>1 DEF Pending
  <2>2. Len(Backlog') > 0 /\ (kind = "oversized" => Len(Backlog') >= HeaderSize)
    <3>1. Len(Backlog') \in Nat
      BY <1>1, LenProperties
    <3> QED BY <1>1, <3>1 DEF HeaderSize
  <2>3. Backlog' # <<>>
    BY <2>2, BytesEmpty
  <2> QED BY <1>1, <2>1, <2>2, <2>3 DEF Unnoticed
<1>6. Stream'
  <2>1. /\ \A i \in d .. m : Join(rest[i], bytes) \in Seq(Byte)
        /\ \A i \in d .. m - 1 :
               Join(rest[i], bytes)
                   = Join(FrameOf(sent[i + 1]), Join(rest[i + 1], bytes))
    BY <1>2, ChainJoin
  <2>2. rest[d] = Backlog
    BY <1>2 DEF Chain
  <2>3. PICK new \in [d .. m -> Seq(Byte)] :
            \A i \in d .. m : new[i] = Join(rest[i], bytes)
    <3>1. [i \in d .. m |-> Join(rest[i], bytes)] \in [d .. m -> Seq(Byte)]
      BY <2>1
    <3> QED BY <3>1
  <2>4. new[m] = bytes /\ new[d] = Join(Backlog, bytes)
    <3>1. d \in d .. m /\ m \in d .. m
      BY <1>3
    <3>2. Join(<<>>, bytes) = bytes
      BY BytesEmpty
    <3> QED BY <1>2, <2>2, <2>3, <3>1, <3>2
  <2>5. \A i \in d .. m - 1 : new[i] = Join(FrameOf(sent[i + 1]), new[i + 1])
    <3> TAKE i \in d .. m - 1
    <3>1. i \in d .. m /\ i + 1 \in d .. m
      BY <1>3
    <3>2. new[i] = Join(rest[i], bytes) /\ new[i + 1] = Join(rest[i + 1], bytes)
      BY <2>3, <3>1
    <3> QED BY <2>1, <3>2, Zenon
  <2>6. sent' = sent
    BY <1>1
  <2>7. Len(delivered') = d /\ Len(sent') = m /\ d <= m
    BY <1>3
  <2> HIDE DEF d, m
  <2>8. Chain(new)'
    BY <1>1, <2>3, <2>4, <2>5, <2>6, <2>7, Zenon DEF Chain
  <2>9. LastTail(new[Len(sent)])'
    BY <2>4, <2>7, Zenon DEF LastTail
  <2> QED BY <2>7, <2>8, <2>9 DEF Stream
<1>7. Consecutive'
  <2>1. Pending => LastCtr = sent[m].ctr
    BY <1>4 DEF Consecutive
  <2> QED BY <1>1, <1>3, <1>4, <1>5, <2>1 DEF Consecutive
<1>8. Upcoming' = Upcoming
  BY <1>1, <1>4, <1>5 DEF Upcoming, NextFrame
<1>9. Tally'
  <2>1. stats' = stats /\ (Gap' <=> Gap) /\ ~HeaderAhead
    BY <1>1, <1>4, <1>8 DEF vars, Gap, HeaderAhead
  <2>2. /\ Count(Unnoticed) = 0 /\ Count(Unnoticed)' = 1
        /\ Count(Remains) \in 0 .. 1 /\ Count(Remains)' \in 0 .. 1
        /\ Count(HeaderAhead) = 0 /\ Count(HeaderAhead)' \in 0 .. 1
        /\ Count(Gap)' = Count(Gap) /\ Count(Gap) \in 0 .. 1
    BY <1>4, <1>5, <2>1 DEF Count
  <2> QED BY <2>1, <2>2, CountersType DEF Tally
<1> QED BY <1>6, <1>7, <1>9 DEF StreamInv

-----------------------------------------------------------------------------
\* The invariant.

LEMMA StreamNext ==
    ASSUME HarmlessAfter, LoopInv, [LoopNext]_loopVars
    PROVE  StreamInv'
<1> USE DEF LoopInv
<1>1. CASE WriteWhole
  <2>1. PICK p \in Payloads :
            /\ Write(Frame(next_ctr, p), "whole")
            /\ sent' = Append(sent, [ctr |-> next_ctr, payload |-> p])
            /\ UNCHANGED broken
    BY <1>1 DEF WriteWhole
  <2> QED BY <2>1, WholeStream
<1>2. CASE WriteBroken
  <2>0. PICK p \in Payloads : \E n \in 1 .. HeaderSize + Len(p) - 1 :
            Write(SubSeq(Frame(next_ctr, p), 1, n), "broken")
    BY <1>2 DEF WriteBroken
  <2>1. PICK n \in 1 .. HeaderSize + Len(p) - 1 :
            Write(SubSeq(Frame(next_ctr, p), 1, n), "broken")
    BY <2>0
  <2>2. PICK b : b = SubSeq(Frame(next_ctr, p), 1, n)
    OBVIOUS
  <2>3. b \in Seq(Byte) /\ b # <<>>
    <3>1. b \in Seq(Byte) /\ Len(b) = n
      BY <2>2, WriteBytes
    <3>2. n > 0
      BY LoopConstants DEF HeaderSize
    <3> QED BY <3>1, <3>2, BytesEmpty
  <2>4. Write(b, "broken")
    BY <2>1, <2>2
  <2>5. \E q \in Payloads : \E k \in 1 .. HeaderSize + Len(q) - 1 :
            b = SubSeq(Frame(next_ctr, q), 1, k)
    BY <2>2
  <2>6. last' = "broken" /\ LastCtr' = next_ctr
    BY <2>3, <2>4, WriteShape
  <2>7. LastTail(b)'
    BY <2>5, <2>6 DEF LastTail
  <2>8. broken' = broken + 1 /\ UNCHANGED sent
    BY <1>2 DEF WriteBroken
  <2> QED BY <2>3, <2>4, <2>7, <2>8, BrokenStream
<1>3. CASE WriteOversized
  <2>1. PICK j \in Junk : Write(Oversized(next_ctr) \o j, "oversized")
    BY <1>3 DEF WriteOversized
  <2>0. PICK b : b = Oversized(next_ctr) \o j
    OBVIOUS
  <2>2. /\ b \in Seq(Byte) /\ Len(b) >= HeaderSize
        /\ b = Headed(MaxCto + 1, next_ctr, j)
    <3>1. /\ Headed(MaxCto + 1, next_ctr, j) = b
          /\ Headed(MaxCto + 1, next_ctr, j) \in Seq(Byte) /\ Len(j) \in Nat
          /\ Len(Headed(MaxCto + 1, next_ctr, j)) = HeaderSize + Len(j)
      BY <2>0, CountsType, OversizedShape
    <3>2. b \in Seq(Byte) /\ Len(b) = HeaderSize + Len(j)
      BY <3>1
    <3>3. Len(b) >= HeaderSize
      BY <3>1, <3>2 DEF HeaderSize
    <3> QED BY <3>1, <3>2, <3>3
  <2>3. Write(b, "oversized")
    BY <2>0, <2>1
  <2>4. b # <<>>
    BY <2>2, BytesEmpty DEF HeaderSize
  <2>5. last' = "oversized" /\ LastCtr' = next_ctr
    BY <2>2, <2>3, WriteShape
  <2>6. LastTail(b)'
    <3>1. Unacceptable(b)
      BY <2>2, CountsType, HeadedUnacceptable
    <3> QED BY <2>2, <2>5, <3>1 DEF LastTail
  <2>7. broken' = broken + 1 /\ UNCHANGED sent
    BY <1>3 DEF WriteOversized
  <2> QED BY <2>2, <2>3, <2>4, <2>6, <2>7, BrokenStream
<1>4. ASSUME UNCHANGED vars, UNCHANGED <<wire, masterVars, delivered>>
      PROVE  StreamInv'
  <2>1. /\ Backlog' = Backlog /\ stats' = stats /\ rx_last_ctr' = rx_last_ctr
        /\ rx_ctr_initialised' = rx_ctr_initialised /\ rx_state' = rx_state
    BY <1>4 DEF vars, Backlog, Queue
  <2> QED BY <1>4, <2>1, SameStreamInv
<1>5. CASE FillMeanwhile
  BY <1>5, FillStream DEF FillMeanwhile
<1>6. CASE UsbTask
  <2>1. CASE Fill
    BY <1>6, <2>1, FillStream DEF UsbTask
  <2>2. CASE UNCHANGED <<fifo, wire, arrived>>
    BY <1>4, <1>6, <2>2 DEF UsbTask, vars, parserVars, ctrVars, clockVars
  <2> QED BY <1>6, <2>1, <2>2 DEF UsbTask
<1>7. CASE LoopSxiTask
  BY <1>7, TaskStream DEF LoopSxiTask
<1>8. CASE ProtocolTask
  BY <1>4, <1>8, DeliverStream DEF ProtocolTask
<1>9. CASE Answered
  BY <1>4, <1>9 DEF Answered
<1>10. CASE LoopTick
  <2>1. /\ Backlog' = Backlog /\ stats' = stats /\ rx_last_ctr' = rx_last_ctr
        /\ rx_ctr_initialised' = rx_ctr_initialised /\ rx_state' = rx_state
        /\ UNCHANGED <<masterVars, delivered>>
    BY <1>10 DEF LoopTick, Tick, parserVars, ctrVars, Backlog, Queue
  <2> QED BY <2>1, SameStreamInv
<1>11. CASE UNCHANGED loopVars
  BY <1>4, <1>11 DEF loopVars
<1> QED BY <1>1, <1>2, <1>3, <1>5, <1>6, <1>7, <1>8, <1>9, <1>10, <1>11
        DEF LoopNext, LoopStep

LEMMA LoopInvInit == LoopInit => LoopInv
<1> SUFFICES ASSUME LoopInit PROVE LoopInv
  OBVIOUS
<1> USE DEF LoopInit, Init
<1>1. IInv /\ LoopType
  BY LoopTypeInit
<1>2. /\ Backlog = <<>> /\ ~Pending /\ ~Unnoticed /\ ~Remains /\ ~Gap
      /\ ~HeaderAhead /\ Len(sent) = 0 /\ Len(delivered) = 0
  <2>1. Len(sent) = 0 /\ Len(delivered) = 0 /\ Backlog = <<>>
    BY BytesEmpty DEF Backlog, Queue
  <2> QED BY <2>1 DEF Pending, Unnoticed, Remains, Gap, HeaderAhead
<1>3. Stream
  <2>1. PICK rest \in [0 .. 0 -> Seq(Byte)] : rest[0] = <<>>
    <3>1. /\ [i \in 0 .. 0 |-> <<>>] \in [0 .. 0 -> Seq(Byte)]
          /\ [i \in 0 .. 0 |-> <<>>][0] = <<>>
      BY BytesEmpty
    <3> QED BY <3>1
  <2>2. Chain(rest) /\ LastTail(rest[Len(sent)])
    BY <1>2, <2>1 DEF Chain, LastTail
  <2> QED BY <1>2, <2>2 DEF Stream
<1>4. Consecutive
  BY <1>2 DEF Consecutive
<1>5. Prompt /\ QuietTime
  BY DEF Prompt, QuietTime, MidFrame
<1>6. Tally
  BY <1>2 DEF Tally, Count, ZeroStats
<1> QED BY <1>1, <1>3, <1>4, <1>5, <1>6 DEF LoopInv

LEMMA LoopInvNext ==
    ASSUME HarmlessAfter, LoopInv, [LoopNext]_loopVars
    PROVE  LoopInv'
<1>1. IInv' /\ LoopType'
  BY LoopKeepsParser, LoopTypeNext DEF LoopInv
<1> QED BY <1>1, TimingNext, StreamNext DEF LoopInv, StreamInv

THEOREM LoopInvariance ==
    ASSUME HarmlessAfter
    PROVE  LoopSpec => []LoopInv
<1>1. LoopInv /\ [LoopNext]_loopVars => LoopInv'
  BY LoopInvNext
<1> QED BY <1>1, LoopInvInit, PTL DEF LoopSpec

\* The counters raise no false alarm, whatever the CTRs, the lengths and the
\* moments at which the loop runs.
THEOREM NoFalseAlarmCorrect ==
    ASSUME HarmlessAfter
    PROVE  LoopSpec => []NoFalseAlarm
<1>1. LoopInv => NoFalseAlarm
  <2> SUFFICES ASSUME LoopInv PROVE NoFalseAlarm
    OBVIOUS
  <2>1. /\ Count(Remains) \in 0 .. 1
        /\ Count(Gap) \in 0 .. 1 /\ Count(HeaderAhead) \in 0 .. 1
    BY DEF Count
  <2> QED BY <2>1, CountersType DEF LoopInv, Tally, NoFalseAlarm
<1> QED BY <1>1, LoopInvariance, PTL

\* A broken frame is always counted before the master writes again.
THEOREM NoSilentLossCorrect ==
    ASSUME HarmlessAfter
    PROVE  LoopSpec => []NoSilentLoss
<1>1. LoopInv => NoSilentLoss
  <2> SUFFICES ASSUME LoopInv, last # "whole", MayWrite
               PROVE  stats.idle_timeouts + stats.framing_errors >= broken
    BY DEF NoSilentLoss
  <2>1. Count(Unnoticed) = 0
    BY WriteClean DEF Count
  <2> QED BY <2>1, CountersType DEF LoopInv, Tally
<1> QED BY <1>1, LoopInvariance, PTL

\* A step of the loop is a step of the frame channel, or none.
LEMMA LinkStep ==
    ASSUME HarmlessAfter, LoopInv, [LoopNext]_loopVars
    PROVE  [Link!LinkNext]_(Link!linkVars)
<1>1. CASE WriteWhole
  <2>1. PICK p \in Payloads :
            /\ Write(Frame(next_ctr, p), "whole")
            /\ sent' = Append(sent, [ctr |-> next_ctr, payload |-> p])
    BY <1>1 DEF WriteWhole
  <2>2. [ctr |-> next_ctr, payload |-> p] \in [ctr : Ctr, payload : Payloads]
    BY DEF LoopInv, LoopType
  <2>3. delivered' = delivered
    BY <2>1 DEF Write
  <2> QED BY <2>1, <2>2, <2>3 DEF Link!LinkNext, Link!Send
<1>2. CASE ProtocolTask /\ GetPacket
  <2>1. /\ Pending /\ NextFrame \in [ctr : Ctr, payload : Payloads]
        /\ rx_last_ctr = NextFrame.ctr /\ Payload = NextFrame.payload
    BY <1>2, ReadyIsNext, NextFrameFirst DEF LoopInv, GetPacket
  <2>2. [ctr |-> rx_last_ctr, payload |-> Payload] = NextFrame
    BY <2>1
  <2>3. delivered' = Append(delivered, NextFrame) /\ sent' = sent
    BY <1>2, <2>2 DEF ProtocolTask, GetPacket, masterVars
  <2> QED BY <2>1, <2>3 DEF Link!LinkNext, Link!Deliver, Pending, NextFrame
<1>3. CASE UNCHANGED <<sent, delivered>>
  BY <1>3 DEF Link!linkVars
<1>4. \/ WriteWhole
      \/ ProtocolTask /\ GetPacket
      \/ UNCHANGED <<sent, delivered>>
  BY DEF LoopNext, LoopStep, WriteBroken, WriteOversized, Write,
     FillMeanwhile, UsbTask, LoopSxiTask, ProtocolTask, Answered, LoopTick,
     loopVars, masterVars
<1> QED BY <1>1, <1>2, <1>3, <1>4

\* The safety half of the frame channel (Link!LinkSpec without its fairness):
\* the packets handed over are the frames written whole, unchanged, one by
\* one, in order, around broken frames and across the CTR wrap.
THEOREM FrameChannelSafe ==
    ASSUME HarmlessAfter
    PROVE  LoopSpec => Link!LinkInit /\ [][Link!LinkNext]_(Link!linkVars)
<1>1. LoopInit => Link!LinkInit
  BY DEF LoopInit, Link!LinkInit
<1>2. LoopInv /\ [LoopNext]_loopVars => [Link!LinkNext]_(Link!linkVars)
  BY LinkStep
<1> QED BY <1>1, <1>2, LoopInvariance, PTL DEF LoopSpec

\* What has been delivered is the front of what was written whole.
InOrder ==
    \A i \in 1 .. Len(delivered) :
        i \in 1 .. Len(sent) /\ delivered[i] = sent[i]

LEMMA InOrderStep ==
    ASSUME HarmlessAfter, LoopInv, InOrder, [LoopNext]_loopVars
    PROVE  InOrder'
<1> DEFINE F == [ctr : Ctr, payload : Payloads]
           D == [ctr : Ctr, payload : Seq(Byte)]
           d == Len(delivered)  m == Len(sent)
<1>1. /\ sent \in Seq(F) /\ delivered \in Seq(D) /\ m \in Nat /\ d \in Nat
      /\ \A p \in Payloads : p \in Seq(Byte)
  BY CountsType, LoopConstants DEF LoopInv, LoopType
<1>2. CASE Link!Send
  <2>1. PICK f \in F : sent' = Append(sent, f)
    BY <1>2 DEF Link!Send
  <2> HIDE DEF F
  <2>2. /\ Len(sent') = m + 1 /\ \A i \in 1 .. m : sent'[i] = sent[i]
        /\ delivered' = delivered
    BY <1>1, <1>2, <2>1, AppendProperties DEF Link!Send
  <2> QED BY <1>1, <2>2 DEF InOrder
<1>3. CASE Link!Deliver
  <2>1. PICK f : f = sent[d + 1]
    OBVIOUS
  <2>2. d < m /\ delivered' = Append(delivered, f) /\ sent' = sent
    BY <1>3, <2>1 DEF Link!Deliver
  <2>3. f \in D
    <3>1. f \in F
      <4>1. d + 1 \in 1 .. m
        BY <1>1, <2>2
      <4>2. sent \in Seq(F)
        BY <1>1
      <4> HIDE DEF F
      <4> QED BY <2>1, <4>1, <4>2, ElementOfSeq
    <3> QED BY <1>1, <3>1
  <2> HIDE DEF D
  <2>4. /\ Len(delivered') = d + 1 /\ delivered'[d + 1] = f
        /\ \A i \in 1 .. d : delivered'[i] = delivered[i]
    BY <1>1, <2>2, <2>3, AppendProperties
  <2>5. ASSUME NEW i \in 1 .. d + 1
        PROVE  i \in 1 .. m /\ delivered'[i] = sent[i]
    <3>1. CASE i \in 1 .. d
      <4>1. i \in 1 .. m /\ delivered[i] = sent[i]
        BY <3>1 DEF InOrder
      <4>2. delivered'[i] = delivered[i]
        BY <2>4, <3>1
      <4> QED BY <4>1, <4>2
    <3>2. CASE i = d + 1
      <4>1. i \in 1 .. m
        BY <1>1, <2>2, <3>2
      <4>2. delivered'[i] = sent[i]
        BY <2>1, <2>4, <3>2
      <4> QED BY <4>1, <4>2
    <3>3. i \in 1 .. d \/ i = d + 1
      BY <1>1
    <3> QED BY <3>1, <3>2, <3>3
  <2>6. Len(sent') = m
    BY <2>2
  <2> HIDE DEF d, m
  <2> QED BY <2>2, <2>4, <2>5, <2>6 DEF InOrder
<1>4. CASE UNCHANGED <<sent, delivered>>
  BY <1>4 DEF InOrder
<1> QED BY <1>2, <1>3, <1>4, LinkStep DEF Link!LinkNext, Link!linkVars

\* tools/test_sxi_loopback.py is right about oversized frames as long as what
\* follows the impossible header does not read as a header the parser accepts,
\* as in its own test: then everything delivered is the payload of a frame
\* written whole.  (Otherwise it is not: run oversized_frame_reparsed.)
THEOREM OversizedDiscardedIfHarmless ==
    ASSUME HarmlessAfter
    PROVE  LoopSpec => []OversizedDiscarded
<1>1. LoopInit => InOrder
  BY EmptySeq DEF LoopInit, InOrder
<1>2. LoopInv /\ InOrder /\ [LoopNext]_loopVars => InOrder'
  BY InOrderStep
<1>3. InOrder => OversizedDiscarded
  BY DEF InOrder, OversizedDiscarded
<1> QED BY <1>1, <1>2, <1>3, LoopInvariance, PTL DEF LoopSpec

=============================================================================
