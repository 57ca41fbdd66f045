-------------------------- MODULE SxiTransmitProofs --------------------------
(***************************************************************************)
(* Proofs about the transmit path, for every clock, timeout, loop period,  *)
(* FIFO and response that TransmitAssumption allows.                       *)
(*                                                                         *)
(* The comparison with the deadline reads a wrapping clock as a signed     *)
(* number; it is right only because no pass of the loop is long.  The      *)
(* inductive invariant says so: DeadlineMeasured ties the clock difference *)
(* to the true time waited, and bounds that time by the timeout and the    *)
(* ticks since the last pass, each of which checks the deadline.           *)
(*                                                                         *)
(* What the host reads is proved from StreamInv: the stream, received and  *)
(* queued tokens together, is whole frames in order and the part of the    *)
(* next one that total_sent counts.                                        *)
(***************************************************************************)
EXTENDS SxiTransmit, SequenceTheorems, TLAPS

DeadlineMeasured ==
    sending => /\ waited <= Timeout + unpolled
               /\ IF waited <= Timeout
                  THEN Elapsed(deadline, now) = Timeout - waited
                  ELSE Elapsed(now, deadline) = waited - Timeout

\* TypeOK in two parts, so that a step shows only the part it concerns.
ClockType ==
    /\ sending \in BOOLEAN
    /\ deadline \in 0 .. TimeMod - 1
    /\ now \in 0 .. TimeMod - 1
    /\ waited \in Nat
    /\ unpolled \in 0 .. IterGap
StreamType ==
    /\ tx_ctr \in 0 .. CtrMod - 1
    /\ frames_sent \in Nat
    /\ length \in Nat
    /\ total_sent \in 0 .. length
    /\ fifo \in Seq(Tokens) /\ Len(fifo) <= FifoCap
    /\ dtr \in BOOLEAN
    /\ open \in BOOLEAN
    /\ received \in Seq(Tokens)
    /\ calls \in Nat
    /\ clean \in BOOLEAN
    /\ lost \in BOOLEAN
    /\ lastCtr \in 0 .. CtrMod - 1

IInv == TypeOK /\ DeadlineMeasured

-----------------------------------------------------------------------------
\* Lemmas about the constants and the clock.

LEMMA TypeParts ==
    /\ TypeOK <=> ClockType /\ StreamType
    /\ TypeOK' <=> ClockType' /\ StreamType'
BY DEF TypeOK, ClockType, StreamType

LEMMA TimeConstants ==
    /\ Timeout \in Nat /\ IterGap \in Nat /\ IterGap > 0 /\ TimeMod \in Nat
    /\ 2 * Timeout <= TimeMod /\ 2 * IterGap < TimeMod
    /\ Timeout + IterGap < TimeMod
BY TransmitAssumption

\* A tick brings a deadline that lies ahead one nearer.
LEMMA TickBefore ==
    ASSUME NEW t \in 0 .. TimeMod - 1, NEW d \in 0 .. TimeMod - 1,
           NEW u \in 0 .. TimeMod - 1, u = (IF t + 1 = TimeMod THEN 0 ELSE t + 1),
           Elapsed(d, t) > 0
    PROVE  Elapsed(d, u) = Elapsed(d, t) - 1
BY TimeConstants DEF Elapsed

\* A tick takes a deadline that has come or passed one further away.
LEMMA TickAfter ==
    ASSUME NEW t \in 0 .. TimeMod - 1, NEW d \in 0 .. TimeMod - 1,
           NEW u \in 0 .. TimeMod - 1, u = (IF t + 1 = TimeMod THEN 0 ELSE t + 1),
           Elapsed(t, d) < TimeMod - 1
    PROVE  Elapsed(u, d) = Elapsed(t, d) + 1
BY TimeConstants DEF Elapsed

\* The two distances around the clock complete each other.
LEMMA TwoWays ==
    ASSUME NEW t \in 0 .. TimeMod - 1, NEW d \in 0 .. TimeMod - 1
    PROVE  /\ Elapsed(t, d) \in 0 .. TimeMod - 1
           /\ Elapsed(d, t) = 0 => Elapsed(t, d) = 0
           /\ Elapsed(d, t) > 0 => Elapsed(t, d) = TimeMod - Elapsed(d, t)
BY TimeConstants DEF Elapsed

\* The deadline is Timeout ahead of the moment it is set.
LEMMA DeadlineSet ==
    ASSUME NEW t \in 0 .. TimeMod - 1
    PROVE  LET d == IF t + Timeout >= TimeMod THEN t + Timeout - TimeMod
                                              ELSE t + Timeout
           IN  d \in 0 .. TimeMod - 1 /\ Elapsed(d, t) = Timeout
BY TimeConstants DEF Elapsed

\* With the clock measured, the signed comparison is exact.
LEMMA Exact ==
    ASSUME ClockType, DeadlineMeasured, sending
    PROVE  /\ Expired <=> waited > Timeout
           /\ waited <= Timeout + IterGap
<1>1. waited \in Nat /\ unpolled \in Nat /\ unpolled <= IterGap
      /\ waited <= Timeout + unpolled
  BY TimeConstants DEF ClockType, DeadlineMeasured
<1>2. now \in 0 .. TimeMod - 1 /\ deadline \in 0 .. TimeMod - 1
  BY DEF ClockType
<1>3. CASE waited <= Timeout
  <2>1. Elapsed(deadline, now) = Timeout - waited
    BY <1>3 DEF DeadlineMeasured
  <2>2. Elapsed(now, deadline) = 0
        \/ Elapsed(now, deadline) = TimeMod - (Timeout - waited)
    <3>1. Elapsed(deadline, now) = 0 \/ Elapsed(deadline, now) > 0
      BY <1>1, <1>3, <2>1, TimeConstants
    <3> QED
      BY <1>2, <2>1, <3>1, TwoWays
  <2>3. ASSUME NEW e \in Nat, e = 0 \/ e = TimeMod - (Timeout - waited)
        PROVE  ~(e > 0 /\ 2 * e < TimeMod)
    BY <1>1, <1>3, <2>3, TimeConstants
  <2>4. Elapsed(now, deadline) \in Nat
    BY <1>2, TwoWays
  <2>5. ~Expired
    BY <2>2, <2>3, <2>4 DEF Expired
  <2> QED
    BY <1>1, <1>3, <2>5, TimeConstants
<1>4. CASE waited > Timeout
  <2>1. Elapsed(now, deadline) = waited - Timeout
    BY <1>1, <1>4, TimeConstants DEF DeadlineMeasured
  <2>2. Expired
    BY <1>1, <1>4, <2>1, TimeConstants DEF Expired
  <2> QED
    BY <1>1, <1>4, <2>2, TimeConstants
<1> QED
  BY <1>1, <1>3, <1>4, TimeConstants

-----------------------------------------------------------------------------
\* The clock.

LEMMA ClockTick ==
    ASSUME ClockType, DeadlineMeasured, Tick
    PROVE  ClockType' /\ DeadlineMeasured'
<1>1. now \in 0 .. TimeMod - 1 /\ deadline \in 0 .. TimeMod - 1
      /\ waited \in Nat /\ unpolled \in 0 .. IterGap
  BY DEF ClockType
<1>2. now' = (IF now + 1 = TimeMod THEN 0 ELSE now + 1) /\ deadline' = deadline
      /\ sending' = sending
  BY DEF Tick, frameVars
<1>3. now' \in 0 .. TimeMod - 1
  BY <1>1, <1>2, TimeConstants
<1>4. CASE ~sending
  BY <1>1, <1>2, <1>3, <1>4 DEF Tick, ClockType, DeadlineMeasured
<1>5. CASE sending
  <2>1. unpolled < IterGap /\ waited' = waited + 1 /\ unpolled' = unpolled + 1
    BY <1>5 DEF Tick
  <2>2. ClockType'
    BY <1>1, <1>2, <1>3, <1>5, <2>1, TimeConstants DEF ClockType
  <2>3. waited <= Timeout + unpolled
    BY <1>5 DEF DeadlineMeasured
  <2>4. waited' <= Timeout + unpolled'
    BY <1>1, <2>1, <2>3, TimeConstants
  <2>5. CASE waited < Timeout
    <3>1. Elapsed(deadline, now) = Timeout - waited
      BY <1>1, <1>5, <2>5, TimeConstants DEF DeadlineMeasured
    <3>2. Elapsed(deadline, now') = Timeout - waited'
      BY <1>1, <1>2, <1>3, <2>1, <2>5, <3>1, TickBefore, TimeConstants
    <3>3. waited' <= Timeout
      BY <1>1, <2>1, <2>5, TimeConstants
    <3> QED
      BY <1>2, <2>2, <2>4, <3>2, <3>3 DEF DeadlineMeasured, Elapsed
  <2>6. CASE waited >= Timeout
    <3>1. Elapsed(now, deadline) = waited - Timeout
      <4>1. CASE waited = Timeout
        <5>1. Elapsed(deadline, now) = 0
          BY <1>1, <1>5, <4>1, TimeConstants DEF DeadlineMeasured
        <5> QED
          BY <1>1, <4>1, <5>1, TwoWays, TimeConstants
      <4>2. CASE waited > Timeout
        BY <1>1, <1>5, <4>2, TimeConstants DEF DeadlineMeasured
      <4> QED
        BY <1>1, <2>6, <4>1, <4>2, TimeConstants
    <3>2. waited - Timeout < TimeMod - 1
      BY <1>1, <2>1, <2>3, TimeConstants
    <3>3. Elapsed(now', deadline) = waited' - Timeout
      BY <1>1, <1>2, <1>3, <2>1, <3>1, <3>2, TickAfter, TimeConstants
    <3>4. ~(waited' <= Timeout)
      BY <1>1, <2>1, <2>6, TimeConstants
    <3> QED
      BY <1>2, <2>2, <2>4, <3>3, <3>4 DEF DeadlineMeasured, Elapsed
  <2> QED
    BY <1>1, <2>5, <2>6, TimeConstants
<1> QED
  BY <1>1, <1>4, <1>5 DEF ClockType

LEMMA ClockStart ==
    ASSUME ClockType, SendStart
    PROVE  ClockType' /\ DeadlineMeasured'
<1>1. now \in 0 .. TimeMod - 1 /\ now' = now
  BY DEF ClockType, SendStart
<1>2. deadline' \in 0 .. TimeMod - 1 /\ Elapsed(deadline', now) = Timeout
  BY <1>1, DeadlineSet DEF SendStart
<1>3. waited' = 0 /\ unpolled' = 0 /\ sending' = TRUE
  BY DEF SendStart
<1>4. ClockType'
  BY <1>1, <1>2, <1>3, TimeConstants DEF ClockType
<1>5. waited' <= Timeout + unpolled' /\ waited' <= Timeout
      /\ Timeout - waited' = Timeout
  BY <1>3, TimeConstants
<1>6. Elapsed(deadline', now') = Timeout
  BY <1>1, <1>2
<1>7. DeadlineMeasured'
  BY <1>5, <1>6 DEF DeadlineMeasured, Elapsed
<1> QED
  BY <1>4, <1>7

LEMMA ClockPiece ==
    ASSUME ClockType, DeadlineMeasured, SendPiece
    PROVE  ClockType' /\ DeadlineMeasured'
<1>1. sending /\ ~Expired
  BY DEF SendPiece
<1>2. waited \in Nat /\ ~(waited > Timeout)
  BY <1>1, Exact DEF ClockType
<1>3. waited <= Timeout
  BY <1>2, TimeConstants
<1>4. /\ unpolled' = 0 /\ waited' = waited /\ deadline' = deadline
      /\ now' = now /\ sending' = sending
  BY DEF SendPiece, frameVars
<1>5. ClockType'
  BY <1>4, TimeConstants DEF ClockType
<1>6. waited' <= Timeout + unpolled'
  BY <1>2, <1>3, <1>4, TimeConstants
<1>7. DeadlineMeasured'
  BY <1>1, <1>3, <1>4, <1>6 DEF DeadlineMeasured, Elapsed
<1> QED
  BY <1>5, <1>7

LEMMA ClockReturn ==
    ASSUME ClockType, Return
    PROVE  ClockType' /\ DeadlineMeasured'
<1>1. ~sending' /\ sending' \in BOOLEAN /\ waited' = 0 /\ unpolled' = 0
      /\ deadline' = deadline /\ now' = now
  BY DEF Return, frameVars
<1> QED
  BY <1>1, TimeConstants DEF ClockType, DeadlineMeasured

LEMMA ClockKept ==
    ASSUME ClockType, DeadlineMeasured,
           UNCHANGED <<sending, deadline, now, waited, unpolled>>
    PROVE  ClockType' /\ DeadlineMeasured'
BY DEF ClockType, DeadlineMeasured, Elapsed

LEMMA ClockNext ==
    ASSUME ClockType, DeadlineMeasured, [Next]_vars
    PROVE  ClockType' /\ DeadlineMeasured'
<1>1. CASE UNCHANGED vars \/ HostOpen \/ HostClose \/ UsbTask \/ SendRefused
  BY <1>1, ClockKept DEF vars, HostOpen, HostClose, UsbTask, SendRefused, frameVars
<1>2. CASE Tick
  BY <1>2, ClockTick
<1>3. CASE SendStart
  BY <1>3, ClockStart
<1>4. CASE SendPiece
  BY <1>4, ClockPiece
<1>5. CASE SendGiveUp \/ SendDone
  BY <1>5, ClockReturn DEF SendGiveUp, SendDone
<1> QED
  BY <1>1, <1>2, <1>3, <1>4, <1>5 DEF Next, SendStep

-----------------------------------------------------------------------------
\* The stream.

\* What tinyusb moves from the queue to the host remains a sequence of tokens.
LEMMA ServiceType ==
    ASSUME NEW queue \in Seq(Tokens), Len(queue) <= FifoCap,
           received \in Seq(Tokens), dtr \in BOOLEAN, open \in BOOLEAN,
           Service(queue)
    PROVE  /\ fifo' \in Seq(Tokens) /\ Len(fifo') <= FifoCap
           /\ received' \in Seq(Tokens)
           /\ dtr' \in BOOLEAN
<1>1. PICK n \in 0 .. (IF open THEN Len(queue) ELSE 0) :
          /\ fifo' = SubSeq(queue, n + 1, Len(queue))
          /\ received' = received \o SubSeq(queue, 1, n)
  BY DEF Service
<1>2. Len(queue) \in Nat /\ n \in Nat /\ n <= Len(queue)
  <2>1. Len(queue) \in Nat
    BY LenProperties
  <2> QED
    BY <1>1, <2>1
<1>3. SubSeq(queue, n + 1, Len(queue)) \in Seq(Tokens)
  BY <1>2, SubSeqProperties
<1>4. Len(SubSeq(queue, n + 1, Len(queue))) <= Len(queue)
  BY <1>2, SubSeqProperties
<1>5. FifoCap \in Nat
  BY TransmitAssumption
<1>6. Len(fifo') <= FifoCap
  <2>1. Len(fifo') <= Len(queue) /\ Len(fifo') \in Nat
    BY <1>1, <1>3, <1>4, LenProperties
  <2> QED
    BY <1>2, <1>5, <2>1
<1>7. received' \in Seq(Tokens)
  <2>1. SubSeq(queue, 1, n) \in Seq(Tokens)
    BY <1>2, SubSeqProperties
  <2> QED
    BY <1>1, <2>1, ConcatProperties
<1> QED
  BY <1>1, <1>3, <1>6, <1>7 DEF Service

LEMMA PieceType ==
    ASSUME StreamType, NEW n \in Nat
    PROVE  Piece(n) \in Seq(Tokens) /\ Len(Piece(n)) = n
<1>1. \A i \in 1 .. n :
          [ctr |-> tx_ctr, len |-> length, pos |-> total_sent + i] \in Tokens
  BY DEF StreamType, Tokens
<1> QED
  BY <1>1 DEF Piece

LEMMA CtrType ==
    ASSUME tx_ctr \in 0 .. CtrMod - 1
    PROVE  NextCtr \in 0 .. CtrMod - 1
BY TransmitAssumption DEF NextCtr

LEMMA StreamReturn ==
    ASSUME StreamType, Return
    PROVE  /\ length' \in Nat /\ total_sent' \in 0 .. length'
           /\ fifo' \in Seq(Tokens) /\ Len(fifo') <= FifoCap
           /\ dtr' \in BOOLEAN /\ open' \in BOOLEAN
           /\ received' \in Seq(Tokens) /\ calls' \in Nat
BY DEF StreamType, Return, frameVars, hostVars

\* A pass writes no more than fits and no more than is left.
LEMMA StreamPiece ==
    ASSUME StreamType, SendPiece
    PROVE  StreamType'
<1> DEFINE space == FifoCap - Len(fifo)
           remaining == length - total_sent
           n == IF remaining < space THEN remaining ELSE space
<1>1. FifoCap \in Nat /\ Len(fifo) \in Nat /\ Len(fifo) <= FifoCap
  BY TransmitAssumption, LenProperties DEF StreamType
<1>2. length \in Nat /\ total_sent \in Nat /\ total_sent <= length
  BY DEF StreamType
<1>3. n \in Nat /\ Len(fifo) + n <= FifoCap /\ total_sent + n <= length
  BY <1>1, <1>2
<1>4. Service(fifo \o Piece(n)) /\ total_sent' = total_sent + n
  BY DEF SendPiece
<1> HIDE DEF n
<1>5. Piece(n) \in Seq(Tokens) /\ Len(Piece(n)) = n
  BY <1>3, PieceType
<1>6. fifo \o Piece(n) \in Seq(Tokens) /\ Len(fifo \o Piece(n)) = Len(fifo) + n
  BY <1>5, ConcatProperties DEF StreamType
<1>7. /\ fifo' \in Seq(Tokens) /\ Len(fifo') <= FifoCap
      /\ received' \in Seq(Tokens)
      /\ dtr' \in BOOLEAN
  BY <1>3, <1>4, <1>6, ServiceType DEF StreamType
<1>8. length' = length /\ total_sent' \in 0 .. length'
  BY <1>2, <1>3, <1>4 DEF SendPiece, frameVars
<1> QED
  BY <1>7, <1>8 DEF StreamType, SendPiece

LEMMA StreamNext ==
    ASSUME StreamType, [Next]_vars
    PROVE  StreamType'
<1>1. CASE UNCHANGED vars \/ Tick \/ SendRefused
  <2>1. UNCHANGED <<tx_ctr, frames_sent, length, total_sent, fifo, dtr, open, received,
                    clean, lost, lastCtr>>
    BY <1>1 DEF vars, Tick, SendRefused, frameVars, hostVars
  <2>2. calls' = calls \/ calls' = calls + 1
    BY <1>1 DEF vars, Tick, SendRefused
  <2> QED
    BY <2>1, <2>2 DEF StreamType
<1>2. CASE HostOpen
  <2>1. received' \in Seq(Tokens) /\ clean' \in BOOLEAN /\ open' \in BOOLEAN
    BY <1>2, EmptySeq DEF HostOpen
  <2> QED
    BY <1>2, <2>1 DEF HostOpen, frameVars, StreamType
<1>3. CASE HostClose
  <2>1. fifo' \in Seq(Tokens) /\ Len(fifo') <= FifoCap
    <3>1. CASE fifo' = fifo
      BY <3>1 DEF StreamType
    <3>2. CASE fifo' = <<>>
      BY <3>2, EmptySeq, TransmitAssumption
    <3> QED
      BY <1>3, <3>1, <3>2 DEF HostClose
  <2>2. clean' \in BOOLEAN /\ open' \in BOOLEAN
    BY <1>3 DEF HostClose, StreamType
  <2> QED
    BY <1>3, <2>1, <2>2 DEF HostClose, frameVars, StreamType
<1>4. CASE UsbTask
  <2>1. /\ fifo' \in Seq(Tokens) /\ Len(fifo') <= FifoCap
        /\ received' \in Seq(Tokens)
        /\ dtr' \in BOOLEAN
    BY <1>4, ServiceType DEF UsbTask, StreamType
  <2> QED
    BY <1>4, <2>1 DEF UsbTask, frameVars, StreamType
<1>5. CASE SendStart
  <2>1. length' \in Nat /\ total_sent' \in 0 .. length'
    BY <1>5, TransmitAssumption DEF SendStart, HeaderSize
  <2> QED
    BY <1>5, <2>1 DEF SendStart, hostVars, StreamType
<1>6. CASE SendPiece
  BY <1>6, StreamPiece
<1>7. CASE SendGiveUp
  <2>1. Return /\ lost' \in BOOLEAN /\ clean' \in BOOLEAN
    BY <1>7 DEF SendGiveUp, StreamType
  <2> QED
    BY <1>7, <2>1, StreamReturn DEF SendGiveUp, StreamType
<1>8. CASE SendDone
  <2>1. Return
    BY <1>8 DEF SendDone
  <2>2. tx_ctr' \in 0 .. CtrMod - 1
    BY <1>8, CtrType DEF SendDone, StreamType
  <2>3. /\ frames_sent' = frames_sent + 1
        /\ lastCtr' = tx_ctr /\ lost' = FALSE /\ clean' = clean
    BY <1>8, Zenon DEF SendDone
  <2>4. /\ length' \in Nat /\ total_sent' \in 0 .. length'
        /\ fifo' \in Seq(Tokens) /\ Len(fifo') <= FifoCap
        /\ dtr' \in BOOLEAN /\ open' \in BOOLEAN
        /\ received' \in Seq(Tokens) /\ calls' \in Nat
    BY <2>1, StreamReturn
  <2>5. frames_sent' \in Nat /\ lastCtr' \in 0 .. CtrMod - 1
    BY <2>3 DEF StreamType
  <2>6. clean' \in BOOLEAN /\ lost' \in BOOLEAN
    BY <2>3, Zenon DEF StreamType
  <2> QED
    BY <2>2, <2>4, <2>5, <2>6, Zenon DEF StreamType
<1> QED
  BY <1>1, <1>2, <1>3, <1>4, <1>5, <1>6, <1>7, <1>8 DEF Next, SendStep

-----------------------------------------------------------------------------
\* The theorems.

LEMMA InvInit == Init => IInv
<1> SUFFICES ASSUME Init PROVE IInv
  OBVIOUS
<1>1. ClockType
  <2>1. 0 \in 0 .. TimeMod - 1 /\ 0 \in 0 .. IterGap /\ 0 \in Nat
    BY TimeConstants
  <2> QED
    BY <2>1 DEF Init, ClockType
<1>2. 0 \in 0 .. CtrMod - 1 /\ CtrMod - 1 \in 0 .. CtrMod - 1
  BY TransmitAssumption
<1>3. <<>> \in Seq(Tokens) /\ Len(<<>>) = 0 /\ 0 <= FifoCap
  BY EmptySeq, TransmitAssumption
<1>4. StreamType
  <2>1. 0 \in Nat /\ 0 \in 0 .. 0 /\ FALSE \in BOOLEAN /\ TRUE \in BOOLEAN
    OBVIOUS
  <2>2. fifo \in Seq(Tokens) /\ received \in Seq(Tokens) /\ Len(fifo) <= FifoCap
    BY <1>3 DEF Init
  <2>3. /\ tx_ctr \in 0 .. CtrMod - 1 /\ lastCtr \in 0 .. CtrMod - 1
        /\ length = 0 /\ total_sent = 0
    BY <1>2 DEF Init
  <2> QED
    BY <2>1, <2>2, <2>3 DEF Init, StreamType
<1>5. DeadlineMeasured
  BY DEF Init, DeadlineMeasured
<1> QED
  BY <1>1, <1>4, <1>5, TypeParts DEF IInv

LEMMA InvNext == IInv /\ [Next]_vars => IInv'
BY TypeParts, ClockNext, StreamNext DEF IInv

THEOREM Invariance == Spec => []IInv
BY InvInit, InvNext, PTL DEF Spec

\* The transmit path keeps the type of every variable: the FIFO is never filled
\* beyond its capacity and no more bytes of a frame are written than it has.
THEOREM TypeCorrect == Spec => []TypeOK
BY Invariance, PTL DEF IInv

\* The signed comparison with the deadline is exact, and send_blocking never
\* holds the main loop longer than the timeout and one pass of its loop.
THEOREM DeadlineExactCorrect == Spec => []DeadlineExact
<1>1. IInv => DeadlineExact
  BY TypeParts, Exact DEF IInv, DeadlineExact
<1> QED
  BY <1>1, Invariance, PTL

-----------------------------------------------------------------------------
\* What the host reads.  The invariant looks at the stream as a whole, what the
\* host has received and what still waits in the FIFO, because a step of tinyusb
\* moves tokens between the two and changes nothing else.

\* The CTR to come follows the last one sent whole, and nothing of a frame is
\* counted as sent while none is being sent.
CtrInOrder ==
    /\ tx_ctr = (lastCtr + 1) % CtrMod
    /\ ~sending => total_sent = 0
    /\ sending => length > 0

\* Whole frames in order, and what has been sent of the next one.  A stream
\* without a token is not in the middle of a frame.
Whole(s) ==
    /\ s = <<>> => total_sent = 0
    /\ s # <<>> => s[1].pos = 1
    /\ \A i \in 1 .. Len(s) - 1 : Follows(s[i], s[i + 1])
    /\ s # <<>> =>
           IF total_sent > 0
           THEN s[Len(s)] = [ctr |-> tx_ctr, len |-> length, pos |-> total_sent]
           ELSE s[Len(s)].pos = s[Len(s)].len /\ s[Len(s)].ctr = lastCtr

StreamInv == CtrInOrder /\ (clean => Whole(received \o fifo))

-----------------------------------------------------------------------------

LEMMA NextCtrMod ==
    ASSUME NEW m \in Nat, m > 0, NEW c \in 0 .. m - 1
    PROVE  (c + 1) % m = IF c + 1 = m THEN 0 ELSE c + 1
OBVIOUS

LEMMA CtrFollows ==
    ASSUME tx_ctr \in 0 .. CtrMod - 1
    PROVE  NextCtr = (tx_ctr + 1) % CtrMod
BY NextCtrMod, TransmitAssumption DEF NextCtr

LEMMA TokensAssociative ==
    ASSUME NEW s \in Seq(Tokens), NEW t \in Seq(Tokens), NEW u \in Seq(Tokens)
    PROVE  (s \o t) \o u = s \o (t \o u)
BY ConcatAssociative, SMTT(30)

\* tinyusb moves tokens from the queue to the host; it reorders and loses none.
LEMMA ServiceKeeps ==
    ASSUME received \in Seq(Tokens), NEW queue \in Seq(Tokens), Service(queue)
    PROVE  received' \o fifo' = received \o queue
<1>1. PICK n \in 0 .. (IF open THEN Len(queue) ELSE 0) :
          /\ fifo' = SubSeq(queue, n + 1, Len(queue))
          /\ received' = received \o SubSeq(queue, 1, n)
  BY DEF Service
<1>2. Len(queue) \in Nat /\ n \in 0 .. Len(queue)
  BY <1>1, LenProperties
<1> DEFINE taken == SubSeq(queue, 1, n)
           left == SubSeq(queue, n + 1, Len(queue))
<1>3. taken \in Seq(Tokens) /\ left \in Seq(Tokens)
  BY <1>2, SubSeqProperties
<1>4. taken \o left = queue
  <2>1. taken \o left = SubSeq(queue, 1, Len(queue))
    <3>1. /\ 1 \in 1 .. Len(queue) + 1
          /\ n \in 1 - 1 .. Len(queue)
          /\ Len(queue) \in n .. Len(queue)
      BY <1>2
    <3> QED
      BY <3>1, ConcatAdjacentSubSeq
  <2> QED
    BY <2>1, SubSeqFull
<1> HIDE DEF taken, left
<1>5. (received \o taken) \o left = received \o (taken \o left)
  <2>1. received \in Seq(Tokens) /\ taken \in Seq(Tokens) /\ left \in Seq(Tokens)
    BY <1>3
  <2> QED
    BY <2>1, TokensAssociative, Zenon
<1> QED
  BY <1>1, <1>4, <1>5 DEF taken, left

LEMMA SameStream ==
    ASSUME StreamInv, UNCHANGED <<tx_ctr, lastCtr, sending, total_sent, length, clean>>,
           received' \o fifo' = received \o fifo
    PROVE  StreamInv'
<1>1. CtrInOrder'
  BY DEF StreamInv, CtrInOrder
<1>2. ASSUME clean' PROVE Whole(received \o fifo)'
  BY <1>2 DEF StreamInv, Whole, Follows
<1> QED
  BY <1>1, <1>2 DEF StreamInv

LEMMA NextToken ==
    ASSUME NEW c, NEW l, NEW p, p < l
    PROVE  Follows([ctr |-> c, len |-> l, pos |-> p],
                   [ctr |-> c, len |-> l, pos |-> p + 1])
BY DEF Follows

\* A piece of a frame continues a stream of whole frames.
LEMMA PieceContinues ==
    ASSUME StreamType, CtrInOrder, NEW s \in Seq(Tokens), Whole(s),
           NEW n \in Nat, n > 0, total_sent + n <= length,
           NEW t, t = s \o Piece(n)
    PROVE  /\ t # <<>> /\ t[1].pos = 1
           /\ \A i \in 1 .. Len(t) - 1 : Follows(t[i], t[i + 1])
           /\ t[Len(t)] = [ctr |-> tx_ctr, len |-> length, pos |-> total_sent + n]
<1>1. /\ Piece(n) \in Seq(Tokens) /\ Len(Piece(n)) = n
      /\ \A i \in 1 .. n :
             Piece(n)[i] = [ctr |-> tx_ctr, len |-> length, pos |-> total_sent + i]
  BY PieceType DEF Piece
<1>2. Len(s) \in Nat /\ length \in Nat /\ total_sent \in Nat
  BY LenProperties DEF StreamType
<1>3. /\ t \in Seq(Tokens) /\ Len(t) = Len(s) + n
      /\ \A i \in 1 .. Len(s) : t[i] = s[i]
      /\ \A i \in 1 .. n : t[Len(s) + i] = Piece(n)[i]
  <2>1. /\ t \in Seq(Tokens) /\ Len(t) = Len(s) + n
        /\ \A i \in 1 .. Len(s) + n :
               t[i] = IF i <= Len(s) THEN s[i] ELSE Piece(n)[i - Len(s)]
    <3>1. /\ s \o Piece(n) \in Seq(Tokens)
          /\ Len(s \o Piece(n)) = Len(s) + Len(Piece(n))
          /\ \A i \in 1 .. Len(s) + Len(Piece(n)) :
                 (s \o Piece(n))[i] = IF i <= Len(s) THEN s[i]
                                                   ELSE Piece(n)[i - Len(s)]
      BY <1>1, ConcatProperties, Zenon
    <3> QED
      BY <1>1, <3>1, Zenon
  <2>2. ASSUME NEW i \in 1 .. n PROVE t[Len(s) + i] = Piece(n)[i]
    <3>1. Len(s) + i \in 1 .. Len(s) + n /\ ~(Len(s) + i <= Len(s))
          /\ (Len(s) + i) - Len(s) = i
      BY <1>2
    <3> QED
      BY <2>1, <3>1
  <2>3. ASSUME NEW i \in 1 .. Len(s) PROVE t[i] = s[i]
    BY <1>2, <2>1
  <2> QED
    BY <2>1, <2>2, <2>3
<1>4. \A i \in 1 .. n :
          t[Len(s) + i] = [ctr |-> tx_ctr, len |-> length, pos |-> total_sent + i]
  BY <1>1, <1>3
<1>5. s = <<>> <=> Len(s) = 0
  BY EmptySeq, <1>2
<1>6. t # <<>>
  BY <1>2, <1>3, EmptySeq
<1>7. t[1].pos = 1
  <2>1. CASE s = <<>>
    <3>1. t[Len(s) + 1] = [ctr |-> tx_ctr, len |-> length, pos |-> total_sent + 1]
      <4>1. 1 \in 1 .. n
        OBVIOUS
      <4> QED
        BY <1>4, <4>1
    <3>2. total_sent + 1 = 1 /\ Len(s) + 1 = 1
      BY <1>5, <2>1 DEF Whole
    <3>3. t[1] = [ctr |-> tx_ctr, len |-> length, pos |-> 1]
      BY <3>1, <3>2, Zenon
    <3> QED
      BY <3>3
  <2>2. CASE s # <<>>
    <3>1. 1 \in 1 .. Len(s)
      BY <1>2, <1>5, <2>2
    <3> QED
      BY <1>3, <2>2, <3>1 DEF Whole
  <2> QED
    BY <2>1, <2>2
<1>8. t[Len(t)] = [ctr |-> tx_ctr, len |-> length, pos |-> total_sent + n]
  BY <1>3, <1>4
<1>9. ASSUME NEW i \in 1 .. Len(t) - 1
      PROVE  Follows(t[i], t[i + 1])
  <2>1. CASE i < Len(s)
    <3>1. i \in 1 .. Len(s) - 1 /\ i \in 1 .. Len(s) /\ i + 1 \in 1 .. Len(s)
      BY <1>2, <2>1
    <3> QED
      BY <1>3, <3>1 DEF Whole
  <2>2. CASE i = Len(s)
    <3>1. t[i] = s[i] /\ s # <<>>
      BY <1>2, <1>3, <1>5, <2>2
    <3>2. t[i + 1] = [ctr |-> tx_ctr, len |-> length, pos |-> total_sent + 1]
      BY <1>4, <2>2
    <3>3. CASE total_sent > 0
      <4>1. t[i] = [ctr |-> tx_ctr, len |-> length, pos |-> total_sent]
        BY <2>2, <3>1, <3>3 DEF Whole
      <4>2. total_sent < length
        BY <1>2
      <4>3. /\ t[i].pos = total_sent /\ t[i].len = length
            /\ [t[i] EXCEPT !.pos = @ + 1] = t[i + 1]
        BY <3>2, <4>1
      <4>4. t[i].pos < t[i].len
        BY <4>2, <4>3
      <4> QED
        BY <4>3, <4>4, Zenon DEF Follows
    <3>4. CASE total_sent = 0
      <4>1. t[i].pos = t[i].len /\ t[i].ctr = lastCtr
        BY <2>2, <3>1, <3>4 DEF Whole
      <4>2. ~(t[i].pos < t[i].len)
        <5>1. t[i] \in Tokens
          BY <1>3, ElementOfSeq
        <5>2. t[i].pos \in Nat
          BY <5>1, Zenon DEF Tokens
        <5> QED
          BY <4>1, <5>2
      <4> QED
        BY <3>2, <3>4, <4>1, <4>2 DEF Follows, CtrInOrder
    <3> QED
      BY <1>2, <3>3, <3>4
  <2>3. CASE i > Len(s)
    <3>1. PICK k \in 1 .. n - 1 : i = Len(s) + k
      <4>1. i - Len(s) \in 1 .. n - 1 /\ i = Len(s) + (i - Len(s))
        BY <1>2, <1>3, <2>3
      <4> QED
        BY <4>1
    <3>2. t[i] = [ctr |-> tx_ctr, len |-> length, pos |-> total_sent + k]
      BY <1>4, <3>1
    <3>3. t[i + 1] = [ctr |-> tx_ctr, len |-> length, pos |-> (total_sent + k) + 1]
      <4>1. i + 1 = Len(s) + (k + 1) /\ k + 1 \in 1 .. n
        BY <1>2, <3>1
      <4>2. total_sent + (k + 1) = (total_sent + k) + 1
        BY <1>2
      <4> QED
        BY <1>4, <4>1, <4>2
    <3>4. total_sent + k < length
      BY <1>2, <3>1
    <3> QED
      BY <3>2, <3>3, <3>4, NextToken, Zenon
  <2> QED
    BY <1>2, <2>1, <2>2, <2>3
<1> QED
  BY <1>6, <1>7, <1>8, <1>9

LEMMA StreamPieceNext ==
    ASSUME StreamType, StreamInv, SendPiece
    PROVE  StreamInv'
<1> DEFINE space == FifoCap - Len(fifo)
           remaining == length - total_sent
           n == IF remaining < space THEN remaining ELSE space
<1>1. FifoCap \in Nat /\ Len(fifo) \in Nat /\ Len(fifo) <= FifoCap
  BY TransmitAssumption, LenProperties DEF StreamType
<1>2. length \in Nat /\ total_sent \in Nat /\ total_sent <= length
  BY DEF StreamType
<1>3. n \in Nat /\ total_sent + n <= length
  BY <1>1, <1>2
<1>4. Service(fifo \o Piece(n)) /\ total_sent' = total_sent + n
  BY DEF SendPiece
<1>5. sending /\ UNCHANGED <<tx_ctr, lastCtr, sending, length, clean>>
  BY DEF SendPiece, frameVars
<1> HIDE DEF n
<1>6. Piece(n) \in Seq(Tokens) /\ Len(Piece(n)) = n
  BY <1>3, PieceType
<1>7. received' \o fifo' = (received \o fifo) \o Piece(n)
  <2>1. fifo \o Piece(n) \in Seq(Tokens)
    BY <1>6, ConcatProperties DEF StreamType
  <2>2. received' \o fifo' = received \o (fifo \o Piece(n))
    BY <1>4, <2>1, ServiceKeeps DEF StreamType
  <2>3. received \in Seq(Tokens) /\ fifo \in Seq(Tokens)
    BY DEF StreamType
  <2>4. received \o (fifo \o Piece(n)) = (received \o fifo) \o Piece(n)
    BY <1>6, <2>3, TokensAssociative
  <2> QED
    BY <2>2, <2>4
<1>8. received \o fifo \in Seq(Tokens)
  BY ConcatProperties DEF StreamType
<1>9. CASE n = 0
  <2>1. received' \o fifo' = received \o fifo
    <3>1. Piece(n) = <<>>
      BY <1>6, <1>9, EmptySeq
    <3> QED
      BY <1>7, <1>8, <3>1, ConcatEmptySeq
  <2>2. total_sent' = total_sent
    BY <1>2, <1>4, <1>9
  <2> QED
    BY <1>5, <2>1, <2>2, SameStream
<1>10. CASE n > 0
  <2>1. CtrInOrder'
    BY <1>5 DEF StreamInv, CtrInOrder
  <2>2. ASSUME clean' PROVE Whole(received \o fifo)'
    <3> DEFINE s == received \o fifo
               t == s \o Piece(n)
    <3>1. /\ t # <<>> /\ t[1].pos = 1
          /\ \A i \in 1 .. Len(t) - 1 : Follows(t[i], t[i + 1])
          /\ t[Len(t)] = [ctr |-> tx_ctr, len |-> length, pos |-> total_sent + n]
      BY <1>3, <1>5, <1>7, <1>8, <1>10, <2>2, PieceContinues DEF StreamInv
    <3>2. total_sent' > 0
      BY <1>2, <1>3, <1>4, <1>10
    <3>3. received' \o fifo' = t
      BY <1>7
    <3> HIDE DEF t
    <3> QED
      BY <1>4, <1>5, <3>1, <3>2, <3>3 DEF Whole, Follows
  <2> QED
    BY <2>1, <2>2 DEF StreamInv
<1> QED
  BY <1>3, <1>9, <1>10

LEMMA StreamInvNext ==
    ASSUME StreamType, StreamInv, [Next]_vars
    PROVE  StreamInv'
<1>1. CASE UNCHANGED vars \/ Tick \/ SendRefused
  BY <1>1, SameStream DEF vars, Tick, SendRefused, frameVars, hostVars
<1>2. CASE HostOpen
  <2>1. CtrInOrder'
    BY <1>2 DEF HostOpen, frameVars, StreamInv, CtrInOrder
  <2>2. ASSUME clean' PROVE Whole(received \o fifo)'
    <3>1. fifo' = <<>> /\ received' = <<>>
      BY <1>2, <2>2 DEF HostOpen
    <3>2. received' \o fifo' = <<>>
      BY <3>1, EmptySeq, ConcatEmptySeq
    <3>3. total_sent' = 0
      BY <1>2, <2>2 DEF HostOpen, StreamInv, CtrInOrder
    <3>4. Len(received' \o fifo') = 0
      BY <3>2
    <3> QED
      BY <3>2, <3>3, <3>4 DEF Whole
  <2> QED
    BY <2>1, <2>2 DEF StreamInv
<1>3. CASE HostClose
  <2>1. CtrInOrder'
    BY <1>3 DEF HostClose, frameVars, StreamInv, CtrInOrder
  <2>2. CASE clean'
    BY <1>3, <2>2, SameStream DEF HostClose, frameVars
  <2> QED
    BY <2>1, <2>2 DEF StreamInv
<1>4. CASE UsbTask
  <2>1. received' \o fifo' = received \o fifo
    BY <1>4, ServiceKeeps DEF UsbTask, StreamType
  <2> QED
    BY <1>4, <2>1, SameStream DEF UsbTask, frameVars
<1>5. CASE SendStart
  <2>1. /\ ~sending /\ sending' = TRUE /\ total_sent' = 0
        /\ UNCHANGED <<tx_ctr, lastCtr, fifo, received, clean>>
    BY <1>5 DEF SendStart, hostVars
  <2>2. total_sent = 0
    BY <2>1 DEF StreamInv, CtrInOrder
  <2>3. length' > 0
    BY <1>5, TransmitAssumption DEF SendStart, HeaderSize
  <2>4. CtrInOrder'
    BY <2>1, <2>3 DEF StreamInv, CtrInOrder
  <2>5. Whole(received \o fifo) => Whole(received \o fifo)'
    <3>1. /\ total_sent' = total_sent /\ ~(total_sent > 0)
          /\ received' \o fifo' = received \o fifo /\ lastCtr' = lastCtr
      BY <2>1, <2>2
    <3> QED
      BY <3>1 DEF Whole, Follows
  <2> QED
    BY <2>1, <2>4, <2>5, Zenon DEF StreamInv
<1>6. CASE SendPiece
  BY <1>6, StreamPieceNext
<1>7. CASE SendGiveUp
  <2>1. /\ ~sending' /\ total_sent' = 0
        /\ clean' => clean /\ total_sent = 0
        /\ UNCHANGED <<tx_ctr, lastCtr, fifo, received, length>>
    BY <1>7 DEF SendGiveUp, Return, frameVars, hostVars
  <2>2. CtrInOrder'
    BY <2>1 DEF StreamInv, CtrInOrder
  <2>3. total_sent = 0 /\ Whole(received \o fifo) => Whole(received \o fifo)'
    BY <2>1 DEF Whole, Follows
  <2> QED
    BY <2>1, <2>2, <2>3, Zenon DEF StreamInv
<1>8. CASE SendDone
  <2>1. /\ ~sending' /\ total_sent' = 0 /\ clean' = clean /\ total_sent = length
        /\ tx_ctr' = NextCtr /\ lastCtr' = tx_ctr
        /\ UNCHANGED <<fifo, received>>
    BY <1>8 DEF SendDone, Return, hostVars
  <2>2. CtrInOrder'
    BY <2>1, CtrFollows DEF CtrInOrder, StreamType
  <2>3. ASSUME clean PROVE Whole(received \o fifo)'
    <3> DEFINE s == received \o fifo
    <3>1. Whole(s)
      BY <2>3 DEF StreamInv
    <3>2. s # <<>> => s[Len(s)].pos = s[Len(s)].len /\ s[Len(s)].ctr = tx_ctr
      BY <1>8, <2>1, <3>1 DEF SendDone, StreamInv, CtrInOrder, StreamType, Whole
    <3>4. s' = s
      BY <2>1
    <3> HIDE DEF s
    <3>3. Whole(s)'
      BY <2>1, <3>1, <3>2, <3>4 DEF Whole, Follows
    <3> QED
      BY <2>1, <2>3, <3>3 DEF s
  <2> QED
    BY <2>1, <2>2, <2>3 DEF StreamInv
<1> QED
  BY <1>1, <1>2, <1>3, <1>4, <1>5, <1>6, <1>7, <1>8 DEF Next, SendStep
LEMMA StreamInvInit == Init => StreamInv
<1> SUFFICES ASSUME Init PROVE StreamInv
  OBVIOUS
<1>1. CtrInOrder
  BY NextCtrMod, TransmitAssumption DEF Init, CtrInOrder
<1>2. received \o fifo = <<>> /\ Len(received \o fifo) = 0
  BY DEF Init
<1>3. Whole(received \o fifo)
  BY <1>2 DEF Init, Whole
<1> QED
  BY <1>1, <1>3 DEF StreamInv

\* In a stream without remains of a cut frame the host reads whole frames with
\* consecutive CTRs, however it opens, closes and reads and wherever a frame is
\* split; only the frame being sent may be incomplete.
THEOREM StreamWholeCorrect == Spec => []StreamWhole
<1>1. IInv /\ StreamInv /\ [Next]_vars => StreamInv'
  BY StreamInvNext, TypeParts DEF IInv
<1>2. StreamInv => StreamWhole
  BY DEF StreamInv, StreamWhole, Whole
<1> QED
  BY <1>1, <1>2, StreamInvInit, Invariance, PTL DEF Spec
=============================================================================
