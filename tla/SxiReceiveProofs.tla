--------------------------- MODULE SxiReceiveProofs ---------------------------
(***************************************************************************)
(* Proofs about the receive parser, for every byte alphabet, frame size,   *)
(* FIFO capacity, timeout and loop period that ReceiveAssumption allows.   *)
(*                                                                         *)
(* The inductive invariant IInv joins the types, the agreement of the      *)
(* parser with the bytes it holds (ParserShape) and SilenceMeasured: in    *)
(* the middle of a frame the wrapping clock difference is the true         *)
(* silence, because a poll bounds it before the clock can come round.      *)
(* Byte conservation and the accounting of dropped bytes follow from it by *)
(* an induction of their own.                                              *)
(***************************************************************************)
EXTENDS SxiReceive, SequenceTheorems, TLAPS

SilenceMeasured ==
    MidFrame => /\ Elapsed(now, rx_last_byte_time) = silence
                /\ silence <= IdleTimeout + unpolled

IInv == TypeOK /\ ParserShape /\ SilenceMeasured

Stats == [frames_received : Nat, framing_errors : Nat, ctr_errors : Nat,
          idle_timeouts : Nat, bytes_dropped : Nat]

\* TypeOK in three parts, so that a step shows only the part it concerns.
ParserType ==
    /\ fifo \in Seq(Byte) /\ Len(fifo) <= FifoCap
    /\ rx \in Seq(Byte)
    /\ rx_state \in {"WAIT_HEADER", "WAIT_PAYLOAD", "FRAME_READY"}
    /\ rx_expected \in 0 .. MaxCto
    /\ rx_last_ctr \in Ctr
    /\ rx_ctr_initialised \in BOOLEAN
ClockType ==
    /\ rx_last_byte_time \in 0 .. TimeMod - 1
    /\ now \in 0 .. TimeMod - 1
    /\ unpolled \in 0 .. PollGap
    /\ silence \in 0 .. TimeMod
CountType == stats \in Stats /\ arrived \in Nat /\ taken \in Nat

-----------------------------------------------------------------------------
\* Lemmas about the constants and the operators.

LEMMA TypeParts ==
    /\ TypeOK <=> ParserType /\ ClockType /\ CountType
    /\ TypeOK' <=> ParserType' /\ ClockType' /\ CountType'
BY DEF TypeOK, ParserType, ClockType, CountType, Stats

LEMMA SizeConstants == MaxCto \in Nat /\ MaxCto > 0 /\ FifoCap \in Nat
                       /\ FifoCap > 0
BY ReceiveAssumption

LEMMA TimeConstants ==
    /\ TimeMod \in Nat /\ IdleTimeout \in Nat /\ PollGap \in Nat
    /\ PollGap > 0 /\ IdleTimeout + PollGap < TimeMod
BY ReceiveAssumption

\* Two bytes make a 16-bit value.
LEMMA U16Type ==
    ASSUME NEW lo \in Byte, NEW hi \in Byte
    PROVE  U16(lo, hi) \in Ctr
<1>1. lo \in Int /\ hi \in Int /\ 0 <= lo /\ lo <= Radix - 1
      /\ 0 <= hi /\ hi <= Radix - 1 /\ Radix \in Nat /\ Radix > 1
  BY ReceiveAssumption DEF Byte
<1>2. Radix * hi <= Radix * (Radix - 1) /\ Radix * hi >= 0
      /\ Radix * hi \in Int
  BY <1>1
<1>3. Radix * (Radix - 1) = Radix * Radix - Radix /\ Radix * Radix \in Int
  BY <1>1
<1>4. lo + Radix * hi \in Int /\ 0 <= lo + Radix * hi
      /\ lo + Radix * hi <= Radix * Radix - 1
  <2> DEFINE p == Radix * hi  q == Radix * Radix  r == Radix * (Radix - 1)
  <2>1. p \in Int /\ q \in Int /\ p <= r /\ p >= 0 /\ r = q - Radix
    BY <1>2, <1>3
  <2> HIDE DEF p, q, r
  <2>2. lo + p \in Int /\ 0 <= lo + p /\ lo + p <= q - 1
    BY <1>1, <2>1
  <2> QED BY <2>2 DEF p, q
<1> QED BY <1>1, <1>3, <1>4 DEF U16, Ctr, CtrMod

\* What the rest of the task finds after check_idle_timeout is a parser state
\* of the same shape, and it lacks at least one byte unless a frame is ready.
LEMMA NowShape ==
    ASSUME TypeOK, ParserShape
    PROVE  /\ BufNow \in Seq(Byte) /\ Len(BufNow) \in Nat
           /\ StateNow \in {"WAIT_HEADER", "WAIT_PAYLOAD", "FRAME_READY"}
           /\ ExpectedNow \in 0 .. MaxCto
           /\ StatsNow \in Stats
           /\ StateNow = "WAIT_HEADER" =>
                  Len(BufNow) < HeaderSize /\ ExpectedNow = 0
           /\ StateNow = "WAIT_PAYLOAD" =>
                  /\ Len(BufNow) >= HeaderSize
                  /\ Len(BufNow) < HeaderSize + ExpectedNow
           /\ StateNow # "WAIT_HEADER" =>
                  /\ ~Stalled /\ BufNow = rx /\ ExpectedNow = rx_expected
                  /\ StateNow = rx_state /\ StatsNow = stats
           /\ BytesNeeded \in Int
           /\ StateNow # "FRAME_READY" => BytesNeeded > 0
<1>1. <<>> \in Seq(Byte) /\ Len(<<>>) = 0
  OBVIOUS
<1>2. Len(rx) \in Nat /\ MaxCto \in Nat
  BY ReceiveAssumption, LenProperties DEF TypeOK
<1>3. StatsNow \in Stats
  <2>1. stats \in Stats
    BY DEF TypeOK, Stats
  <2>2. stats.idle_timeouts + 1 \in Nat /\ stats.bytes_dropped + Len(rx) \in Nat
    BY <2>1, <1>2 DEF Stats
  <2> QED BY <2>1, <2>2 DEF StatsNow, Stats
<1>4. /\ BufNow \in Seq(Byte) /\ Len(BufNow) \in Nat
      /\ StateNow \in {"WAIT_HEADER", "WAIT_PAYLOAD", "FRAME_READY"}
      /\ ExpectedNow \in 0 .. MaxCto
  BY <1>1, <1>2 DEF TypeOK, BufNow, StateNow, ExpectedNow
<1>5. /\ StateNow = "WAIT_HEADER" =>
             Len(BufNow) < HeaderSize /\ ExpectedNow = 0
      /\ StateNow = "WAIT_PAYLOAD" =>
             /\ Len(BufNow) >= HeaderSize
             /\ Len(BufNow) < HeaderSize + ExpectedNow
  BY <1>1, <1>2 DEF ParserShape, BufNow, StateNow, ExpectedNow, HeaderSize
<1>6. StateNow # "WAIT_HEADER" =>
          /\ ~Stalled /\ BufNow = rx /\ ExpectedNow = rx_expected
          /\ StateNow = rx_state /\ StatsNow = stats
  BY DEF StateNow, BufNow, ExpectedNow, StatsNow
<1>7. BytesNeeded \in Int /\ (StateNow # "FRAME_READY" => BytesNeeded > 0)
  BY <1>2, <1>4, <1>5 DEF BytesNeeded, HeaderSize
<1> QED BY <1>3, <1>4, <1>5, <1>6, <1>7

\* A read moves bytes from the front of the FIFO to the end of the buffer and
\* changes none of the bytes already there.
LEMMA ReadShape ==
    ASSUME TypeOK, ParserShape, StateNow # "FRAME_READY", Received > 0
    PROVE  /\ Received \in Nat /\ Received <= BytesNeeded
           /\ Received <= Len(fifo) /\ Len(fifo) \in Nat
           /\ BufFed \in Seq(Byte)
           /\ Len(BufFed) = Len(BufNow) + Received
           /\ \A i \in 1 .. Len(BufNow) : BufFed[i] = BufNow[i]
           /\ SubSeq(fifo, Received + 1, Len(fifo)) \in Seq(Byte)
           /\ Len(SubSeq(fifo, Received + 1, Len(fifo))) = Len(fifo) - Received
<1>1. /\ BufNow \in Seq(Byte) /\ Len(BufNow) \in Nat
      /\ BytesNeeded \in Int
  BY NowShape
<1>2. fifo \in Seq(Byte) /\ Len(fifo) \in Nat
      /\ \A i \in 1 .. Len(fifo) : fifo[i] \in Byte
  BY LenProperties, ElementOfSeq DEF TypeOK
<1>3. Received \in Nat /\ Received <= BytesNeeded /\ Received <= Len(fifo)
  BY <1>1, <1>2 DEF Received
<1> DEFINE new == SubSeq(fifo, 1, Received)
           rest == SubSeq(fifo, Received + 1, Len(fifo))
<1>4. new \in Seq(Byte) /\ Len(new) = Received
  BY <1>2, <1>3, SubSeqProperties
<1>5. rest \in Seq(Byte) /\ Len(rest) = Len(fifo) - Received
  BY <1>2, <1>3, SubSeqProperties
<1> HIDE DEF new, rest
<1>6. /\ BufNow \o new \in Seq(Byte)
      /\ Len(BufNow \o new) = Len(BufNow) + Received
      /\ \A i \in 1 .. Len(BufNow) : (BufNow \o new)[i] = BufNow[i]
  <2> DEFINE old == BufNow
  <2>1. old \in Seq(Byte) /\ Len(old) \in Nat
    BY <1>1
  <2> HIDE DEF old
  <2>2. /\ old \o new \in Seq(Byte)
        /\ Len(old \o new) = Len(old) + Len(new)
        /\ \A i \in 1 .. Len(old) + Len(new) :
               (old \o new)[i] = IF i <= Len(old) THEN old[i]
                                 ELSE new[i - Len(old)]
    BY <1>4, <2>1, ConcatProperties
  <2> QED BY <1>3, <1>4, <2>1, <2>2 DEF old
<1> QED BY <1>1, <1>2, <1>3, <1>5, <1>6 DEF BufFed, new, rest

-----------------------------------------------------------------------------
\* The inductive invariant.

\* A call that reads: what is left to show is the parser's own part.
LEMMA ReadInvariant ==
    ASSUME IInv, Read, ParserShape', stats' \in Stats,
           rx' \in Seq(Byte), rx_expected' \in 0 .. MaxCto,
           rx_state' \in {"WAIT_HEADER", "WAIT_PAYLOAD", "FRAME_READY"},
           rx_last_ctr' \in Ctr, rx_ctr_initialised' \in BOOLEAN
    PROVE  IInv'
<1>1. TypeOK /\ ParserShape /\ ParserType /\ ClockType /\ CountType
  BY TypeParts DEF IInv
<1>2. ParserType'
  <2>1. StateNow # "FRAME_READY" /\ Received > 0
        /\ fifo' = SubSeq(fifo, Received + 1, Len(fifo))
    BY DEF Read
  <2>2. fifo' \in Seq(Byte) /\ Len(fifo') = Len(fifo) - Received
        /\ Received \in Nat /\ Len(fifo) \in Nat
    BY <1>1, <2>1, ReadShape
  <2>3. Len(fifo') <= FifoCap
    BY <1>1, <2>1, <2>2, SizeConstants DEF ParserType
  <2> QED BY <2>2, <2>3 DEF ParserType
<1>3. ClockType'
  BY <1>1, TimeConstants DEF ClockType, Read
<1>4. CountType'
  BY <1>1 DEF CountType, Read
<1>5. SilenceMeasured'
  BY <1>1, TimeConstants DEF ClockType, Read, SilenceMeasured, Elapsed
<1> QED BY <1>2, <1>3, <1>4, <1>5, TypeParts DEF IInv

\* Every call of the task keeps IInv.
LEMMA TaskInvariant ==
    ASSUME IInv, SxiTask
    PROVE  IInv'
<1>1. /\ TypeOK /\ ParserShape /\ SilenceMeasured
      /\ ParserType /\ ClockType /\ CountType
  BY TypeParts DEF IInv
<1>2. CASE TaskHold
  <2> USE <1>2 DEF TaskHold
  <2>1. ParserType' /\ CountType' /\ ParserShape'
    BY <1>1 DEF ParserType, CountType, ParserShape, parserVars, ctrVars
  <2>2. ClockType'
    BY <1>1, TimeConstants DEF ClockType
  <2>3. SilenceMeasured'
    BY DEF SilenceMeasured, MidFrame, StateNow, Stalled, parserVars
  <2> QED BY <2>1, <2>2, <2>3, TypeParts DEF IInv
<1>3. CASE TaskEmpty
  <2> USE <1>3 DEF TaskEmpty
  <2>1. ParserType' /\ CountType' /\ ParserShape'
    BY <1>1, NowShape DEF ParserType, CountType, ParserShape, ctrVars
  <2>2. ClockType'
    BY <1>1, TimeConstants DEF ClockType
  <2>3. SilenceMeasured'
    <3> SUFFICES ASSUME MidFrame'
                 PROVE  /\ Elapsed(now', rx_last_byte_time') = silence'
                        /\ silence' <= IdleTimeout + unpolled'
      BY DEF SilenceMeasured
    <3>1. ~Stalled /\ MidFrame
      BY DEF MidFrame, Stalled, StateNow, BufNow
    <3>2. /\ Elapsed(now, rx_last_byte_time) = silence
          /\ ~(silence > IdleTimeout) /\ silence \in Int
      BY <1>1, <3>1, TimeConstants DEF SilenceMeasured, Stalled, ClockType
    <3> QED BY <3>2, TimeConstants DEF Elapsed
  <2> QED BY <2>1, <2>2, <2>3, TypeParts DEF IInv
<1>4. CASE TaskPartial
  <2> USE <1>4 DEF TaskPartial
  <2>1. Read /\ StateNow # "FRAME_READY" /\ Received > 0
    BY DEF Read
  <2>2. /\ BufFed \in Seq(Byte) /\ Len(BufFed) \in Nat
        /\ Len(BufNow) \in Nat /\ Len(BufFed) >= Len(BufNow)
        /\ \A i \in 1 .. Len(BufNow) : BufFed[i] = BufNow[i]
    BY <1>1, <2>1, NowShape, ReadShape
  <2>3. ParserShape'
    <3>1. CASE StateNow = "WAIT_HEADER"
      <4>1. ExpectedNow = 0 /\ Len(BufFed) < HeaderSize
        BY <1>1, <2>2, <3>1, NowShape DEF HeaderComplete, HeaderSize
      <4> QED BY <3>1, <4>1 DEF ParserShape
    <3>2. CASE StateNow = "WAIT_PAYLOAD"
      <4>1. /\ BufNow = rx /\ rx_state = "WAIT_PAYLOAD"
            /\ ExpectedNow = rx_expected /\ Len(rx) >= 4
        BY <1>1, <3>2, NowShape DEF HeaderSize
      <4>2. /\ BufFed[1] = rx[1] /\ BufFed[2] = rx[2]
            /\ BufFed[3] = rx[3] /\ BufFed[4] = rx[4]
        BY <2>2, <4>1
      <4>3. Len(BufFed) >= HeaderSize /\ Len(BufFed) < HeaderSize + ExpectedNow
        BY <1>1, <2>2, <3>2, <4>1, NowShape DEF PayloadComplete, HeaderSize
      <4> QED BY <1>1, <3>2, <4>1, <4>2, <4>3 DEF ParserShape, ctrVars
    <3> QED BY <1>1, <2>1, <3>1, <3>2, NowShape
  <2>4. /\ stats' \in Stats /\ rx_expected' \in 0 .. MaxCto
        /\ rx_state' \in {"WAIT_HEADER", "WAIT_PAYLOAD", "FRAME_READY"}
    BY <1>1, NowShape
  <2> QED BY <1>1, <2>1, <2>2, <2>3, <2>4, ReadInvariant DEF ParserType, ctrVars
<1>5. CASE TaskReject
  <2> USE <1>5 DEF TaskReject
  <2>1. Read /\ StateNow # "FRAME_READY" /\ Received > 0
    BY DEF Read
  <2>2. ParserShape' /\ <<>> \in Seq(Byte)
    BY DEF ParserShape, HeaderSize
  <2>3. stats' \in Stats
    <3>1. StatsNow \in Stats /\ Len(BufFed) \in Nat
      BY <1>1, <2>1, NowShape, ReadShape, LenProperties
    <3>2. StatsNow.framing_errors + 1 \in Nat
          /\ StatsNow.bytes_dropped + Len(BufFed) \in Nat
      BY <3>1 DEF Stats
    <3> QED BY <3>1, <3>2 DEF Stats
  <2>4. rx_expected' \in 0 .. MaxCto
    BY SizeConstants
  <2> QED BY <1>1, <2>1, <2>2, <2>3, <2>4, ReadInvariant DEF ParserType, ctrVars
<1>6. CASE TaskAccept
  <2> USE <1>6 DEF TaskAccept
  <2>1. Read /\ StateNow # "FRAME_READY" /\ Received > 0
    BY DEF Read
  <2>2. BufFed \in Seq(Byte) /\ StateNow = "WAIT_HEADER"
        /\ Len(BufFed) = HeaderSize
    <3>1. StateNow = "WAIT_HEADER" /\ Len(BufFed) >= 4
      BY DEF HeaderComplete, HeaderSize
    <3>2. /\ BufFed \in Seq(Byte) /\ Len(BufFed) = Len(BufNow) + Received
          /\ Received \in Nat /\ Received <= BytesNeeded
      BY <1>1, <2>1, ReadShape
    <3>3. BytesNeeded = 4 - Len(BufNow) /\ Len(BufNow) \in Nat
      BY <1>1, <3>1, NowShape DEF BytesNeeded, HeaderSize
    <3>4. Len(BufFed) = 4
      BY <3>1, <3>2, <3>3
    <3> QED BY <3>1, <3>2, <3>4 DEF HeaderSize
  <2>3. HeaderLen \in Ctr /\ HeaderCtr \in Ctr
    <3>1. BufFed[1] \in Byte /\ BufFed[2] \in Byte
          /\ BufFed[3] \in Byte /\ BufFed[4] \in Byte
      <4>1. \A i \in 1 .. 4 : BufFed[i] \in Byte
        BY <2>2, ElementOfSeq DEF HeaderSize
      <4> QED BY <4>1
    <3> QED BY <3>1, U16Type DEF HeaderLen, HeaderCtr
  <2>4. HeaderLen \in 0 .. MaxCto
    BY <2>3, SizeConstants DEF Ctr, CtrMod
  <2>5. ParserShape'
    BY <2>2, <2>4, SizeConstants DEF ParserShape, HeaderLen, HeaderCtr, HeaderSize
  <2>6. stats' \in Stats
    <3>1. StatsNow \in Stats
      BY <1>1, NowShape
    <3>2. StatsNow.ctr_errors + 1 \in Nat
      BY <3>1 DEF Stats
    <3> QED BY <3>1, <3>2 DEF Stats
  <2> QED BY <2>1, <2>2, <2>3, <2>4, <2>5, <2>6, ReadInvariant
<1>7. CASE TaskPayload
  <2> USE <1>7 DEF TaskPayload
  <2>1. Read /\ StateNow = "WAIT_PAYLOAD" /\ Received > 0
    BY DEF Read, PayloadComplete
  <2>2. /\ BufFed \in Seq(Byte) /\ Len(BufFed) = HeaderSize + ExpectedNow
        /\ Len(BufNow) \in Nat
        /\ \A i \in 1 .. Len(BufNow) : BufFed[i] = BufNow[i]
    <3>1. /\ BufFed \in Seq(Byte) /\ Len(BufFed) = Len(BufNow) + Received
          /\ Received \in Nat /\ Received <= BytesNeeded
          /\ \A i \in 1 .. Len(BufNow) : BufFed[i] = BufNow[i]
      BY <1>1, <2>1, ReadShape
    <3>2. /\ BytesNeeded = (4 + ExpectedNow) - Len(BufNow)
          /\ Len(BufNow) \in Nat /\ ExpectedNow \in Nat
      BY <1>1, <2>1, NowShape, SizeConstants DEF BytesNeeded, HeaderSize
    <3>3. Len(BufFed) >= 4 + ExpectedNow
      BY <2>1 DEF PayloadComplete, HeaderSize
    <3>4. Len(BufFed) = 4 + ExpectedNow
      BY <3>1, <3>2, <3>3
    <3> QED BY <3>1, <3>2, <3>4 DEF HeaderSize
  <2>3. /\ BufNow = rx /\ rx_state = "WAIT_PAYLOAD"
        /\ ExpectedNow = rx_expected /\ Len(rx) >= 4
    BY <1>1, <2>1, NowShape DEF HeaderSize
  <2>4. ParserShape'
    <3>1. /\ BufFed[1] = rx[1] /\ BufFed[2] = rx[2]
          /\ BufFed[3] = rx[3] /\ BufFed[4] = rx[4]
      BY <2>2, <2>3
    <3> QED BY <1>1, <2>2, <2>3, <3>1 DEF ParserShape, ctrVars
  <2>5. stats' \in Stats /\ rx_expected' \in 0 .. MaxCto
    BY <1>1, NowShape
  <2> QED BY <1>1, <2>1, <2>2, <2>4, <2>5, ReadInvariant DEF ParserType, ctrVars
<1> QED BY <1>2, <1>3, <1>4, <1>5, <1>6, <1>7 DEF SxiTask

LEMMA InitInvariant == Init => IInv
<1> SUFFICES ASSUME Init PROVE IInv
  OBVIOUS
<1>1. <<>> \in Seq(Byte) /\ Len(<<>>) = 0 /\ ZeroStats \in Stats
  BY DEF ZeroStats, Stats
<1>2. 0 \in Byte
  BY ReceiveAssumption DEF Byte
<1>3. 0 \in Ctr
  BY <1>2, U16Type, ReceiveAssumption DEF U16
<1>4. ParserType
  <2>1. Len(fifo) <= FifoCap /\ rx_expected \in 0 .. MaxCto
    BY <1>1, SizeConstants DEF Init
  <2> QED BY <1>1, <1>3, <2>1 DEF Init, ParserType
<1>5. ClockType
  BY TimeConstants DEF Init, ClockType
<1>6. CountType /\ ParserShape /\ SilenceMeasured
  BY <1>1 DEF Init, CountType, ParserShape, SilenceMeasured, MidFrame, HeaderSize
<1> QED BY <1>4, <1>5, <1>6, TypeParts DEF IInv

\* Every step, the world's included, keeps IInv.
LEMMA StepInvariant == IInv /\ [Next]_vars => IInv'
<1> SUFFICES ASSUME IInv, [Next]_vars PROVE IInv'
  OBVIOUS
<1>1. /\ TypeOK /\ ParserShape /\ SilenceMeasured
      /\ ParserType /\ ClockType /\ CountType
  BY TypeParts DEF IInv
<1>2. ASSUME NEW b \in Byte, Arrive(b) PROVE IInv'
  <2> USE <1>2 DEF Arrive
  <2>1. Append(fifo, b) \in Seq(Byte) /\ Len(Append(fifo, b)) = Len(fifo) + 1
        /\ Len(fifo) \in Nat
    BY <1>1, AppendProperties, LenProperties DEF ParserType
  <2>2. ParserType' /\ ParserShape'
    BY <1>1, <2>1, SizeConstants
       DEF ParserType, ParserShape, parserVars, ctrVars
  <2>3. ClockType' /\ CountType' /\ SilenceMeasured'
    BY <1>1 DEF ClockType, CountType, SilenceMeasured, MidFrame, Elapsed,
       parserVars, clockVars
  <2> QED BY <2>2, <2>3, TypeParts DEF IInv
<1>3. CASE Tick
  <2> USE <1>3 DEF Tick
  <2>1. ParserType' /\ ParserShape' /\ CountType'
    BY <1>1 DEF ParserType, ParserShape, CountType, parserVars, ctrVars
  <2>2. ClockType'
    BY <1>1, TimeConstants DEF ClockType
  <2>3. SilenceMeasured'
    BY <1>1, TimeConstants
       DEF SilenceMeasured, ClockType, MidFrame, Elapsed, parserVars
  <2> QED BY <2>1, <2>2, <2>3, TypeParts DEF IInv
<1>4. CASE SxiTask
  BY <1>4, TaskInvariant
<1>5. CASE GetPacket
  <2> USE <1>5 DEF GetPacket
  <2>1. ParserType' /\ ParserShape'
    <3>1. UNCHANGED <<fifo, rx_last_ctr, rx_ctr_initialised>>
      BY DEF ctrVars
    <3> QED BY <1>1, <3>1, SizeConstants DEF ParserType, ParserShape, HeaderSize
  <2>2. CountType'
    <3>1. stats.frames_received + 1 \in Nat /\ taken + rx_expected \in Nat
      <4>1. stats.frames_received \in Nat
        BY <1>1 DEF CountType, Stats
      <4>2. taken \in Nat /\ rx_expected \in Nat
        BY <1>1, SizeConstants DEF CountType, ParserType
      <4> QED BY <4>1, <4>2
    <3> QED BY <1>1, <3>1 DEF CountType, Stats
  <2>3. ClockType' /\ SilenceMeasured'
    BY <1>1 DEF ClockType, SilenceMeasured, MidFrame, clockVars
  <2> QED BY <2>1, <2>2, <2>3, TypeParts DEF IInv
<1>6. CASE UNCHANGED vars
  <2> USE <1>6 DEF vars
  <2>1. ParserType' /\ ClockType' /\ CountType'
    BY <1>1 DEF ParserType, ClockType, CountType
  <2>2. ParserShape' /\ SilenceMeasured'
    BY <1>1 DEF ParserShape, SilenceMeasured, MidFrame, Elapsed
  <2> QED BY <2>1, <2>2, TypeParts DEF IInv
<1> QED BY <1>2, <1>3, <1>4, <1>5, <1>6 DEF Next

\* IInv holds in every reachable state.
THEOREM Invariance == Spec => []IInv
BY InitInvariant, StepInvariant, PTL DEF Spec

\* Types, for every value of the constants.
THEOREM TypeCorrect == Spec => []TypeOK
<1>1. IInv => TypeOK
  BY DEF IInv
<1> QED BY <1>1, Invariance, PTL

\* The parser state always agrees with the bytes it holds.
THEOREM ParserShapeCorrect == Spec => []ParserShape
<1>1. IInv => ParserShape
  BY DEF IInv
<1> QED BY <1>1, Invariance, PTL

\* The idle test measures the true silence although the clock wraps.
THEOREM TimeoutExactCorrect == Spec => []TimeoutExact
<1>1. IInv => TimeoutExact
  BY DEF IInv, SilenceMeasured, TimeoutExact, Stalled
<1> QED BY <1>1, Invariance, PTL

-----------------------------------------------------------------------------
\* Accounting.

\* check_idle_timeout moves the bytes of the abandoned frame to bytes_dropped.
LEMMA NowCounts ==
    ASSUME IInv
    PROVE  /\ StatsNow \in Stats /\ stats \in Stats
           /\ Len(BufNow) \in Nat /\ Len(rx) \in Nat
           /\ StatsNow.frames_received = stats.frames_received
           /\ StatsNow.framing_errors = stats.framing_errors
           /\ StatsNow.bytes_dropped + Len(BufNow)
                  = stats.bytes_dropped + Len(rx)
           /\ Stalled =>
                  /\ StatsNow.idle_timeouts = stats.idle_timeouts + 1
                  /\ Len(BufNow) = 0
                  /\ Len(rx) >= 1 /\ Len(rx) <= HeaderSize + MaxCto - 1
           /\ ~Stalled => StatsNow = stats /\ BufNow = rx
<1>1. /\ TypeOK /\ ParserShape /\ ParserType /\ stats \in Stats
      /\ StatsNow \in Stats /\ Len(BufNow) \in Nat
  BY TypeParts, NowShape DEF IInv, CountType
<1>2. Len(rx) \in Nat /\ (Len(rx) = 0 => rx = <<>>)
  BY <1>1, LenProperties, EmptySeq DEF ParserType
<1>3. CASE ~Stalled
  BY <1>1, <1>2, <1>3 DEF StatsNow, BufNow, Stats
<1>4. CASE Stalled
  <2>1. Len(rx) >= 1 /\ Len(rx) <= HeaderSize + MaxCto - 1
    <3>1. CASE rx_state = "WAIT_HEADER"
      BY <1>1, <1>2, <1>4, <3>1, SizeConstants
         DEF Stalled, MidFrame, ParserShape, HeaderSize
    <3>2. CASE rx_state = "WAIT_PAYLOAD"
      BY <1>1, <1>2, <3>2, SizeConstants
         DEF ParserShape, ParserType, HeaderSize
    <3> QED BY <1>1, <1>4, <3>1, <3>2 DEF Stalled, MidFrame, ParserType
  <2>2. BufNow = <<>> /\ Len(<<>>) = 0
    BY <1>4 DEF BufNow
  <2>3. /\ StatsNow.frames_received = stats.frames_received
        /\ StatsNow.framing_errors = stats.framing_errors
        /\ StatsNow.idle_timeouts = stats.idle_timeouts + 1
        /\ StatsNow.bytes_dropped = stats.bytes_dropped + Len(rx)
    BY <1>1, <1>4 DEF StatsNow, Stats
  <2>4. stats.bytes_dropped \in Nat
    BY <1>1 DEF Stats
  <2> QED BY <1>1, <1>2, <1>4, <2>1, <2>2, <2>3, <2>4
<1> QED BY <1>3, <1>4

\* A step that reads keeps the total of queued and held bytes.
LEMMA ReadCounts ==
    ASSUME IInv, Read
    PROVE  /\ Len(fifo') \in Nat /\ Len(BufFed) \in Nat /\ Len(fifo) \in Nat
           /\ Len(fifo') + Len(BufFed) = Len(fifo) + Len(BufNow)
<1>1. /\ TypeOK /\ ParserShape /\ StateNow # "FRAME_READY" /\ Received > 0
      /\ fifo' = SubSeq(fifo, Received + 1, Len(fifo))
  BY DEF IInv, Read
<1>2. Len(BufNow) \in Nat
  BY <1>1, NowShape
<1>3. /\ Received \in Nat /\ Len(fifo) \in Nat
      /\ Received <= Len(fifo)
      /\ Len(BufFed) = Len(BufNow) + Received
      /\ Len(fifo') = Len(fifo) - Received
  BY <1>1, ReadShape
<1> QED BY <1>2, <1>3

\* TaskReject is called with exactly the four bytes of a header.
LEMMA RejectCounts ==
    ASSUME IInv, TaskReject
    PROVE  /\ Read /\ Len(BufFed) = HeaderSize /\ Len(rx') = 0
           /\ StatsNow \in Stats /\ stats' \in Stats
           /\ stats'.frames_received = StatsNow.frames_received
           /\ stats'.idle_timeouts = StatsNow.idle_timeouts
           /\ stats'.framing_errors = StatsNow.framing_errors + 1
           /\ stats'.bytes_dropped = StatsNow.bytes_dropped + HeaderSize
<1> USE DEF TaskReject
<1>1. /\ TypeOK /\ ParserShape /\ Read
      /\ StateNow # "FRAME_READY" /\ Received > 0
  BY DEF IInv, Read
<1>2. Len(BufFed) = HeaderSize
  <2>1. /\ Received \in Nat /\ Received <= BytesNeeded
        /\ Len(BufFed) = Len(BufNow) + Received /\ Len(BufNow) \in Nat
    BY <1>1, NowShape, ReadShape
  <2>2. BytesNeeded = HeaderSize - Len(BufNow) /\ Len(BufFed) >= HeaderSize
    BY DEF HeaderComplete, BytesNeeded
  <2> QED BY <2>1, <2>2 DEF HeaderSize
<1>3. StatsNow \in Stats
  BY <1>1, NowShape
<1>4. /\ StatsNow.framing_errors + 1 \in Nat
      /\ StatsNow.bytes_dropped + HeaderSize \in Nat
  BY <1>3 DEF Stats, HeaderSize
<1> QED BY <1>1, <1>2, <1>3, <1>4 DEF Stats

\* The quantities of the accounting, kept folded: the provers need only that
\* they are numbers.
Queued == Len(fifo)
Held == Len(rx)
Frames == stats.frames_received
Dropped == stats.bytes_dropped

LEMMA BalanceDef ==
    /\ ByteConservation <=>
           arrived = (Queued + (Held + Dropped)) + (HeaderSize * Frames + taken)
    /\ ByteConservation' <=>
           arrived' = (Queued' + (Held' + Dropped'))
                          + (HeaderSize * Frames' + taken')
BY DEF ByteConservation, Queued, Held, Frames, Dropped

LEMMA BalanceType ==
    ASSUME IInv
    PROVE  /\ Queued \in Nat /\ Held \in Nat /\ Frames \in Nat /\ Dropped \in Nat
           /\ arrived \in Nat /\ taken \in Nat /\ rx_expected \in Nat
<1>1. ParserType /\ CountType
  BY TypeParts DEF IInv
<1>2. rx_expected \in Nat
  BY <1>1, SizeConstants DEF ParserType
<1> QED BY <1>1, <1>2, LenProperties
        DEF ParserType, CountType, Stats, Queued, Held, Frames, Dropped

\* The bytes the parser holds after a call are those it held and those it read,
\* less those it dropped.
LEMMA BalanceRead ==
    ASSUME IInv, Read, stats' \in Stats,
           stats'.frames_received = StatsNow.frames_received,
           \/ rx' = BufFed /\ stats'.bytes_dropped = StatsNow.bytes_dropped
           \/ /\ Len(rx') = 0 /\ Len(BufFed) = HeaderSize
              /\ stats'.bytes_dropped = StatsNow.bytes_dropped + HeaderSize
    PROVE  /\ Queued' \in Nat /\ Held' \in Nat /\ Dropped' \in Nat
           /\ Queued' + (Held' + Dropped') = Queued + (Held + Dropped)
           /\ Frames' = Frames /\ arrived' = arrived /\ taken' = taken
<1> DEFINE fed == Len(BufFed)  buf == Len(BufNow)
           dropped == StatsNow.bytes_dropped
<1>1. /\ Queued' \in Nat /\ fed \in Nat /\ Queued \in Nat /\ buf \in Nat
      /\ Queued' + fed = Queued + buf
  BY ReadCounts, NowCounts DEF Queued
<1>2. /\ dropped + buf = Dropped + Held /\ dropped \in Nat
      /\ Frames' = Frames
  BY NowCounts DEF Dropped, Held, Frames, Stats
<1>3. \/ Held' = fed /\ Dropped' = dropped
      \/ Held' = 0 /\ Dropped' = dropped + fed
  BY DEF Held, Dropped
<1>4. arrived' = arrived /\ taken' = taken
  BY DEF Read
<1>5. Held \in Nat /\ Dropped \in Nat
  BY BalanceType
<1> HIDE DEF fed, buf, dropped
<1>6. Held' + Dropped' = dropped + fed /\ Held' \in Nat /\ Dropped' \in Nat
  BY <1>1, <1>2, <1>3 DEF HeaderSize
<1>7. PICK q \in Nat, q1 \in Nat, f \in Nat, b \in Nat, d \in Nat :
          q = Queued /\ q1 = Queued' /\ f = fed /\ b = buf /\ d = dropped
  BY <1>1, <1>2
<1>8. q1 + f = q + b
  BY <1>1, <1>7
<1>9. q1 + (d + f) = q + (d + b)
  BY <1>8
<1>10. Queued' + (Held' + Dropped') = Queued + (Held + Dropped)
  <2>1. Held + Dropped = d + b
    BY <1>2, <1>5, <1>7
  <2> QED BY <1>6, <1>7, <1>9, <2>1
<1> QED BY <1>1, <1>2, <1>4, <1>6, <1>10

LEMMA ConservationStep ==
    ASSUME IInv, ByteConservation, [Next]_vars
    PROVE  ByteConservation'
<1>1. /\ Queued \in Nat /\ Held \in Nat /\ Frames \in Nat /\ Dropped \in Nat
      /\ arrived \in Nat /\ taken \in Nat /\ rx_expected \in Nat
  BY BalanceType
<1>2. ASSUME Queued' = Queued, Held' = Held, Frames' = Frames,
             Dropped' = Dropped, arrived' = arrived, taken' = taken
      PROVE  ByteConservation'
  BY <1>1, <1>2, BalanceDef
<1>3. ASSUME NEW b \in Byte, Arrive(b) PROVE ByteConservation'
  <2>1. Queued' = Queued + 1
    BY <1>3, TypeParts, AppendProperties DEF Arrive, IInv, ParserType, Queued
  <2>2. /\ arrived' = arrived + 1 /\ taken' = taken
        /\ Held' = Held /\ Frames' = Frames /\ Dropped' = Dropped
    BY <1>3 DEF Arrive, parserVars, Held, Frames, Dropped
  <2> QED BY <1>1, <2>1, <2>2, BalanceDef DEF HeaderSize
<1>4. CASE Tick
  BY <1>2, <1>4 DEF Tick, parserVars, Queued, Held, Frames, Dropped
<1>5. CASE TaskHold
  BY <1>2, <1>5 DEF TaskHold, parserVars, Queued, Held, Frames, Dropped
<1>6. CASE TaskEmpty
  <2>1. /\ Queued' = Queued /\ arrived' = arrived /\ taken' = taken
        /\ Held' \in Nat /\ Dropped' \in Nat /\ Frames' = Frames
        /\ Held' + Dropped' = Held + Dropped
    BY <1>6, NowCounts DEF TaskEmpty, Queued, Held, Frames, Dropped, Stats
  <2> QED BY <1>1, <2>1, BalanceDef DEF HeaderSize
<1>7. ASSUME Queued' \in Nat, Held' \in Nat, Dropped' \in Nat,
             Queued' + (Held' + Dropped') = Queued + (Held + Dropped),
             Frames' = Frames, arrived' = arrived, taken' = taken
      PROVE  ByteConservation'
  BY <1>1, <1>7, BalanceDef DEF HeaderSize
<1>8. CASE TaskPartial
  <2>1. Read /\ rx' = BufFed /\ stats' = StatsNow
    BY <1>8 DEF TaskPartial
  <2> QED BY <1>7, <2>1, BalanceRead, NowCounts
<1>9. CASE TaskReject
  BY <1>7, <1>9, BalanceRead, RejectCounts
<1>10. CASE TaskAccept
  <2>1. Read /\ rx' = BufFed /\ StatsNow \in Stats
    BY <1>10, NowCounts DEF TaskAccept
  <2>2. /\ stats' \in Stats
        /\ stats'.bytes_dropped = StatsNow.bytes_dropped
        /\ stats'.frames_received = StatsNow.frames_received
    BY <1>10, <2>1 DEF TaskAccept, Stats
  <2> QED BY <1>7, <2>1, <2>2, BalanceRead
<1>11. CASE TaskPayload
  <2>1. Read /\ rx' = BufFed /\ stats' = StatsNow
    BY <1>11 DEF TaskPayload
  <2> QED BY <1>7, <2>1, BalanceRead, NowCounts
<1>12. CASE GetPacket
  <2>1. Held = HeaderSize + rx_expected /\ Held' = 0
    BY <1>12 DEF GetPacket, IInv, ParserShape, Held
  <2>2. /\ Frames' = Frames + 1 /\ Dropped' = Dropped
    <3>1. stats \in Stats
      BY NowCounts
    <3> QED BY <1>12, <3>1 DEF GetPacket, Stats, Frames, Dropped
  <2>3. /\ taken' = taken + rx_expected /\ Queued' = Queued
        /\ arrived' = arrived
    BY <1>12 DEF GetPacket, Queued
  <2> QED BY <1>1, <2>1, <2>2, <2>3, BalanceDef DEF HeaderSize
<1>13. CASE UNCHANGED vars
  BY <1>2, <1>13 DEF vars, Queued, Held, Frames, Dropped
<1> QED BY <1>3, <1>4, <1>5, <1>6, <1>8, <1>9, <1>10, <1>11, <1>12, <1>13
        DEF Next, SxiTask

\* No byte is lost or counted twice between the FIFO and the consumer.
THEOREM ByteConservationCorrect == Spec => []ByteConservation
<1>1. Init => ByteConservation
  <2>1. Init => Len(fifo) = 0 /\ Len(rx) = 0
    BY DEF Init
  <2> QED BY <2>1 DEF Init, ByteConservation, ZeroStats, HeaderSize
<1>2. IInv /\ ByteConservation /\ [Next]_vars => ByteConservation'
  BY ConservationStep
<1> QED BY <1>1, <1>2, Invariance, PTL DEF Spec

-----------------------------------------------------------------------------
\* What the error counters say about the dropped bytes.

\* d bytes are explained by e rejected headers and t timeouts.
Explained(d, e, t) ==
    /\ d >= HeaderSize * e + t
    /\ d <= HeaderSize * e + (HeaderSize + MaxCto - 1) * t

LEMMA ExplainTimeout ==
    ASSUME NEW d \in Nat, NEW e \in Nat, NEW t \in Nat, NEW n \in Nat,
           n >= 1, n <= HeaderSize + MaxCto - 1, Explained(d, e, t)
    PROVE  Explained(d + n, e, t + 1)
<1> DEFINE k == HeaderSize + MaxCto - 1
<1>1. k \in Nat
  BY SizeConstants DEF HeaderSize
<1>2. n <= k /\ d >= HeaderSize * e + t /\ d <= HeaderSize * e + k * t
  BY DEF Explained
<1> HIDE DEF k
<1>3. k * (t + 1) = k * t + k /\ k * t \in Nat
  BY <1>1
<1>4. d + n >= HeaderSize * e + (t + 1)
  BY <1>2 DEF HeaderSize
<1>5. d + n <= HeaderSize * e + k * (t + 1)
  BY <1>1, <1>2, <1>3 DEF HeaderSize
<1> QED BY <1>4, <1>5 DEF Explained, k

LEMMA ExplainReject ==
    ASSUME NEW d \in Nat, NEW e \in Nat, NEW t \in Nat, Explained(d, e, t)
    PROVE  Explained(d + HeaderSize, e + 1, t)
<1> DEFINE kt == (HeaderSize + MaxCto - 1) * t
<1>1. kt \in Int
  BY SizeConstants DEF HeaderSize
<1>2. d >= 4 * e + t /\ d <= 4 * e + kt
  BY DEF Explained, HeaderSize
<1> HIDE DEF kt
<1>3. d + 4 >= 4 * (e + 1) + t /\ d + 4 <= 4 * (e + 1) + kt
  BY <1>1, <1>2
<1> QED BY <1>3 DEF Explained, HeaderSize, kt

\* The explanation survives check_idle_timeout.
LEMMA ExplainedNow ==
    ASSUME IInv, DropsAccounted
    PROVE  Explained(StatsNow.bytes_dropped, StatsNow.framing_errors,
                     StatsNow.idle_timeouts)
<1>1. Explained(stats.bytes_dropped, stats.framing_errors, stats.idle_timeouts)
  BY DEF DropsAccounted, Explained
<1>2. CASE ~Stalled
  BY <1>1, <1>2, NowCounts
<1>3. CASE Stalled
  <2>1. /\ stats.bytes_dropped \in Nat /\ stats.framing_errors \in Nat
        /\ stats.idle_timeouts \in Nat /\ Len(rx) \in Nat
        /\ Len(rx) >= 1 /\ Len(rx) <= HeaderSize + MaxCto - 1
    BY <1>3, NowCounts DEF Stats
  <2>2. Explained(stats.bytes_dropped + Len(rx), stats.framing_errors,
                  stats.idle_timeouts + 1)
    BY <1>1, <2>1, ExplainTimeout
  <2>3. /\ StatsNow.bytes_dropped = stats.bytes_dropped + Len(rx)
        /\ StatsNow.framing_errors = stats.framing_errors
        /\ StatsNow.idle_timeouts = stats.idle_timeouts + 1
    <3>1. stats \in Stats
      BY NowCounts
    <3> QED BY <1>3, <3>1 DEF StatsNow, Stats
  <2> QED BY <2>2, <2>3
<1> QED BY <1>2, <1>3

LEMMA DropsStep ==
    ASSUME IInv, DropsAccounted, [Next]_vars
    PROVE  DropsAccounted'
<1>1. ASSUME Explained(stats'.bytes_dropped, stats'.framing_errors,
                       stats'.idle_timeouts)
      PROVE  DropsAccounted'
  BY <1>1 DEF DropsAccounted, Explained
<1>2. ASSUME stats'.bytes_dropped = stats.bytes_dropped,
             stats'.framing_errors = stats.framing_errors,
             stats'.idle_timeouts = stats.idle_timeouts
      PROVE  DropsAccounted'
  BY <1>2 DEF DropsAccounted
<1>3. ASSUME stats'.bytes_dropped = StatsNow.bytes_dropped,
             stats'.framing_errors = StatsNow.framing_errors,
             stats'.idle_timeouts = StatsNow.idle_timeouts
      PROVE  DropsAccounted'
  BY <1>1, <1>3, ExplainedNow
<1>4. ASSUME NEW b \in Byte, Arrive(b) PROVE DropsAccounted'
  BY <1>2, <1>4 DEF Arrive
<1>5. CASE Tick
  BY <1>2, <1>5 DEF Tick
<1>6. CASE TaskHold
  BY <1>2, <1>6 DEF TaskHold
<1>7. CASE TaskEmpty
  BY <1>3, <1>7 DEF TaskEmpty
<1>8. CASE TaskPartial
  BY <1>3, <1>8 DEF TaskPartial
<1>9. CASE TaskReject
  <2>1. /\ StatsNow.bytes_dropped \in Nat /\ StatsNow.framing_errors \in Nat
        /\ StatsNow.idle_timeouts \in Nat
    BY NowCounts DEF Stats
  <2>2. Explained(StatsNow.bytes_dropped + HeaderSize,
                  StatsNow.framing_errors + 1, StatsNow.idle_timeouts)
    BY <2>1, ExplainedNow, ExplainReject
  <2>3. /\ stats'.bytes_dropped = StatsNow.bytes_dropped + HeaderSize
        /\ stats'.framing_errors = StatsNow.framing_errors + 1
        /\ stats'.idle_timeouts = StatsNow.idle_timeouts
    BY <1>9, RejectCounts
  <2> QED BY <1>1, <2>2, <2>3
<1>10. CASE TaskAccept
  <2>1. StatsNow \in Stats
    BY NowCounts
  <2> QED BY <1>3, <1>10, <2>1 DEF TaskAccept, Stats
<1>11. CASE TaskPayload
  BY <1>3, <1>11 DEF TaskPayload
<1>12. CASE GetPacket
  <2>1. stats \in Stats
    BY NowCounts
  <2> QED BY <1>2, <1>12, <2>1 DEF GetPacket, Stats
<1>13. CASE UNCHANGED vars
  BY <1>2, <1>13 DEF vars
<1> QED BY <1>4, <1>5, <1>6, <1>7, <1>8, <1>9, <1>10, <1>11, <1>12, <1>13
        DEF Next, SxiTask

\* bytes_dropped is explained by framing_errors and idle_timeouts.
THEOREM DropsAccountedCorrect == Spec => []DropsAccounted
<1>1. Init => DropsAccounted
  <2> SUFFICES ASSUME Init PROVE DropsAccounted
    OBVIOUS
  <2>1. stats.bytes_dropped = 0 /\ stats.framing_errors = 0
        /\ stats.idle_timeouts = 0
    BY DEF Init, ZeroStats
  <2>2. (HeaderSize + MaxCto - 1) * 0 = 0
    BY SizeConstants DEF HeaderSize
  <2> QED BY <2>1, <2>2 DEF DropsAccounted, HeaderSize
<1>2. IInv /\ DropsAccounted /\ [Next]_vars => DropsAccounted'
  BY DropsStep
<1> QED BY <1>1, <1>2, Invariance, PTL DEF Spec

-----------------------------------------------------------------------------
\* Back-pressure.

\* A complete frame stays as it is until the consumer takes it.
THEOREM ReadyFrameSurvivesCorrect == Spec => ReadyFrameSurvives
<1> DEFINE Kept ==
      rx_state = "FRAME_READY" =>
          \/ /\ UNCHANGED <<rx, rx_state, rx_expected, rx_last_ctr>>
             /\ stats'.bytes_dropped = stats.bytes_dropped
          \/ /\ stats'.frames_received = stats.frames_received + 1
             /\ taken' = taken + rx_expected
             /\ rx' = <<>>
<1>1. ASSUME IInv, [Next]_vars PROVE Kept
  <2> SUFFICES ASSUME rx_state = "FRAME_READY"
               PROVE  \/ /\ UNCHANGED <<rx, rx_state, rx_expected, rx_last_ctr>>
                         /\ stats'.bytes_dropped = stats.bytes_dropped
                      \/ /\ stats'.frames_received = stats.frames_received + 1
                         /\ taken' = taken + rx_expected
                         /\ rx' = <<>>
    OBVIOUS
  <2>1. StateNow = "FRAME_READY"
    BY DEF StateNow, Stalled, MidFrame
  <2>2. CASE SxiTask
    <3>1. TaskHold
      BY <2>1, <2>2 DEF SxiTask, TaskEmpty, TaskPartial, TaskReject, TaskAccept,
         TaskPayload, Read
    <3> QED BY <3>1 DEF TaskHold, parserVars, ctrVars
  <2>3. CASE GetPacket
    <3>1. stats \in Stats
      BY <1>1, NowCounts
    <3> QED BY <2>3, <3>1 DEF GetPacket, Stats
  <2>4. ASSUME NEW b \in Byte, Arrive(b)
        PROVE  /\ UNCHANGED <<rx, rx_state, rx_expected, rx_last_ctr>>
               /\ stats'.bytes_dropped = stats.bytes_dropped
    BY <2>4 DEF Arrive, parserVars, ctrVars
  <2>5. CASE Tick
    BY <2>5 DEF Tick, parserVars, ctrVars
  <2>6. CASE UNCHANGED vars
    BY <2>6 DEF vars
  <2> QED BY <1>1, <2>2, <2>3, <2>4, <2>5, <2>6 DEF Next
<1>2. IInv /\ [Next]_vars => [Kept]_vars
  BY <1>1
<1> QED BY <1>2, Invariance, PTL DEF Spec, ReadyFrameSurvives

=============================================================================
