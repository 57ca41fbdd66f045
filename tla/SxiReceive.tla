------------------------------ MODULE SxiReceive ------------------------------
(***************************************************************************)
(* The receive half of the SxI transport (firmware/src/xcp_transport_sxi.c)*)
(* on top of the USB CDC byte stream.  The client here is the most liberal *)
(* one: any byte may reach the CDC FIFO at any time, the task is polled at  *)
(* any moment the loop period allows, and the consumer fetches a complete  *)
(* frame whenever it likes.  RxLoop restricts this to a master and to the  *)
(* order of the main loop.                                                 *)
(*                                                                         *)
(* A byte is a digit 0..Radix-1 (256 in the program) and the 16-bit fields *)
(* LEN and CTR are pairs of digits, low digit first.  rx is the prefix     *)
(* rx_buffer[0..rx_index-1]; rx_index is Len(rx).  Time is counted in      *)
(* ticks of a clock that wraps at TimeMod (time_us_32 wraps at 2^32).      *)
(***************************************************************************)
EXTENDS Integers, Sequences

CONSTANTS
    Radix,        \* values of one byte
    MaxCto,       \* XCP_MAX_CTO: largest payload the parser accepts
    BufferLen,    \* size of the consumer's buffer (the protocol's s_cmd_buf)
    FifoCap,      \* capacity of the CDC receive FIFO
    TimeMod,      \* the clock wraps here
    IdleTimeout,  \* XCP_SXI_IDLE_TIMEOUT_US, in ticks
    PollGap,      \* longest time between two calls of the task, in ticks
    MaxBytes      \* bound: bytes that arrive in one behaviour

\* The parser has to be polled before the clock can wrap around a silence.
ASSUME ReceiveAssumption ==
    /\ Radix \in Nat /\ Radix > 1
    /\ MaxCto \in Nat /\ MaxCto > 0
    /\ BufferLen \in Nat /\ BufferLen >= MaxCto
    /\ FifoCap \in Nat /\ FifoCap > 0
    /\ IdleTimeout \in Nat
    /\ PollGap \in Nat /\ PollGap > 0
    /\ TimeMod \in Nat /\ IdleTimeout + PollGap < TimeMod
    /\ MaxBytes \in Nat

Byte == 0 .. Radix - 1
CtrMod == Radix * Radix
Ctr == 0 .. CtrMod - 1
HeaderSize == 4

\* read_u16_le on two consecutive bytes.
U16(lo, hi) == lo + Radix * hi

\* (uint32_t)(later - earlier): the distance around the clock.
Elapsed(later, earlier) ==
    IF later >= earlier THEN later - earlier ELSE later - earlier + TimeMod

VARIABLES
    fifo,                \* bytes in the CDC receive FIFO
    rx,                  \* bytes of the frame being received
    rx_state,            \* parser state
    rx_expected,         \* rx_expected_payload_len
    rx_last_ctr,         \* CTR of the last accepted header
    rx_ctr_initialised,  \* has a header been accepted yet?
    rx_last_byte_time,   \* clock value of the last successful read
    now,                 \* the clock
    stats,               \* diagnostic counters of the receive path
    unpolled,            \* ticks since the task last ran
    arrived,             \* history: bytes that entered the FIFO
    taken,               \* history: payload bytes handed to the consumer
    silence              \* history: true ticks since the last read

parserVars == <<rx, rx_state, rx_expected>>
ctrVars == <<rx_last_ctr, rx_ctr_initialised>>
clockVars == <<now, unpolled>>
vars == <<fifo, rx, rx_state, rx_expected, rx_last_ctr, rx_ctr_initialised,
          rx_last_byte_time, now, stats, unpolled, arrived, taken, silence>>

ZeroStats == [frames_received |-> 0, framing_errors |-> 0, ctr_errors |-> 0,
              idle_timeouts |-> 0, bytes_dropped |-> 0]

Init ==
    /\ fifo = <<>>
    /\ rx = <<>>
    /\ rx_state = "WAIT_HEADER"
    /\ rx_expected = 0
    /\ rx_last_ctr = 0
    /\ rx_ctr_initialised = FALSE
    /\ rx_last_byte_time = 0
    /\ now \in 0 .. TimeMod - 1
    /\ stats = ZeroStats
    /\ unpolled = 0
    /\ arrived = 0
    /\ taken = 0
    /\ silence = 0

-----------------------------------------------------------------------------
\* The world around the parser.

\* The host's next byte reaches the FIFO; the FIFO back-pressures the bus.
Arrive(b) ==
    /\ arrived < MaxBytes
    /\ Len(fifo) < FifoCap
    /\ fifo' = Append(fifo, b)
    /\ arrived' = arrived + 1
    /\ UNCHANGED <<parserVars, ctrVars, rx_last_byte_time, clockVars, stats,
                   taken, silence>>

\* A tick passes; the main loop comes round at least every PollGap ticks.
Tick ==
    /\ unpolled < PollGap
    /\ unpolled' = unpolled + 1
    /\ now' = IF now + 1 = TimeMod THEN 0 ELSE now + 1
    /\ silence' = IF silence < TimeMod THEN silence + 1 ELSE silence
    /\ UNCHANGED <<fifo, parserVars, ctrVars, rx_last_byte_time, stats,
                   arrived, taken>>

-----------------------------------------------------------------------------
\* xcp_transport_sxi_task.

\* Slips: the exemption of a ready frame forgotten; the payload never timed.
MidFrameIfReady == ~(rx_state = "WAIT_HEADER" /\ rx = <<>>)
MidFrameInHeader == rx_state = "WAIT_HEADER" /\ rx # <<>>

MidFrame == rx_state # "FRAME_READY" /\ ~(rx_state = "WAIT_HEADER" /\ rx = <<>>)

\* check_idle_timeout fires: the clock says the last read is too long ago.
Stalled == MidFrame /\ Elapsed(now, rx_last_byte_time) > IdleTimeout

\* The parser as the rest of the task finds it, after check_idle_timeout.
StateNow == IF Stalled THEN "WAIT_HEADER" ELSE rx_state
BufNow == IF Stalled THEN <<>> ELSE rx
ExpectedNow == IF Stalled THEN 0 ELSE rx_expected

\* Slip: rx_index is added to bytes_dropped after rx_reset.
StatsNowAfterReset ==
    IF Stalled THEN [stats EXCEPT !.idle_timeouts = @ + 1] ELSE stats

StatsNow ==
    IF Stalled
    THEN [stats EXCEPT !.idle_timeouts = @ + 1,
                       !.bytes_dropped = @ + Len(rx)]
    ELSE stats

\* Exactly what the current state still lacks is requested, and
\* tud_cdc_n_read returns what the FIFO has of it.
BytesNeeded ==
    (IF StateNow = "WAIT_HEADER" THEN HeaderSize ELSE HeaderSize + ExpectedNow)
        - Len(BufNow)
Received == IF Len(fifo) < BytesNeeded THEN Len(fifo) ELSE BytesNeeded
BufFed == BufNow \o SubSeq(fifo, 1, Received)

\* A complete frame waits for the consumer: leave the bytes in the FIFO.
TaskHold ==
    /\ StateNow = "FRAME_READY"
    /\ unpolled' = 0
    /\ UNCHANGED <<fifo, parserVars, ctrVars, rx_last_byte_time, now, stats,
                   arrived, taken, silence>>

\* Nothing to read; a stalled frame may just have been abandoned.
TaskEmpty ==
    /\ StateNow # "FRAME_READY"
    /\ Received = 0
    /\ rx' = BufNow
    /\ rx_state' = StateNow
    /\ rx_expected' = ExpectedNow
    /\ stats' = StatsNow
    /\ unpolled' = 0
    /\ UNCHANGED <<fifo, ctrVars, rx_last_byte_time, now, arrived, taken,
                   silence>>

\* Slip: rx_last_byte_time_us is not written.
ReadNoStamp ==
    /\ StateNow # "FRAME_READY"
    /\ Received > 0
    /\ fifo' = SubSeq(fifo, Received + 1, Len(fifo))
    /\ silence' = 0
    /\ unpolled' = 0
    /\ UNCHANGED <<rx_last_byte_time, now, arrived, taken>>

\* What every call that reads something does.
Read ==
    /\ StateNow # "FRAME_READY"
    /\ Received > 0
    /\ fifo' = SubSeq(fifo, Received + 1, Len(fifo))
    /\ rx_last_byte_time' = now
    /\ silence' = 0
    /\ unpolled' = 0
    /\ UNCHANGED <<now, arrived, taken>>

HeaderComplete == StateNow = "WAIT_HEADER" /\ Len(BufFed) >= HeaderSize

\* Slip: the comparison is strict.
PayloadCompleteLate ==
    StateNow = "WAIT_PAYLOAD" /\ Len(BufFed) > HeaderSize + ExpectedNow

PayloadComplete ==
    StateNow = "WAIT_PAYLOAD" /\ Len(BufFed) >= HeaderSize + ExpectedNow

\* The read leaves the header or the payload still incomplete.
TaskPartial ==
    /\ Read
    /\ ~HeaderComplete
    /\ ~PayloadComplete
    /\ rx' = BufFed
    /\ rx_state' = StateNow
    /\ rx_expected' = ExpectedNow
    /\ stats' = StatsNow
    /\ UNCHANGED ctrVars

HeaderLen == U16(BufFed[1], BufFed[2])
HeaderCtr == U16(BufFed[3], BufFed[4])

\* Slip: the rejected bytes are not counted.
TaskRejectUncounted ==
    /\ Read
    /\ HeaderComplete
    /\ HeaderLen > MaxCto
    /\ rx' = <<>>
    /\ rx_state' = "WAIT_HEADER"
    /\ rx_expected' = 0
    /\ stats' = [StatsNow EXCEPT !.framing_errors = @ + 1]
    /\ UNCHANGED ctrVars

\* handle_header_complete, LEN beyond the configured CTO size.
TaskReject ==
    /\ Read
    /\ HeaderComplete
    /\ HeaderLen > MaxCto
    /\ rx' = <<>>
    /\ rx_state' = "WAIT_HEADER"
    /\ rx_expected' = 0
    /\ stats' = [StatsNow EXCEPT !.framing_errors = @ + 1,
                                 !.bytes_dropped = @ + Len(BufFed)]
    /\ UNCHANGED ctrVars

\* Slip: the sum is not cut to 16 bits.
CtrGapNoWrap == rx_ctr_initialised /\ HeaderCtr # rx_last_ctr + 1

CtrGap == rx_ctr_initialised /\ HeaderCtr # (rx_last_ctr + 1) % CtrMod

\* Slip: the limit is off by one.
TaskAcceptOneMore ==
    /\ Read
    /\ HeaderComplete
    /\ HeaderLen <= MaxCto + 1
    /\ rx' = BufFed
    /\ rx_state' = IF HeaderLen = 0 THEN "FRAME_READY" ELSE "WAIT_PAYLOAD"
    /\ rx_expected' = HeaderLen
    /\ rx_last_ctr' = HeaderCtr
    /\ rx_ctr_initialised' = TRUE
    /\ stats' = IF CtrGap THEN [StatsNow EXCEPT !.ctr_errors = @ + 1]
                          ELSE StatsNow

\* handle_header_complete, acceptable LEN: a gap is counted, never refused.
TaskAccept ==
    /\ Read
    /\ HeaderComplete
    /\ HeaderLen <= MaxCto
    /\ rx' = BufFed
    /\ rx_state' = IF HeaderLen = 0 THEN "FRAME_READY" ELSE "WAIT_PAYLOAD"
    /\ rx_expected' = HeaderLen
    /\ rx_last_ctr' = HeaderCtr
    /\ rx_ctr_initialised' = TRUE
    /\ stats' = IF CtrGap THEN [StatsNow EXCEPT !.ctr_errors = @ + 1]
                          ELSE StatsNow

\* The last payload byte arrives.
TaskPayload ==
    /\ Read
    /\ PayloadComplete
    /\ rx' = BufFed
    /\ rx_state' = "FRAME_READY"
    /\ rx_expected' = ExpectedNow
    /\ stats' = StatsNow
    /\ UNCHANGED ctrVars

SxiTask ==
    \/ TaskHold
    \/ TaskEmpty
    \/ TaskPartial
    \/ TaskReject
    \/ TaskAccept
    \/ TaskPayload

-----------------------------------------------------------------------------
\* xcp_transport_sxi_get_packet, called with a buffer of BufferLen bytes.

Payload == SubSeq(rx, HeaderSize + 1, HeaderSize + rx_expected)

GetPacket ==
    /\ rx_state = "FRAME_READY"
    /\ rx_expected <= BufferLen
    /\ taken' = taken + rx_expected
    /\ rx' = <<>>
    /\ rx_state' = "WAIT_HEADER"
    /\ rx_expected' = 0
    /\ stats' = [stats EXCEPT !.frames_received = @ + 1]
    /\ UNCHANGED <<fifo, ctrVars, rx_last_byte_time, clockVars, arrived,
                   silence>>

Next ==
    \/ \E b \in Byte : Arrive(b)
    \/ Tick
    \/ SxiTask
    \/ GetPacket

Spec == Init /\ [][Next]_vars

\* The main loop never stops calling the task and the consumer; time passes.
Fairness == WF_vars(SxiTask) /\ WF_vars(GetPacket) /\ WF_vars(Tick)
FairSpec == Spec /\ Fairness

-----------------------------------------------------------------------------
\* Properties.

\* Every variable has its type.
TypeOK ==
    /\ fifo \in Seq(Byte) /\ Len(fifo) <= FifoCap
    /\ rx \in Seq(Byte)
    /\ rx_state \in {"WAIT_HEADER", "WAIT_PAYLOAD", "FRAME_READY"}
    /\ rx_expected \in 0 .. MaxCto
    /\ rx_last_ctr \in Ctr
    /\ rx_ctr_initialised \in BOOLEAN
    /\ rx_last_byte_time \in 0 .. TimeMod - 1
    /\ now \in 0 .. TimeMod - 1
    /\ stats \in [frames_received : Nat, framing_errors : Nat,
                  ctr_errors : Nat, idle_timeouts : Nat, bytes_dropped : Nat]
    /\ unpolled \in 0 .. PollGap
    /\ arrived \in Nat
    /\ taken \in Nat
    /\ silence \in 0 .. TimeMod

\* The parser state always agrees with the bytes it holds: an incomplete
\* header has no length yet, the expected length and the CTR are those of the
\* header in the buffer, a frame is ready exactly when its last byte is there.
\* Hence no call requests zero bytes while it waits (it would wait for ever)
\* and none writes beyond rx_buffer (XCP_SXI_MAX_FRAME bytes).
ParserShape ==
    /\ rx_state = "WAIT_HEADER" => Len(rx) < HeaderSize /\ rx_expected = 0
    /\ rx_state = "WAIT_PAYLOAD" =>
           Len(rx) >= HeaderSize /\ Len(rx) < HeaderSize + rx_expected
    /\ rx_state = "FRAME_READY" => Len(rx) = HeaderSize + rx_expected
    /\ rx_state # "WAIT_HEADER" =>
           /\ rx_expected = U16(rx[1], rx[2])
           /\ rx_last_ctr = U16(rx[3], rx[4])
           /\ rx_ctr_initialised

\* No byte is lost or counted twice on its way through the parser: what
\* arrived is still queued, or held, or was delivered in a counted frame, or
\* is in bytes_dropped.
ByteConservation ==
    arrived = (Len(fifo) + (Len(rx) + stats.bytes_dropped))
              + (HeaderSize * stats.frames_received + taken)

\* The error counters explain the dropped bytes: a rejected header costs its
\* four bytes, a timeout between one byte and all but the last of a frame.
DropsAccounted ==
    /\ stats.bytes_dropped >= HeaderSize * stats.framing_errors
                                  + stats.idle_timeouts
    /\ stats.bytes_dropped <=
           HeaderSize * stats.framing_errors
               + (HeaderSize + MaxCto - 1) * stats.idle_timeouts

\* The wrapping clock is read correctly: in the middle of a frame the idle
\* test agrees with the true silence, whatever old value rx_last_byte_time
\* had before the frame began and wherever the clock wraps.
TimeoutExact == MidFrame => (Stalled <=> silence > IdleTimeout)

\* A complete frame stays as it is until the consumer takes it: neither the
\* idle timer nor later bytes touch it, however slow the consumer is.
ReadyFrameSurvives ==
    [][rx_state = "FRAME_READY" =>
          \/ /\ UNCHANGED <<rx, rx_state, rx_expected, rx_last_ctr>>
             /\ stats'.bytes_dropped = stats.bytes_dropped
          \/ /\ stats'.frames_received = stats.frames_received + 1
             /\ taken' = taken + rx_expected
             /\ rx' = <<>>]_vars

\* Whatever was sent, garbage or half a frame included, once the bytes stop
\* the parser returns to a frame boundary with an empty FIFO and stays there.
Resynchronises == <>[](fifo = <<>> /\ rx = <<>> /\ rx_state = "WAIT_HEADER")

=============================================================================
