------------------------------ MODULE SxiTransmit ------------------------------
(***************************************************************************)
(* The transmit half of the SxI transport: xcp_transport_sxi_send_packet   *)
(* (firmware/src/xcp_transport_sxi.c) and the loop of                      *)
(* xcp_transport_usb_send_blocking (firmware/src/xcp_transport_usb.c) over *)
(* the CDC transmit FIFO.  The host opens and closes the port and reads as *)
(* it likes, also in the middle of a frame; the firmware learns of it only *)
(* when tinyusb is serviced.                                               *)
(*                                                                         *)
(* A byte of a frame is a token: the CTR and the length of its frame and   *)
(* its position in it.  Time is counted in ticks of a clock that wraps at  *)
(* TimeMod (2^32 us).                                                      *)
(***************************************************************************)
EXTENDS Integers, Sequences

CONSTANTS
    CtrMod,    \* CTRs are 0 .. CtrMod - 1 (16 bits)
    Lens,      \* lengths of the responses the protocol layer sends
    MaxDto,    \* XCP_MAX_DTO
    FifoCap,   \* capacity of the CDC transmit FIFO
    TimeMod,   \* the clock wraps here
    Timeout,   \* timeout_us of send_blocking, in ticks
    IterGap,   \* longest pass of its loop, in ticks
    MaxSends   \* bound: calls of send_packet in one behaviour

\* The deadline is compared as a signed 32-bit difference.
ASSUME TransmitAssumption ==
    /\ CtrMod \in Nat /\ CtrMod > 0
    /\ Lens \subseteq Nat
    /\ MaxDto \in Nat
    /\ FifoCap \in Nat /\ FifoCap > 0
    /\ Timeout \in Nat /\ IterGap \in Nat /\ IterGap > 0
    /\ TimeMod \in Nat /\ 2 * Timeout <= TimeMod /\ 2 * IterGap < TimeMod
    /\ Timeout + IterGap < TimeMod
    /\ MaxSends \in Nat

VARIABLES
    tx_ctr,       \* CTR of the next frame
    frames_sent,  \* stats.frames_sent
    sending,      \* is send_blocking at work?
    length,       \* bytes of the frame being sent
    total_sent,   \* bytes of it accepted by the FIFO
    deadline,     \* clock value at which send_blocking gives up
    fifo,         \* tokens in the CDC transmit FIFO
    dtr,          \* tud_cdc_n_connected
    now,          \* the clock
    open,         \* does the host have the port open?
    received,     \* tokens the host has read since it opened the port
    calls,        \* history: calls of send_packet
    waited,       \* history: true ticks since send_blocking was called
    unpolled,     \* history: ticks since the last pass of its loop
    clean,        \* history: no remains of a cut frame since the port was opened
    lost,         \* history: a frame was cut since the last one sent whole
    lastCtr       \* history: CTR of the last frame sent whole

frameVars == <<length, deadline>>
hostVars == <<open, received>>
vars == <<tx_ctr, frames_sent, sending, length, total_sent, deadline, fifo, dtr,
          now, open, received, calls, waited, unpolled, clean, lost, lastCtr>>

HeaderSize == 4
Tokens == [ctr : 0 .. CtrMod - 1, len : Nat, pos : Nat]

\* Slip: the next write starts at the beginning of the data again.
PieceFromStart(n) == [i \in 1 .. n |-> [ctr |-> tx_ctr, len |-> length, pos |-> i]]

\* The next n bytes of the frame: &data[total_sent].
Piece(n) == [i \in 1 .. n |-> [ctr |-> tx_ctr, len |-> length, pos |-> total_sent + i]]

\* Slip: the counter is wider than its field.
NextCtrWide == tx_ctr + 1

NextCtr == IF tx_ctr + 1 = CtrMod THEN 0 ELSE tx_ctr + 1

Elapsed(later, earlier) ==
    IF later >= earlier THEN later - earlier ELSE later - earlier + TimeMod

\* Slip: the clock values are compared directly.
ExpiredNoWrap == now > deadline

\* (int32_t)(time_us_32() - deadline) > 0
Expired ==
    Elapsed(now, deadline) > 0 /\ 2 * Elapsed(now, deadline) < TimeMod

Init ==
    /\ tx_ctr = 0
    /\ frames_sent = 0
    /\ sending = FALSE
    /\ length = 0
    /\ total_sent = 0
    /\ deadline = 0
    /\ fifo = <<>>
    /\ dtr = FALSE
    /\ now \in 0 .. TimeMod - 1
    /\ open = FALSE
    /\ received = <<>>
    /\ calls = 0
    /\ waited = 0
    /\ unpolled = 0
    /\ clean = TRUE
    /\ lost = FALSE
    /\ lastCtr = CtrMod - 1

-----------------------------------------------------------------------------
\* The host, tinyusb and the clock.

\* Opening starts a new stream; what is left in the FIFO comes first.
HostOpen ==
    /\ ~open
    /\ open' = TRUE
    /\ received' = <<>>
    /\ clean' = (fifo = <<>> /\ (sending => total_sent = 0))
    /\ UNCHANGED <<tx_ctr, frames_sent, sending, frameVars, total_sent, fifo, dtr,
                   now, calls, waited, unpolled, lost, lastCtr>>

\* A closed port keeps the FIFO; a pulled plug empties it.
HostClose ==
    /\ open
    /\ open' = FALSE
    /\ fifo' \in {fifo, <<>>}
    /\ clean' = (clean /\ fifo' = fifo)
    /\ UNCHANGED <<tx_ctr, frames_sent, sending, frameVars, total_sent, dtr, now,
                   received, calls, waited, unpolled, lost, lastCtr>>

\* tud_task: an open host reads some of the queue; its control requests may
\* have arrived.
Service(queue) ==
    /\ \E n \in 0 .. (IF open THEN Len(queue) ELSE 0) :
           /\ fifo' = SubSeq(queue, n + 1, Len(queue))
           /\ received' = received \o SubSeq(queue, 1, n)
    /\ dtr' \in {dtr, open}

\* Called by the main loop, and by the timer of stdio_usb at any moment.
UsbTask ==
    /\ Service(fifo)
    /\ UNCHANGED <<tx_ctr, frames_sent, sending, frameVars, total_sent, now, open,
                   calls, waited, unpolled, clean, lost, lastCtr>>

Tick ==
    /\ sending => unpolled < IterGap
    /\ now' = IF now + 1 = TimeMod THEN 0 ELSE now + 1
    /\ waited' = IF sending THEN waited + 1 ELSE waited
    /\ unpolled' = IF sending THEN unpolled + 1 ELSE unpolled
    /\ UNCHANGED <<tx_ctr, frames_sent, sending, frameVars, total_sent, fifo, dtr,
                   hostVars, calls, clean, lost, lastCtr>>

-----------------------------------------------------------------------------
\* send_packet and send_blocking.

SendRefused ==
    /\ ~sending
    /\ calls < MaxSends
    /\ \E len \in Lens : len > MaxDto \/ ~dtr
    /\ calls' = calls + 1
    /\ UNCHANGED <<tx_ctr, frames_sent, sending, frameVars, total_sent, fifo, dtr,
                   now, hostVars, waited, unpolled, clean, lost, lastCtr>>

SendStart ==
    /\ ~sending
    /\ calls < MaxSends
    /\ dtr
    /\ \E len \in Lens : len <= MaxDto /\ length' = HeaderSize + len
    /\ sending' = TRUE
    /\ total_sent' = 0
    /\ deadline' = IF now + Timeout >= TimeMod THEN now + Timeout - TimeMod
                                                ELSE now + Timeout
    /\ calls' = calls + 1
    /\ waited' = 0
    /\ unpolled' = 0
    /\ UNCHANGED <<tx_ctr, frames_sent, fifo, dtr, now, hostVars, clean, lost,
                   lastCtr>>

Return ==
    /\ sending' = FALSE
    /\ total_sent' = 0
    /\ waited' = 0
    /\ unpolled' = 0
    /\ UNCHANGED <<frameVars, fifo, dtr, now, hostVars, calls>>

\* Slip: only a disconnect ends the wait.
SendGiveUpNoTimeout ==
    /\ sending
    /\ total_sent < length
    /\ ~dtr
    /\ Return
    /\ clean' = (clean /\ total_sent = 0)
    /\ lost' = TRUE
    /\ UNCHANGED <<tx_ctr, frames_sent, lastCtr>>

\* Disconnected or too late: the rest of the frame is never sent.
SendGiveUp ==
    /\ sending
    /\ total_sent < length
    /\ ~dtr \/ Expired
    /\ Return
    /\ clean' = (clean /\ total_sent = 0)
    /\ lost' = TRUE
    /\ UNCHANGED <<tx_ctr, frames_sent, lastCtr>>

\* One pass: what fits is written, then tinyusb is serviced.
SendPiece ==
    /\ sending
    /\ total_sent < length
    /\ dtr
    /\ ~Expired
    /\ LET space == FifoCap - Len(fifo)
           remaining == length - total_sent
           n == IF remaining < space THEN remaining ELSE space
       IN  /\ Service(fifo \o Piece(n))
           /\ total_sent' = total_sent + n
    /\ unpolled' = 0
    /\ UNCHANGED <<tx_ctr, frames_sent, sending, frameVars, now, open, calls,
                   waited, clean, lost, lastCtr>>

SendDone ==
    /\ sending
    /\ total_sent = length
    /\ Return
    /\ tx_ctr' = NextCtr
    /\ frames_sent' = frames_sent + 1
    /\ lastCtr' = tx_ctr
    /\ lost' = FALSE
    /\ UNCHANGED clean

SendStep == SendGiveUp \/ SendPiece \/ SendDone

Next ==
    \/ HostOpen
    \/ HostClose
    \/ UsbTask
    \/ Tick
    \/ SendRefused
    \/ SendStart
    \/ SendStep

Spec == Init /\ [][Next]_vars

\* send_blocking keeps running and time passes; nothing is asked of the host.
FairSpec == Spec /\ WF_vars(SendStep) /\ WF_vars(Tick)

-----------------------------------------------------------------------------
\* Properties.

\* Every variable has its type.
TypeOK ==
    /\ tx_ctr \in 0 .. CtrMod - 1
    /\ frames_sent \in Nat
    /\ sending \in BOOLEAN
    /\ length \in Nat
    /\ total_sent \in 0 .. length
    /\ deadline \in 0 .. TimeMod - 1
    /\ fifo \in Seq(Tokens) /\ Len(fifo) <= FifoCap
    /\ dtr \in BOOLEAN
    /\ now \in 0 .. TimeMod - 1
    /\ open \in BOOLEAN
    /\ received \in Seq(Tokens)
    /\ calls \in Nat
    /\ waited \in Nat
    /\ unpolled \in 0 .. IterGap
    /\ clean \in BOOLEAN
    /\ lost \in BOOLEAN
    /\ lastCtr \in 0 .. CtrMod - 1

\* In a stream without remains of a cut frame the host reads whole frames with
\* consecutive CTRs, ending with the last one sent; only the frame being sent
\* may be incomplete.
Follows(a, b) ==
    IF a.pos < a.len THEN b = [a EXCEPT !.pos = @ + 1]
                     ELSE b.pos = 1 /\ b.ctr = (a.ctr + 1) % CtrMod
StreamWhole ==
    LET stream == received \o fifo
        last == stream[Len(stream)]
    IN  clean /\ stream # <<>> =>
            /\ stream[1].pos = 1
            /\ \A i \in 1 .. Len(stream) - 1 : Follows(stream[i], stream[i + 1])
            /\ IF total_sent > 0
               THEN last = [ctr |-> tx_ctr, len |-> length, pos |-> total_sent]
               ELSE last.pos = last.len /\ last.ctr = lastCtr

\* While a frame is being sent the signed comparison with the deadline says
\* exactly whether more than Timeout has passed, wherever the clock wraps; and
\* send_blocking holds the main loop no longer than Timeout and one pass.
DeadlineExact ==
    sending => /\ Expired <=> waited > Timeout
               /\ waited <= Timeout + IterGap

\* send_blocking returns, whatever the host does.
SendEnds == sending ~> ~sending

\* xcp_transport_sxi.c, on a partial write: "the master would have detected the
\* gap anyway".  A frame that follows a cut one does not have the next CTR.
LostFrameLeavesGap ==
    [][frames_sent' # frames_sent /\ lost => tx_ctr # (lastCtr + 1) % CtrMod]_vars

=============================================================================
