-------------------------------- MODULE RxLoop --------------------------------
(***************************************************************************)
(* The receive path in the main loop (firmware/src/main.c): the loop calls *)
(* the USB task, the SxI task and the protocol task in this order, and a   *)
(* master writes SxI frames to the CDC port.  A write may break off in the *)
(* middle of a frame (the process is killed, the port closed and reopened) *)
(* or carry an impossible LEN; the master then stays silent, as            *)
(* tools/test_sxi_loopback.py does (200 ms against a timeout of 50 ms),    *)
(* for Pause ticks after the last byte has been read.                      *)
(* Every frame begun takes the next CTR.                                   *)
(*                                                                         *)
(* A pass of the loop takes at most LoopGap ticks, except that the answer  *)
(* to a packet may hold it up to PollGap ticks (send_blocking), which is   *)
(* longer than the idle timeout; meanwhile tud_task goes on filling the    *)
(* FIFO.                                                                   *)
(***************************************************************************)
EXTENDS SxiReceive

CONSTANTS
    Payloads,   \* payloads of the frames
    Junk,       \* bytes that follow a header with an impossible LEN
    Breaks,     \* BOOLEAN: do writes break off?
    FirstCtr,   \* CTR of the first frame
    MaxFrames,  \* bound: frames begun in one behaviour
    Pause,      \* silence after a broken frame, in ticks
    LoopGap     \* longest pass of the loop that answers nothing, in ticks

\* A header can announce one byte too many, a pass that answers nothing is not
\* taken for a silence, and the master's pause outlasts the timeout by a pass.
ASSUME LoopAssumption ==
    /\ \A p \in Payloads : p \in Seq(Byte) /\ Len(p) <= MaxCto
    /\ Junk \subseteq Seq(Byte)
    /\ Breaks \in BOOLEAN
    /\ FirstCtr \in Ctr
    /\ MaxFrames \in Nat
    /\ MaxCto + 1 < CtrMod
    /\ LoopGap \in Nat /\ LoopGap > 0 /\ LoopGap <= IdleTimeout
    /\ Pause \in Nat /\ IdleTimeout + LoopGap < Pause

VARIABLES
    pc,         \* the call the loop makes next
    wire,       \* bytes written by the master, not yet in the FIFO
    next_ctr,   \* CTR of the next frame
    last,       \* what became of the last frame: "whole", "broken", "oversized"
    broken,     \* history: frames begun that were not written whole
    sent,       \* history: [ctr, payload] of every frame written whole
    delivered,  \* history: [ctr, payload] of every packet fetched
    quiet       \* ticks since the bytes of a broken frame left wire and FIFO

masterVars == <<next_ctr, last, broken, sent>>
loopVars == <<vars, pc, wire, masterVars, delivered, quiet>>

Frame(ctr, p) ==
    <<Len(p) % Radix, Len(p) \div Radix, ctr % Radix, ctr \div Radix>> \o p

LoopInit ==
    /\ Init
    /\ pc = "usb"
    /\ wire = <<>>
    /\ next_ctr = FirstCtr
    /\ last = "whole"
    /\ broken = 0
    /\ sent = <<>>
    /\ delivered = <<>>
    /\ quiet = 0

-----------------------------------------------------------------------------
\* The master.

\* One write is on the wire at a time; frames may queue up in the FIFO.  After
\* a broken frame the master waits before it writes again.
MayWrite ==
    /\ Len(sent) + broken < MaxFrames
    /\ wire = <<>>
    /\ last # "whole" => quiet = Pause

Write(bytes, kind) ==
    /\ MayWrite
    /\ wire' = bytes
    /\ next_ctr' = (next_ctr + 1) % CtrMod
    /\ last' = kind
    /\ quiet' = 0
    /\ UNCHANGED <<vars, pc, delivered>>

WriteWhole ==
    \E p \in Payloads :
        /\ Write(Frame(next_ctr, p), "whole")
        /\ sent' = Append(sent, [ctr |-> next_ctr, payload |-> p])
        /\ UNCHANGED broken

WriteBroken ==
    /\ Breaks
    /\ \E p \in Payloads : \E n \in 1 .. HeaderSize + Len(p) - 1 :
           Write(SubSeq(Frame(next_ctr, p), 1, n), "broken")
    /\ broken' = broken + 1
    /\ UNCHANGED sent

\* A header that announces more than the slave accepts.
Oversized(ctr) ==
    <<(MaxCto + 1) % Radix, (MaxCto + 1) \div Radix, ctr % Radix, ctr \div Radix>>
WriteOversized ==
    /\ \E j \in Junk : Write(Oversized(next_ctr) \o j, "oversized")
    /\ broken' = broken + 1
    /\ UNCHANGED sent

-----------------------------------------------------------------------------
\* The loop.

\* tud_task: some of the waiting bytes enter the FIFO, as many as fit.
Fill ==
    \E n \in 1 .. Len(wire) :
        /\ Len(fifo) + n <= FifoCap
        /\ fifo' = fifo \o SubSeq(wire, 1, n)
        /\ wire' = SubSeq(wire, n + 1, Len(wire))
        /\ arrived' = arrived + n

UsbTask ==
    /\ pc = "usb"
    /\ pc' = "sxi"
    /\ \/ Fill
       \/ /\ wire = <<>> \/ Len(fifo) = FifoCap
          /\ UNCHANGED <<fifo, wire, arrived>>
    /\ UNCHANGED <<parserVars, ctrVars, rx_last_byte_time, clockVars, stats,
                   taken, silence, masterVars, delivered, quiet>>

\* send_blocking calls tud_task as well.
FillMeanwhile ==
    /\ pc = "answer"
    /\ Fill
    /\ UNCHANGED <<parserVars, ctrVars, rx_last_byte_time, clockVars, stats,
                   taken, silence, pc, masterVars, delivered, quiet>>

LoopSxiTask ==
    /\ pc = "sxi"
    /\ pc' = "protocol"
    /\ SxiTask
    /\ UNCHANGED <<wire, masterVars, delivered, quiet>>

\* xcp_protocol_task fetches the packet if there is one, and answers it.
ProtocolTask ==
    /\ pc = "protocol"
    /\ \/ /\ GetPacket
          /\ pc' = "answer"
          /\ delivered' =
                 Append(delivered, [ctr |-> rx_last_ctr, payload |-> Payload])
       \/ /\ rx_state # "FRAME_READY"
          /\ pc' = "usb"
          /\ UNCHANGED <<vars, delivered>>
    /\ UNCHANGED <<wire, masterVars, quiet>>

\* send_packet returns.
Answered ==
    /\ pc = "answer"
    /\ pc' = "usb"
    /\ UNCHANGED <<vars, wire, masterVars, delivered, quiet>>

LoopTick ==
    /\ pc # "answer" => unpolled < LoopGap
    /\ Tick
    /\ quiet' = IF last # "whole" /\ wire = <<>> /\ fifo = <<>> /\ quiet < Pause
                THEN quiet + 1 ELSE quiet
    /\ UNCHANGED <<pc, wire, masterVars, delivered>>

LoopStep == UsbTask \/ LoopSxiTask \/ ProtocolTask \/ Answered

LoopNext ==
    \/ WriteWhole
    \/ WriteBroken
    \/ WriteOversized
    \/ FillMeanwhile
    \/ LoopStep
    \/ LoopTick

\* The loop has no exit; send_packet returns (SendEnds of SxiTransmit).
LoopSpec ==
    /\ LoopInit /\ [][LoopNext]_loopVars
    /\ WF_loopVars(LoopStep) /\ WF_loopVars(LoopTick)

-----------------------------------------------------------------------------
\* Properties.

\* The loop's own variables have their types.
LoopTypeOK ==
    /\ TypeOK
    /\ pc \in {"usb", "sxi", "protocol", "answer"}
    /\ wire \in Seq(Byte)
    /\ next_ctr \in Ctr
    /\ last \in {"whole", "broken", "oversized"}
    /\ broken \in Nat
    /\ sent \in Seq([ctr : Ctr, payload : Payloads])
    /\ delivered \in Seq([ctr : Ctr, payload : Seq(Byte)])
    /\ \A i \in 1 .. Len(delivered) : Len(delivered[i].payload) <= MaxCto
    /\ quiet \in 0 .. Pause

\* Byte stream, framing, timeout and back-pressure together are a reliable
\* frame channel, around broken frames and across the CTR wrap.
Link == INSTANCE FrameLink WITH Frames <- [ctr : Ctr, payload : Payloads]
DeliversEveryFrame == Link!LinkSpec

\* The error counters raise no false alarm: while the master writes whole
\* frames they stay zero, across the CTR wrap too, and never exceed what the
\* broken frames can explain.
NoFalseAlarm ==
    /\ broken = 0 =>
           stats.framing_errors = 0 /\ stats.ctr_errors = 0 /\ stats.idle_timeouts = 0
    /\ stats.ctr_errors <= broken
    /\ stats.idle_timeouts <= broken

\* A broken frame does not pass unnoticed: when the master writes again the
\* slave has counted a timeout or a framing error for each one.
NoSilentLoss ==
    last # "whole" /\ MayWrite =>
        stats.idle_timeouts + stats.framing_errors >= broken

\* docs/adr/001: CTR detects lost frames.  For every gap in the CTRs of the
\* delivered packets a ctr_error has been counted.
CtrHoles ==
    {i \in 1 .. Len(delivered) - 1 :
        delivered[i + 1].ctr # (delivered[i].ctr + 1) % CtrMod}
CtrDetectsLoss == CtrHoles # {} => stats.ctr_errors > 0

\* tools/test_sxi_loopback.py: a frame with an oversized LEN is discarded.
\* Every delivered packet is the payload of a frame written whole.
OversizedDiscarded ==
    \A i \in 1 .. Len(delivered) :
        \E k \in 1 .. Len(sent) : sent[k].payload = delivered[i].payload

=============================================================================
