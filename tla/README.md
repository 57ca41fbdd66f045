# A TLA+ verification project for xcp-pico

xcp-pico is firmware for a Raspberry Pi Pico 2: an XCP slave (a calibration
protocol) over a USB serial port, with a sensor, a PID controller and a servo
as its application.  It is one C program without an operating system: a single
main loop polls every module, and the hard behaviours come from what that loop
meets — bytes that arrive in arbitrary pieces, hosts that go silent or close
the port in the middle of a frame, clocks that wrap, state that lives across
commands.

Paths below are relative to the repository (`firmware/src/...`).

## 1. Inventory

| Component | State | Operations | Interacts with | Hard behaviour | What makes it correct |
|---|---|---|---|---|---|
| USB CDC stream (`xcp_transport_usb.c`) | tinyusb RX and TX FIFO (external), DTR | `task`, `receive`, `send`, `send_blocking`, `is_connected` | called by main loop and SxI | pieces of any size, full FIFOs, disconnect inside a write, deadline on a wrapping clock | bytes in order, no wait beyond the deadline |
| SxI receive (`xcp_transport_sxi.c`) | `rx_buffer`/`rx_index`, `rx_state`, expected length, last CTR, time of the last byte, statistics | `init`, `task`, `packet_available`, `get_packet` | reads CDC; polled by main; packet fetched by the protocol layer | split frames, garbage, stalled frames, back-pressure, CTR and clock wrap | every whole frame delivered once and in order; resynchronises; statistics tell the truth |
| SxI transmit (same file) | `tx_ctr`, statistics | `send_packet` | called by the protocol layer, writes CDC | partial writes, disconnect, oversized response | CTR and stream agree with what the host receives |
| XCP protocol (`xcp_protocol.c`) | session (`connected`, MTA), static command buffer, the RAM it serves | `init`, `task` with one handler per command | fetches and sends through the vtable | stale command bytes, pointer across commands, lost answers, 32-bit sums, RAM policy | a calibration memory: the whole block of a command in the RAM, every byte of it, or nothing |
| Vtable and main loop (`xcp_transport.h`, `main.c`) | `last_pid_time` | start-up, the loop's calls in order, the PID's dt gate | everything | one slow call delays all others; init failure | the loop comes round, control resumes after a stall |
| MPU6050 and filter (`mpu6050.c`) | `s_last_time`, `g_pitch_deg` | `init`, `task` | called by main; reads `c_alpha`, calibrated over XCP | failed reads, a pause longer than the filter integrates, NaN and infinities | no further from the platform's angle than by what was lost |
| PID (`pid.c`) | `s_integral`, `s_prev_measurement`, `s_first_call` | `init`, `update` | called by main; reads `c_Kp`, `c_Ki`, `c_Kd`, `c_setpoint` | skipped updates, wind-up, overflow, NaN and infinities | bounded integral, derivative is the platform's rate |
| Servo (`servo.c`) | PWM level | `init`, `set_angle` | called by main | outputs beyond its travel, NaN | pulses within its travel |
| Heartbeat | last toggle | `update` | – | – | – |
| Host tools (`tools/*.py`) | the port's input buffer, a timeout | connect, command, wait for the answer, exit | the serial port | a process that dies leaves half a command or an answer behind | the answer read is the answer to the command |
| A2L and its validator | – | comparison with the ELF symbols | – | – | – |

The hazards, each at its line, are listed in `PROJECT.json`.

## 2. Modules

| Module | What it is |
|---|---|
| `SxiReceive` | the receive parser over the CDC FIFO, against arbitrary bytes and an arbitrary consumer |
| `SxiReceiveProofs` | its theorems |
| `FrameLink` | abstract: a reliable, ordered, live channel of frames |
| `RxLoop` | `SxiReceive` inside the main loop, with a master; implements `FrameLink` |
| `RxLoopProofs` | its types, and lemmas on bytes and frames |
| `FrameChannelProofs` | its other theorems: the frame channel and the error counters |
| `MCRxLoop` | constants for TLC |
| `SxiTransmit` | `send_packet` and `send_blocking` over the CDC transmit FIFO, against a host that comes and goes |
| `SxiTransmitProofs` | its theorems |
| `XcpProtocol` | the command processor over an abstract packet transport; implements `CalMemory` |
| `XcpProtocolProofs` | its types, the access policy and the refusals |
| `XcpServiceProofs` | its other theorems: parameters, answers, the calibration memory |
| `CalMemory` | abstract: a byte memory behind a transfer pointer; operations asked for with their parameters |
| `MCXcpProtocol` | packets for TLC |
| `Session` | masters that start, time out and die, against the whole slave; implements `Exchange` |
| `SessionProofs` | its theorems |
| `Exchange` | abstract: commands at most once and in order, every answer to its command |
| `ControlLoop` | start-up, sensor, dt gate, PID and servo in the main loop |
| `ControlLoopProofs` | its theorems |
| `MCControlLoop` | calibration values for TLC |

`Session` composes what the other modules establish: whole frames become packets
(`RxLoop`), packets are executed and answered (`XcpProtocol`), answers are cut
when the port closes meanwhile (`SxiTransmit`).  `ControlLoop` takes from
`SxiTransmit` that communication ends, and that it may take longer than the gate
of the controller allows.

`SxiReceive`, `SxiTransmit` and `Session` need no MC module: their constants are numbers
and sets of numbers.

### SxiReceive and the code

`rx` is `rx_buffer[0..rx_index-1]`; `rx_state`, `rx_expected`, `rx_last_ctr`,
`rx_ctr_initialised`, `rx_last_byte_time` and `stats` are the variables of the
same names.  `fifo` is tinyusb's receive FIFO and `now` is `time_us_32`, which
wraps at `TimeMod`.  `unpolled` bounds the time between two calls of the task;
`arrived`, `taken` and `silence` are history variables.

A call of `xcp_transport_sxi_task` is one step: nothing runs between its lines
(no interrupt touches these variables).  The step is split by outcome:
`TaskHold` (a frame waits for its consumer), `TaskEmpty`, `TaskPartial`,
`TaskReject` and `TaskAccept` (the two exits of `handle_header_complete`) and
`TaskPayload`.  `check_idle_timeout`, which runs first in every call, is the
family `StateNow`, `BufNow`, `ExpectedNow`, `StatsNow`: the parser as the rest
of the call finds it.  The call reads the clock twice, before and after
the FIFO read; the model gives both readings the same value.
`get_packet` is `GetPacket`; its refusals change nothing.

Bytes are digits `0..Radix-1` and LEN and CTR are pairs of them, so the 16-bit
wrap is a wrap at `Radix^2`.  Statistics are natural numbers (they are 32-bit
counters, whose wrap is not modelled).

### RxLoop and the code

`pc` is the call the main loop makes next: `UsbTask` (tinyusb moves some of the
bytes on the wire into the FIFO, as many as fit), `LoopSxiTask`,
`ProtocolTask`.  The other calls of the loop touch nothing here; their duration
is `LoopTick`.  After a packet the loop stands at `"answer"` while
`send_packet` runs, for up to `PollGap` ticks, which exceeds the idle timeout
(`send_blocking` may take 100 ms, the timeout is 50 ms); tud_task, called
inside, goes on filling the FIFO (`FillMeanwhile`).  Every other pass takes at
most `LoopGap` ticks.  The master writes one frame after the other with consecutive
CTRs.  Writes may break off anywhere (`WriteBroken`) or announce an impossible
length (`WriteOversized`); the master then stays silent, as
`tools/test_sxi_loopback.py` does: `Pause` ticks after the last byte has left
wire and FIFO.  `next_ctr`, `last` and `broken` are the master's: the CTR of the
next frame, what became of the last one, and how many have not been written
whole; `sent` and `delivered` are what the properties compare.

### SxiTransmit and the code

`tx_ctr` and `frames_sent` are the code's; `length`, `total_sent` and `deadline`
are the locals of `send_packet` and `send_blocking`, `fifo` is tinyusb's transmit
FIFO and `dtr` what `tud_cdc_n_connected` returns.  `SendRefused` and
`SendStart` are the two ways into `send_packet`; `SendPiece` is one pass of the
loop of `send_blocking` (both tests, write, flush, `tud_task`), `SendGiveUp` and
`SendDone` its ways out, with the rest of `send_packet`.  A pass is one step: what
may happen between its lines (a tick, tud_task in the timer of `stdio_usb`)
has the same effect before or after it.

The bytes of a frame are tokens (CTR, length and position) because the
properties ask only which byte of which frame the host reads.  The host reads
whatever it likes whenever tinyusb is serviced (`Service`): by the main loop or
the `stdio_usb` timer (`UsbTask`) or by `send_blocking`.  The firmware learns of
an opened or closed port at a service only, so `dtr` lags behind `open`.  Closing
the port keeps the FIFO; pulling the plug empties it.

### XcpProtocol and the code

One step is one call of `xcp_protocol_task` that finds a packet (a call without
one returns at once): it copies the packet over the front of the static
`s_cmd_buf` (`Load` — bytes behind a short packet stay), dispatches on the code
and sends.  `Send` is `send_packet` as the protocol layer sees it: refused if
the response exceeds `XCP_MAX_DTO` or the port is closed, result ignored.
`reply` is the response the master got, or `NoReply`.

Command codes are names.  `RESERVED` is any table entry that points to
`handle_unknown`, `LOW` any code below the table, `EMPTY` a packet of length
zero.  Responses that consist of constants carry no data.

Undefined behaviour: a block outside the RAM may hit a bus fault (`BusFault`)
or read unknown bytes (`other`); a response buffer that is overrun
(`num_bytes > XCP_MAX_DTO`) may stop the processor (`halted`) when the handler
returns.  The model does not follow what a smashed stack does to other
variables, and `mem` stands for the RAM cells a master calibrates, not for the
firmware's own variables and stack in the same RAM.

`session_status` is only ever zero and is left out.

### Session and the code

A master is a process like `XcpClient` in `tools/test_download.py` (the monitors and
`Test_servo.py` use the same class): it opens the port (`Start`), sleeps and
calls `reset_input_buffer` (`Ready`), then writes a command (`Command`) and reads
header and payload of one frame, whose CTR it does not look at (`Accept`), or runs
into the timeout of the serial port (`GiveUp`) and goes on with the next test.
It may end or die at any moment (`Exit`), also in the middle of a write
(`CommandCut`); then the next process starts.  `HostRead` is the operating system
taking bytes from the slave while the port is open.

The slave alternates `UsbTask` (it learns whether the port is open) and `Commands`,
the SxI and the protocol task together. `xcp_transport_sxi_task` reads the header and
the payload of a command in two calls (`xcp_transport_sxi.c:224-233`); `Execute` is
the two passes merged, taken at the second one. That adds one pass, of about a
millisecond, to times that are compared with an idle timeout of 50 ms and a sleep of
half a second; the `LoopGap` before the step stands for it. What a stall between the
two does is in `SxiReceive` and `RxLoop`. `partial` is the half of a command that the
parser holds, `Held` what its idle timeout leaves of it: another frame that arrives
before that completes the half one (`Garbled`). `Execute` answers unless the answer is
too long (`"mute"`), and `Send` is refused by a closed port and cut by one that closes
unseen. A command is its number, an answer the number of the command and whether it is
whole.

One frame at a time is enough here: the other modules look at bytes.

### ControlLoop and the code

`pc` is the part of the pass that comes next.  `Communicate` is the USB, SxI and
protocol tasks: they take any time up to `MaxComm`, which reaches the 100 ms of
`send_blocking`.  `SenseOk` and `SenseFails` are `mpu6050_task` with a successful
and a failed transfer, `Control` and `Skip` the two sides of the gate in `main`.
`pitch`, `integral`, `prev`, `first_call` and `level` are `g_pitch_deg`,
`s_integral`, `s_prev_measurement`, `s_first_call` and the PWM level;
`s_last_time` and `last_pid_time` are kept as their ages `sinceRead` and
`sincePid`.  `angle` is the platform: it turns at a constant rate between two
reads, and gyroscope and accelerometer report what it does, so that every jump
of the filtered angle is the software's.

A float is an integer up to `FloatMax`, an infinity or `NaN`.  Sums and products
are those of IEEE 754 in what matters here: what exceeds `FloatMax` overflows to
an infinity, `0 * inf` and `inf - inf` are NaN, and comparisons with a NaN are false;
quotients are rounded down.  Intermediate results are rounded one operation at a
time, as `pid.c` writes them.  A calibration parameter is whatever the master has
written last, so each use of one takes any value of its set, and the set may hold
values outside the parameter's range, infinities and NaN.  What the conversion of
a NaN to `uint16_t` gives is undefined in C; the processor's conversion saturates,
and `Pulse` allows both ends.

## 3. Runs

| Run | Question | Bounds |
|---|---|---|
| `parser` | Is the parser right against any byte at any moment? | two-valued bytes (LEN and CTR 0..3), CTO 2, FIFO 2, 9 bytes, clock of 4 ticks, timeout 1, loop period 2 |
| `receive_path` | Does the loop deliver exactly the whole frames, and do the counters tell the truth? | 3 frames, each whole, broken at any byte or oversized, with less than a header or with a second impossible header behind the first; first CTR 2 so that the CTR wraps; FIFO 4, clock of 4 ticks, idle timeout 1, answers of up to 2 ticks |
| `lost_frame_without_ctr_error` | Does CTR detect every lost frame, as ADR 001 says? No | as above |
| `oversized_frame_reparsed` | Is an oversized frame discarded, as the loopback test says? No | junk that reads as a frame |
| `transmit` | Does the host read whole, consecutive frames, and does `send_blocking` end? | 2 CTRs, frames of 5 tokens, one refused length, FIFO 3, clock of 4 ticks, timeout 1, 3 calls |
| `cut_frame_without_gap` | Does a lost response leave a CTR gap, as the comment in `send_packet` says? No | as `transmit` |
| `commands` | Is the processor a calibration memory, every byte stored and read back? | 10 RAM cells, 16-valued bytes, 4 packets: whole, short and inconsistent commands at both ends of the RAM and within two cells of the top of the address space, where the 32-bit sum wraps |
| `access_at_top_of_address_space` | Is access restricted to SRAM, as `xcp_protocol.h` says? No | the packets around the top |
| `access_without_session` | Is a session required, as `docs/architecture.md` says? No | a master that never connects |
| `unanswered_upload` | Is every command answered, as `xcp_protocol.h` says? No | the packets at both ends of the RAM |
| `session` | Does a master read the answers to its own commands, whatever its predecessors left? | 4 commands by any number of processes; sleep 7, idle timeout 2, loop period 2, serial timeout 5 ticks |
| `control` | What do stalls, failed reads and calibration values do to filter, controller and servo? | passes of 1 to 4 ticks against a gate of 3, angles -2..2, a turn of 1 per tick, limits of 2; `c_alpha` in halves: -1, 1, 3, infinite, NaN; setpoints -3, infinite, NaN; gains 2, infinite, NaN; `FloatMax` 9, so that a product of a setpoint error, and the sum of two finite terms, overflow |

The bounds are enough for the cases that matter: nine bytes hold two frames
and a rejected header or a stall between them; a FIFO of two is smaller than a
header, so every header is split, and in `receive_path` a FIFO of four lets a
header arrive in one piece with the next frame right behind it; three frames
give a broken frame between two whole ones; a clock of three or four ticks wraps
several times in every behaviour.  Four packets are enough for "set the
pointer, write, read back, and something in between".

In `session` four commands are one that is cut, one that follows it, and two more
for what they leave behind.  The constants sit at the edge: one tick less of
sleep breaks `OwnAnswer`, and a serial timeout of 4 breaks `TimeoutMeansMute`.
In `control` the angle may leave the platform's range by one, and the integral
reaches both limits within a few passes.

Deadlock is checked in every run but those of the protocol.  The protocol runs stop after
`MaxPackets` packets or when the processor is halted, so `CHECK_DEADLOCK FALSE`
is said there (the port may still open and close).

### What the properties say

- `ParserShape`: state, index, expected length and CTR agree with the buffered
  bytes, so that the task never asks for zero or too many bytes.
- `ByteConservation`, `DropsAccounted`: no byte vanishes uncounted and the
  error counters explain the dropped ones.
- `TimeoutExact`: the unsigned clock difference is the true silence when it
  matters, however old the last timestamp is.
- `ReadyFrameSurvives`: back-pressure works; only the consumer ends a frame.
- `Resynchronises`: from any garbage the parser returns to a frame boundary.
- `DeliversEveryFrame`: `RxLoop` implements `FrameLink`, liveness included.
- `NoFalseAlarm`, `NoSilentLoss`: errors are counted only when a frame was
  broken, and for each broken frame something is counted.
- `StreamWhole`: the host reads whole frames with consecutive CTRs unless it
  was cut off since it opened the port.
- `DeadlineExact`, `SendEnds`: the signed deadline comparison is right at every
  wrap, so `send_blocking` holds the main loop for its timeout and one pass at
  most, whatever the host does.
- `AccessInRam`: every access lies in the RAM unless its 32-bit end wraps.
- `RefusalKeepsState`: an error response means that nothing has changed.
- `OwnParameters`: a command that carries its parameters is executed with them,
  whatever earlier packets left in the buffer.
- `MemoryService`: the processor implements `CalMemory`.  A command that carries its
  parameters is executed as a whole with exactly these, or refused, and refused only if
  its block is not in the RAM.  A DOWNLOAD writes each of its bytes to its cell and
  nothing else, so that the next read returns them, as the read-back in
  `tools/test_download.py:121-155` wants.  A command that lacks parameters
  (`"garbled"`) takes bytes of an earlier one; it writes nothing.
  Nothing is promised for a block whose 32-bit end wraps (finding 4).
- `AnsweredWhileLinkUp`: the only unanswered commands with an open port are the
  read whose response does not fit and the access that stops the processor.
- `OwnAnswer`: a master checks neither CTR nor command, but what it can read while
  it waits is the answer to its own command, whole.  This rests on time: the sleep
  after opening outlasts the idle timeout and two passes of the loop.
- `RequestReply`: `Session` implements `Exchange`.
- `TimeoutMeansMute`: a process that lives on runs into its timeout only where the
  answer was too long, and the command has been executed then too.
- `OutputsBounded`: the integral keeps its limits through every sequence of
  setpoints, gains and stalls until `c_alpha` or `c_setpoint` is NaN.  Such a NaN stays
  for good, in the filtered angle or in the integral, because the clamps compare and
  every comparison with a NaN is false.  The pulse is within its limits after every
  update whose three terms are finite.  It need not be after one with a term that
  overflows or comes from an infinite or NaN parameter: `inf - inf` or `0 * inf` makes
  a NaN of parameters that are none, `servo_set_angle` does not clamp it, and the next
  finite update is back.
- `NoDerivativeSpike`: the derivative is at most what the platform's rate allows,
  unless since the last update something was lost or skipped.  Each of the
  exceptions happens (see "Comments that say more than the code").
- `FilterContracts`: a successful read brings the filtered angle no further from
  the platform's than by the ticks the filter did not integrate.
- `ControlResumes`: a stall suspends the controller but never ends it.

### Fairness

`SxiReceive` and `RxLoop` assume weak fairness of the task, of the consumer and
of the clock: the main loop has no exit and calls them one after the other, and
no call of it waits for the host on this path.  Nothing is assumed of the master
or of arriving bytes.  In `RxLoop` tinyusb must move at least one waiting byte
per loop when there is room, which is the reliable USB transfer the firmware
relies on.

`SxiTransmit` assumes that `send_blocking` and the clock go on, nothing of the
host.  Its `SendEnds` is what `RxLoop` relies on when it lets `Answered` happen
eventually.

`ControlLoop` assumes that the communication tasks return (`SendEnds` again) and
that the loop goes on.  It assumes nothing of the sensor: `i2c_write_blocking` and
`i2c_read_blocking` have no timeout, so a hanging bus hangs the loop.  That the
sensor answers, start-up has succeeded and passes are short some day is the premise of
`ControlResumes`, not fairness.  `Session` states no fairness: its
properties are safety, with the time that passes counted.

`RxLoop` assumes `LoopGap <= IdleTimeout`: a pass that answers nothing is well
below the 50 ms timeout.  A pass that answers may exceed it; that this abandons no
frame is part of what `NoFalseAlarm` and `DeliversEveryFrame` show.  `TimeoutExact` needs
less: only that the parser is polled before the clock comes round.

## 4. Findings

1. **A lost frame without a CTR error** (`CtrDetectsLoss`).
   `docs/adr/001-xcp-on-sxi-over-usb-cdc.md:43` says CTR is "used to detect lost or
   out-of-order frames".  `handle_header_complete` stores the CTR when the header is
   accepted (`xcp_transport_sxi.c:131`); if the payload never comes the frame
   is lost, but the next one is consecutive.  Only `idle_timeouts` shows it.
2. **An oversized frame is not discarded** (`OversizedDiscarded`).
   `tools/test_sxi_loopback.py:233-234` says "Firmware should discard it".  Only
   the header is dropped; the payload is parsed, and delivered if it looks like a
   frame.
3. **No session needed** (`AccessNeedsSession`).
   `docs/architecture.md:120` says the protocol layer validates "are we connected?".
   No handler and no dispatcher looks at `connected`.
4. **The 32-bit sum wraps** (`SramOnly`).  `xcp_protocol.h:21-22` restricts access to
   SRAM; `addr + num_bytes` wraps for a block that ends at the top of the address
   space (`xcp_protocol.c:222`).
5. **An unanswered upload** (`EveryCommandAnswered`).  `xcp_protocol.h:86-87`: the task
   "sends the response".  With `num_bytes = XCP_MAX_DTO` the response has
   `1 + XCP_MAX_DTO` bytes and is refused, after the pointer has moved.
6. **A cut response leaves no gap** (`LostFrameLeavesGap`).
   `xcp_transport_sxi.c:315-317`: `tx_ctr` "is NOT incremented so the next call
   retries with the same counter value (the master would have detected the gap
   anyway)".  Nothing retries, and the next response carries exactly the CTR that
   the master expects: there is no gap to detect.

### Comments that say more than the code

Disagreements met while modelling that have no run of their own:

- `pid.h` calls `dt_s` the "time elapsed since the previous call".  `main.c` takes
  `last_pid_time` in every pass, also where the gate skips the update, so after a
  skipped update `dt_s` is one pass while the measurement has moved for two or
  more.
- `pid.h` also says that D "no longer has step-driven spikes" and responds only to how
  fast the platform moves.  It does not after a skipped update, a failed read or a
  pause, and while the filter corrects an older error: these are the
  exceptions of `NoDerivativeSpike`.
- `mpu6050.h` has a default dt for the first call; `s_last_time` is set in
  `mpu6050_init`, so the first call has a measured dt like any other.
- `xcp_app.h` says the angle is updated by every call of `mpu6050_task`; a failed read
  leaves it, and the time it covers is never integrated (`SenseFails`).
- `pid.c` describes the integral as clamped to ±90 degrees; a NaN passes.
- `servo.c` clamps "to valid range"; a NaN passes here too, and reaches a conversion to
  `uint16_t` that C leaves undefined.
- `servo.h` names a `c_servo_angle` that the firmware does not define.
- `xcp_transport.h` wants all functions of a transport non-blocking; `send_packet`
  ends in `send_blocking`.

## 5. Proofs

The proof modules cover every value of the constants that the named
assumptions allow.

`SxiReceiveProofs` (from `ReceiveAssumption`).  `TypeOK` and `ParserShape` alone
do not give `TimeoutExact`: a clock difference says nothing about how often the
clock has wrapped.  The inductive invariant therefore adds `SilenceMeasured`: in
the middle of a frame the difference *is* the true silence and the silence is at
most the timeout plus the ticks since the last poll, which is below `TimeMod`.
The argument: a poll that finds more silence than the timeout ends the frame, so
after each poll the silence is at most the timeout, and at most `PollGap` ticks
pass before the next.  `IInv == TypeOK /\ ParserShape /\ SilenceMeasured`
gives `TypeCorrect`, `ParserShapeCorrect` and `TimeoutExactCorrect`.
`ByteConservation` and `DropsAccounted` are inductive relative to it
(`ByteConservationCorrect`, `DropsAccountedCorrect`), and `ReadyFrameSurvives`
follows step by step (`ReadyFrameSurvivesCorrect`).

`XcpProtocolProofs` (from `ProtocolAssumption`).  `TypeCorrect`: `TypeOK` is
inductive; the lemmas say that four digits make an address (`WordType`), that
the 32-bit sum is one (`SumType`), and that the length check of DOWNLOAD keeps
the copied bytes inside the command (`DownloadedMemory`).  `AccessInRamCorrect`
rests on `ValidRegionMeans`: what `is_valid_ram_region` lets through lies in the
RAM or wraps.  `RefusalKeepsStateCorrect` goes through the handlers.

`SxiTransmitProofs` (from `TransmitAssumption`).  `TypeOK` says nothing about
the distance between clock and deadline, so the inductive invariant adds
`DeadlineMeasured`: while a frame is being sent, the clock distance to the deadline
is what the true time since the call (`waited`) says it is, before and after the
deadline passes, and at the last pass of the loop the deadline had not passed.
With `2 * Timeout <= TimeMod` the signed comparison can then tell the two sides
apart, and the wait is at most `Timeout + IterGap`.  `TypeCorrect` also says that
the FIFO never overflows and that no more than the frame is written.

`StreamWholeCorrect` adds the bytes themselves: after what the host has read come
those of the FIFO, and as long as no frame was cut since the port was opened the two
together are whole frames with consecutive CTRs and the part of the next one that has been
sent (`StreamInv`).
Only the stream since the last cut is proved about: what the host misses when a frame
is cut is finding 6, and frames that an unplugged port loses from the FIFO are gone.

`XcpServiceProofs` (from `ProtocolAssumption`).  `OwnParametersCorrect` rests on
what `Load` leaves of the old buffer, `AnsweredWhileLinkUpCorrect` on the lengths
of the responses.  `MemoryServiceCorrect` is the refinement of `CalMemory`: each
packet that arrives is the operation it asks for (`Operation`), each handler executes
or refuses that operation, and the types of `XcpProtocolProofs` are the invariant it
needs.

`SessionProofs` (from `SessionAssumption`).  `OwnAnswer` is an argument
about time: a process that starts finds half a command and old answers, and has
to have slept long enough that neither is left.  The inductive invariant
ties timers to data: how long a half command has been held bounds when
it is dropped (`HalfExpires`, `NotHeld`), what is in the FIFO is known to be stale
or the process's own (`FifoTaken`, `RxFresh`, `PortKnown`), at most one command of a
process is on its way (`OneInFlight`, `InOrder`), and a command without an
answer is still being worked on in time (`Pending`).  From it follow `TypeCorrect`,
`OwnAnswerCorrect`, `TimeoutMeansMuteCorrect` and, step by step, the refinement of
`Exchange` (`RequestReplyCorrect`).

`RxLoopProofs` and `FrameChannelProofs` (from `ReceiveAssumption` and
`LoopAssumption`).  The parser's invariant `IInv` carries over, since each step of
the loop is a step of the parser or fills the FIFO.  What it does not say is
where the bytes come from.  The inductive invariant `LoopInv` adds

- `Stream`: parser, FIFO and wire together hold the frames written whole and not
  yet delivered, one after the other, and then what is left of a last frame that
  broke off or was oversized;
- `Consecutive`: those frames have consecutive CTRs;
- `Prompt`, `QuietTime`: in the middle of a frame the loop is never held by an
  answer, so that a frame with bytes to come is never found stalled, and a
  master's pause is never longer than the silence the parser measures, so that after a
  pause the parser stands at a frame boundary;
- `Tally`: each broken frame has been counted or part of it is still to come,
  and it is charged at most one timeout and at most one CTR error, the one that
  the next header will raise included.

The main lemmas: four bytes from the front of the stream are the header of the next
whole frame, of the broken frame, or one that will be rejected (`HeaderMeans`); a frame
that is ready is the next whole frame (`ReadyIsNext`); a stalled parser has nothing
left to read and holds the bytes of a broken frame (`StalledIsDry`,
`StuckIsBroken`).  They give `NoFalseAlarmCorrect`, `NoSilentLossCorrect` and
`FrameChannelSafe`, which is `DeliversEveryFrame` without its fairness.  TLC has
checked the parts of `LoopInv` on the instance of `receive_path` before they were
proved.

These theorems have one hypothesis beside the named assumptions, `HarmlessAfter`: the
bytes after an impossible header, read header by header, announce no length that
the parser accepts.  It holds in `receive_path` and of the four bytes that
`test_oversized_len_rejection` sends, and it is where finding 2 begins: with it
an oversized frame is discarded (`OversizedDiscardedIfHarmless`), without it
`oversized_frame_reparsed` shows what happens.

`ControlLoopProofs` (from `ControlAssumption`).  `NoDerivativeSpike` speaks of one
update and depends on several passes: two timestamps are taken at different places
of `main.c` and `mpu6050.c`, and the previous measurement may be older than one pass.
The inductive invariant adds `Ages` (the sensor's interval is at most the one the
controller divides by, unless that has reached the gate), `Remembered` (after an
update `s_prev_measurement` is the angle until a read changes it) and
`HonestDifference` (an update that comes next finds a difference the platform has
made, unless it was disturbed), and `Booting` for the start.  `OutputsBounded` is
inductive relative to the types; it rests on `AccumulateBounded` and `PulseBounded`,
and on `FloatArithmetic`, which says which operands make a NaN or an infinity.
`ModerateBounded` is what the limits amount to: if no calibration value is NaN or
infinite and none is so large that a product with it overflows, pulse and
integral never leave their limits (three finite terms may still overflow in their sum,
which the servo clamps like any large angle).
`FilterContracts` rests on `MixNear`: the clamp makes the filter a weighted mean,
and a mean is no further from one of its terms than the other one is.

Only model-checked: `Resynchronises`, `SendEnds`, `ControlResumes` and the fairness in
`DeliversEveryFrame`, because liveness under fairness is out of the prover's reach.
The findings are counterexamples and need no proof.

## 6. Plan

Written: steps 1 to 7.

1. `SxiReceive`, `FrameLink`, `RxLoop` — the receive path.
2. `XcpProtocol`, `CalMemory` — the command processor.
3. `SxiTransmit` — the transmit path.
4. Proofs of the receive parser, the access policy, the send deadline and the
   control loop.
5. `Session`, `Exchange` — masters that come and go, and the whole slave.
6. `ControlLoop` — sensor, dt gate, PID and servo.
7. Further proofs: `XcpProtocol` as a service (`OwnParameters`,
   `AnsweredWhileLinkUp`, `CalMemory`), `Session` and `Exchange`, the
   transmitted stream, the receive path and its frame channel.
8. Next: that the dropped bytes of the receive path are those of the broken frames;
   when a frame truncated after its header raises no CTR error (the exact
   limit of finding 1); bounds on how long a whole frame waits before it is ready.

## 7. Not modelled

- tinyusb, the Pico SDK and the I2C bus: external, modelled from how the firmware
  uses them.
- Real floating-point values: rounding, and the 360-degree jump of
  `atan2f` when the platform passes upside down.
- A master that repeats a command after a timeout: no tool of the repository
  does, and nothing in the slave is written for one.
- A reset of the slave while masters go on: nothing is persisted, so it is a fresh
  start, except that the port disappears.
- The CAN transport (declared, not in the repository).
- The heartbeat: it reads the clock, and nothing reads what it writes.
- The A2L description and its validator: one pass over two texts, no state.
- `session_status` (constant); the wrap of 32-bit statistics; plotting scripts.
