----------------------------- MODULE XcpProtocol -----------------------------
(***************************************************************************)
(* The XCP command processor (firmware/src/xcp_protocol.c) over an abstract*)
(* packet transport.  xcp_protocol_task fetches at most one packet per     *)
(* call, dispatches it and sends the response; each call is one step here. *)
(*                                                                         *)
(* A packet is its command code and its argument bytes cmd[1], cmd[2], ... *)
(* Codes are names; the entries of s_cmd_table that point to handle_unknown*)
(* are "RESERVED" and codes below the table are "LOW".  cmdBuf is s_cmd_buf*)
(* without byte 0: bytes that a short packet does not overwrite keep the   *)
(* values of earlier packets, as in the program.  Bytes are 0..Radix-1 and *)
(* addresses four digits, so 32-bit arithmetic is arithmetic modulo        *)
(* AddrMod.  The response to GET_ID carries IdLen characters.              *)
(***************************************************************************)
EXTENDS Integers, Sequences

CONSTANTS
    Radix,      \* values of one byte
    MaxCto,     \* XCP_MAX_CTO
    MaxDto,     \* XCP_MAX_DTO
    IdLen,      \* XCP_STATION_ID_LEN
    RamBase,    \* XCP_PLATFORM_RAM_BASE
    RamEnd,     \* XCP_PLATFORM_RAM_END
    Packets,    \* the packets a master may send
    MaxPackets  \* bound: packets in one behaviour

Byte == 0 .. Radix - 1
AddrMod == Radix * (Radix * (Radix * Radix))
Address == 0 .. AddrMod - 1
Ram == RamBase .. RamEnd - 1
Codes == {"CONNECT", "DISCONNECT", "GET_STATUS", "SYNCH", "GET_COMM_MODE_INFO",
          "GET_ID", "SET_MTA", "UPLOAD", "SHORT_UPLOAD", "DOWNLOAD",
          "RESERVED", "LOW", "EMPTY"}

\* cmd[4..7] exist and the fixed responses fit; blocks that end beyond the
\* address space do not reach round to the RAM.
ASSUME ProtocolAssumption ==
    /\ Radix \in Nat /\ Radix > 1
    /\ MaxCto \in Nat /\ MaxCto >= 8
    /\ MaxDto \in Nat /\ IdLen \in Nat /\ MaxDto >= 8 + IdLen
    /\ RamBase \in Nat /\ RamEnd \in Nat
    /\ Radix <= RamBase /\ RamBase < RamEnd /\ RamEnd < AddrMod
    /\ \A p \in Packets : /\ p.code \in Codes
                          /\ p.args \in Seq(Byte) /\ Len(p.args) < MaxCto
    /\ MaxPackets \in Nat

VARIABLES
    connected,    \* s_session.connected
    mta,          \* s_session.mta_address
    mta_ext,      \* s_session.mta_extension
    cmdBuf,       \* s_cmd_buf[1 .. MaxCto-1]
    mem,          \* contents of the RAM
    packet,       \* packet waiting in the transport, or NoPacket
    reply,        \* response to the last command, or NoReply
    link,         \* can the transport send?
    halted,       \* a fault has stopped the processor
    touched,      \* history: block of the last memory access
    handled       \* history: packets fetched

vars == <<connected, mta, mta_ext, cmdBuf, mem, packet, reply, link, halted,
          touched, handled>>
session == <<connected, mta, mta_ext>>

NoPacket == [code |-> "NONE", args |-> <<>>]
NoReply == [pid |-> "NONE", data |-> <<>>]
Positive(data) == [pid |-> "RES", data |-> data]
Negative(err) == [pid |-> "ERR", data |-> <<err>>]
NoBlock == [addr |-> RamBase, num |-> 0]

Init ==
    /\ connected = FALSE
    /\ mta = 0
    /\ mta_ext = 0
    /\ cmdBuf = [i \in 1 .. MaxCto - 1 |-> 0]
    /\ mem = [a \in Ram |-> 0]
    /\ packet = NoPacket
    /\ reply = NoReply
    /\ link = TRUE
    /\ halted = FALSE
    /\ touched = NoBlock
    /\ handled = 0

-----------------------------------------------------------------------------
\* The transport below.

Receive(p) ==
    /\ packet = NoPacket
    /\ handled < MaxPackets
    /\ packet' = p
    /\ UNCHANGED <<session, cmdBuf, mem, reply, link, halted, touched, handled>>

\* The host closes or opens the port.
LinkChange ==
    /\ link' = ~link
    /\ UNCHANGED <<session, cmdBuf, mem, packet, reply, halted, touched, handled>>

-----------------------------------------------------------------------------
\* Decoding and sending.

\* Slip: the last argument byte is not copied.
LoadOneLess ==
    [i \in 1 .. MaxCto - 1 |->
        IF i < Len(packet.args) THEN packet.args[i] ELSE cmdBuf[i]]

\* get_packet copies the packet over the front of s_cmd_buf.
Load ==
    [i \in 1 .. MaxCto - 1 |->
        IF i <= Len(packet.args) THEN packet.args[i] ELSE cmdBuf[i]]

CmdLen == 1 + Len(packet.args)
NumBytes == Load[1]
Word(b) == b[4] + Radix * (b[5] + Radix * (b[6] + Radix * b[7]))

\* (uint32_t)(a + n)
Sum32(a, n) == IF a + n >= AddrMod THEN a + n - AddrMod ELSE a + n

\* Slip: the pointer is wider than 32 bits.
AdvanceWide(a, n) == mta' = a + n

\* The transfer pointer moves behind a block.
Advance(a, n) == mta' = Sum32(a, n)

\* Slip: the end of the block may lie one beyond the end of the RAM.
ValidRegionOneMore(a, n) == a >= RamBase /\ n > 0 /\ Sum32(a, n) <= RamEnd + 1

ValidRegion(a, n) == a >= RamBase /\ n > 0 /\ Sum32(a, n) <= RamEnd

\* A fetched packet of one of these commands.
Fetched(codes) ==
    /\ ~halted
    /\ packet.code \in codes
    /\ packet' = NoPacket
    /\ cmdBuf' = Load
    /\ handled' = handled + 1
    /\ UNCHANGED link

\* Slip: the limit itself is refused.
SendShorter(r, len) == reply' = IF link /\ len < MaxDto THEN r ELSE NoReply

\* send_packet refuses more than XCP_MAX_DTO bytes; its result is ignored.
Send(r, len) == reply' = IF link /\ len <= MaxDto THEN r ELSE NoReply

NoAccess == UNCHANGED <<mem, touched, halted>>

\* Contents of a block; what a read outside the RAM returns is not known.
Content(a, n, other) ==
    [i \in 1 .. n |-> IF a + i - 1 \in Ram THEN mem[a + i - 1] ELSE other]

\* memcpy on the block; a response buffer that is overrun may stop the
\* processor when the handler returns.
Access(a, n, overrun) ==
    /\ touched' = [addr |-> a, num |-> n]
    /\ halted' \in IF overrun THEN BOOLEAN ELSE {FALSE}

-----------------------------------------------------------------------------
\* The handlers.

Connect ==
    /\ Fetched({"CONNECT"})
    /\ connected' = TRUE
    /\ Send(Positive(<<>>), 8)
    /\ UNCHANGED <<mta, mta_ext>>
    /\ NoAccess

Disconnect ==
    /\ Fetched({"DISCONNECT"})
    /\ connected' = FALSE
    /\ Send(Positive(<<>>), 1)
    /\ UNCHANGED <<mta, mta_ext>>
    /\ NoAccess

\* GET_STATUS, GET_COMM_MODE_INFO and GET_ID report constants.
Inform ==
    /\ \/ Fetched({"GET_STATUS"}) /\ Send(Positive(<<>>), 6)
       \/ Fetched({"GET_COMM_MODE_INFO"}) /\ Send(Positive(<<>>), 8)
       \/ Fetched({"GET_ID"}) /\ Send(Positive(<<>>), 8 + IdLen)
    /\ UNCHANGED session
    /\ NoAccess

Synch ==
    /\ Fetched({"SYNCH"})
    /\ Send(Negative("CMD_SYNCH"), 2)
    /\ UNCHANGED session
    /\ NoAccess

\* handle_unknown, and codes below the table.
Unknown ==
    /\ Fetched({"RESERVED", "LOW"})
    /\ Send(Negative("CMD_UNKNOWN"), 2)
    /\ UNCHANGED session
    /\ NoAccess

\* A packet of length 0 is fetched and dropped.
Ignore ==
    /\ Fetched({"EMPTY"})
    /\ reply' = NoReply
    /\ UNCHANGED session
    /\ NoAccess

SetMta ==
    /\ Fetched({"SET_MTA"})
    /\ mta_ext' = Load[3]
    /\ mta' = Word(Load)
    /\ Send(Positive(<<>>), 1)
    /\ UNCHANGED connected
    /\ NoAccess

OutOfRange ==
    /\ Send(Negative("OUT_OF_RANGE"), 2)
    /\ UNCHANGED session
    /\ NoAccess

\* Slip: the pointer is advanced before the block is checked.
UploadRefusedMoving ==
    /\ Fetched({"UPLOAD"})
    /\ ~ValidRegion(mta, NumBytes)
    /\ Send(Negative("OUT_OF_RANGE"), 2)
    /\ Advance(mta, NumBytes)
    /\ UNCHANGED <<connected, mta_ext>>
    /\ NoAccess

UploadRefused ==
    /\ Fetched({"UPLOAD"})
    /\ ~ValidRegion(mta, NumBytes)
    /\ OutOfRange

\* The buffer of the response holds 1 + MaxDto bytes.
Upload ==
    /\ Fetched({"UPLOAD"})
    /\ ValidRegion(mta, NumBytes)
    /\ Access(mta, NumBytes, NumBytes > MaxDto)
    /\ \E other \in Byte :
           Send(Positive(Content(mta, NumBytes, other)), 1 + NumBytes)
    /\ Advance(mta, NumBytes)
    /\ UNCHANGED <<connected, mta_ext, mem>>

ShortUploadRefused ==
    /\ Fetched({"SHORT_UPLOAD"})
    /\ ~ValidRegion(Word(Load), NumBytes)
    /\ OutOfRange

ShortUpload ==
    /\ Fetched({"SHORT_UPLOAD"})
    /\ ValidRegion(Word(Load), NumBytes)
    /\ Access(Word(Load), NumBytes, NumBytes > MaxDto)
    /\ \E other \in Byte :
           Send(Positive(Content(Word(Load), NumBytes, other)), 1 + NumBytes)
    /\ UNCHANGED <<session, mem>>

DownloadRefused ==
    /\ Fetched({"DOWNLOAD"})
    /\ \/ NumBytes = 0
       \/ CmdLen < 2 + NumBytes
       \/ ~ValidRegion(mta, NumBytes)
    /\ OutOfRange

\* Slip: the bytes are not copied to memory.
DownloadUnwritten ==
    /\ Fetched({"DOWNLOAD"})
    /\ NumBytes # 0
    /\ CmdLen >= 2 + NumBytes
    /\ ValidRegion(mta, NumBytes)
    /\ Access(mta, NumBytes, FALSE)
    /\ Advance(mta, NumBytes)
    /\ Send(Positive(<<>>), 1)
    /\ UNCHANGED <<connected, mta_ext, mem>>

Download ==
    /\ Fetched({"DOWNLOAD"})
    /\ NumBytes # 0
    /\ CmdLen >= 2 + NumBytes
    /\ ValidRegion(mta, NumBytes)
    /\ Access(mta, NumBytes, FALSE)
    /\ mem' = [a \in Ram |-> IF a >= mta /\ a < mta + NumBytes
                             THEN Load[2 + a - mta] ELSE mem[a]]
    /\ Advance(mta, NumBytes)
    /\ Send(Positive(<<>>), 1)
    /\ UNCHANGED <<connected, mta_ext>>

\* The commands that access memory, and the block they ask for.
Accesses == {"UPLOAD", "SHORT_UPLOAD", "DOWNLOAD"}
BlockAddr == IF packet.code = "SHORT_UPLOAD" THEN Word(Load) ELSE mta

\* memcpy outside the RAM may hit a bus fault: nothing after it happens.
BusFault ==
    /\ Fetched(Accesses)
    /\ packet.code = "DOWNLOAD" => CmdLen >= 2 + NumBytes
    /\ ValidRegion(BlockAddr, NumBytes)
    /\ BlockAddr + NumBytes > RamEnd
    /\ touched' = [addr |-> BlockAddr, num |-> NumBytes]
    /\ halted' = TRUE
    /\ reply' = NoReply
    /\ UNCHANGED <<session, mem>>

\* xcp_protocol_task with a packet; without one it returns at once.
ProtocolTask ==
    \/ Connect
    \/ Disconnect
    \/ Inform
    \/ Synch
    \/ Unknown
    \/ Ignore
    \/ SetMta
    \/ UploadRefused
    \/ Upload
    \/ ShortUploadRefused
    \/ ShortUpload
    \/ DownloadRefused
    \/ Download
    \/ BusFault

Next ==
    \/ \E p \in Packets : Receive(p)
    \/ LinkChange
    \/ ProtocolTask

Spec == Init /\ [][Next]_vars

-----------------------------------------------------------------------------
\* Properties.

\* Every variable has its type.
TypeOK ==
    /\ connected \in BOOLEAN
    /\ mta \in Address
    /\ mta_ext \in Byte
    /\ cmdBuf \in [1 .. MaxCto - 1 -> Byte]
    /\ mem \in [Ram -> Byte]
    /\ packet \in Packets \cup {NoPacket}
    /\ reply.pid \in {"NONE", "RES", "ERR"}
    /\ link \in BOOLEAN
    /\ halted \in BOOLEAN
    /\ touched \in [addr : Address, num : Byte]
    /\ handled \in Nat

\* Every block the processor reads or writes lies in the RAM, unless adding its
\* length to its address overflows 32 bits.
AccessInRam ==
    \/ /\ touched.addr >= RamBase
       /\ touched.addr + touched.num <= RamEnd
    \/ touched.addr + touched.num >= AddrMod

\* A negative response means that nothing happened: memory, transfer pointer
\* and session are those of before the command.
RefusalKeepsState ==
    [][packet # packet' /\ reply'.pid = "ERR" => UNCHANGED <<session, mem, touched>>]_vars

\* A command that carries all its parameters is executed with them, whatever
\* earlier packets left in s_cmd_buf.
CompleteAs(code, len) == packet.code = code /\ packet' = NoPacket /\ Len(packet.args) >= len
OwnParameters ==
    [][/\ CompleteAs("SET_MTA", 7) =>
              mta' = Word(packet.args) /\ mta_ext' = packet.args[3]
       /\ CompleteAs("UPLOAD", 1) =>
              mta' = mta \/ mta' = Sum32(mta, packet.args[1])
       /\ CompleteAs("SHORT_UPLOAD", 7) =>
              touched' \in {touched, [addr |-> Word(packet.args),
                                      num |-> packet.args[1]]}
       /\ CompleteAs("DOWNLOAD", 1) /\ mem' # mem =>
              \A a \in Ram : mem'[a] # mem[a] =>
                  /\ a >= mta /\ a < mta + packet.args[1]
                  /\ mem'[a] = packet.args[2 + a - mta]]_vars

\* What a packet asks for, read off the packet alone.
Operation(p) ==
    LET Has(code, len) == p.code = code /\ Len(p.args) >= len
    IN CASE p = NoPacket -> [op |-> "none"]
         [] Has("SET_MTA", 7) -> [op |-> "point", to |-> Word(p.args)]
         [] Has("UPLOAD", 1) -> [op |-> "fetch", size |-> p.args[1]]
         [] Has("SHORT_UPLOAD", 7) ->
                [op |-> "fetchAt", at |-> Word(p.args), size |-> p.args[1]]
         [] Has("DOWNLOAD", 1) /\ Len(p.args) >= 1 + p.args[1] ->
                [op |-> "store", data |-> SubSeq(p.args, 2, 1 + p.args[1])]
         [] \/ p.code = "SET_MTA" /\ ~Has("SET_MTA", 7)
            \/ p.code = "UPLOAD" /\ ~Has("UPLOAD", 1)
            \/ p.code = "SHORT_UPLOAD" /\ ~Has("SHORT_UPLOAD", 7) ->
                [op |-> "garbled"]
         [] OTHER -> [op |-> "other"]

\* The last response, without the error code.
Answer == [kind |-> reply.pid,
           data |-> IF reply.pid = "RES" THEN reply.data ELSE <<>>]

\* The command processor is a calibration memory: every command is executed as
\* one whole operation with the parameters the master sent - a block is fetched
\* as it is, every byte of a DOWNLOAD is stored, the pointer moves behind it -
\* or refused because its block is not in the RAM.  Nothing is promised for a
\* block whose end wraps.
Cal == INSTANCE CalMemory
           WITH Bytes <- Byte, First <- RamBase, End <- RamEnd, Top <- AddrMod,
                memory <- mem, pointer <- mta, command <- Operation(packet), answer <- Answer
Wraps == packet.code \in Accesses /\ BlockAddr + NumBytes >= AddrMod
MemoryService == Cal!CalInit /\ [][Cal!CalNext \/ Wraps]_(Cal!calVars)

\* With the link up every command is answered, except a read whose response
\* would exceed XCP_MAX_DTO and an access that stops the processor.
TooLong == packet.code \in {"UPLOAD", "SHORT_UPLOAD"} /\ NumBytes >= MaxDto
AnsweredWhileLinkUp ==
    [][packet # NoPacket /\ packet' = NoPacket /\ link
          => reply' # NoReply \/ packet.code = "EMPTY" \/ TooLong \/ halted']_vars

\* xcp_protocol.h: the task dispatches the command and sends the response.
\* With the link up every command is answered.
EveryCommandAnswered ==
    [][packet # NoPacket /\ packet' = NoPacket /\ link
          => reply' # NoReply \/ packet.code = "EMPTY"]_vars

\* docs/architecture.md: the protocol layer validates that a session is
\* connected.  Memory is accessed only in a connected session.
AccessNeedsSession == [][touched' # touched => connected]_vars

\* xcp_protocol.h: access is restricted to SRAM, other addresses are rejected.
SramOnly ==
    touched.addr >= RamBase /\ touched.addr + touched.num <= RamEnd

=============================================================================
