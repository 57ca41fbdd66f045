--------------------------- MODULE XcpServiceProofs ---------------------------
(***************************************************************************)
(* What a master may rely on, for every size of byte, packet and RAM that  *)
(* ProtocolAssumption allows: a complete command is executed with its own  *)
(* parameters, every command that can be answered is, and the processor    *)
(* implements CalMemory, step by step.  All three rest on TypeOK.          *)
(***************************************************************************)
EXTENDS XcpProtocolProofs

-----------------------------------------------------------------------------
\* Lemmas about packets and responses.

\* A step that executes a command executes it by one of that command's handlers.
LEMMA OnlyHandlers ==
    ASSUME Next, packet # NoPacket, packet' = NoPacket
    PROVE  ProtocolTask
BY DEF Next, Receive, LinkChange, NoPacket

LEMMA RealPacket ==
    ASSUME TypeOK, packet # NoPacket
    PROVE  /\ packet \in Packets
           /\ packet.args \in Seq(Byte)
           /\ Len(packet.args) \in Nat /\ Len(packet.args) < MaxCto
BY PacketShape DEF TypeOK

\* The argument bytes a packet has are those of the packet.
LEMMA LoadOwn ==
    ASSUME TypeOK, packet # NoPacket, NEW i \in 1 .. Len(packet.args)
    PROVE  Load[i] = packet.args[i]
BY RealPacket, CtoNat DEF Load

\* With the link up a response that fits is sent.
LEMMA Sent ==
    ASSUME link, NEW r, NEW len \in Nat, len <= MaxDto, Send(r, len)
    PROVE  reply' = r
BY DEF Send

LEMMA DtoNat == MaxDto \in Nat /\ IdLen \in Nat /\ MaxDto >= 8 + IdLen
BY ProtocolAssumption

LEMMA Responses ==
    ASSUME NEW d PROVE Positive(d) # NoReply /\ Negative(d) # NoReply
BY DEF Positive, Negative, NoReply

-----------------------------------------------------------------------------
\* Parameters.

LEMMA OwnSetMta ==
    ASSUME TypeOK, SetMta, Len(packet.args) >= 7
    PROVE  mta' = Word(packet.args) /\ mta_ext' = packet.args[3]
<1>1. packet # NoPacket
  BY DEF SetMta, Fetched, NoPacket
<1>2. \A i \in 3 .. 7 : Load[i] = packet.args[i]
  BY <1>1, LoadOwn, RealPacket
<1> QED
  BY <1>2 DEF SetMta, Word

LEMMA OwnShortUpload ==
    ASSUME TypeOK, packet.code = "SHORT_UPLOAD", Len(packet.args) >= 7,
           ShortUpload \/ BusFault
    PROVE  touched' = [addr |-> Word(packet.args), num |-> packet.args[1]]
<1>1. packet # NoPacket
  BY DEF NoPacket
<1>2. \A i \in 1 .. 7 : Load[i] = packet.args[i]
  BY <1>1, LoadOwn, RealPacket
<1>3. Word(Load) = Word(packet.args) /\ NumBytes = packet.args[1]
  BY <1>2 DEF Word, NumBytes
<1>4. touched' = [addr |-> Word(Load), num |-> NumBytes]
  BY DEF ShortUpload, BusFault, Access, BlockAddr
<1> QED
  BY <1>3, <1>4

LEMMA OwnDownload ==
    ASSUME TypeOK, Download, Len(packet.args) >= 1,
           NEW a \in Ram, mem'[a] # mem[a]
    PROVE  /\ a >= mta /\ a < mta + packet.args[1]
           /\ mem'[a] = packet.args[2 + a - mta]
<1>1. packet # NoPacket
  BY DEF Download, Fetched, NoPacket
<1>2. NumBytes = packet.args[1] /\ NumBytes \in Nat
  <2>1. 1 \in 1 .. Len(packet.args)
    BY <1>1, RealPacket
  <2>2. Load[1] = packet.args[1]
    BY <1>1, <2>1, LoadOwn
  <2>3. NumBytes \in Byte
    BY <1>1, LoadType
  <2> QED
    BY <2>2, <2>3, RadixNat DEF NumBytes, Byte
<1>3. a >= mta /\ a < mta + NumBytes /\ mem'[a] = Load[2 + a - mta]
  BY DEF Download
<1>4. a \in Int /\ mta \in Int
  BY RamConstants, AddrModNat DEF Ram, TypeOK, Address
<1>5. 2 + a - mta \in 1 .. Len(packet.args)
  <2>1. Len(packet.args) \in Nat
    BY <1>1, RealPacket
  <2>2. Len(packet.args) >= 1 + NumBytes
    BY <1>2, <2>1 DEF Download, CmdLen
  <2>3. 2 + a - mta \in Int /\ 2 + a - mta >= 2 /\ 2 + a - mta < 2 + NumBytes
    BY <1>2, <1>3, <1>4
  <2> QED
    BY <1>2, <2>1, <2>2, <2>3
<1> QED
  BY <1>1, <1>2, <1>3, <1>5, LoadOwn

\* A command that carries all its parameters is executed with them, whatever
\* earlier packets have left in s_cmd_buf behind a short one.
THEOREM OwnParametersCorrect == Spec => OwnParameters
<1>1. ASSUME TypeOK, [Next]_vars, ~UNCHANGED vars
      PROVE  /\ CompleteAs("SET_MTA", 7) =>
                    mta' = Word(packet.args) /\ mta_ext' = packet.args[3]
             /\ CompleteAs("UPLOAD", 1) =>
                    mta' = mta \/ mta' = Sum32(mta, packet.args[1])
             /\ CompleteAs("SHORT_UPLOAD", 7) =>
                    touched' \in {touched, [addr |-> Word(packet.args),
                                            num |-> packet.args[1]]}
             /\ CompleteAs("DOWNLOAD", 1) /\ mem' # mem =>
                    \A a \in Ram : mem'[a] # mem[a] =>
                        /\ a >= mta /\ a < mta + packet.args[1]
                        /\ mem'[a] = packet.args[2 + a - mta]
  <2>0. ASSUME NEW code \in Codes, NEW len, CompleteAs(code, len)
        PROVE  ProtocolTask /\ packet # NoPacket
    <3>1. packet # NoPacket /\ packet' = NoPacket
      BY <2>0 DEF CompleteAs, NoPacket, Codes
    <3> QED
      BY <1>1, <3>1, OnlyHandlers
  <2> USE DEF CompleteAs
  <2>1. CASE CompleteAs("SET_MTA", 7)
    <3>1. SetMta
      BY <2>0, <2>1 DEF ProtocolTask, Codes, Fetched, Connect, Disconnect, Inform,
           Synch, Unknown, Ignore, UploadRefused, Upload, ShortUploadRefused,
           ShortUpload, DownloadRefused, Download, BusFault, Accesses
    <3> QED
      BY <1>1, <2>1, <3>1, OwnSetMta
  <2>2. CASE CompleteAs("UPLOAD", 1)
    <3>1. UploadRefused \/ Upload \/ BusFault
      BY <2>0, <2>2 DEF ProtocolTask, Codes, Fetched, Connect, Disconnect, Inform,
           Synch, Unknown, Ignore, SetMta, ShortUploadRefused,
           ShortUpload, DownloadRefused, Download
    <3>2. Load[1] = packet.args[1]
      BY <1>1, <2>0, <2>2, LoadOwn, RealPacket DEF Codes
    <3>3. mta' = mta \/ mta' = Sum32(mta, packet.args[1])
      BY <3>1, <3>2
         DEF UploadRefused, Upload, BusFault, OutOfRange, Advance, NumBytes, session
    <3> QED
      BY <2>2, <3>3
  <2>3. CASE CompleteAs("SHORT_UPLOAD", 7)
    <3>1. ShortUploadRefused \/ ShortUpload \/ BusFault
      BY <2>0, <2>3 DEF ProtocolTask, Codes, Fetched, Connect, Disconnect, Inform,
           Synch, Unknown, Ignore, SetMta, UploadRefused, Upload,
           DownloadRefused, Download
    <3>2. CASE ShortUploadRefused
      BY <2>3, <3>2 DEF ShortUploadRefused, OutOfRange, NoAccess
    <3> QED
      BY <1>1, <2>3, <3>1, <3>2, OwnShortUpload
  <2>4. CASE CompleteAs("DOWNLOAD", 1)
    <3>1. DownloadRefused \/ Download \/ BusFault
      BY <2>0, <2>4 DEF ProtocolTask, Codes, Fetched, Connect, Disconnect, Inform,
           Synch, Unknown, Ignore, SetMta, UploadRefused, Upload,
           ShortUploadRefused, ShortUpload
    <3>2. CASE mem' # mem
      <4>1. Download
        BY <3>1, <3>2 DEF DownloadRefused, BusFault, OutOfRange, NoAccess
      <4> QED
        BY <1>1, <2>4, <4>1, OwnDownload
    <3> QED
      BY <2>4, <3>2
  <2> QED
    BY <2>1, <2>2, <2>3, <2>4
<1> QED
  BY <1>1, TypeCorrect, PTL DEF Spec, OwnParameters

-----------------------------------------------------------------------------
\* Answers.

\* With the link up every command is answered, except a read whose response does
\* not fit and an access that stops the processor.
THEOREM AnsweredWhileLinkUpCorrect == Spec => AnsweredWhileLinkUp
<1>1. ASSUME TypeOK, [Next]_vars, packet # NoPacket, packet' = NoPacket, link
      PROVE  reply' # NoReply \/ packet.code = "EMPTY" \/ TooLong \/ halted'
  <2>1. ProtocolTask
    BY <1>1, OnlyHandlers DEF vars
  <2>2. ASSUME NEW d, NEW len \in Nat, len <= MaxDto,
               Send(Positive(d), len) \/ Send(Negative(d), len)
        PROVE  reply' # NoReply
    BY <1>1, <2>2, Sent, Responses
  <2>3. CASE Connect \/ Disconnect \/ Inform \/ SetMta \/ Download
    <3>1. /\ 1 \in Nat /\ 6 \in Nat /\ 8 \in Nat /\ 8 + IdLen \in Nat
          /\ 1 <= MaxDto /\ 6 <= MaxDto /\ 8 <= MaxDto /\ 8 + IdLen <= MaxDto
      BY DtoNat
    <3>2. PICK len \in {1, 6, 8, 8 + IdLen} : Send(Positive(<<>>), len)
      BY <2>3 DEF Connect, Disconnect, Inform, SetMta, Download
    <3>3. len \in Nat /\ len <= MaxDto
      BY <3>1, <3>2
    <3> QED
      BY <2>2, <3>2, <3>3
  <2>4. CASE Synch \/ Unknown
    BY <2>2, <2>4, DtoNat DEF Synch, Unknown
  <2>5. CASE UploadRefused \/ ShortUploadRefused \/ DownloadRefused
    BY <2>2, <2>5, DtoNat
       DEF UploadRefused, ShortUploadRefused, DownloadRefused, OutOfRange
  <2>6. CASE Ignore
    BY <2>6 DEF Ignore, Fetched
  <2>7. CASE Upload \/ ShortUpload
    <3>1. packet.code \in {"UPLOAD", "SHORT_UPLOAD"}
      BY <2>7 DEF Upload, ShortUpload, Fetched
    <3>2. PICK d : Send(Positive(d), 1 + NumBytes)
      BY <2>7 DEF Upload, ShortUpload
    <3>3. NumBytes \in Nat
      BY <1>1, LoadType, RadixNat DEF Byte
    <3>4. NumBytes >= MaxDto \/ 1 + NumBytes <= MaxDto
      BY <3>3, DtoNat
    <3> QED
      BY <2>2, <3>1, <3>2, <3>3, <3>4 DEF TooLong
  <2>8. CASE BusFault
    BY <2>8 DEF BusFault
  <2> QED
    BY <2>1, <2>3, <2>4, <2>5, <2>6, <2>7, <2>8 DEF ProtocolTask
<1> QED
  BY <1>1, TypeCorrect, PTL DEF Spec, AnsweredWhileLinkUp

-----------------------------------------------------------------------------
\* The processor implements CalMemory.

\* What a response shows the tool.
LEMMA Answers ==
    /\ \A d, len : Send(Positive(d), len) => Cal!Answer(d)
    /\ \A err, len : Send(Negative(err), len) =>
           Cal!Refused
    /\ reply' = NoReply => Cal!Refused
BY DEF Send, Positive, Negative, NoReply, Answer, Cal!Answer, Cal!Refused, Cal!Silence, Cal!Refusal

\* A block that passes the check and does not wrap is a block of the RAM.
LEMMA BlockInRam ==
    ASSUME NEW a \in Address, NEW n \in Byte, ValidRegion(a, n), a + n < AddrMod
    PROVE  /\ n \in 1 .. RamEnd - RamBase
           /\ a \in Ram
           /\ Cal!Transfers(a, n)
           /\ Sum32(a, n) = a + n
<1>1. /\ a \in Int /\ n \in Int /\ AddrMod \in Int
      /\ RamBase \in Int /\ RamEnd \in Int
  BY AddrModNat, RadixNat, RamConstants DEF Address, Byte
<1>2. Sum32(a, n) = a + n
  BY <1>1 DEF Sum32
<1>3. RamBase <= a /\ n > 0 /\ a + n <= RamEnd
  BY <1>1, <1>2 DEF ValidRegion
<1>4. Cal!Block(a, n) = a .. a + n - 1 /\ Cal!Cells = RamBase .. RamEnd - 1
  BY DEF Cal!Block, Cal!Cells
<1> QED
  BY <1>1, <1>2, <1>3, <1>4 DEF Ram, Cal!Transfers

\* A block that does not pass the check and does not wrap is none of the RAM.
LEMMA BlockNotInRam ==
    ASSUME NEW a \in Address, NEW n \in Byte, ~ValidRegion(a, n), a + n < AddrMod
    PROVE  ~Cal!Transfers(a, n)
<1>1. /\ a \in Int /\ n \in Int /\ AddrMod \in Int
      /\ RamBase \in Int /\ RamEnd \in Int
  BY AddrModNat, RadixNat, RamConstants DEF Address, Byte
<1>2. Sum32(a, n) = a + n
  BY <1>1 DEF Sum32
<1>3. CASE ~(n > 0)
  BY <1>3 DEF Cal!Transfers
<1>4. CASE n > 0
  <2>1. ~(RamBase <= a) \/ ~(a + n <= RamEnd)
    BY <1>1, <1>2, <1>4 DEF ValidRegion
  <2>2. a \in Cal!Block(a, n) /\ a + n - 1 \in Cal!Block(a, n)
    BY <1>1, <1>4 DEF Cal!Block
  <2>3. \A c \in Cal!Cells : RamBase <= c /\ c < RamEnd
    BY <1>1 DEF Cal!Cells
  <2> QED
    BY <1>1, <2>1, <2>2, <2>3 DEF Cal!Transfers
<1> QED
  BY <1>3, <1>4

\* Inside the RAM it does not matter what a read outside returns.
LEMMA SameContent ==
    ASSUME NEW a \in Int, NEW n \in Nat, NEW other, Cal!Transfers(a, n)
    PROVE  Content(a, n, other) = Cal!Content(a, n)
<1>1. \A i \in 1 .. n : a + i - 1 \in Ram
  BY RamConstants DEF Cal!Transfers, Cal!Block, Cal!Cells, Ram
<1> QED
  BY <1>1 DEF Content, Cal!Content

-----------------------------------------------------------------------------
\* What a packet asks for.

LEMMA NothingAsked == Operation(NoPacket) = Cal!NoCommand
BY DEF Operation, NoPacket, Cal!NoCommand

LEMMA AskedPoint ==
    ASSUME NEW p, p.code = "SET_MTA", Len(p.args) >= 7
    PROVE  Operation(p) = [op |-> "point", to |-> Word(p.args)]
BY DEF Operation, NoPacket

LEMMA AskedFetch ==
    ASSUME NEW p, p.code = "UPLOAD", Len(p.args) >= 1
    PROVE  Operation(p) = [op |-> "fetch", size |-> p.args[1]]
BY DEF Operation, NoPacket

LEMMA AskedFetchAt ==
    ASSUME NEW p, p.code = "SHORT_UPLOAD", Len(p.args) >= 7
    PROVE  Operation(p) = [op |-> "fetchAt", at |-> Word(p.args), size |-> p.args[1]]
BY DEF Operation, NoPacket

LEMMA AskedStore ==
    ASSUME NEW p, p.code = "DOWNLOAD", Len(p.args) >= 1, Len(p.args) >= 1 + p.args[1]
    PROVE  Operation(p) = [op |-> "store", data |-> SubSeq(p.args, 2, 1 + p.args[1])]
BY DEF Operation, NoPacket

\* A packet without its parameters, and a packet that transfers nothing.
Incomplete(p) ==
    \/ p.code = "SET_MTA" /\ ~(Len(p.args) >= 7)
    \/ p.code = "UPLOAD" /\ ~(Len(p.args) >= 1)
    \/ p.code = "SHORT_UPLOAD" /\ ~(Len(p.args) >= 7)
Without(p) ==
    /\ p.code \notin {"NONE", "SET_MTA", "UPLOAD", "SHORT_UPLOAD"}
    /\ p.code = "DOWNLOAD" =>
           ~(Len(p.args) >= 1 /\ Len(p.args) >= 1 + p.args[1])

LEMMA AskedGarbled ==
    ASSUME NEW p, Incomplete(p)
    PROVE  Operation(p) = [op |-> "garbled"]
BY DEF Operation, NoPacket, Incomplete

LEMMA AskedOther ==
    ASSUME NEW p, Without(p)
    PROVE  Operation(p) = [op |-> "other"]
BY DEF Operation, NoPacket, Without

\* A packet asks for an operation of the memory.
LEMMA Asked ==
    ASSUME NEW p \in Packets
    PROVE  Operation(p) \in Cal!Commands
<1>1. p.args \in Seq(Byte) /\ Len(p.args) \in Nat /\ p.code # "NONE"
  BY PacketShape DEF Codes
<1>2. \A i \in 1 .. Len(p.args) : p.args[i] \in Byte /\ p.args[i] \in Nat
  BY <1>1, RadixNat DEF Byte
<1> USE DEF Cal!Commands
<1>3. CASE p.code \in {"SET_MTA", "SHORT_UPLOAD"} /\ Len(p.args) >= 7
  <2>1. /\ p.args[1] \in Nat /\ p.args[4] \in Byte /\ p.args[5] \in Byte
        /\ p.args[6] \in Byte /\ p.args[7] \in Byte
    BY <1>1, <1>2, <1>3
  <2>2. Word(p.args) \in 0 .. AddrMod - 1
    BY <2>1, WordType DEF Address
  <2> QED
    BY <1>3, <2>1, <2>2, AskedPoint, AskedFetchAt
<1>4. CASE p.code = "UPLOAD" /\ Len(p.args) >= 1
  <2>1. p.args[1] \in Nat
    BY <1>1, <1>2, <1>4
  <2> QED
    BY <1>4, <2>1, AskedFetch
<1>5. CASE p.code = "DOWNLOAD" /\ Len(p.args) >= 1 /\ Len(p.args) >= 1 + p.args[1]
  <2>1. p.args[1] \in Nat
    BY <1>1, <1>2, <1>5
  <2> DEFINE data == SubSeq(p.args, 2, 1 + p.args[1])
  <2>2. data \in Seq(Byte)
    BY <1>1, <1>5, <2>1
  <2>3. Operation(p) = [op |-> "store", data |-> data]
    BY <1>5, AskedStore
  <2> HIDE DEF data
  <2> QED
    BY <2>2, <2>3
<1>6. CASE Incomplete(p)
  BY <1>6, AskedGarbled
<1>7. CASE Without(p)
  BY <1>7, AskedOther
<1> QED
  BY <1>1, <1>3, <1>4, <1>5, <1>6, <1>7 DEF Incomplete, Without

\* A handler is done with what was asked for.
LEMMA Executed ==
    ASSUME NEW codes \in SUBSET Codes, Fetched(codes)
    PROVE  /\ packet # NoPacket /\ packet.code \in codes
           /\ Operation(packet)' = Cal!NoCommand
BY NothingAsked, FetchedPacket DEF Fetched

-----------------------------------------------------------------------------
\* Initial states and steps.

LEMMA InitMaps == ASSUME Init PROVE Cal!CalInit
<1>1. Answer = Cal!Silence
  BY DEF Init, Answer, NoReply, Cal!Silence
<1>2. mem \in [Cal!Cells -> Byte]
  BY RadixNat DEF Init, Cal!Cells, Ram, Byte
<1>3. Operation(packet) = Cal!NoCommand
  BY NothingAsked DEF Init
<1> QED
  BY <1>1, <1>2, <1>3 DEF Init, Cal!CalInit

LEMMA ReceiveMaps ==
    ASSUME NEW p \in Packets, Receive(p)
    PROVE  Cal!Ask
<1>1. Operation(packet)' \in Cal!Commands
  BY Asked DEF Receive
<1>2. Operation(packet) = Cal!NoCommand
  BY NothingAsked DEF Receive
<1> QED
  BY <1>1, <1>2 DEF Receive, Cal!Ask, Answer, session

\* A refused transfer is one whose block is not in the RAM.
LEMMA UploadRefusedMaps ==
    ASSUME TypeOK, UploadRefused, ~Wraps
    PROVE  Cal!Refuse \/ Cal!Garbled
<1>1. /\ packet # NoPacket /\ packet.code = "UPLOAD"
      /\ Operation(packet)' = Cal!NoCommand
  BY Executed DEF UploadRefused, Codes
<1>2. UNCHANGED <<mem, mta>> /\ Cal!Refused
  BY Answers DEF UploadRefused, OutOfRange, NoAccess, session
<1>3. CASE Len(packet.args) >= 1
  <2>1. NumBytes = packet.args[1]
    BY <1>1, <1>3, RealPacket, LoadOwn DEF NumBytes
  <2>2. Operation(packet).op = "fetch" /\ Operation(packet).size = NumBytes
    BY <1>1, <1>3, <2>1, AskedFetch
  <2>3. ~Cal!Transfers(mta, NumBytes)
    <3>1. NumBytes \in Byte /\ mta \in Address
      BY <1>1, LoadType DEF TypeOK
    <3>2. mta + NumBytes < AddrMod
      BY <1>1, <3>1, AddrModNat, RadixNat
         DEF Wraps, BlockAddr, Accesses, Address, Byte
    <3> QED
      BY <3>1, <3>2, BlockNotInRam DEF UploadRefused
  <2> QED
    BY <1>1, <1>2, <2>2, <2>3 DEF Cal!Refuse, Cal!Execute
<1>4. CASE ~(Len(packet.args) >= 1)
  <2>1. Operation(packet) = [op |-> "garbled"]
    BY <1>1, <1>4, AskedGarbled DEF Incomplete
  <2> QED
    BY <1>1, <1>2, <2>1 DEF Cal!Garbled, Cal!Execute
<1> QED
  BY <1>3, <1>4

\* The address and length of a complete SHORT_UPLOAD are those of the packet.
LEMMA OwnBlock ==
    ASSUME TypeOK, packet.code = "SHORT_UPLOAD", Len(packet.args) >= 7
    PROVE  Operation(packet) = [op |-> "fetchAt", at |-> Word(Load),
                                size |-> NumBytes]
<1>1. packet # NoPacket
  BY DEF NoPacket
<1>2. \A i \in 1 .. 7 : Load[i] = packet.args[i]
  BY <1>1, LoadOwn, RealPacket
<1>3. Word(Load) = Word(packet.args) /\ NumBytes = packet.args[1]
  BY <1>2 DEF Word, NumBytes
<1> QED
  BY <1>3, AskedFetchAt

LEMMA ShortUploadRefusedMaps ==
    ASSUME TypeOK, ShortUploadRefused, ~Wraps
    PROVE  Cal!Refuse \/ Cal!Garbled
<1>1. /\ packet # NoPacket /\ packet.code = "SHORT_UPLOAD"
      /\ Operation(packet)' = Cal!NoCommand
  BY Executed DEF ShortUploadRefused, Codes
<1>2. UNCHANGED <<mem, mta>> /\ Cal!Refused
  BY Answers DEF ShortUploadRefused, OutOfRange, NoAccess, session
<1> DEFINE a == Word(Load)
<1>3. CASE Len(packet.args) >= 7
  <2>1. /\ Operation(packet).op = "fetchAt" /\ Operation(packet).at = a
        /\ Operation(packet).size = NumBytes
    BY <1>1, <1>3, OwnBlock
  <2>2. NumBytes \in Byte /\ a \in Address
    BY <1>1, LoadType
  <2>3. ~ValidRegion(a, NumBytes) /\ (a >= AddrMod - NumBytes => Wraps)
    BY <1>1, <2>2, AddrModNat, RadixNat
       DEF ShortUploadRefused, Wraps, BlockAddr, Accesses, Address, Byte
  <2> HIDE DEF a
  <2>4. a + NumBytes < AddrMod
    BY <2>2, <2>3, AddrModNat, RadixNat DEF Address, Byte
  <2>5. ~Cal!Transfers(a, NumBytes)
    BY <2>2, <2>3, <2>4, BlockNotInRam
  <2> QED
    BY <1>1, <1>2, <2>1, <2>5 DEF Cal!Refuse, Cal!Execute
<1>4. CASE ~(Len(packet.args) >= 7)
  <2>1. Operation(packet) = [op |-> "garbled"]
    BY <1>1, <1>4, AskedGarbled DEF Incomplete
  <2> QED
    BY <1>1, <1>2, <2>1 DEF Cal!Garbled, Cal!Execute
<1> QED
  BY <1>3, <1>4


LEMMA SetMtaMaps ==
    ASSUME TypeOK, TypeOK', SetMta
    PROVE  Cal!Point \/ Cal!Garbled
<1>1. /\ packet # NoPacket /\ packet.code = "SET_MTA"
      /\ Operation(packet)' = Cal!NoCommand
  BY Executed DEF SetMta, Codes
<1>2. mem' = mem /\ Cal!Answer(<<>>)
  BY Answers DEF SetMta, NoAccess
<1>3. CASE Len(packet.args) >= 7
  <2>1. mta' = Word(packet.args)
    BY <1>3, OwnSetMta
  <2>2. Operation(packet) = [op |-> "point", to |-> mta']
    BY <1>1, <1>3, <2>1, AskedPoint
  <2> QED
    BY <1>1, <1>2, <2>2 DEF Cal!Point, Cal!Execute
<1>4. CASE ~(Len(packet.args) >= 7)
  <2>1. Operation(packet) = [op |-> "garbled"]
    BY <1>1, <1>4, AskedGarbled DEF Incomplete
  <2>2. mta' \in 0 .. AddrMod - 1
    BY DEF TypeOK, Address
  <2> QED
    BY <1>1, <1>2, <2>1, <2>2 DEF Cal!Garbled, Cal!Execute
<1> QED
  BY <1>3, <1>4

\* A fetched block is answered as it is in memory.
LEMMA UploadMaps ==
    ASSUME TypeOK, Upload, ~Wraps
    PROVE  Cal!Fetch \/ Cal!Garbled
<1>1. /\ packet # NoPacket /\ packet.code = "UPLOAD"
      /\ Operation(packet)' = Cal!NoCommand
  BY Executed DEF Upload, Codes
<1>2. NumBytes \in Byte /\ mta \in Address
  BY <1>1, LoadType DEF TypeOK
<1>3. mta \in Int /\ NumBytes \in Nat /\ AddrMod \in Int
  BY <1>2, AddrModNat, RadixNat DEF Address, Byte
<1>4. ValidRegion(mta, NumBytes) /\ mta + NumBytes < AddrMod
  BY <1>1, <1>3 DEF Upload, Wraps, BlockAddr, Accesses
<1>5. /\ NumBytes \in 1 .. RamEnd - RamBase
      /\ Cal!Transfers(mta, NumBytes)
      /\ Sum32(mta, NumBytes) = mta + NumBytes
  BY <1>2, <1>4, BlockInRam
<1>6. Cal!Answer(Cal!Content(mta, NumBytes))
  <2>1. PICK other \in Byte :
            Send(Positive(Content(mta, NumBytes, other)), 1 + NumBytes)
    BY DEF Upload
  <2>2. Content(mta, NumBytes, other) = Cal!Content(mta, NumBytes)
    BY <1>3, <1>5, SameContent
  <2> QED
    BY <2>1, <2>2, Answers
<1>7. mta' = mta + NumBytes /\ mem' = mem
  BY <1>5 DEF Upload, Advance
<1>8. CASE Len(packet.args) >= 1
  <2>1. NumBytes = packet.args[1]
    BY <1>1, <1>8, RealPacket, LoadOwn DEF NumBytes
  <2>2. Operation(packet).op = "fetch" /\ Operation(packet).size = NumBytes
    BY <1>1, <1>8, <2>1, AskedFetch
  <2> QED
    BY <1>1, <1>5, <1>6, <1>7, <2>2 DEF Cal!Fetch, Cal!Execute
<1>9. CASE ~(Len(packet.args) >= 1)
  <2>1. Operation(packet) = [op |-> "garbled"]
    BY <1>1, <1>9, AskedGarbled DEF Incomplete
  <2> QED
    BY <1>1, <1>5, <1>6, <1>7, <2>1 DEF Cal!Garbled, Cal!Execute
<1> QED
  BY <1>8, <1>9

LEMMA ShortUploadMaps ==
    ASSUME TypeOK, ShortUpload, ~Wraps
    PROVE  Cal!FetchAt \/ Cal!Garbled
<1>1. /\ packet # NoPacket /\ packet.code = "SHORT_UPLOAD"
      /\ Operation(packet)' = Cal!NoCommand
  BY Executed DEF ShortUpload, Codes
<1> DEFINE a == Word(Load)
<1>2. NumBytes \in Byte /\ a \in Address
  BY <1>1, LoadType
<1>3. a \in Int /\ NumBytes \in Nat /\ AddrMod \in Int
  BY <1>2, AddrModNat, RadixNat DEF Address, Byte
<1>4. ValidRegion(a, NumBytes) /\ a + NumBytes < AddrMod
  BY <1>1, <1>3 DEF ShortUpload, Wraps, BlockAddr, Accesses
<1>5. PICK other \in Byte :
          Send(Positive(Content(a, NumBytes, other)), 1 + NumBytes)
  BY DEF ShortUpload
<1>6. UNCHANGED <<mta, mem>>
  BY DEF ShortUpload, session
<1>7. Len(packet.args) >= 7 =>
          Operation(packet) = [op |-> "fetchAt", at |-> a, size |-> NumBytes]
  BY <1>1, OwnBlock
<1> HIDE DEF a
<1>8. /\ NumBytes \in 1 .. RamEnd - RamBase
      /\ a \in Ram
      /\ Cal!Transfers(a, NumBytes)
  BY <1>2, <1>4, BlockInRam
<1>9. Content(a, NumBytes, other) = Cal!Content(a, NumBytes)
  BY <1>3, <1>8, SameContent
<1>10. Cal!Answer(Cal!Content(a, NumBytes))
  BY <1>5, <1>9, Answers
<1>11. CASE Len(packet.args) >= 7
  <2>1. /\ Operation(packet).op = "fetchAt" /\ Operation(packet).at = a
        /\ Operation(packet).size = NumBytes
    BY <1>7, <1>11
  <2> QED
    BY <1>1, <1>6, <1>8, <1>10, <2>1 DEF Cal!FetchAt, Cal!Execute
<1>12. CASE ~(Len(packet.args) >= 7)
  <2>1. Operation(packet) = [op |-> "garbled"]
    BY <1>1, <1>12, AskedGarbled DEF Incomplete
  <2>2. a \in Cal!Cells
    BY <1>8 DEF Cal!Cells, Ram
  <2> QED
    BY <1>1, <1>6, <1>8, <1>10, <2>1, <2>2 DEF Cal!Garbled, Cal!Execute
<1> QED
  BY <1>11, <1>12

\* The length of a DOWNLOAD that has one is that of the packet.
LEMMA OwnLength ==
    ASSUME TypeOK, packet # NoPacket, packet.code = "DOWNLOAD",
           Len(packet.args) >= 1
    PROVE  /\ NumBytes = packet.args[1]
           /\ Len(packet.args) >= 1 + NumBytes =>
                  /\ Operation(packet).op = "store"
                  /\ Operation(packet).data \in Seq(Byte)
                  /\ Len(Operation(packet).data) = NumBytes
                  /\ \A i \in 1 .. NumBytes :
                         Operation(packet).data[i] = Load[1 + i]
<1> DEFINE args == packet.args
           data == SubSeq(args, 2, 1 + args[1])
<1>1. args \in Seq(Byte) /\ Len(args) \in Nat
  BY RealPacket
<1>2. NumBytes = args[1] /\ NumBytes \in Byte
  BY <1>1, LoadOwn, LoadType DEF NumBytes
<1>3. NumBytes \in Nat
  BY <1>2, RadixNat DEF Byte
<1>4. ASSUME Len(args) >= 1 + NumBytes
      PROVE  /\ Operation(packet) = [op |-> "store", data |-> data]
             /\ data \in Seq(Byte) /\ Len(data) = NumBytes
             /\ \A i \in 1 .. NumBytes : data[i] = Load[1 + i]
  <2>1. Operation(packet) = [op |-> "store", data |-> data]
    BY <1>2, <1>4, AskedStore
  <2>2. /\ data \in Seq(Byte) /\ Len(data) = NumBytes
        /\ \A i \in 1 .. NumBytes : data[i] = args[1 + i]
    BY <1>1, <1>2, <1>3, <1>4
  <2>3. \A i \in 1 .. NumBytes : Load[1 + i] = args[1 + i]
    BY <1>1, <1>3, <1>4, LoadOwn
  <2> QED
    BY <2>1, <2>2, <2>3
<1> HIDE DEF data
<1> QED
  BY <1>2, <1>4

LEMMA DownloadRefusedMaps ==
    ASSUME TypeOK, DownloadRefused, ~Wraps
    PROVE  Cal!Refuse \/ Cal!Other
<1>1. /\ packet # NoPacket /\ packet.code = "DOWNLOAD"
      /\ Operation(packet)' = Cal!NoCommand
  BY Executed DEF DownloadRefused, Codes
<1>2. UNCHANGED <<mem, mta>> /\ Cal!Refused
  BY Answers DEF DownloadRefused, OutOfRange, NoAccess, session
<1>3. NumBytes \in Byte /\ mta \in Address /\ Len(packet.args) \in Nat
  BY <1>1, LoadType, RealPacket DEF TypeOK
<1>4. CASE Len(packet.args) >= 1 /\ Len(packet.args) >= 1 + NumBytes
  <2>1. /\ Operation(packet).op = "store"
        /\ Len(Operation(packet).data) = NumBytes
    BY <1>1, <1>4, OwnLength
  <2>2. ~ValidRegion(mta, NumBytes)
    BY <1>3, <1>4, RadixNat DEF DownloadRefused, CmdLen, ValidRegion, Byte
  <2>3. mta + NumBytes < AddrMod
    BY <1>1, <1>3, AddrModNat, RadixNat
       DEF Wraps, BlockAddr, Accesses, Address, Byte
  <2>4. ~Cal!Transfers(mta, NumBytes)
    BY <1>3, <2>2, <2>3, BlockNotInRam
  <2> QED
    BY <1>1, <1>2, <2>1, <2>4 DEF Cal!Refuse, Cal!Execute
<1>5. CASE ~(Len(packet.args) >= 1 /\ Len(packet.args) >= 1 + NumBytes)
  <2>1. ~(Len(packet.args) >= 1 /\ Len(packet.args) >= 1 + packet.args[1])
    BY <1>1, <1>5, OwnLength
  <2>2. Operation(packet) = [op |-> "other"]
    BY <1>1, <2>1, AskedOther DEF Without
  <2> QED
    BY <1>1, <1>2, <2>2 DEF Cal!Other, Cal!Execute
<1> QED
  BY <1>4, <1>5

\* Every byte of a DOWNLOAD is stored.
LEMMA DownloadMaps ==
    ASSUME TypeOK, Download, ~Wraps
    PROVE  Cal!Store
<1>1. /\ packet # NoPacket /\ packet.code = "DOWNLOAD"
      /\ Operation(packet)' = Cal!NoCommand
  BY Executed DEF Download, Codes
<1>2. NumBytes \in Byte /\ mta \in Address /\ Len(packet.args) \in Nat
  BY <1>1, LoadType, RealPacket DEF TypeOK
<1>3. mta \in Int /\ NumBytes \in Nat /\ AddrMod \in Int
  BY <1>2, AddrModNat, RadixNat DEF Address, Byte
<1>4. ValidRegion(mta, NumBytes) /\ mta + NumBytes < AddrMod
  BY <1>1, <1>3 DEF Download, Wraps, BlockAddr, Accesses
<1>5. Cal!Transfers(mta, NumBytes) /\ Sum32(mta, NumBytes) = mta + NumBytes
  BY <1>2, <1>4, BlockInRam
<1>6. mta' = mta + NumBytes /\ Cal!Answer(<<>>)
  BY <1>5, Answers DEF Download, Advance
<1>7. /\ Operation(packet).op = "store"
      /\ Len(Operation(packet).data) = NumBytes
      /\ \A i \in 1 .. NumBytes : Operation(packet).data[i] = Load[1 + i]
  <2>1. Len(packet.args) >= 1 /\ Len(packet.args) >= 1 + NumBytes
    BY <1>2, <1>3 DEF Download, CmdLen
  <2> QED
    BY <1>1, <2>1, OwnLength
<1>8. mem' = [c \in Cal!Cells |->
                 IF c \in Cal!Block(mta, NumBytes)
                 THEN Operation(packet).data[c - mta + 1] ELSE mem[c]]
  <2>1. Cal!Cells = Ram /\ Ram \subseteq Int
    BY RamConstants DEF Cal!Cells, Ram
  <2>2. \A c \in Ram : c \in Cal!Block(mta, NumBytes)
                           <=> c >= mta /\ c < mta + NumBytes
    BY <1>3, <2>1 DEF Cal!Block
  <2>3. ASSUME NEW c \in Ram, c >= mta, c < mta + NumBytes
        PROVE  Operation(packet).data[c - mta + 1] = Load[2 + c - mta]
    <3>1. c - mta + 1 \in 1 .. NumBytes /\ 1 + (c - mta + 1) = 2 + c - mta
      BY <1>3, <2>1, <2>3
    <3>2. Operation(packet).data[c - mta + 1] = Load[1 + (c - mta + 1)]
      BY <1>7, <3>1
    <3> QED
      BY <3>1, <3>2
  <2> QED
    BY <2>1, <2>2, <2>3 DEF Download
<1> QED
  BY <1>1, <1>5, <1>6, <1>7, <1>8 DEF Cal!Store, Cal!Execute

\* A fault can only follow a block that wraps.
LEMMA BusFaultWraps == ASSUME TypeOK, BusFault PROVE Wraps
<1>1. packet # NoPacket /\ packet.code \in Accesses
  BY DEF BusFault, Fetched, Accesses, NoPacket
<1>2. NumBytes \in Byte /\ BlockAddr \in Address
  BY <1>1, LoadType DEF TypeOK, BlockAddr
<1>3. BlockAddr + NumBytes > RamEnd /\ ValidRegion(BlockAddr, NumBytes)
  BY DEF BusFault
<1>4. BlockAddr \in Int /\ NumBytes \in Int /\ RamEnd \in Int
  BY <1>2, RadixNat, AddrModNat, RamConstants DEF Byte, Address
<1> QED
  BY <1>1, <1>2, <1>3, <1>4, ValidRegionMeans DEF Wraps

\* Every step asks for one operation or executes the one asked for, or leaves all
\* of the memory's state as it is.
LEMMA StepMaps ==
    ASSUME TypeOK, TypeOK', [Next]_vars
    PROVE  [Cal!CalNext \/ Wraps]_(Cal!calVars)
<1> USE DEF Cal!CalNext
<1>1. CASE UNCHANGED <<mem, mta, packet, reply>>
  BY <1>1 DEF Cal!calVars, Answer
<1>2. CASE \E p \in Packets : Receive(p)
  BY <1>2, ReceiveMaps
<1>3. CASE SetMta
  BY <1>3, SetMtaMaps
<1>4. CASE Upload \/ ShortUpload \/ Download
  BY <1>4, UploadMaps, ShortUploadMaps, DownloadMaps
<1>5. CASE UploadRefused \/ ShortUploadRefused \/ DownloadRefused
  BY <1>5, UploadRefusedMaps, ShortUploadRefusedMaps, DownloadRefusedMaps
<1>6. CASE BusFault
  BY <1>6, BusFaultWraps
<1>7. CASE Connect \/ Disconnect \/ Inform \/ Synch \/ Unknown \/ Ignore
  <2>1. PICK codes \in SUBSET (Codes \ {"SET_MTA", "UPLOAD", "SHORT_UPLOAD", "DOWNLOAD"}) :
            Fetched(codes)
    BY <1>7 DEF Connect, Disconnect, Inform, Synch, Unknown, Ignore, Codes
  <2>2. /\ packet # NoPacket /\ Operation(packet)' = Cal!NoCommand
        /\ Operation(packet) = [op |-> "other"]
    <3>1. Without(packet)
      BY <2>1 DEF Fetched, Without, Codes
    <3> QED
      BY <2>1, <3>1, Executed, AskedOther
  <2>3. UNCHANGED <<mem, mta>>
    BY <1>7 DEF Connect, Disconnect, Inform, Synch, Unknown, Ignore, NoAccess, session
  <2>4. Cal!Answer(<<>>) \/ Cal!Refused
    <3>1. CASE Connect \/ Disconnect \/ Inform
      BY <3>1, Answers DEF Connect, Disconnect, Inform
    <3>2. CASE Synch \/ Unknown \/ Ignore
      BY <3>2, Answers DEF Synch, Unknown, Ignore
    <3> QED
      BY <1>7, <3>1, <3>2
  <2> QED
    BY <2>2, <2>3, <2>4 DEF Cal!Other, Cal!Execute
<1> QED
  BY <1>1, <1>2, <1>3, <1>4, <1>5, <1>6, <1>7
  DEF Next, ProtocolTask, LinkChange, vars, session

\* The command processor implements the calibration memory: whatever the sizes of
\* bytes, packets and RAM, a complete command is executed as a whole with its own
\* parameters - every byte of a DOWNLOAD is stored, a read returns what is stored -
\* or refused because its block is not in the RAM, as long as no block ends beyond
\* the address space.
THEOREM MemoryServiceCorrect == Spec => MemoryService
BY InitMaps, StepMaps, TypeCorrect, PTL DEF Spec, MemoryService
=============================================================================
