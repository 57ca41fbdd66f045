-------------------------- MODULE XcpProtocolProofs --------------------------
(***************************************************************************)
(* Proofs about the command processor, for every size of byte, packet and  *)
(* RAM and every set of packets that ProtocolAssumption allows.  TypeOK is *)
(* inductive by itself; AccessInRam follows from it and from one lemma     *)
(* about is_valid_ram_region: what the check lets through either lies in   *)
(* the RAM or wraps the 32-bit sum.                                        *)
(***************************************************************************)
EXTENDS XcpProtocol, TLAPS

-----------------------------------------------------------------------------
\* Lemmas about the constants and the operators.

LEMMA RadixNat == Radix \in Nat /\ Radix > 1
BY ProtocolAssumption

LEMMA RamConstants ==
    /\ RamBase \in Nat /\ RamEnd \in Nat /\ Radix <= RamBase
    /\ RamBase < RamEnd /\ RamEnd < AddrMod
BY ProtocolAssumption

LEMMA PacketShape ==
    ASSUME NEW p \in Packets
    PROVE  p.code \in Codes /\ p.args \in Seq(Byte) /\ Len(p.args) < MaxCto
BY ProtocolAssumption

LEMMA CtoNat == MaxCto \in Nat /\ MaxCto >= 8
BY ProtocolAssumption

\* One more digit in front of a number below m gives a number below Radix * m.
LEMMA Digit ==
    ASSUME NEW m \in Nat, NEW hi \in 0 .. m - 1, NEW lo \in Byte
    PROVE  /\ Radix * m \in Nat
           /\ lo + Radix * hi \in 0 .. (Radix * m) - 1
<1>1. lo \in Int /\ hi \in Int /\ 0 <= lo /\ lo <= Radix - 1 /\ 0 <= hi
      /\ hi <= m - 1
  BY RadixNat DEF Byte
<1>2. Radix * hi <= Radix * (m - 1) /\ Radix * hi >= 0
  BY <1>1, RadixNat
<1>3. Radix * (m - 1) = Radix * m - Radix
  BY RadixNat
<1>4. Radix * m \in Nat /\ Radix * hi \in Int
  BY <1>1, RadixNat
<1> QED
  BY <1>1, <1>2, <1>3, <1>4, RadixNat

LEMMA AddrModNat == AddrMod \in Nat /\ AddrMod > Radix
BY RadixNat, RamConstants DEF AddrMod

\* Four bytes make an address.
LEMMA WordType ==
    ASSUME NEW b, b[4] \in Byte, b[5] \in Byte, b[6] \in Byte, b[7] \in Byte
    PROVE  Word(b) \in Address
<1>1. b[4] \in Byte /\ b[5] \in Byte /\ b[6] \in Byte /\ b[7] \in Byte
  OBVIOUS
<1>2. b[7] \in 0 .. Radix - 1
  BY <1>1 DEF Byte
<1>3. /\ Radix * Radix \in Nat
      /\ b[6] + Radix * b[7] \in 0 .. (Radix * Radix) - 1
  BY <1>1, <1>2, Digit, RadixNat
<1>4. /\ Radix * (Radix * Radix) \in Nat
      /\ b[5] + Radix * (b[6] + Radix * b[7])
             \in 0 .. (Radix * (Radix * Radix)) - 1
  BY <1>1, <1>3, Digit
<1>5. b[4] + Radix * (b[5] + Radix * (b[6] + Radix * b[7]))
          \in 0 .. (Radix * (Radix * (Radix * Radix))) - 1
  BY <1>1, <1>4, Digit
<1> QED
  BY <1>5 DEF Word, Address, AddrMod

\* The 32-bit sum stays an address.
LEMMA SumType ==
    ASSUME NEW a \in Address, NEW n \in Byte
    PROVE  Sum32(a, n) \in Address
BY AddrModNat, RadixNat DEF Address, Byte, Sum32

\* What the access check lets through.
LEMMA ValidRegionMeans ==
    ASSUME NEW a \in Address, NEW n \in Byte, ValidRegion(a, n)
    PROVE  \/ a >= RamBase /\ a + n <= RamEnd
           \/ a + n >= AddrMod
BY AddrModNat, RadixNat, RamConstants DEF Address, Byte, ValidRegion, Sum32

\* The command buffer keeps its type whatever packet is loaded into it.
LEMMA LoadType ==
    ASSUME TypeOK, packet # NoPacket
    PROVE  /\ Load \in [1 .. MaxCto - 1 -> Byte]
           /\ NumBytes \in Byte
           /\ Word(Load) \in Address
<1>1. packet \in Packets
  BY DEF TypeOK
<1>2. packet.args \in Seq(Byte)
  BY <1>1, PacketShape
<1>3. \A i \in 1 .. MaxCto - 1 : i <= Len(packet.args) => packet.args[i] \in Byte
  BY <1>2
<1>4. cmdBuf \in [1 .. MaxCto - 1 -> Byte]
  BY DEF TypeOK
<1>5. Load \in [1 .. MaxCto - 1 -> Byte]
  BY <1>3, <1>4 DEF Load
<1>6. NumBytes \in Byte
  BY <1>5, CtoNat DEF NumBytes
<1>7. /\ Load[4] \in Byte /\ Load[5] \in Byte
      /\ Load[6] \in Byte /\ Load[7] \in Byte
  <2>1. 4 \in 1 .. MaxCto - 1 /\ 5 \in 1 .. MaxCto - 1
        /\ 6 \in 1 .. MaxCto - 1 /\ 7 \in 1 .. MaxCto - 1
    BY CtoNat
  <2> HIDE DEF Load
  <2> QED
    BY <1>5, <2>1
<1> QED
  BY <1>5, <1>6, <1>7, WordType

\* A handler runs only on a real packet.
LEMMA FetchedPacket ==
    ASSUME NEW codes \in SUBSET Codes, Fetched(codes)
    PROVE  packet # NoPacket
BY DEF Fetched, NoPacket, Codes

-----------------------------------------------------------------------------
\* Type correctness.

\* TypeOK apart from the response, and the response.
StateType ==
    /\ connected \in BOOLEAN
    /\ mta \in Address
    /\ mta_ext \in Byte
    /\ cmdBuf \in [1 .. MaxCto - 1 -> Byte]
    /\ mem \in [Ram -> Byte]
    /\ packet \in Packets \cup {NoPacket}
    /\ link \in BOOLEAN
    /\ halted \in BOOLEAN
    /\ touched \in [addr : Address, num : Byte]
    /\ handled \in Nat
ReplyType == reply.pid \in {"NONE", "RES", "ERR"}

LEMMA TypeParts ==
    /\ TypeOK <=> StateType /\ ReplyType
    /\ TypeOK' <=> StateType' /\ ReplyType'
BY DEF TypeOK, StateType, ReplyType

\* Whatever a handler sends is a response.
LEMMA SendType ==
    ASSUME NEW d, NEW len, Send(Positive(d), len) \/ Send(Negative(d), len)
    PROVE  ReplyType'
BY DEF Send, Positive, Negative, NoReply, ReplyType

\* What fetching a packet does to the variables it writes.
LEMMA FetchType ==
    ASSUME TypeOK, NEW codes \in SUBSET Codes, Fetched(codes)
    PROVE  /\ cmdBuf' \in [1 .. MaxCto - 1 -> Byte]
           /\ packet' \in Packets \cup {NoPacket}
           /\ link' \in BOOLEAN
           /\ handled' \in Nat
           /\ NumBytes \in Byte
           /\ Word(Load) \in Address
           /\ Load[3] \in Byte
           /\ halted \in BOOLEAN
<1>1. packet # NoPacket
  BY FetchedPacket
<1>2. Load \in [1 .. MaxCto - 1 -> Byte] /\ NumBytes \in Byte
      /\ Word(Load) \in Address
  BY <1>1, LoadType
<1>3. Load[3] \in Byte
  BY <1>2, CtoNat
<1> QED
  BY <1>2, <1>3 DEF Fetched, TypeOK

\* A handler that leaves session, memory and history alone.
LEMMA QuietType ==
    ASSUME TypeOK, NEW codes \in SUBSET Codes, Fetched(codes),
           UNCHANGED session, NoAccess, ReplyType'
    PROVE  TypeOK'
<1>1. StateType
  BY TypeParts
<1>2. StateType'
  BY <1>1, FetchType DEF StateType, session, NoAccess
<1> QED
  BY <1>2, TypeParts

\* A handler that accesses a block and may move the pointer behind it.
LEMMA AccessType ==
    ASSUME TypeOK, NEW codes \in SUBSET Codes, Fetched(codes),
           NEW a \in Address,
           touched' = [addr |-> a, num |-> NumBytes],
           halted' \in BOOLEAN,
           mta' \in {mta, Sum32(a, NumBytes)},
           UNCHANGED <<connected, mta_ext>>,
           mem' \in [Ram -> Byte],
           ReplyType'
    PROVE  TypeOK'
<1>1. StateType
  BY TypeParts
<1>2. mta' \in Address
  BY <1>1, SumType, FetchType DEF StateType
<1>3. StateType'
  BY <1>1, <1>2, FetchType DEF StateType
<1> QED
  BY <1>3, TypeParts

\* DOWNLOAD stores bytes of the command; the length check keeps them inside it.
LEMMA DownloadedMemory ==
    ASSUME TypeOK, Download
    PROVE  mem' \in [Ram -> Byte]
<1>1. Fetched({"DOWNLOAD"}) /\ {"DOWNLOAD"} \in SUBSET Codes
  BY DEF Download, Codes
<1>2. packet # NoPacket
  BY <1>1, FetchedPacket
<1>3. NumBytes \in Byte /\ Load \in [1 .. MaxCto - 1 -> Byte]
  BY <1>2, LoadType
<1>4. Len(packet.args) \in Nat /\ Len(packet.args) < MaxCto
  BY <1>2, PacketShape DEF TypeOK
<1>5. NumBytes \in Nat /\ 1 + NumBytes <= Len(packet.args)
  BY <1>3, <1>4, RadixNat DEF Download, CmdLen, Byte
<1>6. mem \in [Ram -> Byte] /\ mta \in Int
  BY AddrModNat DEF TypeOK, Address
<1>7. ASSUME NEW a \in Ram, a >= mta, a < mta + NumBytes
      PROVE  Load[2 + a - mta] \in Byte
  <2>1. a \in Int
    BY RamConstants DEF Ram
  <2>2. 2 + a - mta \in 1 .. MaxCto - 1
    BY <1>4, <1>5, <1>6, <1>7, <2>1, CtoNat
  <2> QED
    BY <1>3, <2>2
<1> QED
  BY <1>6, <1>7 DEF Download

LEMMA TypeInit == Init => TypeOK
<1> SUFFICES ASSUME Init PROVE TypeOK
  OBVIOUS
<1>1. 0 \in Byte /\ 0 \in Address
  BY RadixNat, AddrModNat DEF Byte, Address
<1>2. NoBlock \in [addr : Address, num : Byte]
  <2>1. RamBase \in Address
    BY RamConstants, AddrModNat DEF Address
  <2> QED
    BY <1>1, <2>1 DEF NoBlock
<1> QED
  BY <1>1, <1>2 DEF Init, TypeOK, NoReply

LEMMA TypeNext == TypeOK /\ [Next]_vars => TypeOK'
<1> SUFFICES ASSUME TypeOK, [Next]_vars PROVE TypeOK'
  OBVIOUS
<1>0. StateType /\ ReplyType
  BY TypeParts
<1>1. CASE UNCHANGED vars
  BY <1>1 DEF vars, session, TypeOK
<1>2. ASSUME NEW p \in Packets, Receive(p) PROVE TypeOK'
  BY <1>2 DEF Receive, TypeOK, session
<1>3. CASE LinkChange
  BY <1>3 DEF LinkChange, TypeOK, session
<1>4. CASE Connect
  <2>1. Fetched({"CONNECT"}) /\ {"CONNECT"} \in SUBSET Codes
    BY <1>4 DEF Connect, Codes
  <2>2. ReplyType'
    BY <1>4, SendType DEF Connect
  <2>3. StateType'
    BY <1>0, <1>4, <2>1, FetchType DEF Connect, StateType, NoAccess
  <2> QED
    BY <2>2, <2>3, TypeParts
<1>5. CASE Disconnect
  <2>1. Fetched({"DISCONNECT"}) /\ {"DISCONNECT"} \in SUBSET Codes
    BY <1>5 DEF Disconnect, Codes
  <2>2. ReplyType'
    BY <1>5, SendType DEF Disconnect
  <2>3. StateType'
    BY <1>0, <1>5, <2>1, FetchType DEF Disconnect, StateType, NoAccess
  <2> QED
    BY <2>2, <2>3, TypeParts
<1>6. CASE Inform
  <2>1. PICK codes \in SUBSET Codes : Fetched(codes)
    BY <1>6 DEF Inform, Codes
  <2>2. ReplyType'
    BY <1>6, SendType DEF Inform
  <2> QED
    BY <1>6, <2>1, <2>2, QuietType DEF Inform
<1>7. CASE Synch
  <2>1. Fetched({"SYNCH"}) /\ {"SYNCH"} \in SUBSET Codes
    BY <1>7 DEF Synch, Codes
  <2>2. ReplyType'
    BY <1>7, SendType DEF Synch
  <2> QED
    BY <1>7, <2>1, <2>2, QuietType DEF Synch
<1>8. CASE Unknown
  <2>1. Fetched({"RESERVED", "LOW"}) /\ {"RESERVED", "LOW"} \in SUBSET Codes
    BY <1>8 DEF Unknown, Codes
  <2>2. ReplyType'
    BY <1>8, SendType DEF Unknown
  <2> QED
    BY <1>8, <2>1, <2>2, QuietType DEF Unknown
<1>9. CASE Ignore
  <2>1. Fetched({"EMPTY"}) /\ {"EMPTY"} \in SUBSET Codes
    BY <1>9 DEF Ignore, Codes
  <2>2. ReplyType'
    BY <1>9 DEF Ignore, ReplyType, NoReply
  <2> QED
    BY <1>9, <2>1, <2>2, QuietType DEF Ignore
<1>10. CASE SetMta
  <2>1. Fetched({"SET_MTA"}) /\ {"SET_MTA"} \in SUBSET Codes
    BY <1>10 DEF SetMta, Codes
  <2>2. ReplyType'
    BY <1>10, SendType DEF SetMta
  <2>3. StateType'
    BY <1>0, <1>10, <2>1, FetchType DEF SetMta, StateType, NoAccess
  <2> QED
    BY <2>2, <2>3, TypeParts
<1>11. CASE UploadRefused \/ ShortUploadRefused \/ DownloadRefused
  <2>1. PICK codes \in SUBSET Codes : Fetched(codes)
    BY <1>11 DEF UploadRefused, ShortUploadRefused, DownloadRefused, Codes
  <2>2. OutOfRange /\ NoAccess
    BY <1>11 DEF UploadRefused, ShortUploadRefused, DownloadRefused, OutOfRange
  <2>3. ReplyType'
    BY <2>2, SendType DEF OutOfRange
  <2> QED
    BY <2>1, <2>2, <2>3, QuietType DEF OutOfRange
<1>12. CASE Upload
  <2>1. Fetched({"UPLOAD"}) /\ {"UPLOAD"} \in SUBSET Codes
    BY <1>12 DEF Upload, Codes
  <2>2. ReplyType'
    BY <1>12, SendType DEF Upload
  <2>3. mta \in Address /\ mem \in [Ram -> Byte]
    BY <1>0 DEF StateType
  <2>4. /\ touched' = [addr |-> mta, num |-> NumBytes]
        /\ halted' \in BOOLEAN
        /\ mta' = Sum32(mta, NumBytes)
        /\ UNCHANGED <<connected, mta_ext, mem>>
    BY <1>12 DEF Upload, Access, Advance
  <2> QED
    BY <2>1, <2>2, <2>3, <2>4, AccessType
<1>13. CASE ShortUpload
  <2>1. Fetched({"SHORT_UPLOAD"}) /\ {"SHORT_UPLOAD"} \in SUBSET Codes
    BY <1>13 DEF ShortUpload, Codes
  <2>2. ReplyType'
    BY <1>13, SendType DEF ShortUpload
  <2>3. Word(Load) \in Address /\ mem \in [Ram -> Byte]
    BY <1>0, <2>1, FetchType DEF StateType
  <2>4. /\ touched' = [addr |-> Word(Load), num |-> NumBytes]
        /\ halted' \in BOOLEAN
        /\ UNCHANGED <<connected, mta, mta_ext, mem>>
    BY <1>13 DEF ShortUpload, Access, session
  <2> QED
    BY <2>1, <2>2, <2>3, <2>4, AccessType
<1>14. CASE Download
  <2>1. Fetched({"DOWNLOAD"}) /\ {"DOWNLOAD"} \in SUBSET Codes
    BY <1>14 DEF Download, Codes
  <2>2. ReplyType'
    BY <1>14, SendType DEF Download
  <2>3. mta \in Address /\ mem \in [Ram -> Byte]
    BY <1>0 DEF StateType
  <2>4. /\ touched' = [addr |-> mta, num |-> NumBytes]
        /\ halted' \in BOOLEAN
        /\ mta' = Sum32(mta, NumBytes)
        /\ UNCHANGED <<connected, mta_ext>>
    BY <1>14 DEF Download, Access, Advance
  <2>5. mem' \in [Ram -> Byte]
    BY <1>14, DownloadedMemory
  <2> QED
    BY <2>1, <2>2, <2>3, <2>4, <2>5, AccessType
<1>15. CASE BusFault
  <2>1. Fetched(Accesses) /\ Accesses \in SUBSET Codes
    BY <1>15 DEF BusFault, Codes, Accesses
  <2>2. ReplyType'
    BY <1>15 DEF BusFault, ReplyType, NoReply
  <2>3. BlockAddr \in Address /\ mem \in [Ram -> Byte]
    BY <1>0, <2>1, FetchType DEF StateType, BlockAddr
  <2>4. /\ touched' = [addr |-> BlockAddr, num |-> NumBytes]
        /\ halted' \in BOOLEAN
        /\ UNCHANGED <<connected, mta, mta_ext, mem>>
    BY <1>15 DEF BusFault, session
  <2> QED
    BY <2>1, <2>2, <2>3, <2>4, AccessType
<1> QED
  BY <1>1, <1>2, <1>3, <1>4, <1>5, <1>6, <1>7, <1>8, <1>9, <1>10, <1>11,
     <1>12, <1>13, <1>14, <1>15 DEF Next, ProtocolTask

\* Every variable keeps its type in every behaviour of the processor.
THEOREM TypeCorrect == Spec => []TypeOK
BY TypeInit, TypeNext, PTL DEF Spec

-----------------------------------------------------------------------------
\* The access policy.

LEMMA TouchedValid ==
    ASSUME TypeOK, NEW a \in Address, NEW n \in Byte, ValidRegion(a, n),
           touched' = [addr |-> a, num |-> n]
    PROVE  AccessInRam'
BY ValidRegionMeans DEF AccessInRam

LEMMA AccessNext == TypeOK /\ AccessInRam /\ [Next]_vars => AccessInRam'
<1> SUFFICES ASSUME TypeOK, AccessInRam, [Next]_vars PROVE AccessInRam'
  OBVIOUS
<1>0. mta \in Address
  BY DEF TypeOK
<1>1. CASE UNCHANGED touched
  BY <1>1 DEF AccessInRam
<1>2. CASE Upload
  <2>1. Fetched({"UPLOAD"}) /\ {"UPLOAD"} \in SUBSET Codes
    BY <1>2 DEF Upload, Codes
  <2>2. NumBytes \in Byte
    BY <2>1, FetchType
  <2> QED
    BY <1>0, <1>2, <2>2, TouchedValid DEF Upload, Access
<1>3. CASE ShortUpload
  <2>1. Fetched({"SHORT_UPLOAD"}) /\ {"SHORT_UPLOAD"} \in SUBSET Codes
    BY <1>3 DEF ShortUpload, Codes
  <2>2. NumBytes \in Byte /\ Word(Load) \in Address
    BY <2>1, FetchType
  <2> QED
    BY <1>3, <2>2, TouchedValid DEF ShortUpload, Access
<1>4. CASE Download
  <2>1. Fetched({"DOWNLOAD"}) /\ {"DOWNLOAD"} \in SUBSET Codes
    BY <1>4 DEF Download, Codes
  <2>2. NumBytes \in Byte
    BY <2>1, FetchType
  <2> QED
    BY <1>0, <1>4, <2>2, TouchedValid DEF Download, Access
<1>5. CASE BusFault
  <2>1. Fetched(Accesses) /\ Accesses \in SUBSET Codes
    BY <1>5 DEF BusFault, Codes, Accesses
  <2>2. NumBytes \in Byte /\ BlockAddr \in Address
    BY <1>0, <2>1, FetchType DEF BlockAddr
  <2>3. /\ ValidRegion(BlockAddr, NumBytes)
        /\ touched' = [addr |-> BlockAddr, num |-> NumBytes]
    BY <1>5 DEF BusFault
  <2> QED
    BY <2>2, <2>3, TouchedValid
<1> QED
  BY <1>1, <1>2, <1>3, <1>4, <1>5
     DEF Next, ProtocolTask, vars, Receive, LinkChange, Connect, Disconnect,
         Inform, Synch, Unknown, Ignore, SetMta, UploadRefused,
         ShortUploadRefused, DownloadRefused, OutOfRange, NoAccess

\* The access check keeps every read and write of the command processor inside
\* the RAM, whatever the master sends, unless the 32-bit sum wraps.
THEOREM AccessInRamCorrect == Spec => []AccessInRam
<1>1. Init => AccessInRam
  BY RamConstants DEF Init, AccessInRam, NoBlock
<1> QED
  BY <1>1, TypeInit, TypeNext, AccessNext, PTL DEF Spec

-----------------------------------------------------------------------------
\* Refused commands.

LEMMA RefusalStep ==
    ASSUME [Next]_vars, packet # packet', reply'.pid = "ERR"
    PROVE  UNCHANGED <<session, mem, touched>>
<1>1. \A d, len : Send(Positive(d), len) => reply'.pid # "ERR"
  BY DEF Send, Positive, NoReply
<1>2. reply' # NoReply
  BY DEF NoReply
<1>3. ~UNCHANGED vars /\ ~LinkChange
  BY DEF vars, LinkChange
<1>4. ASSUME NEW p \in Packets, Receive(p) PROVE UNCHANGED <<session, mem, touched>>
  BY <1>4 DEF Receive
<1>5. /\ ~Connect /\ ~Disconnect /\ ~Inform /\ ~Ignore /\ ~SetMta /\ ~Upload
      /\ ~ShortUpload /\ ~Download /\ ~BusFault
  BY <1>1, <1>2 DEF Connect, Disconnect, Inform, Ignore, SetMta, Upload,
                    ShortUpload, Download, BusFault
<1>6. CASE Synch \/ Unknown
  BY <1>6 DEF Synch, Unknown, NoAccess
<1>7. CASE UploadRefused \/ ShortUploadRefused \/ DownloadRefused
  BY <1>7 DEF UploadRefused, ShortUploadRefused, DownloadRefused, OutOfRange,
              NoAccess
<1> QED
  BY <1>3, <1>4, <1>5, <1>6, <1>7 DEF Next, ProtocolTask

\* A command answered with an error has changed nothing.
THEOREM RefusalKeepsStateCorrect == Spec => RefusalKeepsState
<1>1. [Next]_vars =>
          [packet # packet' /\ reply'.pid = "ERR"
               => UNCHANGED <<session, mem, touched>>]_vars
  BY RefusalStep
<1> QED
  BY <1>1, PTL DEF Spec, RefusalKeepsState
=============================================================================
