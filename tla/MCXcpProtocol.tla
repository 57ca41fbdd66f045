---------------------------- MODULE MCXcpProtocol ----------------------------
\* Instances of XcpProtocol for TLC.  Bytes are 0..15 and the RAM has ten cells
\* from address 32; the largest CTO and DTO are eight bytes.
EXTENDS XcpProtocol

Pk(code, args) == [code |-> code, args |-> args]
At(a) == <<a % Radix, (a \div Radix) % Radix, (a \div (Radix * Radix)) % Radix,
           a \div (Radix * Radix * Radix)>>

\* One packet of every command that touches neither memory nor pointer.
Plain == {Pk(c, <<>>) : c \in {"CONNECT", "DISCONNECT", "GET_STATUS", "SYNCH",
             "GET_COMM_MODE_INFO", "GET_ID", "RESERVED", "LOW", "EMPTY"}}

SetMtaTo(a) == Pk("SET_MTA", <<0, 0, 1>> \o At(a))
Read(n) == Pk("UPLOAD", <<n>>)
ReadAt(a, n) == Pk("SHORT_UPLOAD", <<n, 0, 0>> \o At(a))
Store(d) == Pk("DOWNLOAD", <<Len(d)>> \o d)

\* Whole, short and inconsistent commands around both ends of the RAM; lengths
\* 0, MaxDto - 1, MaxDto and more.
MCPackets ==
    Plain
    \cup {SetMtaTo(a) : a \in {RamBase - 1, RamBase, RamEnd - 2}}
    \cup {Pk("SET_MTA", <<>>), Pk("SET_MTA", <<0, 0, 0, 2>>)}
    \cup {Read(n) : n \in {0, 1, MaxDto - 1, MaxDto, MaxDto + 1}}
    \cup {Pk("UPLOAD", <<>>)}
    \cup {ReadAt(RamBase, MaxDto), ReadAt(RamEnd - 2, 2), ReadAt(RamEnd - 1, 2),
          Pk("SHORT_UPLOAD", <<1>>)}
    \cup {Store(<<5>>), Store(<<6, 7>>), Store(<<>>), Pk("DOWNLOAD", <<3, 9>>)}

\* A tool that never connects.
UnconnectedPackets == {Pk("DISCONNECT", <<>>), SetMtaTo(RamBase), Read(1), Store(<<5>>)}

\* Blocks around the top of the address space, where the sum wraps.
Top == AddrMod - 2
TopPackets ==
    {SetMtaTo(a) : a \in {RamBase, Top - 1, Top}}
    \cup {ReadAt(a, 2) : a \in {0, RamBase - 1, RamBase, Top - 1, Top}}
    \cup {Read(1), Read(2), Store(<<5>>), Store(<<6, 7>>), Pk("DOWNLOAD", <<2, 9>>)}

AllPackets == MCPackets \cup TopPackets
=============================================================================
