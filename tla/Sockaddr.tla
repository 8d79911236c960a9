------------------------------ MODULE Sockaddr ------------------------------
(***************************************************************************)
(* Socket addresses between the bytes of a process or of the wire and the  *)
(* handler (src/pkg/tiaccoon/seccomp/sockaddr.go), on a little-endian host.*)
(* Flow label and scope are kept as the four bytes they are.               *)
(***************************************************************************)
EXTENDS Vip

AF_INET == 2
AF_INET6 == 10

\* A 16-bit field read from and written to a raw structure.
Read16(buf, at) == buf[at] + 256 * buf[at + 1]
Write16(w) == <<w % 256, w \div 256>>

\* binary.BigEndian on one side and LittleEndian on the other.
SwapBytes(w) == (w % 256) * 256 + w \div 256

\* net.IP.To4 and To16; the first gives nil, and copying it zeros, for an
\* address that is not IPv4.
To4(ip) ==
    IF Len(ip) = 4 THEN ip
    ELSE IF SubSeq(ip, 1, 12) = MappedPrefix THEN SubSeq(ip, 13, 16)
    ELSE Zeros(4)
To16(ip) == IF Len(ip) = 4 THEN MappedPrefix \o ip ELSE ip

\* RawSockaddrInet4 and RawSockaddrInet6.
SizeofInet4 == 16
SizeofInet6 == 28

\* newSockaddr returns no error.
WellFormed(buf) ==
    /\ Len(buf) >= SizeofInet4
    /\ \/ Read16(buf, 1) = AF_INET
       \/ Read16(buf, 1) = AF_INET6 /\ Len(buf) >= SizeofInet6

\* Variant: the port is not converted.
PortOf_Host(buf) == Read16(buf, 3)

PortOf(buf) == SwapBytes(Read16(buf, 3))

newSockaddr(buf) ==
    IF Read16(buf, 1) = AF_INET
    THEN [Family |-> AF_INET,
          IP |-> SubSeq(buf, 5, 8),
          Port |-> PortOf(buf),
          Flowinfo |-> Zeros(4), ScopeID |-> Zeros(4)]
    ELSE [Family |-> AF_INET6,
          IP |-> SubSeq(buf, 9, 24),
          Port |-> PortOf(buf),
          Flowinfo |-> SubSeq(buf, 5, 8),
          ScopeID |-> SubSeq(buf, 25, 28)]

newSockAddrFromIPPort(domain, ip, port, flowinfo, scopeID) ==
    IF domain = AF_INET
    THEN [Family |-> domain, IP |-> To4(ip), Port |-> port,
          Flowinfo |-> Zeros(4), ScopeID |-> Zeros(4)]
    ELSE [Family |-> domain, IP |-> To16(ip), Port |-> port,
          Flowinfo |-> flowinfo, ScopeID |-> scopeID]

sockaddrToByte(sa) ==
    IF sa.Family = AF_INET
    THEN Write16(sa.Family) \o Write16(SwapBytes(sa.Port)) \o To4(sa.IP)
         \o Zeros(8)
    ELSE Write16(sa.Family) \o Write16(SwapBytes(sa.Port)) \o sa.Flowinfo
         \o To16(sa.IP) \o sa.ScopeID

\* net.IPv4zero is the 16-byte form.
zeroSockaddr ==
    [Family |-> AF_INET, IP |-> MappedPrefix \o Zeros(4), Port |-> 0,
     Flowinfo |-> Zeros(4), ScopeID |-> Zeros(4)]
=============================================================================
