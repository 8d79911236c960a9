-------------------------------- MODULE Vip ---------------------------------
(***************************************************************************)
(* The keys under which virtual IP addresses are stored                    *)
(* (src/pkg/tiaccoon/vip/vip.go).  A net.IP is the sequence of its 4 or 16 *)
(* bytes; a uint64 is the sequence of its 8 bytes, high byte first.        *)
(***************************************************************************)
EXTENDS Integers, Sequences

Byte == 0 .. 255

Zeros(n) == [i \in 1 .. n |-> 0]

IP == [1 .. 4 -> Byte] \cup [1 .. 16 -> Byte]

\* 0:0:0:0:0:ffff:a.b.c.d, the 16 bytes that net.IPv4 makes of an IPv4 address.
MappedPrefix == Zeros(10) \o <<255, 255>>

\* net.IP.Equal: an IPv4 address and its IPv4-mapped form are the same.
Equal(a, b) ==
    \/ a = b
    \/ Len(a) = 4 /\ b = MappedPrefix \o a
    \/ Len(b) = 4 /\ a = MappedPrefix \o b

\* Variant: the mapped form is a key of its own.
IP2Int_Unmapped(ip) ==
    IF Len(ip) = 16
    THEN [upper |-> SubSeq(ip, 1, 8), lower |-> SubSeq(ip, 9, 16)]
    ELSE [upper |-> Zeros(8), lower |-> Zeros(4) \o ip]

\* The last four bytes of a mapped address, and all those of another.
IP2Int(ip) ==
    IF Len(ip) = 16
    THEN LET upper == SubSeq(ip, 1, 8)
             mapped == upper = Zeros(8) /\ ip[11] = 255 /\ ip[12] = 255
         IN  [upper |-> upper,
              lower |-> IF mapped THEN Zeros(4) \o SubSeq(ip, 13, 16)
                        ELSE SubSeq(ip, 9, 16)]
    ELSE [upper |-> Zeros(8), lower |-> Zeros(4) \o ip]
=============================================================================
