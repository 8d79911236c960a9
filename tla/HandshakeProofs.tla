-------------------------- MODULE HandshakeProofs ---------------------------
(***************************************************************************)
(* The handshake over the byte stream implements Admission, for any number *)
(* of connections, any IPv4 addresses and any history of the lists.  The   *)
(* control path answers from the same lists, in the same formats.          *)
(***************************************************************************)
EXTENDS Handshake, Rsocket, AccessControlProofs

\* What a connecting socket may be bound to.
Locals == {newSockaddr(buf) : buf \in Bound} \cup {zeroSockaddr}

\* What is read back of an address of the size that the receiver expects.
ReadBack(sa) ==
    LET back == newSockaddr(sockaddrToByte(sa))
    IN  /\ sa.Family = AF_INET
        /\ Len(To4(sa.IP)) = 4
        /\ back.IP = To4(sa.IP)
        /\ back.Port = sa.Port
        /\ IP2Int(back.IP) = IP2Int(sa.IP)

Codec ==
    \A sa \in Locals :
        /\ sockaddrToByte(sa) \in Seq(Int)
        /\ Len(sockaddrToByte(sa)) = VirtualSockAddrSize => ReadBack(sa)

-----------------------------------------------------------------------------
ClientStates == {"idle", "dialled", "refused", "sent", "bypassed", "failed"}
ServerStates ==
    {"none", "backlog", "recv", "checked", "queued", "delivered", "denied", "lost"}

\* The address at the head of the stream.
Sent(c) == IF c \in named THEN sockaddrToByte(local[c]) ELSE <<>>

\* The fields have their types.
FieldsOK ==
    /\ local \in [Conns -> Locals]
    /\ remote \in [Conns -> {newSockaddr(buf) : buf \in Dialled}]
    /\ client \in [Conns -> ClientStates]
    /\ server \in [Conns -> ServerStates]
    /\ named \subseteq Conns
    /\ wrote \in [Conns -> AppData \cup {<<>>}]
    /\ wire = [c \in Conns |-> wire[c]]
    /\ peer = [c \in Conns |-> peer[c]]

\* The two ends agree on whether there is a connection.
EndsOK == \A c \in Conns : client[c] \in {"idle", "refused"} <=> server[c] = "none"

\* An address that is sent is whole, and is sent once.
NamedOK ==
    \A c \in named :
        /\ Len(sockaddrToByte(local[c])) = VirtualSockAddrSize
        /\ client[c] \in {"sent", "bypassed", "failed"}

\* The stream that the server has not begun to read.
WireOK ==
    \A c \in Conns :
        /\ client[c] # "bypassed" => wrote[c] = <<>>
        /\ server[c] \in {"none", "backlog", "recv"} => wire[c] = Sent(c) \o wrote[c]

\* The stream after the server has read an address.
StreamOK ==
    \A c \in Conns : server[c] \in {"checked", "queued", "delivered"} =>
        /\ client[c] \in {"sent", "bypassed", "failed"}
        /\ c \in named => wire[c] = wrote[c]

\* The peer that the list is asked about is the client, or who its container says.
PeerOK ==
    \A c \in Conns : server[c] \in {"checked", "queued", "delivered"} =>
        /\ c \in named => peer[c] = newSockaddr(sockaddrToByte(local[c]))
        /\ c \notin named => peer[c].IP \in IPs

HInv ==
    ListsOK /\ FieldsOK /\ EndsOK /\ NamedOK /\ WireOK /\ StreamOK /\ PeerOK

-----------------------------------------------------------------------------
\* What a container writes is bytes.
LEMMA DataIs ==
    ASSUME NEW data \in AppData \cup {<<>>}
    PROVE  data \in Seq(Int) /\ Len(data) \in Nat /\ (Len(data) = 0 <=> data = <<>>)
<1>1. Byte \subseteq Int
  BY DEF Byte
<1>2. AppData \subseteq Seq(Int)
  BY <1>1, HandshakeAssumption, SeqMonotonic
<1>3. data \in Seq(Int)
  <2>1. CASE data = <<>>
    BY <2>1
  <2>2. CASE data # <<>>
    BY <1>2, <2>2
  <2> QED BY <2>1, <2>2
<1> QED BY <1>3, LenProperties, EmptySeq

LEMMA RestOfConcat ==
    ASSUME NEW b \in Seq(Int), NEW d \in Seq(Int), d # <<>>
    PROVE  SubSeq(b \o d, Len(b) + 1, Len(b) + Len(d)) = d
<1>1. Len(b) \in Nat /\ Len(d) \in Nat /\ Len(d) # 0
  BY LenProperties, EmptySeq
<1> DEFINE m == Len(b) + 1
           n == Len(b) + Len(d)
<1>2. m \in Len(b) + 1 .. Len(b) + Len(d) /\ n \in Len(b) + 1 .. Len(b) + Len(d)
  BY <1>1
<1>3. m - Len(b) = 1 /\ n - Len(b) = Len(d)
  BY <1>1
<1> HIDE DEF m, n
<1>4. SubSeq(b \o d, m, n) = SubSeq(d, m - Len(b), n - Len(b))
  BY <1>2, SubSeqOfConcat2
<1>5. SubSeq(d, 1, Len(d)) = d
  BY SubSeqFull, Zenon
<1> QED BY <1>3, <1>4, <1>5 DEF m, n

\* The head of a stream and the rest.
LEMMA HeadAndRest ==
    ASSUME NEW b \in Seq(Int), NEW d \in Seq(Int), Len(b) = 16
    PROVE  /\ Len(b \o d) = 16 + Len(d)
           /\ SubSeq(b \o d, 1, 16) = b
           /\ SubSeq(b \o d, 17, Len(b \o d)) = d
<1>1. Len(d) \in Nat /\ (Len(d) = 0 <=> d = <<>>)
  BY LenProperties, EmptySeq
<1>2. Len(b \o d) = 16 + Len(d)
  <2>1. Len(b \o d) = Len(b) + Len(d)
    BY ConcatProperties, Zenon
  <2> QED BY <2>1
<1>3. SubSeq(b \o d, 1, 16) = b
  <2>1. 1 \in 1 .. Len(b) /\ 16 \in 1 .. Len(b)
    OBVIOUS
  <2>2. SubSeq(b \o d, 1, 16) = SubSeq(b, 1, 16)
    BY <2>1, SubSeqOfConcat1, Zenon
  <2>3. SubSeq(b, 1, Len(b)) = b
    BY SubSeqFull
  <2> QED BY <2>2, <2>3
<1>4. SubSeq(b \o d, 17, Len(b \o d)) = d
  <2>1. CASE d = <<>>
    <3>1. 17 \in Int /\ Len(b \o d) \in Int /\ Len(b \o d) < 17
      BY <1>1, <1>2, <2>1
    <3> QED BY <2>1, <3>1, SubSeqEmpty
  <2>2. CASE d # <<>>
    <3>1. SubSeq(b \o d, Len(b) + 1, Len(b) + Len(d)) = d
      BY <2>2, RestOfConcat
    <3>2. Len(b) + 1 = 17
      OBVIOUS
    <3>5. Len(b \o d) = Len(b) + Len(d)
      BY <1>2
    <3> QED BY <3>1, <3>2, <3>5
  <2> QED BY <2>1, <2>2
<1> QED BY <1>2, <1>3, <1>4

\* If what was received is an address, it is the client's and nothing more was
\* taken; or none was sent, and the container wrote one.
LEMMA ReceivedIsSent ==
    ASSUME Codec, FieldsOK, NamedOK, WireOK,
           NEW c \in Conns, server[c] = "recv", Received(c)
    PROVE  /\ client[c] \in {"sent", "bypassed", "failed"}
           /\ c \in named => /\ Taken(c) = sockaddrToByte(local[c])
                            /\ Left(c) = wrote[c]
           /\ c \notin named => newSockaddr(Taken(c)).IP \in IPs
<1> DEFINE b == sockaddrToByte(local[c])
           d == wrote[c]
<1>1. local[c] \in Locals /\ b \in Seq(Int)
  BY DEF FieldsOK, Codec
<1>2. VirtualSockAddrSize = 16 /\ SizeofInet4 = 16
  BY DEF VirtualSockAddrSize, SizeofInet4
<1>3. /\ d \in AppData \cup {<<>>}
      /\ d \in Seq(Int) /\ Len(d) \in Nat /\ (Len(d) = 0 <=> d = <<>>)
  BY DataIs DEF FieldsOK
<1>4. Len(Taken(c)) = 16 /\ WellFormed(Taken(c))
  BY <1>2 DEF Received
<1>5. Taken(c) = SubSeq(wire[c], 1, IF Len(wire[c]) < 16 THEN Len(wire[c]) ELSE 16)
  BY <1>2 DEF Taken
<1>6. wire[c] = Sent(c) \o d
  BY DEF WireOK
<1> HIDE DEF b, d
<1>7. CASE c \in named
  <2>1. wire[c] = b \o d /\ Len(b) = 16
    BY <1>2, <1>6, <1>7 DEF Sent, NamedOK, b
  <2>2. /\ Len(b \o d) = 16 + Len(d)
        /\ SubSeq(b \o d, 1, 16) = b
        /\ SubSeq(b \o d, 17, Len(b \o d)) = d
    <3>1. b \in Seq(Int) /\ d \in Seq(Int) /\ Len(b) = 16
      BY <1>1, <1>3, <2>1
    <3> QED BY <3>1, HeadAndRest
  <2>3. Taken(c) = b
    <3>1. ~(Len(wire[c]) < 16)
      BY <1>3, <2>1, <2>2
    <3> QED BY <1>5, <2>1, <2>2, <3>1
  <2>4. Left(c) = SubSeq(wire[c], 17, Len(wire[c]))
    <3>1. Len(Taken(c)) + 1 = 17
      BY <1>4
    <3> QED BY <3>1 DEF Left
  <2>5. Left(c) = d
    BY <2>1, <2>2, <2>4
  <2> QED BY <1>7, <2>3, <2>5 DEF NamedOK, b, d
<1>8. CASE c \notin named
  <2>1. Sent(c) = <<>>
    BY <1>8 DEF Sent
  <2>2. wire[c] = d
    BY <1>3, <1>6, <2>1, ConcatEmptySeq
  <2>3. ~(Len(d) < 16)
    <3>1. ASSUME Len(d) < 16 PROVE FALSE
      <4>1. Taken(c) = SubSeq(d, 1, Len(d))
        BY <1>5, <2>2, <3>1
      <4>2. Taken(c) = d
        <5>1. SubSeq(d, 1, Len(d)) = d
          BY <1>3, SubSeqFull
        <5> QED BY <4>1, <5>1
      <4> QED BY <4>2, <3>1, <1>4, <1>3
    <3> QED BY <3>1
  <2>4. Taken(c) = SubSeq(d, 1, 16)
    BY <1>5, <2>2, <2>3
  <2>5. d # <<>> /\ d \in AppData
    BY <1>3, <2>3
  <2>6. newSockaddr(Taken(c)).IP \in IPs
    <3>1. Len(d) >= SizeofInet4 /\ WellFormed(SubSeq(d, 1, SizeofInet4))
      BY <1>2, <1>3, <1>4, <2>3, <2>4
    <3> QED BY <1>2, <2>4, <2>5, <3>1, HandshakeAssumption
  <2>7. client[c] \in {"sent", "bypassed", "failed"}
    BY <2>5 DEF WireOK, d
  <2> QED BY <1>8, <2>6, <2>7
<1> QED BY <1>7, <1>8

-----------------------------------------------------------------------------
\* The invariant holds at first.
LEMMA InitInv ==
    ASSUME AccessInit, HandshakeInit
    PROVE  HInv
<1>1. ListsOK
  BY DEF AccessInit, ListsOK
<1>2. FieldsOK
  BY DEF HandshakeInit, FieldsOK, Locals, ClientStates, ServerStates
<1>3. EndsOK /\ NamedOK /\ StreamOK /\ PeerOK
  BY DEF HandshakeInit, EndsOK, NamedOK, StreamOK, PeerOK
<1>4. WireOK
  <2>1. <<>> \o <<>> = <<>>
    OBVIOUS
  <2>2. \A c \in Conns : Sent(c) = <<>>
    BY DEF HandshakeInit, Sent
  <2> QED BY <2>1, <2>2 DEF HandshakeInit, WireOK
<1> QED BY <1>1, <1>2, <1>3, <1>4 DEF HInv

\* The connecting handler and its container keep it.
LEMMA ClientKeeps ==
    ASSUME Codec, HInv, UNCHANGED entries, NEW c \in Conns,
           \/ Connect(c) \/ ConnectRefused(c) \/ SendLocal(c) \/ AddFd(c)
           \/ Abandon(c) \/ AppWrite(c) \/ AppClose(c)
    PROVE  HInv'
<1>1. UNCHANGED <<local, remote, peer>>
  BY DEF Connect, ConnectRefused, SendLocal, AddFd, Abandon, AppWrite, AppClose
<1>2. ListsOK'
  BY DEF HInv, ListsOK
<1> USE DEF HInv, Step
<1>3. CASE Connect(c)
  <2>1. \A d \in Conns : Sent(d)' = Sent(d)
    BY <1>1, <1>3 DEF Connect, Sent
  <2>2. FieldsOK' /\ EndsOK' /\ NamedOK' /\ PeerOK' /\ StreamOK'
    BY <1>1, <1>3 DEF Connect, FieldsOK, EndsOK, NamedOK, PeerOK, StreamOK,
                      ClientStates, ServerStates
  <2>3. WireOK'
    BY <1>1, <1>3, <2>1 DEF Connect, FieldsOK, EndsOK, WireOK
  <2> QED BY <1>2, <2>2, <2>3
<1>4. CASE ConnectRefused(c)
  <2>1. \A d \in Conns : Sent(d)' = Sent(d)
    BY <1>1, <1>4 DEF ConnectRefused, Sent
  <2>2. FieldsOK' /\ EndsOK' /\ NamedOK' /\ PeerOK' /\ StreamOK'
    BY <1>1, <1>4 DEF ConnectRefused, FieldsOK, EndsOK, NamedOK, PeerOK, StreamOK,
                      ClientStates, ServerStates
  <2>3. WireOK'
    BY <1>1, <1>4, <2>1 DEF ConnectRefused, FieldsOK, EndsOK, WireOK
  <2> QED BY <1>2, <2>2, <2>3
<1>5. CASE SendLocal(c)
  <2>1. FieldsOK' /\ EndsOK' /\ NamedOK' /\ StreamOK' /\ PeerOK'
    BY <1>1, <1>5 DEF SendLocal, FieldsOK, EndsOK, NamedOK, StreamOK, PeerOK,
                      ClientStates, ServerStates
  <2>2. /\ c \notin named /\ wrote[c] = <<>> /\ wrote' = wrote /\ server' = server
        /\ \A d \in Conns : d # c => Sent(d)' = Sent(d) /\ wire'[d] = wire[d]
        /\ \A d \in Conns : client[d] = "bypassed" <=> client'[d] = "bypassed"
    BY <1>1, <1>5 DEF SendLocal, FieldsOK, NamedOK, WireOK, Sent
  <2>3. server[c] \in {"none", "backlog", "recv"} => wire'[c] = Sent(c)' \o <<>>
    <3> DEFINE b == sockaddrToByte(local[c])
    <3>1. b \in Seq(Int) /\ <<>> \in Seq(Int)
      BY DEF FieldsOK, Codec
    <3>2. <<>> \o b = b /\ b \o <<>> = b /\ <<>> \o <<>> = <<>>
      BY <3>1, ConcatEmptySeq
    <3>3. server[c] \in {"none", "backlog", "recv"} => wire[c] = <<>>
      BY <2>2, <3>2 DEF WireOK, Sent
    <3>4. \/ wire'[c] = wire[c] \o b /\ Sent(c)' = b
          \/ wire'[c] = wire[c] /\ Sent(c)' = <<>>
      BY <1>1, <1>5, <2>2 DEF SendLocal, FieldsOK, Sent
    <3> QED BY <3>2, <3>3, <3>4
  <2>4. WireOK'
    BY <2>2, <2>3 DEF WireOK
  <2> QED BY <1>2, <2>1, <2>4
<1>6. CASE AddFd(c)
  <2>1. \A d \in Conns : Sent(d)' = Sent(d)
    BY <1>1, <1>6 DEF AddFd, Sent
  <2>2. FieldsOK' /\ EndsOK' /\ NamedOK' /\ PeerOK' /\ StreamOK'
    BY <1>1, <1>6 DEF AddFd, FieldsOK, EndsOK, NamedOK, PeerOK, StreamOK,
                      ClientStates, ServerStates
  <2>3. WireOK'
    BY <1>1, <1>6, <2>1 DEF AddFd, FieldsOK, EndsOK, WireOK
  <2> QED BY <1>2, <2>2, <2>3
<1>7. CASE Abandon(c)
  <2>1. \A d \in Conns : Sent(d)' = Sent(d)
    BY <1>1, <1>7 DEF Abandon, Sent
  <2>2. FieldsOK' /\ EndsOK' /\ NamedOK' /\ PeerOK' /\ StreamOK'
    BY <1>1, <1>7 DEF Abandon, FieldsOK, EndsOK, NamedOK, PeerOK, StreamOK,
                      ClientStates, ServerStates
  <2>3. WireOK'
    BY <1>1, <1>7, <2>1 DEF Abandon, FieldsOK, EndsOK, WireOK
  <2> QED BY <1>2, <2>2, <2>3
<1>8. CASE AppWrite(c)
  <2>0. PICK data \in AppData : /\ wrote' = [wrote EXCEPT ![c] = data]
                               /\ wire' = [wire EXCEPT ![c] = @ \o data]
    BY <1>8 DEF AppWrite
  <2>1. data \in Seq(Int) /\ <<>> \in Seq(Int)
    <3>1. data \in AppData \cup {<<>>} /\ <<>> \in AppData \cup {<<>>}
      OBVIOUS
    <3> QED BY <3>1, DataIs
  <2>2. <<>> \o data = data
    BY <2>1, ConcatEmptySeq
  <2>3. /\ \A d \in Conns : Sent(d)' = Sent(d)
        /\ UNCHANGED <<client, named, server>> /\ wrote[c] = <<>>
        /\ client[c] = "bypassed"
        /\ wrote'[c] = data /\ wire'[c] = wire[c] \o data
        /\ \A d \in Conns : d # c => wrote'[d] = wrote[d] /\ wire'[d] = wire[d]
    BY <1>1, <1>8, <2>0 DEF AppWrite, FieldsOK, Sent
  <2>4. FieldsOK' /\ EndsOK' /\ NamedOK' /\ PeerOK'
    BY <1>1, <2>0, <2>3 DEF FieldsOK, EndsOK, NamedOK, PeerOK
  <2>5. WireOK'
    <3>1. Sent(c) \in Seq(Int)
      BY <2>1 DEF FieldsOK, Codec, Sent
    <3>2. Sent(c) \o <<>> = Sent(c)
      BY <3>1, ConcatEmptySeq
    <3>3. server[c] \in {"none", "backlog", "recv"} => wire[c] = Sent(c)
      BY <2>3, <3>2 DEF WireOK
    <3> QED BY <2>3, <3>3 DEF WireOK
  <2>6. StreamOK'
    BY <1>1, <2>2, <2>3 DEF StreamOK
  <2> QED BY <1>2, <2>4, <2>5, <2>6
<1>9. CASE AppClose(c)
  <2>1. \A d \in Conns : Sent(d)' = Sent(d)
    BY <1>1, <1>9 DEF AppClose, Sent
  <2>2. FieldsOK' /\ EndsOK' /\ NamedOK' /\ PeerOK' /\ StreamOK'
    BY <1>1, <1>9 DEF AppClose, FieldsOK, EndsOK, NamedOK, PeerOK, StreamOK,
                      ClientStates, ServerStates
  <2>3. WireOK'
    BY <1>1, <1>9, <2>1 DEF AppClose, FieldsOK, EndsOK, WireOK
  <2> QED BY <1>2, <2>2, <2>3
<1> QED BY <1>3, <1>4, <1>5, <1>6, <1>7, <1>8, <1>9

\* The accepting goroutine keeps it.
LEMMA ServerKeeps ==
    ASSUME Codec, HInv, UNCHANGED entries, NEW c \in Conns,
           Accept(c) \/ Recv(c) \/ RecvFails(c) \/ Decide(c) \/ Deliver(c)
    PROVE  HInv'
<1>1. /\ UNCHANGED <<local, remote, client, named, wrote>>
      /\ \A d \in Conns : Sent(d)' = Sent(d)
  BY DEF Accept, Recv, RecvFails, Decide, Deliver, Sent
<1>2. ListsOK'
  BY DEF HInv, ListsOK
<1> USE DEF HInv, Serve
<1>3. CASE Accept(c)
  <2>1. FieldsOK' /\ EndsOK' /\ NamedOK' /\ PeerOK' /\ StreamOK'
    BY <1>1, <1>3 DEF Accept, FieldsOK, EndsOK, NamedOK, PeerOK, StreamOK, ServerStates
  <2>2. WireOK'
    BY <1>1, <1>3 DEF Accept, FieldsOK, WireOK, ServerStates
  <2> QED BY <1>2, <2>1, <2>2
<1>4. CASE Recv(c)
  <2>1. FieldsOK' /\ EndsOK' /\ NamedOK' /\ WireOK'
    BY <1>1, <1>4 DEF Recv, FieldsOK, EndsOK, NamedOK, WireOK, ServerStates
  <2>2. PeerOK' /\ StreamOK'
    <3>1. peer'[c] = newSockaddr(Taken(c)) /\ wire'[c] = Left(c)
      BY <1>4 DEF Recv, FieldsOK
    <3>2. /\ client[c] \in {"sent", "bypassed", "failed"}
          /\ c \in named => /\ Taken(c) = sockaddrToByte(local[c])
                           /\ Left(c) = wrote[c]
          /\ c \notin named => newSockaddr(Taken(c)).IP \in IPs
      BY <1>4, ReceivedIsSent DEF Recv
    <3>3. PeerOK'
      BY <1>1, <1>4, <3>1, <3>2 DEF Recv, FieldsOK, PeerOK
    <3>4. StreamOK'
      BY <1>1, <1>4, <3>1, <3>2 DEF Recv, FieldsOK, StreamOK
    <3> QED BY <3>3, <3>4
  <2> QED BY <1>2, <2>1, <2>2
<1>5. CASE RecvFails(c)
  <2>1. FieldsOK' /\ EndsOK' /\ NamedOK' /\ PeerOK' /\ StreamOK'
    BY <1>1, <1>5 DEF RecvFails, FieldsOK, EndsOK, NamedOK, PeerOK, StreamOK, ServerStates
  <2>2. WireOK'
    BY <1>1, <1>5 DEF RecvFails, FieldsOK, WireOK, ServerStates
  <2> QED BY <1>2, <2>1, <2>2
<1>6. CASE Decide(c)
  <2>1. FieldsOK' /\ EndsOK' /\ NamedOK' /\ PeerOK' /\ StreamOK'
    BY <1>1, <1>6 DEF Decide, FieldsOK, EndsOK, NamedOK, PeerOK, StreamOK, ServerStates
  <2>2. WireOK'
    BY <1>1, <1>6 DEF Decide, FieldsOK, WireOK, ServerStates
  <2> QED BY <1>2, <2>1, <2>2
<1>7. CASE Deliver(c)
  <2>1. FieldsOK' /\ EndsOK' /\ NamedOK' /\ PeerOK' /\ StreamOK'
    BY <1>1, <1>7 DEF Deliver, FieldsOK, EndsOK, NamedOK, PeerOK, StreamOK, ServerStates
  <2>2. WireOK'
    BY <1>1, <1>7 DEF Deliver, FieldsOK, WireOK, ServerStates
  <2> QED BY <1>2, <2>1, <2>2
<1> QED BY <1>3, <1>4, <1>5, <1>6, <1>7
-----------------------------------------------------------------------------
\* The managers' updates do not concern it.
LEMMA ListsStepKeeps ==
    ASSUME HInv, AccessNext, UNCHANGED handshakeVars
    PROVE  HInv'
<1>1. ListsOK'
  BY ListsKept DEF HInv
<1>2. \A d \in Conns : Sent(d)' = Sent(d)
  BY DEF handshakeVars, Sent
<1>3. FieldsOK' /\ EndsOK' /\ NamedOK' /\ WireOK' /\ StreamOK' /\ PeerOK'
  BY <1>2 DEF HInv, handshakeVars, FieldsOK, EndsOK, NamedOK, WireOK, StreamOK, PeerOK
<1> QED BY <1>1, <1>3 DEF HInv

\* The steps of HandshakeSpec.
HandshakeStep ==
    \/ HandshakeNext /\ UNCHANGED entries
    \/ AccessNext /\ UNCHANGED handshakeVars

LEMMA StepKeeps ==
    ASSUME Codec, HInv, [HandshakeStep]_<<entries, handshakeVars>>
    PROVE  HInv'
<1>1. CASE UNCHANGED <<entries, handshakeVars>>
  <2>1. \A d \in Conns : Sent(d)' = Sent(d)
    BY <1>1 DEF handshakeVars, Sent
  <2> QED BY <1>1, <2>1
    DEF handshakeVars, HInv, ListsOK, FieldsOK, EndsOK, NamedOK, WireOK, StreamOK,
        PeerOK
<1>2. CASE HandshakeNext /\ UNCHANGED entries
  <2>1. PICK c \in Conns :
           \/ Connect(c) \/ ConnectRefused(c) \/ SendLocal(c) \/ AddFd(c)
           \/ Abandon(c) \/ AppWrite(c) \/ AppClose(c)
           \/ Accept(c) \/ Recv(c) \/ RecvFails(c) \/ Decide(c) \/ Deliver(c)
    BY <1>2 DEF HandshakeNext
  <2> QED BY <1>2, <2>1, ClientKeeps, ServerKeeps
<1>3. CASE AccessNext /\ UNCHANGED handshakeVars
  BY <1>3, ListsStepKeeps
<1> QED BY <1>1, <1>2, <1>3 DEF HandshakeStep

-----------------------------------------------------------------------------
\* What Admission sees of a state.
From == [c \in Conns |-> local[c].IP]
To == [c \in Conns |-> remote[c].IP]
Anonymous == {c \in Conns : client[c] \notin {"idle", "dialled", "refused"}} \ named
Stages == [c \in Conns |-> Stage(c)]

\* A connection that is not touched keeps its stage.
LEMMA StageKept ==
    ASSUME NEW c, server'[c] = server[c],
           client'[c] = "refused" <=> client[c] = "refused"
    PROVE  Stage(c)' = Stage(c)
  BY DEF Stage

\* At first every connection is new.
LEMMA InitAdmission ==
    ASSUME AccessInit, HandshakeInit
    PROVE  Connections!Init
<1>1. Rulings \in [{"client", "server"} -> [IPs -> BOOLEAN]]
  <2>1. \A list \in ListNames, ip \in IPs : Apply(list, ip) = defaultPolicy
    <3>1. DOMAIN <<>> = {}
      OBVIOUS
    <3> QED BY <3>1, ApplyIsRuling DEF AccessInit, Ruling
  <2> QED BY <2>1, AccessControlAssumption DEF Rulings, ListNames
<1>2. From \in [Conns -> IPs]
  BY HandshakeAssumption DEF HandshakeInit, From
<1>3. To \in [Conns -> IPs]
  BY HandshakeAssumption DEF HandshakeInit, To
<1>4. Stages = [c \in Conns |-> "new"]
  BY DEF HandshakeInit, Stages, Stage
<1>5. Anonymous = {}
  BY DEF HandshakeInit, Anonymous
<1> QED BY <1>1, <1>2, <1>3, <1>4, <1>5
     DEF Connections!Init, Rulings, From, To, Anonymous, Stages

\* One connection moves and the others stay.
LEMMA Moves ==
    ASSUME NEW c \in Conns, NEW new, Stage(c)' = new,
           \A d \in Conns : d # c => Stage(d)' = Stage(d)
    PROVE  Stages' = [Stages EXCEPT ![c] = new]
  BY DEF Stages

\* What the lists say of an address of a connection.
LEMMA RulingOf ==
    ASSUME NEW list \in ListNames, NEW ip \in IPs
    PROVE  Rulings[list][ip] = Apply(list, ip)
  BY DEF Rulings

\* Every step of the two ends is a step of Admission.
LEMMA StepAdmission ==
    ASSUME Codec, HInv, UNCHANGED entries, NEW c \in Conns,
           \/ Connect(c) \/ ConnectRefused(c) \/ SendLocal(c) \/ AddFd(c)
           \/ Abandon(c) \/ AppWrite(c) \/ AppClose(c)
           \/ Accept(c) \/ Recv(c) \/ RecvFails(c) \/ Decide(c) \/ Deliver(c)
    PROVE  [Connections!Next]_<<Rulings, From, To, Anonymous, Stages>>
<1>1. UNCHANGED <<Rulings, From, To>>
  BY DEF Connect, ConnectRefused, SendLocal, AddFd, Abandon, AppWrite, AppClose,
         Accept, Recv, RecvFails, Decide, Deliver,
         Rulings, Apply, Inner, From, To
<1>2. \A d \in Conns : d # c => Stage(d)' = Stage(d)
  <2>1. \A d \in Conns : d # c => server'[d] = server[d] /\ client'[d] = client[d]
    BY DEF HInv, FieldsOK, Step, Serve, Connect, ConnectRefused, SendLocal, AddFd,
           Abandon, AppWrite, AppClose, Accept, Recv, RecvFails, Decide, Deliver
  <2> QED BY <2>1, StageKept
<1>3. SUFFICES \/ Stage(c)' = Stage(c) /\ UNCHANGED Anonymous
               \/ /\ Stages[c] # "new" /\ Stage(c)' = Stage(c)
                  /\ Anonymous' = Anonymous \cup {c}
               \/ /\ UNCHANGED Anonymous
                  /\ \/ /\ Stages[c] = "new" /\ Stage(c)' = "dialled"
                        /\ Rulings["client"][To[c]]
                     \/ /\ Stages[c] = "dialled" /\ Stage(c)' = "admitted"
                        /\ \E ip \in IF c \in Anonymous THEN IPs ELSE {From[c]} :
                              Rulings["server"][ip]
                     \/ Stages[c] = "admitted" /\ Stage(c)' = "delivered"
                     \/ Stages[c] # "delivered" /\ Stage(c)' = "dropped"
  <2>1. ASSUME Stage(c)' = Stage(c)
        PROVE  UNCHANGED Stages
    BY <1>2, <2>1 DEF Stages
  <2>2. ASSUME NEW new, Stage(c)' = new
        PROVE  Stages' = [Stages EXCEPT ![c] = new]
    BY <1>2, <2>2, Moves
  <2> QED BY <1>1, <2>1, <2>2
       DEF Connections!Next, Connections!Dial, Connections!Admit, Connections!Deliver,
           Connections!Withhold, Connections!Drop, Connections!Move,
           Rulings, From, To, Anonymous, Stages
<1>4. Stages[c] = Stage(c)
  BY DEF Stages
<1>5. To[c] \in IPs /\ From[c] \in IPs /\ To[c] = remote[c].IP /\ From[c] = local[c].IP
  <2>1. remote[c] \in {newSockaddr(buf) : buf \in Dialled} /\ local[c] \in Locals
    BY DEF HInv, FieldsOK
  <2> QED BY <2>1, HandshakeAssumption DEF Locals, To, From
<1>6. CASE Connect(c)
  <2>1. Rulings["client"][To[c]]
    BY <1>5, <1>6, RulingOf DEF Connect, ListNames
  <2>2. Stage(c) = "new" /\ Stage(c)' = "dialled" /\ UNCHANGED Anonymous
    BY <1>6 DEF Connect, Step, HInv, FieldsOK, EndsOK, Stage, Anonymous
  <2> QED BY <1>4, <2>1, <2>2
<1>7. CASE ConnectRefused(c)
  <2>1. Stage(c) = "new" /\ Stage(c)' = "dropped" /\ UNCHANGED Anonymous
    BY <1>7 DEF ConnectRefused, Step, HInv, FieldsOK, EndsOK, Stage, Anonymous
  <2> QED BY <1>4, <2>1
<1>8. CASE SendLocal(c) \/ AddFd(c) \/ Abandon(c) \/ AppWrite(c) \/ AppClose(c)
  <2>1. /\ server'[c] = server[c]
        /\ client'[c] = "refused" <=> client[c] = "refused"
    BY <1>8 DEF SendLocal, AddFd, Abandon, AppWrite, AppClose, Step, HInv, FieldsOK
  <2>2. Stage(c)' = Stage(c)
    BY <2>1, StageKept
  <2>3. CASE SendLocal(c) \/ Abandon(c)
    <3>1. client[c] \in {"dialled", "sent"} /\ Stages[c] # "new"
      <4>1. client[c] \in {"dialled", "sent"}
        BY <2>3 DEF SendLocal, Abandon, Step
      <4>2. server[c] \in ServerStates \ {"none"}
        BY <4>1 DEF HInv, FieldsOK, EndsOK
      <4> QED BY <1>4, <4>1, <4>2 DEF Stage, ServerStates
    <3>2. UNCHANGED Anonymous \/ Anonymous' = Anonymous \cup {c}
      BY <2>3 DEF SendLocal, Abandon, Step, HInv, FieldsOK, NamedOK, Anonymous
    <3> QED BY <2>2, <3>1, <3>2
  <2>4. CASE AddFd(c) \/ AppWrite(c) \/ AppClose(c)
    <3>1. UNCHANGED Anonymous
      BY <2>4 DEF AddFd, AppWrite, AppClose, Step, HInv, FieldsOK, Anonymous
    <3> QED BY <2>2, <3>1
  <2> QED BY <1>8, <2>3, <2>4
<1>9. CASE Accept(c) \/ Recv(c)
  <2>1. /\ Stage(c) = "dialled" /\ Stage(c)' = "dialled" /\ UNCHANGED Anonymous
    BY <1>9 DEF Accept, Recv, Serve, HInv, FieldsOK, Stage, Anonymous
  <2> QED BY <2>1
<1>10. CASE RecvFails(c)
  <2>1. Stage(c) = "dialled" /\ Stage(c)' = "dropped" /\ UNCHANGED Anonymous
    BY <1>10 DEF RecvFails, Serve, HInv, FieldsOK, Stage, Anonymous
  <2> QED BY <1>4, <2>1
<1>11. CASE Decide(c)
  <2>1. /\ Stage(c) = "dialled" /\ Stage(c)' = IF Verdict(c) THEN "admitted" ELSE "dropped"
        /\ UNCHANGED Anonymous
    BY <1>11 DEF Decide, Serve, HInv, FieldsOK, Stage, Anonymous
  <2>2. ASSUME c \in named
        PROVE  Verdict(c) = Rulings["server"][From[c]] /\ c \notin Anonymous
    <3>1. IP2Int(peer[c].IP) = IP2Int(local[c].IP)
      <4>1. local[c] \in Locals
        BY DEF HInv, FieldsOK
      <4>2. /\ Len(sockaddrToByte(local[c])) = VirtualSockAddrSize
            /\ peer[c] = newSockaddr(sockaddrToByte(local[c]))
        BY <1>11, <2>2 DEF Decide, Serve, HInv, PeerOK, NamedOK
      <4> QED BY <4>1, <4>2 DEF Codec, ReadBack
    <3>2. Verdict(c) = Apply("server", local[c].IP)
      BY <3>1 DEF Verdict, Apply
    <3> QED BY <1>5, <2>2, <3>2, RulingOf DEF ListNames, Anonymous
  <2>3. ASSUME c \notin named
        PROVE  /\ c \in Anonymous
               /\ Verdict(c) => \E ip \in IPs : Rulings["server"][ip]
    <3>1. client[c] \in {"sent", "bypassed", "failed"} /\ peer[c].IP \in IPs
      BY <1>11, <2>3 DEF Decide, Serve, HInv, StreamOK, PeerOK
    <3>2. Verdict(c) = Rulings["server"][peer[c].IP]
      BY <3>1, RulingOf DEF Verdict, ListNames
    <3> QED BY <2>3, <3>1, <3>2 DEF Anonymous
  <2> QED BY <1>4, <2>1, <2>2, <2>3
<1>12. CASE Deliver(c)
  <2>1. Stage(c) = "admitted" /\ Stage(c)' = "delivered" /\ UNCHANGED Anonymous
    BY <1>12 DEF Deliver, Serve, HInv, FieldsOK, Stage, Anonymous
  <2> QED BY <1>4, <2>1
<1> QED BY <1>6, <1>7, <1>8, <1>9, <1>10, <1>11, <1>12

\* An update of a list sets the verdict of one address.
LEMMA DecideAdmission ==
    ASSUME KeysSeparate, HInv, AccessNext, UNCHANGED handshakeVars
    PROVE  Connections!Next
<1>1. UNCHANGED <<From, To, Anonymous, Stages>>
  BY DEF handshakeVars, From, To, Anonymous, Stages, Stage
<1>2. \E list \in ListNames, ip \in IPs, verdict \in BOOLEAN :
         Policy!Set(list, ip, verdict)
  <2>1. ASSUME NEW list \in ListNames, NEW ip \in IPs, NEW verdict \in BOOLEAN,
               UpsertPolicy(list, ip, verdict)
        PROVE  Policy!Set(list, ip, verdict)
    BY <2>1, UpsertRuling, SetsPolicy DEF HInv
  <2>2. ASSUME NEW list \in ListNames, NEW ip \in IPs, RemovePolicy(list, ip)
        PROVE  Policy!Set(list, ip, defaultPolicy)
    BY <2>2, RemoveRuling, SetsPolicy DEF HInv
  <2> QED BY <2>1, <2>2, AccessControlAssumption DEF AccessNext
<1>3. PICK list \in {"client", "server"}, ip \in IPs, verdict \in BOOLEAN :
         Policy!Set(list, ip, verdict)
  BY <1>2 DEF ListNames
<1>4. Connections!Decide(list, ip, verdict)
  BY <1>3 DEF Policy!Set, Connections!Decide
<1>5. UNCHANGED <<[c \in Conns |-> local[c].IP],
                  [c \in Conns |-> remote[c].IP],
                  {c \in Conns : client[c] \notin {"idle", "dialled", "refused"}}
                     \ named,
                  [c \in Conns |-> Stage(c)]>>
  BY <1>1, Zenon DEF From, To, Anonymous, Stages
<1> QED BY <1>3, <1>4, <1>5, Zenon DEF Connections!Next

\* Whatever the bytes are, if they bring the address across, the handshake
\* implements Admission.
LEMMA Implements ==
    ASSUME KeysSeparate, Codec
    PROVE  HandshakeSpec => Admitted
<1>1. AccessInit /\ HandshakeInit => HInv /\ Connections!Init
  BY InitInv, InitAdmission
<1>2. HInv /\ [HandshakeStep]_<<entries, handshakeVars>> => HInv'
  BY StepKeeps
<1>3. HInv /\ [HandshakeStep]_<<entries, handshakeVars>>
         => [Connections!Next]_<<Rulings, From, To, Anonymous, Stages>>
  <2> SUFFICES ASSUME HInv, [HandshakeStep]_<<entries, handshakeVars>>
               PROVE  [Connections!Next]_<<Rulings, From, To, Anonymous, Stages>>
    OBVIOUS
  <2>1. CASE UNCHANGED <<entries, handshakeVars>>
    BY <2>1 DEF handshakeVars, Rulings, Apply, Inner, From, To, Anonymous, Stages, Stage
  <2>2. CASE HandshakeNext /\ UNCHANGED entries
    BY <2>2, StepAdmission DEF HandshakeNext
  <2>3. CASE AccessNext /\ UNCHANGED handshakeVars
    BY <2>3, DecideAdmission
  <2> QED BY <2>1, <2>2, <2>3 DEF HandshakeStep
<1> QED BY <1>1, <1>2, <1>3, PTL
     DEF HandshakeSpec, HandshakeStep, Admitted, Connections!Spec,
         Rulings, From, To, Anonymous, Stages

-----------------------------------------------------------------------------
(* The bytes: Codec holds of the addresses the program makes. *)

\* The parts of a formatted address, one after the other.
LEMMA ZerosInt ==
    ASSUME NEW n \in Nat
    PROVE  Zeros(n) \in Seq(Int) /\ Len(Zeros(n)) = n
<1>1. Zeros(n) \in Seq(Byte) /\ Len(Zeros(n)) = n
  BY ZerosAre
<1>2. Byte \subseteq Int
  BY DEF Byte
<1> QED BY <1>1, <1>2, SeqMonotonic

LEMMA Lengths ==
    ASSUME NEW s \in Seq(Int), NEW t \in Seq(Int)
    PROVE  s \o t \in Seq(Int) /\ Len(s \o t) = Len(s) + Len(t)
  BY ConcatProperties, Zenon

\* The parts of a formatted AF_INET address.
InetParts(s, a, b, ip, z) ==
    /\ a \in Seq(Int) /\ Len(a) = 2 /\ b \in Seq(Int) /\ Len(b) = 2
    /\ ip \in Seq(Int) /\ Len(ip) = 4 /\ z \in Seq(Int) /\ Len(z) = 8
    /\ s = a \o b \o ip \o z

LEMMA FourParts ==
    ASSUME NEW whole, NEW a, NEW b, NEW ip, NEW z, InetParts(whole, a, b, ip, z)
    PROVE  /\ whole \in Seq(Int)
           /\ whole[1] = a[1] /\ whole[2] = a[2]
           /\ whole[3] = b[1] /\ whole[4] = b[2]
           /\ SubSeq(whole, 5, 8) = ip
<1>0. /\ a \in Seq(Int) /\ Len(a) = 2 /\ b \in Seq(Int) /\ Len(b) = 2
      /\ ip \in Seq(Int) /\ Len(ip) = 4 /\ z \in Seq(Int) /\ Len(z) = 8
      /\ whole = a \o b \o ip \o z
  BY DEF InetParts
<1> DEFINE ab == a \o b
           abi == ab \o ip
           s == abi \o z
<1>1. ab \in Seq(Int) /\ Len(ab) = 4
  <2>1. ab \in Seq(Int) /\ Len(ab) = Len(a) + Len(b)
    BY <1>0, Lengths, Zenon
  <2> HIDE DEF ab
  <2> QED BY <1>0, <2>1
<1>2. ab[1] = a[1] /\ ab[2] = a[2] /\ ab[3] = b[1] /\ ab[4] = b[2]
  <2>1. \A i \in 1 .. Len(a) + Len(b) :
           ab[i] = IF i <= Len(a) THEN a[i] ELSE b[i - Len(a)]
    BY <1>0, ConcatProperties, Zenon
  <2> HIDE DEF ab
  <2> QED BY <1>0, <2>1
<1> HIDE DEF ab
<1>3. abi \in Seq(Int) /\ Len(abi) = 8
  <2>1. abi \in Seq(Int) /\ Len(abi) = Len(ab) + Len(ip)
    BY <1>0, <1>1, Lengths, Zenon
  <2> HIDE DEF abi
  <2> QED BY <1>0, <1>1, <2>1
<1>4. abi[1] = ab[1] /\ abi[2] = ab[2] /\ abi[3] = ab[3] /\ abi[4] = ab[4]
  <2>1. \A i \in 1 .. Len(ab) + Len(ip) :
           abi[i] = IF i <= Len(ab) THEN ab[i] ELSE ip[i - Len(ab)]
    BY <1>0, <1>1, ConcatProperties, Zenon
  <2> HIDE DEF abi
  <2> QED BY <1>0, <1>1, <2>1
<1>5. SubSeq(abi, 5, 8) = ip
  <2>1. 5 \in Len(ab) + 1 .. Len(ab) + Len(ip) /\ 8 \in Len(ab) + 1 .. Len(ab) + Len(ip)
    BY <1>0, <1>1
  <2>2. SubSeq(abi, 5, 8) = SubSeq(ip, 5 - Len(ab), 8 - Len(ab))
    <3>1. /\ 5 \in Len(ab) + 1 .. Len(ab) + Len(ip)
          /\ 8 \in Len(ab) + 1 .. Len(ab) + Len(ip)
          /\ ab \in Seq(Int) /\ ip \in Seq(Int)
      BY <1>0, <1>1, <2>1
    <3> QED BY <3>1, SubSeqOfConcat2
  <2>3. 5 - Len(ab) = 1 /\ 8 - Len(ab) = Len(ip)
    BY <1>0, <1>1
  <2>4. SubSeq(ip, 1, Len(ip)) = ip
    BY <1>0, SubSeqFull
  <2> QED BY <2>2, <2>3, <2>4, Zenon
<1> HIDE DEF abi
<1>6. s \in Seq(Int)
  BY <1>0, <1>3, Lengths, Zenon
<1>7. s[1] = abi[1] /\ s[2] = abi[2] /\ s[3] = abi[3] /\ s[4] = abi[4]
  <2>1. \A i \in 1 .. Len(abi) + Len(z) :
           s[i] = IF i <= Len(abi) THEN abi[i] ELSE z[i - Len(abi)]
    BY <1>0, <1>3, ConcatProperties, Zenon
  <2> HIDE DEF s
  <2> QED BY <1>0, <1>3, <2>1
<1>8. SubSeq(s, 5, 8) = ip
  <2>1. 5 \in 1 .. Len(abi) /\ 8 \in 1 .. Len(abi)
    BY <1>3
  <2>2. SubSeq(s, 5, 8) = SubSeq(abi, 5, 8)
    BY <1>0, <1>3, <2>1, SubSeqOfConcat1, Zenon
  <2> QED BY <1>5, <2>2, Zenon
<1>9. s = whole
  BY <1>0 DEF s, abi, ab
<1> HIDE DEF s
<1> QED BY <1>2, <1>4, <1>6, <1>7, <1>8, <1>9, Zenon

\* And those of an AF_INET6 address.
Inet6Parts(whole, a, b, f, ip, z) ==
    /\ a \in Seq(Int) /\ Len(a) = 2 /\ b \in Seq(Int) /\ Len(b) = 2
    /\ f \in Seq(Int) /\ Len(f) = 4 /\ ip \in Seq(Int) /\ Len(ip) = 16
    /\ z \in Seq(Int) /\ Len(z) = 4
    /\ whole = a \o b \o f \o ip \o z

LEMMA FiveParts ==
    ASSUME NEW whole, NEW a, NEW b, NEW f, NEW ip, NEW z,
           Inet6Parts(whole, a, b, f, ip, z)
    PROVE  whole \in Seq(Int) /\ Len(whole) = 28
<1>0. /\ a \in Seq(Int) /\ Len(a) = 2 /\ b \in Seq(Int) /\ Len(b) = 2
      /\ f \in Seq(Int) /\ Len(f) = 4 /\ ip \in Seq(Int) /\ Len(ip) = 16
      /\ z \in Seq(Int) /\ Len(z) = 4
      /\ whole = a \o b \o f \o ip \o z
  BY DEF Inet6Parts
<1> DEFINE ab == a \o b
           abf == ab \o f
           abfi == abf \o ip
           s == abfi \o z
<1>1. ab \in Seq(Int) /\ Len(ab) = Len(a) + Len(b)
  BY <1>0, Lengths, Zenon
<1> HIDE DEF ab
<1>2. abf \in Seq(Int) /\ Len(abf) = Len(ab) + Len(f)
  BY <1>0, <1>1, Lengths, Zenon
<1> HIDE DEF abf
<1>3. abfi \in Seq(Int) /\ Len(abfi) = Len(abf) + Len(ip)
  BY <1>0, <1>2, Lengths, Zenon
<1> HIDE DEF abfi
<1>4. s \in Seq(Int) /\ Len(s) = Len(abfi) + Len(z)
  BY <1>0, <1>3, Lengths, Zenon
<1> HIDE DEF s
<1>5. Len(s) = 28
  BY <1>0, <1>1, <1>2, <1>3, <1>4
<1>6. s = whole
  BY <1>0, Zenon DEF s, abfi, abf, ab
<1> QED BY <1>4, <1>5, <1>6, Zenon

\* A 16-bit field.
LEMMA FieldIs ==
    ASSUME NEW w \in Int
    PROVE  Write16(w) \in Seq(Int) /\ Len(Write16(w)) = 2
  BY DEF Write16

\* Port numbers.
Port == {p \in Nat : p < 256 * 256}

LEMMA WordIs ==
    ASSUME NEW x \in Byte, NEW y \in Byte
    PROVE  x + 256 * y \in Port
  BY DEF Byte, Port

LEMMA SwapIs ==
    ASSUME NEW w \in Port
    PROVE  SwapBytes(w) \in Port
  BY DEF SwapBytes, Port

\* A part of a raw address.
LEMMA PartIs ==
    ASSUME NEW buf \in Seq(Byte), NEW m \in 1 .. Len(buf), NEW n \in m .. Len(buf)
    PROVE  /\ SubSeq(buf, m, n) \in Seq(Byte) /\ SubSeq(buf, m, n) \in Seq(Int)
           /\ Len(SubSeq(buf, m, n)) = n - m + 1
<1>1. \A i \in m .. n : buf[i] \in Byte
  BY ElementOfSeq
<1>2. SubSeq(buf, m, n) \in Seq(Byte) /\ Len(SubSeq(buf, m, n)) = n - m + 1
  BY <1>1, SubSeqProperties
<1>3. Byte \subseteq Int
  BY DEF Byte
<1> QED BY <1>2, <1>3, SeqMonotonic

\* The port crosses in network order and comes back.
LEMMA PortCrosses ==
    ASSUME NEW p \in Port
    PROVE  LET w == SwapBytes(p) IN SwapBytes((w % 256) + 256 * (w \div 256)) = p
<1> DEFINE w == SwapBytes(p)
<1>1. w \in Int /\ w % 256 = p \div 256 /\ w \div 256 = p % 256
  BY DEF SwapBytes, Port
<1> HIDE DEF w
<1>2. (w % 256) + 256 * (w \div 256) = w
  BY <1>1
<1>3. SwapBytes(w) = p
  BY <1>1 DEF SwapBytes, Port
<1> QED BY <1>2, <1>3 DEF w

\* A formatted AF_INET address is read back with the IP in its short form.
LEMMA FormattedInet ==
    ASSUME NEW sa, sa.Family = AF_INET, sa.Port \in Port,
           To4(sa.IP) \in Seq(Int), Len(To4(sa.IP)) = 4
    PROVE  /\ sockaddrToByte(sa) \in Seq(Int)
           /\ newSockaddr(sockaddrToByte(sa)).IP = To4(sa.IP)
           /\ newSockaddr(sockaddrToByte(sa)).Port = sa.Port
<1> DEFINE a == Write16(sa.Family)
           b == Write16(SwapBytes(sa.Port))
           s == a \o b \o To4(sa.IP) \o Zeros(8)
<1>1. a \in Seq(Int) /\ Len(a) = 2 /\ a[1] = 2 /\ a[2] = 0
  BY DEF Write16, AF_INET
<1> DEFINE w == SwapBytes(sa.Port)
<1>2. b \in Seq(Int) /\ Len(b) = 2 /\ b[1] = w % 256 /\ b[2] = w \div 256
  <2>1. w \in Int
    BY DEF SwapBytes, Port
  <2> HIDE DEF w
  <2>2. Write16(w) \in Seq(Int) /\ Len(Write16(w)) = 2
    BY <2>1, FieldIs
  <2>3. Write16(w)[1] = w % 256 /\ Write16(w)[2] = w \div 256
    BY DEF Write16
  <2> QED BY <2>2, <2>3 DEF w
<1>3. Zeros(8) \in Seq(Int) /\ Len(Zeros(8)) = 8
  BY ZerosInt
<1>4. s = sockaddrToByte(sa)
  BY DEF sockaddrToByte
<1> HIDE DEF a, b
<1>5. /\ s \in Seq(Int) /\ s[1] = a[1] /\ s[2] = a[2]
      /\ s[3] = b[1] /\ s[4] = b[2] /\ SubSeq(s, 5, 8) = To4(sa.IP)
  <2> DEFINE ip == To4(sa.IP)
             z == Zeros(8)
  <2>1. ip \in Seq(Int) /\ Len(ip) = 4 /\ z \in Seq(Int) /\ Len(z) = 8
    BY <1>3
  <2>2. s = a \o b \o ip \o z
    OBVIOUS
  <2> HIDE DEF ip, z, s
  <2>3. a \in Seq(Int) /\ Len(a) = 2 /\ b \in Seq(Int) /\ Len(b) = 2
    BY <1>1, <1>2
  <2>4. /\ s \in Seq(Int) /\ s[1] = a[1] /\ s[2] = a[2]
        /\ s[3] = b[1] /\ s[4] = b[2] /\ SubSeq(s, 5, 8) = ip
    <3>1. InetParts(s, a, b, ip, z)
      BY <2>1, <2>2, <2>3, Zenon DEF InetParts
    <3> QED BY <3>1, FourParts
  <2> QED BY <2>4 DEF ip
<1> HIDE DEF s
<1>6. Read16(s, 1) = AF_INET
  <2>1. s[1] = 2 /\ s[1 + 1] = 0
    BY <1>1, <1>5
  <2> QED BY <2>1 DEF Read16, AF_INET
<1>7. newSockaddr(s).IP = SubSeq(s, 5, 8)
  BY <1>6 DEF newSockaddr
<1>8. newSockaddr(s).Port = sa.Port
  <2>1. newSockaddr(s).Port = PortOf(s)
    BY <1>6 DEF newSockaddr
  <2>2. Read16(s, 3) = (w % 256) + 256 * (w \div 256)
    <3>1. s[3] = w % 256 /\ s[3 + 1] = w \div 256
      BY <1>2, <1>5
    <3> HIDE DEF w
    <3> QED BY <3>1, Zenon DEF Read16
  <2>3. SwapBytes((w % 256) + 256 * (w \div 256)) = sa.Port
    BY PortCrosses
  <2> QED BY <2>1, <2>2, <2>3, Zenon DEF PortOf
<1> QED BY <1>4, <1>5, <1>7, <1>8, Zenon

\* It has the size of a RawSockaddrInet4.
LEMMA FormattedLength ==
    ASSUME NEW sa, sa.Family = AF_INET, sa.Port \in Port,
           To4(sa.IP) \in Seq(Int), Len(To4(sa.IP)) = 4
    PROVE  Len(sockaddrToByte(sa)) = 16
<1> DEFINE a == Write16(sa.Family)
           b == Write16(SwapBytes(sa.Port))
           ip == To4(sa.IP)
           z == Zeros(8)
<1>1. sockaddrToByte(sa) = a \o b \o ip \o z
  BY DEF sockaddrToByte
<1>2. /\ a \in Seq(Int) /\ Len(a) = 2 /\ b \in Seq(Int) /\ Len(b) = 2
      /\ z \in Seq(Int) /\ Len(z) = 8
  <2>1. sa.Family \in Int /\ SwapBytes(sa.Port) \in Int
    BY DEF AF_INET, SwapBytes, Port
  <2> QED BY <2>1, FieldIs, ZerosInt
<1>3. ip \in Seq(Int) /\ Len(ip) = 4
  OBVIOUS
<1> HIDE DEF a, b, ip, z
<1>4. a \o b \in Seq(Int) /\ Len(a \o b) = Len(a) + Len(b)
  BY <1>2, Lengths, Zenon
<1>5. a \o b \o ip \in Seq(Int) /\ Len(a \o b \o ip) = Len(a \o b) + Len(ip)
  BY <1>3, <1>4, Lengths, Zenon
<1>6. Len(a \o b \o ip \o z) = Len(a \o b \o ip) + Len(z)
  BY <1>2, <1>5, Lengths, Zenon
<1> QED BY <1>1, <1>2, <1>3, <1>4, <1>5, <1>6

\* The zero address, written in its long form.
LEMMA CodecZero ==
    /\ sockaddrToByte(zeroSockaddr) \in Seq(Int)
    /\ ReadBack(zeroSockaddr)
<1>1. Zeros(4) \in [1 .. 4 -> Byte]
  BY DEF Zeros, Byte
<1>2. /\ zeroSockaddr.Family = AF_INET /\ zeroSockaddr.Port \in Port
      /\ zeroSockaddr.IP = Mapped(Zeros(4))
  BY DEF zeroSockaddr, Mapped, Port
<1>3. To4(Mapped(Zeros(4))) \in {SubSeq(Mapped(Zeros(4)), 13, 16), Zeros(4)}
  <2>1. Len(Mapped(Zeros(4))) = 16
    BY <1>1, MappedIs
  <2>2. Len(Mapped(Zeros(4))) # 4
    BY <2>1
  <2> QED BY <2>2, Zenon DEF To4
<1>4. To4(zeroSockaddr.IP) = Zeros(4)
  BY <1>1, <1>2, <1>3, MappedIs
<1>5. Zeros(4) \in Seq(Int) /\ Len(Zeros(4)) = 4
  BY ZerosInt
<1>6. /\ sockaddrToByte(zeroSockaddr) \in Seq(Int)
      /\ newSockaddr(sockaddrToByte(zeroSockaddr)).IP = Zeros(4)
      /\ newSockaddr(sockaddrToByte(zeroSockaddr)).Port = zeroSockaddr.Port
  BY <1>2, <1>4, <1>5, FormattedInet
<1>7. IP2Int(Zeros(4)) = IP2Int(zeroSockaddr.IP)
  BY <1>1, <1>2, KeyOf
<1> QED BY <1>2, <1>4, <1>5, <1>6, <1>7 DEF ReadBack

\* The address of a bind.
LEMMA CodecBound ==
    ASSUME NEW buf \in Seq(Byte), WellFormed(buf)
    PROVE  LET sa == newSockaddr(buf) IN
           /\ sockaddrToByte(sa) \in Seq(Int)
           /\ Len(sockaddrToByte(sa)) = VirtualSockAddrSize => ReadBack(sa)
<1> DEFINE sa == newSockaddr(buf)
<1>1. Len(buf) \in Nat /\ Len(buf) >= 16
  BY DEF WellFormed, SizeofInet4
<1>2. sa.Port \in Port
  <2>1. buf[3] \in Byte /\ buf[3 + 1] \in Byte
    BY <1>1, ElementOfSeq
  <2>2. Read16(buf, 3) \in Port
    BY <2>1, WordIs, Zenon DEF Read16
  <2>3. PortOf(buf) \in Port
    BY <2>2, SwapIs, Zenon DEF PortOf
  <2> QED BY <2>3 DEF newSockaddr
<1>3. CASE Read16(buf, 1) = AF_INET
  <2>1. sa.Family = AF_INET /\ sa.IP = SubSeq(buf, 5, 8)
    BY <1>3 DEF newSockaddr
  <2>2. sa.IP \in Seq(Int) /\ Len(sa.IP) = 4
    <3>1. 5 \in 1 .. Len(buf) /\ 8 \in 5 .. Len(buf)
      BY <1>1
    <3>2. SubSeq(buf, 5, 8) \in Seq(Int) /\ Len(SubSeq(buf, 5, 8)) = 8 - 5 + 1
      BY <3>1, PartIs, Zenon
    <3> QED BY <2>1, <3>2
  <2>3. To4(sa.IP) = sa.IP
    BY <2>2 DEF To4
  <2> HIDE DEF sa
  <2>4. /\ sockaddrToByte(sa) \in Seq(Int)
        /\ newSockaddr(sockaddrToByte(sa)).IP = To4(sa.IP)
        /\ newSockaddr(sockaddrToByte(sa)).Port = sa.Port
    BY <1>2, <2>1, <2>2, <2>3, FormattedInet
  <2>5. ReadBack(sa)
    BY <2>1, <2>2, <2>3, <2>4 DEF ReadBack
  <2> QED BY <2>4, <2>5 DEF sa
<1>4. CASE Read16(buf, 1) # AF_INET
  <2>1. Len(buf) >= 28
    BY <1>4 DEF WellFormed, SizeofInet6
  <2>2. /\ sa.Family = AF_INET6 /\ sa.IP = SubSeq(buf, 9, 24)
        /\ sa.Flowinfo = SubSeq(buf, 5, 8) /\ sa.ScopeID = SubSeq(buf, 25, 28)
    BY <1>4 DEF newSockaddr
  <2>3. sa.Flowinfo \in Seq(Int) /\ Len(sa.Flowinfo) = 4
    <3>1. 5 \in 1 .. Len(buf) /\ 8 \in 5 .. Len(buf)
      BY <1>1
    <3>2. SubSeq(buf, 5, 8) \in Seq(Int) /\ Len(SubSeq(buf, 5, 8)) = 8 - 5 + 1
      BY <3>1, PartIs, Zenon
    <3> QED BY <2>2, <3>2
  <2>4. sa.IP \in Seq(Int) /\ Len(sa.IP) = 16
    <3>1. 9 \in 1 .. Len(buf) /\ 24 \in 9 .. Len(buf)
      BY <1>1, <2>1
    <3>2. SubSeq(buf, 9, 24) \in Seq(Int) /\ Len(SubSeq(buf, 9, 24)) = 24 - 9 + 1
      BY <3>1, PartIs, Zenon
    <3> QED BY <2>2, <3>2
  <2>5. sa.ScopeID \in Seq(Int) /\ Len(sa.ScopeID) = 4
    <3>1. 25 \in 1 .. Len(buf) /\ 28 \in 25 .. Len(buf)
      BY <1>1, <2>1
    <3>2. SubSeq(buf, 25, 28) \in Seq(Int) /\ Len(SubSeq(buf, 25, 28)) = 28 - 25 + 1
      BY <3>1, PartIs, Zenon
    <3> QED BY <2>2, <3>2
  <2> HIDE DEF sa
  <2>6. To16(sa.IP) = sa.IP
    BY <2>4 DEF To16
  <2> DEFINE a == Write16(sa.Family)
             b == Write16(SwapBytes(sa.Port))
  <2>7. a \in Seq(Int) /\ Len(a) = 2
    BY <2>2, FieldIs DEF AF_INET6
  <2>8. b \in Seq(Int) /\ Len(b) = 2
    <3>1. SwapBytes(sa.Port) \in Int
      BY <1>2 DEF SwapBytes, Port
    <3> QED BY <3>1, FieldIs
  <2>9. sockaddrToByte(sa) = a \o b \o sa.Flowinfo \o sa.IP \o sa.ScopeID
    <3>1. sa.Family # AF_INET
      BY <2>2 DEF AF_INET, AF_INET6
    <3> QED BY <2>6, <3>1, Zenon DEF sockaddrToByte
  <2> HIDE DEF a, b
  <2>10. sockaddrToByte(sa) \in Seq(Int) /\ Len(sockaddrToByte(sa)) = 28
    <3>1. Inet6Parts(sockaddrToByte(sa), a, b, sa.Flowinfo, sa.IP, sa.ScopeID)
      BY <2>3, <2>4, <2>5, <2>7, <2>8, <2>9, Zenon DEF Inet6Parts
    <3> QED BY <3>1, FiveParts, Zenon
  <2>11. Len(sockaddrToByte(sa)) # VirtualSockAddrSize
    BY <2>10 DEF VirtualSockAddrSize, SizeofInet4
  <2> QED BY <2>10, <2>11 DEF sa
<1> QED BY <1>3, <1>4

LEMMA CodecHolds == Codec
<1> SUFFICES ASSUME NEW sa \in Locals
             PROVE  /\ sockaddrToByte(sa) \in Seq(Int)
                    /\ Len(sockaddrToByte(sa)) = VirtualSockAddrSize => ReadBack(sa)
  BY DEF Codec
<1>1. CASE sa = zeroSockaddr
  BY <1>1, CodecZero
<1>2. ASSUME NEW buf \in Bound, sa = newSockaddr(buf)
      PROVE  /\ sockaddrToByte(sa) \in Seq(Int)
             /\ Len(sockaddrToByte(sa)) = VirtualSockAddrSize => ReadBack(sa)
  <2>1. buf \in Seq(Byte) /\ WellFormed(buf)
    BY HandshakeAssumption
  <2> QED BY <1>2, <2>1, CodecBound
<1> QED BY <1>1, <1>2 DEF Locals

\* The two ends of every connection implement Admission: although the server's
\* daemon knows its peer only by the bytes at the head of the stream, and the
\* lists change on the way, what it admits is what its list allows under the
\* address of the client's own socket, whatever IPv4 addresses are bound and
\* dialled, in either family and form, and whatever the containers write, 16
\* bytes that are an address included.  It is so of every connection on which
\* the client's handler sent the address; behind an AF_INET6 socket, or when
\* sendto(2) fails, it does not, and the container's word is taken.
THEOREM HandshakeAdmits ==
    ASSUME IPs \subseteq IPv4Forms
    PROVE  HandshakeSpec => Admitted
BY IPv4KeysSeparate, CodecHolds, Implements

\* The accepting container reads what the connecting one wrote from its first
\* byte, whatever addresses are bound and whatever it writes, on every connection
\* on which the client's handler sent the address.
THEOREM StreamStaysIntact == HandshakeSpec => []StreamIntact
<1>1. AccessInit /\ HandshakeInit => HInv
  BY InitInv
<1>2. HInv /\ [HandshakeStep]_<<entries, handshakeVars>> => HInv'
  BY CodecHolds, StepKeeps
<1>3. HInv => StreamIntact
  BY DEF HInv, FieldsOK, StreamOK, StreamIntact
<1> QED BY <1>1, <1>2, <1>3, PTL DEF HandshakeSpec, HandshakeStep

\* accept and getpeername give the server's container, byte for byte, the name
\* that getsockname gives the client's, whatever was bound and in either form,
\* and whatever is written, if the address was sent and the server listens on an
\* AF_INET address.
THEOREM PeersAreNamed ==
    ASSUME newSockaddr(ServerVAddr).Family = AF_INET
    PROVE  HandshakeSpec => []PeerNamed
<1>1. AccessInit /\ HandshakeInit => HInv
  BY InitInv
<1>2. HInv /\ [HandshakeStep]_<<entries, handshakeVars>> => HInv'
  BY CodecHolds, StepKeeps
<1>3. HInv => PeerNamed
  <2> SUFFICES ASSUME HInv, NEW c \in named, server[c] = "delivered"
               PROVE  PeerName(c) = sockaddrToByte(local[c])
    BY DEF PeerNamed
  <2>1. c \in Conns /\ local[c] \in Locals
    BY DEF HInv, FieldsOK
  <2>2. /\ Len(sockaddrToByte(local[c])) = VirtualSockAddrSize
        /\ peer[c] = newSockaddr(sockaddrToByte(local[c]))
    BY <2>1 DEF HInv, PeerOK, NamedOK
  <2>3. /\ local[c].Family = AF_INET /\ Len(peer[c].IP) = 4
        /\ peer[c].IP = To4(local[c].IP) /\ peer[c].Port = local[c].Port
    BY <2>1, <2>2, CodecHolds DEF Codec, ReadBack
  <2>4. To4(peer[c].IP) = peer[c].IP /\ To4(To4(peer[c].IP)) = peer[c].IP
    BY <2>3 DEF To4
  <2> DEFINE own == newSockaddr(ServerVAddr)
             sa == newSockAddrFromIPPort(own.Family, peer[c].IP, peer[c].Port,
                                         own.Flowinfo, own.ScopeID)
  <2>5. sa.Family = AF_INET /\ sa.IP = To4(peer[c].IP) /\ sa.Port = peer[c].Port
    BY DEF newSockAddrFromIPPort
  <2>6. PeerName(c) = sockaddrToByte(sa)
    BY DEF PeerName
  <2> HIDE DEF sa
  <2>7. sockaddrToByte(sa) =
           Write16(AF_INET) \o Write16(SwapBytes(local[c].Port)) \o To4(local[c].IP)
           \o Zeros(8)
    BY <2>3, <2>4, <2>5, Zenon DEF sockaddrToByte
  <2>8. sockaddrToByte(local[c]) =
           Write16(AF_INET) \o Write16(SwapBytes(local[c].Port)) \o To4(local[c].IP)
           \o Zeros(8)
    BY <2>3, Zenon DEF sockaddrToByte
  <2> QED BY <2>6, <2>7, <2>8
<1> QED BY <1>1, <1>2, <1>3, PTL DEF HandshakeSpec, HandshakeStep

-----------------------------------------------------------------------------
(* The control path. *)

\* The library asks about formatted AF_INET addresses.
AsksAddresses ==
    \A buf \in Questioned :
        WellFormed(buf) /\ sockaddrToByte(newSockaddr(buf)) = buf

\* Taking a sequence and what follows it apart.
LEMMA Apart ==
    ASSUME NEW s \in Seq(Int), NEW t \in Seq(Int)
    PROVE  /\ SubSeq(s \o t, 1, Len(s)) = s
           /\ SubSeq(s \o t, Len(s) + 1, Len(s) + Len(t)) = t
<1>1. Len(s) \in Nat /\ Len(t) \in Nat
  OBVIOUS
<1>2. SubSeq(s \o t, 1, Len(s)) = s
  <2>1. CASE s = <<>>
    <3>1. Len(s) = 0
      BY <2>1
    <3>2. SubSeq(s \o t, 1, 0) = <<>>
      BY SubSeqEmpty
    <3> QED BY <2>1, <3>1, <3>2
  <2>2. CASE s # <<>>
    <3>1. 1 \in 1 .. Len(s) /\ Len(s) \in 1 .. Len(s)
      BY <2>2, EmptySeq
    <3>2. SubSeq(s \o t, 1, Len(s)) = SubSeq(s, 1, Len(s))
      BY <3>1, SubSeqOfConcat1, Zenon
    <3>3. SubSeq(s, 1, Len(s)) = s
      BY SubSeqFull
    <3> QED BY <3>2, <3>3
  <2> QED BY <2>1, <2>2
<1>3. SubSeq(s \o t, Len(s) + 1, Len(s) + Len(t)) = t
  <2>1. CASE t = <<>>
    <3>1. Len(t) = 0 /\ Len(s) + Len(t) < Len(s) + 1
      BY <1>1, <2>1
    <3>2. SubSeq(s \o t, Len(s) + 1, Len(s) + Len(t)) = <<>>
      BY <1>1, <3>1, SubSeqEmpty
    <3> QED BY <2>1, <3>2
  <2>2. CASE t # <<>>
    <3>1. Len(t) >= 1
      BY <2>2, EmptySeq
    <3> DEFINE m == Len(s) + 1
               n == Len(s) + Len(t)
    <3>2. /\ m \in Len(s) + 1 .. Len(s) + Len(t)
          /\ n \in Len(s) + 1 .. Len(s) + Len(t)
          /\ m - Len(s) = 1 /\ n - Len(s) = Len(t)
      BY <1>1, <3>1
    <3> HIDE DEF m, n
    <3>3. SubSeq(s \o t, m, n) = SubSeq(t, m - Len(s), n - Len(s))
      BY <3>2, SubSeqOfConcat2
    <3>4. SubSeq(t, 1, Len(t)) = t
      BY SubSeqFull
    <3> QED BY <3>2, <3>3, <3>4, Zenon DEF m, n
  <2> QED BY <2>1, <2>2
<1> QED BY <1>2, <1>3, Zenon

LEMMA CommandsAre ==
    /\ PING \in Seq(Int) /\ Len(PING) = 4
    /\ MVIP \in Seq(Int) /\ Len(MVIP) = 4
    /\ ACON \in Seq(Int) /\ Len(ACON) = 4
    /\ PING # MVIP /\ PING # ACON /\ MVIP # ACON
<1>1. PING[1] = 80 /\ MVIP[1] = 77 /\ ACON[1] = 65
  BY DEF PING, MVIP, ACON
<1> QED BY <1>1 DEF PING, MVIP, ACON

LEMMA RepliesAre ==
    /\ OK \in Seq(Int) /\ Len(OK) = 2 /\ SubSeq(OK, 1, 2) = OK
    /\ NO \in Seq(Int) /\ ER \in Seq(Int)
<1>1. OK \in Seq(Int) /\ Len(OK) = 2 /\ NO \in Seq(Int) /\ ER \in Seq(Int)
  BY DEF OK, NO, ER
<1>2. SubSeq(OK, 1, Len(OK)) = OK
  BY <1>1, SubSeqFull
<1> QED BY <1>1, <1>2

\* The address of a question.
LEMMA AskedIs ==
    ASSUME NEW a \in Questioned
    PROVE  /\ a \in Seq(Int) /\ Len(a) = 16
           /\ ACON \o a \in Seq(Int) /\ Len(ACON \o a) = 20
           /\ SubSeq(ACON \o a, 1, 4) = ACON
           /\ SubSeq(ACON \o a, 5, 20) = a
<1>1. a \in Seq(Int) /\ Len(a) = 16
  <2>1. a \in [1 .. 16 -> Byte]
    BY RsocketAssumption
  <2>2. a \in Seq(Byte) /\ Len(a) = 16
    BY <2>1, Bytes
  <2>3. Byte \subseteq Int
    BY DEF Byte
  <2> QED BY <2>2, <2>3, SeqMonotonic
<1>2. ACON \in Seq(Int) /\ Len(ACON) = 4
  BY CommandsAre
<1>3. ACON \o a \in Seq(Int) /\ Len(ACON \o a) = Len(ACON) + Len(a)
  BY <1>1, <1>2, Lengths, Zenon
<1>4. SubSeq(ACON \o a, 1, 4) = ACON /\ SubSeq(ACON \o a, 5, 20) = a
  <2>1. /\ SubSeq(ACON \o a, 1, Len(ACON)) = ACON
        /\ SubSeq(ACON \o a, Len(ACON) + 1, Len(ACON) + Len(a)) = a
    BY <1>1, <1>2, Apart, Zenon
  <2>2. Len(ACON) = 4 /\ Len(ACON) + 1 = 5 /\ Len(ACON) + Len(a) = 20
    BY <1>1, <1>2
  <2> QED BY <2>1, <2>2, Zenon
<1>6. Len(ACON) + Len(a) = 20
  BY <1>1, <1>2
<1> QED BY <1>1, <1>3, <1>4, <1>6, Zenon

LEMMA FullIs ==
    ASSUME NEW s, Len(s) = 4 \/ Len(s) = 20
    PROVE  s # <<>>
<1>1. Len(<<>>) = 0 /\ 0 # 4 /\ 0 # 20
  OBVIOUS
<1> QED BY <1>1

LEMMA QuestionIs ==
    ASSUME NEW q \in Questions
    PROVE  /\ q \in Seq(Int) /\ q # <<>>
           /\ \/ q \in {PING, MVIP} /\ Len(q) = 4
              \/ Len(q) = 20 /\ \E a \in Questioned : q = ACON \o a
<1>1. CASE q \in {PING, MVIP}
  <2>1. q \in Seq(Int) /\ Len(q) = 4
    BY <1>1, CommandsAre
  <2>2. q # <<>>
    BY <2>1, FullIs
  <2> QED BY <1>1, <2>1, <2>2
<1>2. CASE \E a \in Questioned : q = ACON \o a
  <2>1. q \in Seq(Int) /\ Len(q) = 20
    BY <1>2, AskedIs
  <2>2. q # <<>>
    BY <2>1, FullIs
  <2> QED BY <1>2, <2>1, <2>2
<1> QED BY <1>1, <1>2 DEF Questions

LEMMA IntPartIs ==
    ASSUME NEW buf \in Seq(Int), NEW m \in 1 .. Len(buf), NEW n \in m .. Len(buf)
    PROVE  /\ SubSeq(buf, m, n) \in Seq(Int)
           /\ Len(SubSeq(buf, m, n)) = n - m + 1
<1>1. \A i \in m .. n : buf[i] \in Int
  BY ElementOfSeq
<1> QED BY <1>1, SubSeqProperties

\* A question is read whole, over whatever the buffer held.
LEMMA BufferHolds ==
    ASSUME NEW buf \in Seq(Int), Len(buf) = 20, NEW q \in Questions
    PROVE  /\ Overwritten(buf, q) \in Seq(Int) /\ Len(Overwritten(buf, q)) = 20
           /\ q \in {PING, MVIP} => SubSeq(Overwritten(buf, q), 1, 4) = q
           /\ q \notin {PING, MVIP} => Overwritten(buf, q) = q
<1> DEFINE rest == SubSeq(buf, Len(q) + 1, 20)
<1>1. Overwritten(buf, q) = q \o rest
  BY DEF Overwritten
<1>2. q \in Seq(Int) /\ Len(q) \in {4, 20} /\ (q \in {PING, MVIP} <=> Len(q) = 4)
  <2>1. /\ q \in Seq(Int)
        /\ (Len(q) = 4 /\ q \in {PING, MVIP}) \/ Len(q) = 20
    BY QuestionIs
  <2>2. q \in {PING, MVIP} => Len(q) = 4
    BY CommandsAre
  <2>3. 4 # 20
    OBVIOUS
  <2> QED BY <2>1, <2>2, <2>3
<1>3. CASE q \in {PING, MVIP}
  <2>1. Len(q) = 4
    BY <1>2, <1>3
  <2>2. rest = SubSeq(buf, 5, 20)
    BY <2>1
  <2>3. 5 \in 1 .. Len(buf) /\ 20 \in 5 .. Len(buf) /\ 20 - 5 + 1 = 16
    OBVIOUS
  <2>4. rest \in Seq(Int) /\ Len(rest) = 16
    BY <2>2, <2>3, IntPartIs
  <2> HIDE DEF rest
  <2>5. q \o rest \in Seq(Int) /\ Len(q \o rest) = Len(q) + Len(rest)
    BY <1>2, <2>4, Lengths, Zenon
  <2>6. SubSeq(q \o rest, 1, 4) = q
    <3>1. SubSeq(q \o rest, 1, Len(q)) = q
      BY <1>2, <2>4, Apart, Zenon
    <3> QED BY <2>1, <3>1, Zenon
  <2>8. Len(q) + Len(rest) = 20
    BY <2>1, <2>4
  <2> QED BY <1>1, <1>3, <2>5, <2>6, <2>8
<1>4. CASE q \notin {PING, MVIP}
  <2>1. Len(q) = 20
    BY <1>2, <1>4
  <2>2. rest = <<>>
    <3>1. rest = SubSeq(buf, 21, 20)
      BY <2>1
    <3>2. 21 \in Int /\ 20 \in Int /\ 20 < 21
      OBVIOUS
    <3> HIDE DEF rest
    <3> QED BY <3>1, <3>2, SubSeqEmpty
  <2> HIDE DEF rest
  <2>3. q \o rest = q
    BY <1>2, <2>2, ConcatEmptySeq
  <2> QED BY <1>1, <1>2, <1>4, <2>1, <2>3
<1> QED BY <1>3, <1>4
\* The host's address comes back as it was.
LEMMA HostNamed ==
    ASSUME ownVIP \in IPv4Forms
    PROVE  LET sa == newSockAddrFromIPPort(AF_INET, ownVIP, 0, Zeros(4), Zeros(4))
           IN  /\ sockaddrToByte(sa) \in Seq(Int)
               /\ Len(sockaddrToByte(sa)) = 16
               /\ Equal(newSockaddr(sockaddrToByte(sa)).IP, ownVIP)
<1> DEFINE sa == newSockAddrFromIPPort(AF_INET, ownVIP, 0, Zeros(4), Zeros(4))
<1>1. PICK x \in [1 .. 4 -> Byte] : ownVIP = x \/ ownVIP = Mapped(x)
  BY DEF IPv4Forms
<1>2. x \in Seq(Int) /\ Len(x) = 4
  <2>1. x \in Seq(Byte) /\ Len(x) = 4
    BY Bytes
  <2>2. Byte \subseteq Int
    BY DEF Byte
  <2> QED BY <2>1, <2>2, SeqMonotonic
<1>3. To4(x) = x /\ To4(ownVIP) = x
  <2>1. To4(x) = x
    BY <1>2 DEF To4
  <2>2. ASSUME ownVIP = Mapped(x) PROVE To4(ownVIP) = x
    <3>1. Len(Mapped(x)) = 16 /\ SubSeq(Mapped(x), 13, 16) = x
      BY MappedIs
    <3>2. SubSeq(Mapped(x), 1, 12) = MappedPrefix
      <4>1. MappedPrefix \in Seq(Byte) /\ Len(MappedPrefix) = 12
        BY PrefixIs
      <4>2. MappedPrefix \in Seq(Int)
        <5>1. Byte \subseteq Int
          BY DEF Byte
        <5> QED BY <4>1, <5>1, SeqMonotonic
      <4>3. SubSeq(MappedPrefix \o x, 1, Len(MappedPrefix)) = MappedPrefix
        BY <1>2, <4>2, Apart, Zenon
      <4> QED BY <4>1, <4>3, Zenon DEF Mapped
    <3>3. Len(Mapped(x)) # 4
      BY <3>1
    <3> QED BY <2>2, <3>1, <3>2, <3>3, Zenon DEF To4
  <2> QED BY <1>1, <2>1, <2>2
<1>4. /\ sa.Family = AF_INET /\ sa.IP = x /\ sa.Port = 0 /\ sa.Port \in Port
  <2>1. sa = [Family |-> AF_INET, IP |-> x, Port |-> 0,
              Flowinfo |-> Zeros(4), ScopeID |-> Zeros(4)]
    BY <1>3 DEF newSockAddrFromIPPort
  <2> QED BY <2>1 DEF Port
<1> HIDE DEF sa
<1>5. /\ sockaddrToByte(sa) \in Seq(Int)
      /\ newSockaddr(sockaddrToByte(sa)).IP = x
  BY <1>2, <1>3, <1>4, FormattedInet
<1>6. Len(sockaddrToByte(sa)) = 16
  BY <1>2, <1>3, <1>4, FormattedLength
<1>7. Equal(x, ownVIP)
  BY <1>1, <1>2 DEF Equal, Mapped
<1> QED BY <1>5, <1>6, <1>7 DEF sa

\* An answer with an address is OK and the address.
LEMMA AddressReply ==
    ASSUME NEW t \in Seq(Int), Len(t) = 16
    PROVE  /\ OK \o t \in Seq(Int)
           /\ SubSeq(OK \o t, 1, 2) = OK
           /\ SubSeq(OK \o t, 3, 18) = t
<1>1. OK \in Seq(Int) /\ Len(OK) = 2 /\ SubSeq(OK, 1, 2) = OK
  BY RepliesAre
<1>2. OK \o t \in Seq(Int) /\ Len(OK \o t) = Len(OK) + Len(t)
  BY <1>1, Lengths, Zenon
<1>3. SubSeq(OK \o t, 1, 2) = OK /\ SubSeq(OK \o t, 3, 18) = t
  <2>1. /\ SubSeq(OK \o t, 1, Len(OK)) = OK
        /\ SubSeq(OK \o t, Len(OK) + 1, Len(OK) + Len(t)) = t
    BY <1>1, Apart, Zenon
  <2>2. Len(OK) = 2 /\ Len(OK) + 1 = 3 /\ Len(OK) + Len(t) = 18
    BY <1>1
  <2> QED BY <2>1, <2>2, Zenon
<1> QED BY <1>2, <1>3

\* What the buffer holds of a question is answered as the question should be.
LEMMA AnswerIs ==
    ASSUME AsksAddresses, ownVIP \in IPv4Forms, NEW q \in Questions,
           NEW b, q \in {PING, MVIP} => SubSeq(b, 1, 4) = q,
           q \notin {PING, MVIP} => b = q
    PROVE  Response(b) \in Seq(Int) /\ Truthful(q, Response(b))
<1>1. CASE q = PING
  <2>1. Response(b) = OK
    <3>1. SubSeq(b, 1, 4) = PING
      BY <1>1
    <3> QED BY <3>1, CommandsAre DEF Response
  <2>2. Len(q) = 4 /\ q # MVIP
    BY <1>1, CommandsAre
  <2> QED BY <2>1, <2>2, RepliesAre DEF Truthful
<1>2. CASE q = MVIP
  <2> DEFINE t == sockaddrToByte(
                     newSockAddrFromIPPort(AF_INET, ownVIP, 0, Zeros(4), Zeros(4)))
  <2>1. Response(b) = OK \o t
    BY <1>2, CommandsAre DEF Response
  <2>2. t \in Seq(Int) /\ Len(t) = 16 /\ Equal(newSockaddr(t).IP, ownVIP)
    BY HostNamed
  <2>3. Len(q) = 4
    BY <1>2, CommandsAre
  <2> HIDE DEF t
  <2>4. /\ OK \o t \in Seq(Int) /\ SubSeq(OK \o t, 1, 2) = OK
        /\ SubSeq(OK \o t, 3, 18) = t
    BY <2>2, AddressReply
  <2>5. ~(Len(q) > 4)
    BY <2>3
  <2> QED BY <2>1, <2>2, <2>4, <2>5 DEF Truthful
<1>3. CASE q \notin {PING, MVIP}
  <2>1. PICK a \in Questioned : q = ACON \o a
    BY <1>3, QuestionIs
  <2>2. Len(q) = 20 /\ SubSeq(q, 1, 4) = ACON /\ SubSeq(q, 5, 20) = a
    BY <2>1, AskedIs
  <2>3. b = q /\ Subject(b) = a
    BY <1>3, <2>2 DEF Subject
  <2>4. WellFormed(a) /\ sockaddrToByte(newSockaddr(a)) = a
    BY DEF AsksAddresses
  <2>5. Response(b) = IF Apply("server", newSockaddr(a).IP) THEN OK ELSE NO
    <3>1. SubSeq(b, 1, 4) = ACON
      BY <2>2, <2>3
    <3>2. ACON # PING /\ ACON # MVIP
      BY CommandsAre
    <3> QED BY <2>3, <2>4, <3>1, <3>2 DEF Response
  <2>6. Len(q) > 4
    BY <2>2
  <2>7. Truthful(q, Response(b))
    BY <2>2, <2>4, <2>5, <2>6 DEF Truthful
  <2>8. Response(b) \in Seq(Int)
    BY <2>5, RepliesAre
  <2> QED BY <2>7, <2>8
<1> QED BY <1>1, <1>2, <1>3

-----------------------------------------------------------------------------
\* What a channel's question and its copies are.
Exchanged == Questions \cup {<<>>}

Channel ==
    [up : BOOLEAN, held : BOOLEAN, buf : Seq(Int),
     asked : Seq(Int), in : Seq(Int), out : Seq(Int)]

\* A question is on its way, or read, or answered.
ChannelOK(ch) ==
    /\ ch.buf \in Seq(Int) /\ Len(ch.buf) = 20
    /\ ch.asked \in Exchanged
    /\ ch.in \in {ch.asked, <<>>}
    /\ ch.in # <<>> \/ ch.asked = <<>> => ch.out = <<>>

ChannelsOK ==
    /\ chan \in [Channels -> Channel]
    /\ \A k \in Channels : ChannelOK(chan[k])

LEMMA InitChannels ==
    ASSUME RsocketInit
    PROVE  ChannelsOK
<1>1. <<>> \in Seq(Int)
  OBVIOUS
<1>2. Zeros(20) \in Seq(Int) /\ Len(Zeros(20)) = 20
  BY ZerosInt
<1> DEFINE z == Zeros(20)
<1>3. NoChannel = [up |-> FALSE, held |-> FALSE, buf |-> z,
                   asked |-> <<>>, in |-> <<>>, out |-> <<>>]
  BY DEF NoChannel
<1> HIDE DEF z
<1>4. z \in Seq(Int) /\ Len(z) = 20
  BY <1>2 DEF z
<1>5. ChannelOK(NoChannel)
  BY <1>3, <1>4 DEF ChannelOK, Exchanged
<1>6. NoChannel \in Channel
  BY <1>1, <1>3, <1>4 DEF Channel
<1> QED BY <1>5, <1>6 DEF RsocketInit, ChannelsOK

\* The goroutine of a channel answers what was asked in it.
LEMMA HandleAnswers ==
    ASSUME AsksAddresses, ownVIP \in IPv4Forms, ChannelsOK,
           NEW k \in Channels, HandleRsocket(k)
    PROVE  ChannelsOK' /\ Truthful(chan[k].asked, chan'[k].out)
<1> DEFINE q == chan[k].asked
           b == Overwritten(chan[k].buf, chan[k].in)
<1>1. q \in Questions /\ chan[k].in = q
  BY DEF ChannelsOK, ChannelOK, Exchanged, HandleRsocket
<1>2. /\ b \in Seq(Int) /\ Len(b) = 20
      /\ q \in {PING, MVIP} => SubSeq(b, 1, 4) = q
      /\ q \notin {PING, MVIP} => b = q
  <2>1. chan[k].buf \in Seq(Int) /\ Len(chan[k].buf) = 20
    BY DEF ChannelsOK, ChannelOK
  <2>2. b = Overwritten(chan[k].buf, q)
    BY <1>1
  <2> HIDE DEF b, q
  <2> QED BY <1>1, <2>1, <2>2, BufferHolds
<1>3. chan' = [chan EXCEPT ![k].buf = b, ![k].in = <<>>, ![k].out = Response(b)]
  BY DEF HandleRsocket
<1>4. q \in Seq(Int) /\ q # <<>>
  BY <1>1, QuestionIs
<1> HIDE DEF b
<1>5. Response(b) \in Seq(Int) /\ Truthful(q, Response(b))
  BY <1>1, <1>2, AnswerIs
<1>6. <<>> \in Seq(Int)
  OBVIOUS
<1>7. chan'[k].out = Response(b)
  BY <1>3 DEF ChannelsOK, Channel
<1>8. ChannelsOK'
  BY <1>1, <1>2, <1>3, <1>4, <1>5, <1>6 DEF ChannelsOK, ChannelOK, Exchanged, Channel
<1> QED BY <1>5, <1>7, <1>8

\* Everyone else keeps the channels in order and answers nothing.
LEMMA ChannelsKept ==
    ASSUME ChannelsOK, NEW k \in Channels,
           \/ \E works \in BOOLEAN : Initialize(k, works)
           \/ \E question \in Questions : Ask(k, question)
           \/ Learn(k)
    PROVE  /\ ChannelsOK'
           /\ \A j \in Channels : chan'[j].out \in {chan[j].out, <<>>}
<1>1. <<>> \in Seq(Int)
  OBVIOUS
<1>2. ASSUME NEW works \in BOOLEAN, Initialize(k, works)
      PROVE  /\ ChannelsOK'
             /\ \A j \in Channels : chan'[j].out = chan[j].out
  <2>1. \A j \in Channels :
           \/ chan'[j] = chan[j]
           \/ \E up, held \in BOOLEAN :
                 chan'[j] = [chan[j] EXCEPT !.up = up, !.held = held]
    <3> SUFFICES ASSUME NEW j \in Channels
                 PROVE  \/ chan'[j] = chan[j]
                        \/ \E up, held \in BOOLEAN :
                              chan'[j] = [chan[j] EXCEPT !.up = up, !.held = held]
      OBVIOUS
    <3>1. chan'[j] = IF j = k THEN [chan[j] EXCEPT !.up = TRUE, !.held = works]
                     ELSE IF works THEN [chan[j] EXCEPT !.held = FALSE]
                     ELSE chan[j]
      BY <1>2 DEF Initialize
    <3>2. chan[j].up \in BOOLEAN
      BY DEF ChannelsOK, Channel
    <3>3. [chan[j] EXCEPT !.held = FALSE]
             = [chan[j] EXCEPT !.up = chan[j].up, !.held = FALSE]
      BY DEF ChannelsOK, Channel
    <3> QED BY <3>1, <3>2, <3>3
  <2>2. chan' = [j \in Channels |-> chan'[j]]
    BY <1>2 DEF Initialize
  <2>3. \A j \in Channels :
           /\ chan'[j] \in Channel
           /\ chan'[j].buf = chan[j].buf /\ chan'[j].asked = chan[j].asked
           /\ chan'[j].in = chan[j].in /\ chan'[j].out = chan[j].out
    <3> SUFFICES ASSUME NEW j \in Channels
                 PROVE  /\ chan'[j] \in Channel
                        /\ chan'[j].buf = chan[j].buf /\ chan'[j].asked = chan[j].asked
                        /\ chan'[j].in = chan[j].in /\ chan'[j].out = chan[j].out
      OBVIOUS
    <3>1. chan[j] \in Channel
      BY DEF ChannelsOK
    <3>2. CASE chan'[j] = chan[j]
      BY <3>1, <3>2
    <3>3. ASSUME NEW up \in BOOLEAN, NEW held \in BOOLEAN,
                 chan'[j] = [chan[j] EXCEPT !.up = up, !.held = held]
          PROVE  /\ chan'[j] \in Channel
                 /\ chan'[j].buf = chan[j].buf /\ chan'[j].asked = chan[j].asked
                 /\ chan'[j].in = chan[j].in /\ chan'[j].out = chan[j].out
      BY <3>1, <3>3 DEF Channel
    <3> QED BY <2>1, <3>2, <3>3
  <2>4. \A j \in Channels : ChannelOK(chan[j])'
    BY <2>3 DEF ChannelsOK, ChannelOK
  <2> QED BY <2>2, <2>3, <2>4 DEF ChannelsOK
<1>3. ASSUME NEW question \in Questions, Ask(k, question)
      PROVE  /\ ChannelsOK'
             /\ \A j \in Channels : chan'[j].out = chan[j].out
  <2>1. question \in Seq(Int) /\ question # <<>>
    BY QuestionIs
  <2>2. /\ chan[k] \in Channel /\ ChannelOK(chan[k]) /\ chan[k].asked = <<>>
        /\ chan' = [chan EXCEPT ![k] =
                      [chan[k] EXCEPT !.asked = question, !.in = question]]
    BY <1>3 DEF Ask, ChannelsOK
  <2> DEFINE new == [chan[k] EXCEPT !.asked = question, !.in = question]
  <2>3. /\ new \in Channel
        /\ new.buf = chan[k].buf /\ new.out = chan[k].out
        /\ new.asked = question /\ new.in = question
    BY <2>1, <2>2 DEF Channel
  <2>4. ChannelOK(new)
    <3> HIDE DEF new
    <3> QED BY <2>1, <2>2, <2>3 DEF ChannelOK, Exchanged
  <2>5. chan' = [chan EXCEPT ![k] = new]
    BY <2>2
  <2> HIDE DEF new
  <2> QED BY <2>3, <2>4, <2>5 DEF ChannelsOK
<1>4. ASSUME Learn(k)
      PROVE  /\ ChannelsOK'
             /\ \A j \in Channels : chan'[j].out \in {chan[j].out, <<>>}
  BY <1>1, <1>4 DEF Learn, ChannelsOK, ChannelOK, Exchanged, Channel
<1> QED BY <1>2, <1>3, <1>4

\* The control path tells the library the truth: the answer in a channel is what
\* the server list says of the very address that was asked about there, or the
\* host's own address, whatever the goroutine's buffer still holds of earlier
\* questions and however the lists change, if the library asks about AF_INET
\* addresses and the host has one.
THEOREM ControlIsTruthful ==
    ASSUME AsksAddresses, ownVIP \in IPv4Forms
    PROVE  RsocketSpec => ControlTruthful
<1> DEFINE Moved == \/ RsocketNext /\ UNCHANGED entries
                    \/ AccessNext /\ UNCHANGED chan
           Tells == \A k \in Channels :
                       chan[k].out = <<>> /\ chan'[k].out # <<>> =>
                          Truthful(chan[k].asked, chan'[k].out)
<1>1. RsocketInit => ChannelsOK
  BY InitChannels
<1>2. ASSUME ChannelsOK, [Moved]_<<entries, chan>>
      PROVE  ChannelsOK' /\ [Tells]_chan
  <2>1. CASE UNCHANGED chan
    BY <1>2, <2>1 DEF ChannelsOK
  <2>2. ASSUME NEW k \in Channels, HandleRsocket(k)
        PROVE  ChannelsOK' /\ Tells
    <3>1. ChannelsOK' /\ Truthful(chan[k].asked, chan'[k].out)
      BY <1>2, <2>2, HandleAnswers
    <3>2. \A j \in Channels : j # k => chan'[j] = chan[j]
      BY <1>2, <2>2 DEF HandleRsocket, ChannelsOK
    <3> QED BY <3>1, <3>2
  <2>3. ASSUME NEW k \in Channels,
               \/ \E works \in BOOLEAN : Initialize(k, works)
               \/ \E question \in Questions : Ask(k, question)
               \/ Learn(k)
        PROVE  ChannelsOK' /\ Tells
    BY <1>2, <2>3, ChannelsKept
  <2> QED BY <1>2, <2>1, <2>2, <2>3 DEF RsocketNext
<1> QED BY <1>1, <1>2, PTL DEF RsocketSpec, ControlTruthful
=============================================================================
