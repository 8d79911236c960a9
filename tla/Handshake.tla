----------------------------- MODULE Handshake ------------------------------
(***************************************************************************)
(* How a connection is set up between two hosts: the connecting handler    *)
(* (handleSysConnect, socket.go:461) and the accepting goroutine of the    *)
(* other host (transportAccept, transport.go:77), which share nothing but  *)
(* the byte stream between them.  The first 16 bytes of the stream are the *)
(* client's virtual address; what follows belongs to the containers.       *)
(*                                                                         *)
(* Seccomp has all the states of one host; here are the two ends of each   *)
(* connection, with the bytes they exchange and the lists they consult,    *)
(* which the managers may change meanwhile (AccessControl).                *)
(***************************************************************************)
EXTENDS AccessControl, Sockaddr

CONSTANTS
    Conns,     \* connections, each of a container of its own
    Bound,     \* the raw addresses that clients bind before they connect
    Dialled,   \* the raw addresses they connect to
    AppData,   \* what a client's container may write first
    ServerVAddr, \* the raw address the server's container listens on
    NoPeer

ASSUME HandshakeAssumption ==
    /\ \A buf \in Bound \cup Dialled \cup {ServerVAddr} :
          buf \in Seq(Byte) /\ WellFormed(buf) /\ newSockaddr(buf).IP \in IPs
    /\ zeroSockaddr.IP \in IPs
    /\ AppData \subseteq Seq(Byte) \ {<<>>}
    \* 16 of its bytes may be an AF_INET address.
    /\ \A data \in AppData :
          LET head == SubSeq(data, 1, SizeofInet4)
          IN  Len(data) >= SizeofInet4 /\ WellFormed(head) => newSockaddr(head).IP \in IPs

VARIABLES
    local,    \* localVAddr of the connecting sockets
    remote,   \* their remoteVAddr
    client,   \* how far each connecting call has got
    named,    \* the connections on which the local address was sent
    wrote,    \* what their containers have written
    wire,     \* bytes sent and not received yet
    fin,      \* has the client's end been closed?
    server,   \* where the accepting host has each connection
    peer,     \* the address it received
    acceptor  \* the transportAccept goroutine

handshakeVars == <<local, remote, client, named, wrote, wire, fin, server, peer, acceptor>>

HandshakeInit ==
    /\ local \in [Conns -> {newSockaddr(buf) : buf \in Bound} \cup {zeroSockaddr}]
    /\ remote \in [Conns -> {newSockaddr(buf) : buf \in Dialled}]
    /\ client = [c \in Conns |-> "idle"]
    /\ named = {}
    /\ wrote = [c \in Conns |-> <<>>]
    /\ wire = [c \in Conns |-> <<>>]
    /\ fin = [c \in Conns |-> FALSE]
    /\ server = [c \in Conns |-> "none"]
    /\ peer = [c \in Conns |-> NoPeer]
    /\ acceptor = "running"

VirtualSockAddrSize == SizeofInet4

-----------------------------------------------------------------------------
(* The connecting handler. *)

Step(c, old, new) == client[c] = old /\ client' = [client EXCEPT ![c] = new]

\* The list allows the destination and its physical address answers.
Connect(c) ==
    /\ Apply("client", remote[c].IP)
    /\ Step(c, "idle", "dialled")
    /\ server' = [server EXCEPT ![c] = "backlog"]
    /\ UNCHANGED <<local, remote, named, wrote, wire, fin, peer, acceptor>>

ConnectRefused(c) ==
    /\ ~Apply("client", remote[c].IP)
    /\ Step(c, "idle", "refused")
    /\ UNCHANGED <<local, remote, named, wrote, wire, fin, server, peer, acceptor>>

\* The local address is sent unless it is longer than the receiver expects; the
\* call goes on without it, and when sendto(2) fails.
SendLocal(c) ==
    LET buf == sockaddrToByte(local[c])
    IN  /\ Step(c, "dialled", "sent")
        /\ \/ /\ Len(buf) = VirtualSockAddrSize
              /\ wire' = [wire EXCEPT ![c] = @ \o buf]
              /\ named' = named \cup {c}
           \/ UNCHANGED <<wire, named>>
        /\ UNCHANGED <<local, remote, wrote, fin, server, peer, acceptor>>

\* ADDFD: the container has the connection.
AddFd(c) ==
    /\ Step(c, "sent", "bypassed")
    /\ UNCHANGED <<local, remote, named, wrote, wire, fin, server, peer, acceptor>>

\* ADDFD fails, or the daemon ends: the host socket is closed.
Abandon(c) ==
    /\ \E at \in {"dialled", "sent"} : Step(c, at, "failed")
    /\ fin' = [fin EXCEPT ![c] = TRUE]
    /\ UNCHANGED <<local, remote, named, wrote, wire, server, peer, acceptor>>

\* The container behind it writes, and closes.
AppWrite(c) ==
    /\ client[c] = "bypassed"
    /\ wrote[c] = <<>> /\ ~fin[c]
    /\ \E data \in AppData :
          /\ wrote' = [wrote EXCEPT ![c] = data]
          /\ wire' = [wire EXCEPT ![c] = @ \o data]
    /\ UNCHANGED <<local, remote, client, named, fin, server, peer, acceptor>>

AppClose(c) ==
    /\ client[c] = "bypassed"
    /\ ~fin[c]
    /\ fin' = [fin EXCEPT ![c] = TRUE]
    /\ UNCHANGED <<local, remote, client, named, wrote, wire, server, peer, acceptor>>

-----------------------------------------------------------------------------
(* The accepting goroutine, which serves one connection at a time. *)

Serve(c, old, new) == server[c] = old /\ server' = [server EXCEPT ![c] = new]

Accept(c) ==
    /\ acceptor = "running"
    /\ \A d \in Conns : server[d] \notin {"recv", "checked"}
    /\ Serve(c, "backlog", "recv")
    /\ UNCHANGED <<local, remote, client, named, wrote, wire, fin, peer, acceptor>>

\* recvfrom(2) waits for something and returns what there is, up to the size.
Readable(c) == wire[c] # <<>> \/ fin[c]
Taken(c) ==
    SubSeq(wire[c], 1, IF Len(wire[c]) < VirtualSockAddrSize
                       THEN Len(wire[c]) ELSE VirtualSockAddrSize)

\* Variant: MSG_PEEK.
Left_Peek(c) == wire[c]

Left(c) == SubSeq(wire[c], Len(Taken(c)) + 1, Len(wire[c]))

\* recvDstVAddr parses a whole address.
Received(c) == Len(Taken(c)) = VirtualSockAddrSize /\ WellFormed(Taken(c))

Recv(c) ==
    /\ Readable(c)
    /\ Received(c)
    /\ Serve(c, "recv", "checked")
    /\ peer' = [peer EXCEPT ![c] = newSockaddr(Taken(c))]
    /\ wire' = [wire EXCEPT ![c] = Left(c)]
    /\ UNCHANGED <<local, remote, client, named, wrote, fin, acceptor>>

\* It does not: the goroutine ends.
RecvFails(c) ==
    /\ Readable(c)
    /\ ~Received(c)
    /\ Serve(c, "recv", "lost")
    /\ wire' = [wire EXCEPT ![c] = Left(c)]
    /\ acceptor' = "ended"
    /\ UNCHANGED <<local, remote, client, named, wrote, fin, peer>>

\* Variant: a denied connection is not skipped.
Verdict_Ignored(c) == TRUE

\* sae.Apply(as.Entry.VIP)
Verdict(c) == Apply("server", peer[c].IP)

\* Stored and queued, or closed.
Decide(c) ==
    /\ Serve(c, "checked", IF Verdict(c) THEN "queued" ELSE "denied")
    /\ UNCHANGED <<local, remote, client, named, wrote, wire, fin, peer, acceptor>>

\* The container's accept takes it.
Deliver(c) ==
    /\ Serve(c, "queued", "delivered")
    /\ UNCHANGED <<local, remote, client, named, wrote, wire, fin, peer, acceptor>>

-----------------------------------------------------------------------------
HandshakeNext ==
    \E c \in Conns :
       \/ Connect(c) \/ ConnectRefused(c) \/ SendLocal(c) \/ AddFd(c)
       \/ Abandon(c) \/ AppWrite(c) \/ AppClose(c)
       \/ Accept(c) \/ Recv(c) \/ RecvFails(c) \/ Decide(c) \/ Deliver(c)

\* With the managers of both hosts.
HandshakeSpec ==
    /\ AccessInit /\ HandshakeInit
    /\ [][\/ HandshakeNext /\ UNCHANGED entries
          \/ AccessNext /\ UNCHANGED handshakeVars]_<<entries, handshakeVars>>

\* What accept and getpeername write for a delivered connection.
PeerName(c) ==
    LET own == newSockaddr(ServerVAddr)
    IN  sockaddrToByte(
            newSockAddrFromIPPort(own.Family, peer[c].IP, peer[c].Port,
                                  own.Flowinfo, own.ScopeID))

Stage(c) ==
    CASE server[c] = "none" ->
            IF client[c] = "refused" THEN "dropped" ELSE "new"
      [] server[c] \in {"backlog", "recv", "checked"} -> "dialled"
      [] server[c] = "queued" -> "admitted"
      [] server[c] = "delivered" -> "delivered"
      [] server[c] \in {"denied", "lost"} -> "dropped"

Connections == INSTANCE Admission WITH
    policy <- [list \in ListNames |-> [ip \in IPs |-> Apply(list, ip)]],
    from <- [c \in Conns |-> local[c].IP],
    to <- [c \in Conns |-> remote[c].IP],
    anonymous <- {c \in Conns : client[c] \notin {"idle", "dialled", "refused"}} \ named,
    stage <- [c \in Conns |-> Stage(c)],
    Same <- Equal

\* The two ends implement Admission: although the server's daemon knows its
\* peer only by the bytes at the head of the stream, whatever the container puts
\* there, and the lists change between the dial, the reception, the verdict and
\* the delivery, what it admits is what its list allows under the address of the
\* client's own socket; of a connection handed over without its address, what
\* the list allows under some address.
Admitted == Connections!Spec

\* The access control is the same for every container: a connection is admitted
\* only under the true address of its client.
Unified ==
    [][\A c \in Conns : server[c] = "checked" /\ server'[c] = "queued" =>
          Apply("server", local[c].IP)]_<<entries, server>>

\* getpeername of the accepting container returns, byte for byte, what
\* getsockname of the connecting one does, if that was sent.
PeerNamed ==
    \A c \in named : server[c] = "delivered" =>
        PeerName(c) = sockaddrToByte(local[c])

\* The virtual address, when it is sent, is the handlers' business: the accepting
\* container reads what the connecting one wrote, from its first byte.
StreamIntact ==
    \A c \in named : server[c] = "delivered" => wire[c] = wrote[c]
=============================================================================
