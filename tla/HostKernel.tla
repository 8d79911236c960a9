----------------------------- MODULE HostKernel -----------------------------
(***************************************************************************)
(* What the daemon's side of the host looks like to the seccomp handler:   *)
(* the descriptor table of the tiaccoon process, the sockets behind the    *)
(* physical addresses of the destination entries, and the remote peers     *)
(* that dial those addresses.  Everything here is external to the          *)
(* repository: it is the Linux behaviour that src/pkg/tiaccoon/seccomp     *)
(* relies on (socket, bind, listen, accept, shutdown and close).           *)
(*                                                                         *)
(* A listening host socket is named by the pair <<s, e>> of the container  *)
(* socket it was created for and the destination entry it is bound to.     *)
(***************************************************************************)
EXTENDS Naturals

CONSTANTS
    HostFds,      \* descriptor numbers of the daemon (its RLIMIT_NOFILE)
    SockIds,      \* identities of the container sockets' statuses
    Entries,      \* destination entries (transport and physical address)
    Transport,    \* Entries -> transport type
    Conns,        \* connections that remote peers open
    VAddrs,       \* virtual addresses
    ConnVAddr,    \* Conns -> the virtual address the peer sends first
    PeerFaults,   \* may a peer close early or send less than an address?
    ForeignFds,   \* do other parts of the daemon open descriptors?
    None, Free, Orphan, Foreign

Transports == {"UNIX", "RDMA", "IPv6", "IPv4"}

Listener == SockIds \X Entries

\* Orphan: a socket whose number the code forgot; Foreign: a descriptor that
\* belongs to another part of the daemon.
File == Listener \cup Conns \cup {Orphan, Foreign}

ASSUME HostAssumption ==
    /\ HostFds \subseteq Nat
    /\ SockIds \subseteq Nat
    /\ Transport \in [Entries -> Transports]
    /\ ConnVAddr \in [Conns -> VAddrs]
    /\ PeerFaults \in BOOLEAN
    /\ ForeignFds \in BOOLEAN

\* The kinds of things a descriptor, a map slot or a field can hold differ.
ASSUME HostDistinct ==
    /\ Conns \cap Listener = {}
    /\ Conns \cap VAddrs = {}
    /\ Listener \cap VAddrs = {}
    /\ {None, Free, Orphan, Foreign}
          \cap (Listener \cup Conns \cup VAddrs \cup SockIds \cup HostFds) = {}
    /\ None # Free /\ Free # Orphan /\ Free # Foreign /\ Orphan # Foreign

VARIABLES
    hfd,        \* the daemon's descriptor table
    listening,  \* host sockets on which listen(2) succeeded and not shut down
    addr,       \* who the physical address of an entry leads to, if anyone
    conn,       \* the peers' connections
    nonblock    \* the sockets whose O_NONBLOCK is set

hostVars == <<hfd, listening, addr, conn, nonblock>>

Connection ==
    [st : {"new", "backlog", "accepted", "reset"},
     lsn : Listener \cup {None},
     snd : {"silent", "sent", "bad"}]

HostTypeOK ==
    /\ hfd \in [HostFds -> File \cup {Free}]
    /\ listening \subseteq Listener
    /\ addr \in [Entries -> SockIds \cup {None}]
    /\ conn \in [Conns -> Connection]
    /\ nonblock \subseteq Listener \cup Conns

HostInit ==
    /\ hfd = [n \in HostFds |-> Free]
    /\ listening = {}
    /\ addr = [e \in Entries |-> None]
    /\ conn = [c \in Conns |-> [st |-> "new", lsn |-> None, snd |-> "silent"]]
    /\ nonblock = {}

-----------------------------------------------------------------------------
\* The kernel hands out the lowest free number.
NextFd(n) ==
    /\ hfd[n] = Free
    /\ \A m \in HostFds : m < n => hfd[m] # Free

NoFreeFd == \A n \in HostFds : hfd[n] # Free

\* A TCP port is taken while some socket bound to it is open; the path of a
\* UNIX socket never is, because transportBindUNIX unlinks it first.
AddrInUse(e) ==
    /\ Transport[e] = "IPv4"
    /\ addr[e] # None
    /\ \E n \in HostFds : hfd[n] = <<addr[e], e>>

\* shutdown(2) and close(2) of the numbers N, whatever they refer to by now:
\* a listener stops and the connections in its backlog are reset.
CloseFds(N) ==
    LET dead == {l \in listening : \E n \in N : hfd[n] = l}
    IN  /\ hfd' = [n \in HostFds |-> IF n \in N THEN Free ELSE hfd[n]]
        /\ listening' = listening \ dead
        /\ conn' = [c \in Conns |->
                      IF conn[c].st = "backlog" /\ conn[c].lsn \in dead
                      THEN [conn[c] EXCEPT !.st = "reset"]
                      ELSE conn[c]]
        /\ UNCHANGED <<addr, nonblock>>

-----------------------------------------------------------------------------
\* A peer dials the physical address of e and lands in the listener's backlog.
PeerConnect(c, e) ==
    /\ conn[c].st = "new"
    /\ addr[e] # None
    /\ <<addr[e], e>> \in listening
    /\ conn' = [conn EXCEPT ![c].st = "backlog", ![c].lsn = <<addr[e], e>>]
    /\ UNCHANGED <<hfd, listening, addr, nonblock>>

\* The peer's handler sends its virtual address right after connect(2).
PeerSend(c) ==
    /\ conn[c].st \in {"backlog", "accepted"}
    /\ conn[c].snd = "silent"
    /\ conn' = [conn EXCEPT ![c].snd = "sent"]
    /\ UNCHANGED <<hfd, listening, addr, nonblock>>

\* The peer closes first, or what arrives is not one whole sockaddr_in: its
\* handler was killed, or it skipped the address of an AF_INET6 socket.
PeerFail(c) ==
    /\ PeerFaults
    /\ conn[c].st \in {"backlog", "accepted"}
    /\ conn[c].snd = "silent"
    /\ conn' = [conn EXCEPT ![c].snd = "bad"]
    /\ UNCHANGED <<hfd, listening, addr, nonblock>>

\* Another handler, or this one's /proc/<pid>/mem cache, takes a number.
ForeignOpen ==
    /\ ForeignFds
    /\ \A n \in HostFds : hfd[n] # Foreign
    /\ \E n \in HostFds : NextFd(n) /\ hfd' = [hfd EXCEPT ![n] = Foreign]
    /\ UNCHANGED <<listening, addr, conn, nonblock>>

HostNext ==
    \/ \E c \in Conns :
          \/ \E e \in Entries : PeerConnect(c, e)
          \/ PeerSend(c)
          \/ PeerFail(c)
    \/ ForeignOpen
=============================================================================
