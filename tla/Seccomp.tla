------------------------------ MODULE Seccomp -------------------------------
(***************************************************************************)
(* The seccomp notification handler of one container                       *)
(* (src/pkg/tiaccoon/seccomp/notif.go, socket.go, transport*.go).          *)
(*                                                                         *)
(* One goroutine, handle, answers the notifications one at a time: `cur` is *)
(* the one being served.  listen starts, for every bound host socket, a    *)
(* goroutine transportAccept (`g`) that accepts from the host, receives    *)
(* the peer's virtual address, applies the access control list and queues  *)
(* the connection for the container's accept.  The goroutines share the    *)
(* daemon's descriptor table, the hostSockets maps and the acceptedSockets *)
(* channels with the handler and nothing orders their steps.               *)
(***************************************************************************)
EXTENDS Container, Sequences, FiniteSets

CONSTANTS
    SAE, CAE,                     \* VAddrs -> BOOLEAN: the verdict of Apply
    ServerEntries,                \* VAddrs -> what GetServer returns, in order
    ClientEntries,                \* VAddrs -> what GetClient returns: the
                                  \* entries of each transport, in order
    ZeroVAddr,                    \* zeroSockaddr()
    AcceptedSocketQueueCapacity,
    FeatureRDMA,
    HostFaults                    \* may a host call fail for no modelled reason?

ASSUME SeccompAssumption ==
    /\ SAE \in [VAddrs -> BOOLEAN]
    /\ CAE \in [VAddrs -> BOOLEAN]
    /\ ServerEntries \in [VAddrs -> Seq(Entries)]
    /\ ClientEntries \in [VAddrs -> Seq(SUBSET Entries)]
    /\ ZeroVAddr \in VAddrs
    /\ AcceptedSocketQueueCapacity \in Nat \ {0}
    /\ FeatureRDMA \in BOOLEAN
    /\ HostFaults \in BOOLEAN

VARIABLES
    cur,      \* the notification being served and how far it has got, or None
    sockets,  \* processes[pid].sockets[fd]: the registered status, or None
    sock,     \* the socketStatus objects
    hs,       \* the hostSocket objects of the listeners
    g         \* the transportAccept goroutines

seccompVars == <<cur, sockets, sock, hs, g>>
vars == <<hostVars, containerVars, seccompVars>>

SocketStates == {"NotBypassable", "NotBypassed", "Binded", "Listening",
                 "Bypassed", "Error"}

\* An accepted hostSocket: its connection and the number it had then.
Accepted == [conn : Conns, fd : HostFds]

SocketStatus ==
    [state : SocketStates \cup {"Unused"},
     localVAddr : VAddrs,
     remoteVAddr : VAddrs,
     hostSockets : [HostFds -> Listener \cup Conns \cup {None}],
     acceptedSockets : Seq(Accepted),
     nonblock : BOOLEAN]  \* what fcntlOptions say of O_NONBLOCK

HostSocket ==
    [Sockfd : HostFds \cup {None},
     State : {"Binded", "Listening", "Error"},
     Cancelled : BOOLEAN]

Serving ==
    [t : Threads, call : Calls, s : SockIds,
     pc : {"serve", "bind", "connect"},
     todo : Seq(SUBSET Entries),
     ok : BOOLEAN]

\* `cur` tells a call in service from none.
ASSUME ServingDistinct == None \notin Serving

Goroutine ==
    [pc : {"none", "check", "enter", "blocked", "recv", "send", "done"},
     file : Listener \cup {None},
     conn : Conns \cup {None},
     fd : HostFds \cup {None},
     nowait : BOOLEAN]  \* was O_NONBLOCK set when accept(2) looked?

\* What the control points say about the data beside them: a call that is under
\* way is known, a dialled address was read, an accepted connection has a number.
ControlOK ==
    /\ \A t \in Threads :
          phase[t] \in {"notified", "received", "continued"} => call[t] \in Calls
    /\ cur # None /\ cur.pc = "connect" => cur.call.addr \in VAddrs
    /\ \A l \in Listener :
          g[l].pc \in {"recv", "send"} =>
             g[l].conn \in Conns /\ g[l].fd \in HostFds

TypeOK ==
    /\ ControlOK
    /\ HostTypeOK
    /\ ContainerTypeOK
    /\ cur \in Serving \cup {None}
    /\ sockets \in [Procs -> [Fds -> SockIds \cup {None}]]
    /\ sock \in [SockIds -> SocketStatus]
    /\ hs \in [Listener -> HostSocket]
    /\ g \in [Listener -> Goroutine]

\* newSocketStatus, with the state registerSocket gives it.
NewStatus(state) ==
    [state |-> state, localVAddr |-> ZeroVAddr, remoteVAddr |-> ZeroVAddr,
     hostSockets |-> [n \in HostFds |-> None], acceptedSockets |-> <<>>,
     nonblock |-> FALSE]

NoGoroutine == [pc |-> "none", file |-> None, conn |-> None, fd |-> None,
                nowait |-> FALSE]

Init ==
    /\ HostInit
    /\ ContainerInit
    /\ cur = None
    /\ sockets = [p \in Procs |-> [fd \in Fds |-> None]]
    /\ sock = [s \in SockIds |-> NewStatus("Unused")]
    /\ hs = [l \in Listener |->
               [Sockfd |-> None, State |-> "Binded", Cancelled |-> FALSE]]
    /\ g = [l \in Listener |-> NoGoroutine]

-----------------------------------------------------------------------------
(* Helpers of the handler. *)

\* The next status object to allocate.
Fresh(s) ==
    /\ sock[s].state = "Unused"
    /\ \A r \in SockIds : r < s => sock[r].state # "Unused"

Registered(s) == \E p \in Procs, fd \in Fds : sockets[p][fd] = s

\* registerSocket handles only TCP sockets that have no peer yet.
InitialState(file) == IF file = Inet THEN "NotBypassed" ELSE "NotBypassable"

\* NotifRespond, without or with a CONTINUE flag that matters; it fails when
\* the notification is gone, and a signal may withdraw it until then.
Answer(t, next) ==
    /\ phase' = [phase EXCEPT ![t] =
                   IF phase[t] = "received" THEN next ELSE phase[t]]
    /\ call' = [call EXCEPT ![t] =
                   IF phase[t] = "received" /\ next = "idle"
                   THEN None ELSE call[t]]

Reply == Answer(cur.t, "idle") /\ cur' = None

\* Variant: only the accepted connections are closed, not the listeners.
HeldFds_AcceptedOnly(S) ==
    {n \in HostFds : \E s \in S : sock[s].hostSockets[n] \in Conns}

\* The numbers and the listeners that removeSocket finds in the maps of S.
HeldFds(S) == {n \in HostFds : \E s \in S : sock[s].hostSockets[n] # None}
HeldListeners(S) ==
    {l \in Listener : \E s \in S, n \in HostFds : sock[s].hostSockets[n] = l}

\* socketStatus.removeSocket: cancel, shut down and close every host socket.
Remove(S) ==
    /\ CloseFds(HeldFds(S))
    /\ hs' = [l \in Listener |->
                IF l \in HeldListeners(S)
                THEN [hs[l] EXCEPT !.Cancelled = TRUE] ELSE hs[l]]

SetState(s, state) == sock' = [sock EXCEPT ![s].state = state]

-----------------------------------------------------------------------------
(* handle and handleReq up to the switch on the system call. *)

\* A call waits for its notification to be received; a signal that comes after
\* the reception leaves the side effects of the call without the call.
Notified(t, names) ==
    /\ cur = None
    /\ phase[t] = "notified"
    /\ call[t].name \in names

AfterClose(t) == {"continued"} \cup IF Interrupts THEN {"idle"} ELSE {}

Continue(t) ==
    \E next \in AfterClose(t) :
        /\ phase' = [phase EXCEPT ![t] = next]
        /\ call' = [call EXCEPT ![t] = IF next = "idle" THEN None ELSE call[t]]

\* Variant: the leader is treated like any other thread.
HandleExit_Forgets(t) ==
    /\ Notified(t, {"exit_group"})
    /\ Tgid[t] = t
    /\ Continue(t)
    /\ UNCHANGED <<hostVars, kfd, seccompVars>>

\* exit_group of the thread group leader drops all the sockets of the process.
HandleExit(t) ==
    /\ Notified(t, {"exit_group"})
    /\ Tgid[t] = t
    /\ Remove({s \in SockIds : \E fd \in Fds : sockets[t][fd] = s})
    /\ sockets' = [sockets EXCEPT ![t] = [fd \in Fds |-> None]]
    /\ Continue(t)
    /\ UNCHANGED <<kfd, cur, sock, g>>

\* pidInfo.pidType is THREAD: only the cached pidfd goes.
HandleThreadExit(t) ==
    /\ Notified(t, {"exit_group"})
    /\ Tgid[t] # t
    /\ Continue(t)
    /\ UNCHANGED <<hostVars, kfd, seccompVars>>

HandleClose(t) ==
    LET p == Tgid[t]
        fd == call[t].fd
    IN  /\ Notified(t, {"close"})
        /\ Remove({s \in SockIds : sockets[p][fd] = s})
        /\ sockets' = [sockets EXCEPT ![p][fd] = None]
        /\ Continue(t)
        /\ UNCHANGED <<kfd, cur, sock, g>>

Serve(t, s) ==
    /\ phase' = [phase EXCEPT ![t] = "received"]
    /\ cur' = [t |-> t, call |-> call[t], s |-> s, pc |-> "serve",
               todo |-> <<>>, ok |-> FALSE]
    /\ UNCHANGED <<call, kfd>>

\* getSocket finds a status.
Lookup(t) ==
    /\ Notified(t, Names \ {"close", "exit_group"})
    /\ sockets[Tgid[t]][call[t].fd] # None
    /\ Serve(t, sockets[Tgid[t]][call[t].fd])
    /\ UNCHANGED <<hostVars, sockets, sock, hs, g>>

\* It does not: registerSocket makes one from what the descriptor is now.
Register(t) ==
    LET p == Tgid[t]
        fd == call[t].fd
    IN  /\ Notified(t, Names \ {"close", "exit_group"})
        /\ sockets[p][fd] = None
        /\ kfd[p][fd] # Closed
        /\ \E s \in SockIds :
              /\ Fresh(s)
              /\ sockets' = [sockets EXCEPT ![p][fd] = s]
              /\ sock' = [sock EXCEPT ![s] =
                            NewStatus(InitialState(kfd[p][fd]))]
              /\ Serve(t, s)
        /\ UNCHANGED <<hostVars, hs, g>>

\* pidfd_getfd fails: the kernel will answer EBADF.
RegisterFails(t) ==
    /\ Notified(t, Names \ {"close", "exit_group"})
    /\ sockets[Tgid[t]][call[t].fd] = None
    /\ kfd[Tgid[t]][call[t].fd] = Closed
    /\ phase' = [phase EXCEPT ![t] = "idle"]
    /\ call' = [call EXCEPT ![t] = None]
    /\ UNCHANGED <<hostVars, kfd, seccompVars>>

\* The call in service has reached the switch on sock.state or a loop pc.
At(pc) == cur # None /\ cur.pc = pc
On(name) == At("serve") /\ cur.call.name = name
InState(states) == sock[cur.s].state \in states

\* The kernel handles the calls on sockets that are not or no longer ours.
PassThrough ==
    /\ At("serve")
    /\ \/ InState({"NotBypassable"}) /\ cur.call.name \notin {"connect", "bind"}
       \/ InState({"Bypassed"}) /\ cur.call.name # "getname"
    /\ Reply
    /\ UNCHANGED <<hostVars, kfd, sockets, sock, hs, g>>

\* connect and bind on a NotBypassable descriptor register it anew.
Reregister ==
    /\ At("serve")
    /\ cur.call.name \in {"connect", "bind"}
    /\ InState({"NotBypassable"})
    /\ LET p == Tgid[cur.t]
           fd == cur.call.fd
           state == InitialState(kfd[p][fd])
       IN  /\ Remove({s \in SockIds : sockets[p][fd] = s})
           /\ IF kfd[p][fd] = Closed
              THEN /\ sockets' = [sockets EXCEPT ![p][fd] = None]
                   /\ Reply
                   /\ UNCHANGED sock
              ELSE \E s \in SockIds :
                   /\ Fresh(s)
                   /\ sockets' = [sockets EXCEPT ![p][fd] = s]
                   /\ sock' = [sock EXCEPT ![s] = NewStatus(state)]
                   /\ IF state = "NotBypassed"
                      THEN /\ cur' = [cur EXCEPT !.s = s]
                           /\ UNCHANGED <<phase, call>>
                      ELSE Reply
    /\ UNCHANGED <<kfd, g>>

\* handleSysGetpeername and handleSysGetsockname write the recorded address.
Getname ==
    /\ On("getname")
    /\ ~InState({"NotBypassable"})
    /\ Reply
    /\ UNCHANGED <<hostVars, kfd, sockets, sock, hs, g>>

-----------------------------------------------------------------------------
(* handleSysBind: one host socket per destination entry of the port. *)

BindRefused ==
    /\ On("bind")
    /\ InState({"Binded", "Listening", "Error"})
    /\ Reply
    /\ UNCHANGED <<hostVars, kfd, sockets, sock, hs, g>>

BindBadAddr ==
    /\ On("bind")
    /\ InState({"NotBypassed"})
    /\ cur.call.addr = None
    /\ SetState(cur.s, "Error")
    /\ Reply
    /\ UNCHANGED <<hostVars, kfd, sockets, hs, g>>

\* No entry for the port: the address is recorded and the call succeeds.
BindUnknown ==
    /\ On("bind")
    /\ InState({"NotBypassed"})
    /\ cur.call.addr # None
    /\ ServerEntries[cur.call.addr] = <<>>
    /\ sock' = [sock EXCEPT ![cur.s].localVAddr = cur.call.addr]
    /\ Reply
    /\ UNCHANGED <<hostVars, kfd, sockets, hs, g>>

BindStart ==
    /\ On("bind")
    /\ InState({"NotBypassed"})
    /\ cur.call.addr # None
    /\ LET entries == ServerEntries[cur.call.addr]
       IN  /\ entries # <<>>
           /\ cur' = [cur EXCEPT !.pc = "bind",
                                 !.todo = [i \in 1 .. Len(entries) |->
                                             {entries[i]}]]
    /\ sock' = [sock EXCEPT ![cur.s].localVAddr = cur.call.addr]
    /\ UNCHANGED <<hostVars, containerVars, sockets, hs, g>>

\* The entry at the head of the loop, and the end of its iteration.
Trying(e) == cur.todo # <<>> /\ e \in Head(cur.todo)

\* Variant: ok is set before the error is looked at.
NextEntry_Ok(ok) == cur' = [cur EXCEPT !.todo = Tail(@), !.ok = TRUE]

NextEntry(ok) == cur' = [cur EXCEPT !.todo = Tail(@), !.ok = @ \/ ok]

\* transportBind and transportConnect make a socket for these transports; for
\* RDMA the container's library does, and IPv6 is not implemented.
Socketed(e) == Transport[e] \in {"UNIX", "IPv4"}

\* configureSocket replays the recorded options on the new host socket.
Configured(l) ==
    IF sock[l[1]].nonblock THEN nonblock \cup {l} ELSE nonblock \ {l}

\* transportBindUNIX and transportBindIPv4 succeed.
BindEntry(e) ==
    LET l == <<cur.s, e>>
    IN  /\ At("bind")
        /\ Trying(e)
        /\ Socketed(e)
        /\ ~AddrInUse(e)
        /\ \E n \in HostFds :
              /\ NextFd(n)
              /\ hfd' = [hfd EXCEPT ![n] = l]
              /\ hs' = [hs EXCEPT ![l] = [Sockfd |-> n, State |-> "Binded",
                                          Cancelled |-> FALSE]]
              /\ sock' = [sock EXCEPT ![cur.s].hostSockets[n] = l]
        /\ addr' = [addr EXCEPT ![e] = cur.s]
        /\ nonblock' = Configured(l)
        /\ NextEntry(TRUE)
        /\ UNCHANGED <<listening, conn, containerVars, sockets, g>>

\* A number nobody closes: the error returns of transportBind and
\* transportConnect after socket(2) leave it open.
Leak == \E n \in HostFds : NextFd(n) /\ hfd' = [hfd EXCEPT ![n] = Orphan]

\* transportBindUNIX removes the path before it makes the socket.
Unlinked(e) ==
    IF Transport[e] = "UNIX" THEN [addr EXCEPT ![e] = None] ELSE addr

\* socket(2) fails at the descriptor limit; setsockopt, fcntl or bind fail.
BindEntryFails(e) ==
    /\ At("bind")
    /\ Trying(e)
    /\ Socketed(e)
    /\ \/ NoFreeFd /\ UNCHANGED hfd
       \/ (AddrInUse(e) \/ HostFaults) /\ Leak
    /\ addr' = Unlinked(e)
    /\ NextEntry(FALSE)
    /\ UNCHANGED <<listening, conn, nonblock, containerVars,
                   sockets, sock, hs, g>>

\* RDMA: the process is told the physical address and binds itself.
\* IPv6 is not implemented.
BindEntryElse(e) ==
    /\ At("bind")
    /\ Trying(e)
    /\ \/ Transport[e] = "RDMA" /\ NextEntry(FeatureRDMA)
       \/ Transport[e] = "IPv6" /\ NextEntry(FALSE)
    /\ UNCHANGED <<hostVars, containerVars, sockets, sock, hs, g>>

BindDone ==
    /\ At("bind")
    /\ cur.todo = <<>>
    /\ SetState(cur.s, IF cur.ok THEN "Binded" ELSE "Error")
    /\ Reply
    /\ UNCHANGED <<hostVars, kfd, sockets, hs, g>>

-----------------------------------------------------------------------------
(* handleSysListen *)

ListenAgain ==
    /\ On("listen")
    /\ InState({"Listening"})
    /\ Reply
    /\ UNCHANGED <<hostVars, kfd, sockets, sock, hs, g>>

ListenUnexpected ==
    /\ On("listen")
    /\ InState({"NotBypassed", "Error"})
    /\ SetState(cur.s, "NotBypassable")
    /\ Reply
    /\ UNCHANGED <<hostVars, kfd, sockets, hs, g>>

\* transportListen: the host socket is Listening if listen(2) succeeded.
Listened(l, up) ==
    [hs[l] EXCEPT !.State = IF l \in up THEN "Listening" ELSE "Error"]

\* The loop over hostSockets; `up` are those on which listen(2) succeeds, and
\* each of them gets its accepting goroutine.
Listen ==
    LET bound == {l \in HeldListeners({cur.s}) : hs[l].State = "Binded"}
    IN  /\ On("listen")
        /\ InState({"Binded"})
        /\ \E up \in SUBSET bound :
              /\ HostFaults \/ up = bound
              /\ hs' = [l \in Listener |->
                          IF l \in bound THEN Listened(l, up) ELSE hs[l]]
              /\ listening' = listening \cup up
              /\ g' = [l \in Listener |->
                         IF l \in up
                         THEN [NoGoroutine EXCEPT !.pc = "check"] ELSE g[l]]
              /\ SetState(cur.s, IF up = {} /\ ~FeatureRDMA
                                 THEN "Error" ELSE "Listening")
        /\ Reply
        /\ UNCHANGED <<hfd, addr, conn, nonblock, kfd, sockets>>

-----------------------------------------------------------------------------
(* handleSysAcceptWithFlags.  The handler, and with it every other call of  *)
(* the container, waits until acceptedSockets has something.  Two branches  *)
(* of the code cannot be taken and are left out: s.Ctx is cancelled only by *)
(* the handler itself, and what is queued is always HostSocketAccepted.     *)

\* Variant: accept waits on whatever socket it is called.
AcceptRefused_Waits == FALSE

AcceptRefused ==
    /\ On("accept")
    /\ InState({"NotBypassed", "Binded", "Error"})
    /\ Reply
    /\ UNCHANGED <<hostVars, kfd, sockets, sock, hs, g>>

\* SECCOMP_IOCTL_NOTIF_ADDFD needs a live notification, an open source and,
\* to allocate, a free number in the container.
AddFdWorks(n) == phase[cur.t] = "received" /\ hfd[n] # Free

\* Variant: the daemon keeps its own descriptor.
CloseAccepted_Not(as) == UNCHANGED hostVars

\* The deferred Close(hs.Sockfd) of both outcomes.
CloseAccepted(as) == CloseFds({as.fd})

\* Variant: the key of the closed number stays.
WithoutAccepted_Not(s, as) == sock[s].hostSockets

\* s.hostSockets.Delete(hs.Sockfd)
WithoutAccepted(s, as) == [sock[s].hostSockets EXCEPT ![as.fd] = None]

\* The listener's status after as was received from its channel.
Taken(s, as) ==
    [sock EXCEPT ![s].acceptedSockets = Tail(@),
                 ![s].hostSockets = WithoutAccepted(s, as)]

\* Variants: the two addresses are the listener's; the peer's is missing.
Delivered_Swapped(status, s, as) ==
    [status EXCEPT !.state = "Bypassed",
                   !.localVAddr = sock[s].localVAddr,
                   !.remoteVAddr = sock[s].localVAddr]
Delivered_NoPeer(status, s, as) ==
    [status EXCEPT !.state = "Bypassed",
                   !.localVAddr = sock[s].localVAddr,
                   !.remoteVAddr = None]

\* The status of the new descriptor: the listener's address and the peer's.
Delivered(status, s, as) ==
    [status EXCEPT !.state = "Bypassed",
                   !.localVAddr = sock[s].localVAddr,
                   !.remoteVAddr = ConnVAddr[as.conn]]

\* ADDFD installs the head of the queue, and its status is (or was already)
\* registered under the new number.
AcceptDeliver ==
    LET s == cur.s
        p == Tgid[cur.t]
    IN  /\ On("accept")
        /\ InState({"Listening"})
        /\ sock[s].acceptedSockets # <<>>
        /\ LET as == Head(sock[s].acceptedSockets)
           IN  /\ AddFdWorks(as.fd)
               /\ \E newfd \in Fds, a \in SockIds :
                     /\ NextContainerFd(p, newfd)
                     /\ \/ sockets[p][newfd] = a
                        \/ sockets[p][newfd] = None /\ Fresh(a)
                     /\ kfd' = [kfd EXCEPT ![p][newfd] = hfd[as.fd]]
                     /\ sockets' = [sockets EXCEPT ![p][newfd] = a]
                     /\ sock' = [Taken(s, as) EXCEPT ![a] = Delivered(@, s, as)]
               /\ CloseAccepted(as)
        /\ Reply
        /\ UNCHANGED <<hs, g>>

\* It fails: the connection is lost, its key stays in hostSockets.
AcceptAddFdFails ==
    LET s == cur.s
    IN  /\ On("accept")
        /\ InState({"Listening"})
        /\ sock[s].acceptedSockets # <<>>
        /\ LET as == Head(sock[s].acceptedSockets)
           IN  /\ ~AddFdWorks(as.fd) \/ ContainerTableFull(Tgid[cur.t])
               /\ CloseAccepted(as)
        /\ sock' = [sock EXCEPT ![s].acceptedSockets = Tail(@),
                                ![s].state = "NotBypassable"]
        /\ Reply
        /\ UNCHANGED <<kfd, sockets, hs, g>>

-----------------------------------------------------------------------------
(* handleSysConnect: try the entries of each transport in turn. *)

\* handleSysConnect itself looks at no state; these are the states in which
\* handleReq calls it.
OnConnect == On("connect") /\ ~InState({"NotBypassable", "Bypassed"})

\* Variant: the verdict of the list is not looked at.
DialAllowed_Always(v) == TRUE

\* cae.Apply on the address that is dialled.
DialAllowed(v) == CAE[v]

ConnectBadAddr ==
    /\ OnConnect
    /\ cur.call.addr = None
    /\ SetState(cur.s, "NotBypassable")
    /\ Reply
    /\ UNCHANGED <<hostVars, kfd, sockets, hs, g>>

\* Denied by the access control list, or no destination.
ConnectRefused ==
    /\ OnConnect
    /\ cur.call.addr # None
    /\ ~DialAllowed(cur.call.addr) \/ ClientEntries[cur.call.addr] = <<>>
    /\ sock' = [sock EXCEPT ![cur.s].remoteVAddr = cur.call.addr,
                            ![cur.s].state = "Error"]
    /\ Reply
    /\ UNCHANGED <<hostVars, kfd, sockets, hs, g>>

\* Variant: remoteVAddr is left as it was.
ConnectStart_Forgets ==
    /\ OnConnect
    /\ cur.call.addr # None
    /\ DialAllowed(cur.call.addr)
    /\ ClientEntries[cur.call.addr] # <<>>
    /\ cur' = [cur EXCEPT !.pc = "connect",
                          !.todo = ClientEntries[cur.call.addr]]
    /\ UNCHANGED <<hostVars, containerVars, sockets, sock, hs, g>>

ConnectStart ==
    /\ OnConnect
    /\ cur.call.addr # None
    /\ DialAllowed(cur.call.addr)
    /\ ClientEntries[cur.call.addr] # <<>>
    /\ cur' = [cur EXCEPT !.pc = "connect",
                          !.todo = ClientEntries[cur.call.addr]]
    /\ sock' = [sock EXCEPT ![cur.s].remoteVAddr = cur.call.addr]
    /\ UNCHANGED <<hostVars, containerVars, sockets, hs, g>>

\* All the entries of a transport are tried, in random order.
ConnectNextTransport ==
    /\ At("connect")
    /\ cur.todo # <<>>
    /\ Head(cur.todo) = {}
    /\ cur' = [cur EXCEPT !.todo = Tail(cur.todo)]
    /\ UNCHANGED <<hostVars, containerVars, sockets, sock, hs, g>>

\* The physical address does not answer, or a call before that fails.
ConnectEntryFails(e) ==
    /\ At("connect")
    /\ Trying(e)
    /\ \/ Socketed(e) /\ Leak
       \/ Socketed(e) /\ NoFreeFd /\ UNCHANGED hfd
       \/ Transport[e] = "IPv6" /\ UNCHANGED hfd
    /\ cur' = [cur EXCEPT !.todo = <<Head(@) \ {e}>> \o Tail(@)]
    /\ UNCHANGED <<listening, addr, conn, nonblock, containerVars,
                   sockets, sock, hs, g>>

\* It answers: the local virtual address is sent and ADDFD replaces the
\* container's descriptor.  The daemon's own number is closed on return.
\* With O_NONBLOCK connect(2) to an IPv4 address says EINPROGRESS, a failure.
ConnectEntry(e) ==
    /\ At("connect")
    /\ Trying(e)
    /\ Socketed(e)
    /\ ~(Transport[e] = "IPv4" /\ sock[cur.s].nonblock)
    /\ ~NoFreeFd
    /\ IF phase[cur.t] = "received"
       THEN /\ kfd' = [kfd EXCEPT ![Tgid[cur.t]][cur.call.fd] = cur.call.addr]
            /\ SetState(cur.s, "Bypassed")
       ELSE /\ SetState(cur.s, "NotBypassable")
            /\ UNCHANGED kfd
    /\ Reply
    /\ UNCHANGED <<hostVars, sockets, hs, g>>

\* The process is told the physical address and connects itself.
ConnectRDMA(e) ==
    /\ At("connect")
    /\ Trying(e)
    /\ Transport[e] = "RDMA"
    /\ FeatureRDMA
    /\ SetState(cur.s, "Bypassed")
    /\ Reply
    /\ UNCHANGED <<hostVars, kfd, sockets, hs, g>>

\* Variant: the state is set whether or not an entry answered.
ConnectFails_Bypassed ==
    /\ At("connect")
    /\ cur.todo = <<>>
    /\ SetState(cur.s, "Bypassed")
    /\ Reply
    /\ UNCHANGED <<hostVars, kfd, sockets, hs, g>>

ConnectFails ==
    /\ At("connect")
    /\ cur.todo = <<>>
    /\ SetState(cur.s, "Error")
    /\ Reply
    /\ UNCHANGED <<hostVars, kfd, sockets, hs, g>>

-----------------------------------------------------------------------------
(* handleSysSetsockopt and handleSysFcntl.  What they record configures the *)
(* host sockets made later; on a bound socket they also apply it at once,   *)
(* to the daemon's descriptor that has the container's number.              *)

OnOption(names) ==
    /\ At("serve")
    /\ cur.call.name \in names
    /\ ~InState({"NotBypassable", "Bypassed"})

HostBacked == InState({"Binded", "Listening"})

\* No option the code records matters to the rest of the model.
Setsockopt ==
    /\ OnOption({"setsockopt"})
    /\ Reply
    /\ UNCHANGED <<hostVars, kfd, sockets, sock, hs, g>>

\* What the number fd names in the daemon, if that is a socket of the model.
NamedByFd(fd) == {f \in Listener \cup Conns : fd \in HostFds /\ hfd[fd] = f}

\* F_SETFL.
SetFlags ==
    LET on == cur.call.name = "setnonblock"
        named == IF HostBacked THEN NamedByFd(cur.call.fd) ELSE {}
    IN  /\ OnOption({"setnonblock", "setblock"})
        /\ sock' = [sock EXCEPT ![cur.s].nonblock = on]
        /\ nonblock' = IF on THEN nonblock \cup named ELSE nonblock \ named
        /\ Reply
        /\ UNCHANGED <<hfd, listening, addr, conn, kfd, sockets, hs, g>>

\* fcntl of the zero fcntlOption: command 0 is F_DUPFD.
Duplicated(fd) == HostBacked /\ fd \in HostFds /\ hfd[fd] # Free

\* The commands that record nothing.
Getfl ==
    /\ OnOption({"getfl"})
    /\ IF Duplicated(cur.call.fd) /\ ~NoFreeFd
       THEN \E n \in HostFds :
               NextFd(n) /\ hfd' = [hfd EXCEPT ![n] = hfd[cur.call.fd]]
       ELSE UNCHANGED hfd
    /\ Reply
    /\ UNCHANGED <<listening, addr, conn, nonblock, kfd,
                   sockets, sock, hs, g>>

-----------------------------------------------------------------------------
(* transportAccept, the goroutine of one listener. *)

AtG(l, pc) == g[l].pc = pc
GGoto(l, pc) == g' = [g EXCEPT ![l] = [NoGoroutine EXCEPT !.pc = pc]]

\* Variant: the context is not looked at again.
GCheck_Never(l) ==
    /\ AtG(l, "check")
    /\ GGoto(l, "enter")
    /\ UNCHANGED <<hostVars, containerVars, cur, sockets, sock, hs>>

\* select on hs.Ctx.Done()
GCheck(l) ==
    /\ AtG(l, "check")
    /\ GGoto(l, IF hs[l].Cancelled THEN "done" ELSE "enter")
    /\ UNCHANGED <<hostVars, containerVars, cur, sockets, sock, hs>>

\* accept(2) looks up the number it was given, which by now may be free or
\* refer to another file, and then keeps a reference to that file.
GEnter(l) ==
    /\ AtG(l, "enter")
    /\ hfd[hs[l].Sockfd] \in listening
    /\ g' = [g EXCEPT ![l].pc = "blocked",
                      ![l].file = hfd[hs[l].Sockfd],
                      ![l].nowait = hfd[hs[l].Sockfd] \in nonblock]
    /\ UNCHANGED <<hostVars, containerVars, cur, sockets, sock, hs>>

GAccept(l) ==
    /\ AtG(l, "blocked")
    /\ g[l].file \in listening
    /\ \E c \in Conns, n \in HostFds :
          /\ conn[c].st = "backlog"
          /\ conn[c].lsn = g[l].file
          /\ NextFd(n)
          /\ hfd' = [hfd EXCEPT ![n] = c]
          /\ conn' = [conn EXCEPT ![c].st = "accepted"]
          /\ g' = [g EXCEPT ![l] = [pc |-> "recv", file |-> None,
                                    conn |-> c, fd |-> n, nowait |-> FALSE]]
    /\ UNCHANGED <<listening, addr, nonblock, containerVars,
                   cur, sockets, sock, hs>>

\* Any error ends the goroutine; hs.Cancel() and HostSocketError.
GEnd(l) ==
    /\ hs' = [hs EXCEPT ![l].State = "Error", ![l].Cancelled = TRUE]
    /\ GGoto(l, "done")
    /\ UNCHANGED <<hostVars, containerVars, cur, sockets, sock>>

\* A connection waits for accept(2) in the backlog of the goroutine's file.
Waiting(l) ==
    \E c \in Conns : conn[c].st = "backlog" /\ conn[c].lsn = g[l].file

\* The number is not that of a listener any more, the listener was shut down,
\* the accepted connection would exceed the descriptor limit, or there is
\* none and accept(2) does not wait for one (EAGAIN).
GAcceptFails(l) ==
    /\ \/ AtG(l, "enter") /\ hfd[hs[l].Sockfd] \notin listening
       \/ AtG(l, "blocked") /\ g[l].file \notin listening
       \/ AtG(l, "blocked") /\ NoFreeFd /\ Waiting(l)
       \/ AtG(l, "blocked") /\ g[l].nowait /\ ~Waiting(l)
    /\ GEnd(l)

\* recvDstVAddr fails, also if O_NONBLOCK was set before it was called; the
\* accepted descriptor stays open.
GRecvFails(l) ==
    /\ AtG(l, "recv")
    /\ \/ conn[g[l].conn].snd = "bad"
       \/ conn[g[l].conn].snd = "silent" /\ g[l].conn \in nonblock
    /\ GEnd(l)

\* Variant: a short read counts as an address.
Received_Short(l) == AtG(l, "recv") /\ conn[g[l].conn].snd # "silent"

\* recvDstVAddr returns the whole address.
Received(l) == AtG(l, "recv") /\ conn[g[l].conn].snd = "sent"

\* Variant: everyone is allowed.
Allowed_Always(c) == TRUE

\* sae.Apply on the address the peer sent.
Allowed(c) == SAE[ConnVAddr[c]]

\* Variant: one denied peer ends the loop.
GDeny_Stops(l) ==
    /\ Received(l)
    /\ ~Allowed(g[l].conn)
    /\ CloseFds({g[l].fd})
    /\ GGoto(l, "done")
    /\ UNCHANGED <<containerVars, cur, sockets, sock, hs>>

\* Denied: the connection is closed.
GDeny(l) ==
    /\ Received(l)
    /\ ~Allowed(g[l].conn)
    /\ CloseFds({g[l].fd})
    /\ GGoto(l, "check")
    /\ UNCHANGED <<containerVars, cur, sockets, sock, hs>>

\* Variant: the connection is not recorded.
WithAccepted_Not(l) == sock[l[1]].hostSockets

\* s.hostSockets.Store(as.Sockfd, as)
WithAccepted(l) == [sock[l[1]].hostSockets EXCEPT ![g[l].fd] = g[l].conn]

\* Allowed: it is recorded in hostSockets ...
GStore(l) ==
    /\ Received(l)
    /\ Allowed(g[l].conn)
    /\ sock' = [sock EXCEPT ![l[1]].hostSockets = WithAccepted(l)]
    /\ g' = [g EXCEPT ![l].pc = "send"]
    /\ UNCHANGED <<hostVars, containerVars, cur, sockets, hs>>

\* ... and sent to the channel, which has a bounded capacity.
GSend(l) ==
    LET s == l[1]
    IN  /\ AtG(l, "send")
        /\ Len(sock[s].acceptedSockets) < AcceptedSocketQueueCapacity
        /\ sock' = [sock EXCEPT ![s].acceptedSockets =
                      Append(@, [conn |-> g[l].conn, fd |-> g[l].fd])]
        /\ GGoto(l, "check")
        /\ UNCHANGED <<hostVars, containerVars, cur, sockets, hs>>

-----------------------------------------------------------------------------
(* The whole. *)

Receive(t) ==
    \/ HandleExit(t) \/ HandleThreadExit(t) \/ HandleClose(t)
    \/ Lookup(t) \/ Register(t) \/ RegisterFails(t)

HandleBind ==
    \/ BindRefused \/ BindBadAddr \/ BindUnknown \/ BindStart \/ BindDone
    \/ \E e \in Entries :
          BindEntry(e) \/ BindEntryFails(e) \/ BindEntryElse(e)

HandleListen == ListenAgain \/ ListenUnexpected \/ Listen

HandleAccept == AcceptRefused \/ AcceptDeliver \/ AcceptAddFdFails

HandleConnect ==
    \/ ConnectBadAddr \/ ConnectRefused \/ ConnectStart
    \/ ConnectNextTransport \/ ConnectFails
    \/ \E e \in Entries :
          ConnectEntry(e) \/ ConnectEntryFails(e) \/ ConnectRDMA(e)

HandleOptions == Setsockopt \/ SetFlags \/ Getfl

HandleCur ==
    \/ PassThrough \/ Reregister \/ Getname
    \/ HandleBind \/ HandleListen \/ HandleAccept \/ HandleConnect
    \/ HandleOptions

TransportAccept(l) ==
    \/ GCheck(l) \/ GEnter(l) \/ GAccept(l) \/ GAcceptFails(l)
    \/ GRecvFails(l) \/ GDeny(l) \/ GStore(l) \/ GSend(l)

KernelReturn(t) ==
    (KernelClose(t) \/ KernelExit(t)) /\ UNCHANGED <<hostVars, seccompVars>>

\* The bound on the workload: a thread makes calls that may allocate status
\* objects only while there are two for each such call in flight.
RoomForCall(c) ==
    LET unused == {s \in SockIds : sock[s].state = "Unused"}
        inFlight == {t \in Threads : phase[t] \in {"notified", "received"}}
    IN  \/ c.name \in {"close", "exit_group"}
        \/ Cardinality(unused) >= 2 * (Cardinality(inFlight) + 1)

User(t) ==
    /\ \/ \E c \in Calls : RoomForCall(c) /\ MakeCall(t, c)
       \/ Open(t) \/ SilentClose(t) \/ Interrupt(t) \/ Kill(t)
    /\ UNCHANGED <<hostVars, seccompVars>>

Peers == HostNext /\ UNCHANGED <<containerVars, seccompVars>>

Next ==
    \/ \E t \in Threads : Receive(t) \/ KernelReturn(t) \/ User(t)
    \/ HandleCur
    \/ \E l \in Listener : TransportAccept(l)
    \/ Peers

Spec == Init /\ [][Next]_vars

\* The handler is one goroutine that takes notifications in the order of the
\* kernel's list, so none waits while others overtake it for ever; the Go
\* scheduler runs every goroutine that can run; the kernel finishes the calls
\* it was told to continue.  Nothing is assumed of the threads or the peers.
Fairness ==
    /\ WF_vars(HandleCur)
    /\ \A t \in Threads : SF_vars(Receive(t)) /\ WF_vars(KernelReturn(t))
    /\ \A l \in Listener : WF_vars(TransportAccept(l))

FairSpec == Spec /\ Fairness

-----------------------------------------------------------------------------
(* Safety. *)

Approved(c) == SAE[ConnVAddr[c]] /\ conn[c].snd = "sent"

\* The lists are consulted before anything is handed on: what a goroutine is
\* about to queue or has queued is allowed by the server list under the address
\* that was received whole; what is being dialled, or is behind a descriptor
\* of the container, by the client list.
AccessChecked ==
    /\ \A l \in Listener : g[l].pc = "send" => Approved(g[l].conn)
    /\ \A s \in SockIds :
          \A i \in 1 .. Len(sock[s].acceptedSockets) :
             Approved(sock[s].acceptedSockets[i].conn)
    /\ At("connect") => CAE[cur.call.addr]
    /\ \A p \in Procs, fd \in Fds : kfd[p][fd] \in VAddrs => CAE[kfd[p][fd]]

\* Access control is complete (README.md, "unified access control"): a
\* descriptor of the container refers to a connection of the host only if the
\* server list allows the address the peer sent on it, and to one dialled out
\* only if the client list allows its virtual address, whatever the order of
\* accepts, closes, stores and deliveries.
DeliveredApproved ==
    \A p \in Procs, fd \in Fds :
        LET f == kfd[p][fd]
        IN  /\ f \in Conns => Approved(f)
            /\ f \in VAddrs => CAE[f]

\* hostSockets maps a number of the daemon to what that number refers to: the
\* numbers are used long after they were stored (listen, accept, removeSocket)
\* and nothing but this discipline keeps them from meaning another file.
HostSocketsSound ==
    \A s \in SockIds, n \in HostFds :
        Registered(s) /\ sock[s].hostSockets[n] # None
            => hfd[n] = sock[s].hostSockets[n]

\* What waits in acceptedSockets of a live socket came through its own
\* listeners, is recorded in hostSockets, and waits only once.
QueueSound ==
    \A s \in SockIds : Registered(s) =>
        LET q == sock[s].acceptedSockets
        IN  /\ \A i \in 1 .. Len(q) :
                 /\ sock[s].hostSockets[q[i].fd] = q[i].conn
                 /\ conn[q[i].conn].lsn[1] = s
            /\ \A i, j \in 1 .. Len(q) : q[i].fd = q[j].fd => i = j

\* A connection is held once: the deferred close in accept gives the daemon's
\* descriptor up exactly when the container has its own.
OneHolder ==
    \A c \in Conns :
        Cardinality({n \in HostFds : hfd[n] = c})
        + Cardinality({pf \in Procs \X Fds : kfd[pf[1]][pf[2]] = c}) <= 1

\* Closing or exiting gives the physical addresses back: an open host socket
\* bound for a container socket means that this socket is still registered.
AddressReleased ==
    \A n \in HostFds :
        hfd[n] \in Listener => Registered(hfd[n][1])

\* A socket that tells its container it is bound or listening still holds a
\* physical address of the virtual address that getsockname reports.
BoundBacked ==
    \A s \in SockIds :
        Registered(s) /\ sock[s].state \in {"Binded", "Listening"} =>
            \E n \in HostFds :
                /\ hfd[n] \in Listener
                /\ hfd[n][1] = s
                /\ \E i \in DOMAIN ServerEntries[sock[s].localVAddr] :
                      ServerEntries[sock[s].localVAddr][i] = hfd[n][2]

\* "Listening means that the socket is listening": some goroutine accepts.
ListeningHasAcceptor ==
    \A s \in SockIds :
        Registered(s) /\ sock[s].state = "Listening" =>
            \E e \in Entries : g[<<s, e>>].pc \notin {"none", "done"}

\* "Bypassed means that the socket is replaced by one created on the host".
BypassedReplaced ==
    \A p \in Procs, fd \in Fds :
        LET s == sockets[p][fd]
        IN  s # None /\ sock[s].state = "Bypassed" =>
              kfd[p][fd] \in Conns \cup VAddrs

\* getpeername and getsockname, answered from the status alone, tell the truth
\* about the connection that is behind the descriptor: who dialled or was
\* dialled, and through which of the local address's entries it came.
NamesTrue ==
    \A p \in Procs, fd \in Fds :
        LET s == sockets[p][fd]
            f == kfd[p][fd]
            entries == ServerEntries[sock[s].localVAddr]
        IN  s # None /\ sock[s].state = "Bypassed" =>
              /\ f \in VAddrs => sock[s].remoteVAddr = f
              /\ f \in Conns =>
                   /\ sock[s].remoteVAddr = ConnVAddr[f]
                   /\ \E i \in DOMAIN entries : entries[i] = conn[f].lsn[2]

\* "cleanup sockets when the process exits".
ExitCleansUp ==
    \A p \in Procs :
        (\A t \in Threads : Tgid[t] = p => phase[t] = "exited")
            => \A fd \in Fds : sockets[p][fd] = None

\* "Cleanup": what a removed socket still holds open is bounded.  Each of its
\* goroutines may have accepted one connection that is stored after the map
\* was walked, and the test of its context lets it accept no second one.
RemovedHoldsLittle ==
    \A s \in SockIds : ~Registered(s) =>
        LET held == {n \in HostFds :
                       hfd[n] \in Conns /\ sock[s].hostSockets[n] = hfd[n]}
        IN  Cardinality(held)
              <= Cardinality({e \in Entries : g[<<s, e>>].pc # "none"})

-----------------------------------------------------------------------------
(* What becomes of a connection (Delivery.tla). *)

\* The queue of a registered socket.
Line(s) ==
    IF Registered(s)
    THEN [i \in DOMAIN sock[s].acceptedSockets |-> sock[s].acceptedSockets[i].conn]
    ELSE <<>>

InLine(c) == \E s \in SockIds : \E i \in DOMAIN Line(s) : Line(s)[i] = c

\* A goroutine of a registered socket has it.
InHand(c) ==
    \E l \in Listener :
        g[l].pc \in {"recv", "send"} /\ g[l].conn = c /\ Registered(l[1])

Stage(c) ==
    CASE conn[c].st = "new" -> "away"
      [] conn[c].st = "backlog" -> "waiting"
      [] conn[c].st = "accepted" /\ InLine(c) -> "queued"
      [] conn[c].st = "accepted" /\ ~InLine(c) /\ InHand(c) -> "taken"
      [] OTHER -> "done"

Has == {x \in Procs \X SockIds : \E fd \in Fds : sockets[x[1]][fd] = x[2]}
Holds == {x \in Procs \X Conns : \E fd \in Fds : kfd[x[1]][fd] = x[2]}
DialledTo ==
    [c \in Conns |-> IF conn[c].lsn = None THEN None ELSE conn[c].lsn[1]]

Promise == INSTANCE Delivery WITH
    Sockets <- SockIds,
    Admitted <- {c \in Conns : SAE[ConnVAddr[c]]},
    has <- Has,
    to <- DialledTo,
    named <- {c \in Conns : conn[c].snd = "sent"},
    stage <- [c \in Conns |-> Stage(c)],
    line <- [s \in SockIds |-> Line(s)],
    holds <- Holds

\* Through all that happens to numbers, queues, goroutines and host sockets a
\* connection goes where its peer opened it: it is taken for a socket that is
\* open, refused for a reason, put in line, given once and in order, to a
\* process that has the socket, and lost only when the socket ends or a
\* goroutine of one that has ended takes it.
DeliveryKept == Promise!Spec

-----------------------------------------------------------------------------
(* Action properties. *)

\* The handler closes no descriptor of another part of the daemon: numbers are
\* reused, so each close has to be of a number that is still its own.
ForeignSafe ==
    [][\A n \in HostFds : hfd[n] = Foreign => hfd'[n] = Foreign]_vars

\* Once a socket is removed its goroutines accept no more connections.
RemovedAcceptsNothing ==
    [][\A l \in Listener :
          g[l].pc = "blocked" /\ g'[l].pc = "recv" => Registered(l[1])]_vars

-----------------------------------------------------------------------------
(* Liveness. *)

\* The host side of `live`: peers send their address.
HonestPeers ==
    \A c \in Conns :
        WF_vars(PeerSend(c) /\ UNCHANGED <<containerVars, seccompVars>>)

\* accept returns: while it waits on a socket, an allowed peer in the backlog
\* of that socket is enough, whoever was denied or is queued before it.
AcceptServed ==
    \A c \in Conns :
        (/\ On("accept") /\ InState({"Listening"})
         /\ SAE[ConnVAddr[c]]
         /\ conn[c].st = "backlog" /\ conn[c].lsn[1] = cur.s)
            ~> cur = None

\* The goroutines of a socket that was closed end, although nothing can
\* interrupt the accept(2) and recvfrom(2) they wait in.
RemovedStops ==
    \A l \in Listener :
        (g[l].pc # "none" /\ ~Registered(l[1])) ~> g[l].pc = "done"

\* Every reported call is answered, unless the handler waits in accept.
CallsAnswered ==
    \A t \in Threads :
        phase[t] \in {"notified", "received"}
            ~> \/ phase[t] \in {"idle", "continued", "exited"}
               \/ On("accept") /\ InState({"Listening"})

\* "remove socket when closed": a close(2) is handled.
CloseHandled ==
    \A t \in Threads :
        (phase[t] = "notified" /\ call[t].name = "close")
            ~> phase[t] # "notified"
=============================================================================
