---------------------------- MODULE HolderProofs ----------------------------
(***************************************************************************)
(* Who holds what: the listeners that are open belong to registered        *)
(* sockets, and a connection is held once, by the daemon or by a process.  *)
(*                                                                         *)
(* The steps of Seccomp are first sorted by what they do to descriptors,   *)
(* maps and goroutines; the other proofs about them start from that list.  *)
(***************************************************************************)
EXTENDS SeccompProofs, FiniteSetTheorems

\* fcntl with a command the handler does not know reaches the descriptor of the
\* daemon that has the container's number, as F_DUPFD (README.md, findings).
Copies == Getfl /\ Duplicated(cur.call.fd)

\* No number is a descriptor of both, so that nothing is copied.
NumbersApart == \A c \in Calls : c.name = "getfl" => c.fd \notin HostFds

-----------------------------------------------------------------------------
(* What the steps change. *)

Keys(s) == sock[s].hostSockets
Waits(s) == sock[s].acceptedSockets

\* The states in which a socket has listened to nothing yet.
Young == {"Unused", "NotBypassed", "Binded"}

\* The peers' connections are where they were.
ConnsKept ==
    \A c \in Conns : conn'[c].st = conn[c].st /\ conn'[c].lsn = conn[c].lsn

\* The numbers N are closed; connections are at most reset.
Closing(N) ==
    /\ \A n \in HostFds : hfd'[n] = IF n \in N THEN Free ELSE hfd[n]
    /\ \A c \in Conns :
          /\ conn'[c].lsn = conn[c].lsn
          /\ conn'[c].st = "accepted" <=> conn[c].st = "accepted"
          /\ conn'[c].st = "new" <=> conn[c].st = "new"
          /\ conn'[c].st = "backlog" => conn[c].st = "backlog"
          /\ conn[c].st = "backlog" =>
                \/ conn'[c].st = "backlog"
                \/ \E n \in N : hfd[n] = conn[c].lsn

\* removeSocket of the statuses S.
Removing(S) ==
    /\ Closing(HeldFds(S))
    /\ \A l \in Listener :
          /\ hs'[l].Sockfd = hs[l].Sockfd
          /\ hs'[l].Cancelled = (hs[l].Cancelled \/ l \in HeldListeners(S))

\* A step of another kind than those below.
StillHost ==
    /\ \A n \in HostFds :
          \/ hfd'[n] = hfd[n]
          \/ hfd[n] = Free /\ hfd'[n] \in {Orphan, Foreign}
          \/ Copies /\ hfd[n] = Free /\ \E m \in HostFds : hfd'[n] = hfd[m]
    /\ ConnsKept

StillStatus ==
    /\ UNCHANGED <<sockets, hs, g>>
    /\ \A s \in SockIds :
          /\ Keys(s)' = Keys(s) /\ Waits(s)' = Waits(s)
          /\ sock'[s].state \in Young => sock[s].state \in Young
          /\ sock'[s].state = "Unused" <=> sock[s].state = "Unused"

StillFiles ==
    \A p \in Procs, fd \in Fds :
        kfd'[p][fd] \in Conns => kfd'[p][fd] = kfd[p][fd]

StillServing ==
    cur' # None =>
        /\ \/ cur # None /\ cur'.t = cur.t /\ cur'.call = cur.call
              /\ cur'.s = cur.s
           \/ cur = None /\ sockets[Tgid[cur'.t]][cur'.call.fd] = cur'.s
        /\ cur'.pc = "bind" => sock'[cur'.s].state = "NotBypassed"

Still == StillHost /\ StillStatus /\ StillFiles /\ StillServing

\* The process t exits: all its statuses are removed.
Drop(t) ==
    /\ cur = None /\ cur' = None
    /\ Removing({s \in SockIds : \E fd \in Fds : sockets[t][fd] = s})
    /\ \A p \in Procs, fd \in Fds :
          sockets'[p][fd] = IF p = t THEN None ELSE sockets[p][fd]
    /\ UNCHANGED <<sock, g, kfd>>

\* The status of a descriptor is removed and it gets none or a new one.
Renew(p, fd, x) ==
    /\ Removing({s \in SockIds : sockets[p][fd] = s})
    /\ \A q \in Procs, d \in Fds :
          sockets'[q][d] = IF q = p /\ d = fd THEN x ELSE sockets[q][d]
    /\ \/ x = None /\ UNCHANGED sock
       \/ /\ x \in SockIds /\ Fresh(x)
          /\ \E st \in {"NotBypassed", "NotBypassable"} :
                sock' = [sock EXCEPT ![x] = NewStatus(st)]
    /\ cur # None => Tgid[cur.t] = p /\ cur.call.fd = fd
    /\ cur' # None => /\ Tgid[cur'.t] = p /\ cur'.call.fd = fd /\ cur'.s = x
                      /\ cur'.pc = "serve"
    /\ UNCHANGED <<g, kfd>>

\* A host socket is made for the socket in service.
Bind(e, n) ==
    LET l == <<cur.s, e>>
    IN  /\ cur # None /\ cur.pc = "bind"
        /\ cur'.t = cur.t /\ cur'.call = cur.call /\ cur'.s = cur.s
        /\ hfd[n] = Free
        /\ hfd' = [hfd EXCEPT ![n] = l]
        /\ hs' = [hs EXCEPT ![l] = [Sockfd |-> n, State |-> "Binded",
                                    Cancelled |-> FALSE]]
        /\ \A s \in SockIds :
              /\ Keys(s)' = IF s = cur.s THEN [Keys(s) EXCEPT ![n] = l]
                            ELSE Keys(s)
              /\ Waits(s)' = Waits(s)
              /\ sock'[s].state = sock[s].state
        /\ UNCHANGED <<conn, sockets, g, kfd>>

\* The host sockets of the socket in service listen, and their goroutines start.
Start(up) ==
    /\ cur # None /\ cur' = None
    /\ sock[cur.s].state = "Binded"
    /\ up \subseteq HeldListeners({cur.s})
    /\ \A l \in Listener :
          /\ hs'[l].Sockfd = hs[l].Sockfd
          /\ hs'[l].Cancelled = hs[l].Cancelled
    /\ g' = [l \in Listener |->
               IF l \in up THEN [NoGoroutine EXCEPT !.pc = "check"] ELSE g[l]]
    /\ \A s \in SockIds :
          /\ Keys(s)' = Keys(s) /\ Waits(s)' = Waits(s)
          /\ sock'[s].state =
                IF s = cur.s THEN sock'[s].state ELSE sock[s].state
    /\ sock'[cur.s].state \notin Young
    /\ up \subseteq listening'
    /\ UNCHANGED <<hfd, conn, sockets, kfd>>

\* The head of the queue of s is given to the process p.
Deliver(s, p, newfd, a) ==
    LET as == Head(Waits(s))
    IN  /\ cur # None /\ cur' = None /\ s = cur.s /\ p = Tgid[cur.t]
        /\ Waits(s) # <<>>
        /\ hfd[as.fd] # Free
        /\ Closing({as.fd})
        /\ \/ sockets[p][newfd] = a
           \/ sockets[p][newfd] = None /\ Fresh(a)
        /\ \A q \in Procs, d \in Fds :
              /\ sockets'[q][d] =
                    IF q = p /\ d = newfd THEN a ELSE sockets[q][d]
              /\ kfd'[q][d] =
                    IF q = p /\ d = newfd THEN hfd[as.fd] ELSE kfd[q][d]
        /\ \A r \in SockIds :
              /\ Keys(r)' = IF r = s THEN [Keys(r) EXCEPT ![as.fd] = None]
                            ELSE Keys(r)
              /\ Waits(r)' = IF r = s THEN Tail(Waits(r)) ELSE Waits(r)
              /\ sock'[r].state = IF r = a THEN "Bypassed" ELSE sock[r].state
              /\ sock'[r].localVAddr =
                    sock[IF r = a THEN s ELSE r].localVAddr
              /\ sock'[r].remoteVAddr =
                    IF r = a THEN ConnVAddr[as.conn] ELSE sock[r].remoteVAddr
        /\ sock[s].state = "Listening" /\ cur.pc = "serve"
        /\ listening' \subseteq listening
        /\ UNCHANGED <<hs, g>>

\* The head of the queue of s is lost.
Lose(s) ==
    LET as == Head(Waits(s))
    IN  /\ cur # None /\ cur' = None /\ s = cur.s
        /\ Waits(s) # <<>>
        /\ Closing({as.fd})
        /\ \A r \in SockIds :
              /\ Keys(r)' = Keys(r)
              /\ Waits(r)' = IF r = s THEN Tail(Waits(r)) ELSE Waits(r)
              /\ sock'[r].state =
                    IF r = s THEN "NotBypassable" ELSE sock[r].state
        /\ UNCHANGED <<sockets, kfd, hs, g>>

Failing(l) == GAcceptFails(l) \/ GRecvFails(l)

\* The goroutine of l looks at its context, enters accept(2) or ends.
Turn(l) ==
    /\ \/ g[l].pc = "check" /\ GGoto(l, IF hs[l].Cancelled THEN "done" ELSE "enter")
       \/ /\ g[l].pc = "enter" /\ hfd[hs[l].Sockfd] \in Listener
          /\ g' = [g EXCEPT ![l].pc = "blocked",
                            ![l].file = hfd[hs[l].Sockfd],
                            ![l].nowait = hfd[hs[l].Sockfd] \in nonblock]
       \/ /\ g[l].pc \in {"enter", "blocked", "recv"} /\ GGoto(l, "done")
          /\ Failing(l)
    /\ \A k \in Listener :
          /\ hs'[k].Sockfd = hs[k].Sockfd
          /\ hs[k].Cancelled => hs'[k].Cancelled
          /\ k # l \/ ~Failing(l) => hs'[k].Cancelled = hs[k].Cancelled
    /\ UNCHANGED <<hfd, conn, cur, sockets, sock, kfd>>

\* It accepts, denies, stores or queues a connection.
Accepting(l, c, n) ==
    /\ g[l].pc = "blocked"
    /\ conn[c].st = "backlog" /\ conn[c].lsn = g[l].file
    /\ hfd[n] = Free
    /\ hfd' = [hfd EXCEPT ![n] = c]
    /\ conn' = [conn EXCEPT ![c].st = "accepted"]
    /\ g' = [g EXCEPT ![l] = [pc |-> "recv", file |-> None, conn |-> c,
                              fd |-> n, nowait |-> FALSE]]
    /\ UNCHANGED <<cur, sockets, sock, hs, kfd>>

Denying(l) ==
    /\ g[l].pc = "recv" /\ ~Allowed(g[l].conn)
    /\ Closing({g[l].fd})
    /\ GGoto(l, "check")
    /\ UNCHANGED <<cur, sockets, sock, hs, kfd>>

Storing(l) ==
    /\ g[l].pc = "recv"
    /\ \A s \in SockIds :
          /\ Keys(s)' = IF s = l[1] THEN [Keys(s) EXCEPT ![g[l].fd] = g[l].conn]
                        ELSE Keys(s)
          /\ Waits(s)' = Waits(s)
          /\ sock'[s].state = sock[s].state
    /\ g' = [g EXCEPT ![l].pc = "send"]
    /\ UNCHANGED <<hfd, conn, cur, sockets, hs, kfd>>

Queueing(l) ==
    /\ g[l].pc = "send"
    /\ \A s \in SockIds :
          /\ Keys(s)' = Keys(s)
          /\ Waits(s)' =
                IF s = l[1]
                THEN Append(Waits(s), [conn |-> g[l].conn, fd |-> g[l].fd])
                ELSE Waits(s)
          /\ sock'[s].state = sock[s].state
    /\ GGoto(l, "check")
    /\ UNCHANGED <<hfd, conn, cur, sockets, hs, kfd>>

\* A peer's connection reaches the backlog of a listener.
Arriving(c, l) ==
    /\ conn[c].st = "new" /\ l \in listening
    /\ conn' = [conn EXCEPT ![c].st = "backlog", ![c].lsn = l]
    /\ UNCHANGED <<hfd, kfd, cur, sockets, sock, hs, g>>

Moves ==
    \/ Still
    \/ \E t \in Procs : Drop(t)
    \/ \E p \in Procs, fd \in Fds, x \in SockIds \cup {None} : Renew(p, fd, x)
    \/ \E e \in Entries, n \in HostFds : Bind(e, n)
    \/ \E up \in SUBSET Listener : Start(up)
    \/ \E s \in SockIds, p \in Procs, newfd \in Fds, a \in SockIds :
          Deliver(s, p, newfd, a)
    \/ AcceptAddFdFails /\ \E s \in SockIds : Lose(s)
    \/ \E l \in Listener :
          \/ Turn(l) \/ Denying(l) \/ Storing(l) \/ Queueing(l)
          \/ \E c \in Conns, n \in HostFds : Accepting(l, c, n)
    \/ \E c \in Conns, l \in Listener : Arriving(c, l)

-----------------------------------------------------------------------------
(* The status of the socket in service. *)

\* A status that some descriptor has is in use.
SlotsUsed ==
    \A p \in Procs, fd \in Fds :
        sockets[p][fd] # None => sock[sockets[p][fd]].state # "Unused"

\* The status in service is the one registered for the call's descriptor.
ServedSlot ==
    cur # None =>
        /\ sockets[Tgid[cur.t]][cur.call.fd] = cur.s
        /\ cur.pc = "bind" => sock[cur.s].state = "NotBypassed"

Slots == SlotsUsed /\ ServedSlot

-----------------------------------------------------------------------------
(* Every step is one of the moves. *)

LEMMA NoValues ==
    /\ None \notin SockIds /\ None \notin Listener /\ None \notin Conns
    /\ None \notin HostFds
    /\ Free \notin Listener /\ Free \notin Conns
    /\ Orphan \notin Listener /\ Orphan \notin Conns
    /\ Foreign \notin Listener /\ Foreign \notin Conns
    /\ Free # Orphan /\ Free # Foreign /\ Free # None
    /\ Conns \cap Listener = {}
    /\ Closed \notin Conns /\ Inet \notin Conns /\ Other \notin Conns
    /\ VAddrs \cap Conns = {}
<1>1. Conns \subseteq File /\ Conns \cap VAddrs = {}
  BY HostDistinct DEF File
<1>2. Closed \notin Conns /\ Inet \notin Conns /\ Other \notin Conns
  BY <1>1, ContainerDistinct
<1> QED BY <1>1, <1>2, HostDistinct

LEMMA ClosingFacts ==
    ASSUME TypeInv, NEW N, CloseFds(N)
    PROVE  Closing(N)
  BY DEF TypeInv, HostTypeOK, Connection, CloseFds, Closing

LEMMA RemovingFacts ==
    ASSUME TypeInv, NEW S, Remove(S)
    PROVE  Removing(S)
<1>1. Closing(HeldFds(S))
  BY ClosingFacts DEF Remove
<1>2. ASSUME NEW l \in Listener
      PROVE  /\ hs'[l].Sockfd = hs[l].Sockfd
             /\ hs'[l].Cancelled = (hs[l].Cancelled \/ l \in HeldListeners(S))
  <2>1. hs[l] \in HostSocket
    BY DEF TypeInv, TablesOK
  <2> QED BY <2>1 DEF Remove, HostSocket
<1> QED BY <1>1, <1>2 DEF Removing

\* Removing nothing.
LEMMA RemovingNone ==
    ASSUME TypeInv, NEW S, S = {}, UNCHANGED <<hostVars, hs>>
    PROVE  Removing(S)
<1>1. HeldFds(S) = {} /\ HeldListeners(S) = {}
  BY DEF HeldFds, HeldListeners
<1>2. Closing({})
  BY DEF Closing, hostVars
<1>3. \A l \in Listener : hs[l].Cancelled \in BOOLEAN
  BY DEF TypeInv, TablesOK, HostSocket
<1> QED BY <1>1, <1>2, <1>3 DEF Removing

LEMMA StatusType ==
    ASSUME TypeInv, NEW s \in SockIds
    PROVE  /\ sock[s] \in SocketStatus
           /\ Keys(s) \in [HostFds -> Listener \cup Conns \cup {None}]
           /\ Waits(s) \in Seq(Accepted)
           /\ sock \in [SockIds -> SocketStatus]
  BY DEF TypeInv, TablesOK, SocketStatus, Keys, Waits

\* The receptions.
LEMMA ReceiveMoves ==
    ASSUME TypeInv, Slots, NEW t \in Threads, Receive(t)
    PROVE  Moves
<1>0. /\ Tgid[t] \in Procs
      /\ phase[t] = "notified" => call[t] \in Calls /\ call[t].fd \in Fds
  BY ProcType, CallType DEF TypeInv, ThreadOK
<1>1. CASE HandleExit(t)
  <2>1. Drop(t)
    <3>1. Removing({s \in SockIds : \E fd \in Fds : sockets[t][fd] = s})
      BY <1>1, RemovingFacts DEF HandleExit
    <3>2. \A p \in Procs, fd \in Fds :
             sockets'[p][fd] = IF p = t THEN None ELSE sockets[p][fd]
      BY <1>1 DEF HandleExit, TypeInv, TablesOK
    <3> QED BY <1>1, <3>1, <3>2 DEF HandleExit, Notified, Drop
  <2> QED BY <1>0, <1>1, <2>1 DEF HandleExit, Moves
<1>2. ASSUME UNCHANGED <<hostVars, kfd, sockets, sock, hs, g>>
      PROVE  StillHost /\ StillStatus /\ StillFiles
  BY <1>2 DEF hostVars, StillHost, ConnsKept, StillStatus, StillFiles, Keys, Waits
<1>3. CASE HandleThreadExit(t) \/ RegisterFails(t)
  <2>1. UNCHANGED <<hostVars, kfd, seccompVars>> /\ cur = None
    BY <1>3 DEF HandleThreadExit, RegisterFails, Notified
  <2>2. StillServing
    BY <2>1 DEF StillServing, seccompVars
  <2> QED BY <1>2, <2>1, <2>2 DEF seccompVars, Still, Moves
<1>4. CASE HandleClose(t)
  <2> DEFINE p == Tgid[t]
             fd == call[t].fd
  <2>0. fd \in Fds /\ cur = None /\ cur' = None
    BY <1>0, <1>4 DEF HandleClose, Notified
  <2>1. Removing({s \in SockIds : sockets[p][fd] = s})
    BY <1>4, RemovingFacts DEF HandleClose
  <2>2. \A q \in Procs, d \in Fds :
           sockets'[q][d] = IF q = p /\ d = fd THEN None ELSE sockets[q][d]
    <3>1. sockets' = [sockets EXCEPT ![p][fd] = None]
      BY <1>4 DEF HandleClose
    <3> HIDE DEF p, fd
    <3> QED BY <3>1 DEF TypeInv, TablesOK
  <2>3. Renew(p, fd, None)
    BY <1>4, <2>0, <2>1, <2>2 DEF HandleClose, Renew
  <2> QED BY <1>0, <2>0, <2>3 DEF Moves
<1>5. CASE Lookup(t)
  <2> DEFINE s == sockets[Tgid[t]][call[t].fd]
  <2>1. /\ cur = None
        /\ cur' = [t |-> t, call |-> call[t], s |-> s, pc |-> "serve",
                   todo |-> <<>>, ok |-> FALSE]
    BY <1>5 DEF Lookup, Notified, Serve
  <2>2. StillServing
    BY <2>1 DEF StillServing
  <2> QED BY <1>2, <1>5, <2>2 DEF Lookup, Serve, Still, Moves
<1>6. CASE Register(t)
  <2> DEFINE p == Tgid[t]
             fd == call[t].fd
  <2> PICK x \in SockIds :
        /\ Fresh(x)
        /\ sockets' = [sockets EXCEPT ![p][fd] = x]
        /\ sock' = [sock EXCEPT ![x] = NewStatus(InitialState(kfd[p][fd]))]
        /\ Serve(t, x)
    BY <1>6 DEF Register
  <2>0. fd \in Fds /\ cur = None
    BY <1>0, <1>6 DEF Register, Notified
  <2>1. Removing({s \in SockIds : sockets[p][fd] = s})
    <3>1. {s \in SockIds : sockets[p][fd] = s} = {}
      BY <1>6, NoValues DEF Register
    <3> QED BY <1>6, <3>1, RemovingNone DEF Register
  <2>2. \A q \in Procs, d \in Fds :
           sockets'[q][d] = IF q = p /\ d = fd THEN x ELSE sockets[q][d]
    <3> HIDE DEF p, fd
    <3> QED BY DEF TypeInv, TablesOK
  <2>3. /\ cur'.t = t /\ cur'.call = call[t] /\ cur'.s = x
        /\ cur'.pc = "serve" /\ kfd' = kfd
    BY DEF Serve
  <2>4. InitialState(kfd[p][fd]) \in {"NotBypassed", "NotBypassable"}
    BY DEF InitialState
  <2>5. Renew(p, fd, x)
    BY <1>6, <2>0, <2>1, <2>2, <2>3, <2>4 DEF Register, Renew
  <2> QED BY <1>0, <2>0, <2>5 DEF Moves
<1> QED BY <1>1, <1>3, <1>4, <1>5, <1>6 DEF Receive

LEMMA ReregisterMoves ==
    ASSUME TypeInv, Slots, Reregister
    PROVE  Moves
<1> DEFINE p == Tgid[cur.t]
           fd == cur.call.fd
<1>0. p \in Procs /\ fd \in Fds /\ cur # None /\ cur \in Serving /\ cur.pc = "serve"
  BY CurType DEF Reregister, At
<1>1. Removing({s \in SockIds : sockets[p][fd] = s})
  BY RemovingFacts DEF Reregister
<1>2. CASE kfd[p][fd] = Closed
  <2>1. sockets' = [sockets EXCEPT ![p][fd] = None] /\ cur' = None /\ sock' = sock
    BY <1>2 DEF Reregister, Reply
  <2>2. \A q \in Procs, d \in Fds :
           sockets'[q][d] = IF q = p /\ d = fd THEN None ELSE sockets[q][d]
    <3> HIDE DEF p, fd
    <3> QED BY <2>1 DEF TypeInv, TablesOK
  <2>3. Renew(p, fd, None)
    BY <1>1, <2>1, <2>2 DEF Reregister, Renew
  <2> QED BY <1>0, <2>3 DEF Moves
<1>3. CASE kfd[p][fd] # Closed
  <2> DEFINE st == InitialState(kfd[p][fd])
  <2> PICK x \in SockIds :
        /\ Fresh(x)
        /\ sockets' = [sockets EXCEPT ![p][fd] = x]
        /\ sock' = [sock EXCEPT ![x] = NewStatus(st)]
        /\ cur' = [cur EXCEPT !.s = x] \/ cur' = None
    BY <1>3 DEF Reregister, Reply
  <2>1. st \in {"NotBypassed", "NotBypassable"}
    BY DEF InitialState
  <2>2. cur' # None => /\ Tgid[cur'.t] = p /\ cur'.call.fd = fd /\ cur'.s = x
                       /\ cur'.pc = "serve"
    BY <1>0 DEF Serving
  <2>3. \A q \in Procs, d \in Fds :
           sockets'[q][d] = IF q = p /\ d = fd THEN x ELSE sockets[q][d]
    <3> HIDE DEF p, fd
    <3> QED BY DEF TypeInv, TablesOK
  <2>4. Renew(p, fd, x)
    BY <1>1, <2>1, <2>2, <2>3 DEF Reregister, Renew
  <2> QED BY <1>0, <2>4 DEF Moves
<1> QED BY <1>2, <1>3

\* The calls that change no holder.
QuietCall ==
    \/ PassThrough \/ Getname
    \/ BindRefused \/ BindBadAddr \/ BindUnknown \/ BindStart \/ BindDone
    \/ \E e \in Entries : BindEntryFails(e) \/ BindEntryElse(e)
    \/ ListenAgain \/ ListenUnexpected \/ AcceptRefused
    \/ HandleConnect \/ HandleOptions

LEMMA QuietHost ==
    ASSUME TypeInv, QuietCall
    PROVE  StillHost
<1>1. CASE UNCHANGED <<hfd, conn>>
  BY <1>1 DEF StillHost, ConnsKept
<1>2. CASE Leak /\ UNCHANGED conn
  BY <1>2 DEF Leak, NextFd, StillHost, ConnsKept, TypeInv, HostTypeOK
<1>3. ASSUME NEW e \in Entries, BindEntryFails(e) PROVE StillHost
  BY <1>1, <1>2, <1>3 DEF BindEntryFails
<1>4. ASSUME NEW e \in Entries, ConnectEntryFails(e) PROVE StillHost
  BY <1>1, <1>2, <1>4 DEF ConnectEntryFails
<1>5. CASE Getfl
  <2>1. CASE UNCHANGED hfd
    BY <1>1, <1>5, <2>1 DEF Getfl
  <2>2. CASE Duplicated(cur.call.fd) /\ hfd' # hfd
    <3> DEFINE m == cur.call.fd
    <3>1. m \in HostFds /\ Copies
      BY <1>5, <2>2 DEF Copies, Duplicated
    <3> PICK n \in HostFds : NextFd(n) /\ hfd' = [hfd EXCEPT ![n] = hfd[m]]
      BY <1>5, <2>2 DEF Getfl
    <3>2. UNCHANGED conn
      BY <1>5 DEF Getfl
    <3> HIDE DEF m
    <3> QED BY <3>1, <3>2 DEF NextFd, StillHost, ConnsKept, TypeInv, HostTypeOK
  <2> QED BY <1>5, <2>1, <2>2 DEF Getfl
<1>6. CASE HandleConnect
  BY <1>1, <1>4, <1>6 DEF HandleConnect, ConnectBadAddr, ConnectRefused,
     ConnectStart, ConnectNextTransport, ConnectFails, ConnectEntry,
     ConnectRDMA, hostVars
<1> QED BY <1>1, <1>3, <1>5, <1>6
        DEF QuietCall, PassThrough, Getname, BindRefused, BindBadAddr,
            BindUnknown, BindStart, BindDone, BindEntryElse, ListenAgain,
            ListenUnexpected, AcceptRefused, HandleOptions, Setsockopt,
            SetFlags, hostVars

LEMMA NoCopies ==
    ASSUME TypeInv, NumbersApart
    PROVE  ~Copies
<1> SUFFICES ASSUME Copies PROVE FALSE
  OBVIOUS
<1>1. cur.call \in Calls /\ cur.call.name = "getfl"
  BY CurType DEF Copies, Getfl, OnOption
<1> QED BY <1>1 DEF NumbersApart, Copies, Duplicated

LEMMA QuietFiles ==
    ASSUME TypeInv, QuietCall
    PROVE  StillFiles
<1>1. CASE UNCHANGED kfd
  BY <1>1 DEF StillFiles
<1>2. ASSUME NEW e \in Entries, ConnectEntry(e) PROVE StillFiles
  <2>1. CASE kfd' = [kfd EXCEPT ![Tgid[cur.t]][cur.call.fd] = cur.call.addr]
    <3> DEFINE p == Tgid[cur.t]
               fd == cur.call.fd
               v == cur.call.addr
    <3>1. v \notin Conns
      BY <1>2, NoValues DEF ConnectEntry, At, TypeInv, ServingOK
    <3>2. kfd' = [kfd EXCEPT ![p][fd] = v]
      BY <2>1
    <3> HIDE DEF p, fd, v
    <3> QED BY <3>1, <3>2 DEF TypeInv, TablesOK, StillFiles
  <2> QED BY <1>1, <1>2, <2>1 DEF ConnectEntry
<1> QED BY <1>1, <1>2
        DEF QuietCall, PassThrough, Getname, BindRefused, BindBadAddr,
            BindUnknown, BindStart, BindDone, BindEntryFails, BindEntryElse,
            ListenAgain, ListenUnexpected, AcceptRefused, HandleConnect,
            ConnectBadAddr, ConnectRefused, ConnectStart, ConnectNextTransport,
            ConnectFails, ConnectEntryFails, ConnectRDMA, HandleOptions,
            Setsockopt, SetFlags, Getfl, containerVars

\* The status in service is one of those in use.
LEMMA ServedUsed ==
    ASSUME TypeInv, Slots, cur # None
    PROVE  /\ cur.s \in SockIds /\ sock[cur.s].state # "Unused"
           /\ sockets[Tgid[cur.t]][cur.call.fd] = cur.s
           /\ Registered(cur.s)
<1>1. cur \in Serving /\ At(cur.pc)
  BY DEF TypeInv, ServingOK, At
<1>2. Tgid[cur.t] \in Procs /\ cur.call.fd \in Fds /\ cur.s \in SockIds
  BY <1>1, CurType
<1> QED BY <1>2, NoValues DEF Slots, SlotsUsed, ServedSlot, Registered

LEMMA QuietStatus ==
    ASSUME TypeInv, Slots, QuietCall
    PROVE  StillStatus
<1>0. /\ UNCHANGED <<sockets, hs, g>>
  BY DEF QuietCall, PassThrough, Getname, BindRefused, BindBadAddr,
         BindUnknown, BindStart, BindDone, BindEntryFails, BindEntryElse,
         ListenAgain, ListenUnexpected, AcceptRefused, HandleConnect,
         ConnectBadAddr, ConnectRefused, ConnectStart, ConnectNextTransport,
         ConnectFails, ConnectEntry, ConnectEntryFails, ConnectRDMA,
         HandleOptions, Setsockopt, SetFlags, Getfl
<1>1. CASE UNCHANGED sock
  BY <1>0, <1>1 DEF StillStatus, Keys, Waits
<1>2. cur # None
  BY DEF QuietCall, PassThrough, Getname, BindRefused, BindBadAddr,
         BindUnknown, BindStart, BindDone, BindEntryFails, BindEntryElse,
         ListenAgain, ListenUnexpected, AcceptRefused, HandleConnect,
         ConnectBadAddr, ConnectRefused, ConnectStart, ConnectNextTransport,
         ConnectFails, ConnectEntry, ConnectEntryFails, ConnectRDMA, OnConnect,
         HandleOptions, Setsockopt, SetFlags, Getfl, OnOption, On, At
<1>3. /\ cur.s \in SockIds /\ sock[cur.s].state # "Unused"
      /\ sock[cur.s] \in SocketStatus /\ sock \in [SockIds -> SocketStatus]
  BY <1>2, ServedUsed, StatusType
<1>4. ASSUME NEW r, sock' = [sock EXCEPT ![cur.s] = r],
             r.hostSockets = Keys(cur.s), r.acceptedSockets = Waits(cur.s),
             r.state \in Young => sock[cur.s].state \in Young,
             r.state # "Unused"
      PROVE  StillStatus
  BY <1>0, <1>3, <1>4 DEF StillStatus, Keys, Waits
<1>5. ASSUME NEW st, SetState(cur.s, st), st \notin Young
      PROVE  StillStatus
  <2> DEFINE r == [sock[cur.s] EXCEPT !.state = st]
  <2>1. /\ r.hostSockets = Keys(cur.s) /\ r.acceptedSockets = Waits(cur.s)
        /\ r.state = st
    BY <1>3 DEF SocketStatus, Keys, Waits
  <2>2. sock' = [sock EXCEPT ![cur.s] = r]
    BY <1>5 DEF SetState
  <2> HIDE DEF r
  <2> QED BY <1>4, <1>5, <2>1, <2>2 DEF Young
<1>6. "Error" \notin Young /\ "NotBypassable" \notin Young /\ "Bypassed" \notin Young
  BY DEF Young
<1>7. CASE BindDone
  <2>1. CASE SetState(cur.s, "Binded")
    <3> DEFINE r == [sock[cur.s] EXCEPT !.state = "Binded"]
    <3>1. /\ r.hostSockets = Keys(cur.s) /\ r.acceptedSockets = Waits(cur.s)
          /\ r.state = "Binded"
      BY <1>3 DEF SocketStatus, Keys, Waits
    <3>2. sock' = [sock EXCEPT ![cur.s] = r]
      BY <2>1 DEF SetState
    <3>3. sock[cur.s].state \in Young
      BY <1>7 DEF BindDone, At, Slots, ServedSlot, Young
    <3> HIDE DEF r
    <3> QED BY <1>4, <3>1, <3>2, <3>3
  <2> QED BY <1>5, <1>6, <1>7, <2>1 DEF BindDone
<1>8. CASE BindUnknown \/ BindStart
  <2> DEFINE r == [sock[cur.s] EXCEPT !.localVAddr = cur.call.addr]
  <2>1. /\ r.hostSockets = Keys(cur.s) /\ r.acceptedSockets = Waits(cur.s)
        /\ r.state = sock[cur.s].state
    BY <1>3 DEF SocketStatus, Keys, Waits
  <2>2. sock' = [sock EXCEPT ![cur.s] = r]
    BY <1>8 DEF BindUnknown, BindStart
  <2> HIDE DEF r
  <2> QED BY <1>3, <1>4, <2>1, <2>2
<1>9. CASE ConnectStart
  <2> DEFINE r == [sock[cur.s] EXCEPT !.remoteVAddr = cur.call.addr]
  <2>1. /\ r.hostSockets = Keys(cur.s) /\ r.acceptedSockets = Waits(cur.s)
        /\ r.state = sock[cur.s].state
    BY <1>3 DEF SocketStatus, Keys, Waits
  <2>2. sock' = [sock EXCEPT ![cur.s] = r]
    BY <1>9 DEF ConnectStart
  <2> HIDE DEF r
  <2> QED BY <1>3, <1>4, <2>1, <2>2
<1>10. CASE ConnectRefused
  <2> DEFINE r == [sock[cur.s] EXCEPT !.remoteVAddr = cur.call.addr,
                                      !.state = "Error"]
  <2>1. /\ r.hostSockets = Keys(cur.s) /\ r.acceptedSockets = Waits(cur.s)
        /\ r.state = "Error"
    BY <1>3 DEF SocketStatus, Keys, Waits
  <2>2. sock' = [sock EXCEPT ![cur.s] = r]
    BY <1>10 DEF ConnectRefused
  <2> HIDE DEF r
  <2> QED BY <1>4, <1>6, <2>1, <2>2 DEF Young
<1>11. CASE SetFlags
  <2> DEFINE on == cur.call.name = "setnonblock"
             r == [sock[cur.s] EXCEPT !.nonblock = on]
  <2>1. /\ r.hostSockets = Keys(cur.s) /\ r.acceptedSockets = Waits(cur.s)
        /\ r.state = sock[cur.s].state
    BY <1>3 DEF SocketStatus, Keys, Waits
  <2>2. sock' = [sock EXCEPT ![cur.s] = r]
    BY <1>11 DEF SetFlags
  <2> HIDE DEF r
  <2> QED BY <1>3, <1>4, <2>1, <2>2
<1>12. CASE HandleConnect
  <2>1. ASSUME NEW e \in Entries, ConnectEntry(e) \/ ConnectRDMA(e)
        PROVE  StillStatus
    BY <1>5, <1>6, <2>1 DEF ConnectEntry, ConnectRDMA
  <2>2. ASSUME NEW e \in Entries, ConnectEntryFails(e) PROVE StillStatus
    BY <1>1, <2>2 DEF ConnectEntryFails
  <2>3. CASE ConnectBadAddr \/ ConnectFails
    BY <1>5, <1>6, <2>3 DEF ConnectBadAddr, ConnectFails
  <2>4. CASE ConnectNextTransport
    BY <1>1, <2>4 DEF ConnectNextTransport
  <2> QED BY <1>9, <1>10, <1>12, <2>1, <2>2, <2>3, <2>4 DEF HandleConnect
<1>13. CASE BindBadAddr \/ ListenUnexpected
  BY <1>5, <1>6, <1>13 DEF BindBadAddr, ListenUnexpected
<1> QED BY <1>1, <1>7, <1>8, <1>11, <1>12, <1>13
        DEF QuietCall, PassThrough, Getname, BindRefused, BindEntryFails,
            BindEntryElse, ListenAgain, AcceptRefused, HandleOptions,
            Setsockopt, Getfl

LEMMA QuietServing ==
    ASSUME TypeInv, Slots, QuietCall
    PROVE  StillServing
<1>0. cur # None => cur \in Serving
  BY DEF TypeInv, ServingOK
<1>1. CASE cur' = None
  BY <1>1 DEF StillServing
<1>2. ASSUME NEW q, NEW ok, cur # None, sock' = sock,
             cur' = [cur EXCEPT !.todo = q, !.ok = ok]
      PROVE  StillServing
  BY <1>0, <1>2 DEF StillServing, Serving, Slots, ServedSlot
<1>3. ASSUME NEW q, cur # None, sock' = sock, cur' = [cur EXCEPT !.todo = q]
      PROVE  StillServing
  BY <1>0, <1>3 DEF StillServing, Serving, Slots, ServedSlot
<1>4. CASE ConnectStart
  <2>1. cur # None /\ cur' = [cur EXCEPT !.pc = "connect",
                                         !.todo = ClientEntries[cur.call.addr]]
    BY <1>4 DEF ConnectStart, OnConnect, On, At
  <2> QED BY <1>0, <2>1 DEF StillServing, Serving
<1>5. CASE BindStart
  <2>1. /\ cur # None
        /\ \E q : cur' = [cur EXCEPT !.pc = "bind", !.todo = q]
        /\ sock' = [sock EXCEPT ![cur.s].localVAddr = cur.call.addr]
        /\ sock[cur.s].state = "NotBypassed"
    BY <1>5 DEF BindStart, On, At, InState
  <2>2. /\ cur'.t = cur.t /\ cur'.call = cur.call /\ cur'.s = cur.s
    BY <1>0, <2>1 DEF Serving
  <2>3. sock[cur.s] \in SocketStatus /\ cur.s \in SockIds
    BY <2>1, ServedUsed, StatusType
  <2>4. sock'[cur.s].state = "NotBypassed"
    BY <2>1, <2>3, StatusType DEF SocketStatus
  <2> QED BY <2>1, <2>2, <2>4 DEF StillServing
<1>6. ASSUME NEW e \in Entries, BindEntryFails(e) PROVE StillServing
  BY <1>2, <1>6 DEF BindEntryFails, NextEntry, At
<1>7. ASSUME NEW e \in Entries, BindEntryElse(e) PROVE StillServing
  BY <1>2, <1>7 DEF BindEntryElse, NextEntry, At
<1>8. CASE HandleConnect
  <2>1. ASSUME NEW e \in Entries,
               ConnectEntry(e) \/ ConnectEntryFails(e) \/ ConnectRDMA(e)
        PROVE  StillServing
    BY <1>1, <1>3, <2>1
       DEF ConnectEntry, ConnectEntryFails, ConnectRDMA, Reply, At
  <2>2. CASE ConnectNextTransport
    BY <1>3, <2>2 DEF ConnectNextTransport, At
  <2> QED BY <1>1, <1>4, <1>8, <2>1, <2>2
          DEF HandleConnect, ConnectBadAddr, ConnectRefused, ConnectFails, Reply
<1> QED BY <1>1, <1>5, <1>6, <1>7, <1>8
        DEF QuietCall, PassThrough, Getname, BindRefused, BindBadAddr,
            BindUnknown, BindDone, ListenAgain, ListenUnexpected,
            AcceptRefused, HandleOptions, Setsockopt, SetFlags, Getfl, Reply

LEMMA QuietMoves ==
    ASSUME TypeInv, Slots, QuietCall
    PROVE  Moves
  BY QuietHost, QuietStatus, QuietFiles, QuietServing DEF Still, Moves

LEMMA BindMoves ==
    ASSUME TypeInv, Slots, NEW e \in Entries, BindEntry(e)
    PROVE  Moves
<1> DEFINE l == <<cur.s, e>>
<1> PICK n \in HostFds :
      /\ NextFd(n)
      /\ hfd' = [hfd EXCEPT ![n] = l]
      /\ hs' = [hs EXCEPT ![l] = [Sockfd |-> n, State |-> "Binded",
                                  Cancelled |-> FALSE]]
      /\ sock' = [sock EXCEPT ![cur.s].hostSockets[n] = l]
  BY DEF BindEntry
<1>1. cur # None /\ cur.pc = "bind" /\ cur \in Serving /\ cur.s \in SockIds
  BY CurType DEF BindEntry, At
<1>2. cur'.t = cur.t /\ cur'.call = cur.call /\ cur'.s = cur.s
  <2>1. cur' = [cur EXCEPT !.todo = Tail(cur.todo), !.ok = cur.ok \/ TRUE]
    BY DEF BindEntry, NextEntry
  <2> QED BY <1>1, <2>1 DEF Serving
<1>3. \A s \in SockIds :
         /\ Keys(s)' = IF s = cur.s THEN [Keys(s) EXCEPT ![n] = l] ELSE Keys(s)
         /\ Waits(s)' = Waits(s)
         /\ sock'[s].state = sock[s].state
  <2> DEFINE r == [sock[cur.s] EXCEPT !.hostSockets = [Keys(cur.s) EXCEPT ![n] = l]]
  <2>1. sock[cur.s] \in SocketStatus /\ sock \in [SockIds -> SocketStatus]
    BY <1>1, StatusType
  <2>2. /\ r.hostSockets = [Keys(cur.s) EXCEPT ![n] = l]
        /\ r.acceptedSockets = Waits(cur.s)
        /\ r.state = sock[cur.s].state
    BY <2>1 DEF SocketStatus, Waits
  <2>3. sock' = [sock EXCEPT ![cur.s] = r]
    BY DEF Keys
  <2> HIDE DEF r, l
  <2> QED BY <1>1, <2>1, <2>2, <2>3 DEF Keys, Waits
<1>4. Bind(e, n)
  BY <1>1, <1>2, <1>3 DEF BindEntry, Bind, NextFd, containerVars
<1> QED BY <1>4 DEF Moves

LEMMA ListenMoves ==
    ASSUME TypeInv, Slots, Listen
    PROVE  Moves
<1> DEFINE bound == {l \in HeldListeners({cur.s}) : hs[l].State = "Binded"}
<1> PICK up \in SUBSET bound :
      /\ listening' = listening \cup up
      /\ hs' = [l \in Listener |->
                  IF l \in bound THEN Listened(l, up) ELSE hs[l]]
      /\ g' = [l \in Listener |->
                 IF l \in up
                 THEN [NoGoroutine EXCEPT !.pc = "check"] ELSE g[l]]
      /\ SetState(cur.s, IF up = {} /\ ~FeatureRDMA
                         THEN "Error" ELSE "Listening")
  BY DEF Listen
<1>1. cur # None /\ cur' = None /\ cur.s \in SockIds /\ sock[cur.s].state = "Binded"
  BY CurType DEF Listen, On, At, InState, Reply
<1>2. up \subseteq HeldListeners({cur.s}) /\ up \in SUBSET Listener
  BY DEF HeldListeners
<1>3. \A l \in Listener :
         hs'[l].Sockfd = hs[l].Sockfd /\ hs'[l].Cancelled = hs[l].Cancelled
  <2> TAKE l \in Listener
  <2>1. hs[l] \in HostSocket
    BY DEF TypeInv, TablesOK
  <2> HIDE DEF bound
  <2> QED BY <2>1 DEF Listened, HostSocket
<1>4. \A s \in SockIds :
         /\ Keys(s)' = Keys(s) /\ Waits(s)' = Waits(s)
         /\ sock'[s].state = IF s = cur.s THEN sock'[s].state ELSE sock[s].state
  BY <1>1, StatusType DEF SetState, SocketStatus, Keys, Waits
<1>5. sock'[cur.s].state \in {"Error", "Listening"}
  BY <1>1, StatusType DEF SetState, SocketStatus
<1>6. Start(up)
  BY <1>1, <1>2, <1>3, <1>4, <1>5 DEF Listen, Start, Young
<1> QED BY <1>2, <1>6 DEF Moves

LEMMA AcceptDelivers ==
    ASSUME TypeInv, Slots, AcceptDeliver
    PROVE  \E s \in SockIds, p \in Procs, newfd \in Fds, a \in SockIds :
              Deliver(s, p, newfd, a)
<1> DEFINE s == cur.s
           p == Tgid[cur.t]
           as == Head(Waits(s))
<1>1. /\ cur # None /\ cur' = None /\ s \in SockIds /\ p \in Procs
      /\ Waits(s) # <<>> /\ sock[s].state = "Listening" /\ cur.pc = "serve"
  BY CurType DEF AcceptDeliver, On, At, InState, Reply, Waits
<1>2. as \in Accepted
  BY <1>1, HeadType DEF Waits
<1> PICK newfd \in Fds, a \in SockIds :
      /\ \/ sockets[p][newfd] = a
         \/ sockets[p][newfd] = None /\ Fresh(a)
      /\ kfd' = [kfd EXCEPT ![p][newfd] = hfd[as.fd]]
      /\ sockets' = [sockets EXCEPT ![p][newfd] = a]
      /\ sock' = [Taken(s, as) EXCEPT ![a] = Delivered(@, s, as)]
  BY DEF AcceptDeliver, Waits
<1>3. /\ hfd[as.fd] # Free /\ Closing({as.fd}) /\ UNCHANGED <<hs, g>>
      /\ listening' \subseteq listening
  BY ClosingFacts DEF AcceptDeliver, AddFdWorks, CloseAccepted, CloseFds, Waits
<1>4. \A q \in Procs, d \in Fds :
         sockets'[q][d] = IF q = p /\ d = newfd THEN a ELSE sockets[q][d]
  <2> HIDE DEF p
  <2> QED BY DEF TypeInv, TablesOK
<1>5. \A q \in Procs, d \in Fds :
         kfd'[q][d] = IF q = p /\ d = newfd THEN hfd[as.fd] ELSE kfd[q][d]
  <2> DEFINE f == hfd[as.fd]
  <2>1. kfd' = [kfd EXCEPT ![p][newfd] = f]
    OBVIOUS
  <2> HIDE DEF p, f
  <2>2. \A q \in Procs, d \in Fds :
           kfd'[q][d] = IF q = p /\ d = newfd THEN f ELSE kfd[q][d]
    BY <2>1 DEF TypeInv, TablesOK
  <2> QED BY <2>2 DEF f
<1>6. \A r \in SockIds :
         /\ Keys(r)' = IF r = s THEN [Keys(r) EXCEPT ![as.fd] = None] ELSE Keys(r)
         /\ Waits(r)' = IF r = s THEN Tail(Waits(r)) ELSE Waits(r)
         /\ sock'[r].state = IF r = a THEN "Bypassed" ELSE sock[r].state
         /\ sock'[r].localVAddr = sock[IF r = a THEN s ELSE r].localVAddr
         /\ sock'[r].remoteVAddr =
               IF r = a THEN ConnVAddr[as.conn] ELSE sock[r].remoteVAddr
  <2> DEFINE u == [sock[s] EXCEPT
                     !.acceptedSockets = Tail(Waits(s)),
                     !.hostSockets = [Keys(s) EXCEPT ![as.fd] = None]]
             T == Taken(s, as)
             D == Delivered(T[a], s, as)
             L == sock[s].localVAddr
             R == ConnVAddr[as.conn]
  <2>0. sock[s] \in SocketStatus /\ sock \in [SockIds -> SocketStatus]
    BY <1>1, StatusType
  <2>1. /\ u.hostSockets = [Keys(s) EXCEPT ![as.fd] = None]
        /\ u.acceptedSockets = Tail(Waits(s))
        /\ u.state = sock[s].state
        /\ u.localVAddr = sock[s].localVAddr
        /\ u.remoteVAddr = sock[s].remoteVAddr
    BY <2>0 DEF SocketStatus
  <2>2. T = [sock EXCEPT ![s] = u]
    BY DEF Taken, WithoutAccepted, Keys, Waits
  <2>3. T \in [SockIds -> SocketStatus]
    BY <1>1, <1>2, TakenType DEF Waits
  <2>4. sock' = [T EXCEPT ![a] = D]
    OBVIOUS
  <2>5. \A r \in SockIds : T[r] = IF r = s THEN u ELSE sock[r]
    <3> HIDE DEF u, T, s
    <3> QED BY <2>0, <2>2
  <2>6. /\ D.hostSockets = T[a].hostSockets
        /\ D.acceptedSockets = T[a].acceptedSockets
        /\ D.state = "Bypassed"
        /\ D.localVAddr = L
        /\ D.remoteVAddr = R
    <3>1. T[a] \in SocketStatus
      BY <2>3
    <3>2. /\ D.localVAddr = L /\ D.remoteVAddr = R
      <4>1. D = [T[a] EXCEPT !.state = "Bypassed", !.localVAddr = L,
                             !.remoteVAddr = R]
        BY DEF Delivered
      <4> HIDE DEF T, D, L, R
      <4> QED BY <3>1, <4>1 DEF SocketStatus
    <3> HIDE DEF T, L, R
    <3> QED BY <3>1, <3>2 DEF Delivered, SocketStatus
  <2>7. \A r \in SockIds : sock'[r] = IF r = a THEN D ELSE T[r]
    <3> HIDE DEF T, D
    <3> QED BY <2>3, <2>4
  <2> DEFINE K == [Keys(s) EXCEPT ![as.fd] = None]
             W == Tail(Waits(s))
  <2>8. u.hostSockets = K /\ u.acceptedSockets = W
    BY <2>1
  <2> SUFFICES ASSUME NEW r \in SockIds
               PROVE  /\ Keys(r)' = IF r = s THEN K ELSE Keys(r)
                      /\ Waits(r)' = IF r = s THEN W ELSE Waits(r)
                      /\ sock'[r].state = IF r = a THEN "Bypassed" ELSE sock[r].state
                      /\ sock'[r].localVAddr =
                            sock[IF r = a THEN s ELSE r].localVAddr
                      /\ sock'[r].remoteVAddr =
                            IF r = a THEN R ELSE sock[r].remoteVAddr
    OBVIOUS
  <2> HIDE DEF u, T, D, K, W, R
  <2>9. /\ sock'[r].hostSockets = T[r].hostSockets
        /\ sock'[r].acceptedSockets = T[r].acceptedSockets
        /\ sock'[r].state = IF r = a THEN "Bypassed" ELSE T[r].state
        /\ sock'[r].localVAddr = IF r = a THEN L ELSE T[r].localVAddr
        /\ sock'[r].remoteVAddr = IF r = a THEN R ELSE T[r].remoteVAddr
    BY <2>6, <2>7
  <2> QED BY <2>1, <2>5, <2>8, <2>9 DEF Keys, Waits
<1>7. Deliver(s, p, newfd, a)
  BY <1>1, <1>3, <1>4, <1>5, <1>6 DEF Deliver
<1> QED BY <1>1, <1>7

LEMMA LoseMoves ==
    ASSUME TypeInv, Slots, AcceptAddFdFails
    PROVE  Moves
<1> DEFINE s == cur.s
           as == Head(Waits(s))
<1>1. cur # None /\ cur' = None /\ s \in SockIds /\ Waits(s) # <<>>
  BY CurType DEF AcceptAddFdFails, On, At, Reply, Waits
<1>2. Closing({as.fd}) /\ UNCHANGED <<sockets, kfd, hs, g>>
  BY ClosingFacts DEF AcceptAddFdFails, CloseAccepted, Waits
<1>3. \A r \in SockIds :
         /\ Keys(r)' = Keys(r)
         /\ Waits(r)' = IF r = s THEN Tail(Waits(r)) ELSE Waits(r)
         /\ sock'[r].state = IF r = s THEN "NotBypassable" ELSE sock[r].state
  <2> DEFINE u == [sock[s] EXCEPT !.acceptedSockets = Tail(Waits(s)),
                                  !.state = "NotBypassable"]
  <2>0. sock[s] \in SocketStatus /\ sock \in [SockIds -> SocketStatus]
    BY <1>1, StatusType
  <2>1. /\ u.hostSockets = Keys(s) /\ u.acceptedSockets = Tail(Waits(s))
        /\ u.state = "NotBypassable"
    BY <2>0 DEF SocketStatus, Keys
  <2>2. sock' = [sock EXCEPT ![s] = u]
    BY DEF AcceptAddFdFails, Waits
  <2> HIDE DEF u, s
  <2> QED BY <2>0, <2>1, <2>2 DEF Keys, Waits
<1>4. Lose(s)
  BY <1>1, <1>2, <1>3 DEF Lose
<1> QED BY <1>1, <1>4 DEF Moves

LEMMA GoroutineMoves ==
    ASSUME TypeInv, NEW l \in Listener, TransportAccept(l)
    PROVE  Moves
<1>0. /\ g[l] \in Goroutine /\ l[1] \in SockIds
      /\ g[l].pc \in {"recv", "send"} => g[l].conn \in Conns /\ g[l].fd \in HostFds
  BY DEF TypeInv, GoroutinesOK, Listener
<1>1. CASE GCheck(l)
  <2>1. hs' = hs /\ GGoto(l, IF hs[l].Cancelled THEN "done" ELSE "enter")
    BY <1>1 DEF GCheck
  <2>2. Turn(l)
    BY <1>1, <2>1 DEF GCheck, AtG, Turn, hostVars, containerVars
  <2> QED BY <2>2 DEF Moves
<1>2. CASE GEnter(l)
  <2>1. hfd[hs[l].Sockfd] \in Listener
    BY <1>2 DEF GEnter, TypeInv, HostTypeOK
  <2>2. Turn(l)
    BY <1>2, <2>1 DEF GEnter, AtG, Turn, hostVars, containerVars
  <2> QED BY <2>2 DEF Moves
<1>3. CASE GAccept(l)
  <2> PICK c \in Conns, n \in HostFds :
        /\ conn[c].st = "backlog" /\ conn[c].lsn = g[l].file
        /\ NextFd(n)
        /\ hfd' = [hfd EXCEPT ![n] = c]
        /\ conn' = [conn EXCEPT ![c].st = "accepted"]
        /\ g' = [g EXCEPT ![l] = [pc |-> "recv", file |-> None,
                                  conn |-> c, fd |-> n, nowait |-> FALSE]]
    BY <1>3 DEF GAccept
  <2>1. Accepting(l, c, n)
    BY <1>3 DEF GAccept, AtG, Accepting, NextFd, containerVars
  <2> QED BY <2>1 DEF Moves
<1>4. ASSUME GEnd(l), Failing(l), g[l].pc \in {"enter", "blocked", "recv"}
      PROVE  Moves
  <2>1. \A k \in Listener :
           /\ hs'[k].Sockfd = hs[k].Sockfd /\ (hs[k].Cancelled => hs'[k].Cancelled)
           /\ k # l => hs'[k].Cancelled = hs[k].Cancelled
    BY <1>4 DEF GEnd, TypeInv, TablesOK, HostSocket
  <2>2. Turn(l)
    BY <1>4, <2>1 DEF GEnd, Turn, hostVars, containerVars
  <2> QED BY <2>2 DEF Moves
<1>5. CASE GAcceptFails(l) \/ GRecvFails(l)
  BY <1>4, <1>5 DEF Failing, GAcceptFails, GRecvFails, AtG
<1>6. CASE GDeny(l)
  <2>1. Denying(l)
    BY <1>6, ClosingFacts DEF GDeny, Received, AtG, Denying, containerVars
  <2> QED BY <2>1 DEF Moves
<1>7. CASE GStore(l)
  <2> DEFINE K == [Keys(l[1]) EXCEPT ![g[l].fd] = g[l].conn]
             r == [sock[l[1]] EXCEPT !.hostSockets = K]
  <2>1. sock[l[1]] \in SocketStatus /\ sock \in [SockIds -> SocketStatus]
    BY <1>0, StatusType
  <2>2. /\ r.hostSockets = K /\ r.acceptedSockets = Waits(l[1])
        /\ r.state = sock[l[1]].state
    BY <2>1 DEF SocketStatus, Waits
  <2>3. sock' = [sock EXCEPT ![l[1]] = r]
    BY <1>7 DEF GStore, WithAccepted, Keys
  <2>4. \A s \in SockIds :
           /\ Keys(s)' = IF s = l[1] THEN K ELSE Keys(s)
           /\ Waits(s)' = Waits(s)
           /\ sock'[s].state = sock[s].state
    <3> HIDE DEF r, K
    <3> QED BY <1>0, <2>1, <2>2, <2>3 DEF Keys, Waits
  <2>5. \A s \in SockIds :
           Keys(s)' = IF s = l[1] THEN [Keys(s) EXCEPT ![g[l].fd] = g[l].conn]
                      ELSE Keys(s)
    BY <2>4
  <2>6. Storing(l)
    BY <1>7, <2>4, <2>5 DEF GStore, Received, AtG, Storing, hostVars, containerVars
  <2> QED BY <2>6 DEF Moves
<1>8. CASE GSend(l)
  <2> DEFINE as == [conn |-> g[l].conn, fd |-> g[l].fd]
             W == Append(Waits(l[1]), as)
             r == [sock[l[1]] EXCEPT !.acceptedSockets = W]
  <2>1. sock[l[1]] \in SocketStatus /\ sock \in [SockIds -> SocketStatus]
    BY <1>0, StatusType
  <2>2. /\ r.hostSockets = Keys(l[1]) /\ r.acceptedSockets = W
        /\ r.state = sock[l[1]].state
    BY <2>1 DEF SocketStatus, Keys
  <2>3. sock' = [sock EXCEPT ![l[1]] = r]
    BY <1>8 DEF GSend, Waits
  <2>4. \A s \in SockIds :
           /\ Keys(s)' = Keys(s)
           /\ Waits(s)' = IF s = l[1] THEN W ELSE Waits(s)
           /\ sock'[s].state = sock[s].state
    <3> HIDE DEF r, W
    <3> QED BY <1>0, <2>1, <2>2, <2>3 DEF Keys, Waits
  <2>5. \A s \in SockIds :
           Waits(s)' = IF s = l[1] THEN Append(Waits(s), as) ELSE Waits(s)
    BY <2>4
  <2>6. Queueing(l)
    BY <1>8, <2>4, <2>5 DEF GSend, AtG, Queueing, hostVars, containerVars
  <2> QED BY <2>6 DEF Moves
<1> QED BY <1>1, <1>2, <1>3, <1>5, <1>6, <1>7, <1>8 DEF TransportAccept

LEMMA OutsideMoves ==
    ASSUME TypeInv, Slots,
           \/ \E t \in Threads : KernelReturn(t) \/ User(t)
           \/ Peers
           \/ UNCHANGED vars
    PROVE  Moves
<1>0. UNCHANGED seccompVars
  BY DEF KernelReturn, User, Peers, vars
<1>1. StillStatus /\ StillServing
  BY <1>0 DEF seccompVars, StillStatus, StillServing, Keys, Waits, Slots, ServedSlot
<1>2. ASSUME UNCHANGED hostVars, StillFiles PROVE Moves
  <2>1. StillHost
    BY <1>2 DEF hostVars, StillHost, ConnsKept
  <2> QED BY <1>1, <1>2, <2>1 DEF Still, Moves
<1>3. ASSUME UNCHANGED kfd PROVE StillFiles
  BY <1>3 DEF StillFiles
<1>4. ASSUME NEW p, NEW fd, NEW f, f \notin Conns, kfd' = [kfd EXCEPT ![p][fd] = f]
      PROVE  StillFiles
  BY <1>4 DEF TypeInv, TablesOK, StillFiles
<1>5. ASSUME NEW p, kfd' = [kfd EXCEPT ![p] = [fd \in Fds |-> Closed]]
      PROVE  StillFiles
  BY <1>5, NoValues DEF TypeInv, TablesOK, StillFiles
<1>6. ASSUME NEW t \in Threads, KernelReturn(t) PROVE Moves
  <2> DEFINE p == Tgid[t]
             fd == call[t].fd
  <2>1. \/ kfd' = [kfd EXCEPT ![p][fd] = Closed]
        \/ kfd' = [kfd EXCEPT ![p] = [d \in Fds |-> Closed]]
    BY <1>6 DEF KernelReturn, KernelClose, KernelExit, EndProcess
  <2> HIDE DEF p, fd
  <2>2. StillFiles
    BY <1>4, <1>5, <2>1, NoValues
  <2> QED BY <1>2, <1>6, <2>2 DEF KernelReturn
<1>7. ASSUME NEW t \in Threads, User(t) PROVE Moves
  <2>1. CASE Open(t)
    <3> PICK fd \in Fds, kind \in Kinds :
          kfd' = [kfd EXCEPT ![Tgid[t]][fd] = kind]
      BY <2>1 DEF Open
    <3>1. kind \notin Conns
      BY NoValues, ContainerAssumption
    <3> QED BY <1>2, <1>4, <1>7, <3>1 DEF User
  <2>2. CASE SilentClose(t)
    <3> PICK fd \in Fds : kfd' = [kfd EXCEPT ![Tgid[t]][fd] = Closed]
      BY <2>2 DEF SilentClose
    <3> QED BY <1>2, <1>4, <1>7, NoValues DEF User
  <2>3. CASE Kill(t)
    BY <1>2, <1>5, <1>7, <2>3 DEF User, Kill, EndProcess
  <2>4. CASE UNCHANGED kfd
    BY <1>2, <1>3, <1>7, <2>4 DEF User
  <2> QED BY <1>7, <2>1, <2>2, <2>3, <2>4 DEF User, MakeCall, Interrupt
<1>8. ASSUME UNCHANGED <<kfd>>, StillHost PROVE Moves
  BY <1>1, <1>3, <1>8 DEF Still, Moves
<1>9. CASE Peers
  <2>0. kfd' = kfd /\ UNCHANGED seccompVars
    BY <1>9 DEF Peers, containerVars
  <2>1. ASSUME NEW c \in Conns, NEW e \in Entries, PeerConnect(c, e)
        PROVE  Moves
    <3>1. <<addr[e], e>> \in Listener
      BY <2>1 DEF PeerConnect, TypeInv, HostTypeOK
    <3> DEFINE l == <<addr[e], e>>
    <3>2. Arriving(c, l)
      BY <2>0, <2>1 DEF PeerConnect, Arriving, seccompVars
    <3> QED BY <3>1, <3>2 DEF Moves
  <2>2. ASSUME NEW c \in Conns, PeerSend(c) \/ PeerFail(c) PROVE Moves
    <3>1. StillHost
      BY <2>2 DEF PeerSend, PeerFail, StillHost, ConnsKept, TypeInv, HostTypeOK,
         Connection
    <3> QED BY <1>8, <2>0, <3>1
  <2>3. CASE ForeignOpen
    <3>1. StillHost
      BY <2>3 DEF ForeignOpen, NextFd, StillHost, ConnsKept, TypeInv, HostTypeOK
    <3> QED BY <1>8, <2>0, <3>1
  <2> QED BY <1>9, <2>1, <2>2, <2>3 DEF Peers, HostNext
<1>10. CASE UNCHANGED vars
  BY <1>2, <1>3, <1>10 DEF vars, containerVars
<1> QED BY <1>6, <1>7, <1>9, <1>10

LEMMA StepMoves ==
    ASSUME TypeInv, Slots, [Next]_vars
    PROVE  Moves
<1>1. CASE HandleCur
  <2>1. CASE HandleBind
    BY <2>1, BindMoves, QuietMoves DEF HandleBind, QuietCall
  <2>2. CASE HandleListen
    BY <2>2, ListenMoves, QuietMoves DEF HandleListen, QuietCall
  <2>3. CASE HandleAccept
    <3>1. CASE AcceptDeliver
      BY <3>1, AcceptDelivers DEF Moves
    <3> QED BY <2>3, <3>1, LoseMoves, QuietMoves DEF HandleAccept, QuietCall
  <2> QED BY <1>1, <2>1, <2>2, <2>3, ReregisterMoves, QuietMoves
          DEF HandleCur, QuietCall
<1> QED BY <1>1, ReceiveMoves, GoroutineMoves, OutsideMoves DEF Next

-----------------------------------------------------------------------------
(* The registered statuses. *)

\* A status is registered for one descriptor.
SlotsOnce ==
    \A p, q \in Procs, fd, d \in Fds :
        sockets[p][fd] # None /\ sockets[p][fd] = sockets[q][d]
            => p = q /\ fd = d

\* A socket has in its map no listener but its own.
ListenersOwn ==
    \A s \in SockIds, n \in HostFds :
        Keys(s)[n] \in Listener => Keys(s)[n][1] = s

\* A socket that has not listened yet has no goroutine and no queue.
YoungQuiet ==
    \A s \in SockIds : sock[s].state \in Young =>
        /\ Waits(s) = <<>>
        /\ \A e \in Entries : g[<<s, e>>].pc = "none"

UnusedEmpty ==
    \A s \in SockIds : sock[s].state = "Unused" =>
        \A n \in HostFds : Keys(s)[n] = None

StatusInv ==
    /\ TypeInv /\ Slots /\ SlotsOnce
    /\ ListenersOwn /\ YoungQuiet /\ UnusedEmpty

\* What Renew does to the statuses.
LEMMA RenewStatus ==
    ASSUME TypeInv, NEW p \in Procs, NEW fd \in Fds,
           NEW x \in SockIds \cup {None}, Renew(p, fd, x)
    PROVE  /\ x \in SockIds =>
                 /\ Waits(x)' = <<>> /\ sock[x].state = "Unused"
                 /\ sock'[x].state \in {"NotBypassed", "NotBypassable"}
                 /\ \A n \in HostFds : Keys(x)'[n] = None
           /\ \A s \in SockIds : s # x =>
                 /\ Keys(s)' = Keys(s) /\ Waits(s)' = Waits(s)
                 /\ sock'[s].state = sock[s].state
<1>1. CASE x = None
  BY <1>1, NoValues DEF Renew, Keys, Waits
<1>2. CASE x \in SockIds
  <2> PICK st \in {"NotBypassed", "NotBypassable"} :
        sock' = [sock EXCEPT ![x] = NewStatus(st)]
    BY <1>2, NoValues DEF Renew
  <2>1. sock[x].state = "Unused"
    BY <1>2, NoValues DEF Renew, Fresh
  <2>2. /\ Waits(x)' = <<>> /\ sock'[x].state = st
        /\ \A n \in HostFds : Keys(x)'[n] = None
        /\ \A s \in SockIds : s # x =>
              /\ Keys(s)' = Keys(s) /\ Waits(s)' = Waits(s)
              /\ sock'[s].state = sock[s].state
    BY <1>2, StatusType DEF NewStatus, Keys, Waits
  <2> QED BY <2>1, <2>2
<1> QED BY <1>1, <1>2

\* A fresh status is registered nowhere.
LEMMA FreshNowhere ==
    ASSUME SlotsUsed, NEW x \in SockIds, sock[x].state = "Unused",
           NEW p \in Procs, NEW fd \in Fds
    PROVE  sockets[p][fd] # x
  BY NoValues DEF SlotsUsed

\* The goroutines other than that of l are where they were.
Elsewhere(l) == \A k \in Listener : k # l => g'[k] = g[k]

LEMMA TurnFacts ==
    ASSUME TypeInv, NEW l \in Listener, Turn(l)
    PROVE  /\ Elsewhere(l)
           /\ g[l].pc \in {"check", "enter", "blocked", "recv"}
           /\ g'[l].pc \in {"enter", "blocked", "done"}
           /\ g'[l].pc = "done" => hs[l].Cancelled \/ Failing(l)
           /\ g[l].pc = "check" /\ hs[l].Cancelled => g'[l].pc = "done"
           /\ g[l].pc = "check" => g'[l].pc \in {"enter", "done"}
           /\ g'[l].pc = "blocked" => /\ g'[l].file = hfd[hs[l].Sockfd]
                                      /\ g[l].pc = "enter"
           /\ UNCHANGED <<hfd, conn, cur, sockets, sock, kfd>>
           /\ \A k \in Listener :
                 /\ hs'[k].Sockfd = hs[k].Sockfd
                 /\ hs[k].Cancelled => hs'[k].Cancelled
<1>0. g \in [Listener -> Goroutine] /\ g[l] \in Goroutine
  BY DEF TypeInv, GoroutinesOK
<1>1. CASE g[l].pc = "check" /\ GGoto(l, IF hs[l].Cancelled THEN "done" ELSE "enter")
  BY <1>0, <1>1 DEF GGoto, NoGoroutine, Turn, Elsewhere
<1>2. CASE /\ g[l].pc = "enter"
           /\ g' = [g EXCEPT ![l].pc = "blocked",
                             ![l].file = hfd[hs[l].Sockfd],
                             ![l].nowait = hfd[hs[l].Sockfd] \in nonblock]
  <2> DEFINE file == hfd[hs[l].Sockfd]
             nowait == file \in nonblock
             r == [g[l] EXCEPT !.pc = "blocked", !.file = file,
                               !.nowait = nowait]
  <2>1. g' = [g EXCEPT ![l] = r]
    BY <1>2
  <2> HIDE DEF nowait
  <2>2. r.pc = "blocked" /\ r.file = file
    BY <1>0 DEF Goroutine
  <2> HIDE DEF r
  <2>3. g'[l] = r /\ Elsewhere(l)
    BY <1>0, <2>1 DEF Elsewhere
  <2> QED BY <1>2, <2>2, <2>3 DEF Turn
<1>3. CASE g[l].pc \in {"enter", "blocked", "recv"} /\ GGoto(l, "done") /\ Failing(l)
  BY <1>0, <1>3 DEF GGoto, NoGoroutine, Turn, Elsewhere
<1> QED BY <1>1, <1>2, <1>3 DEF Turn

LEMMA GotoFacts ==
    ASSUME TypeInv, NEW l \in Listener, NEW pc, GGoto(l, pc)
    PROVE  Elsewhere(l) /\ g'[l] = [NoGoroutine EXCEPT !.pc = pc] /\ g'[l].pc = pc
  BY DEF TypeInv, GoroutinesOK, GGoto, NoGoroutine, Elsewhere

LEMMA StoringFacts ==
    ASSUME TypeInv, NEW l \in Listener, Storing(l)
    PROVE  /\ Elsewhere(l) /\ g[l].pc = "recv" /\ g'[l].pc = "send"
           /\ g'[l].conn = g[l].conn /\ g'[l].fd = g[l].fd
           /\ g[l].conn \in Conns /\ g[l].fd \in HostFds
  BY DEF TypeInv, GoroutinesOK, Goroutine, Storing, Elsewhere

LEMMA AcceptingFacts ==
    ASSUME TypeInv, NEW l \in Listener, NEW c \in Conns, NEW n \in HostFds,
           Accepting(l, c, n)
    PROVE  /\ Elsewhere(l) /\ g[l].pc = "blocked"
           /\ g'[l].pc = "recv" /\ g'[l].conn = c /\ g'[l].fd = n
           /\ hfd[n] = Free
           /\ \A m \in HostFds : hfd'[m] = IF m = n THEN c ELSE hfd[m]
           /\ conn[c].st = "backlog" /\ conn[c].lsn = g[l].file
           /\ conn'[c].st = "accepted"
           /\ \A d \in Conns : conn'[d].lsn = conn[d].lsn
           /\ \A d \in Conns : d # c => conn'[d].st = conn[d].st
  BY DEF TypeInv, GoroutinesOK, HostTypeOK, Connection, Accepting, Elsewhere

LEMMA ArrivingFacts ==
    ASSUME TypeInv, NEW c \in Conns, NEW l \in Listener, Arriving(c, l)
    PROVE  /\ conn[c].st = "new" /\ conn'[c].st = "backlog" /\ conn'[c].lsn = l
           /\ \A d \in Conns : d # c => conn'[d] = conn[d]
  BY DEF TypeInv, HostTypeOK, Connection, Arriving

LEMMA StepSlots ==
    ASSUME StatusInv, Moves
    PROVE  Slots' /\ SlotsOnce'
<1> USE DEF StatusInv, Slots
<1>0. \A p \in Procs, fd \in Fds : sockets[p][fd] \in SockIds \cup {None}
  BY DEF TypeInv, TablesOK
<1>a. cur # None => /\ Tgid[cur.t] \in Procs /\ cur.call.fd \in Fds
                    /\ cur.s \in SockIds /\ sock[cur.s].state # "Unused"
  BY CurType, ServedUsed DEF At
<1>1. CASE Still
  <2>1. UNCHANGED sockets
    BY <1>1 DEF Still, StillStatus
  <2>2. SlotsUsed'
    BY <1>0, <1>1, <2>1 DEF Still, StillStatus, SlotsUsed
  <2>3. ServedSlot'
    BY <1>1, <2>1 DEF Still, StillServing, ServedSlot
  <2> QED BY <2>1, <2>2, <2>3 DEF SlotsOnce
<1>2. ASSUME NEW t \in Procs, Drop(t) PROVE Slots' /\ SlotsOnce'
  <2>1. SlotsUsed'
    BY <1>0, <1>2 DEF Drop, SlotsUsed
  <2>2. SlotsOnce'
    BY <1>2 DEF Drop, SlotsOnce
  <2> QED BY <1>2, <2>1, <2>2 DEF Drop, ServedSlot
<1>3. ASSUME NEW p \in Procs, NEW fd \in Fds, NEW x \in SockIds \cup {None},
             Renew(p, fd, x)
      PROVE  Slots' /\ SlotsOnce'
  <2>1. \A q \in Procs, d \in Fds :
           sockets'[q][d] = IF q = p /\ d = fd THEN x ELSE sockets[q][d]
    BY <1>3 DEF Renew
  <2>2. SlotsUsed'
    <3> SUFFICES ASSUME NEW q \in Procs, NEW d \in Fds, sockets'[q][d] # None
                 PROVE  sock'[sockets'[q][d]].state # "Unused"
      BY DEF SlotsUsed
    <3>1. CASE sockets'[q][d] = x
      BY <1>3, <3>1, RenewStatus
    <3>2. CASE sockets'[q][d] # x
      BY <1>0, <1>3, <2>1, <3>2, RenewStatus DEF SlotsUsed
    <3> QED BY <3>1, <3>2
  <2>3. x # None => \A q \in Procs, d \in Fds : sockets[q][d] # x
    BY <1>3, RenewStatus, FreshNowhere
  <2>4. SlotsOnce'
    BY <2>1, <2>3 DEF SlotsOnce
  <2>5. ServedSlot'
    <3> SUFFICES ASSUME cur' # None PROVE ServedSlot'
      BY DEF ServedSlot
    <3>1. Tgid[cur'.t] = p /\ cur'.call.fd = fd /\ cur'.s = x /\ cur'.pc = "serve"
      BY <1>3 DEF Renew
    <3> QED BY <2>1, <3>1 DEF ServedSlot
  <2> QED BY <2>2, <2>4, <2>5
<1>4. ASSUME UNCHANGED sockets,
             \A s \in SockIds : sock[s].state # "Unused" => sock'[s].state # "Unused"
      PROVE  SlotsUsed' /\ SlotsOnce'
  BY <1>0, <1>4 DEF SlotsUsed, SlotsOnce
<1>5. ASSUME NEW e \in Entries, NEW n \in HostFds, Bind(e, n)
      PROVE  Slots' /\ SlotsOnce'
  <2>1. ServedSlot'
    BY <1>5, <1>a DEF Bind, ServedSlot
  <2> QED BY <1>4, <1>5, <2>1 DEF Bind
<1>6. ASSUME NEW up \in SUBSET Listener, Start(up) PROVE Slots' /\ SlotsOnce'
  <2>1. \A s \in SockIds : sock[s].state # "Unused" => sock'[s].state # "Unused"
    BY <1>6 DEF Start, Young
  <2> QED BY <1>4, <1>6, <2>1 DEF Start, ServedSlot
<1>7. ASSUME NEW s \in SockIds, NEW p \in Procs, NEW newfd \in Fds,
             NEW a \in SockIds, Deliver(s, p, newfd, a)
      PROVE  Slots' /\ SlotsOnce'
  <2>1. \A q \in Procs, d \in Fds :
           sockets'[q][d] = IF q = p /\ d = newfd THEN a ELSE sockets[q][d]
    BY <1>7 DEF Deliver
  <2>2. \A r \in SockIds : sock[r].state # "Unused" => sock'[r].state # "Unused"
    BY <1>7 DEF Deliver
  <2>3. sock'[a].state # "Unused"
    BY <1>7 DEF Deliver
  <2>4. SlotsUsed'
    BY <1>0, <2>1, <2>2, <2>3 DEF SlotsUsed
  <2>5. sockets[p][newfd] = a \/ \A q \in Procs, d \in Fds : sockets[q][d] # a
    BY <1>7, FreshNowhere DEF Deliver, Fresh
  <2>6. SlotsOnce'
    BY <2>1, <2>5, NoValues DEF SlotsOnce
  <2> QED BY <1>7, <2>4, <2>6 DEF Deliver, ServedSlot
<1>8. ASSUME NEW s \in SockIds, Lose(s) PROVE Slots' /\ SlotsOnce'
  BY <1>4, <1>8 DEF Lose, ServedSlot
<1>9. ASSUME UNCHANGED <<sockets, cur>>,
             \A s \in SockIds : sock'[s].state = sock[s].state
      PROVE  Slots' /\ SlotsOnce'
  BY <1>4, <1>9, <1>a DEF ServedSlot
<1>10. ASSUME NEW l \in Listener, Turn(l) \/ Denying(l) \/ Storing(l) \/ Queueing(l)
       PROVE  Slots' /\ SlotsOnce'
  BY <1>9, <1>10 DEF Turn, Denying, Storing, Queueing
<1>11. ASSUME NEW l \in Listener, NEW c \in Conns, NEW n \in HostFds,
              Accepting(l, c, n)
       PROVE  Slots' /\ SlotsOnce'
  BY <1>9, <1>11 DEF Accepting
<1>12. ASSUME NEW l \in Listener, NEW c \in Conns, Arriving(c, l)
       PROVE  Slots' /\ SlotsOnce'
  BY <1>9, <1>12 DEF Arriving
<1> QED BY <1>1, <1>2, <1>3, <1>5, <1>6, <1>7, <1>8, <1>10, <1>11, <1>12 DEF Moves

LEMMA StepOwn ==
    ASSUME StatusInv, Moves
    PROVE  ListenersOwn' /\ UnusedEmpty'
<1> USE DEF StatusInv
<1>1. ASSUME \A s \in SockIds :
                /\ Keys(s)' = Keys(s)
                /\ sock'[s].state = "Unused" => sock[s].state = "Unused"
      PROVE  ListenersOwn' /\ UnusedEmpty'
  <2>1. ListenersOwn'
    BY <1>1 DEF ListenersOwn
  <2>2. UnusedEmpty'
    BY <1>1 DEF UnusedEmpty
  <2> QED BY <2>1, <2>2
<1>2. CASE Still
  BY <1>1, <1>2 DEF Still, StillStatus
<1>3. ASSUME NEW t \in Procs, Drop(t) PROVE ListenersOwn' /\ UnusedEmpty'
  BY <1>1, <1>3 DEF Drop, Keys
<1>4. ASSUME NEW p \in Procs, NEW fd \in Fds, NEW x \in SockIds \cup {None},
             Renew(p, fd, x)
      PROVE  ListenersOwn' /\ UnusedEmpty'
  <2>1. ListenersOwn'
    BY <1>4, RenewStatus, NoValues DEF ListenersOwn
  <2>2. UnusedEmpty'
    BY <1>4, RenewStatus DEF UnusedEmpty
  <2> QED BY <2>1, <2>2
\* One number of one map gets another value.
<1>5. ASSUME NEW s \in SockIds, NEW n \in HostFds, NEW f,
             sock[s].state # "Unused",
             f \in Listener => f[1] = s,
             \A r \in SockIds :
                /\ Keys(r)' = IF r = s THEN [Keys(r) EXCEPT ![n] = f] ELSE Keys(r)
                /\ sock'[r].state = "Unused" => sock[r].state = "Unused"
                /\ r = s => sock'[r].state # "Unused"
      PROVE  ListenersOwn' /\ UnusedEmpty'
  <2>0. \A m \in HostFds : Keys(s)'[m] = IF m = n THEN f ELSE Keys(s)[m]
    BY <1>5, StatusType
  <2>1. ListenersOwn'
    BY <1>5, <2>0 DEF ListenersOwn
  <2>2. UnusedEmpty'
    BY <1>5 DEF UnusedEmpty
  <2> QED BY <2>1, <2>2
<1>6. ASSUME NEW e \in Entries, NEW n \in HostFds, Bind(e, n)
      PROVE  ListenersOwn' /\ UnusedEmpty'
  <2>1. cur.s \in SockIds /\ sock[cur.s].state # "Unused"
    BY <1>6, ServedUsed DEF Bind
  <2> DEFINE l == <<cur.s, e>>
  <2>2. l[1] = cur.s
    OBVIOUS
  <2>3. \A r \in SockIds :
           /\ Keys(r)' = IF r = cur.s THEN [Keys(r) EXCEPT ![n] = l] ELSE Keys(r)
           /\ sock'[r].state = sock[r].state
    BY <1>6 DEF Bind
  <2> HIDE DEF l
  <2> QED BY <1>5, <2>1, <2>2, <2>3
<1>7. ASSUME NEW up \in SUBSET Listener, Start(up)
      PROVE  ListenersOwn' /\ UnusedEmpty'
  BY <1>1, <1>7 DEF Start, Young
<1>8. ASSUME NEW s \in SockIds, NEW p \in Procs, NEW newfd \in Fds,
             NEW a \in SockIds, Deliver(s, p, newfd, a)
      PROVE  ListenersOwn' /\ UnusedEmpty'
  <2> DEFINE n == Head(Waits(s)).fd
  <2>1. n \in HostFds
    BY <1>8, HeadType DEF Deliver, Waits, Accepted
  <2>2. sock[s].state # "Unused"
    BY <1>8, ServedUsed DEF Deliver
  <2>3. \A r \in SockIds :
           /\ Keys(r)' = IF r = s THEN [Keys(r) EXCEPT ![n] = None] ELSE Keys(r)
           /\ sock'[r].state = IF r = a THEN "Bypassed" ELSE sock[r].state
    BY <1>8 DEF Deliver
  <2> HIDE DEF n
  <2>4. \A m \in HostFds : Keys(s)'[m] = IF m = n THEN None ELSE Keys(s)[m]
    BY <2>3, StatusType
  <2>5. ListenersOwn'
    BY <2>3, <2>4, NoValues DEF ListenersOwn
  <2>6. UnusedEmpty'
    BY <2>2, <2>3 DEF UnusedEmpty
  <2> QED BY <2>5, <2>6
<1>9. ASSUME NEW s \in SockIds, Lose(s) PROVE ListenersOwn' /\ UnusedEmpty'
  BY <1>1, <1>9 DEF Lose
<1>10. ASSUME NEW l \in Listener, Storing(l) PROVE ListenersOwn' /\ UnusedEmpty'
  <2>1. l[1] \in SockIds /\ l[2] \in Entries /\ l = <<l[1], l[2]>>
    BY DEF Listener
  <2>2. sock[l[1]].state # "Unused"
    BY <1>10, <2>1, StoringFacts DEF YoungQuiet, Young
  <2>3. g[l].conn \notin Listener /\ g[l].fd \in HostFds
    BY <1>10, StoringFacts, NoValues
  <2> DEFINE n == g[l].fd
             c == g[l].conn
             s == l[1]
  <2>4. \A r \in SockIds :
           /\ Keys(r)' = IF r = s THEN [Keys(r) EXCEPT ![n] = c] ELSE Keys(r)
           /\ sock'[r].state = sock[r].state
    BY <1>10 DEF Storing
  <2>5. s \in SockIds /\ n \in HostFds /\ c \notin Listener /\ sock[s].state # "Unused"
    BY <2>1, <2>2, <2>3
  <2> HIDE DEF n, c, s
  <2> QED BY <1>5, <2>4, <2>5
<1>11. ASSUME NEW l \in Listener, Turn(l) \/ Denying(l) \/ Queueing(l)
       PROVE  ListenersOwn' /\ UnusedEmpty'
  <2>1. \/ UNCHANGED sock
        \/ \A s \in SockIds : Keys(s)' = Keys(s) /\ sock'[s].state = sock[s].state
    BY <1>11 DEF Turn, Denying, Queueing
  <2> QED BY <1>1, <2>1 DEF Keys
<1>12. ASSUME NEW l \in Listener, NEW c \in Conns, NEW n \in HostFds,
              Accepting(l, c, n)
       PROVE  ListenersOwn' /\ UnusedEmpty'
  BY <1>1, <1>12 DEF Accepting, Keys
<1>13. ASSUME NEW l \in Listener, NEW c \in Conns, Arriving(c, l)
       PROVE  ListenersOwn' /\ UnusedEmpty'
  BY <1>1, <1>13 DEF Arriving, Keys
<1> QED BY <1>2, <1>3, <1>4, <1>6, <1>7, <1>8, <1>9, <1>10, <1>11, <1>12, <1>13
        DEF Moves

LEMMA StepYoung ==
    ASSUME StatusInv, Moves
    PROVE  YoungQuiet'
<1> USE DEF StatusInv
<1>1. ASSUME UNCHANGED g,
             \A s \in SockIds :
                sock'[s].state \in Young => /\ sock[s].state \in Young
                                            /\ Waits(s)' = Waits(s)
      PROVE  YoungQuiet'
  BY <1>1 DEF YoungQuiet
<1>2. CASE Still
  BY <1>1, <1>2 DEF Still, StillStatus
<1>3. ASSUME NEW t \in Procs, Drop(t) PROVE YoungQuiet'
  BY <1>1, <1>3 DEF Drop, Waits
<1>4. ASSUME NEW p \in Procs, NEW fd \in Fds, NEW x \in SockIds \cup {None},
             Renew(p, fd, x)
      PROVE  YoungQuiet'
  <2>1. UNCHANGED g
    BY <1>4 DEF Renew
  <2> SUFFICES ASSUME NEW s \in SockIds, sock'[s].state \in Young
               PROVE  Waits(s)' = <<>> /\ \A e \in Entries : g'[<<s, e>>].pc = "none"
    BY DEF YoungQuiet
  <2>2. CASE s = x
    BY <1>4, <2>1, <2>2, RenewStatus DEF YoungQuiet, Young
  <2>3. CASE s # x
    BY <1>4, <2>1, <2>3, RenewStatus DEF YoungQuiet
  <2> QED BY <2>2, <2>3
<1>5. ASSUME NEW e \in Entries, NEW n \in HostFds, Bind(e, n) PROVE YoungQuiet'
  BY <1>1, <1>5 DEF Bind
<1>6. ASSUME NEW up \in SUBSET Listener, Start(up) PROVE YoungQuiet'
  <2>1. cur.s \in SockIds
    BY <1>6, ServedUsed DEF Start
  <2>2. ASSUME NEW l \in up PROVE l[1] = cur.s
    <3>1. l \in Listener /\ l \in HeldListeners({cur.s})
      BY <1>6 DEF Start
    <3> PICK n \in HostFds : sock[cur.s].hostSockets[n] = l
      BY <3>1 DEF HeldListeners
    <3> QED BY <2>1, <3>1 DEF ListenersOwn, Keys
  <2> SUFFICES ASSUME NEW s \in SockIds, sock'[s].state \in Young
               PROVE  Waits(s)' = <<>> /\ \A e \in Entries : g'[<<s, e>>].pc = "none"
    BY DEF YoungQuiet
  <2>3. s # cur.s /\ sock[s].state \in Young /\ Waits(s)' = Waits(s)
    BY <1>6 DEF Start
  <2>4. ASSUME NEW e \in Entries PROVE g'[<<s, e>>].pc = "none"
    <3>1. <<s, e>> \in Listener /\ <<s, e>> \notin up
      BY <2>2, <2>3 DEF Listener
    <3>2. g'[<<s, e>>] = g[<<s, e>>]
      BY <1>6, <3>1 DEF Start
    <3> QED BY <2>3, <3>2 DEF YoungQuiet
  <2> QED BY <2>3, <2>4 DEF YoungQuiet
<1>7. ASSUME NEW s \in SockIds, NEW p \in Procs, NEW newfd \in Fds,
             NEW a \in SockIds, Deliver(s, p, newfd, a)
      PROVE  YoungQuiet'
  <2>1. sock[s].state \notin Young
    BY <1>7 DEF Deliver, YoungQuiet
  <2> QED BY <1>1, <1>7, <2>1 DEF Deliver, Young
<1>8. ASSUME NEW s \in SockIds, Lose(s) PROVE YoungQuiet'
  <2>1. sock[s].state \notin Young
    BY <1>8 DEF Lose, YoungQuiet
  <2> QED BY <1>1, <1>8, <2>1 DEF Lose, Young
<1>9. ASSUME NEW l \in Listener, g[l].pc # "none", Elsewhere(l),
             \A s \in SockIds :
                /\ sock'[s].state = sock[s].state
                /\ s # l[1] => Waits(s)' = Waits(s)
      PROVE  YoungQuiet'
  <2>1. l[1] \in SockIds /\ l[2] \in Entries /\ l = <<l[1], l[2]>>
    BY DEF Listener
  <2>2. sock[l[1]].state \notin Young
    BY <1>9, <2>1 DEF YoungQuiet
  <2> SUFFICES ASSUME NEW s \in SockIds, sock'[s].state \in Young
               PROVE  Waits(s)' = <<>> /\ \A e \in Entries : g'[<<s, e>>].pc = "none"
    BY DEF YoungQuiet
  <2>3. s # l[1] /\ sock[s].state \in Young /\ Waits(s)' = Waits(s)
    BY <1>9, <2>2
  <2>4. ASSUME NEW e \in Entries PROVE g'[<<s, e>>] = g[<<s, e>>]
    <3>1. <<s, e>> \in Listener /\ <<s, e>> # l
      BY <2>1, <2>3 DEF Listener
    <3> QED BY <1>9, <3>1 DEF Elsewhere
  <2> QED BY <2>3, <2>4 DEF YoungQuiet
<1>10. ASSUME NEW l \in Listener, Turn(l) PROVE YoungQuiet'
  BY <1>9, <1>10, TurnFacts DEF Waits
<1>11. ASSUME NEW l \in Listener, Denying(l) \/ Queueing(l) PROVE YoungQuiet'
  BY <1>9, <1>11, GotoFacts DEF Denying, Queueing, Waits
<1>12. ASSUME NEW l \in Listener, Storing(l) PROVE YoungQuiet'
  BY <1>9, <1>12, StoringFacts DEF Storing
<1>13. ASSUME NEW l \in Listener, NEW c \in Conns, NEW n \in HostFds,
              Accepting(l, c, n)
       PROVE  YoungQuiet'
  BY <1>9, <1>13, AcceptingFacts DEF Accepting, Waits
<1>14. ASSUME NEW l \in Listener, NEW c \in Conns, Arriving(c, l)
       PROVE  YoungQuiet'
  BY <1>1, <1>14 DEF Arriving, Waits
<1> QED BY <1>2, <1>3, <1>4, <1>5, <1>6, <1>7, <1>8, <1>10, <1>11, <1>12, <1>13,
           <1>14 DEF Moves

-----------------------------------------------------------------------------
(* Listeners belong to registered sockets. *)

\* An open listener is in the map of its registered socket.
ListenerKeys ==
    \A n \in HostFds : hfd[n] \in Listener =>
        Registered(hfd[n][1]) /\ Keys(hfd[n][1])[n] = hfd[n]

\* What a goroutine is about to store does not hide a listener of its socket.
RecvApart ==
    \A l \in Listener : g[l].pc = "recv" /\ hfd[g[l].fd] \in Listener
        => hfd[g[l].fd][1] # l[1]

LEMMA ListenerParts ==
    ASSUME NEW l \in Listener
    PROVE  l[1] \in SockIds /\ l[2] \in Entries /\ l = <<l[1], l[2]>>
  BY DEF Listener

\* What is closed is no listener afterwards.
LEMMA ClosingListeners ==
    ASSUME NEW N, Closing(N), NEW n \in HostFds, hfd'[n] \in Listener
    PROVE  n \notin N /\ hfd'[n] = hfd[n]
  BY NoValues DEF Closing

LEMMA StepRecvApart ==
    ASSUME NumbersApart, StatusInv, RecvApart, Moves
    PROVE  RecvApart'
<1> USE DEF StatusInv
<1>0. \A l \in Listener : g[l].pc = "recv" => g[l].fd \in HostFds
  BY DEF TypeInv, GoroutinesOK
<1>1. ASSUME \A n \in HostFds : hfd'[n] \in Listener => hfd'[n] = hfd[n],
             \A l \in Listener :
                g'[l].pc = "recv" => g[l].pc = "recv" /\ g'[l].fd = g[l].fd
      PROVE  RecvApart'
  BY <1>0, <1>1 DEF RecvApart
<1>2. CASE Still
  BY <1>1, <1>2, NoValues, NoCopies DEF Still, StillHost, StillStatus
<1>3. ASSUME NEW t \in Procs, Drop(t) PROVE RecvApart'
  BY <1>1, <1>3, ClosingListeners DEF Drop, Removing
<1>4. ASSUME NEW p \in Procs, NEW fd \in Fds, NEW x \in SockIds \cup {None},
             Renew(p, fd, x)
      PROVE  RecvApart'
  BY <1>1, <1>4, ClosingListeners DEF Renew, Removing
<1>5. ASSUME NEW e \in Entries, NEW n \in HostFds, Bind(e, n) PROVE RecvApart'
  <2>1. cur.s \in SockIds /\ sock[cur.s].state = "NotBypassed"
    BY <1>5, ServedUsed DEF Bind, Slots, ServedSlot
  <2> SUFFICES ASSUME NEW l \in Listener, g'[l].pc = "recv",
                      hfd'[g'[l].fd] \in Listener
               PROVE  hfd'[g'[l].fd][1] # l[1]
    BY DEF RecvApart
  <2>2. g[l].pc = "recv" /\ g'[l].fd = g[l].fd /\ g[l].fd \in HostFds
    BY <1>0, <1>5 DEF Bind
  <2>3. l[1] # cur.s
    BY <2>1, <2>2, ListenerParts DEF YoungQuiet, Young
  <2>4. \A m \in HostFds : hfd'[m] = IF m = n THEN <<cur.s, e>> ELSE hfd[m]
    BY <1>5 DEF Bind, TypeInv, HostTypeOK
  <2> QED BY <2>2, <2>3, <2>4 DEF RecvApart
<1>6. ASSUME NEW up \in SUBSET Listener, Start(up) PROVE RecvApart'
  BY <1>1, <1>6 DEF Start, NoGoroutine
<1>7. ASSUME NEW s \in SockIds, NEW p \in Procs, NEW newfd \in Fds,
             NEW a \in SockIds, Deliver(s, p, newfd, a)
      PROVE  RecvApart'
  BY <1>1, <1>7, ClosingListeners DEF Deliver
<1>8. ASSUME NEW s \in SockIds, Lose(s) PROVE RecvApart'
  BY <1>1, <1>8, ClosingListeners DEF Lose
<1>9. ASSUME NEW l \in Listener, Turn(l) PROVE RecvApart'
  BY <1>1, <1>9, TurnFacts DEF Elsewhere
<1>10. ASSUME NEW l \in Listener, Denying(l) PROVE RecvApart'
  <2>1. Elsewhere(l) /\ g'[l].pc = "check"
    BY <1>10, GotoFacts DEF Denying
  <2> QED BY <1>1, <1>10, <2>1, ClosingListeners DEF Denying, Elsewhere
<1>11. ASSUME NEW l \in Listener, Storing(l) PROVE RecvApart'
  BY <1>1, <1>11, StoringFacts DEF Storing, Elsewhere
<1>12. ASSUME NEW l \in Listener, Queueing(l) PROVE RecvApart'
  <2>1. Elsewhere(l) /\ g'[l].pc = "check"
    BY <1>12, GotoFacts DEF Queueing
  <2> QED BY <1>1, <1>12, <2>1 DEF Queueing, Elsewhere
<1>13. ASSUME NEW l \in Listener, NEW c \in Conns, NEW n \in HostFds,
              Accepting(l, c, n)
       PROVE  RecvApart'
  BY <1>0, <1>13, AcceptingFacts, NoValues DEF RecvApart, Elsewhere
<1>14. ASSUME NEW l \in Listener, NEW c \in Conns, Arriving(c, l)
       PROVE  RecvApart'
  BY <1>1, <1>14 DEF Arriving
<1> QED BY <1>2, <1>3, <1>4, <1>5, <1>6, <1>7, <1>8, <1>9, <1>10, <1>11, <1>12,
           <1>13, <1>14 DEF Moves

\* Removing statuses closes their listeners; the others stay registered.
LEMMA RemovedListeners ==
    ASSUME TypeInv, ListenerKeys, NEW S \in SUBSET SockIds, Removing(S),
           NEW n \in HostFds, hfd'[n] \in Listener
    PROVE  /\ hfd'[n] = hfd[n] /\ hfd[n][1] \in SockIds \ S
           /\ Registered(hfd[n][1]) /\ Keys(hfd[n][1])[n] = hfd[n]
<1>1. n \notin HeldFds(S) /\ hfd'[n] = hfd[n]
  BY ClosingListeners DEF Removing
<1>2. Registered(hfd[n][1]) /\ Keys(hfd[n][1])[n] = hfd[n] /\ hfd[n][1] \in SockIds
  BY <1>1, ListenerParts DEF ListenerKeys
<1>3. hfd[n][1] \notin S
  BY <1>1, <1>2, NoValues DEF HeldFds, Keys
<1> QED BY <1>1, <1>2, <1>3

LEMMA StepListenerKeys ==
    ASSUME NumbersApart, StatusInv, ListenerKeys, RecvApart, Moves
    PROVE  ListenerKeys'
<1> USE DEF StatusInv
<1>0. ASSUME \A n \in HostFds : hfd'[n] \in Listener =>
                \E s \in SockIds :
                   /\ hfd'[n][1] = s /\ Registered(s)'
                   /\ Keys(s)'[n] = hfd'[n]
      PROVE  ListenerKeys'
  BY <1>0 DEF ListenerKeys, Registered, Keys
<1>1. ASSUME UNCHANGED sockets,
             \A n \in HostFds : hfd'[n] \in Listener =>
                /\ hfd'[n] = hfd[n]
                /\ \A s \in SockIds :
                      hfd[n][1] = s => Keys(s)'[n] = Keys(s)[n]
      PROVE  ListenerKeys'
  <2> SUFFICES ASSUME NEW n \in HostFds, hfd'[n] \in Listener
               PROVE  \E s \in SockIds : /\ hfd'[n][1] = s /\ Registered(s)'
                                         /\ Keys(s)'[n] = hfd'[n]
    BY <1>0
  <2> DEFINE s == hfd[n][1]
  <2>1. hfd'[n] = hfd[n] /\ s \in SockIds
    BY <1>1, ListenerParts
  <2>2. Registered(s) /\ Keys(s)[n] = hfd[n] /\ sock'[s].hostSockets[n] = Keys(s)[n]
    BY <1>1, <2>1 DEF ListenerKeys, Keys
  <2> QED BY <1>1, <2>1, <2>2 DEF Registered, Keys
<1>2. ASSUME UNCHANGED sockets,
             \A n \in HostFds : hfd'[n] \in Listener => hfd'[n] = hfd[n],
             \A s \in SockIds : Keys(s)' = Keys(s)
      PROVE  ListenerKeys'
  BY <1>1, <1>2, ListenerParts
<1>3. CASE Still
  BY <1>2, <1>3, NoValues, NoCopies DEF Still, StillHost, StillStatus
<1>4. ASSUME NEW t \in Procs, Drop(t) PROVE ListenerKeys'
  <2> DEFINE S == {s \in SockIds : \E fd \in Fds : sockets[t][fd] = s}
  <2> SUFFICES ASSUME NEW n \in HostFds, hfd'[n] \in Listener
               PROVE  \E s \in SockIds : /\ hfd'[n][1] = s /\ Registered(s)'
                                         /\ Keys(s)'[n] = hfd'[n]
    BY <1>0
  <2>1. Removing(S) /\ S \in SUBSET SockIds
    BY <1>4 DEF Drop
  <2> HIDE DEF S
  <2>2. /\ hfd'[n] = hfd[n] /\ hfd[n][1] \in SockIds \ S
        /\ Registered(hfd[n][1]) /\ Keys(hfd[n][1])[n] = hfd[n]
    BY <2>1, RemovedListeners
  <2> PICK s \in SockIds \ S : s = hfd[n][1]
    BY <2>2
  <2> PICK p \in Procs, fd \in Fds : sockets[p][fd] = s
    BY <2>2 DEF Registered
  <2>3. p # t
    BY DEF S
  <2>4. Registered(s)'
    BY <1>4, <2>3 DEF Drop, Registered
  <2> QED BY <1>4, <2>2, <2>4 DEF Drop, Keys
<1>5. ASSUME NEW p \in Procs, NEW fd \in Fds, NEW x \in SockIds \cup {None},
             Renew(p, fd, x)
      PROVE  ListenerKeys'
  <2> DEFINE S == {s \in SockIds : sockets[p][fd] = s}
  <2> SUFFICES ASSUME NEW n \in HostFds, hfd'[n] \in Listener
               PROVE  \E s \in SockIds : /\ hfd'[n][1] = s /\ Registered(s)'
                                         /\ Keys(s)'[n] = hfd'[n]
    BY <1>0
  <2>1. Removing(S) /\ S \in SUBSET SockIds
    BY <1>5 DEF Renew
  <2> HIDE DEF S
  <2>2. /\ hfd'[n] = hfd[n] /\ hfd[n][1] \in SockIds \ S
        /\ Registered(hfd[n][1]) /\ Keys(hfd[n][1])[n] = hfd[n]
    BY <2>1, RemovedListeners
  <2> PICK s \in SockIds \ S : s = hfd[n][1]
    BY <2>2
  <2> PICK q \in Procs, d \in Fds : sockets[q][d] = s
    BY <2>2 DEF Registered
  <2>3. ~(q = p /\ d = fd)
    BY DEF S
  <2>4. Registered(s)'
    BY <1>5, <2>3 DEF Renew, Registered
  <2>5. s # x
    BY <1>5, <2>2, RenewStatus, FreshNowhere DEF Slots
  <2> QED BY <1>5, <2>2, <2>4, <2>5, RenewStatus
<1>6. ASSUME NEW e \in Entries, NEW n \in HostFds, Bind(e, n)
      PROVE  ListenerKeys'
  <2>1. cur.s \in SockIds /\ Registered(cur.s) /\ sockets' = sockets
    BY <1>6, ServedUsed DEF Bind
  <2> DEFINE l == <<cur.s, e>>
  <2>2. l[1] = cur.s
    OBVIOUS
  <2>3. \A m \in HostFds : hfd'[m] = IF m = n THEN l ELSE hfd[m]
    BY <1>6 DEF Bind, TypeInv, HostTypeOK
  <2>4. \A s \in SockIds :
           Keys(s)' = IF s = cur.s THEN [Keys(s) EXCEPT ![n] = l] ELSE Keys(s)
    BY <1>6 DEF Bind
  <2> HIDE DEF l
  <2>5. \A m \in HostFds, s \in SockIds :
           Keys(s)'[m] = IF s = cur.s /\ m = n THEN l ELSE Keys(s)[m]
    BY <2>4, StatusType
  <2> SUFFICES ASSUME NEW m \in HostFds, hfd'[m] \in Listener
               PROVE  \E s \in SockIds : /\ hfd'[m][1] = s /\ Registered(s)'
                                         /\ Keys(s)'[m] = hfd'[m]
    BY <1>0
  <2>6. CASE m = n
    BY <2>1, <2>2, <2>3, <2>5, <2>6 DEF Registered
  <2>7. CASE m # n
    <3> PICK s \in SockIds : s = hfd[m][1]
      BY <2>3, <2>7, ListenerParts
    <3>1. hfd'[m] = hfd[m] /\ Registered(s) /\ Keys(s)[m] = hfd[m]
      BY <2>3, <2>7 DEF ListenerKeys
    <3> QED BY <2>1, <2>5, <2>7, <3>1 DEF Registered
  <2> QED BY <2>6, <2>7
<1>7. ASSUME NEW up \in SUBSET Listener, Start(up) PROVE ListenerKeys'
  BY <1>2, <1>7 DEF Start
<1>8. ASSUME NEW s \in SockIds, NEW p \in Procs, NEW newfd \in Fds,
             NEW a \in SockIds, Deliver(s, p, newfd, a)
      PROVE  ListenerKeys'
  <2> DEFINE k == Head(Waits(s)).fd
  <2>1. /\ Closing({k})
        /\ \A r \in SockIds :
              Keys(r)' = IF r = s THEN [Keys(r) EXCEPT ![k] = None] ELSE Keys(r)
        /\ \A q \in Procs, d \in Fds :
              sockets'[q][d] = IF q = p /\ d = newfd THEN a ELSE sockets[q][d]
        /\ \/ sockets[p][newfd] = a
           \/ sockets[p][newfd] = None
    BY <1>8 DEF Deliver
  <2> HIDE DEF k
  <2>2. \A r \in SockIds : Registered(r) => Registered(r)'
    BY <2>1, NoValues DEF Registered
  <2> SUFFICES ASSUME NEW n \in HostFds, hfd'[n] \in Listener
               PROVE  \E o \in SockIds : /\ hfd'[n][1] = o /\ Registered(o)'
                                         /\ Keys(o)'[n] = hfd'[n]
    BY <1>0
  <2>3. n # k /\ hfd'[n] = hfd[n] /\ hfd[n][1] \in SockIds
    BY <2>1, ClosingListeners, ListenerParts
  <2> PICK r \in SockIds : r = hfd[n][1]
    BY <2>3
  <2>4. Registered(r) /\ Keys(r)[n] = hfd[n]
    BY <2>3 DEF ListenerKeys
  <2>5. Keys(r)'[n] = Keys(r)[n]
    BY <2>1, <2>3, StatusType
  <2> QED BY <2>2, <2>3, <2>4, <2>5
<1>9. ASSUME NEW s \in SockIds, Lose(s) PROVE ListenerKeys'
  BY <1>2, <1>9, ClosingListeners DEF Lose
<1>10. ASSUME NEW l \in Listener, Turn(l) \/ Queueing(l) PROVE ListenerKeys'
  BY <1>2, <1>10 DEF Turn, Queueing, Keys
<1>11. ASSUME NEW l \in Listener, Denying(l) PROVE ListenerKeys'
  BY <1>2, <1>11, ClosingListeners DEF Denying, Keys
<1>12. ASSUME NEW l \in Listener, Storing(l) PROVE ListenerKeys'
  <2>1. g[l].pc = "recv" /\ g[l].fd \in HostFds /\ l[1] \in SockIds
    BY <1>12, StoringFacts, ListenerParts
  <2>2. UNCHANGED <<hfd, sockets>>
    BY <1>12 DEF Storing
  <2>3. ASSUME NEW n \in HostFds, hfd[n] \in Listener,
               NEW s \in SockIds, hfd[n][1] = s
        PROVE  Keys(s)'[n] = Keys(s)[n]
    <3> DEFINE c == g[l].conn
               m == g[l].fd
    <3>2. ~(s = l[1] /\ n = m)
      BY <2>1, <2>3 DEF RecvApart
    <3>3. Keys(s)' = IF s = l[1] THEN [Keys(s) EXCEPT ![m] = c] ELSE Keys(s)
      BY <1>12 DEF Storing
    <3>4. Keys(s) \in [HostFds -> Listener \cup Conns \cup {None}]
      BY StatusType
    <3> HIDE DEF c, m
    <3> QED BY <3>2, <3>3, <3>4
  <2> QED BY <1>1, <2>2, <2>3
<1>13. ASSUME NEW l \in Listener, NEW c \in Conns, NEW n \in HostFds,
              Accepting(l, c, n)
       PROVE  ListenerKeys'
  <2>1. \A m \in HostFds : hfd'[m] = IF m = n THEN c ELSE hfd[m]
    BY <1>13, AcceptingFacts
  <2> QED BY <1>2, <1>13, <2>1, NoValues DEF Accepting, Keys
<1>14. ASSUME NEW l \in Listener, NEW c \in Conns, Arriving(c, l)
       PROVE  ListenerKeys'
  BY <1>2, <1>14 DEF Arriving, Keys
<1> QED BY <1>3, <1>4, <1>5, <1>6, <1>7, <1>8, <1>9, <1>10, <1>11, <1>12, <1>13,
           <1>14 DEF Moves

-----------------------------------------------------------------------------
(* A connection is held once. *)

\* What a number of the daemon or a descriptor of a process refers to was
\* accepted ...
HeldAccepted ==
    /\ \A n \in HostFds : hfd[n] \in Conns => conn[hfd[n]].st = "accepted"
    /\ \A p \in Procs, fd \in Fds :
          kfd[p][fd] \in Conns => conn[kfd[p][fd]].st = "accepted"

\* ... and, if nothing is copied, nothing else refers to it.
HeldOnce ==
    /\ HeldAccepted
    /\ \A n, m \in HostFds : hfd[n] \in Conns /\ hfd[n] = hfd[m] => n = m
    /\ \A p, q \in Procs, fd, d \in Fds :
          kfd[p][fd] \in Conns /\ kfd[p][fd] = kfd[q][d] => p = q /\ fd = d
    /\ \A n \in HostFds, p \in Procs, fd \in Fds :
          hfd[n] \in Conns => kfd[p][fd] # hfd[n]

LEMMA StepAccepted ==
    ASSUME StatusInv, HeldAccepted, Moves
    PROVE  HeldAccepted'
<1> USE DEF StatusInv
<1>0. ASSUME \A n \in HostFds :
                hfd'[n] \in Conns => \E m \in HostFds : hfd'[n] = hfd[m],
             \A p \in Procs, fd \in Fds :
                kfd'[p][fd] \in Conns =>
                   \/ kfd'[p][fd] = kfd[p][fd]
                   \/ \E m \in HostFds : kfd'[p][fd] = hfd[m],
             \A c \in Conns : conn[c].st = "accepted" => conn'[c].st = "accepted"
      PROVE  HeldAccepted'
  BY <1>0 DEF HeldAccepted
<1>1. ASSUME UNCHANGED <<hfd, conn, kfd>> PROVE HeldAccepted'
  BY <1>1 DEF HeldAccepted
<1>2. ASSUME NEW N, Closing(N), UNCHANGED kfd PROVE HeldAccepted'
  <2>1. \A n \in HostFds : hfd'[n] \in Conns => hfd'[n] = hfd[n]
    BY <1>2, NoValues DEF Closing
  <2>2. \A c \in Conns : conn[c].st = "accepted" => conn'[c].st = "accepted"
    BY <1>2 DEF Closing
  <2> QED BY <1>0, <1>2, <2>1, <2>2
<1>3. CASE Still
  <2>1. \A n \in HostFds :
           hfd'[n] \in Conns => \E m \in HostFds : hfd'[n] = hfd[m]
    BY <1>3, NoValues DEF Still, StillHost
  <2>2. \A c \in Conns : conn[c].st = "accepted" => conn'[c].st = "accepted"
    BY <1>3 DEF Still, StillHost, ConnsKept
  <2> QED BY <1>0, <1>3, <2>1, <2>2 DEF Still, StillFiles
<1>4. ASSUME NEW t \in Procs, Drop(t) PROVE HeldAccepted'
  BY <1>2, <1>4 DEF Drop, Removing
<1>5. ASSUME NEW p \in Procs, NEW fd \in Fds, NEW x \in SockIds \cup {None},
             Renew(p, fd, x)
      PROVE  HeldAccepted'
  BY <1>2, <1>5 DEF Renew, Removing
<1>6. ASSUME NEW e \in Entries, NEW n \in HostFds, Bind(e, n) PROVE HeldAccepted'
  <2>1. <<cur.s, e>> \notin Conns
    BY <1>6, ServedUsed, NoValues DEF Bind, Listener
  <2>2. \A m \in HostFds : hfd'[m] = IF m = n THEN <<cur.s, e>> ELSE hfd[m]
    BY <1>6 DEF Bind, TypeInv, HostTypeOK
  <2>3. UNCHANGED <<conn, kfd>>
    BY <1>6 DEF Bind
  <2> QED BY <1>0, <2>1, <2>2, <2>3
<1>7. ASSUME NEW up \in SUBSET Listener, Start(up) PROVE HeldAccepted'
  BY <1>1, <1>7 DEF Start
<1>8. ASSUME NEW s \in SockIds, NEW p \in Procs, NEW newfd \in Fds,
             NEW a \in SockIds, Deliver(s, p, newfd, a)
      PROVE  HeldAccepted'
  <2> DEFINE k == Head(Waits(s)).fd
  <2>0. k \in HostFds
    BY <1>8, HeadType DEF Deliver, Waits, Accepted
  <2>1. /\ \A n \in HostFds : hfd'[n] = IF n = k THEN Free ELSE hfd[n]
        /\ \A c \in Conns : conn[c].st = "accepted" => conn'[c].st = "accepted"
        /\ \A q \in Procs, d \in Fds :
              kfd'[q][d] = IF q = p /\ d = newfd THEN hfd[k] ELSE kfd[q][d]
    BY <1>8 DEF Deliver, Closing
  <2> HIDE DEF k
  <2> QED BY <1>0, <2>0, <2>1, NoValues
<1>9. ASSUME NEW s \in SockIds, Lose(s) PROVE HeldAccepted'
  BY <1>2, <1>9 DEF Lose
<1>10. ASSUME NEW l \in Listener, Turn(l) \/ Storing(l) \/ Queueing(l)
       PROVE  HeldAccepted'
  BY <1>1, <1>10 DEF Turn, Storing, Queueing
<1>11. ASSUME NEW l \in Listener, Denying(l) PROVE HeldAccepted'
  BY <1>2, <1>11 DEF Denying
<1>12. ASSUME NEW l \in Listener, NEW c \in Conns, NEW n \in HostFds,
              Accepting(l, c, n)
       PROVE  HeldAccepted'
  <2>1. /\ \A m \in HostFds : hfd'[m] = IF m = n THEN c ELSE hfd[m]
        /\ conn'[c].st = "accepted"
        /\ \A d \in Conns : d # c => conn'[d].st = conn[d].st
    BY <1>12, AcceptingFacts
  <2>2. kfd' = kfd
    BY <1>12 DEF Accepting
  <2> QED BY <2>1, <2>2 DEF HeldAccepted
<1>13. ASSUME NEW l \in Listener, NEW c \in Conns, Arriving(c, l)
       PROVE  HeldAccepted'
  <2>1. \A d \in Conns : conn[d].st = "accepted" => conn'[d].st = "accepted"
    BY <1>13, ArrivingFacts
  <2>2. UNCHANGED <<hfd, kfd>>
    BY <1>13 DEF Arriving
  <2> QED BY <1>0, <2>1, <2>2
<1> QED BY <1>3, <1>4, <1>5, <1>6, <1>7, <1>8, <1>9, <1>10, <1>11, <1>12, <1>13
        DEF Moves

\* Nobody gets hold of a connection that he did not hold.
LEMMA HeldKept ==
    ASSUME HeldOnce,
           \A n \in HostFds : hfd'[n] \in Conns => hfd'[n] = hfd[n],
           \A p \in Procs, fd \in Fds :
              kfd'[p][fd] \in Conns => kfd'[p][fd] = kfd[p][fd],
           \A c \in Conns : conn[c].st = "accepted" => conn'[c].st = "accepted"
    PROVE  HeldOnce'
  BY DEF HeldOnce, HeldAccepted

LEMMA ClosingHeld ==
    ASSUME NEW N, Closing(N), UNCHANGED kfd, HeldOnce
    PROVE  HeldOnce'
<1>1. \A n \in HostFds : hfd'[n] \in Conns => hfd'[n] = hfd[n]
  BY NoValues DEF Closing
<1>2. \A c \in Conns : conn[c].st = "accepted" => conn'[c].st = "accepted"
  BY DEF Closing
<1> QED BY <1>1, <1>2, HeldKept

LEMMA StepHeld ==
    ASSUME NumbersApart, StatusInv, HeldOnce, Moves
    PROVE  HeldOnce'
<1> USE DEF StatusInv
<1>1. ASSUME UNCHANGED <<hfd, conn, kfd>> PROVE HeldOnce'
  BY <1>1 DEF HeldOnce, HeldAccepted
<1>2. CASE Still
  <2>1. \A n \in HostFds : hfd'[n] \in Conns => hfd'[n] = hfd[n]
    BY <1>2, NoValues, NoCopies DEF Still, StillHost
  <2>2. \A p \in Procs, fd \in Fds :
           kfd'[p][fd] \in Conns => kfd'[p][fd] = kfd[p][fd]
    BY <1>2 DEF Still, StillFiles
  <2>3. \A c \in Conns : conn[c].st = "accepted" => conn'[c].st = "accepted"
    BY <1>2 DEF Still, StillHost, ConnsKept
  <2> QED BY <2>1, <2>2, <2>3, HeldKept
<1>3. ASSUME NEW t \in Procs, Drop(t) PROVE HeldOnce'
  BY <1>3, ClosingHeld DEF Drop, Removing
<1>4. ASSUME NEW p \in Procs, NEW fd \in Fds, NEW x \in SockIds \cup {None},
             Renew(p, fd, x)
      PROVE  HeldOnce'
  BY <1>4, ClosingHeld DEF Renew, Removing
<1>5. ASSUME NEW e \in Entries, NEW n \in HostFds, Bind(e, n) PROVE HeldOnce'
  <2>1. <<cur.s, e>> \notin Conns
    BY <1>5, ServedUsed, NoValues DEF Bind, Listener
  <2>2. \A m \in HostFds : hfd'[m] = IF m = n THEN <<cur.s, e>> ELSE hfd[m]
    BY <1>5 DEF Bind, TypeInv, HostTypeOK
  <2>3. UNCHANGED <<conn, kfd>>
    BY <1>5 DEF Bind
  <2> QED BY <2>1, <2>2, <2>3, HeldKept
<1>6. ASSUME NEW up \in SUBSET Listener, Start(up) PROVE HeldOnce'
  BY <1>1, <1>6 DEF Start
<1>7. ASSUME NEW s \in SockIds, NEW p \in Procs, NEW newfd \in Fds,
             NEW a \in SockIds, Deliver(s, p, newfd, a)
      PROVE  HeldOnce'
  <2> DEFINE k == Head(Waits(s)).fd
             f == hfd[k]
  <2>0. k \in HostFds
    BY <1>7, HeadType DEF Deliver, Waits, Accepted
  <2>1. /\ \A n \in HostFds : hfd'[n] = IF n = k THEN Free ELSE hfd[n]
        /\ \A c \in Conns : conn[c].st = "accepted" => conn'[c].st = "accepted"
        /\ \A q \in Procs, d \in Fds :
              kfd'[q][d] = IF q = p /\ d = newfd THEN f ELSE kfd[q][d]
    BY <1>7 DEF Deliver, Closing
  <2>2. f \in Conns => /\ conn[f].st = "accepted"
                       /\ \A n \in HostFds : n # k => hfd[n] # f
                       /\ \A q \in Procs, d \in Fds : kfd[q][d] # f
    BY <2>0 DEF HeldOnce, HeldAccepted
  <2> HIDE DEF f, k
  <2>3. /\ \A n \in HostFds : hfd'[n] \in Conns => conn'[hfd'[n]].st = "accepted"
        /\ \A n, m \in HostFds : hfd'[n] \in Conns /\ hfd'[n] = hfd'[m] => n = m
    BY <2>1, NoValues DEF HeldOnce, HeldAccepted
  <2>4. \A q \in Procs, d \in Fds :
           kfd'[q][d] \in Conns => conn'[kfd'[q][d]].st = "accepted"
    BY <2>1, <2>2 DEF HeldOnce, HeldAccepted
  <2>5. \A q, r \in Procs, d, b \in Fds :
           kfd'[q][d] \in Conns /\ kfd'[q][d] = kfd'[r][b] => q = r /\ d = b
    BY <2>1, <2>2 DEF HeldOnce, HeldAccepted
  <2>6. \A n \in HostFds, q \in Procs, d \in Fds :
           hfd'[n] \in Conns => kfd'[q][d] # hfd'[n]
    BY <2>1, <2>2, NoValues DEF HeldOnce, HeldAccepted
  <2> QED BY <2>3, <2>4, <2>5, <2>6 DEF HeldOnce, HeldAccepted
<1>8. ASSUME NEW s \in SockIds, Lose(s) PROVE HeldOnce'
  BY <1>8, ClosingHeld DEF Lose
<1>9. ASSUME NEW l \in Listener, Turn(l) \/ Storing(l) \/ Queueing(l)
      PROVE  HeldOnce'
  BY <1>1, <1>9 DEF Turn, Storing, Queueing
<1>10. ASSUME NEW l \in Listener, Denying(l) PROVE HeldOnce'
  BY <1>10, ClosingHeld DEF Denying
<1>11. ASSUME NEW l \in Listener, NEW c \in Conns, NEW n \in HostFds,
              Accepting(l, c, n)
       PROVE  HeldOnce'
  <2>0. kfd' = kfd /\ conn[c].st = "backlog"
    BY <1>11 DEF Accepting
  <2>1. /\ \A m \in HostFds : hfd'[m] = IF m = n THEN c ELSE hfd[m]
        /\ conn[c].st # "accepted" /\ conn'[c].st = "accepted"
        /\ \A d \in Conns : d # c => conn'[d].st = conn[d].st
        /\ kfd' = kfd
    BY <1>11, <2>0, AcceptingFacts
  <2>2. /\ \A m \in HostFds : hfd[m] # c
        /\ \A q \in Procs, d \in Fds : kfd[q][d] # c
    BY <2>1 DEF HeldOnce, HeldAccepted
  <2>3. /\ \A m \in HostFds : hfd'[m] \in Conns => conn'[hfd'[m]].st = "accepted"
        /\ \A q \in Procs, d \in Fds :
              kfd'[q][d] \in Conns => conn'[kfd'[q][d]].st = "accepted"
    BY <2>1, <2>2 DEF HeldOnce, HeldAccepted
  <2>4. /\ \A k, m \in HostFds : hfd'[k] \in Conns /\ hfd'[k] = hfd'[m] => k = m
        /\ \A m \in HostFds, q \in Procs, d \in Fds :
              hfd'[m] \in Conns => kfd'[q][d] # hfd'[m]
    BY <2>1, <2>2 DEF HeldOnce, HeldAccepted
  <2> QED BY <2>1, <2>3, <2>4 DEF HeldOnce, HeldAccepted
<1>12. ASSUME NEW l \in Listener, NEW c \in Conns, Arriving(c, l)
       PROVE  HeldOnce'
  <2>1. \A d \in Conns : conn[d].st = "accepted" => conn'[d].st = "accepted"
    BY <1>12, ArrivingFacts
  <2>2. UNCHANGED <<hfd, kfd>>
    BY <1>12 DEF Arriving
  <2> QED BY <2>1, <2>2, HeldKept
<1> QED BY <1>2, <1>3, <1>4, <1>5, <1>6, <1>7, <1>8, <1>9, <1>10, <1>11, <1>12
        DEF Moves

\* Counting the holders of a connection.
LEMMA AtMostOne ==
    ASSUME NEW S, \A x, y \in S : x = y
    PROVE  Cardinality(S) \in Nat /\ Cardinality(S) <= 1
                /\ (S = {} => Cardinality(S) = 0)
<1>1. CASE S = {}
  BY <1>1, FS_EmptySet
<1>2. CASE S # {}
  <2> PICK x : x \in S
    BY <1>2
  <2>1. S = {x}
    OBVIOUS
  <2> QED BY <1>2, <2>1, FS_Singleton
<1> QED BY <1>1, <1>2

LEMMA HeldOneHolder ==
    ASSUME HeldOnce
    PROVE  OneHolder
<1> SUFFICES ASSUME NEW c \in Conns
             PROVE  Cardinality({n \in HostFds : hfd[n] = c})
                    + Cardinality({pf \in Procs \X Fds : kfd[pf[1]][pf[2]] = c}) <= 1
  BY DEF OneHolder
<1> DEFINE D == {n \in HostFds : hfd[n] = c}
           C == {pf \in Procs \X Fds : kfd[pf[1]][pf[2]] = c}
<1>1. \A n, m \in D : n = m
  BY DEF HeldOnce
<1>2. \A x, y \in C : x = y
  BY DEF HeldOnce
<1>3. D = {} \/ C = {}
  BY DEF HeldOnce
<1> HIDE DEF C, D
<1>4. /\ Cardinality(C) \in Nat /\ Cardinality(C) <= 1
      /\ Cardinality(D) \in Nat /\ Cardinality(D) <= 1
      /\ (C = {} => Cardinality(C) = 0) /\ (D = {} => Cardinality(D) = 0)
  BY <1>1, <1>2, AtMostOne
<1>5. Cardinality(D) + Cardinality(C) <= 1
  BY <1>3, <1>4
<1> QED BY <1>5 DEF C, D

-----------------------------------------------------------------------------
(* The results. *)

LEMMA StepStatus ==
    ASSUME StatusInv, [Next]_vars
    PROVE  Moves /\ StatusInv'
<1>1. Moves /\ TypeInv'
  BY StepMoves, StepType DEF StatusInv
<1> QED BY <1>1, StepSlots, StepOwn, StepYoung DEF StatusInv

LEMMA InitHolders ==
    ASSUME Init
    PROVE  StatusInv /\ ListenerKeys /\ RecvApart /\ HeldOnce
<1>1. TypeInv /\ Slots /\ SlotsOnce
  BY InitType DEF Init, Slots, SlotsUsed, ServedSlot, SlotsOnce
<1>2. \A s \in SockIds :
         Waits(s) = <<>> /\ \A n \in HostFds : Keys(s)[n] = None
  BY DEF Init, NewStatus, Waits, Keys
<1>3. \A l \in Listener : g[l].pc = "none"
  BY DEF Init, NoGoroutine
<1>4. ListenersOwn /\ UnusedEmpty
  BY <1>2, NoValues DEF ListenersOwn, UnusedEmpty
<1>5. YoungQuiet
  BY <1>2, <1>3 DEF YoungQuiet, Listener
<1>6. ListenerKeys /\ RecvApart
  BY <1>3, NoValues DEF Init, HostInit, ListenerKeys, RecvApart
<1>7. HeldOnce
  BY NoValues DEF Init, HostInit, ContainerInit, HeldOnce, HeldAccepted
<1> QED BY <1>1, <1>4, <1>5, <1>6, <1>7 DEF StatusInv

\* Closing or exiting gives the physical addresses back, whatever fails, is
\* interrupted, killed or shared between threads: an open host socket bound for
\* a container socket means that this socket is still registered.
THEOREM AddressesReleased ==
    ASSUME NumbersApart
    PROVE  Spec => []AddressReleased
<1> DEFINE Inv == StatusInv /\ ListenerKeys /\ RecvApart
<1>1. Init => Inv
  BY InitHolders
<1>2. Inv /\ [Next]_vars => Inv'
  BY StepStatus, StepListenerKeys, StepRecvApart
<1>3. Inv => AddressReleased
  BY DEF ListenerKeys, AddressReleased
<1> QED BY <1>1, <1>2, <1>3, PTL DEF Spec

\* A connection is open in at most one descriptor, of the daemon or of a
\* process: accept gives the daemon's up exactly when the process has its own.
THEOREM ConnectionsHeldOnce ==
    ASSUME NumbersApart
    PROVE  Spec => []OneHolder
<1> DEFINE Inv == StatusInv /\ HeldOnce
<1>1. Init => Inv
  BY InitHolders
<1>2. Inv /\ [Next]_vars => Inv'
  BY StepStatus, StepHeld
<1>3. Inv => OneHolder
  BY HeldOneHolder
<1> QED BY <1>1, <1>2, <1>3, PTL DEF Spec
=============================================================================
