----------------------------- MODULE NamesProofs -----------------------------
(***************************************************************************)
(* What the status of a socket says is true of what is behind it: the names *)
(* that getpeername and getsockname report, the physical address of a bound *)
(* socket, the host socket of a Bypassed one, and, after an exit, nothing.  *)
(***************************************************************************)
EXTENDS OwnerProofs

St(s) == sock[s].state
Local(s) == sock[s].localVAddr
Remote(s) == sock[s].remoteVAddr

\* The entries through which the local address of s is served.
Served(s) == {ServerEntries[Local(s)][i] : i \in DOMAIN ServerEntries[Local(s)]}

\* The listeners in the map of s.
Bound(s) == {l \in Listener : \E n \in HostFds : Keys(s)[n] = l}

\* The listeners of s that peers can reach, or have reached.
Heard(s) ==
    {l \in Listener : /\ l[1] = s
                      /\ l \in listening \/ \E c \in Conns : conn[c].lsn = l}

\* The states of a socket whose descriptor the handler leaves to the kernel.
Passed == {"Bypassed", "NotBypassable"}

-----------------------------------------------------------------------------
(* The invariant of the names. *)

\* As long as s is not Bypassed its listeners are those of its local address.
ListenersServed ==
    \A s \in SockIds : St(s) # "Bypassed" =>
        \A l \in Bound(s) \cup Heard(s) : l[2] \in Served(s)

\* A socket that is not bound has no listeners.
UnboundBare ==
    \A s \in SockIds :
        /\ St(s) \in {"Unused", "NotBypassed"} => Heard(s) = {}
        /\ St(s) = "NotBypassed" /\ ~(At("bind") /\ cur.s = s) => Bound(s) = {}

\* The bind and connect loops work on what the status says.
LoopsNamed ==
    /\ At("bind") => \A i \in 1 .. Len(cur.todo) : cur.todo[i] \subseteq Served(cur.s)
    /\ At("connect") => Remote(cur.s) = cur.call.addr /\ St(cur.s) \notin Passed

\* The descriptors that the handler installed are those of sockets it passes,
\* under their names.
SlotsNamed ==
    \A p \in Procs, fd \in Fds :
        LET s == sockets[p][fd]
            f == kfd[p][fd]
        IN  s # None /\ f \in Conns \cup VAddrs =>
              /\ St(s) \in Passed
              /\ St(s) = "Bypassed" =>
                   /\ f \in VAddrs => Remote(s) = f
                   /\ f \in Conns => /\ Remote(s) = ConnVAddr[f]
                                     /\ conn[f].lsn[2] \in Served(s)

NamesInv == ListenersServed /\ UnboundBare /\ LoopsNamed /\ SlotsNamed

\* A socket that is or becomes bound has a listener.
BoundHeld ==
    /\ At("serve") => ~cur.ok
    /\ At("bind") /\ cur.ok => Bound(cur.s) # {}
    /\ \A s \in SockIds :
          Registered(s) /\ St(s) \in {"Binded", "Listening"} => Bound(s) # {}

\* A Bypassed socket has a descriptor that the handler installed.
BypassedInstalled ==
    \A p \in Procs, fd \in Fds :
        LET s == sockets[p][fd]
        IN  s # None /\ St(s) = "Bypassed" => kfd[p][fd] \in Conns \cup VAddrs

\* What single-threaded processes leave when they close or exit.
Leaving ==
    /\ cur # None => phase[cur.t] \in {"idle", "notified", "received"}
    /\ \A t \in Threads :
          /\ \/ phase[t] = "exited"
             \/ phase[t] = "continued" /\ call[t].name = "exit_group"
             => \A fd \in Fds : sockets[t][fd] = None
          /\ phase[t] = "continued" /\ call[t].name = "close"
             => sockets[t][call[t].fd] = None

-----------------------------------------------------------------------------
(* A process that has exited leaves nothing. *)

\* Every process has one thread.
Alone == \A t \in Threads : Tgid[t] = t

\* The call in service is answered or goes on, and only its process's sockets
\* change.
LEMMA CurAnswered ==
    ASSUME TypeInv, HandleCur
    PROVE  /\ cur # None /\ cur.t \in Threads
           /\ \/ Reply
              \/ UNCHANGED <<phase, call>> /\ (cur' # None => cur'.t = cur.t)
           /\ \A q \in Procs : q # Tgid[cur.t] => sockets'[q] = sockets[q]
<1>1. cur # None
  BY DEF HandleCur, PassThrough, Reregister, Getname, HandleBind, BindRefused,
         BindBadAddr, BindUnknown, BindStart, BindDone, BindEntry,
         BindEntryFails, BindEntryElse, HandleListen, ListenAgain,
         ListenUnexpected, Listen, HandleAccept, AcceptRefused, AcceptDeliver,
         AcceptAddFdFails, HandleConnect, ConnectBadAddr, ConnectRefused,
         ConnectStart, ConnectNextTransport, ConnectFails, ConnectEntry,
         ConnectEntryFails, ConnectRDMA, OnConnect, HandleOptions, Setsockopt,
         SetFlags, Getfl, OnOption, On, At
<1>2. cur \in Serving /\ cur.t \in Threads
  BY <1>1, ServingType
<1>3. CASE Reregister
  <2>1. sockets \in [Procs -> [Fds -> SockIds \cup {None}]]
    BY DEF TypeInv, TablesOK
  <2>2. \E x : sockets' = [sockets EXCEPT ![Tgid[cur.t]][cur.call.fd] = x]
    BY <1>3 DEF Reregister
  <2>3. \A q \in Procs : q # Tgid[cur.t] => sockets'[q] = sockets[q]
    BY <2>1, <2>2
  <2>4. \/ Reply
        \/ UNCHANGED <<phase, call>> /\ (cur' # None => cur'.t = cur.t)
    BY <1>2, <1>3 DEF Reregister, Serving
  <2> QED BY <1>1, <1>2, <2>3, <2>4
<1>4. CASE HandleBind
  <2>1. ASSUME NEW ok, NextEntry(ok) PROVE cur'.t = cur.t
    BY <1>2, <2>1 DEF NextEntry, Serving
  <2>2. ASSUME NEW e \in Entries,
               BindEntry(e) \/ BindEntryFails(e) \/ BindEntryElse(e)
        PROVE  UNCHANGED <<phase, call, sockets>> /\ cur'.t = cur.t
    BY <2>1, <2>2 DEF BindEntry, BindEntryFails, BindEntryElse, containerVars
  <2>3. ASSUME BindStart
        PROVE  UNCHANGED <<phase, call, sockets>> /\ cur'.t = cur.t
    BY <1>2, <2>3 DEF BindStart, containerVars, Serving
  <2> QED BY <1>1, <1>2, <1>4, <2>2, <2>3
          DEF HandleBind, BindRefused, BindBadAddr, BindUnknown, BindDone
<1>5. CASE HandleConnect
  <2>1. ASSUME NEW e \in Entries, ConnectEntryFails(e)
        PROVE  UNCHANGED <<phase, call, sockets>> /\ cur'.t = cur.t
    BY <1>2, <2>1 DEF ConnectEntryFails, containerVars, Serving
  <2>2. ASSUME ConnectStart \/ ConnectNextTransport
        PROVE  UNCHANGED <<phase, call, sockets>> /\ cur'.t = cur.t
    BY <1>2, <2>2
       DEF ConnectStart, ConnectNextTransport, containerVars, Serving
  <2> QED BY <1>1, <1>2, <1>5, <2>1, <2>2
          DEF HandleConnect, ConnectBadAddr, ConnectRefused, ConnectFails,
              ConnectEntry, ConnectRDMA
<1>6. CASE AcceptDeliver
  <2>1. sockets \in [Procs -> [Fds -> SockIds \cup {None}]]
    BY DEF TypeInv, TablesOK
  <2>2. \E d, x : sockets' = [sockets EXCEPT ![Tgid[cur.t]][d] = x]
    BY <1>6 DEF AcceptDeliver
  <2>3. \A q \in Procs : q # Tgid[cur.t] => sockets'[q] = sockets[q]
    BY <2>1, <2>2
  <2> QED BY <1>1, <1>2, <1>6, <2>3 DEF AcceptDeliver
<1> QED BY <1>1, <1>2, <1>3, <1>4, <1>5, <1>6
        DEF HandleCur, PassThrough, Getname, HandleListen, ListenAgain,
            ListenUnexpected, Listen, HandleAccept, AcceptRefused,
            AcceptAddFdFails, HandleOptions, Setsockopt, SetFlags, Getfl

\* The steps of a thread and its kernel, by what they do to one thread's call.
LEMMA ThreadSteps ==
    ASSUME TypeInv, Alone, ~Kills, NEW t \in Threads, KernelReturn(t) \/ User(t)
    PROVE  /\ UNCHANGED <<hostVars, seccompVars>>
           /\ \A u \in Threads : u # t => /\ phase'[u] = phase[u]
                                          /\ call'[u] = call[u]
                                          /\ kfd'[u] = kfd[u]
           /\ \/ /\ phase[t] \notin {"continued", "exited"}
                 /\ phase'[t] \in {"idle", "notified"}
                 /\ \A fd \in Fds : kfd[t][fd] # Closed /\ ~SilentCloses
                       => kfd'[t][fd] = kfd[t][fd]
              \/ /\ phase[t] = "continued" /\ call[t].name = "close"
                 /\ phase'[t] = "idle"
                 /\ \A fd \in Fds : fd # call[t].fd => kfd'[t][fd] = kfd[t][fd]
              \/ /\ phase[t] = "continued" /\ call[t].name = "exit_group"
                 /\ phase'[t] = "exited"
<1> USE DEF Alone
<1>0. /\ phase \in [Threads -> Phases] /\ call \in [Threads -> Calls \cup {None}]
      /\ kfd \in [Procs -> [Fds -> ContainerFile]]
      /\ t \in Procs /\ \A u \in Threads : u \in Procs
  BY ProcType DEF TypeInv, ThreadOK, TablesOK
<1>1. UNCHANGED <<hostVars, seccompVars>>
  BY DEF KernelReturn, User
<1>2. CASE KernelReturn(t)
  <2>1. CASE KernelClose(t)
    <3>1. /\ phase' = [phase EXCEPT ![t] = "idle"]
          /\ call' = [call EXCEPT ![t] = None]
          /\ kfd' = [kfd EXCEPT ![t][call[t].fd] = Closed]
          /\ phase[t] = "continued" /\ call[t].name = "close"
      BY <2>1 DEF KernelClose
    <3> QED BY <1>0, <1>1, <3>1
  <2>2. CASE KernelExit(t)
    <3>1. /\ phase' = [u \in Threads |-> IF u = t THEN "exited" ELSE phase[u]]
          /\ call' = [u \in Threads |-> IF u = t THEN None ELSE call[u]]
          /\ kfd' = [kfd EXCEPT ![t] = [fd \in Fds |-> Closed]]
          /\ phase[t] = "continued" /\ call[t].name = "exit_group"
      <4>1. EndProcess(t) /\ phase[t] = "continued" /\ call[t].name = "exit_group"
        BY <2>2 DEF KernelExit
      <4>2. phase' = [u \in Threads |-> IF u = t THEN "exited" ELSE phase[u]]
        BY <4>1 DEF EndProcess
      <4>3. call' = [u \in Threads |-> IF u = t THEN None ELSE call[u]]
        BY <4>1 DEF EndProcess
      <4> QED BY <4>1, <4>2, <4>3 DEF EndProcess
    <3> QED BY <1>0, <1>1, <3>1
  <2> QED BY <1>2, <2>1, <2>2 DEF KernelReturn
<1>3. CASE User(t)
  <2>1. ASSUME NEW c \in Calls, MakeCall(t, c)
        PROVE  /\ phase[t] = "idle" /\ phase' = [phase EXCEPT ![t] = "notified"]
               /\ call' = [call EXCEPT ![t] = c] /\ kfd' = kfd
    BY <2>1 DEF MakeCall
  <2>2. CASE Interrupt(t)
    BY <1>0, <1>1, <2>2 DEF Interrupt
  <2>3. CASE Open(t)
    <3>1. PICK fd \in Fds, kind \in Kinds :
            /\ kfd[t][fd] = Closed
            /\ kfd' = [kfd EXCEPT ![t][fd] = kind]
      BY <2>3 DEF Open, NextContainerFd
    <3>2. phase[t] = "idle" /\ UNCHANGED <<phase, call>>
      BY <2>3 DEF Open
    <3> QED BY <1>0, <1>1, <3>1, <3>2
  <2>4. CASE SilentClose(t)
    <3>1. PICK fd \in Fds : kfd' = [kfd EXCEPT ![t][fd] = Closed]
      BY <2>4 DEF SilentClose
    <3>2. phase[t] = "idle" /\ UNCHANGED <<phase, call>> /\ SilentCloses
      BY <2>4 DEF SilentClose
    <3> QED BY <1>0, <1>1, <3>1, <3>2
  <2>5. ~Kill(t)
    BY DEF Kill
  <2> QED BY <1>0, <1>1, <1>3, <2>1, <2>2, <2>3, <2>4, <2>5 DEF User
<1> QED BY <1>2, <1>3

\* What the reception of a notification does to the calls.
LEMMA ReceiveCalls ==
    ASSUME TypeInv, Alone, NEW t \in Threads, Receive(t)
    PROVE  /\ cur = None /\ phase[t] = "notified"
           /\ \A u \in Threads : u # t => /\ phase'[u] = phase[u]
                                          /\ call'[u] = call[u]
                                          /\ sockets'[u] = sockets[u]
           /\ cur' # None => cur'.t = t /\ phase'[t] = "received"
           /\ phase'[t] = "continued" =>
                 /\ call'[t] = call[t]
                 /\ call[t].name = "exit_group"
                       => \A fd \in Fds : sockets'[t][fd] = None
                 /\ call[t].name = "close" => sockets'[t][call[t].fd] = None
           /\ phase'[t] # "exited"
<1> USE DEF Alone
<1>0. /\ phase \in [Threads -> Phases] /\ call \in [Threads -> Calls \cup {None}]
      /\ sockets \in [Procs -> [Fds -> SockIds \cup {None}]]
      /\ t \in Procs /\ \A u \in Threads : u \in Procs
      /\ phase[t] = "notified" => call[t].fd \in Fds
  BY ProcType, CallType DEF TypeInv, ThreadOK, TablesOK
<1>1. cur = None /\ phase[t] = "notified"
  BY DEF Receive, HandleExit, HandleThreadExit, HandleClose, Lookup, Register,
         RegisterFails, Notified
<1>2. ASSUME Continue(t)
      PROVE  /\ \A u \in Threads : u # t => phase'[u] = phase[u] /\ call'[u] = call[u]
             /\ phase'[t] = "continued" => call'[t] = call[t]
             /\ phase'[t] # "exited"
  BY <1>0, <1>2 DEF Continue, AfterClose
<1>3. CASE HandleExit(t)
  <2>1. sockets' = [sockets EXCEPT ![t] = [fd \in Fds |-> None]]
        /\ Continue(t) /\ cur' = None /\ call[t].name = "exit_group"
    BY <1>1, <1>3 DEF HandleExit, Notified
  <2> QED BY <1>0, <1>1, <1>2, <2>1
<1>4. ~HandleThreadExit(t)
  BY DEF HandleThreadExit
<1>5. CASE HandleClose(t)
  <2>1. sockets' = [sockets EXCEPT ![t][call[t].fd] = None]
        /\ Continue(t) /\ cur' = None /\ call[t].name = "close"
    BY <1>1, <1>5 DEF HandleClose, Notified
  <2> QED BY <1>0, <1>1, <1>2, <2>1
<1>6. CASE Lookup(t)
  <2>1. /\ phase' = [phase EXCEPT ![t] = "received"]
        /\ UNCHANGED <<call, sockets>> /\ cur'.t = t
    BY <1>6 DEF Lookup, Serve
  <2> QED BY <1>0, <1>1, <2>1
<1>7. CASE Register(t)
  <2>1. PICK s : sockets' = [sockets EXCEPT ![t][call[t].fd] = s] /\ Serve(t, s)
    BY <1>7 DEF Register
  <2>2. phase' = [phase EXCEPT ![t] = "received"] /\ call' = call /\ cur'.t = t
    BY <2>1 DEF Serve
  <2> QED BY <1>0, <1>1, <2>1, <2>2
<1>8. CASE RegisterFails(t)
  BY <1>0, <1>1, <1>8 DEF RegisterFails, seccompVars
<1> QED BY <1>3, <1>4, <1>5, <1>6, <1>7, <1>8 DEF Receive

LEMMA StepLeaving ==
    ASSUME TypeInv, Alone, ~Kills, Leaving, [Next]_vars
    PROVE  Leaving'
<1>0. /\ phase \in [Threads -> Phases] /\ call \in [Threads -> Calls \cup {None}]
      /\ \A u \in Threads : u \in Procs
  BY ProcType DEF TypeInv, ThreadOK, Alone
<1>1. ASSUME NEW t \in Threads, Receive(t) PROVE Leaving'
  BY <1>1, ReceiveCalls DEF Leaving
<1>2. ASSUME NEW t \in Threads, KernelReturn(t) \/ User(t) PROVE Leaving'
  <2>1. UNCHANGED <<cur, sockets>>
    BY <1>2, ThreadSteps DEF seccompVars
  <2>2. cur # None => cur.t \in Threads
    BY ServingType
  <2> QED BY <1>2, <2>1, <2>2, ThreadSteps DEF Leaving
<1>3. CASE HandleCur
  <2>1. /\ cur # None /\ cur.t \in Threads
        /\ \A q \in Threads : q # cur.t => sockets'[q] = sockets[q]
    BY <1>0, <1>3, CurAnswered DEF Alone
  <2>2. phase[cur.t] \in {"idle", "notified", "received"}
    BY <2>1 DEF Leaving
  <2>3. CASE Reply
    <3>1. /\ cur' = None
          /\ \A q \in Threads : q # cur.t => phase'[q] = phase[q] /\ call'[q] = call[q]
          /\ phase'[cur.t] \in {"idle", "notified", "received"}
      BY <1>0, <2>1, <2>2, <2>3 DEF Reply, Answer
    <3> QED BY <2>1, <3>1 DEF Leaving
  <2>4. CASE UNCHANGED <<phase, call>> /\ (cur' # None => cur'.t = cur.t)
    BY <2>1, <2>2, <2>4 DEF Leaving
  <2> QED BY <1>3, <2>3, <2>4, CurAnswered
<1>4. ASSUME UNCHANGED <<containerVars, cur, sockets>> PROVE Leaving'
  BY <1>4 DEF Leaving, containerVars
<1>5. ASSUME NEW l \in Listener, TransportAccept(l) PROVE Leaving'
  BY <1>4, <1>5
     DEF TransportAccept, GCheck, GEnter, GAccept, GAcceptFails, GRecvFails,
         GEnd, GDeny, GStore, GSend
<1>6. CASE Peers \/ UNCHANGED vars
  BY <1>4, <1>6 DEF Peers, seccompVars, vars
<1> QED BY <1>1, <1>2, <1>3, <1>5, <1>6 DEF Next

LEMMA InitLeaving == ASSUME Init PROVE Leaving
  BY DEF Init, ContainerInit, Leaving

\* When every thread of a process has exited none of its descriptors has a
\* status: exit_group removed all of them and none was registered since.  It
\* takes single-threaded processes that are not killed (README.md, findings).
THEOREM ExitLeavesNothing ==
    ASSUME Alone, ~Kills
    PROVE  Spec => []ExitCleansUp
<1> DEFINE Inv == TypeInv /\ Leaving
<1>1. Init => Inv
  BY InitType, InitLeaving
<1>2. Inv /\ [Next]_vars => Inv'
  BY StepType, StepLeaving
<1>3. Inv => ExitCleansUp
  <2> SUFFICES ASSUME Leaving, NEW p \in Procs, NEW fd \in Fds,
                      \A t \in Threads : Tgid[t] = p => phase[t] = "exited"
               PROVE  sockets[p][fd] = None
    BY DEF ExitCleansUp
  <2>1. p \in Threads /\ Tgid[p] = p
    BY ContainerAssumption DEF Procs
  <2> QED BY <2>1 DEF Leaving
<1> QED BY <1>1, <1>2, <1>3, PTL DEF Spec

-----------------------------------------------------------------------------
(* What the steps change of what a status says. *)

Same(s) == UNCHANGED <<St(s), Local(s), Remote(s)>>

\* The connections that were accepted came where they came.
ComersKept ==
    \A c \in Conns : conn[c].st = "accepted" => conn'[c].lsn = conn[c].lsn

\* A call that is in no loop has made nothing yet.
NothingMade == At("serve")' /\ cur'.ok => At("serve") /\ cur.ok

\* The loops go on, or none begins.
Onward ==
    /\ NothingMade
    /\ At("bind")' <=> At("bind")
    /\ At("bind") =>
          /\ cur'.s = cur.s
          /\ cur'.ok => cur.ok \/ FeatureRDMA
          /\ \A i \in 1 .. Len(cur'.todo) :
                \E j \in 1 .. Len(cur.todo) : cur'.todo[i] \subseteq cur.todo[j]
    /\ At("connect")' =>
          /\ At("connect")
          /\ cur'.s = cur.s /\ cur'.call = cur.call

\* A step of another kind than those below.
Quiet ==
    /\ \A s \in SockIds :
          /\ Same(s)
          /\ Heard(s)' \subseteq Heard(s)
          /\ Bound(s)' \subseteq Bound(s)
          /\ Registered(s) => Bound(s)' = Bound(s)
    /\ ComersKept
    /\ Onward
    /\ \A p \in Procs, fd \in Fds :
          /\ sockets'[p][fd] \in {sockets[p][fd], None}
          /\ kfd'[p][fd] \in {kfd[p][fd], Closed, Inet, Other}
    /\ UNCHANGED kfd \/ \E t \in Threads : KernelReturn(t) \/ User(t)

\* The descriptor fd of p gets the new status x.
Renewed(p, fd, x) ==
    /\ St(x) = "Unused" /\ St(x)' \in {"NotBypassed", "NotBypassable"}
    /\ St(x)' = "NotBypassed" => kfd[p][fd] = Inet
    /\ Bound(x)' = {}
    /\ \A s \in SockIds : s # x => Same(s) /\ Bound(s)' = Bound(s)
    /\ \A s \in SockIds : Heard(s)' \subseteq Heard(s)
    /\ ComersKept
    /\ UNCHANGED kfd
    /\ \A q \in Procs, d \in Fds :
          sockets'[q][d] = IF q = p /\ d = fd THEN x ELSE sockets[q][d]
    /\ NothingMade
    /\ ~At("bind") /\ ~At("bind")' /\ ~At("connect")'

\* Only the status o in service changes, and what the loops do.
Alters(o) ==
    /\ cur # None /\ o = cur.s
    /\ \A s \in SockIds : s # o => Same(s)
    /\ UNCHANGED <<conn, sockets>>

\* bind records the address.
Addressed(o) ==
    /\ Alters(o)
    /\ At("serve") /\ St(o) = "NotBypassed"
    /\ UNCHANGED <<St(o), Remote(o), listening, kfd>>
    /\ \A s \in SockIds : Bound(s)' = Bound(s)
    /\ ~At("serve")' /\ ~At("connect")'
    /\ At("bind")' =>
          /\ cur'.s = o /\ (cur'.ok => cur.ok)
          /\ \A i \in 1 .. Len(cur'.todo) : cur'.todo[i] \subseteq Served(o)'

\* It makes a host socket for the entry e.
Binding(o, e) ==
    /\ Alters(o) /\ Same(o)
    /\ At("bind") /\ At("bind")' /\ cur'.s = o
    /\ \E i \in 1 .. Len(cur.todo) : e \in cur.todo[i]
    /\ \A i \in 1 .. Len(cur'.todo) :
          \E j \in 1 .. Len(cur.todo) : cur'.todo[i] \subseteq cur.todo[j]
    /\ \A s \in SockIds :
          Bound(s)' = IF s = o THEN Bound(s) \cup {<<s, e>>} ELSE Bound(s)
    /\ UNCHANGED <<listening, kfd>>

\* The call in service ends in the state `to`.
Settled(o, to) ==
    /\ Alters(o)
    /\ cur' = None
    /\ St(o) \notin Passed \cup {"Unused"}
    /\ to \in {"NotBypassable", "Error", "Binded", "Listening"}
    /\ St(o)' = to
    /\ to = "Binded" => At("bind") /\ cur.ok
    /\ to = "Listening" =>
          /\ St(o) = "Binded"
          /\ FeatureRDMA \/ \E l \in Listener : l[1] = o /\ g'[l].pc = "check"
    /\ UNCHANGED <<Local(o), kfd>>
    /\ \A s \in SockIds : Bound(s)' = Bound(s)
    /\ listening' \subseteq listening \cup Bound(o)

\* connect records the address and starts its loop.
Dialling(o) ==
    /\ Alters(o)
    /\ At("serve") /\ ~At("serve")' /\ ~At("bind")'
    /\ At("connect")' => cur'.s = o /\ cur'.call = cur.call
    /\ St(o) \notin Passed
    /\ Remote(o)' = cur.call.addr
    /\ UNCHANGED <<St(o), Local(o), listening, kfd>>
    /\ \A s \in SockIds : Bound(s)' = Bound(s)

\* It ends: the descriptor is replaced, or the process connects itself.
Connected(o) ==
    /\ Alters(o)
    /\ At("connect") /\ cur' = None
    /\ St(o)' = "Bypassed"
    /\ UNCHANGED <<Local(o), Remote(o), listening>>
    /\ \A s \in SockIds : Bound(s)' = Bound(s)
    /\ \/ UNCHANGED kfd /\ FeatureRDMA
       \/ \A p \in Procs, fd \in Fds :
             kfd'[p][fd] = IF p = Tgid[cur.t] /\ fd = cur.call.fd
                           THEN cur.call.addr ELSE kfd[p][fd]

Says ==
    \/ Quiet
    \/ \E p \in Procs, fd \in Fds, x \in SockIds : Renewed(p, fd, x)
    \/ \E o \in SockIds :
          \/ Addressed(o) \/ Dialling(o) \/ Connected(o)
          \/ \E e \in Entries : Binding(o, e)
          \/ \E to \in SocketStates : Settled(o, to)
    \/ \E s \in SockIds, p \in Procs, newfd \in Fds, a \in SockIds :
          Deliver(s, p, newfd, a)

-----------------------------------------------------------------------------
(* Every step is one of these. *)

LEMMA BoundKept ==
    ASSUME NEW s \in SockIds, Keys(s)' = Keys(s)
    PROVE  Bound(s)' = Bound(s)
  BY DEF Bound

LEMMA HeardKept ==
    ASSUME NEW s \in SockIds, listening' \subseteq listening,
           \A c \in Conns : conn'[c].lsn = conn[c].lsn
    PROVE  Heard(s)' \subseteq Heard(s)
  BY DEF Heard

\* Closing numbers is heard of nowhere.
LEMMA ClosingHeard ==
    ASSUME TypeInv, NEW N, CloseFds(N)
    PROVE  ComersKept /\ \A s \in SockIds : Heard(s)' \subseteq Heard(s)
<1>1. \A c \in Conns : conn'[c].lsn = conn[c].lsn
  BY ClosingFacts DEF Closing
<1>2. listening' \subseteq listening
  BY DEF CloseFds
<1> QED BY <1>1, <1>2, HeardKept DEF ComersKept

\* The status in service is replaced by one with the same map.
LEMMA ServedUpdate ==
    ASSUME TypeInv, NEW o \in SockIds, NEW r, sock' = [sock EXCEPT ![o] = r],
           r.hostSockets = Keys(o)
    PROVE  /\ \A s \in SockIds : s # o => Same(s)
           /\ \A s \in SockIds : Bound(s)' = Bound(s)
           /\ St(o)' = r.state
           /\ Local(o)' = r.localVAddr
           /\ Remote(o)' = r.remoteVAddr
<1>1. sock \in [SockIds -> SocketStatus]
  BY DEF TypeInv, TablesOK
<1>2. /\ \A s \in SockIds : s # o => sock'[s] = sock[s]
      /\ sock'[o] = r
  BY <1>1
<1>3. \A s \in SockIds : Keys(s)' = Keys(s)
  BY <1>2 DEF Keys
<1> QED BY <1>2, <1>3, BoundKept DEF Same, St, Local, Remote

\* Its state is set.
LEMMA StateUpdate ==
    ASSUME TypeInv, NEW o \in SockIds, NEW st, SetState(o, st)
    PROVE  /\ \A s \in SockIds : s # o => Same(s)
           /\ \A s \in SockIds : Bound(s)' = Bound(s)
           /\ St(o)' = st
           /\ UNCHANGED <<Local(o), Remote(o)>>
<1> DEFINE r == [sock[o] EXCEPT !.state = st]
<1>2. sock[o] \in SocketStatus
  BY StatusType
<1>3. /\ r.hostSockets = Keys(o) /\ r.state = st
      /\ r.localVAddr = Local(o) /\ r.remoteVAddr = Remote(o)
  BY <1>2 DEF SocketStatus, Keys, Local, Remote
<1>4. sock' = [sock EXCEPT ![o] = r]
  BY DEF SetState
<1> HIDE DEF r
<1> QED BY <1>3, <1>4, ServedUpdate

\* What keeps the statuses, the host's listeners and the tables is quiet.
LEMMA SameQuiet ==
    ASSUME UNCHANGED <<sock, sockets, kfd, listening, conn>>, Onward
    PROVE  Quiet
<1>1. \A s \in SockIds : Keys(s)' = Keys(s) /\ Same(s)
  BY DEF Keys, Same, St, Local, Remote
<1> QED BY <1>1, BoundKept, HeardKept DEF Quiet, ComersKept

\* So does an answer.
LEMMA Answered ==
    ASSUME ~At("bind"), cur' = None \/ (cur' = cur)
    PROVE  Onward
  BY DEF Onward, NothingMade, At

\* The receptions.
LEMMA ReceiveSays ==
    ASSUME TypeInv, NEW t \in Threads, Receive(t)
    PROVE  Says
<1>0. /\ Tgid[t] \in Procs
      /\ phase[t] = "notified" => call[t].fd \in Fds
      /\ sockets \in [Procs -> [Fds -> SockIds \cup {None}]]
      /\ sock \in [SockIds -> SocketStatus]
  BY ProcType, CallType DEF TypeInv, ThreadOK, TablesOK
<1>1. cur = None
  BY DEF Receive, HandleExit, HandleThreadExit, HandleClose, Lookup, Register,
         RegisterFails, Notified
<1>2. cur' = None \/ (cur'.pc = "serve" /\ cur'.ok = FALSE) => Onward
  BY <1>1 DEF Onward, NothingMade, At
<1>3. ASSUME UNCHANGED <<sock, kfd>>, cur' = None,
             \A s \in SockIds : Heard(s)' \subseteq Heard(s), ComersKept,
             \A p \in Procs, fd \in Fds :
                sockets'[p][fd] \in {sockets[p][fd], None}
      PROVE  Quiet
  <2>1. \A s \in SockIds : Keys(s)' = Keys(s) /\ Same(s)
    BY <1>3 DEF Keys, Same, St, Local, Remote
  <2> QED BY <1>2, <1>3, <2>1, BoundKept DEF Quiet
<1>4. CASE HandleExit(t)
  <2>1. \A p \in Procs, fd \in Fds : sockets'[p][fd] \in {sockets[p][fd], None}
    BY <1>0, <1>4 DEF HandleExit
  <2>2. ComersKept /\ \A s \in SockIds : Heard(s)' \subseteq Heard(s)
    BY <1>4, ClosingHeard DEF HandleExit, Remove
  <2> QED BY <1>1, <1>3, <1>4, <2>1, <2>2 DEF HandleExit, Says
<1>5. CASE HandleClose(t)
  <2> DEFINE p == Tgid[t]
             fd == call[t].fd
  <2>1. sockets' = [sockets EXCEPT ![p][fd] = None]
    BY <1>5 DEF HandleClose
  <2> HIDE DEF p, fd
  <2>2. \A q \in Procs, d \in Fds : sockets'[q][d] \in {sockets[q][d], None}
    BY <1>0, <2>1
  <2>3. ComersKept /\ \A s \in SockIds : Heard(s)' \subseteq Heard(s)
    BY <1>5, ClosingHeard DEF HandleClose, Remove
  <2> QED BY <1>1, <1>3, <1>5, <2>2, <2>3 DEF HandleClose, Says
<1>6. CASE Register(t)
  <2> DEFINE p == Tgid[t]
             fd == call[t].fd
  <2>0. PICK x \in SockIds :
          /\ Fresh(x)
          /\ sockets' = [sockets EXCEPT ![p][fd] = x]
          /\ sock' = [sock EXCEPT ![x] = NewStatus(InitialState(kfd[p][fd]))]
          /\ Serve(t, x)
    BY <1>6 DEF Register
  <2>a. p \in Procs /\ fd \in Fds
    BY <1>0, <1>6 DEF Register, Notified
  <2>b. UNCHANGED <<conn, listening>>
    BY <1>6 DEF Register, hostVars
  <2> DEFINE st == InitialState(kfd[p][fd])
  <2>1. /\ st \in {"NotBypassed", "NotBypassable"}
        /\ st = "NotBypassed" => kfd[p][fd] = Inet
    BY DEF InitialState
  <2>2. /\ cur'.pc = "serve" /\ cur'.ok = FALSE
        /\ UNCHANGED kfd /\ St(x) = "Unused"
    BY <2>0 DEF Serve, Fresh, St
  <2> HIDE DEF p, fd
  <2>3. \A q \in Procs, d \in Fds :
           sockets'[q][d] = IF q = p /\ d = fd THEN x ELSE sockets[q][d]
    BY <1>0, <2>0
  <2> HIDE DEF st
  <2>4. /\ \A s \in SockIds : s # x => sock'[s] = sock[s]
        /\ sock'[x] = NewStatus(st)
    BY <1>0, <2>0 DEF st
  <2>5. /\ St(x)' = st /\ Bound(x)' = {}
        /\ \A s \in SockIds : s # x => Same(s) /\ Bound(s)' = Bound(s)
    BY <2>4, NoValues DEF NewStatus, St, Local, Remote, Same, Bound, Keys
  <2>6. ComersKept /\ \A s \in SockIds : Heard(s)' \subseteq Heard(s)
    BY <2>b, HeardKept DEF ComersKept
  <2>7. Renewed(p, fd, x)
    BY <1>1, <2>1, <2>2, <2>3, <2>5, <2>6 DEF Renewed, NothingMade, At
  <2> QED BY <2>a, <2>7 DEF Says
<1>7. CASE HandleThreadExit(t) \/ RegisterFails(t) \/ Lookup(t)
  <2>1. UNCHANGED <<sock, sockets, kfd, listening, conn>>
    BY <1>7 DEF HandleThreadExit, RegisterFails, Lookup, Serve, hostVars, seccompVars
  <2>2. cur' = None \/ (cur'.pc = "serve" /\ cur'.ok = FALSE)
    BY <1>1, <1>7 DEF HandleThreadExit, RegisterFails, Lookup, Serve, seccompVars
  <2> QED BY <1>2, <2>1, <2>2, SameQuiet DEF Says
<1> QED BY <1>4, <1>5, <1>6, <1>7 DEF Receive

LEMMA ReregisterSays ==
    ASSUME TypeInv, Reregister
    PROVE  Says
<1> DEFINE p == Tgid[cur.t]
           fd == cur.call.fd
<1>0. /\ p \in Procs /\ fd \in Fds /\ cur # None /\ cur \in Serving
      /\ cur.pc = "serve"
      /\ sockets \in [Procs -> [Fds -> SockIds \cup {None}]]
      /\ sock \in [SockIds -> SocketStatus]
  BY CurType DEF Reregister, At, TypeInv, TablesOK
<1>1. ComersKept /\ \A s \in SockIds : Heard(s)' \subseteq Heard(s)
  BY ClosingHeard DEF Reregister, Remove
<1>2. CASE kfd[p][fd] = Closed
  <2>1. /\ sockets' = [sockets EXCEPT ![p][fd] = None]
        /\ cur' = None /\ UNCHANGED <<sock, kfd>>
    BY <1>2 DEF Reregister, Reply
  <2>2. \A q \in Procs, d \in Fds : sockets'[q][d] \in {sockets[q][d], None}
    <3> HIDE DEF p, fd
    <3> QED BY <1>0, <2>1
  <2>3. \A s \in SockIds : Keys(s)' = Keys(s) /\ Same(s)
    BY <2>1 DEF Keys, Same, St, Local, Remote
  <2>4. Onward
    BY <1>0, <2>1, Answered DEF At
  <2> QED BY <1>1, <2>1, <2>2, <2>3, <2>4, BoundKept DEF Quiet, Says
<1>3. CASE kfd[p][fd] # Closed
  <2> DEFINE st == InitialState(kfd[p][fd])
  <2>0. PICK x \in SockIds :
          /\ Fresh(x)
          /\ sockets' = [sockets EXCEPT ![p][fd] = x]
          /\ sock' = [sock EXCEPT ![x] = NewStatus(st)]
          /\ cur' = [cur EXCEPT !.s = x] \/ cur' = None
    BY <1>3 DEF Reregister, Reply
  <2>1. /\ st \in {"NotBypassed", "NotBypassable"}
        /\ st = "NotBypassed" => kfd[p][fd] = Inet
    BY DEF InitialState
  <2>2. /\ cur' = None \/ (cur'.pc = "serve" /\ cur'.ok = cur.ok)
        /\ UNCHANGED kfd /\ St(x) = "Unused"
    BY <1>0, <2>0 DEF Reregister, Fresh, St, Serving
  <2>3. \A q \in Procs, d \in Fds :
           sockets'[q][d] = IF q = p /\ d = fd THEN x ELSE sockets[q][d]
    <3> HIDE DEF p, fd
    <3> QED BY <1>0, <2>0
  <2> HIDE DEF st
  <2>4. /\ \A s \in SockIds : s # x => sock'[s] = sock[s]
        /\ sock'[x] = NewStatus(st)
    BY <1>0, <2>0
  <2>5. /\ St(x)' = st /\ Bound(x)' = {}
        /\ \A s \in SockIds : s # x => Same(s) /\ Bound(s)' = Bound(s)
    BY <2>4, NoValues DEF NewStatus, St, Local, Remote, Same, Bound, Keys
  <2>6. Renewed(p, fd, x)
    BY <1>0, <1>1, <2>1, <2>2, <2>3, <2>5 DEF Renewed, NothingMade, At
  <2> QED BY <1>0, <2>6 DEF Says
<1> QED BY <1>2, <1>3

\* The steps of the accepting goroutines.
LEMMA GoroutineSays ==
    ASSUME OwnerInv, NEW l \in Listener, TransportAccept(l)
    PROVE  Says
<1>0. TypeInv /\ sock \in [SockIds -> SocketStatus]
  BY DEF OwnerInv, StatusInv, TypeInv, TablesOK
<1>1. UNCHANGED <<cur, sockets, kfd>>
  BY DEF TransportAccept, GCheck, GEnter, GAccept, GAcceptFails, GRecvFails,
         GEnd, GDeny, GStore, GSend, containerVars
<1>2. Onward
  <2>1. CASE ~At("bind")
    BY <1>1, <2>1, Answered
  <2>2. CASE At("bind")
    BY <1>1, <2>2 DEF Onward, NothingMade, At
  <2> QED BY <2>1, <2>2
<1>3. ASSUME \A s \in SockIds : Heard(s)' \subseteq Heard(s), ComersKept,
             \A s \in SockIds :
                /\ Same(s) /\ Bound(s)' \subseteq Bound(s)
                /\ Registered(s) => Bound(s)' = Bound(s)
      PROVE  Says
  BY <1>1, <1>2, <1>3 DEF Quiet, Says
<1>4. ASSUME UNCHANGED sock
      PROVE  \A s \in SockIds : Keys(s)' = Keys(s) /\ Same(s) /\ Bound(s)' = Bound(s)
  <2>1. \A s \in SockIds : Keys(s)' = Keys(s) /\ Same(s)
    BY <1>4 DEF Keys, Same, St, Local, Remote
  <2> QED BY <2>1, BoundKept
<1>5. CASE GDeny(l)
  BY <1>0, <1>3, <1>4, <1>5, ClosingHeard DEF GDeny
<1>6. ASSUME UNCHANGED <<sock, listening>>,
             \A c \in Conns : conn'[c].lsn = conn[c].lsn
      PROVE  Says
  BY <1>3, <1>4, <1>6, HeardKept DEF ComersKept
<1>7. CASE GAccept(l)
  <2>1. \A c \in Conns : conn'[c].lsn = conn[c].lsn
    BY <1>0, <1>7 DEF GAccept, TypeInv, HostTypeOK, Connection
  <2> QED BY <1>6, <1>7, <2>1 DEF GAccept
<1>8. CASE GCheck(l) \/ GEnter(l) \/ GAcceptFails(l) \/ GRecvFails(l)
  BY <1>6, <1>8 DEF GCheck, GEnter, GAcceptFails, GRecvFails, GEnd, hostVars
<1>9. ASSUME NEW r, sock' = [sock EXCEPT ![l[1]] = r],
             r.state = St(l[1]), r.localVAddr = Local(l[1]),
             r.remoteVAddr = Remote(l[1])
      PROVE  \A s \in SockIds : Same(s) /\ (s # l[1] => Keys(s)' = Keys(s))
                                /\ Keys(l[1])' = r.hostSockets
  BY <1>0, <1>9, GoroutineType DEF Same, St, Local, Remote, Keys
<1>10. l[1] \in SockIds /\ sock[l[1]] \in SocketStatus
  BY <1>0, GoroutineType, StatusType
<1>11. CASE GStore(l)
  <2> DEFINE r == [sock[l[1]] EXCEPT !.hostSockets = WithAccepted(l)]
  <2>1. /\ r.state = St(l[1]) /\ r.localVAddr = Local(l[1])
        /\ r.remoteVAddr = Remote(l[1])
        /\ r.hostSockets = [Keys(l[1]) EXCEPT ![g[l].fd] = g[l].conn]
    BY <1>10 DEF SocketStatus, St, Local, Remote, Keys, WithAccepted
  <2>2. sock' = [sock EXCEPT ![l[1]] = r]
    BY <1>11 DEF GStore
  <2> HIDE DEF r
  <2>3. \A s \in SockIds : Same(s) /\ (s # l[1] => Keys(s)' = Keys(s))
    BY <1>9, <2>1, <2>2
  <2>4. Keys(l[1])' = [Keys(l[1]) EXCEPT ![g[l].fd] = g[l].conn]
    BY <1>9, <1>10, <2>1, <2>2
  <2>5. /\ g[l].pc = "recv" /\ g[l].conn \in Conns /\ g[l].fd \in HostFds
        /\ Keys(l[1]) \in [HostFds -> Listener \cup Conns \cup {None}]
    BY <1>0, <1>10, <1>11, GoroutineType, StatusType DEF GStore, Received, AtG
  <2>6. Registered(l[1]) => Keys(l[1])[g[l].fd] = None
    BY <1>10, <2>5 DEF OwnerInv, Owner, Receiving
  <2>7. /\ Bound(l[1])' \subseteq Bound(l[1])
        /\ Registered(l[1]) => Bound(l[1])' = Bound(l[1])
    <3>1. \A n \in HostFds : Keys(l[1])'[n] =
             IF n = g[l].fd THEN g[l].conn ELSE Keys(l[1])[n]
      BY <2>4, <2>5
    <3> QED BY <2>5, <2>6, <3>1, NoValues DEF Bound
  <2>8. \A s \in SockIds : /\ Same(s) /\ Bound(s)' \subseteq Bound(s)
                           /\ Registered(s) => Bound(s)' = Bound(s)
    BY <2>3, <2>7, BoundKept
  <2>9. ComersKept /\ \A s \in SockIds : Heard(s)' \subseteq Heard(s)
    BY <1>11, HeardKept DEF GStore, hostVars, ComersKept
  <2> QED BY <1>3, <2>8, <2>9
<1>12. CASE GSend(l)
  <2> DEFINE as == [conn |-> g[l].conn, fd |-> g[l].fd]
             r == [sock[l[1]] EXCEPT !.acceptedSockets = Append(Waits(l[1]), as)]
  <2>1. /\ r.state = St(l[1]) /\ r.localVAddr = Local(l[1])
        /\ r.remoteVAddr = Remote(l[1])
        /\ r.hostSockets = Keys(l[1])
    BY <1>10 DEF SocketStatus, St, Local, Remote, Keys
  <2>2. sock' = [sock EXCEPT ![l[1]] = r]
    BY <1>12 DEF GSend, Waits
  <2> HIDE DEF r
  <2>3. \A s \in SockIds : Same(s) /\ Keys(s)' = Keys(s)
    BY <1>9, <1>10, <2>1, <2>2
  <2>4. ComersKept /\ \A s \in SockIds : Heard(s)' \subseteq Heard(s)
    BY <1>12, HeardKept DEF GSend, hostVars, ComersKept
  <2> QED BY <1>3, <2>3, <2>4, BoundKept
<1> QED BY <1>5, <1>7, <1>8, <1>11, <1>12 DEF TransportAccept

\* The tails of the todo list of the loops.
LEMMA TodoTail ==
    ASSUME NEW q \in Seq(SUBSET Entries), q # <<>>
    PROVE  \A i \in 1 .. Len(Tail(q)) :
              \E j \in 1 .. Len(q) : Tail(q)[i] \subseteq q[j]
  BY TailFacts

\* The calls that change no status but its options.
LEMMA QuietSays ==
    ASSUME OwnerInv,
           \/ PassThrough \/ Getname \/ BindRefused \/ ListenAgain
           \/ AcceptRefused \/ HandleOptions \/ ConnectNextTransport
           \/ \E e \in Entries : \/ BindEntryFails(e) \/ BindEntryElse(e)
                                 \/ ConnectEntryFails(e)
    PROVE  Says
<1>0. TypeInv
  BY DEF OwnerInv, StatusInv
<1>1. /\ UNCHANGED <<sockets, kfd, listening, conn>>
      /\ SetFlags \/ UNCHANGED sock
  BY DEF PassThrough, Getname, BindRefused, ListenAgain, AcceptRefused,
         HandleOptions, Setsockopt, SetFlags, Getfl, ConnectNextTransport,
         BindEntryFails, BindEntryElse, ConnectEntryFails, hostVars,
         containerVars
<1>2. cur # None => cur \in Serving /\ cur.todo \in Seq(SUBSET Entries)
  BY <1>0 DEF TypeInv, ServingOK, Serving
<1>3. Onward
  <2>1. CASE \/ PassThrough \/ Getname \/ BindRefused \/ ListenAgain
             \/ AcceptRefused \/ HandleOptions
    BY <2>1, Answered
       DEF PassThrough, Getname, BindRefused, ListenAgain, AcceptRefused,
           HandleOptions, Setsockopt, SetFlags, Getfl, OnOption, On, At, Reply
  <2>2. ASSUME cur # None, cur.pc = "connect",
               \E q : cur' = [cur EXCEPT !.todo = q]
        PROVE  Onward
    <3>1. cur'.pc = "connect" /\ cur'.s = cur.s /\ cur'.call = cur.call
      BY <1>2, <2>2 DEF Serving
    <3> QED BY <2>2, <3>1 DEF Onward, NothingMade, At
  <2>3. CASE ConnectNextTransport \/ \E e \in Entries : ConnectEntryFails(e)
    BY <2>2, <2>3 DEF ConnectNextTransport, ConnectEntryFails, At
  <2>4. ASSUME NEW ok \in BOOLEAN, At("bind"), cur.todo # <<>>, NextEntry(ok),
               ok => FeatureRDMA
        PROVE  Onward
    <3>1. cur' = [cur EXCEPT !.todo = Tail(cur.todo), !.ok = cur.ok \/ ok]
      BY <2>4 DEF NextEntry
    <3>2. /\ cur # None /\ cur.pc = "bind" /\ cur.ok \in BOOLEAN
          /\ cur'.pc = "bind" /\ cur'.s = cur.s /\ cur'.todo = Tail(cur.todo)
          /\ cur'.ok = (cur.ok \/ ok)
      BY <1>2, <2>4, <3>1 DEF At, Serving
    <3>3. cur' # None
      <4>1. Tail(cur.todo) \in Seq(SUBSET Entries)
        BY <1>2, <2>4, <3>2
      <4>2. cur' \in Serving
        BY <1>2, <2>4, <3>1, <4>1 DEF At, Serving
      <4> QED BY <4>2, ServingDistinct
    <3> QED BY <1>2, <2>4, <3>2, <3>3, TodoTail DEF Onward, NothingMade, At
  <2>5. ASSUME NEW e \in Entries, BindEntryFails(e) \/ BindEntryElse(e)
        PROVE  Onward
    BY <2>4, <2>5, SeccompAssumption DEF BindEntryFails, BindEntryElse, Trying
  <2> QED BY <2>1, <2>3, <2>5
<1>4. CASE UNCHANGED sock
  BY <1>1, <1>3, <1>4, SameQuiet DEF Says
<1>5. CASE SetFlags
  <2> PICK o \in SockIds : o = cur.s
    BY <1>0, <1>5, CurType DEF SetFlags, OnOption
  <2> DEFINE on == cur.call.name = "setnonblock"
             r == [sock[o] EXCEPT !.nonblock = on]
  <2>0. sock[o] \in SocketStatus
    BY <1>0, StatusType
  <2>1. /\ r.hostSockets = Keys(o) /\ r.state = St(o)
        /\ r.localVAddr = Local(o) /\ r.remoteVAddr = Remote(o)
    BY <2>0 DEF SocketStatus, Keys, St, Local, Remote
  <2>2. sock' = [sock EXCEPT ![o] = r]
    BY <1>5 DEF SetFlags
  <2> HIDE DEF r
  <2>3. \A s \in SockIds : Same(s) /\ Bound(s)' = Bound(s)
    BY <1>0, <2>1, <2>2, ServedUpdate DEF Same
  <2> QED BY <1>1, <1>3, <2>3, HeardKept DEF Quiet, ComersKept, Says
<1> QED BY <1>1, <1>4, <1>5

\* The answers that settle the state.
LEMMA SettledSays ==
    ASSUME OwnerInv, LoopsNamed,
           \/ BindBadAddr \/ BindDone \/ ListenUnexpected
           \/ ConnectBadAddr \/ ConnectFails
           \/ \E e \in Entries : ConnectEntry(e) /\ phase[cur.t] # "received"
    PROVE  Says
<1>0. TypeInv /\ cur # None
  BY DEF OwnerInv, StatusInv, BindBadAddr, BindDone, ListenUnexpected,
         ConnectBadAddr, ConnectFails, ConnectEntry, OnConnect, On, At
<1>1. PICK o \in SockIds : o = cur.s
  BY <1>0, ServedUsed DEF OwnerInv, StatusInv
<1>2. /\ cur' = None /\ UNCHANGED <<conn, sockets, listening, kfd>>
  BY DEF BindBadAddr, BindDone, ListenUnexpected, ConnectBadAddr,
         ConnectFails, ConnectEntry, hostVars, Reply
<1>3. St(o) # "Unused"
  BY <1>0, <1>1, ServedUsed DEF OwnerInv, StatusInv, St
<1>4. ASSUME NEW to \in {"NotBypassable", "Error", "Binded"}, SetState(o, to),
             St(o) \notin Passed, to = "Binded" => At("bind") /\ cur.ok
      PROVE  Says
  <2>1. Settled(o, to)
    BY <1>0, <1>1, <1>2, <1>3, <1>4, StateUpdate DEF Settled, Alters
  <2> QED BY <2>1 DEF Says, SocketStates
<1>5. CASE BindBadAddr
  BY <1>1, <1>4, <1>5 DEF BindBadAddr, InState, St, Passed
<1>6. CASE BindDone
  <2>1. /\ At("bind") /\ St(o) = "NotBypassed"
        /\ SetState(o, IF cur.ok THEN "Binded" ELSE "Error")
    BY <1>0, <1>1, <1>6
       DEF BindDone, OwnerInv, StatusInv, Slots, ServedSlot, St, At
  <2> QED BY <1>4, <2>1 DEF Passed
<1>7. CASE ListenUnexpected
  BY <1>1, <1>4, <1>7 DEF ListenUnexpected, InState, St, Passed
<1>8. CASE ConnectBadAddr
  BY <1>1, <1>4, <1>8 DEF ConnectBadAddr, OnConnect, InState, St, Passed
<1>9. CASE ConnectFails
  BY <1>1, <1>4, <1>9 DEF ConnectFails, LoopsNamed
<1>10. ASSUME NEW e \in Entries, ConnectEntry(e), phase[cur.t] # "received"
       PROVE  Says
  BY <1>1, <1>4, <1>10 DEF ConnectEntry, LoopsNamed
<1> QED BY <1>5, <1>6, <1>7, <1>8, <1>9, <1>10

LEMMA ListenSays ==
    ASSUME OwnerInv, Listen
    PROVE  Says
<1>0. TypeInv /\ cur # None
  BY DEF OwnerInv, StatusInv, Listen, On, At
<1>1. PICK o \in SockIds : o = cur.s
  BY <1>0, ServedUsed DEF OwnerInv, StatusInv
<1>2. PICK up \in SUBSET HeldListeners({o}) :
        /\ listening' = listening \cup up
        /\ SetState(o, IF up = {} /\ ~FeatureRDMA THEN "Error" ELSE "Listening")
        /\ g' = [l \in Listener |->
                   IF l \in up THEN [NoGoroutine EXCEPT !.pc = "check"] ELSE g[l]]
  BY <1>1 DEF Listen
<1>3. up \subseteq Bound(o)
  BY DEF HeldListeners, Bound, Keys
<1>4. /\ cur' = None /\ UNCHANGED <<conn, sockets, kfd>>
      /\ St(o) = "Binded"
  BY <1>1 DEF Listen, Reply, InState, St
<1>5. PICK to \in {"Error", "Listening"} :
         SetState(o, to) /\ (to = "Listening" => up # {} \/ FeatureRDMA)
  BY <1>2
<1>6. \A l \in up : l \in Listener /\ l[1] = o /\ g'[l].pc = "check"
  BY <1>2, <1>3 DEF OwnerInv, StatusInv, ListenersOwn, Bound, NoGoroutine
<1>7. to = "Listening" =>
         FeatureRDMA \/ \E l \in Listener : l[1] = o /\ g'[l].pc = "check"
  BY <1>5, <1>6
<1>8. Settled(o, to)
  BY <1>0, <1>1, <1>2, <1>3, <1>4, <1>5, <1>7, StateUpdate
     DEF Settled, Alters, Passed
<1> QED BY <1>8 DEF Says, SocketStates

LEMMA RefusedSays ==
    ASSUME OwnerInv, ConnectRefused
    PROVE  Says
<1>0. TypeInv /\ cur # None
  BY DEF OwnerInv, StatusInv, ConnectRefused, OnConnect, On, At
<1>1. PICK o \in SockIds : o = cur.s
  BY <1>0, ServedUsed DEF OwnerInv, StatusInv
<1> DEFINE r == [sock[o] EXCEPT !.remoteVAddr = cur.call.addr, !.state = "Error"]
<1>2. sock[o] \in SocketStatus
  BY <1>0, StatusType
<1>3. /\ r.hostSockets = Keys(o) /\ r.state = "Error"
      /\ r.localVAddr = Local(o)
  BY <1>2 DEF SocketStatus, Keys, Local
<1>4. sock' = [sock EXCEPT ![o] = r]
  BY <1>1 DEF ConnectRefused
<1>5. St(o) \notin Passed \cup {"Unused"}
  BY <1>0, <1>1, ServedUsed
     DEF OwnerInv, StatusInv, ConnectRefused, OnConnect, InState, St, Passed
<1> HIDE DEF r
<1>6. /\ \A s \in SockIds : s # o => Same(s)
      /\ \A s \in SockIds : Bound(s)' = Bound(s)
      /\ St(o)' = "Error" /\ UNCHANGED Local(o)
  BY <1>0, <1>3, <1>4, ServedUpdate
<1>7. cur' = None /\ UNCHANGED <<conn, sockets, listening, kfd>>
  BY DEF ConnectRefused, hostVars, Reply
<1>8. Settled(o, "Error")
  BY <1>0, <1>1, <1>5, <1>6, <1>7 DEF Settled, Alters
<1> QED BY <1>8 DEF Says, SocketStates

\* The calls that record an address.
LEMMA AddressSays ==
    ASSUME OwnerInv, BindUnknown \/ BindStart \/ ConnectStart
    PROVE  Says
<1>0. TypeInv /\ cur # None /\ cur \in Serving /\ At("serve")
  BY ServingType
     DEF OwnerInv, StatusInv, BindUnknown, BindStart, ConnectStart, OnConnect,
         On, At
<1>1. PICK o \in SockIds : o = cur.s
  BY <1>0, ServedUsed DEF OwnerInv, StatusInv
<1>2. sock[o] \in SocketStatus
  BY <1>0, StatusType
<1> DEFINE v == cur.call.addr
<1>3. UNCHANGED <<conn, sockets, listening, kfd>>
  BY DEF BindUnknown, BindStart, ConnectStart, hostVars, containerVars
<1>4. CASE BindUnknown \/ BindStart
  <2> DEFINE r == [sock[o] EXCEPT !.localVAddr = v]
  <2>1. /\ r.hostSockets = Keys(o) /\ r.state = St(o)
        /\ r.remoteVAddr = Remote(o) /\ r.localVAddr = v
    BY <1>2 DEF SocketStatus, Keys, St, Remote
  <2>2. sock' = [sock EXCEPT ![o] = r] /\ St(o) = "NotBypassed"
    BY <1>1, <1>4 DEF BindUnknown, BindStart, InState, St
  <2> HIDE DEF r
  <2>3. /\ \A s \in SockIds : s # o => Same(s)
        /\ \A s \in SockIds : Bound(s)' = Bound(s)
        /\ UNCHANGED <<St(o), Remote(o)>> /\ Local(o)' = v
    BY <1>0, <2>1, <2>2, ServedUpdate
  <2>4. CASE BindUnknown
    <3>1. cur' = None
      BY <2>4 DEF BindUnknown, Reply
    <3>2. Addressed(o)
      BY <1>0, <1>1, <1>3, <2>2, <2>3, <3>1 DEF Addressed, Alters, At
    <3> QED BY <3>2 DEF Says
  <2>5. CASE BindStart
    <3> DEFINE q == [i \in 1 .. Len(ServerEntries[v]) |-> {ServerEntries[v][i]}]
    <3>1. v \in VAddrs /\ cur' = [cur EXCEPT !.pc = "bind", !.todo = q]
      BY <1>0, <2>5, CurType DEF BindStart
    <3>2. /\ cur'.pc = "bind" /\ cur'.s = o /\ cur'.todo = q
          /\ cur'.ok = cur.ok
      BY <1>0, <1>1, <3>1 DEF Serving
    <3>3. ServerEntries[v] \in Seq(Entries)
      BY <3>1, SeccompAssumption
    <3>4. \A i \in 1 .. Len(q) : q[i] \subseteq Served(o)'
      <4>1. Served(o)' = {ServerEntries[v][i] : i \in DOMAIN ServerEntries[v]}
        BY <2>3 DEF Served
      <4> QED BY <3>3, <4>1
    <3> HIDE DEF q
    <3>5. Addressed(o)
      BY <1>0, <1>1, <1>3, <2>2, <2>3, <3>2, <3>4 DEF Addressed, Alters, At
    <3> QED BY <3>5 DEF Says
  <2> QED BY <1>4, <2>4, <2>5
<1>5. CASE ConnectStart
  <2> DEFINE r == [sock[o] EXCEPT !.remoteVAddr = v]
  <2>1. /\ r.hostSockets = Keys(o) /\ r.state = St(o)
        /\ r.remoteVAddr = v /\ r.localVAddr = Local(o)
    BY <1>2 DEF SocketStatus, Keys, St, Local
  <2>2. sock' = [sock EXCEPT ![o] = r] /\ St(o) \notin Passed
    BY <1>1, <1>5 DEF ConnectStart, OnConnect, InState, St, Passed
  <2> HIDE DEF r
  <2>3. /\ \A s \in SockIds : s # o => Same(s)
        /\ \A s \in SockIds : Bound(s)' = Bound(s)
        /\ UNCHANGED <<St(o), Local(o)>> /\ Remote(o)' = v
    BY <1>0, <2>1, <2>2, ServedUpdate
  <2>4. /\ cur'.pc = "connect" /\ cur'.s = o /\ cur'.call = cur.call
    BY <1>0, <1>1, <1>5 DEF ConnectStart, Serving
  <2>5. Dialling(o)
    BY <1>0, <1>1, <1>3, <2>2, <2>3, <2>4 DEF Dialling, Alters, At
  <2> QED BY <2>5 DEF Says
<1> QED BY <1>4, <1>5

LEMMA BindSays ==
    ASSUME OwnerInv, NEW e \in Entries, BindEntry(e)
    PROVE  Says
<1>0. TypeInv /\ cur # None /\ cur \in Serving /\ At("bind")
  BY ServingType DEF OwnerInv, StatusInv, BindEntry, At
<1>1. PICK o \in SockIds : o = cur.s /\ Registered(o)
  BY <1>0, ServedUsed DEF OwnerInv, StatusInv
<1> DEFINE l == <<o, e>>
           q == Tail(cur.todo)
<1>2. PICK n \in HostFds :
        hfd[n] = Free /\ sock' = [sock EXCEPT ![o].hostSockets[n] = l]
  BY <1>1 DEF BindEntry, NextFd
<1>3. /\ UNCHANGED <<conn, sockets, listening, kfd>>
      /\ cur' = [cur EXCEPT !.todo = q, !.ok = cur.ok \/ TRUE]
      /\ cur.todo # <<>> /\ e \in Head(cur.todo)
  BY DEF BindEntry, NextEntry, Trying, containerVars
<1>4. cur.todo \in Seq(SUBSET Entries)
  BY <1>0 DEF Serving
<1>5. /\ \E i \in 1 .. Len(cur.todo) : e \in cur.todo[i]
      /\ \A i \in 1 .. Len(q) : \E j \in 1 .. Len(cur.todo) : q[i] \subseteq cur.todo[j]
  <2>1. 1 \in 1 .. Len(cur.todo) /\ Head(cur.todo) = cur.todo[1]
    BY <1>3, <1>4
  <2> QED BY <1>3, <1>4, <2>1, TodoTail
<1>6. cur'.pc = "bind" /\ cur'.s = o /\ cur'.todo = q /\ cur' # None
  <2>1. q \in Seq(SUBSET Entries)
    BY <1>3, <1>4
  <2>2. cur' \in Serving
    BY <1>0, <1>3, <2>1 DEF Serving
  <2> QED BY <1>0, <1>1, <1>3, <2>2, ServingDistinct DEF At, Serving
<1>7. Keys(o)[n] = None
  <2>1. Keys(o)[n] \in Listener \cup Conns \cup {None}
    BY <1>0, StatusType
  <2> QED BY <1>1, <1>2, <2>1, NoValues DEF OwnerInv, Owner, KeysSound
<1>8. /\ \A s \in SockIds : Same(s) /\ (s # o => Keys(s)' = Keys(s))
      /\ Keys(o)' = [Keys(o) EXCEPT ![n] = l]
  <2> DEFINE r == [sock[o] EXCEPT !.hostSockets = [Keys(o) EXCEPT ![n] = l]]
  <2>1. sock[o] \in SocketStatus /\ sock \in [SockIds -> SocketStatus]
    BY <1>0, StatusType
  <2>2. /\ r.hostSockets = [Keys(o) EXCEPT ![n] = l] /\ r.state = St(o)
        /\ r.localVAddr = Local(o) /\ r.remoteVAddr = Remote(o)
    BY <2>1 DEF SocketStatus, St, Local, Remote
  <2>3. sock' = [sock EXCEPT ![o] = r]
    BY <1>2 DEF Keys
  <2> HIDE DEF r, l
  <2> QED BY <2>1, <2>2, <2>3 DEF Keys, Same, St, Local, Remote
<1>9. \A s \in SockIds :
         Bound(s)' = IF s = o THEN Bound(s) \cup {l} ELSE Bound(s)
  <2>1. Keys(o) \in [HostFds -> Listener \cup Conns \cup {None}] /\ l \in Listener
    BY <1>0, StatusType DEF Listener
  <2> HIDE DEF l
  <2>2. \A m \in HostFds : Keys(o)'[m] = IF m = n THEN l ELSE Keys(o)[m]
    BY <1>8, <2>1
  <2>3. Bound(o)' = Bound(o) \cup {l}
    BY <1>7, <2>1, <2>2, NoValues DEF Bound
  <2> QED BY <1>8, <2>3, BoundKept
<1> HIDE DEF q
<1>10. Binding(o, e)
  BY <1>0, <1>1, <1>3, <1>5, <1>6, <1>8, <1>9 DEF Binding, Alters, At
<1> QED BY <1>10 DEF Says

LEMMA ConnectedSays ==
    ASSUME OwnerInv, NEW e \in Entries,
           \/ ConnectEntry(e) /\ phase[cur.t] = "received"
           \/ ConnectRDMA(e)
    PROVE  Says
<1>0. TypeInv /\ At("connect") /\ cur # None
  BY DEF OwnerInv, StatusInv, ConnectEntry, ConnectRDMA, At
<1>1. PICK o \in SockIds : o = cur.s
  BY <1>0, ServedUsed DEF OwnerInv, StatusInv
<1>2. /\ SetState(o, "Bypassed") /\ cur' = None
      /\ UNCHANGED <<conn, sockets, listening>>
  BY <1>1 DEF ConnectEntry, ConnectRDMA, hostVars, Reply
<1>3. \/ UNCHANGED kfd /\ FeatureRDMA
      \/ \A p \in Procs, fd \in Fds :
            kfd'[p][fd] = IF p = Tgid[cur.t] /\ fd = cur.call.fd
                          THEN cur.call.addr ELSE kfd[p][fd]
  <2>1. CASE ConnectEntry(e) /\ phase[cur.t] = "received"
    <3> DEFINE p == Tgid[cur.t]
               d == cur.call.fd
               v == cur.call.addr
    <3>1. kfd' = [kfd EXCEPT ![p][d] = v]
      BY <2>1 DEF ConnectEntry
    <3> HIDE DEF p, d, v
    <3>2. \A q \in Procs, fd \in Fds :
             kfd'[q][fd] = IF q = p /\ fd = d THEN v ELSE kfd[q][fd]
      BY <1>0, <3>1 DEF TypeInv, TablesOK
    <3> QED BY <3>2 DEF p, d, v
  <2>2. CASE ConnectRDMA(e)
    BY <2>2 DEF ConnectRDMA
  <2> QED BY <2>1, <2>2
<1>4. Connected(o)
  BY <1>0, <1>1, <1>2, <1>3, StateUpdate DEF Connected, Alters
<1> QED BY <1>4 DEF Says

LEMMA CurSays ==
    ASSUME OwnerInv, LoopsNamed, HandleCur, ~AcceptAddFdFails
    PROVE  Says
<1>0. TypeInv /\ Slots
  BY DEF OwnerInv, StatusInv
<1>1. CASE AcceptDeliver
  BY <1>0, <1>1, AcceptDelivers DEF Says
<1>2. CASE HandleBind
  BY <1>2, QuietSays, SettledSays, AddressSays, BindSays DEF HandleBind
<1>3. CASE HandleConnect
  BY <1>3, QuietSays, SettledSays, AddressSays, RefusedSays, ConnectedSays
     DEF HandleConnect
<1> QED BY <1>0, <1>1, <1>2, <1>3, ReregisterSays, QuietSays, SettledSays, ListenSays
        DEF HandleCur, HandleListen, HandleAccept

\* The threads and their kernel install nothing of the handler's.
LEMMA OwnFiles ==
    ASSUME TypeInv, NEW t \in Threads, KernelReturn(t) \/ User(t)
    PROVE  \A p \in Procs, fd \in Fds :
              kfd'[p][fd] \in {kfd[p][fd], Closed, Inet, Other}
<1>0. kfd \in [Procs -> [Fds -> ContainerFile]]
  BY DEF TypeInv, TablesOK
<1>1. ASSUME NEW p, NEW d, NEW f \in {Closed, Inet, Other},
             kfd' = [kfd EXCEPT ![p][d] = f]
      PROVE  \A q \in Procs, fd \in Fds :
                kfd'[q][fd] \in {kfd[q][fd], Closed, Inet, Other}
  BY <1>0, <1>1
<1>2. ASSUME NEW p, EndProcess(p)
      PROVE  \A q \in Procs, fd \in Fds :
                kfd'[q][fd] \in {kfd[q][fd], Closed, Inet, Other}
  BY <1>0, <1>2 DEF EndProcess
<1>3. CASE UNCHANGED kfd
  BY <1>3
<1>4. CASE KernelReturn(t)
  BY <1>1, <1>2, <1>4 DEF KernelReturn, KernelClose, KernelExit
<1>5. CASE Open(t)
  <2> PICK fd \in Fds, kind \in Kinds : kfd' = [kfd EXCEPT ![Tgid[t]][fd] = kind]
    BY <1>5 DEF Open
  <2> QED BY <1>1, ContainerAssumption
<1>6. CASE SilentClose(t)
  BY <1>1, <1>6 DEF SilentClose
<1> QED BY <1>2, <1>3, <1>4, <1>5, <1>6 DEF User, MakeCall, Interrupt, Kill

\* The steps of the threads, their kernel and the peers.
LEMMA OutsideSays ==
    ASSUME OwnerInv,
           \/ \E t \in Threads : KernelReturn(t) \/ User(t)
           \/ Peers
           \/ UNCHANGED vars
    PROVE  Says
<1>0. TypeInv /\ UNCHANGED <<seccompVars>>
  BY DEF OwnerInv, StatusInv, KernelReturn, User, Peers, vars
<1>1. Onward
  BY <1>0 DEF seccompVars, Onward, NothingMade, At
<1>2. \A s \in SockIds : Same(s) /\ Bound(s)' = Bound(s)
  <2>1. \A s \in SockIds : Same(s) /\ Keys(s)' = Keys(s)
    BY <1>0 DEF seccompVars, Same, St, Local, Remote, Keys
  <2> QED BY <2>1, BoundKept
<1>3. ASSUME NEW t \in Threads, KernelReturn(t) \/ User(t) PROVE Says
  <2>1. ComersKept /\ \A s \in SockIds : Heard(s)' \subseteq Heard(s)
    BY <1>3, HeardKept DEF KernelReturn, User, hostVars, ComersKept
  <2>2. \A p \in Procs, fd \in Fds :
           kfd'[p][fd] \in {kfd[p][fd], Closed, Inet, Other}
    BY <1>0, <1>3, OwnFiles
  <2> QED BY <1>0, <1>1, <1>2, <1>3, <2>1, <2>2 DEF Quiet, Says, seccompVars
<1>4. CASE Peers
  <2>1. UNCHANGED kfd
    BY <1>4 DEF Peers, containerVars
  <2>2. ComersKept /\ \A s \in SockIds : Heard(s)' \subseteq Heard(s)
    <3>1. ASSUME NEW c \in Conns, NEW e \in Entries, PeerConnect(c, e)
          PROVE  ComersKept /\ \A s \in SockIds : Heard(s)' \subseteq Heard(s)
      <4> DEFINE l == <<addr[e], e>>
      <4>1. /\ l \in listening /\ UNCHANGED listening
            /\ conn' = [conn EXCEPT ![c].st = "backlog", ![c].lsn = l]
            /\ conn[c].st = "new"
        BY <3>1 DEF PeerConnect
      <4> HIDE DEF l
      <4>2. /\ \A d \in Conns : d # c => conn'[d] = conn[d]
            /\ conn'[c].lsn = l
        BY <1>0, <4>1 DEF TypeInv, HostTypeOK, Connection
      <4> QED BY <4>1, <4>2 DEF ComersKept, Heard
    <3>2. ASSUME NEW c \in Conns, PeerSend(c) \/ PeerFail(c)
          PROVE  ComersKept /\ \A s \in SockIds : Heard(s)' \subseteq Heard(s)
      <4>1. /\ \A d \in Conns : conn'[d].lsn = conn[d].lsn
            /\ UNCHANGED listening
        BY <1>0, <3>2
           DEF PeerSend, PeerFail, TypeInv, HostTypeOK, Connection
      <4> QED BY <4>1, HeardKept DEF ComersKept
    <3>3. CASE ForeignOpen
      BY <3>3, HeardKept DEF ForeignOpen, ComersKept
    <3> QED BY <1>4, <3>1, <3>2, <3>3 DEF Peers, HostNext
  <2> QED BY <1>0, <1>1, <1>2, <2>1, <2>2 DEF Quiet, Says, seccompVars
<1>5. CASE UNCHANGED vars
  BY <1>1, <1>5, SameQuiet
     DEF vars, hostVars, containerVars, seccompVars, Says
<1> QED BY <1>3, <1>4, <1>5

LEMMA StepSays ==
    ASSUME OwnerInv, LoopsNamed, [Next /\ ~AcceptAddFdFails]_vars
    PROVE  Says
  BY ReceiveSays, CurSays, GoroutineSays, OutsideSays
     DEF Next, OwnerInv, StatusInv

-----------------------------------------------------------------------------
(* The invariants are kept. *)

\* A connection that waits or was accepted came to a listener.
Came ==
    \A c \in Conns :
        conn[c].st \in {"backlog", "accepted"} => conn[c].lsn \in Listener

LEMMA StepCame ==
    ASSUME TypeInv, Came, Moves
    PROVE  Came'
<1>1. ASSUME \A c \in Conns :
                /\ conn'[c].lsn = conn[c].lsn
                /\ conn'[c].st \in {"backlog", "accepted"}
                      => conn[c].st \in {"backlog", "accepted"}
      PROVE  Came'
  BY <1>1 DEF Came
<1>2. ASSUME NEW N, Closing(N) PROVE Came'
  BY <1>1, <1>2 DEF Closing
<1>3. ASSUME NEW l \in Listener, NEW c \in Conns, NEW n \in HostFds,
             Accepting(l, c, n)
      PROVE  Came'
  BY <1>1, <1>3, AcceptingFacts
<1>4. ASSUME NEW c \in Conns, NEW l \in Listener, Arriving(c, l) PROVE Came'
  BY <1>4, ArrivingFacts DEF Came
<1>5. ASSUME ConnsKept PROVE Came'
  BY <1>1, <1>5 DEF ConnsKept
<1>6. CASE Still
  BY <1>5, <1>6 DEF Still, StillHost
<1>7. ASSUME NEW t \in Procs, Drop(t) PROVE Came'
  BY <1>2, <1>7 DEF Drop, Removing
<1>8. ASSUME NEW p, NEW fd, NEW x, Renew(p, fd, x) PROVE Came'
  BY <1>2, <1>8 DEF Renew, Removing
<1>9. ASSUME NEW s, NEW p, NEW newfd, NEW a, Deliver(s, p, newfd, a) PROVE Came'
  BY <1>2, <1>9 DEF Deliver
<1>10. ASSUME NEW s, Lose(s) PROVE Came'
  BY <1>2, <1>10 DEF Lose
<1>11. ASSUME NEW l, Denying(l) PROVE Came'
  BY <1>2, <1>11 DEF Denying
<1>12. ASSUME UNCHANGED conn PROVE Came'
  BY <1>12 DEF Came
<1> QED BY <1>3, <1>4, <1>6, <1>7, <1>8, <1>9, <1>10, <1>11, <1>12
        DEF Moves, Bind, Start, Turn, Storing, Queueing

LEMMA ServedKept ==
    ASSUME NEW s, Local(s)' = Local(s)
    PROVE  Served(s)' = Served(s)
  BY DEF Served

\* What the proofs below know of the status in service.
LEMMA ServedFacts ==
    ASSUME OwnerInv, cur # None
    PROVE  /\ cur.s \in SockIds /\ Registered(cur.s)
           /\ Tgid[cur.t] \in Procs /\ cur.call.fd \in Fds
           /\ sockets[Tgid[cur.t]][cur.call.fd] = cur.s
           /\ At("bind") => St(cur.s) = "NotBypassed"
           /\ At("connect") => cur.call.addr \in VAddrs
<1>1. cur \in Serving /\ At(cur.pc)
  BY DEF OwnerInv, StatusInv, TypeInv, ServingOK, Serving, At
<1>2. Tgid[cur.t] \in Procs /\ cur.call.fd \in Fds
  BY <1>1, CurType DEF OwnerInv, StatusInv
<1> QED BY <1>1, <1>2, ServedUsed
        DEF OwnerInv, StatusInv, Slots, ServedSlot, TypeInv, ServingOK, At, St

\* What a status hears and holds, when another call than accept is served.
LEMMA AltersHeard ==
    ASSUME NEW o \in SockIds, Alters(o), UNCHANGED listening
    PROVE  \A s \in SockIds : Heard(s)' \subseteq Heard(s)
  BY HeardKept DEF Alters

LEMMA SettledHeard ==
    ASSUME OwnerInv, NEW o \in SockIds, NEW to, Settled(o, to)
    PROVE  /\ \A s \in SockIds : s # o => Heard(s)' \subseteq Heard(s)
           /\ Heard(o)' \subseteq Heard(o) \cup Bound(o)
<1>1. \A l \in Bound(o) : l[1] = o
  BY DEF OwnerInv, StatusInv, ListenersOwn, Bound
<1>2. UNCHANGED conn /\ listening' \subseteq listening \cup Bound(o)
  BY DEF Settled, Alters
<1> QED BY <1>1, <1>2 DEF Heard

\* A delivery.
LEMMA DeliverFacts ==
    ASSUME OwnerInv, NEW s \in SockIds, NEW p \in Procs, NEW newfd \in Fds,
           NEW a \in SockIds, Deliver(s, p, newfd, a)
    PROVE  /\ At("serve") /\ cur' = None /\ s = cur.s /\ Registered(s)
           /\ St(s) = "Listening" /\ St(a)' = "Bypassed" /\ Local(a)' = Local(s)
           /\ \A r \in SockIds : r # a => Same(r)
           /\ \A r \in SockIds : Heard(r)' \subseteq Heard(r)
           /\ \A r \in SockIds : Bound(r)' = Bound(r)
           /\ \A c \in Conns : conn'[c].lsn = conn[c].lsn
           /\ \A q \in Procs, d \in Fds :
                 q # p \/ d # newfd =>
                    /\ sockets'[q][d] = sockets[q][d] /\ kfd'[q][d] = kfd[q][d]
                    /\ sockets[q][d] # a
           /\ sockets'[p][newfd] = a
           /\ kfd'[p][newfd] = Head(Waits(s)).conn
           /\ Head(Waits(s)).conn \in Conns
           /\ Remote(a)' = ConnVAddr[Head(Waits(s)).conn]
           /\ conn[Head(Waits(s)).conn].lsn[1] = s
           /\ conn[Head(Waits(s)).conn].st = "accepted"
<1> USE DEF OwnerInv, Owner
<1> DEFINE as == Head(Waits(s))
<1>0. TypeInv
  BY DEF StatusInv
<1>1. /\ At("serve") /\ cur' = None /\ s = cur.s /\ Waits(s) # <<>>
      /\ St(s) = "Listening"
  BY DEF Deliver, At, St
<1>2. Registered(s)
  BY <1>1, ServedFacts DEF At
<1>3. /\ as.fd \in HostFds /\ as.conn \in Conns
      /\ Keys(s)[as.fd] = as.conn /\ hfd[as.fd] = as.conn
  BY <1>1, <1>2, HeadOwned
<1>4. /\ \A r \in SockIds :
            /\ St(r)' = IF r = a THEN "Bypassed" ELSE St(r)
            /\ Local(r)' = Local(IF r = a THEN s ELSE r)
            /\ Remote(r)' = IF r = a THEN ConnVAddr[as.conn] ELSE Remote(r)
  BY DEF Deliver, St, Local, Remote
<1>5. \A c \in Conns : conn'[c].lsn = conn[c].lsn
  BY DEF Deliver, Closing
<1>6. \A r \in SockIds : Heard(r)' \subseteq Heard(r)
  BY <1>5, HeardKept DEF Deliver
<1>7. \A r \in SockIds : Bound(r)' = Bound(r)
  <2>1. Bound(s)' = Bound(s)
    <3>1. Keys(s) \in [HostFds -> Listener \cup Conns \cup {None}]
      BY <1>0, StatusType
    <3>2. Keys(s)' = [Keys(s) EXCEPT ![as.fd] = None]
      BY DEF Deliver
    <3> HIDE DEF as
    <3>3. \A n \in HostFds :
             Keys(s)'[n] = IF n = as.fd THEN None ELSE Keys(s)[n]
      BY <3>1, <3>2
    <3>4. \A n \in HostFds, l \in Listener : Keys(s)'[n] = l <=> Keys(s)[n] = l
      BY <1>3, <3>3, NoValues
    <3> QED BY <3>4 DEF Bound
  <2> QED BY <2>1, BoundKept DEF Deliver
<1>8. \A q \in Procs, d \in Fds :
         q # p \/ d # newfd =>
            /\ sockets'[q][d] = sockets[q][d] /\ kfd'[q][d] = kfd[q][d]
            /\ sockets[q][d] # a
  <2>1. /\ sockets[p][newfd] = a \/ (sockets[p][newfd] = None /\ Fresh(a))
        /\ a # None
    BY NoValues DEF Deliver
  <2> QED BY <2>1 DEF Deliver, StatusInv, SlotsOnce, Slots, SlotsUsed, Fresh
<1>9. sockets'[p][newfd] = a /\ kfd'[p][newfd] = hfd[as.fd]
  BY DEF Deliver
<1>10. conn[as.conn].lsn[1] = s /\ conn[as.conn].st = "accepted"
  BY <1>2, <1>3 DEF KeyConns
<1> HIDE DEF as
<1>11. \A r \in SockIds : r # a => Same(r)
  BY <1>4 DEF Same
<1>12. St(a)' = "Bypassed" /\ Local(a)' = Local(s) /\ Remote(a)' = ConnVAddr[as.conn]
  BY <1>4
<1> QED BY <1>1, <1>2, <1>3, <1>5, <1>6, <1>7, <1>8, <1>9, <1>10, <1>11, <1>12 DEF as

LEMMA StepListenersServed ==
    ASSUME OwnerInv, NamesInv, Says
    PROVE  ListenersServed'
<1> USE DEF NamesInv
<1>1. ASSUME NEW s \in SockIds, St(s) # "Bypassed", Local(s)' = Local(s),
             Bound(s)' \cup Heard(s)' \subseteq Bound(s) \cup Heard(s)
      PROVE  \A l \in Bound(s)' \cup Heard(s)' : l[2] \in Served(s)'
  BY <1>1, ServedKept DEF ListenersServed
<1>2. ASSUME NEW s \in SockIds, St(s)' # "Bypassed", Same(s),
             Bound(s)' \subseteq Bound(s), Heard(s)' \subseteq Heard(s)
      PROVE  \A l \in Bound(s)' \cup Heard(s)' : l[2] \in Served(s)'
  BY <1>1, <1>2 DEF Same
<1>3. CASE Quiet
  BY <1>2, <1>3 DEF Quiet, ListenersServed
<1>4. ASSUME NEW p \in Procs, NEW fd \in Fds, NEW x \in SockIds, Renewed(p, fd, x)
      PROVE  ListenersServed'
  <2>1. Bound(x)' \cup Heard(x)' = {}
    BY <1>4 DEF Renewed, UnboundBare
  <2>2. \A s \in SockIds : s # x => /\ Same(s) /\ Bound(s)' = Bound(s)
                                    /\ Heard(s)' \subseteq Heard(s)
    BY <1>4 DEF Renewed
  <2> QED BY <1>2, <2>1, <2>2 DEF ListenersServed
<1>5. ASSUME NEW o \in SockIds, Addressed(o) PROVE ListenersServed'
  <2>1. \A s \in SockIds : Heard(s)' \subseteq Heard(s)
    BY <1>5, AltersHeard DEF Addressed
  <2>2. Bound(o)' \cup Heard(o)' = {}
    BY <1>5, <2>1 DEF Addressed, UnboundBare, At
  <2>3. \A s \in SockIds : s # o => Same(s) /\ Bound(s)' = Bound(s)
    BY <1>5 DEF Addressed, Alters
  <2> QED BY <1>2, <2>1, <2>2, <2>3 DEF ListenersServed
<1>6. ASSUME NEW o \in SockIds, NEW e \in Entries, Binding(o, e)
      PROVE  ListenersServed'
  <2>1. \A s \in SockIds : Heard(s)' \subseteq Heard(s) /\ Same(s)
    BY <1>6, AltersHeard DEF Binding, Alters
  <2>2. e \in Served(o)
    BY <1>6 DEF Binding, Alters, LoopsNamed
  <2>3. Bound(o)' = Bound(o) \cup {<<o, e>>} /\ <<o, e>>[2] = e
    BY <1>6 DEF Binding
  <2>4. St(o)' # "Bypassed" =>
           \A l \in Bound(o)' \cup Heard(o)' : l[2] \in Served(o)'
    <3>1. St(o)' = St(o) /\ Served(o)' = Served(o)
      BY <2>1, ServedKept DEF Same
    <3> QED BY <2>1, <2>2, <2>3, <3>1 DEF ListenersServed
  <2>5. \A s \in SockIds : s # o => Bound(s)' = Bound(s)
    BY <1>6 DEF Binding
  <2> QED BY <1>2, <2>1, <2>4, <2>5 DEF ListenersServed
<1>7. ASSUME NEW o \in SockIds, NEW to, Settled(o, to) PROVE ListenersServed'
  <2>1. /\ \A s \in SockIds : s # o => /\ Heard(s)' \subseteq Heard(s)
                                       /\ Same(s) /\ Bound(s)' = Bound(s)
        /\ Heard(o)' \subseteq Heard(o) \cup Bound(o)
        /\ Bound(o)' = Bound(o)
    BY <1>7, SettledHeard DEF Settled, Alters
  <2>2. St(o) # "Bypassed" /\ Local(o)' = Local(o)
    BY <1>7 DEF Settled, Passed
  <2>3. \A l \in Bound(o)' \cup Heard(o)' : l[2] \in Served(o)'
    BY <1>1, <2>1, <2>2
  <2> QED BY <1>2, <2>1, <2>3 DEF ListenersServed
<1>8. ASSUME NEW o \in SockIds, Dialling(o) \/ Connected(o) PROVE ListenersServed'
  <2>1. \A s \in SockIds : /\ Heard(s)' \subseteq Heard(s) /\ Bound(s)' = Bound(s)
                           /\ Local(s)' = Local(s)
                           /\ St(s)' # "Bypassed" => St(s)' = St(s)
    BY <1>8, AltersHeard DEF Dialling, Connected, Alters, Same
  <2> QED BY <1>1, <2>1 DEF ListenersServed
<1>9. ASSUME NEW s \in SockIds, NEW p \in Procs, NEW newfd \in Fds,
             NEW a \in SockIds, Deliver(s, p, newfd, a)
      PROVE  ListenersServed'
  BY <1>2, <1>9, DeliverFacts DEF ListenersServed
<1> QED BY <1>3, <1>4, <1>5, <1>6, <1>7, <1>8, <1>9 DEF Says

LEMMA StepUnboundBare ==
    ASSUME OwnerInv, NamesInv, Says
    PROVE  UnboundBare'
<1> USE DEF NamesInv
<1>1. ASSUME NEW s \in SockIds, Same(s), Heard(s)' \subseteq Heard(s),
             Bound(s)' \subseteq Bound(s),
             At("bind") /\ cur.s = s => At("bind")' /\ cur'.s = s
      PROVE  /\ St(s)' \in {"Unused", "NotBypassed"} => Heard(s)' = {}
             /\ St(s)' = "NotBypassed" /\ ~(At("bind")' /\ cur'.s = s)
                   => Bound(s)' = {}
  BY <1>1 DEF UnboundBare, Same
<1>2. ASSUME NEW s \in SockIds, St(s)' \notin {"Unused", "NotBypassed"}
      PROVE  /\ St(s)' \in {"Unused", "NotBypassed"} => Heard(s)' = {}
             /\ St(s)' = "NotBypassed" /\ ~(At("bind")' /\ cur'.s = s)
                   => Bound(s)' = {}
  BY <1>2
<1>3. CASE Quiet
  BY <1>1, <1>3 DEF Quiet, Onward, UnboundBare
<1>4. ASSUME NEW p \in Procs, NEW fd \in Fds, NEW x \in SockIds, Renewed(p, fd, x)
      PROVE  UnboundBare'
  <2>1. Bound(x)' \cup Heard(x)' = {}
    BY <1>4 DEF Renewed, UnboundBare
  <2> QED BY <1>1, <1>4, <2>1 DEF Renewed, UnboundBare
<1>5. ASSUME NEW o \in SockIds, Addressed(o) \/ Dialling(o) PROVE UnboundBare'
  <2>1. \A s \in SockIds : Heard(s)' \subseteq Heard(s)
    BY <1>5, AltersHeard DEF Addressed, Dialling
  <2>2. ~At("bind") /\ \A s \in SockIds : St(s)' = St(s) /\ Bound(s)' = Bound(s)
    BY <1>5 DEF Addressed, Dialling, Alters, Same, At
  <2> QED BY <2>1, <2>2 DEF UnboundBare
<1>6. ASSUME NEW o \in SockIds, NEW e \in Entries, Binding(o, e)
      PROVE  UnboundBare'
  <2>1. \A s \in SockIds : Heard(s)' \subseteq Heard(s) /\ Same(s)
    BY <1>6, AltersHeard DEF Binding, Alters
  <2>2. At("bind")' /\ cur'.s = o /\ \A s \in SockIds : s # o => Bound(s)' = Bound(s)
    BY <1>6 DEF Binding
  <2>3. At("bind") /\ cur.s = o
    BY <1>6 DEF Binding, Alters
  <2> QED BY <2>1, <2>2, <2>3 DEF UnboundBare, Same
<1>7. ASSUME NEW o \in SockIds, NEW to, Settled(o, to) PROVE UnboundBare'
  <2>1. \A s \in SockIds : s # o => /\ Heard(s)' \subseteq Heard(s) /\ Same(s)
                                    /\ Bound(s)' = Bound(s) /\ cur.s # s
    BY <1>7, SettledHeard DEF Settled, Alters
  <2>2. St(o)' \notin {"Unused", "NotBypassed"}
    BY <1>7 DEF Settled
  <2> QED BY <1>1, <1>2, <2>1, <2>2 DEF UnboundBare
<1>8. ASSUME NEW o \in SockIds, Connected(o) PROVE UnboundBare'
  <2>1. \A s \in SockIds : s # o => /\ Heard(s)' \subseteq Heard(s) /\ Same(s)
                                    /\ Bound(s)' = Bound(s) /\ cur.s # s
    BY <1>8, AltersHeard DEF Connected, Alters
  <2>2. St(o)' \notin {"Unused", "NotBypassed"}
    BY <1>8 DEF Connected
  <2> QED BY <1>1, <1>2, <2>1, <2>2 DEF UnboundBare
<1>9. ASSUME NEW s \in SockIds, NEW p \in Procs, NEW newfd \in Fds,
             NEW a \in SockIds, Deliver(s, p, newfd, a)
      PROVE  UnboundBare'
  <2>1. ~At("bind")
    BY <1>9, DeliverFacts DEF At
  <2>2. /\ St(a)' \notin {"Unused", "NotBypassed"}
        /\ \A r \in SockIds : r # a => Same(r)
        /\ \A r \in SockIds : Heard(r)' \subseteq Heard(r) /\ Bound(r)' = Bound(r)
    BY <1>9, DeliverFacts
  <2> QED BY <1>1, <1>2, <2>1, <2>2 DEF UnboundBare
<1> QED BY <1>3, <1>4, <1>5, <1>6, <1>7, <1>8, <1>9 DEF Says

LEMMA StepLoopsNamed ==
    ASSUME OwnerInv, NamesInv, Says
    PROVE  LoopsNamed'
<1> USE DEF NamesInv
<1>1. ASSUME NEW o,
             At("bind")' =>
                /\ cur'.s = o
                /\ \A i \in 1 .. Len(cur'.todo) : cur'.todo[i] \subseteq Served(o)',
             At("connect")' =>
                /\ cur'.s = o
                /\ Remote(o)' = cur'.call.addr /\ St(o)' \notin Passed
      PROVE  LoopsNamed'
  BY <1>1 DEF LoopsNamed, Served, Local, Remote, St
<1>2. ASSUME ~At("bind")', ~At("connect")' PROVE LoopsNamed'
  BY <1>2 DEF LoopsNamed
<1>3. CASE Quiet
  <2>1. CASE cur = None
    BY <1>2, <1>3, <2>1 DEF Quiet, Onward, At
  <2>2. CASE cur # None
    <3>1. PICK o \in SockIds : o = cur.s
      BY <2>2, ServedFacts
    <3>2. Same(o) /\ Served(o)' = Served(o)
      BY <1>3, <3>1, ServedKept DEF Quiet, Same
    <3> QED BY <1>1, <1>3, <3>1, <3>2 DEF Quiet, Onward, LoopsNamed, Same
  <2> QED BY <2>1, <2>2
<1>4. ASSUME NEW o \in SockIds, Addressed(o) PROVE LoopsNamed'
  BY <1>1, <1>4 DEF Addressed
<1>5. ASSUME NEW o \in SockIds, NEW e \in Entries, Binding(o, e)
      PROVE  LoopsNamed'
  <2>1. Served(o)' = Served(o)
    BY <1>5, ServedKept DEF Binding, Same
  <2>2. \A j \in 1 .. Len(cur.todo) : cur.todo[j] \subseteq Served(o)
    BY <1>5 DEF Binding, Alters, LoopsNamed
  <2>3. \A i \in 1 .. Len(cur'.todo) : cur'.todo[i] \subseteq Served(o)'
    BY <1>5, <2>1, <2>2 DEF Binding
  <2>4. cur'.s = o /\ ~At("connect")'
    BY <1>5 DEF Binding, At
  <2> QED BY <1>1, <2>3, <2>4
<1>6. ASSUME NEW o \in SockIds, Dialling(o) PROVE LoopsNamed'
  BY <1>1, <1>6 DEF Dialling
<1>7. ASSUME cur' = None PROVE LoopsNamed'
  BY <1>2, <1>7 DEF At
<1>8. ASSUME NEW p \in Procs, NEW fd \in Fds, NEW x \in SockIds, Renewed(p, fd, x)
      PROVE  LoopsNamed'
  BY <1>2, <1>8 DEF Renewed
<1>9. ASSUME NEW o, NEW to, Settled(o, to) PROVE LoopsNamed'
  BY <1>7, <1>9 DEF Settled
<1>10. ASSUME NEW o, Connected(o) PROVE LoopsNamed'
  BY <1>7, <1>10 DEF Connected
<1>11. ASSUME NEW s, NEW p, NEW newfd, NEW a, Deliver(s, p, newfd, a)
       PROVE  LoopsNamed'
  BY <1>7, <1>11 DEF Deliver
<1> QED BY <1>3, <1>4, <1>5, <1>6, <1>8, <1>9, <1>10, <1>11 DEF Says

\* What SlotsNamed says of a slot with the status s.
SlotNamed(p, fd, s) ==
    kfd[p][fd] \in Conns \cup VAddrs =>
        /\ St(s) \in Passed
        /\ St(s) = "Bypassed" =>
             /\ kfd[p][fd] \in VAddrs => Remote(s) = kfd[p][fd]
             /\ kfd[p][fd] \in Conns =>
                  /\ Remote(s) = ConnVAddr[kfd[p][fd]]
                  /\ conn[kfd[p][fd]].lsn[2] \in Served(s)

LEMMA SlotsAll ==
    ASSUME TypeInv', \A p \in Procs, fd \in Fds, s \in SockIds :
                        sockets'[p][fd] = s => SlotNamed(p, fd, s)'
    PROVE  SlotsNamed'
<1>1. \A p \in Procs, fd \in Fds : sockets'[p][fd] \in SockIds \cup {None}
  BY DEF TypeInv, TablesOK
<1> QED BY <1>1 DEF SlotsNamed, SlotNamed

LEMMA SlotOne ==
    ASSUME SlotsNamed, NEW p \in Procs, NEW fd \in Fds, NEW s \in SockIds,
           sockets[p][fd] = s
    PROVE  SlotNamed(p, fd, s)
  BY NoValues DEF SlotsNamed, SlotNamed

\* No host file is a descriptor's first file.
LEMMA ContainersOwn ==
    {Closed, Inet, Other} \cap (Conns \cup VAddrs) = {}
  BY ContainerDistinct DEF File

\* A slot is as it was.
LEMMA SlotKept ==
    ASSUME OwnerInv, SlotsNamed, ComersKept,
           NEW p \in Procs, NEW fd \in Fds, NEW s \in SockIds,
           sockets[p][fd] = s, Same(s), kfd'[p][fd] = kfd[p][fd]
    PROVE  SlotNamed(p, fd, s)'
<1>1. Served(s)' = Served(s)
  BY ServedKept DEF Same
<1>2. kfd[p][fd] \in Conns => conn'[kfd[p][fd]].lsn = conn[kfd[p][fd]].lsn
  BY DEF ComersKept, OwnerInv, HeldAccepted
<1>3. SlotNamed(p, fd, s)
  BY SlotOne
<1> QED BY <1>1, <1>2, <1>3 DEF SlotNamed, Same

\* The status of a slot is not passed: its file is the container's own.
LEMMA SlotOwn ==
    ASSUME SlotsNamed, NEW p \in Procs, NEW fd \in Fds, NEW s \in SockIds,
           sockets[p][fd] = s, St(s) \notin Passed, kfd'[p][fd] = kfd[p][fd]
    PROVE  SlotNamed(p, fd, s)'
<1>1. SlotNamed(p, fd, s)
  BY SlotOne
<1> QED BY <1>1 DEF SlotNamed

LEMMA StepSlotsNamed ==
    ASSUME OwnerInv, TypeInv', NamesInv, Came, Says
    PROVE  SlotsNamed'
<1> USE DEF NamesInv
<1>1. ASSUME \A p \in Procs, fd \in Fds, s \in SockIds :
                sockets'[p][fd] = s => SlotNamed(p, fd, s)'
      PROVE  SlotsNamed'
  BY <1>1, SlotsAll
<1>2. ASSUME Quiet, NEW p \in Procs, NEW fd \in Fds, NEW s \in SockIds,
             sockets'[p][fd] = s
      PROVE  SlotNamed(p, fd, s)'
  <2>1. sockets[p][fd] = s /\ Same(s) /\ ComersKept
    BY <1>2, NoValues DEF Quiet
  <2>2. kfd'[p][fd] \in {kfd[p][fd], Closed, Inet, Other}
    BY <1>2 DEF Quiet
  <2>3. CASE kfd'[p][fd] = kfd[p][fd]
    BY <2>1, <2>3, SlotKept
  <2>4. CASE kfd'[p][fd] \in {Closed, Inet, Other}
    BY <2>4, ContainersOwn DEF SlotNamed
  <2> QED BY <2>2, <2>3, <2>4
<1>3. ASSUME NEW p \in Procs, NEW fd \in Fds, NEW x \in SockIds, Renewed(p, fd, x),
             NEW q \in Procs, NEW d \in Fds, NEW s \in SockIds,
             sockets'[q][d] = s
      PROVE  SlotNamed(q, d, s)'
  <2>1. CASE q = p /\ d = fd
    <3>1. /\ s = x /\ kfd'[q][d] = kfd[p][fd]
          /\ St(x)' \in {"NotBypassed", "NotBypassable"}
          /\ St(x)' = "NotBypassed" => kfd[p][fd] = Inet
      BY <1>3, <2>1 DEF Renewed
    <3> QED BY <3>1, ContainersOwn DEF SlotNamed, Passed
  <2>2. CASE q # p \/ d # fd
    <3>1. sockets[q][d] = s /\ kfd'[q][d] = kfd[q][d] /\ ComersKept
      BY <1>3, <2>2 DEF Renewed
    <3>2. St(s) # "Unused"
      BY <3>1, NoValues DEF OwnerInv, StatusInv, Slots, SlotsUsed, St
    <3>3. Same(s)
      BY <1>3, <3>2 DEF Renewed
    <3> QED BY <3>1, <3>3, SlotKept
  <2> QED BY <2>1, <2>2
<1>4. ASSUME NEW o \in SockIds, Alters(o), St(o) \notin Passed, UNCHANGED kfd,
             NEW p \in Procs, NEW fd \in Fds, NEW s \in SockIds,
             sockets'[p][fd] = s
      PROVE  SlotNamed(p, fd, s)'
  <2>1. sockets[p][fd] = s /\ kfd'[p][fd] = kfd[p][fd] /\ ComersKept
    BY <1>4 DEF Alters, ComersKept
  <2>2. s # o => Same(s)
    BY <1>4 DEF Alters
  <2> QED BY <1>4, <2>1, <2>2, SlotKept, SlotOwn
<1>5. ASSUME NEW o \in SockIds, NEW e \in Entries, Binding(o, e),
             NEW p \in Procs, NEW fd \in Fds, NEW s \in SockIds,
             sockets'[p][fd] = s
      PROVE  SlotNamed(p, fd, s)'
  <2>1. sockets[p][fd] = s /\ kfd'[p][fd] = kfd[p][fd] /\ ComersKept /\ Same(s)
    BY <1>5 DEF Binding, Alters, ComersKept
  <2> QED BY <2>1, SlotKept
<1>6. ASSUME NEW o \in SockIds, Connected(o), ~UNCHANGED kfd,
             NEW p \in Procs, NEW fd \in Fds, NEW s \in SockIds,
             sockets'[p][fd] = s
      PROVE  SlotNamed(p, fd, s)'
  <2>1. sockets[p][fd] = s /\ ComersKept /\ At("connect") /\ cur # None
    BY <1>6 DEF Connected, Alters, ComersKept, At
  <2>2. /\ kfd'[p][fd] = IF p = Tgid[cur.t] /\ fd = cur.call.fd
                         THEN cur.call.addr ELSE kfd[p][fd]
        /\ sockets[Tgid[cur.t]][cur.call.fd] = o /\ cur.call.addr \in VAddrs
        /\ Tgid[cur.t] \in Procs /\ cur.call.fd \in Fds
    BY <1>6, <2>1, ServedFacts DEF Connected, Alters
  <2>3. CASE s = o
    <3>1. p = Tgid[cur.t] /\ fd = cur.call.fd
      BY <2>1, <2>2, <2>3, NoValues DEF OwnerInv, StatusInv, SlotsOnce
    <3>2. kfd'[p][fd] = cur.call.addr /\ cur.call.addr \notin Conns
      BY <2>2, <3>1, NoValues
    <3>3. St(s)' \in Passed /\ Remote(s)' = Remote(s) /\ Remote(s) = cur.call.addr
      BY <1>6, <2>3, <2>1 DEF Connected, Alters, Passed, LoopsNamed
    <3> QED BY <3>2, <3>3 DEF SlotNamed
  <2>4. CASE s # o
    <3>1. kfd'[p][fd] = kfd[p][fd] /\ Same(s)
      BY <1>6, <2>1, <2>2, <2>4 DEF Connected, Alters
    <3> QED BY <2>1, <3>1, SlotKept
  <2> QED BY <2>3, <2>4
<1>7. ASSUME NEW r \in SockIds, NEW p \in Procs, NEW newfd \in Fds,
             NEW a \in SockIds, Deliver(r, p, newfd, a),
             NEW q \in Procs, NEW d \in Fds, NEW s \in SockIds,
             sockets'[q][d] = s
      PROVE  SlotNamed(q, d, s)'
  <2>1. PICK c \in Conns : c = Head(Waits(r)).conn
    BY <1>7, DeliverFacts
  <2>2. CASE q = p /\ d = newfd
    <3>1. /\ s = a /\ kfd'[q][d] = c /\ St(r) = "Listening"
          /\ St(a)' = "Bypassed" /\ Local(a)' = Local(r)
          /\ Remote(a)' = ConnVAddr[c] /\ conn'[c].lsn = conn[c].lsn
          /\ conn[c].lsn[1] = r /\ conn[c].st = "accepted"
      BY <1>7, <2>1, <2>2, DeliverFacts
    <3>2. conn[c].lsn \in Heard(r)
      BY <3>1 DEF Came, Heard
    <3>3. conn[c].lsn[2] \in Served(r)
      BY <3>1, <3>2 DEF ListenersServed
    <3>4. Served(a)' = Served(r)
      BY <3>1 DEF Served
    <3> QED BY <3>1, <3>3, <3>4, NoValues DEF SlotNamed, Passed
  <2>3. CASE q # p \/ d # newfd
    <3>1. /\ sockets[q][d] = s /\ kfd'[q][d] = kfd[q][d] /\ s # a
          /\ \A b \in Conns : conn'[b].lsn = conn[b].lsn
      BY <1>7, <2>3, DeliverFacts
    <3>2. Same(s) /\ ComersKept
      BY <1>7, <3>1, DeliverFacts DEF ComersKept
    <3> QED BY <3>1, <3>2, SlotKept
  <2> QED BY <2>2, <2>3
<1>8. CASE Quiet
  BY <1>1, <1>2, <1>8
<1>9. ASSUME NEW p \in Procs, NEW fd \in Fds, NEW x \in SockIds, Renewed(p, fd, x)
      PROVE  SlotsNamed'
  BY <1>1, <1>3, <1>9
<1>10. ASSUME NEW o \in SockIds, Alters(o), St(o) \notin Passed, UNCHANGED kfd
       PROVE  SlotsNamed'
  BY <1>1, <1>4, <1>10
<1>11. ASSUME NEW o \in SockIds, Addressed(o) \/ Dialling(o) PROVE SlotsNamed'
  BY <1>10, <1>11 DEF Addressed, Dialling, Passed
<1>12. ASSUME NEW o \in SockIds, NEW to, Settled(o, to) PROVE SlotsNamed'
  BY <1>10, <1>12 DEF Settled
<1>13. ASSUME NEW o \in SockIds, Connected(o) PROVE SlotsNamed'
  <2>1. CASE UNCHANGED kfd
    <3>1. Alters(o) /\ St(o) \notin Passed
      BY <1>13 DEF Connected, Alters, LoopsNamed
    <3> QED BY <1>10, <2>1, <3>1
  <2>2. CASE ~UNCHANGED kfd
    BY <1>1, <1>6, <1>13, <2>2
  <2> QED BY <2>1, <2>2
<1>14. ASSUME NEW o \in SockIds, NEW e \in Entries, Binding(o, e)
       PROVE  SlotsNamed'
  BY <1>1, <1>5, <1>14
<1>15. ASSUME NEW s \in SockIds, NEW p \in Procs, NEW newfd \in Fds,
              NEW a \in SockIds, Deliver(s, p, newfd, a)
       PROVE  SlotsNamed'
  BY <1>1, <1>7, <1>15
<1> QED BY <1>8, <1>9, <1>11, <1>12, <1>13, <1>14, <1>15 DEF Says

LEMMA StepBoundHeld ==
    ASSUME OwnerInv, BoundHeld, Says, ~FeatureRDMA
    PROVE  BoundHeld'
<1> USE DEF BoundHeld
<1>1. ASSUME NEW o, At("serve")' => ~cur'.ok,
             At("bind")' /\ cur'.ok => cur'.s = o /\ Bound(o)' # {},
             \A s \in SockIds :
                Registered(s)' /\ St(s)' \in {"Binded", "Listening"}
                   => Bound(s)' # {}
      PROVE  BoundHeld'
  BY <1>1 DEF Bound, Keys
<1>2. ASSUME cur' = None,
             \A s \in SockIds :
                Registered(s)' /\ St(s)' \in {"Binded", "Listening"}
                   => Bound(s)' # {}
      PROVE  BoundHeld'
  BY <1>2 DEF At
<1>3. CASE Quiet
  <2>1. ASSUME NEW s \in SockIds, Registered(s)',
               St(s)' \in {"Binded", "Listening"}
        PROVE  Bound(s)' # {}
    <3>1. Registered(s)
      BY <1>3, <2>1, NoValues DEF Quiet, Registered
    <3> QED BY <1>3, <2>1, <3>1 DEF Quiet, Same
  <2>2. CASE cur = None
    BY <1>3, <2>1, <2>2 DEF Quiet, Onward, NothingMade, At
  <2>3. CASE cur # None
    <3>1. PICK o \in SockIds : o = cur.s
      BY <2>3, ServedFacts
    <3>2. Registered(o) /\ Bound(o)' = Bound(o)
      BY <1>3, <2>3, <3>1, ServedFacts DEF Quiet
    <3> QED BY <1>1, <1>3, <2>1, <3>1, <3>2 DEF Quiet, Onward, NothingMade
  <2> QED BY <2>2, <2>3
<1>4. ASSUME NEW p \in Procs, NEW fd \in Fds, NEW x \in SockIds, Renewed(p, fd, x)
      PROVE  BoundHeld'
  <2>1. ASSUME NEW s \in SockIds, Registered(s)',
               St(s)' \in {"Binded", "Listening"}
        PROVE  Bound(s)' # {}
    <3>1. s # x /\ Same(s) /\ Bound(s)' = Bound(s)
      BY <1>4, <2>1 DEF Renewed
    <3>2. Registered(s)
      BY <1>4, <2>1, <3>1 DEF Renewed, Registered
    <3> QED BY <2>1, <3>1, <3>2 DEF Same
  <2> QED BY <1>4, <2>1 DEF Renewed, NothingMade
<1>5. ASSUME NEW o \in SockIds, NEW e \in Entries, Binding(o, e)
      PROVE  BoundHeld'
  <2>1. /\ cur'.s = o /\ ~At("serve")' /\ <<o, e>> \in Bound(o)'
    BY <1>5 DEF Binding, At
  <2>2. \A s \in SockIds : /\ Registered(s)' = Registered(s) /\ Same(s)
                           /\ Bound(s) \subseteq Bound(s)'
    BY <1>5 DEF Binding, Alters, Registered
  <2> QED BY <1>1, <2>1, <2>2 DEF Same
<1>6. ASSUME NEW o \in SockIds, Alters(o),
             \A s \in SockIds : Bound(s)' = Bound(s),
             St(o)' \in {"Binded", "Listening"} => Bound(o) # {},
             NEW s \in SockIds, Registered(s)', St(s)' \in {"Binded", "Listening"}
      PROVE  Bound(s)' # {}
  <2>1. Registered(s) /\ (s # o => St(s)' = St(s))
    BY <1>6 DEF Alters, Registered, Same
  <2> QED BY <1>6, <2>1
<1>7. ASSUME NEW o \in SockIds, Addressed(o) \/ Dialling(o) PROVE BoundHeld'
  <2>1. Alters(o) /\ (\A s \in SockIds : Bound(s)' = Bound(s)) /\ St(o)' = St(o)
    BY <1>7 DEF Addressed, Dialling
  <2>2. Registered(o) /\ At("serve") /\ ~cur.ok
    BY <1>7, ServedFacts DEF Addressed, Dialling, Alters
  <2>3. ~At("serve")' /\ ~(At("bind")' /\ cur'.ok)
    BY <1>7, <2>2 DEF Addressed, Dialling
  <2>4. St(o)' \in {"Binded", "Listening"} => Bound(o) # {}
    BY <2>1, <2>2
  <2> QED BY <1>1, <1>6, <2>1, <2>3, <2>4
<1>8. ASSUME NEW o \in SockIds, NEW to, Settled(o, to) PROVE BoundHeld'
  <2>1. Registered(o) /\ o = cur.s
    BY <1>8, ServedFacts DEF Settled, Alters
  <2>2. St(o)' \in {"Binded", "Listening"} => Bound(o) # {}
    BY <1>8, <2>1 DEF Settled
  <2> QED BY <1>2, <1>6, <1>8, <2>2 DEF Settled
<1>9. ASSUME NEW o \in SockIds, Connected(o) PROVE BoundHeld'
  BY <1>2, <1>6, <1>9 DEF Connected
<1>10. ASSUME NEW r \in SockIds, NEW p \in Procs, NEW newfd \in Fds,
              NEW a \in SockIds, Deliver(r, p, newfd, a)
       PROVE  BoundHeld'
  <2>1. ASSUME NEW s \in SockIds, Registered(s)',
               St(s)' \in {"Binded", "Listening"}
        PROVE  Bound(s)' # {}
    <3>1. s # a /\ Same(s) /\ Bound(s)' = Bound(s)
      BY <1>10, <2>1, DeliverFacts
    <3>2. PICK q \in Procs, d \in Fds : sockets'[q][d] = s
      BY <2>1 DEF Registered
    <3>3. sockets[q][d] = s
      BY <1>10, <3>1, <3>2, DeliverFacts
    <3> QED BY <2>1, <3>1, <3>3 DEF Same, Registered
  <2> QED BY <1>2, <1>10, <2>1, DeliverFacts
<1> QED BY <1>3, <1>4, <1>5, <1>7, <1>8, <1>9, <1>10 DEF Says

\* What the kernel takes away is no Bypassed socket's.
LEMMA StepBypassedInstalled ==
    ASSUME OwnerInv, TypeInv', NamesInv, BypassedInstalled, Leaving, Says,
           Alone, ~Kills, ~SilentCloses, ~FeatureRDMA
    PROVE  BypassedInstalled'
<1> USE DEF NamesInv
<1>1. ASSUME \A p \in Procs, fd \in Fds, s \in SockIds :
                sockets'[p][fd] = s /\ St(s)' = "Bypassed"
                   => kfd'[p][fd] \in Conns \cup VAddrs
      PROVE  BypassedInstalled'
  <2>1. \A p \in Procs, fd \in Fds : sockets'[p][fd] \in SockIds \cup {None}
    BY DEF TypeInv, TablesOK
  <2> QED BY <1>1, <2>1 DEF BypassedInstalled
<1>2. ASSUME NEW p \in Procs, NEW fd \in Fds, NEW s \in SockIds,
             sockets[p][fd] = s, St(s) = "Bypassed"
      PROVE  kfd[p][fd] \in Conns \cup VAddrs
  BY <1>2, NoValues DEF BypassedInstalled
<1>3. CASE Quiet
  <2> SUFFICES ASSUME NEW p \in Procs, NEW fd \in Fds, NEW s \in SockIds,
                      sockets'[p][fd] = s, St(s)' = "Bypassed"
               PROVE  kfd'[p][fd] \in Conns \cup VAddrs
    BY <1>1
  <2>1. sockets[p][fd] = s /\ kfd[p][fd] \in Conns \cup VAddrs
    BY <1>2, <1>3, NoValues DEF Quiet, Same
  <2>2. ASSUME NEW t \in Threads, KernelReturn(t) \/ User(t)
        PROVE  kfd'[p][fd] = kfd[p][fd]
    <3>1. p \in Threads /\ kfd[p][fd] # Closed /\ s # None
      BY <2>1, ContainersOwn, ContainerAssumption, NoValues DEF Procs
    <3>2. CASE p = t
      <4>1. ~(phase[t] = "continued" /\ call[t].name = "exit_group")
        BY <2>1, <3>1, <3>2 DEF Leaving
      <4>2. ~(phase[t] = "continued" /\ call[t].name = "close" /\ fd = call[t].fd)
        BY <2>1, <3>1, <3>2 DEF Leaving
      <4>3. TypeInv
        BY DEF OwnerInv, StatusInv
      <4>4. \/ kfd[t][fd] # Closed /\ ~SilentCloses => kfd'[t][fd] = kfd[t][fd]
            \/ /\ phase[t] = "continued" /\ call[t].name = "close"
               /\ fd # call[t].fd => kfd'[t][fd] = kfd[t][fd]
            \/ phase[t] = "continued" /\ call[t].name = "exit_group"
        BY <2>2, <4>3, ThreadSteps
      <4> QED BY <3>1, <3>2, <4>1, <4>2, <4>4
    <3>3. CASE p # t
      BY <2>2, <3>1, <3>3, ThreadSteps DEF OwnerInv, StatusInv
    <3> QED BY <3>2, <3>3
  <2> QED BY <1>3, <2>1, <2>2 DEF Quiet
<1>4. ASSUME NEW p \in Procs, NEW fd \in Fds, NEW x \in SockIds, Renewed(p, fd, x)
      PROVE  BypassedInstalled'
  <2> SUFFICES ASSUME NEW q \in Procs, NEW d \in Fds, NEW s \in SockIds,
                      sockets'[q][d] = s, St(s)' = "Bypassed"
               PROVE  kfd'[q][d] \in Conns \cup VAddrs
    BY <1>1
  <2>1. s # x
    BY <1>4 DEF Renewed
  <2>2. sockets[q][d] = s /\ St(s) = "Bypassed" /\ kfd'[q][d] = kfd[q][d]
    BY <1>4, <2>1 DEF Renewed, Same
  <2> QED BY <1>2, <2>2
<1>5. ASSUME NEW o \in SockIds, Alters(o), UNCHANGED kfd, St(o)' # "Bypassed"
      PROVE  BypassedInstalled'
  <2> SUFFICES ASSUME NEW p \in Procs, NEW fd \in Fds, NEW s \in SockIds,
                      sockets'[p][fd] = s, St(s)' = "Bypassed"
               PROVE  kfd'[p][fd] \in Conns \cup VAddrs
    BY <1>1
  <2>1. sockets[p][fd] = s /\ St(s) = "Bypassed"
    BY <1>5 DEF Alters, Same
  <2> QED BY <1>2, <1>5, <2>1
<1>6. ASSUME NEW o \in SockIds, Addressed(o) \/ Dialling(o) PROVE BypassedInstalled'
  BY <1>5, <1>6 DEF Addressed, Dialling, Passed
<1>7. ASSUME NEW o \in SockIds, NEW e \in Entries, Binding(o, e)
      PROVE  BypassedInstalled'
  <2>1. At("bind") /\ o = cur.s /\ cur # None
    BY <1>7 DEF Binding, Alters
  <2>2. St(o) = "NotBypassed"
    BY <2>1, ServedFacts
  <2> QED BY <1>5, <1>7, <2>2 DEF Binding, Same
<1>8. ASSUME NEW o \in SockIds, NEW to, Settled(o, to) PROVE BypassedInstalled'
  BY <1>5, <1>8 DEF Settled
<1>9. ASSUME NEW o \in SockIds, Connected(o) PROVE BypassedInstalled'
  <2> SUFFICES ASSUME NEW p \in Procs, NEW fd \in Fds, NEW s \in SockIds,
                      sockets'[p][fd] = s, St(s)' = "Bypassed"
               PROVE  kfd'[p][fd] \in Conns \cup VAddrs
    BY <1>1
  <2>1. sockets[p][fd] = s /\ (s # o => St(s) = "Bypassed")
    BY <1>9 DEF Connected, Alters, Same
  <2>2. /\ kfd'[p][fd] = IF p = Tgid[cur.t] /\ fd = cur.call.fd
                         THEN cur.call.addr ELSE kfd[p][fd]
        /\ sockets[Tgid[cur.t]][cur.call.fd] = o /\ cur.call.addr \in VAddrs
        /\ Tgid[cur.t] \in Procs /\ cur.call.fd \in Fds
    BY <1>9, ServedFacts DEF Connected, Alters
  <2>3. CASE p = Tgid[cur.t] /\ fd = cur.call.fd
    BY <2>2, <2>3
  <2>4. CASE ~(p = Tgid[cur.t] /\ fd = cur.call.fd)
    <3>1. s # o
      BY <2>1, <2>2, <2>4, NoValues DEF OwnerInv, StatusInv, SlotsOnce
    <3> QED BY <1>2, <2>1, <2>2, <2>4, <3>1
  <2> QED BY <2>3, <2>4
<1>10. ASSUME NEW r \in SockIds, NEW p \in Procs, NEW newfd \in Fds,
              NEW a \in SockIds, Deliver(r, p, newfd, a)
       PROVE  BypassedInstalled'
  <2> SUFFICES ASSUME NEW q \in Procs, NEW d \in Fds, NEW s \in SockIds,
                      sockets'[q][d] = s, St(s)' = "Bypassed"
               PROVE  kfd'[q][d] \in Conns \cup VAddrs
    BY <1>1
  <2>1. CASE q = p /\ d = newfd
    BY <1>10, <2>1, DeliverFacts
  <2>2. CASE q # p \/ d # newfd
    <3>1. sockets[q][d] = s /\ kfd'[q][d] = kfd[q][d] /\ s # a
      BY <1>10, <2>2, DeliverFacts
    <3>2. St(s) = "Bypassed"
      BY <1>10, <3>1, DeliverFacts DEF Same
    <3> QED BY <1>2, <3>1, <3>2
  <2> QED BY <2>1, <2>2
<1> QED BY <1>3, <1>4, <1>6, <1>7, <1>8, <1>9, <1>10 DEF Says

-----------------------------------------------------------------------------
(* The results. *)

LEMMA InitNames ==
    ASSUME Init
    PROVE  NamesInv /\ Came /\ BoundHeld /\ BypassedInstalled
<1>1. /\ \A s \in SockIds : St(s) = "Unused" /\ \A n \in HostFds : Keys(s)[n] = None
      /\ \A p \in Procs, fd \in Fds : sockets[p][fd] = None
      /\ cur = None /\ listening = {}
      /\ \A c \in Conns : conn[c].st = "new" /\ conn[c].lsn = None
  BY DEF Init, HostInit, NewStatus, St, Keys
<1>2. \A s \in SockIds : Bound(s) = {} /\ Heard(s) = {}
  BY <1>1, NoValues DEF Bound, Heard
<1>3. ListenersServed /\ UnboundBare /\ LoopsNamed /\ BoundHeld
  BY <1>1, <1>2 DEF ListenersServed, UnboundBare, LoopsNamed, BoundHeld, At
<1> QED BY <1>1, <1>3 DEF NamesInv, SlotsNamed, Came, BypassedInstalled

\* The invariant of the results below.
Named == OwnerInv /\ NamesInv /\ Came

LEMMA InitNamed ==
    ASSUME Init
    PROVE  Named
  BY InitNames, InitOwner DEF Named

LEMMA StepNamed ==
    ASSUME Named, [Next /\ ~AcceptAddFdFails]_vars
    PROVE  Named' /\ Says
<1>1. OwnerInv' /\ TypeInv' /\ Moves
  BY StepOwnerInv DEF Named, OwnerInv, StatusInv
<1>2. Says
  BY StepSays DEF Named, NamesInv
<1>3. TypeInv
  BY DEF Named, OwnerInv, StatusInv
<1> QED BY <1>1, <1>2, <1>3, StepListenersServed, StepUnboundBare, StepLoopsNamed,
           StepSlotsNamed, StepCame DEF Named, NamesInv

\* While no ADDFD fails getpeername and getsockname tell the truth: what the
\* status of a bypassed socket records are the addresses of the connection that
\* is behind the descriptor, and the peer came in through an entry of the local
\* one, whatever was bound, listened on, connected and closed before.
THEOREM NamesAreTrue ==
    AddFdSpec => []NamesTrue
<1>1. Named /\ [Next /\ ~AcceptAddFdFails]_vars => Named'
  BY StepNamed
<1>2. Init => Named
  BY InitNamed
<1>3. Named => NamesTrue
  <2>1. SlotsNamed => NamesTrue
    BY DEF SlotsNamed, NamesTrue, St, Local, Remote, Served
  <2> QED BY <2>1 DEF Named, NamesInv
<1> QED BY <1>1, <1>2, <1>3, PTL DEF AddFdSpec

\* While no ADDFD fails a socket that tells its container it is bound or listening
\* still holds a host socket for an entry of the address that it reports; with
\* RDMA enabled it may rest on what the process's library does instead.
THEOREM BoundHasBacking ==
    ASSUME ~FeatureRDMA
    PROVE  AddFdSpec => []BoundBacked
<1> DEFINE Inv == Named /\ BoundHeld
<1>1. Init => Inv
  BY InitNamed, InitNames
<1>2. Inv /\ [Next /\ ~AcceptAddFdFails]_vars => Inv'
  BY StepNamed, StepBoundHeld DEF Named
<1>3. Inv => BoundBacked
  <2> SUFFICES ASSUME Inv, NEW s \in SockIds, Registered(s),
                      St(s) \in {"Binded", "Listening"}
               PROVE  \E n \in HostFds : /\ hfd[n] \in Listener /\ hfd[n][1] = s
                                         /\ hfd[n][2] \in Served(s)
    BY DEF BoundBacked, Served, St, Local
  <2>1. PICK l \in Listener, n \in HostFds : Keys(s)[n] = l
    BY DEF BoundHeld, Bound
  <2>2. l[2] \in Served(s)
    BY <2>1 DEF Named, NamesInv, ListenersServed, Bound
  <2>3. hfd[n] = l /\ l[1] = s
    BY <2>1, NoValues
       DEF Named, OwnerInv, Owner, KeysSound, StatusInv, ListenersOwn
  <2> QED BY <2>2, <2>3
<1> QED BY <1>1, <1>2, <1>3, PTL DEF AddFdSpec

\* While no ADDFD fails the descriptor of a bypassed socket is a socket of the
\* host, if processes have one thread each, are not killed, close through
\* reported calls and do not connect themselves over RDMA.
THEOREM BypassedIsReplaced ==
    ASSUME Alone, ~Kills, ~SilentCloses, ~FeatureRDMA
    PROVE  AddFdSpec => []BypassedReplaced
<1> DEFINE Inv == Named /\ Leaving /\ BypassedInstalled
<1>1. Init => Inv
  BY InitNamed, InitNames, InitLeaving
<1>2. ASSUME Inv, [Next /\ ~AcceptAddFdFails]_vars
      PROVE  Inv'
  <2>1. Named' /\ Says /\ TypeInv' /\ TypeInv
    BY <1>2, StepNamed DEF Named, OwnerInv, StatusInv
  <2>2. [Next]_vars
    BY <1>2
  <2> QED BY <1>2, <2>1, <2>2, StepLeaving, StepBypassedInstalled DEF Named
<1>3. Inv => BypassedReplaced
  BY DEF BypassedInstalled, BypassedReplaced, St
<1> QED BY <1>1, <1>2, <1>3, PTL DEF AddFdSpec

\* All of that holds of every behaviour of a container whose processes have one
\* thread each and are neither signalled nor killed while they wait.
THEOREM UndisturbedNames ==
    ASSUME Undisturbed
    PROVE  Spec => /\ []NamesTrue
                   /\ ~FeatureRDMA => []BoundBacked
                   /\ ~SilentCloses /\ ~FeatureRDMA => []BypassedReplaced
<1>1. Alone /\ ~Kills
  BY DEF Undisturbed, Alone
<1> QED BY <1>1, AddFdNeverFails, NamesAreTrue, BoundHasBacking, BypassedIsReplaced

-----------------------------------------------------------------------------
(* A socket that is Listening is accepted from. *)

\* The goroutine of l works.
Working(l) == g[l].pc \notin {"none", "done"}

\* A failure that comes from outside: the accepted connection would exceed the
\* descriptor limit, there is none and O_NONBLOCK was set, or its peer sent no
\* address.
FailsOutside(l) ==
    /\ Registered(l[1])
    /\ \/ GRecvFails(l)
       \/ GAcceptFails(l) /\ AtG(l, "blocked") /\ (NoFreeFd \/ g[l].nowait)

\* The behaviours without such failures.
SteadySpec ==
    Init /\ [][/\ Next /\ ~AcceptAddFdFails
               /\ \A l \in Listener : ~FailsOutside(l)]_vars

\* What is in the map of a registered socket was not told to stop.
Wanted ==
    \A s \in SockIds, n \in HostFds, l \in Listener :
        Registered(s) /\ Keys(s)[n] = l => ~hs[l].Cancelled

\* The goroutines of a registered socket have a listener to work for.
Live ==
    \A l \in Listener : Registered(l[1]) /\ Working(l) => l \in listening

Attended ==
    \A s \in SockIds : Registered(s) /\ St(s) = "Listening" =>
        \E l \in Listener : l[1] = s /\ Working(l)

SteadyInv ==
    /\ Named
    /\ Wanted /\ Live /\ Attended

\* A listener stops only when a number of it is closed.
LEMMA ListeningKept ==
    ASSUME OwnerInv, [Next]_vars, NEW l \in listening, l \notin listening'
    PROVE  \E n \in HostFds : hfd[n] = l /\ hfd'[n] = Free
<1>0. TypeInv
  BY DEF OwnerInv, StatusInv
<1>1. ASSUME NEW N \in SUBSET HostFds, CloseFds(N)
      PROVE  \E n \in HostFds : hfd[n] = l /\ hfd'[n] = Free
  BY <1>1 DEF CloseFds
<1>2. ASSUME NEW S, Remove(S)
      PROVE  \E n \in HostFds : hfd[n] = l /\ hfd'[n] = Free
  BY <1>1, <1>2 DEF Remove, HeldFds
<1>3. ASSUME listening \subseteq listening' PROVE FALSE
  BY <1>3
<1>4. ASSUME NEW t \in Threads, Receive(t) \/ KernelReturn(t) \/ User(t)
      PROVE  \E n \in HostFds : hfd[n] = l /\ hfd'[n] = Free
  BY <1>2, <1>3, <1>4
     DEF Receive, HandleExit, HandleThreadExit, HandleClose, Lookup, Register,
         RegisterFails, KernelReturn, User, hostVars
<1>5. CASE PassThrough \/ Getname \/ HandleConnect \/ HandleOptions
  BY <1>3, <1>5
     DEF PassThrough, Getname, HandleConnect, ConnectBadAddr, ConnectRefused,
         ConnectStart, ConnectNextTransport, ConnectFails, ConnectEntry,
         ConnectEntryFails, ConnectRDMA, HandleOptions, Setsockopt, SetFlags,
         Getfl, hostVars
<1>6. CASE HandleBind \/ HandleListen \/ AcceptRefused
  BY <1>3, <1>6
     DEF HandleBind, BindRefused, BindBadAddr, BindUnknown, BindStart, BindDone,
         BindEntry, BindEntryFails, BindEntryElse, HandleListen, ListenAgain,
         ListenUnexpected, Listen, AcceptRefused, hostVars
<1>7. CASE Reregister
  BY <1>2, <1>7 DEF Reregister
<1>8. CASE AcceptDeliver \/ AcceptAddFdFails
  <2>1. Head(Waits(cur.s)).fd \in HostFds /\ CloseFds({Head(Waits(cur.s)).fd})
    <3>1. cur # None /\ Waits(cur.s) # <<>>
      BY <1>8 DEF AcceptDeliver, AcceptAddFdFails, On, At, Waits
    <3>2. cur.s \in SockIds
      BY <3>1, ServedFacts
    <3>3. Waits(cur.s) \in Seq(Accepted)
      BY <1>0, <3>2, QueueType
    <3>4. Head(Waits(cur.s)) \in Accepted
      BY <3>1, <3>3
    <3> QED BY <1>8, <3>4
            DEF AcceptDeliver, AcceptAddFdFails, CloseAccepted, Waits, Accepted
  <2> QED BY <1>1, <2>1
<1>9. ASSUME NEW k \in Listener, TransportAccept(k)
      PROVE  \E n \in HostFds : hfd[n] = l /\ hfd'[n] = Free
  <2>1. CASE GDeny(k)
    <3>1. g[k].fd \in HostFds
      BY <1>0, <2>1, GoroutineType DEF GDeny, Received, AtG
    <3> QED BY <1>1, <2>1, <3>1 DEF GDeny
  <2> QED BY <1>3, <1>9, <2>1
          DEF TransportAccept, GCheck, GEnter, GAccept, GAcceptFails, GRecvFails,
              GEnd, GStore, GSend, hostVars
<1>10. CASE Peers
  BY <1>3, <1>10 DEF Peers, HostNext, PeerConnect, PeerSend, PeerFail, ForeignOpen
<1>11. CASE UNCHANGED vars
  BY <1>3, <1>11 DEF vars, hostVars
<1> QED BY <1>4, <1>5, <1>6, <1>7, <1>8, <1>9, <1>10, <1>11
        DEF Next, HandleCur, HandleAccept

\* The number of a listener is closed only with the socket whose it is.
LEMMA ListenerClosed ==
    ASSUME OwnerInv, Moves, ~AcceptAddFdFails, NEW n \in HostFds,
           hfd[n] \in Listener, hfd'[n] = Free
    PROVE  Registered(hfd[n][1]) /\ Keys(hfd[n][1])[n] = hfd[n]
<1> USE DEF OwnerInv, Owner, StatusInv
<1>1. ASSUME hfd'[n] = hfd[n] PROVE FALSE
  BY <1>1, NoValues
<1>2. CASE Still
  BY <1>1, <1>2, NoValues DEF Still, StillHost
<1>3. ASSUME NEW S, Removal(S)
      PROVE  Registered(hfd[n][1]) /\ Keys(hfd[n][1])[n] = hfd[n]
  <2>1. n \in HeldFds(S)
    BY <1>1, <1>3 DEF Removal, Removing, Closing
  <2> PICK s \in S : Keys(s)[n] # None
    BY <2>1 DEF HeldFds, Keys
  <2>2. s \in SockIds /\ Registered(s)
    BY <1>3 DEF Removal
  <2>3. hfd[n] = Keys(s)[n]
    BY <2>2 DEF KeysSound
  <2> QED BY <2>2, <2>3 DEF ListenersOwn
<1>4. ASSUME NEW t \in Procs, Drop(t)
      PROVE  Registered(hfd[n][1]) /\ Keys(hfd[n][1])[n] = hfd[n]
  BY <1>3, <1>4, DropRemoval
<1>5. ASSUME NEW p \in Procs, NEW fd \in Fds, NEW x \in SockIds \cup {None},
             Renew(p, fd, x)
      PROVE  Registered(hfd[n][1]) /\ Keys(hfd[n][1])[n] = hfd[n]
  BY <1>3, <1>5, RenewRemoval
<1>6. ASSUME NEW e \in Entries, NEW m \in HostFds, Bind(e, m) PROVE FALSE
  BY <1>1, <1>6, NoValues DEF Bind, TypeInv, HostTypeOK
<1>7. ASSUME NEW s \in SockIds, NEW p \in Procs, NEW newfd \in Fds,
             NEW a \in SockIds, Deliver(s, p, newfd, a)
      PROVE  FALSE
  <2>1. hfd[Head(Waits(s)).fd] \in Conns
    BY <1>7, ServedUsed, HeadOwned DEF Deliver
  <2> QED BY <1>1, <1>7, <2>1, NoValues DEF Deliver, Closing
<1>8. ASSUME NEW l \in Listener, Denying(l) PROVE FALSE
  <2>1. hfd[g[l].fd] \in Conns
    BY <1>8, GoroutineType DEF Denying, Receiving
  <2> QED BY <1>1, <1>8, <2>1, NoValues DEF Denying, Closing
<1>9. ASSUME NEW l \in Listener, NEW c \in Conns, NEW m \in HostFds,
             Accepting(l, c, m)
      PROVE  FALSE
  BY <1>1, <1>9, AcceptingFacts, NoValues
<1> QED BY <1>1, <1>2, <1>4, <1>5, <1>6, <1>7, <1>8, <1>9
        DEF Moves, Start, Turn, Storing, Queueing, Arriving

\* A registered socket keeps the listeners in its map.
LEMMA ListenerStays ==
    ASSUME OwnerInv, Moves, ~AcceptAddFdFails, NEW s \in SockIds, NEW n \in HostFds,
           Registered(s), Keys(s)[n] \in Listener
    PROVE  Keys(s)'[n] = Keys(s)[n]
<1> USE DEF OwnerInv, Owner, StatusInv
<1>0. Keys(s) \in [HostFds -> Listener \cup Conns \cup {None}]
  BY StatusType
<1>1. hfd[n] \in Listener /\ sock[s].state # "Unused"
  BY NoValues DEF KeysSound, Registered, Slots, SlotsUsed
<1>2. CASE Still
  BY <1>2 DEF Still, StillStatus
<1>3. ASSUME NEW p \in Procs, NEW fd \in Fds, NEW x \in SockIds \cup {None},
             Renew(p, fd, x)
      PROVE  Keys(s)'[n] = Keys(s)[n]
  BY <1>1, <1>3, RenewStatus
<1>4. ASSUME NEW e, NEW m \in HostFds, Bind(e, m)
      PROVE  Keys(s)'[n] = Keys(s)[n]
  BY <1>0, <1>1, <1>4, NoValues DEF Bind
<1>5. ASSUME NEW r \in SockIds, NEW p \in Procs, NEW newfd \in Fds,
             NEW a \in SockIds, Deliver(r, p, newfd, a)
      PROVE  Keys(s)'[n] = Keys(s)[n]
  <2>1. Registered(r) /\ Waits(r) # <<>>
    BY <1>5, ServedUsed DEF Deliver
  <2>2. hfd[Head(Waits(r)).fd] \in Conns
    BY <2>1, HeadOwned
  <2>3. n # Head(Waits(r)).fd
    BY <1>1, <2>2, NoValues
  <2> QED BY <1>0, <1>5, <2>3 DEF Deliver
<1>6. ASSUME NEW l \in Listener, Storing(l) PROVE Keys(s)'[n] = Keys(s)[n]
  <2>1. n # g[l].fd
    BY <1>1, <1>6, NoValues, GoroutineType DEF Storing, Receiving
  <2> QED BY <1>0, <1>6, <2>1 DEF Storing
<1>7. ASSUME UNCHANGED sock \/ (\A r \in SockIds : Keys(r)' = Keys(r))
      PROVE  Keys(s)'[n] = Keys(s)[n]
  BY <1>7 DEF Keys
<1> QED BY <1>2, <1>3, <1>4, <1>5, <1>6, <1>7
        DEF Moves, Drop, Start, Turn, Accepting, Denying, Queueing, Arriving

\* A socket that gets registered was not used before.
LEMMA RegisteredNew ==
    ASSUME OwnerInv, Moves, ~AcceptAddFdFails, NEW s \in SockIds,
           Registered(s)', ~Registered(s)
    PROVE  sock[s].state = "Unused"
<1>1. PICK q \in Procs, d \in Fds : sockets'[q][d] = s
  BY DEF Registered
<1>2. sockets[q][d] # s
  BY DEF Registered
<1>3. s # None
  BY NoValues
<1>4. ASSUME NEW t \in Procs, Drop(t) PROVE FALSE
  BY <1>1, <1>2, <1>3, <1>4 DEF Drop
<1>5. ASSUME NEW p \in Procs, NEW fd \in Fds, NEW x \in SockIds \cup {None},
             Renew(p, fd, x)
      PROVE  sock[s].state = "Unused"
  <2>1. s = x
    BY <1>1, <1>2, <1>5 DEF Renew
  <2> QED BY <1>5, <2>1, RenewStatus DEF OwnerInv, StatusInv
<1>6. ASSUME NEW r \in SockIds, NEW p \in Procs, NEW newfd \in Fds,
             NEW a \in SockIds, Deliver(r, p, newfd, a)
      PROVE  sock[s].state = "Unused"
  <2>1. q = p /\ d = newfd /\ s = a
    BY <1>1, <1>2, <1>6 DEF Deliver
  <2> QED BY <1>2, <1>6, <2>1 DEF Deliver, Fresh
<1>7. ASSUME UNCHANGED sockets PROVE FALSE
  BY <1>1, <1>2, <1>7
<1> QED BY <1>4, <1>5, <1>6, <1>7
        DEF Moves, Still, StillStatus, Bind, Start, Turn, Accepting, Denying,
            Storing, Queueing, Arriving

\* How a goroutine starts and ends.
LEMMA WorkingSteps ==
    ASSUME OwnerInv, Moves, ~AcceptAddFdFails, NEW l \in Listener
    PROVE  /\ Working(l)' => Working(l) \/ l \in listening'
           /\ Working(l) /\ ~Working(l)' => hs[l].Cancelled \/ Failing(l)
<1> USE DEF OwnerInv, StatusInv, Working
<1>1. ASSUME g'[l] = g[l] PROVE Working(l)' = Working(l)
  BY <1>1
<1>2. ASSUME NEW k \in Listener, Elsewhere(k), k # l
      PROVE  Working(l)' = Working(l)
  BY <1>1, <1>2 DEF Elsewhere
<1>3. ASSUME NEW up \in SUBSET Listener, Start(up)
      PROVE  /\ Working(l)' => Working(l) \/ l \in listening'
             /\ Working(l) => Working(l)'
  BY <1>3 DEF Start, NoGoroutine
<1>4. ASSUME NEW k \in Listener, Turn(k)
      PROVE  /\ Working(l)' => Working(l)
             /\ Working(l) /\ ~Working(l)' => hs[l].Cancelled \/ Failing(l)
  BY <1>2, <1>4, TurnFacts
<1>5. ASSUME NEW k \in Listener, Denying(k) \/ Storing(k) \/ Queueing(k)
      PROVE  Working(l)' = Working(l)
  <2>1. /\ Elsewhere(k) /\ g[k].pc \in {"recv", "send"}
        /\ g'[k].pc \in {"check", "send"}
    BY <1>5, GotoFacts, StoringFacts DEF Denying, Queueing, Storing
  <2> QED BY <1>2, <2>1
<1>6. ASSUME NEW k \in Listener, NEW c \in Conns, NEW n \in HostFds,
             Accepting(k, c, n)
      PROVE  Working(l)' = Working(l)
  BY <1>2, <1>6, AcceptingFacts
<1>7. CASE Still \/ (\E p \in Procs : Drop(p))
                \/ \E c \in Conns, k \in Listener : Arriving(c, k)
  BY <1>1, <1>7 DEF Still, StillStatus, Arriving, Drop
<1>8. CASE \E p \in Procs, fd \in Fds, s \in SockIds \cup {None} :
              Renew(p, fd, s)
  BY <1>1, <1>8 DEF Renew
<1>9. CASE \E e \in Entries, n \in HostFds : Bind(e, n)
  BY <1>1, <1>9 DEF Bind
<1>10. CASE \E s \in SockIds, p \in Procs, newfd \in Fds, a \in SockIds :
               Deliver(s, p, newfd, a)
  BY <1>1, <1>10 DEF Deliver
<1> QED BY <1>3, <1>4, <1>5, <1>6, <1>7, <1>8, <1>9, <1>10 DEF Moves

\* The goroutines of a registered socket fail for no reason of the handler's own:
\* the number they accept from is that of their listener, and it listens.
LEMMA FailuresOutside ==
    ASSUME OwnerInv, Live, NEW l \in Listener, Registered(l[1]), ~FailsOutside(l)
    PROVE  ~Failing(l)
<1> SUFFICES ASSUME Failing(l) PROVE FALSE
  OBVIOUS
<1>1. GAcceptFails(l) /\ ~(AtG(l, "blocked") /\ (NoFreeFd \/ g[l].nowait))
  BY DEF Failing, FailsOutside
<1>2. \/ AtG(l, "enter") /\ hfd[hs[l].Sockfd] \notin listening
      \/ AtG(l, "blocked") /\ g[l].file \notin listening
  BY <1>1 DEF GAcceptFails
<1>3. l \in listening
  BY <1>2 DEF Live, Working, AtG
<1>4. /\ hs[l].Sockfd \in HostFds /\ Keys(l[1])[hs[l].Sockfd] = l
      /\ g[l].pc = "blocked" => g[l].file = l
  BY <1>2 DEF OwnerInv, Owner, Attached, AtG
<1>5. hfd[hs[l].Sockfd] = l
  BY <1>4, NoValues, ListenerParts DEF OwnerInv, Owner, KeysSound
<1> QED BY <1>2, <1>3, <1>4, <1>5 DEF AtG

LEMMA StepWanted ==
    ASSUME OwnerInv, Wanted, Moves, ~AcceptAddFdFails,
           \A l \in Listener : Registered(l[1]) => ~Failing(l)
    PROVE  Wanted'
<1> USE DEF OwnerInv, Owner, StatusInv
<1> SUFFICES ASSUME NEW s \in SockIds, NEW n \in HostFds, NEW l \in Listener,
                    Registered(s)', Keys(s)'[n] = l
             PROVE  ~hs'[l].Cancelled
  BY DEF Wanted
<1>1. ASSUME Registered(s), Keys(s)[n] = l PROVE ~hs[l].Cancelled /\ l[1] = s
  BY <1>1 DEF Wanted, ListenersOwn
<1>2. ASSUME sock[s].state = "Unused" PROVE Keys(s)[n] # l
  BY <1>2, NoValues DEF UnusedEmpty
<1>3. Keys(s)[n] = l => Registered(s)
  BY <1>2, RegisteredNew
<1>4. ASSUME Keys(s)[n] = l, hs'[l].Cancelled = hs[l].Cancelled
      PROVE  ~hs'[l].Cancelled
  BY <1>1, <1>3, <1>4
<1>5. ASSUME NEW S \in SUBSET SockIds, Removing(S), s \notin S, Keys(s)' = Keys(s)
      PROVE  ~hs'[l].Cancelled
  <2>1. l[1] = s
    BY <1>1, <1>3, <1>5
  <2>2. l \notin HeldListeners(S)
    BY <1>5, <2>1 DEF HeldListeners, ListenersOwn, Keys
  <2> QED BY <1>4, <1>5, <2>2 DEF Removing
<1>6. ASSUME NEW t \in Procs, Drop(t) PROVE ~hs'[l].Cancelled
  <2> DEFINE S == {r \in SockIds : \E fd \in Fds : sockets[t][fd] = r}
  <2>1. PICK q \in Procs, d \in Fds : sockets'[q][d] = s
    BY DEF Registered
  <2>2. s # None
    BY NoValues
  <2>3. q # t /\ sockets[q][d] = s
    BY <1>6, <2>1, <2>2 DEF Drop
  <2>4. s \notin S
    BY <2>2, <2>3 DEF SlotsOnce
  <2>5. Removing(S) /\ Keys(s)' = Keys(s) /\ S \in SUBSET SockIds
    BY <1>6 DEF Drop, Keys
  <2> QED BY <1>5, <2>4, <2>5
<1>7. ASSUME NEW p \in Procs, NEW fd \in Fds, NEW x \in SockIds \cup {None},
             Renew(p, fd, x)
      PROVE  ~hs'[l].Cancelled
  <2> DEFINE S == {r \in SockIds : sockets[p][fd] = r}
  <2>1. PICK q \in Procs, d \in Fds : sockets'[q][d] = s
    BY DEF Registered
  <2>2. s # x
    BY <1>7, RenewStatus, NoValues
  <2>3. (q # p \/ d # fd) /\ sockets[q][d] = s /\ s # None
    BY <1>7, <2>1, <2>2, NoValues DEF Renew
  <2>4. s \notin S
    BY <2>3 DEF SlotsOnce
  <2>5. Keys(s)' = Keys(s)
    BY <1>7, <2>2, RenewStatus
  <2>6. Removing(S) /\ S \in SUBSET SockIds
    BY <1>7 DEF Renew
  <2> QED BY <1>5, <2>4, <2>5, <2>6
<1>8. ASSUME NEW e \in Entries, NEW m \in HostFds, Bind(e, m)
      PROVE  ~hs'[l].Cancelled
  <2>1. PICK o \in SockIds : o = cur.s
    BY <1>8, ServedFacts DEF Bind
  <2> DEFINE k == <<o, e>>
             r == [Sockfd |-> m, State |-> "Binded", Cancelled |-> FALSE]
  <2>2. hs' = [hs EXCEPT ![k] = r] /\ hs \in [Listener -> HostSocket]
    BY <1>8, <2>1 DEF Bind, TypeInv, TablesOK
  <2>3. ~r.Cancelled
    OBVIOUS
  <2>4. Keys(s)' = IF s = o THEN [Keys(s) EXCEPT ![m] = k] ELSE Keys(s)
    BY <1>8, <2>1 DEF Bind
  <2>5. Keys(s) \in [HostFds -> Listener \cup Conns \cup {None}]
    BY StatusType
  <2> HIDE DEF k, r
  <2>6. CASE l = k
    BY <2>2, <2>3, <2>6
  <2>7. CASE l # k
    BY <1>4, <2>2, <2>4, <2>5, <2>7
  <2> QED BY <2>6, <2>7
<1>9. ASSUME NEW r \in SockIds, NEW p \in Procs, NEW newfd \in Fds,
             NEW a \in SockIds, Deliver(r, p, newfd, a)
      PROVE  ~hs'[l].Cancelled
  <2>1. Keys(s) \in [HostFds -> Listener \cup Conns \cup {None}]
    BY StatusType
  <2>2. Keys(s)' = Keys(s) \/ Keys(s)' = [Keys(s) EXCEPT ![Head(Waits(r)).fd] = None]
    BY <1>9 DEF Deliver
  <2>3. Keys(s)[n] = l
    BY <2>1, <2>2, NoValues
  <2> QED BY <1>4, <1>9, <2>3 DEF Deliver
<1>10. ASSUME NEW k \in Listener, Turn(k) PROVE ~hs'[l].Cancelled
  <2>1. Keys(s)[n] = l
    BY <1>10 DEF Turn, Keys
  <2>2. k # l \/ ~Failing(k)
    BY <1>1, <1>3, <2>1
  <2> QED BY <1>4, <1>10, <2>1, <2>2 DEF Turn
<1>11. ASSUME NEW k \in Listener, Storing(k) PROVE ~hs'[l].Cancelled
  <2>1. Keys(s) \in [HostFds -> Listener \cup Conns \cup {None}]
    BY StatusType
  <2>2. Keys(s)' = Keys(s) \/ Keys(s)' = [Keys(s) EXCEPT ![g[k].fd] = g[k].conn]
    BY <1>11 DEF Storing
  <2>3. g[k].conn \in Conns
    BY <1>11, StoringFacts
  <2>4. Keys(s)[n] = l
    BY <2>1, <2>2, <2>3, NoValues
  <2> QED BY <1>4, <1>11, <2>4 DEF Storing
<1>12. ASSUME \A r \in SockIds : Keys(r)' = Keys(r),
              hs'[l].Cancelled = hs[l].Cancelled
       PROVE  ~hs'[l].Cancelled
  BY <1>4, <1>12
<1> QED BY <1>6, <1>7, <1>8, <1>9, <1>10, <1>11, <1>12
        DEF Moves, Still, StillStatus, Start, Accepting, Denying, Queueing,
            Arriving, Keys

LEMMA StepLive ==
    ASSUME OwnerInv, OwnerInv', Live, Moves, [Next]_vars, ~AcceptAddFdFails
    PROVE  Live'
<1> SUFFICES ASSUME NEW l \in Listener, Registered(l[1])', Working(l)',
                    l \notin listening'
             PROVE  FALSE
  BY DEF Live
<1>0. l[1] \in SockIds /\ l = <<l[1], l[2]>> /\ l[2] \in Entries
  BY ListenerParts
<1>1. Working(l)
  BY WorkingSteps
<1>2. Registered(l[1])
  <2>1. ASSUME sock[l[1]].state = "Unused" PROVE FALSE
    BY <1>0, <1>1, <2>1, FreshBlank DEF OwnerInv, Blank, Working
  <2> QED BY <1>0, <2>1, RegisteredNew
<1>3. PICK n \in HostFds : hfd[n] = l /\ hfd'[n] = Free
  BY <1>1, <1>2, ListeningKept DEF Live
<1>4. Keys(l[1])'[n] = l
  <2>1. Keys(l[1])[n] = l
    BY <1>3, ListenerClosed
  <2> QED BY <1>0, <1>2, <2>1, ListenerStays
<1>5. hfd'[n] = l
  BY <1>0, <1>4, NoValues DEF OwnerInv, Owner, KeysSound
<1> QED BY <1>3, <1>5, NoValues

LEMMA StepAttended ==
    ASSUME OwnerInv, Wanted, Attended, Moves, Says, ~AcceptAddFdFails, ~FeatureRDMA,
           \A l \in Listener : Registered(l[1]) => ~Failing(l)
    PROVE  Attended'
<1> SUFFICES ASSUME NEW s \in SockIds, Registered(s)', St(s)' = "Listening",
                    \A l \in Listener : l[1] = s => ~Working(l)'
             PROVE  FALSE
  BY DEF Attended
<1>1. ASSUME Registered(s), St(s) = "Listening" PROVE FALSE
  <2>1. PICK l \in Listener : l[1] = s /\ Working(l)
    BY <1>1 DEF Attended
  <2>2. hs[l].Cancelled
    BY <1>1, <2>1, WorkingSteps
  <2>3. hs[l].Sockfd \in HostFds /\ Keys(s)[hs[l].Sockfd] = l
    BY <1>1, <2>1 DEF OwnerInv, Owner, Attached, Working
  <2> QED BY <1>1, <2>2, <2>3 DEF Wanted
<1>2. sock[s].state # "Unused" => Registered(s)
  BY RegisteredNew
<1>3. ASSUME St(s)' = St(s) PROVE FALSE
  BY <1>1, <1>2, <1>3 DEF St
<1>4. ASSUME NEW o \in SockIds, NEW to, Settled(o, to) PROVE FALSE
  <2>1. s = o /\ to = "Listening"
    BY <1>3, <1>4 DEF Settled, Alters, Same
  <2>2. PICK l \in Listener : l[1] = o /\ g'[l].pc = "check"
    BY <1>4, <2>1 DEF Settled
  <2> QED BY <2>1, <2>2 DEF Working
<1>5. ASSUME NEW r \in SockIds, NEW p \in Procs, NEW newfd \in Fds,
             NEW a \in SockIds, Deliver(r, p, newfd, a)
      PROVE  FALSE
  <2>1. s # a /\ Same(s)
    BY <1>5, DeliverFacts
  <2> QED BY <1>3, <2>1 DEF Same
<1>6. ASSUME NEW p \in Procs, NEW fd \in Fds, NEW x \in SockIds, Renewed(p, fd, x)
      PROVE  FALSE
  <2>1. s # x /\ Same(s)
    BY <1>6 DEF Renewed
  <2> QED BY <1>3, <2>1 DEF Same
<1>7. ASSUME NEW o \in SockIds, Addressed(o) \/ Dialling(o) PROVE FALSE
  BY <1>3, <1>7 DEF Addressed, Dialling, Alters, Same
<1>8. ASSUME NEW o \in SockIds, Connected(o) PROVE FALSE
  BY <1>3, <1>8 DEF Connected, Alters, Same
<1>9. ASSUME NEW o \in SockIds, NEW e \in Entries, Binding(o, e) PROVE FALSE
  BY <1>3, <1>9 DEF Binding, Alters, Same
<1>10. CASE Quiet
  BY <1>3, <1>10 DEF Quiet, Same
<1> QED BY <1>4, <1>5, <1>6, <1>7, <1>8, <1>9, <1>10 DEF Says

\* While no ADDFD fails a socket that is Listening has a goroutine that accepts,
\* unless one failed for a reason outside the daemon (a descriptor limit,
\* O_NONBLOCK, a peer that sent no address): no reuse of numbers, removal of
\* another socket or turn of the handler ends it or stops its listener.
THEOREM ListeningIsAttended ==
    ASSUME ~FeatureRDMA
    PROVE  SteadySpec => []ListeningHasAcceptor
<1>1. Init => SteadyInv
  <2> SUFFICES ASSUME Init PROVE SteadyInv
    OBVIOUS
  <2>1. /\ \A s \in SockIds : St(s) = "Unused" /\ \A n \in HostFds : Keys(s)[n] = None
        /\ \A l \in Listener : g[l].pc = "none"
    BY DEF Init, NewStatus, NoGoroutine, St, Keys
  <2>2. Wanted /\ Live /\ Attended
    BY <2>1, NoValues DEF Wanted, Live, Attended, Working
  <2> QED BY <2>2, InitNamed DEF SteadyInv
<1>2. ASSUME SteadyInv,
             [/\ Next /\ ~AcceptAddFdFails
              /\ \A l \in Listener : ~FailsOutside(l)]_vars
      PROVE  SteadyInv'
  <2>1. [Next]_vars /\ [Next /\ ~AcceptAddFdFails]_vars
    BY <1>2
  <2>2. Named' /\ Says /\ OwnerInv /\ OwnerInv' /\ Moves
    BY <1>2, <2>1, StepNamed, StepOwnerInv DEF SteadyInv, Named
  <2>4. CASE ~AcceptAddFdFails /\ \A l \in Listener : ~FailsOutside(l)
    <3>1. \A l \in Listener : Registered(l[1]) => ~Failing(l)
      BY <1>2, <2>2, <2>4, FailuresOutside DEF SteadyInv
    <3> QED BY <1>2, <2>1, <2>2, <2>4, <3>1, StepWanted, StepLive,
               StepAttended DEF SteadyInv
  <2>5. CASE UNCHANGED vars
    <3>1. Wanted' /\ Live' /\ Attended'
      BY <1>2, <2>5
         DEF SteadyInv, Wanted, Live, Attended, Registered, Keys, Working, St,
             vars, hostVars, seccompVars
    <3> QED BY <2>2, <3>1 DEF SteadyInv
  <2> QED BY <1>2, <2>4, <2>5
<1>3. SteadyInv => ListeningHasAcceptor
  <2>1. \A l \in Listener : l[2] \in Entries /\ l = <<l[1], l[2]>>
    BY ListenerParts
  <2> QED BY <2>1 DEF SteadyInv, Attended, ListeningHasAcceptor, Working, St
<1> QED BY <1>1, <1>2, <1>3, PTL DEF SteadySpec
=============================================================================
