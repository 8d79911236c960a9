--------------------------- MODULE SeccompProofs ----------------------------
(***************************************************************************)
(* What holds of the handler for every workload, table and number of       *)
(* descriptors, threads, sockets and peers.                                *)
(***************************************************************************)
EXTENDS Seccomp, SequenceTheorems, TLAPS

-----------------------------------------------------------------------------
(* The type invariant by the parts of the system its conjuncts speak of. *)

\* The calls of the threads.
ThreadOK ==
    /\ phase \in [Threads -> Phases]
    /\ call \in [Threads -> Calls \cup {None}]
    /\ \A t \in Threads :
          phase[t] \in {"notified", "received", "continued"} => call[t] \in Calls

\* The notification in service.
ServingOK ==
    /\ cur \in Serving \cup {None}
    /\ cur # None /\ cur.pc = "connect" => cur.call.addr \in VAddrs

\* The accepting goroutines.
GoroutinesOK ==
    /\ g \in [Listener -> Goroutine]
    /\ \A l \in Listener :
          g[l].pc \in {"recv", "send"} =>
             g[l].conn \in Conns /\ g[l].fd \in HostFds

\* The tables of descriptors and statuses.
TablesOK ==
    /\ kfd \in [Procs -> [Fds -> ContainerFile]]
    /\ sockets \in [Procs -> [Fds -> SockIds \cup {None}]]
    /\ sock \in [SockIds -> SocketStatus]
    /\ hs \in [Listener -> HostSocket]

TypeInv == HostTypeOK /\ ThreadOK /\ ServingOK /\ GoroutinesOK /\ TablesOK

\* It is the type invariant of the runs.
LEMMA TypeParts == TypeInv <=> TypeOK
  BY DEF TypeOK, ControlOK, ContainerTypeOK, TypeInv, ThreadOK, ServingOK,
         GoroutinesOK, TablesOK

-----------------------------------------------------------------------------
(* Lemmas about the helpers of the actions. *)

\* The calls in flight belong to processes and have descriptors of theirs.
LEMMA CallType ==
    ASSUME NEW c \in Calls
    PROVE  /\ c.fd \in Fds
           /\ c.addr \in VAddrs \cup {None}
           /\ c.name \in Names
  BY ContainerAssumption DEF Call

LEMMA ProcType ==
    ASSUME NEW t \in Threads
    PROVE  Tgid[t] \in Procs
  BY DEF Procs

\* Closing descriptors keeps the host's variables well typed.
LEMMA CloseFdsType ==
    ASSUME HostTypeOK, NEW N, CloseFds(N)
    PROVE  HostTypeOK'
  BY HostAssumption DEF HostTypeOK, CloseFds, Connection, File

\* So does removeSocket, which also cancels host sockets.
LEMMA RemoveType ==
    ASSUME TypeInv, NEW S, Remove(S)
    PROVE  HostTypeOK' /\ hs' \in [Listener -> HostSocket]
<1>1. HostTypeOK'
  BY CloseFdsType DEF TypeInv, Remove
<1>2. hs' \in [Listener -> HostSocket]
  BY DEF TypeInv, TablesOK, Remove, HostSocket
<1> QED BY <1>1, <1>2

\* Answering a notification.
LEMMA ReplyType ==
    ASSUME TypeInv, Reply
    PROVE  ThreadOK' /\ ServingOK'
  BY DEF TypeInv, ThreadOK, ServingOK, Reply, Answer, Phases

\* Letting the kernel continue a call.
LEMMA ContinueType ==
    ASSUME TypeInv, NEW t \in Threads, phase[t] = "notified", Continue(t)
    PROVE  ThreadOK'
  BY DEF TypeInv, ThreadOK, Continue, AfterClose, Phases

LEMMA NewStatusType ==
    ASSUME NEW st \in SocketStates \cup {"Unused"}
    PROVE  NewStatus(st) \in SocketStatus
  BY SeccompAssumption DEF NewStatus, SocketStatus

\* The changes of one status.
LEMMA StatusUpdate ==
    ASSUME TablesOK, NEW s, NEW r \in SocketStatus,
           sock' = [sock EXCEPT ![s] = r]
    PROVE  sock' \in [SockIds -> SocketStatus]
  BY DEF TablesOK

LEMMA SetStateType ==
    ASSUME TypeInv, NEW s \in SockIds, NEW st \in SocketStates, SetState(s, st)
    PROVE  sock' \in [SockIds -> SocketStatus]
  BY DEF TypeInv, TablesOK, SetState, SocketStatus

\* What does not change stays well typed.
LEMMA HostSame == ASSUME HostTypeOK, UNCHANGED hostVars PROVE HostTypeOK'
  BY DEF HostTypeOK, hostVars

LEMMA ThreadSame == ASSUME ThreadOK, UNCHANGED <<phase, call>> PROVE ThreadOK'
  BY DEF ThreadOK

LEMMA ServingSame == ASSUME ServingOK, UNCHANGED cur PROVE ServingOK'
  BY DEF ServingOK

LEMMA GoroutinesSame == ASSUME GoroutinesOK, UNCHANGED g PROVE GoroutinesOK'
  BY DEF GoroutinesOK

LEMMA TablesSame ==
    ASSUME TablesOK, UNCHANGED <<kfd, sockets, sock, hs>> PROVE TablesOK'
  BY DEF TablesOK

\* Initially.
LEMMA InitType == Init => TypeInv
<1> SUFFICES ASSUME Init PROVE TypeInv
  OBVIOUS
<1>1. HostTypeOK
  BY DEF Init, HostInit, HostTypeOK, Connection, File
<1>2. ThreadOK /\ kfd \in [Procs -> [Fds -> ContainerFile]]
  BY DEF Init, ContainerInit, ThreadOK, Phases, ContainerFile
<1>3. sock \in [SockIds -> SocketStatus]
  BY NewStatusType DEF Init
<1>4. hs \in [Listener -> HostSocket] /\ GoroutinesOK /\ ServingOK
  BY DEF Init, HostSocket, Goroutine, NoGoroutine, GoroutinesOK, ServingOK
<1>5. sockets \in [Procs -> [Fds -> SockIds \cup {None}]]
  BY DEF Init
<1> QED BY <1>1, <1>2, <1>3, <1>4, <1>5 DEF TypeInv, TablesOK

-----------------------------------------------------------------------------
(* The reception of a notification. *)

LEMMA ReceiveType ==
    ASSUME TypeInv, NEW t \in Threads, Receive(t)
    PROVE  TypeInv'
<1> USE DEF TypeInv
<1>0. Tgid[t] \in Procs /\ (phase[t] = "notified" => call[t] \in Calls)
  BY ProcType DEF ThreadOK
<1>1. CASE HandleExit(t)
  <2>1. HostTypeOK' /\ hs' \in [Listener -> HostSocket]
    BY <1>1, RemoveType DEF HandleExit
  <2>2. ThreadOK'
    BY <1>1, ContinueType DEF HandleExit, Notified
  <2>3. sockets' \in [Procs -> [Fds -> SockIds \cup {None}]]
    BY <1>1 DEF HandleExit, TablesOK
  <2> QED BY <1>1, <2>1, <2>2, <2>3, ServingSame, GoroutinesSame
          DEF HandleExit, TablesOK
<1>2. CASE HandleThreadExit(t)
  BY <1>2, ContinueType, HostSame, ServingSame, GoroutinesSame, TablesSame
     DEF HandleThreadExit, Notified, seccompVars
<1>3. CASE HandleClose(t)
  <2>1. HostTypeOK' /\ hs' \in [Listener -> HostSocket]
    BY <1>3, RemoveType DEF HandleClose
  <2>2. ThreadOK'
    BY <1>3, ContinueType DEF HandleClose, Notified
  <2>3. sockets' \in [Procs -> [Fds -> SockIds \cup {None}]]
    BY <1>3 DEF HandleClose, TablesOK
  <2> QED BY <1>3, <2>1, <2>2, <2>3, ServingSame, GoroutinesSame
          DEF HandleClose, TablesOK
<1>4. ASSUME NEW s \in SockIds, Notified(t, Names), Serve(t, s)
      PROVE  ThreadOK' /\ ServingOK'
  <2>1. ThreadOK'
    BY <1>0, <1>4 DEF Notified, Serve, ThreadOK, Phases
  <2>2. ServingOK'
    BY <1>0, <1>4 DEF Notified, Serve, ServingOK, Serving
  <2> QED BY <2>1, <2>2
<1>5. CASE Lookup(t)
  <2>1. sockets[Tgid[t]][call[t].fd] \in SockIds
    BY <1>0, <1>5, CallType DEF Lookup, Notified, TablesOK
  <2>2. ThreadOK' /\ ServingOK'
    BY <1>4, <1>5, <2>1 DEF Lookup, Notified
  <2> QED BY <1>5, <2>2, HostSame, GoroutinesSame, TablesSame DEF Lookup, Serve
<1>6. CASE Register(t)
  <2> PICK s \in SockIds :
        /\ sockets' = [sockets EXCEPT ![Tgid[t]][call[t].fd] = s]
        /\ sock' = [sock EXCEPT ![s] =
                      NewStatus(InitialState(kfd[Tgid[t]][call[t].fd]))]
        /\ Serve(t, s)
    BY <1>6 DEF Register
  <2>1. ThreadOK' /\ ServingOK'
    BY <1>4, <1>6 DEF Register, Notified
  <2>2. sockets' \in [Procs -> [Fds -> SockIds \cup {None}]]
    BY DEF TablesOK
  <2>3. sock' \in [SockIds -> SocketStatus]
    BY NewStatusType DEF TablesOK, InitialState, SocketStates
  <2> QED BY <1>6, <2>1, <2>2, <2>3, HostSame, GoroutinesSame
          DEF Register, Serve, TablesOK
<1>7. CASE RegisterFails(t)
  <2>1. ThreadOK'
    BY <1>7 DEF RegisterFails, ThreadOK, Phases
  <2> QED BY <1>7, <2>1, HostSame, ServingSame, GoroutinesSame, TablesSame
          DEF RegisterFails, seccompVars
<1> QED BY <1>1, <1>2, <1>3, <1>5, <1>6, <1>7 DEF Receive

-----------------------------------------------------------------------------
(* The calls in service. *)

\* The call in service is a call of a thread on a status.
LEMMA CurType ==
    ASSUME TypeInv, NEW pc, At(pc)
    PROVE  /\ cur \in Serving
           /\ cur.t \in Threads /\ cur.s \in SockIds
           /\ Tgid[cur.t] \in Procs
           /\ cur.call \in Calls /\ cur.call.fd \in Fds
           /\ cur.call.addr \in VAddrs \cup {None}
           /\ cur.todo \in Seq(SUBSET Entries)
<1>1. cur \in Serving
  BY DEF TypeInv, ServingOK, At
<1> QED BY <1>1, CallType, ProcType DEF Serving

\* Most answers change the status in service and no other.
LEMMA AnswerType ==
    ASSUME TypeInv, At("serve") \/ At("bind") \/ At("connect"), Reply,
           UNCHANGED <<hostVars, sockets, hs, g>>,
           \/ UNCHANGED sock
           \/ \E st \in SocketStates : SetState(cur.s, st),
           \/ UNCHANGED kfd
           \/ \E v \in VAddrs :
                 kfd' = [kfd EXCEPT ![Tgid[cur.t]][cur.call.fd] = v]
    PROVE  TypeInv'
<1> USE DEF TypeInv
<1>1. cur.s \in SockIds /\ Tgid[cur.t] \in Procs /\ cur.call.fd \in Fds
  BY CurType
<1>2. ThreadOK' /\ ServingOK'
  BY ReplyType
<1>3. sock' \in [SockIds -> SocketStatus]
  BY <1>1, SetStateType DEF TablesOK
<1>4. kfd' \in [Procs -> [Fds -> ContainerFile]]
  <2>1. CASE UNCHANGED kfd
    BY <2>1 DEF TablesOK
  <2>2. ASSUME NEW v \in VAddrs,
               kfd' = [kfd EXCEPT ![Tgid[cur.t]][cur.call.fd] = v]
        PROVE  kfd' \in [Procs -> [Fds -> ContainerFile]]
    <3>1. v \in ContainerFile
      BY DEF ContainerFile
    <3> QED BY <1>1, <2>2, <3>1 DEF TablesOK
  <2> QED BY <2>1, <2>2
<1> QED BY <1>2, <1>3, <1>4, HostSame, GoroutinesSame DEF TablesOK

\* Removing and registering again.
LEMMA ReregisterType == ASSUME TypeInv, Reregister PROVE TypeInv'
<1> USE DEF TypeInv
<1>0. /\ Tgid[cur.t] \in Procs /\ cur.call.fd \in Fds
      /\ cur \in Serving /\ cur.pc = "serve"
  BY CurType DEF Reregister, At
<1>1. HostTypeOK' /\ hs' \in [Listener -> HostSocket]
  BY RemoveType DEF Reregister
<1> DEFINE p == Tgid[cur.t]
           fd == cur.call.fd
           state == InitialState(kfd[p][fd])
<1>2. CASE kfd[p][fd] = Closed
  <2>1. ThreadOK' /\ ServingOK'
    BY <1>2, ReplyType DEF Reregister
  <2>2. sockets' = [sockets EXCEPT ![p][fd] = None] /\ sock' = sock
    BY <1>2 DEF Reregister
  <2>3. /\ sockets' \in [Procs -> [Fds -> SockIds \cup {None}]]
        /\ sock' \in [SockIds -> SocketStatus]
    BY <1>0, <2>2 DEF TablesOK
  <2> QED BY <1>1, <2>1, <2>3, GoroutinesSame DEF Reregister, TablesOK
<1>3. CASE kfd[p][fd] # Closed
  <2> PICK s \in SockIds :
        /\ sockets' = [sockets EXCEPT ![p][fd] = s]
        /\ sock' = [sock EXCEPT ![s] = NewStatus(state)]
        /\ IF state = "NotBypassed"
           THEN cur' = [cur EXCEPT !.s = s] /\ UNCHANGED <<phase, call>>
           ELSE Reply
    BY <1>3 DEF Reregister
  <2>1. ThreadOK' /\ ServingOK'
    <3>1. CASE state = "NotBypassed"
      <4>1. ServingOK'
        BY <1>0, <3>1 DEF ServingOK, Serving
      <4> QED BY <3>1, <4>1, ThreadSame
    <3>2. CASE state # "NotBypassed"
      BY <3>2, ReplyType
    <3> QED BY <3>1, <3>2
  <2>2. sockets' \in [Procs -> [Fds -> SockIds \cup {None}]]
    BY <1>0 DEF TablesOK
  <2>3. sock' \in [SockIds -> SocketStatus]
    BY NewStatusType DEF TablesOK, InitialState, SocketStates
  <2> QED BY <1>1, <2>1, <2>2, <2>3, GoroutinesSame DEF Reregister, TablesOK
<1> QED BY <1>2, <1>3

LEMMA BindType == ASSUME TypeInv, HandleBind PROVE TypeInv'
<1> USE DEF TypeInv
<1>1. CASE BindRefused
  BY <1>1, AnswerType DEF BindRefused, On
<1>2. CASE BindBadAddr
  BY <1>2, AnswerType DEF BindBadAddr, On, SocketStates
<1>3. CASE BindUnknown \/ BindStart
  <2>0. cur.s \in SockIds /\ cur.call.addr \in VAddrs
    BY <1>3, CurType DEF BindUnknown, BindStart, On
  <2>1. sock' \in [SockIds -> SocketStatus]
    <3>1. sock' = [sock EXCEPT ![cur.s].localVAddr = cur.call.addr]
      BY <1>3 DEF BindUnknown, BindStart
    <3>2. [sock[cur.s] EXCEPT !.localVAddr = cur.call.addr] \in SocketStatus
      BY <2>0 DEF TablesOK, SocketStatus
    <3> QED BY <3>1, <3>2, StatusUpdate
  <2>2. CASE BindUnknown
    BY <2>1, <2>2, ReplyType, HostSame, GoroutinesSame DEF BindUnknown, TablesOK
  <2>3. CASE BindStart
    <3>1. cur \in Serving /\ cur.call.addr \in VAddrs
      BY <2>3, CurType DEF BindStart, On
    <3>2. ServerEntries[cur.call.addr] \in Seq(Entries)
      BY <3>1, SeccompAssumption
    <3>3. [i \in 1 .. Len(ServerEntries[cur.call.addr]) |->
             {ServerEntries[cur.call.addr][i]}] \in Seq(SUBSET Entries)
      BY <3>2
    <3>4. ServingOK'
      BY <2>3, <3>1, <3>3 DEF BindStart, ServingOK, Serving
    <3> QED BY <2>1, <2>3, <3>4, HostSame, ThreadSame, GoroutinesSame
            DEF BindStart, TablesOK, containerVars
  <2> QED BY <1>3, <2>2, <2>3
<1>4. CASE BindDone
  BY <1>4, AnswerType DEF BindDone, SocketStates
<1>5. ASSUME NEW ok \in BOOLEAN, At("bind"), cur.todo # <<>>, NextEntry(ok)
      PROVE  ServingOK'
  <2>1. cur \in Serving /\ cur.pc = "bind" /\ cur.todo \in Seq(SUBSET Entries)
    BY <1>5, CurType DEF At
  <2>2. Tail(cur.todo) \in Seq(SUBSET Entries) /\ (cur.ok \/ ok) \in BOOLEAN
    BY <1>5, <2>1
  <2>3. cur' = [cur EXCEPT !.todo = Tail(cur.todo), !.ok = cur.ok \/ ok]
    BY <1>5 DEF NextEntry
  <2> QED BY <2>1, <2>2, <2>3 DEF ServingOK, Serving
<1>6. ASSUME NEW e \in Entries, BindEntry(e) PROVE TypeInv'
  <2>1. cur.s \in SockIds /\ <<cur.s, e>> \in Listener
    BY <1>6, CurType DEF BindEntry, Listener
  <2>2. ServingOK'
    BY <1>5, <1>6 DEF BindEntry, Trying
  <2>3. HostTypeOK'
    BY <1>6, <2>1 DEF BindEntry, Configured, HostTypeOK, File
  <2>4. hs' \in [Listener -> HostSocket]
    BY <1>6, <2>1 DEF BindEntry, TablesOK, HostSocket
  <2>5. sock' \in [SockIds -> SocketStatus]
    <3> PICK n \in HostFds :
          sock' = [sock EXCEPT ![cur.s].hostSockets[n] = <<cur.s, e>>]
      BY <1>6 DEF BindEntry
    <3> DEFINE r == [sock[cur.s] EXCEPT !.hostSockets[n] = <<cur.s, e>>]
    <3>1. sock[cur.s] \in SocketStatus
      BY <2>1 DEF TablesOK
    <3>2. [sock[cur.s].hostSockets EXCEPT ![n] = <<cur.s, e>>]
             \in [HostFds -> Listener \cup Conns \cup {None}]
      BY <2>1, <3>1 DEF SocketStatus
    <3>3. r \in SocketStatus
      BY <3>1, <3>2 DEF SocketStatus
    <3>4. sock' = [sock EXCEPT ![cur.s] = r]
      OBVIOUS
    <3> QED BY <2>1, <3>3, <3>4 DEF TablesOK
  <2> QED BY <1>6, <2>2, <2>3, <2>4, <2>5, ThreadSame, GoroutinesSame
          DEF BindEntry, TablesOK, containerVars
<1>7. ASSUME NEW e \in Entries, BindEntryFails(e) PROVE TypeInv'
  <2>1. ServingOK'
    BY <1>5, <1>7 DEF BindEntryFails, Trying
  <2>2. HostTypeOK'
    BY <1>7 DEF BindEntryFails, Leak, Unlinked, HostTypeOK, File
  <2> QED BY <1>7, <2>1, <2>2, ThreadSame, GoroutinesSame, TablesSame
          DEF BindEntryFails, containerVars
<1>8. ASSUME NEW e \in Entries, BindEntryElse(e) PROVE TypeInv'
  <2>1. ServingOK'
    BY <1>5, <1>8, SeccompAssumption DEF BindEntryElse, Trying
  <2> QED BY <1>8, <2>1, HostSame, ThreadSame, GoroutinesSame, TablesSame
          DEF BindEntryElse, containerVars
<1> QED BY <1>1, <1>2, <1>3, <1>4, <1>6, <1>7, <1>8 DEF HandleBind

LEMMA ListenType == ASSUME TypeInv, HandleListen PROVE TypeInv'
<1> USE DEF TypeInv
<1>1. CASE ListenAgain
  BY <1>1, AnswerType DEF ListenAgain, On
<1>2. CASE ListenUnexpected
  BY <1>2, AnswerType DEF ListenUnexpected, On, SocketStates
<1>3. CASE Listen
  <2> DEFINE bound == {l \in HeldListeners({cur.s}) : hs[l].State = "Binded"}
  <2>0. bound \subseteq Listener /\ cur.s \in SockIds
    BY <1>3, CurType DEF HeldListeners, Listen, On
  <2> PICK up \in SUBSET bound :
        /\ hs' = [l \in Listener |->
                    IF l \in bound THEN Listened(l, up) ELSE hs[l]]
        /\ listening' = listening \cup up
        /\ g' = [l \in Listener |->
                   IF l \in up
                   THEN [NoGoroutine EXCEPT !.pc = "check"] ELSE g[l]]
        /\ SetState(cur.s, IF up = {} /\ ~FeatureRDMA
                           THEN "Error" ELSE "Listening")
    BY <1>3 DEF Listen
  <2>1. HostTypeOK'
    BY <1>3, <2>0 DEF Listen, HostTypeOK
  <2>2. ThreadOK' /\ ServingOK'
    BY <1>3, ReplyType DEF Listen
  <2>3. GoroutinesOK'
    BY DEF GoroutinesOK, Goroutine, NoGoroutine
  <2>4. hs' \in [Listener -> HostSocket]
    BY DEF TablesOK, HostSocket, Listened
  <2>5. sock' \in [SockIds -> SocketStatus]
    BY <2>0, SetStateType DEF SocketStates
  <2> QED BY <1>3, <2>1, <2>2, <2>3, <2>4, <2>5 DEF Listen, TablesOK
<1> QED BY <1>1, <1>2, <1>3 DEF HandleListen

\* What is taken from a queue that is not empty.
LEMMA HeadType ==
    ASSUME TypeInv, NEW s \in SockIds, sock[s].acceptedSockets # <<>>
    PROVE  /\ sock[s] \in SocketStatus
           /\ Head(sock[s].acceptedSockets) \in Accepted
           /\ Tail(sock[s].acceptedSockets) \in Seq(Accepted)
<1>1. sock[s] \in SocketStatus
  BY DEF TypeInv, TablesOK
<1>2. sock[s].acceptedSockets \in Seq(Accepted)
  BY <1>1 DEF SocketStatus
<1> QED BY <1>1, <1>2

\* The statuses after the head of the queue was taken.
LEMMA TakenType ==
    ASSUME TypeInv, NEW s \in SockIds, sock[s].acceptedSockets # <<>>,
           NEW as \in Accepted
    PROVE  /\ Taken(s, as) \in [SockIds -> SocketStatus]
           /\ \A r \in SockIds : Taken(s, as)[r].acceptedSockets =
                 IF r = s THEN Tail(sock[s].acceptedSockets)
                 ELSE sock[r].acceptedSockets
<1> DEFINE r == [sock[s] EXCEPT !.acceptedSockets = Tail(sock[s].acceptedSockets),
                                !.hostSockets = WithoutAccepted(s, as)]
<1>0. sock \in [SockIds -> SocketStatus]
  BY DEF TypeInv, TablesOK
<1>1. sock[s] \in SocketStatus /\ Tail(sock[s].acceptedSockets) \in Seq(Accepted)
  BY HeadType
<1>2. WithoutAccepted(s, as) \in [HostFds -> Listener \cup Conns \cup {None}]
  BY <1>1 DEF WithoutAccepted, SocketStatus
<1>3. /\ r \in SocketStatus
      /\ r.acceptedSockets = Tail(sock[s].acceptedSockets)
  BY <1>1, <1>2 DEF SocketStatus
<1>4. Taken(s, as) = [sock EXCEPT ![s] = r]
  BY DEF Taken
<1> HIDE DEF r
<1> QED BY <1>0, <1>3, <1>4

\* A delivered status is a status whose queue is what it was.
LEMMA DeliveredType ==
    ASSUME TypeInv, NEW s \in SockIds, NEW as \in Accepted,
           NEW st \in SocketStatus
    PROVE  /\ Delivered(st, s, as) \in SocketStatus
           /\ Delivered(st, s, as).acceptedSockets = st.acceptedSockets
<1>1. sock[s] \in SocketStatus /\ ConnVAddr[as.conn] \in VAddrs
  BY HostAssumption DEF TypeInv, TablesOK, Accepted
<1> QED BY <1>1 DEF Delivered, SocketStatus, SocketStates

LEMMA AcceptType == ASSUME TypeInv, HandleAccept PROVE TypeInv'
<1> USE DEF TypeInv
<1>1. CASE AcceptRefused
  BY <1>1, AnswerType DEF AcceptRefused, On
<1> DEFINE s == cur.s
           as == Head(sock[s].acceptedSockets)
           rest == Tail(sock[s].acceptedSockets)
<1>2. CASE AcceptDeliver
  <2>0. /\ s \in SockIds /\ Tgid[cur.t] \in Procs
        /\ sock[s] \in SocketStatus
        /\ as \in Accepted /\ as.fd \in HostFds
    BY <1>2, CurType, HeadType DEF AcceptDeliver, On, Accepted
  <2> PICK newfd \in Fds, a \in SockIds :
        /\ kfd' = [kfd EXCEPT ![Tgid[cur.t]][newfd] = hfd[as.fd]]
        /\ sockets' = [sockets EXCEPT ![Tgid[cur.t]][newfd] = a]
        /\ sock' = [Taken(s, as) EXCEPT ![a] = Delivered(@, s, as)]
    BY <1>2 DEF AcceptDeliver
  <2>1. HostTypeOK'
    BY <1>2, CloseFdsType DEF AcceptDeliver, CloseAccepted
  <2>2. ThreadOK' /\ ServingOK'
    BY <1>2, ReplyType DEF AcceptDeliver
  <2>3. hfd[as.fd] \in ContainerFile
    BY <1>2, <2>0 DEF AcceptDeliver, AddFdWorks, HostTypeOK, ContainerFile
  <2>4. kfd' \in [Procs -> [Fds -> ContainerFile]]
    BY <2>0, <2>3 DEF TablesOK
  <2>5. sockets' \in [Procs -> [Fds -> SockIds \cup {None}]]
    BY <2>0 DEF TablesOK
  <2>6. sock' \in [SockIds -> SocketStatus]
    <3> DEFINE T == Taken(s, as)
    <3>1. T \in [SockIds -> SocketStatus]
      BY <1>2, <2>0, TakenType DEF AcceptDeliver
    <3>2. Delivered(T[a], s, as) \in SocketStatus
      BY <2>0, <3>1, DeliveredType
    <3>3. sock' = [T EXCEPT ![a] = Delivered(T[a], s, as)]
      OBVIOUS
    <3> HIDE DEF T
    <3> QED BY <3>1, <3>2, <3>3
  <2> QED BY <1>2, <2>1, <2>2, <2>4, <2>5, <2>6, GoroutinesSame
          DEF AcceptDeliver, TablesOK
<1>3. CASE AcceptAddFdFails
  <2>0. s \in SockIds /\ sock[s] \in SocketStatus /\ rest \in Seq(Accepted)
    BY <1>3, CurType, HeadType DEF AcceptAddFdFails, On
  <2>1. HostTypeOK'
    BY <1>3, CloseFdsType DEF AcceptAddFdFails, CloseAccepted
  <2>2. ThreadOK' /\ ServingOK'
    BY <1>3, ReplyType DEF AcceptAddFdFails
  <2> DEFINE r == [sock[s] EXCEPT !.acceptedSockets = rest,
                                  !.state = "NotBypassable"]
  <2>3. r \in SocketStatus
    BY <2>0 DEF SocketStatus, SocketStates
  <2>4. sock' = [sock EXCEPT ![s] = r]
    BY <1>3 DEF AcceptAddFdFails
  <2>5. sock' \in [SockIds -> SocketStatus]
    BY <2>0, <2>3, <2>4 DEF TablesOK
  <2> QED BY <1>3, <2>1, <2>2, <2>5, GoroutinesSame
          DEF AcceptAddFdFails, TablesOK
<1> QED BY <1>1, <1>2, <1>3 DEF HandleAccept

LEMMA ConnectType == ASSUME TypeInv, HandleConnect PROVE TypeInv'
<1> USE DEF TypeInv
<1>1. CASE ConnectBadAddr
  BY <1>1, AnswerType DEF ConnectBadAddr, OnConnect, On, SocketStates
<1>2. ASSUME cur.s \in SockIds, cur.call.addr \in VAddrs,
             \/ sock' = [sock EXCEPT ![cur.s].remoteVAddr = cur.call.addr]
             \/ sock' = [sock EXCEPT ![cur.s].remoteVAddr = cur.call.addr,
                                     ![cur.s].state = "Error"]
      PROVE  sock' \in [SockIds -> SocketStatus]
  <2>1. sock[cur.s] \in SocketStatus
    BY <1>2 DEF TablesOK
  <2>2. [sock[cur.s] EXCEPT !.remoteVAddr = cur.call.addr] \in SocketStatus
    BY <1>2, <2>1 DEF SocketStatus
  <2>3. [sock[cur.s] EXCEPT !.remoteVAddr = cur.call.addr, !.state = "Error"]
           \in SocketStatus
    BY <1>2, <2>1 DEF SocketStatus, SocketStates
  <2>4. CASE sock' = [sock EXCEPT ![cur.s].remoteVAddr = cur.call.addr]
    BY <2>2, <2>4, StatusUpdate
  <2>5. CASE sock' = [sock EXCEPT ![cur.s].remoteVAddr = cur.call.addr,
                                  ![cur.s].state = "Error"]
    <3> DEFINE r == [sock[cur.s] EXCEPT !.remoteVAddr = cur.call.addr,
                                        !.state = "Error"]
    <3>1. sock' = [sock EXCEPT ![cur.s] = r]
      BY <2>5
    <3> HIDE DEF r
    <3> QED BY <2>3, <3>1, StatusUpdate DEF r
  <2> QED BY <1>2, <2>4, <2>5
<1>3. CASE ConnectRefused
  <2>1. sock' \in [SockIds -> SocketStatus]
    <3>1. cur.s \in SockIds /\ cur.call.addr \in VAddrs
      BY <1>3, CurType DEF ConnectRefused, OnConnect, On
    <3> QED BY <1>2, <1>3, <3>1 DEF ConnectRefused
  <2> QED BY <1>3, <2>1, ReplyType, HostSame, GoroutinesSame
          DEF ConnectRefused, TablesOK
<1>4. CASE ConnectStart
  <2>1. cur \in Serving /\ cur.call.addr \in VAddrs
    BY <1>4, CurType DEF ConnectStart, OnConnect, On
  <2>2. sock' \in [SockIds -> SocketStatus]
    BY <1>2, <1>4, <2>1 DEF ConnectStart, Serving
  <2>3. ClientEntries[cur.call.addr] \in Seq(SUBSET Entries)
    BY <2>1, SeccompAssumption
  <2>4. ServingOK'
    BY <1>4, <2>1, <2>3 DEF ConnectStart, ServingOK, Serving
  <2> QED BY <1>4, <2>2, <2>4, HostSame, ThreadSame, GoroutinesSame
          DEF ConnectStart, TablesOK, containerVars
<1>5. ASSUME NEW q \in Seq(SUBSET Entries), At("connect"),
             cur' = [cur EXCEPT !.todo = q]
      PROVE  ServingOK'
  <2>1. cur \in Serving /\ cur # None /\ cur.pc = "connect"
    BY <1>5, CurType DEF At
  <2> QED BY <1>5, <2>1 DEF ServingOK, Serving
<1>6. CASE ConnectNextTransport
  <2>1. Tail(cur.todo) \in Seq(SUBSET Entries)
    BY <1>6, CurType DEF ConnectNextTransport
  <2>2. ServingOK'
    BY <1>5, <1>6, <2>1 DEF ConnectNextTransport
  <2> QED BY <1>6, <2>2, HostSame, ThreadSame, GoroutinesSame, TablesSame
          DEF ConnectNextTransport, containerVars
<1>7. CASE ConnectFails
  BY <1>7, AnswerType DEF ConnectFails, SocketStates
<1>8. ASSUME NEW e \in Entries, ConnectEntry(e) PROVE TypeInv'
  <2>1. cur.call.addr \in VAddrs
    BY <1>8 DEF ConnectEntry, At, ServingOK
  <2> QED BY <1>8, <2>1, AnswerType DEF ConnectEntry, SocketStates
<1>9. ASSUME NEW e \in Entries, ConnectEntryFails(e) PROVE TypeInv'
  <2>1. <<Head(cur.todo) \ {e}>> \o Tail(cur.todo) \in Seq(SUBSET Entries)
    BY <1>9, CurType DEF ConnectEntryFails, Trying
  <2>2. ServingOK'
    BY <1>5, <1>9, <2>1 DEF ConnectEntryFails
  <2>3. HostTypeOK'
    BY <1>9 DEF ConnectEntryFails, Leak, HostTypeOK, File
  <2> QED BY <1>9, <2>2, <2>3, ThreadSame, GoroutinesSame, TablesSame
          DEF ConnectEntryFails, containerVars
<1>10. ASSUME NEW e \in Entries, ConnectRDMA(e) PROVE TypeInv'
  BY <1>10, AnswerType DEF ConnectRDMA, SocketStates
<1> QED BY <1>1, <1>3, <1>4, <1>6, <1>7, <1>8, <1>9, <1>10 DEF HandleConnect

LEMMA OptionsType == ASSUME TypeInv, HandleOptions PROVE TypeInv'
<1> USE DEF TypeInv
<1>1. CASE Setsockopt
  BY <1>1, AnswerType DEF Setsockopt, OnOption
<1>2. CASE SetFlags
  <2>1. cur.s \in SockIds
    BY <1>2, CurType DEF SetFlags, OnOption
  <2>2. HostTypeOK'
    BY <1>2 DEF SetFlags, NamedByFd, HostTypeOK
  <2>3. sock' \in [SockIds -> SocketStatus]
    <3> PICK on \in BOOLEAN : sock' = [sock EXCEPT ![cur.s].nonblock = on]
      BY <1>2 DEF SetFlags
    <3>1. [sock[cur.s] EXCEPT !.nonblock = on] \in SocketStatus
      BY <2>1 DEF TablesOK, SocketStatus
    <3> QED BY <3>1, StatusUpdate
  <2> QED BY <1>2, <2>2, <2>3, ReplyType, GoroutinesSame DEF SetFlags, TablesOK
<1>3. CASE Getfl
  <2>1. HostTypeOK'
    <3>1. CASE UNCHANGED hfd
      BY <1>3, <3>1 DEF Getfl, HostTypeOK
    <3>2. CASE ~UNCHANGED hfd
      <4> PICK n \in HostFds : hfd' = [hfd EXCEPT ![n] = hfd[cur.call.fd]]
        BY <1>3, <3>2 DEF Getfl
      <4>1. cur.call.fd \in HostFds
        BY <1>3, <3>2 DEF Getfl, Duplicated
      <4> QED BY <1>3, <4>1 DEF Getfl, HostTypeOK
    <3> QED BY <3>1, <3>2
  <2> QED BY <1>3, <2>1, ReplyType, GoroutinesSame, TablesSame DEF Getfl
<1> QED BY <1>1, <1>2, <1>3 DEF HandleOptions

LEMMA CurStepType == ASSUME TypeInv, HandleCur PROVE TypeInv'
<1>1. CASE PassThrough
  BY <1>1, AnswerType DEF PassThrough
<1>2. CASE Getname
  BY <1>2, AnswerType DEF Getname, On
<1> QED BY <1>1, <1>2, ReregisterType, BindType, ListenType, AcceptType,
           ConnectType, OptionsType DEF HandleCur

-----------------------------------------------------------------------------
(* The goroutines, the kernel, the threads and the peers. *)

LEMMA GStepType ==
    ASSUME TypeInv, NEW l \in Listener, TransportAccept(l)
    PROVE  TypeInv'
<1> USE DEF TypeInv
<1>0. /\ g[l] \in Goroutine /\ hs[l] \in HostSocket /\ l[1] \in SockIds
      /\ g[l].pc \in {"recv", "send"} => g[l].conn \in Conns /\ g[l].fd \in HostFds
  BY DEF GoroutinesOK, TablesOK, Listener
<1>1. ASSUME NEW pc \in {"check", "enter", "done"}, GGoto(l, pc)
      PROVE  GoroutinesOK'
  BY <1>1 DEF GGoto, GoroutinesOK, Goroutine, NoGoroutine
<1>2. CASE GCheck(l)
  BY <1>1, <1>2, HostSame, ThreadSame, ServingSame, TablesSame
     DEF GCheck, containerVars
<1>3. CASE GEnter(l)
  <2>1. GoroutinesOK'
    <3> DEFINE file == hfd[hs[l].Sockfd]
               nowait == file \in nonblock
               r == [g[l] EXCEPT !.pc = "blocked", !.file = file,
                                 !.nowait = nowait]
    <3>1. g' = [g EXCEPT ![l] = r]
      BY <1>3 DEF GEnter
    <3>2. file \in Listener
      BY <1>3 DEF GEnter, HostTypeOK
    <3>3. nowait \in BOOLEAN
      OBVIOUS
    <3> HIDE DEF nowait
    <3>4. r \in Goroutine /\ r.pc = "blocked"
      BY <1>0, <3>2, <3>3 DEF Goroutine
    <3> HIDE DEF r
    <3> QED BY <3>1, <3>4 DEF GoroutinesOK
  <2> QED BY <1>3, <2>1, HostSame, ThreadSame, ServingSame, TablesSame
          DEF GEnter, containerVars
<1>4. CASE GAccept(l)
  <2> PICK c \in Conns, n \in HostFds :
        /\ hfd' = [hfd EXCEPT ![n] = c]
        /\ conn' = [conn EXCEPT ![c].st = "accepted"]
        /\ g' = [g EXCEPT ![l] = [pc |-> "recv", file |-> None,
                                  conn |-> c, fd |-> n, nowait |-> FALSE]]
    BY <1>4 DEF GAccept
  <2>1. HostTypeOK'
    BY <1>4 DEF GAccept, HostTypeOK, File, Connection
  <2>2. GoroutinesOK'
    BY DEF GoroutinesOK, Goroutine
  <2> QED BY <1>4, <2>1, <2>2, ThreadSame, ServingSame, TablesSame
          DEF GAccept, containerVars
<1>5. CASE GEnd(l)
  <2>1. hs' \in [Listener -> HostSocket]
    BY <1>5 DEF GEnd, TablesOK, HostSocket
  <2> QED BY <1>1, <1>5, <2>1, HostSame, ThreadSame, ServingSame
          DEF GEnd, TablesOK, containerVars
<1>6. CASE GDeny(l)
  BY <1>1, <1>6, CloseFdsType, ThreadSame, ServingSame, TablesSame
     DEF GDeny, containerVars
<1>7. CASE GStore(l)
  <2>1. g[l].conn \in Conns /\ g[l].fd \in HostFds
    BY <1>0, <1>7 DEF GStore, Received, AtG
  <2>2. sock[l[1]] \in SocketStatus
    BY <1>0 DEF TablesOK
  <2>3. WithAccepted(l) \in [HostFds -> Listener \cup Conns \cup {None}]
    BY <2>1, <2>2 DEF WithAccepted, SocketStatus
  <2>4. sock' \in [SockIds -> SocketStatus]
    <3>1. [sock[l[1]] EXCEPT !.hostSockets = WithAccepted(l)] \in SocketStatus
      BY <2>2, <2>3 DEF SocketStatus
    <3>2. sock' = [sock EXCEPT ![l[1]].hostSockets = WithAccepted(l)]
      BY <1>7 DEF GStore
    <3> QED BY <3>1, <3>2, StatusUpdate
  <2>5. GoroutinesOK'
    BY <1>7, <2>1 DEF GStore, GoroutinesOK, Goroutine
  <2> QED BY <1>7, <2>4, <2>5, HostSame, ThreadSame, ServingSame
          DEF GStore, TablesOK, containerVars
<1>8. CASE GSend(l)
  <2> DEFINE s == l[1]
             as == [conn |-> g[l].conn, fd |-> g[l].fd]
             q == Append(sock[s].acceptedSockets, as)
  <2>1. as \in Accepted
    BY <1>0, <1>8 DEF GSend, AtG, Accepted
  <2>2. q \in Seq(Accepted)
    <3>1. sock[s].acceptedSockets \in Seq(Accepted)
      BY <1>0 DEF TablesOK, SocketStatus
    <3> QED BY <2>1, <3>1
  <2>3. sock' = [sock EXCEPT ![s].acceptedSockets = q]
    BY <1>8 DEF GSend
  <2> HIDE DEF q
  <2>4. [sock[s] EXCEPT !.acceptedSockets = q] \in SocketStatus
    BY <1>0, <2>2 DEF TablesOK, SocketStatus
  <2>5. sock' \in [SockIds -> SocketStatus]
    BY <2>3, <2>4, StatusUpdate
  <2> QED BY <1>1, <1>8, <2>5, HostSame, ThreadSame, ServingSame
          DEF GSend, TablesOK, containerVars
<1> QED BY <1>2, <1>3, <1>4, <1>5, <1>6, <1>7, <1>8
        DEF TransportAccept, GAcceptFails, GRecvFails

\* One entry of a process's descriptor table changes.
LEMMA TableUpdate ==
    ASSUME TablesOK, NEW p, NEW fd, NEW f \in ContainerFile,
           kfd' = [kfd EXCEPT ![p][fd] = f]
    PROVE  kfd' \in [Procs -> [Fds -> ContainerFile]]
<1>1. ASSUME NEW q \in Procs PROVE kfd'[q] \in [Fds -> ContainerFile]
  <2>1. kfd[q] \in [Fds -> ContainerFile]
    BY DEF TablesOK
  <2>2. kfd'[q] = IF q = p THEN [kfd[q] EXCEPT ![fd] = f] ELSE kfd[q]
    BY DEF TablesOK
  <2>3. [kfd[q] EXCEPT ![fd] = f] \in [Fds -> ContainerFile]
    BY <2>1
  <2> QED BY <2>1, <2>2, <2>3
<1>2. kfd' = [q \in Procs |-> kfd'[q]]
  BY DEF TablesOK
<1> QED BY <1>1, <1>2

LEMMA KernelType ==
    ASSUME TypeInv, NEW t \in Threads, KernelReturn(t)
    PROVE  TypeInv'
<1> USE DEF TypeInv
<1>1. ThreadOK'
  BY DEF KernelReturn, KernelClose, KernelExit, EndProcess, ThreadOK, Phases
<1>2. kfd' \in [Procs -> [Fds -> ContainerFile]]
  <2>1. Closed \in ContainerFile
    BY DEF ContainerFile
  <2>2. CASE KernelClose(t)
    <3>1. kfd' = [kfd EXCEPT ![Tgid[t]][call[t].fd] = Closed]
      BY <2>2 DEF KernelClose
    <3> QED BY <2>1, <3>1, TableUpdate
  <2>3. CASE KernelExit(t)
    <3>1. kfd' = [kfd EXCEPT ![Tgid[t]] = [fd \in Fds |-> Closed]]
      BY <2>3 DEF KernelExit, EndProcess
    <3> QED BY <2>1, <3>1 DEF TablesOK
  <2> QED BY <2>2, <2>3 DEF KernelReturn
<1> QED BY <1>1, <1>2, HostSame, ServingSame, GoroutinesSame
        DEF KernelReturn, seccompVars, TablesOK

LEMMA UserType ==
    ASSUME TypeInv, NEW t \in Threads, User(t)
    PROVE  TypeInv'
<1> USE DEF TypeInv
<1>1. ThreadOK'
  <2>1. CASE \E c \in Calls : MakeCall(t, c)
    BY <2>1 DEF MakeCall, ThreadOK, Phases
  <2>2. CASE Open(t) \/ SilentClose(t)
    BY <2>2, ThreadSame DEF Open, SilentClose
  <2>3. CASE Interrupt(t) \/ Kill(t)
    BY <2>3 DEF Interrupt, Kill, EndProcess, ThreadOK, Phases
  <2> QED BY <2>1, <2>2, <2>3 DEF User
<1>2. kfd' \in [Procs -> [Fds -> ContainerFile]]
  <2>1. Closed \in ContainerFile /\ Kinds \subseteq ContainerFile
    BY ContainerAssumption DEF ContainerFile
  <2>2. CASE UNCHANGED kfd
    BY <2>2 DEF TablesOK
  <2>3. CASE Open(t)
    <3> PICK fd \in Fds, kind \in Kinds : kfd' = [kfd EXCEPT ![Tgid[t]][fd] = kind]
      BY <2>3 DEF Open
    <3> QED BY <2>1, TableUpdate
  <2>4. CASE SilentClose(t)
    <3> PICK fd \in Fds : kfd' = [kfd EXCEPT ![Tgid[t]][fd] = Closed]
      BY <2>4 DEF SilentClose
    <3> QED BY <2>1, TableUpdate
  <2>5. CASE Kill(t)
    <3>1. kfd' = [kfd EXCEPT ![t] = [fd \in Fds |-> Closed]]
      BY <2>5 DEF Kill, EndProcess
    <3> QED BY <2>1, <3>1 DEF TablesOK
  <2> QED BY <2>2, <2>3, <2>4, <2>5 DEF User, MakeCall, Interrupt
<1> QED BY <1>1, <1>2, HostSame, ServingSame, GoroutinesSame
        DEF User, seccompVars, TablesOK

LEMMA PeersType == ASSUME TypeInv, Peers PROVE TypeInv'
<1> USE DEF TypeInv
<1>1. HostTypeOK'
  <2>1. ASSUME NEW c \in Conns, NEW e \in Entries, PeerConnect(c, e)
        PROVE  HostTypeOK'
    <3>1. <<addr[e], e>> \in Listener
      BY <2>1 DEF PeerConnect, HostTypeOK
    <3> DEFINE r == [conn[c] EXCEPT !.st = "backlog", !.lsn = <<addr[e], e>>]
    <3>2. r \in Connection
      BY <3>1 DEF HostTypeOK, Connection
    <3>3. conn' = [conn EXCEPT ![c] = r]
      BY <2>1 DEF PeerConnect
    <3> HIDE DEF r
    <3> QED BY <2>1, <3>2, <3>3 DEF PeerConnect, HostTypeOK
  <2>2. ASSUME NEW c \in Conns, PeerSend(c) \/ PeerFail(c) PROVE HostTypeOK'
    BY <2>2 DEF PeerSend, PeerFail, HostTypeOK, Connection
  <2>3. CASE ForeignOpen
    BY <2>3 DEF ForeignOpen, HostTypeOK, File
  <2> QED BY <2>1, <2>2, <2>3 DEF Peers, HostNext
<1> QED BY <1>1, ThreadSame, ServingSame, GoroutinesSame, TablesSame
        DEF Peers, containerVars, seccompVars

LEMMA StepType == ASSUME TypeInv, [Next]_vars PROVE TypeInv'
<1>1. CASE UNCHANGED vars
  BY <1>1, HostSame, ThreadSame, ServingSame, GoroutinesSame, TablesSame
     DEF TypeInv, vars, containerVars, seccompVars
<1>2. CASE Next
  BY <1>2, ReceiveType, CurStepType, GStepType, KernelType, UserType, PeersType
     DEF Next
<1> QED BY <1>1, <1>2

\* Every step keeps the types, and so they hold for ever: no operation of the
\* handler, in any interleaving, with any table, fault and number of threads,
\* stores a value its field cannot hold or acts on a call it does not have.
THEOREM TypeCorrect == Spec => []TypeOK
<1>1. TypeInv /\ [Next]_vars => TypeInv'
  BY StepType
<1> QED BY <1>1, InitType, TypeParts, PTL DEF Spec

-----------------------------------------------------------------------------
(* Access control: its four parts, each kept by every step. *)

\* What a goroutine is about to queue was approved.
SendApproved == \A l \in Listener : g[l].pc = "send" => Approved(g[l].conn)

\* What waits in a queue was approved.
Queued(c, s) ==
    \E i \in 1 .. Len(sock[s].acceptedSockets) :
       sock[s].acceptedSockets[i].conn = c

QueueApproved == \A s \in SockIds, c \in Conns : Queued(c, s) => Approved(c)

\* What is being dialled is allowed.
DialApproved == At("connect") => CAE[cur.call.addr]

\* What was dialled for a process is allowed.
FilesApproved ==
    \A p \in Procs, fd \in Fds : kfd[p][fd] \in VAddrs => CAE[kfd[p][fd]]

LEMMA AccessParts ==
    ASSUME TypeInv
    PROVE  AccessChecked <=> /\ SendApproved /\ QueueApproved
                             /\ DialApproved /\ FilesApproved
<1>1. \A s \in SockIds : sock[s].acceptedSockets \in Seq(Accepted)
  BY DEF TypeInv, TablesOK, SocketStatus
<1>2. ASSUME NEW s \in SockIds, NEW i \in 1 .. Len(sock[s].acceptedSockets)
      PROVE  sock[s].acceptedSockets[i].conn \in Conns
  <2>1. sock[s].acceptedSockets[i] \in Accepted
    BY <1>1
  <2> QED BY <2>1 DEF Accepted
<1>3. QueueApproved <=>
         \A s \in SockIds : \A i \in 1 .. Len(sock[s].acceptedSockets) :
            Approved(sock[s].acceptedSockets[i].conn)
  BY <1>2 DEF QueueApproved, Queued
<1> QED BY <1>3 DEF AccessChecked, SendApproved, DialApproved, FilesApproved

\* An address that was received stays received.
SentKept == \A c \in Conns : conn[c].snd = "sent" => conn'[c].snd = "sent"

LEMMA CloseFdsSent ==
    ASSUME TypeInv, NEW N, CloseFds(N)
    PROVE  SentKept
  BY DEF TypeInv, HostTypeOK, Connection, CloseFds, SentKept

LEMMA StepSent == ASSUME TypeInv, [Next]_vars PROVE SentKept
<1>1. CASE UNCHANGED conn
  BY <1>1 DEF SentKept
<1>2. ASSUME NEW t \in Threads, Receive(t) PROVE SentKept
  BY <1>1, <1>2, CloseFdsSent
     DEF Receive, HandleExit, HandleThreadExit, HandleClose, Lookup, Register,
         RegisterFails, Remove, hostVars
<1>3. CASE HandleCur
  <2>1. CASE Reregister
    BY <2>1, CloseFdsSent DEF Reregister, Remove
  <2>2. CASE HandleAccept
    BY <1>1, <2>2, CloseFdsSent
       DEF HandleAccept, AcceptRefused, AcceptDeliver, AcceptAddFdFails,
           CloseAccepted, hostVars
  <2>3. CASE HandleBind
    BY <1>1, <2>3 DEF HandleBind, BindRefused, BindBadAddr, BindUnknown,
       BindStart, BindDone, BindEntry, BindEntryFails, BindEntryElse, hostVars
  <2>4. CASE HandleListen
    BY <1>1, <2>4 DEF HandleListen, ListenAgain, ListenUnexpected, Listen, hostVars
  <2>5. CASE HandleConnect
    BY <1>1, <2>5 DEF HandleConnect, ConnectBadAddr, ConnectRefused,
       ConnectStart, ConnectNextTransport, ConnectFails, ConnectEntry,
       ConnectEntryFails, ConnectRDMA, hostVars
  <2>6. CASE HandleOptions
    BY <1>1, <2>6 DEF HandleOptions, Setsockopt, SetFlags, Getfl, hostVars
  <2> QED BY <1>1, <1>3, <2>1, <2>2, <2>3, <2>4, <2>5, <2>6
          DEF HandleCur, PassThrough, Getname, hostVars
<1>4. ASSUME NEW l \in Listener, TransportAccept(l) PROVE SentKept
  <2>1. CASE GAccept(l)
    BY <2>1 DEF GAccept, SentKept, TypeInv, HostTypeOK, Connection
  <2>2. CASE GDeny(l)
    BY <2>2, CloseFdsSent DEF GDeny
  <2> QED BY <1>1, <1>4, <2>1, <2>2
          DEF TransportAccept, GCheck, GEnter, GAcceptFails, GRecvFails, GEnd,
              GStore, GSend, hostVars
<1>5. CASE Peers
  <2>1. ASSUME NEW c \in Conns, NEW e \in Entries, PeerConnect(c, e)
        PROVE  SentKept
    BY <2>1 DEF PeerConnect, SentKept, TypeInv, HostTypeOK, Connection
  <2>2. ASSUME NEW c \in Conns, PeerSend(c) PROVE SentKept
    BY <2>2 DEF PeerSend, SentKept, TypeInv, HostTypeOK, Connection
  <2>3. ASSUME NEW c \in Conns, PeerFail(c) PROVE SentKept
    BY <2>3 DEF PeerFail, SentKept, TypeInv, HostTypeOK, Connection
  <2> QED BY <1>1, <1>5, <2>1, <2>2, <2>3 DEF Peers, HostNext, ForeignOpen
<1> QED BY <1>1, <1>2, <1>3, <1>4, <1>5
        DEF Next, KernelReturn, User, vars, hostVars

\* Approval is for ever.
LEMMA ApprovedKept ==
    ASSUME SentKept, NEW c \in Conns, Approved(c)
    PROVE  Approved(c)'
  BY DEF SentKept, Approved

\* A goroutine gets to "send" only after the verdict.
LEMMA StepSend ==
    ASSUME TypeInv, SendApproved, SentKept, [Next]_vars
    PROVE  SendApproved'
<1> USE DEF SendApproved
<1>0. \A l \in Listener : g[l].pc = "send" => g[l].conn \in Conns
  BY DEF TypeInv, GoroutinesOK
<1>1. CASE UNCHANGED g
  BY <1>0, <1>1, ApprovedKept
<1>2. ASSUME NEW l \in Listener, NEW r,
             r.pc = "send" => r.conn \in Conns /\ Approved(r.conn),
             g' = [g EXCEPT ![l] = r]
      PROVE  SendApproved'
  BY <1>0, <1>2, ApprovedKept DEF TypeInv, GoroutinesOK
<1>3. ASSUME NEW l \in Listener, TransportAccept(l) PROVE SendApproved'
  <2>1. ASSUME NEW pc, pc # "send", GGoto(l, pc) PROVE SendApproved'
    BY <1>2, <2>1 DEF GGoto, NoGoroutine
  <2>2. CASE GEnter(l)
    <3> PICK file, nowait :
           g' = [g EXCEPT ![l] = [g[l] EXCEPT !.pc = "blocked",
                                              !.file = file,
                                              !.nowait = nowait]]
      BY <2>2 DEF GEnter
    <3> QED BY <1>2 DEF TypeInv, GoroutinesOK, Goroutine
  <2>3. CASE GAccept(l)
    BY <1>2, <2>3 DEF GAccept
  <2>4. CASE GStore(l)
    <3>1. g[l] \in Goroutine /\ g[l].conn \in Conns /\ Approved(g[l].conn)
      BY <2>4 DEF GStore, Received, AtG, Allowed, Approved, TypeInv, GoroutinesOK
    <3>2. g' = [g EXCEPT ![l] = [g[l] EXCEPT !.pc = "send"]]
      BY <2>4 DEF GStore
    <3> QED BY <1>2, <3>1, <3>2 DEF Goroutine
  <2> QED BY <1>3, <2>1, <2>2, <2>3, <2>4
          DEF TransportAccept, GCheck, GAcceptFails, GRecvFails, GEnd, GDeny, GSend
<1>4. CASE Listen
  BY <1>0, <1>4, ApprovedKept DEF Listen, NoGoroutine
<1>5. CASE HandleCur
  BY <1>1, <1>4, <1>5
     DEF HandleCur, PassThrough, Reregister, Getname, HandleBind, BindRefused,
         BindBadAddr, BindUnknown, BindStart, BindDone, BindEntry,
         BindEntryFails, BindEntryElse, HandleListen, ListenAgain,
         ListenUnexpected, HandleAccept, AcceptRefused, AcceptDeliver,
         AcceptAddFdFails, HandleConnect, ConnectBadAddr, ConnectRefused,
         ConnectStart, ConnectNextTransport, ConnectFails, ConnectEntry,
         ConnectEntryFails, ConnectRDMA, HandleOptions, Setsockopt, SetFlags,
         Getfl
<1>6. ASSUME NEW t \in Threads, Receive(t) PROVE SendApproved'
  BY <1>1, <1>6
     DEF Receive, HandleExit, HandleThreadExit, HandleClose, Lookup, Register,
         RegisterFails, seccompVars
<1> QED BY <1>1, <1>3, <1>5, <1>6
        DEF Next, KernelReturn, User, Peers, vars, seccompVars

\* The new last element of a queue.
LEMMA AppendLast ==
    ASSUME NEW q \in Seq(Accepted), NEW x \in Accepted
    PROVE  Len(Append(q, x)) = Len(q) + 1 /\ Append(q, x)[Len(q) + 1] = x
  BY AppendProperties

\* Only approved connections are queued, and queues otherwise only shrink.
LEMMA StepQueue ==
    ASSUME TypeInv, SendApproved, QueueApproved, SentKept, [Next]_vars
    PROVE  QueueApproved'
<1> DEFINE Q(s) == sock[s].acceptedSockets
<1>0. \A s \in SockIds : Q(s) \in Seq(Accepted)
  BY DEF TypeInv, TablesOK, SocketStatus
<1>a. ASSUME \A s \in SockIds, c \in Conns :
                Queued(c, s)' => Queued(c, s) \/ Approved(c)
      PROVE  QueueApproved'
  BY <1>a, ApprovedKept DEF QueueApproved
<1>1. ASSUME \A s \in SockIds :
                Q(s)' = Q(s) \/ Q(s)' = <<>> \/ (Q(s) # <<>> /\ Q(s)' = Tail(Q(s)))
      PROVE  QueueApproved'
  <2>1. ASSUME NEW s \in SockIds, NEW c \in Conns, Queued(c, s)'
        PROVE  Queued(c, s)
    <3> PICK i \in 1 .. Len(Q(s)') : Q(s)'[i].conn = c
      BY <2>1 DEF Queued
    <3>1. CASE Q(s)' = Q(s)
      BY <2>1, <3>1 DEF Queued
    <3>2. CASE Q(s)' = <<>>
      BY <3>2
    <3>3. CASE Q(s) # <<>> /\ Q(s)' = Tail(Q(s))
      <4>1. i + 1 \in 1 .. Len(Q(s)) /\ Q(s)'[i] = Q(s)[i + 1]
        BY <1>0, <3>3
      <4> QED BY <4>1 DEF Queued
    <3> QED BY <1>1, <3>1, <3>2, <3>3
  <2> QED BY <1>a, <2>1
<1>2. CASE UNCHANGED sock
  BY <1>1, <1>2
<1>3. ASSUME NEW s \in SockIds, NEW st, SetState(s, st) PROVE QueueApproved'
  BY <1>1, <1>3 DEF SetState, TypeInv, TablesOK, SocketStatus
<1>4. ASSUME NEW s \in SockIds, NEW st, sock' = [sock EXCEPT ![s] = NewStatus(st)]
      PROVE  QueueApproved'
  BY <1>1, <1>4 DEF NewStatus, TypeInv, TablesOK
<1>5. ASSUME NEW t \in Threads, Receive(t) PROVE QueueApproved'
  BY <1>2, <1>4, <1>5
     DEF Receive, HandleExit, HandleThreadExit, HandleClose, Lookup, Register,
         RegisterFails, seccompVars
<1>6. CASE HandleCur
  <2>0. cur.s \in SockIds
    BY <1>6, CurType
       DEF HandleCur, PassThrough, Reregister, Getname, HandleBind, BindRefused,
           BindBadAddr, BindUnknown, BindStart, BindDone, BindEntry,
           BindEntryFails, BindEntryElse, HandleListen, ListenAgain,
           ListenUnexpected, Listen, HandleAccept, AcceptRefused, AcceptDeliver,
           AcceptAddFdFails, HandleConnect, ConnectBadAddr, ConnectRefused,
           ConnectStart, ConnectNextTransport, ConnectFails, ConnectEntry,
           ConnectEntryFails, ConnectRDMA, OnConnect, On, HandleOptions,
           Setsockopt, SetFlags, Getfl, OnOption
  <2>1. CASE Reregister
    BY <1>2, <1>4, <2>1 DEF Reregister
  <2>2. CASE HandleBind
    <3>1. CASE BindUnknown \/ BindStart
      <4>1. sock' = [sock EXCEPT ![cur.s].localVAddr = cur.call.addr]
        BY <3>1 DEF BindUnknown, BindStart
      <4> QED BY <1>1, <2>0, <4>1 DEF TypeInv, TablesOK, SocketStatus
    <3>2. ASSUME NEW e \in Entries, BindEntry(e) PROVE QueueApproved'
      BY <1>1, <2>0, <3>2 DEF BindEntry, TypeInv, TablesOK, SocketStatus
    <3> QED BY <1>2, <1>3, <2>0, <2>2, <3>1, <3>2
            DEF HandleBind, BindRefused, BindBadAddr, BindDone, BindEntryFails,
                BindEntryElse
  <2>3. CASE HandleListen
    BY <1>2, <1>3, <2>0, <2>3
       DEF HandleListen, ListenAgain, ListenUnexpected, Listen
  <2>4. CASE HandleAccept
    <3>1. CASE AcceptDeliver
      <4> DEFINE as == Head(Q(cur.s))
      <4> PICK a \in SockIds :
             sock' = [Taken(cur.s, as) EXCEPT ![a] = Delivered(@, cur.s, as)]
        BY <3>1 DEF AcceptDeliver
      <4>1. Q(cur.s) # <<>> /\ as \in Accepted
        BY <2>0, <3>1, HeadType DEF AcceptDeliver
      <4>2. \A s \in SockIds : Q(s)' = Taken(cur.s, as)[s].acceptedSockets
        BY <2>0, <4>1, TakenType, DeliveredType
      <4>3. \A s \in SockIds : Q(s)' = IF s = cur.s THEN Tail(Q(s)) ELSE Q(s)
        <5> TAKE s \in SockIds
        <5>1. Taken(cur.s, as)[s].acceptedSockets =
                 IF s = cur.s THEN Tail(Q(cur.s)) ELSE Q(s)
          BY <2>0, <4>1, TakenType
        <5> QED BY <4>2, <5>1
      <4> QED BY <1>1, <4>1, <4>3
    <3>2. CASE AcceptAddFdFails
      BY <1>1, <2>0, <3>2 DEF AcceptAddFdFails, TypeInv, TablesOK, SocketStatus
    <3> QED BY <1>2, <2>4, <3>1, <3>2 DEF HandleAccept, AcceptRefused
  <2>5. CASE HandleConnect
    <3>1. CASE ConnectRefused \/ ConnectStart
      <4>1. \/ sock' = [sock EXCEPT ![cur.s].remoteVAddr = cur.call.addr]
            \/ sock' = [sock EXCEPT ![cur.s].remoteVAddr = cur.call.addr,
                                    ![cur.s].state = "Error"]
        BY <3>1 DEF ConnectRefused, ConnectStart
      <4>2. \A s \in SockIds : sock[s] \in SocketStatus /\ sock \in [SockIds -> SocketStatus]
        BY DEF TypeInv, TablesOK
      <4>3. \A s \in SockIds : Q(s)' = Q(s)
        <5>1. CASE sock' = [sock EXCEPT ![cur.s].remoteVAddr = cur.call.addr]
          BY <2>0, <4>2, <5>1 DEF SocketStatus
        <5>2. CASE sock' = [sock EXCEPT ![cur.s].remoteVAddr = cur.call.addr,
                                        ![cur.s].state = "Error"]
          <6> DEFINE r == [sock[cur.s] EXCEPT !.remoteVAddr = cur.call.addr,
                                              !.state = "Error"]
          <6>1. r.acceptedSockets = Q(cur.s)
            BY <2>0, <4>2 DEF SocketStatus
          <6>2. sock' = [sock EXCEPT ![cur.s] = r]
            BY <5>2
          <6> HIDE DEF r
          <6> QED BY <2>0, <4>2, <6>1, <6>2
        <5> QED BY <4>1, <5>1, <5>2
      <4> QED BY <1>1, <4>3
    <3> QED BY <1>2, <1>3, <2>0, <2>5, <3>1
            DEF HandleConnect, ConnectBadAddr, ConnectNextTransport,
                ConnectFails, ConnectEntry, ConnectEntryFails, ConnectRDMA
  <2>6. CASE HandleOptions
    <3>1. CASE SetFlags
      <4> PICK on : sock' = [sock EXCEPT ![cur.s].nonblock = on]
        BY <3>1 DEF SetFlags
      <4> QED BY <1>1, <2>0 DEF TypeInv, TablesOK, SocketStatus
    <3> QED BY <1>2, <2>6, <3>1 DEF HandleOptions, Setsockopt, Getfl
  <2> QED BY <1>2, <1>6, <2>1, <2>2, <2>3, <2>4, <2>5, <2>6
          DEF HandleCur, PassThrough, Getname
<1>7. ASSUME NEW l \in Listener, TransportAccept(l) PROVE QueueApproved'
  <2>0. l[1] \in SockIds
    BY DEF Listener
  <2>1. CASE GStore(l)
    BY <1>1, <2>0, <2>1 DEF GStore, TypeInv, TablesOK, SocketStatus
  <2>2. CASE GSend(l)
    <3> DEFINE as == [conn |-> g[l].conn, fd |-> g[l].fd]
    <3>1. as.conn \in Conns /\ Approved(as.conn) /\ as \in Accepted
      BY <2>2 DEF GSend, AtG, SendApproved, TypeInv, GoroutinesOK, Accepted
    <3>2. \A s \in SockIds :
             Q(s)' = IF s = l[1] THEN Append(Q(s), as) ELSE Q(s)
      BY <2>0, <2>2 DEF GSend, TypeInv, TablesOK, SocketStatus
    <3> HIDE DEF as
    <3>3. ASSUME NEW s \in SockIds, NEW c \in Conns, Queued(c, s)'
          PROVE  Queued(c, s) \/ Approved(c)
      <4> PICK i \in 1 .. Len(Q(s)') : Q(s)'[i].conn = c
        BY <3>3 DEF Queued
      <4>1. CASE s = l[1]
        <5> DEFINE q == Q(s)
        <5>1. q \in Seq(Accepted) /\ as \in Accepted /\ Q(s)' = Append(q, as)
          BY <1>0, <3>1, <3>2, <4>1
        <5> HIDE DEF q
        <5>2. Len(Append(q, as)) = Len(q) + 1 /\ Append(q, as)[Len(q) + 1] = as
          BY <5>1, AppendLast
        <5>3. \A j \in 1 .. Len(q) : Append(q, as)[j] = q[j]
          BY <5>1
        <5>4. i = Len(q) + 1 \/ i \in 1 .. Len(q)
          BY <5>1, <5>2
        <5>5. CASE i = Len(q) + 1
          BY <3>1, <5>1, <5>2, <5>5
        <5>6. CASE i \in 1 .. Len(q)
          BY <5>1, <5>3, <5>6 DEF Queued, q
        <5> QED BY <5>4, <5>5, <5>6
      <4>2. CASE s # l[1]
        BY <3>2, <4>2 DEF Queued
      <4> QED BY <4>1, <4>2
    <3> QED BY <1>a, <3>3
  <2> QED BY <1>2, <1>7, <2>1, <2>2
          DEF TransportAccept, GCheck, GEnter, GAccept, GAcceptFails,
              GRecvFails, GEnd, GDeny
<1> QED BY <1>2, <1>5, <1>6, <1>7
        DEF Next, KernelReturn, User, Peers, vars, seccompVars

\* Dialling begins after the verdict and the call does not change meanwhile.
LEMMA StepDial ==
    ASSUME TypeInv, DialApproved, [Next]_vars
    PROVE  DialApproved'
<1> USE DEF DialApproved, At
<1>1. CASE UNCHANGED cur \/ cur' = None
  BY <1>1
<1>2. ASSUME NEW t \in Threads, Receive(t) PROVE DialApproved'
  <2>1. CASE Lookup(t) \/ Register(t)
    <3>1. ASSUME NEW s, Serve(t, s) PROVE cur'.pc = "serve"
      BY <3>1 DEF Serve
    <3> QED BY <2>1, <3>1 DEF Lookup, Register
  <2> QED BY <1>1, <1>2, <2>1
          DEF Receive, HandleExit, HandleThreadExit, HandleClose,
              RegisterFails, seccompVars
<1>3. CASE HandleCur
  <2>0. cur # None => cur \in Serving
    BY DEF TypeInv, ServingOK
  <2>1. CASE Reregister
    <3>1. cur' = None \/ \E s \in SockIds : cur' = [cur EXCEPT !.s = s]
      BY <2>1 DEF Reregister, Reply
    <3> QED BY <1>1, <2>0, <2>1, <3>1 DEF Reregister, Serving
  <2>2. CASE HandleBind
    <3>1. CASE BindStart
      <4>1. cur \in Serving /\ cur'.pc = "bind"
        BY <2>0, <3>1 DEF BindStart, On, Serving
      <4> QED BY <4>1
    <3>2. ASSUME NEW ok, At("bind"), NextEntry(ok) PROVE DialApproved'
      <4>1. cur \in Serving /\ cur'.pc = "bind"
        BY <2>0, <3>2 DEF NextEntry, Serving
      <4> QED BY <4>1
    <3>3. ASSUME NEW e \in Entries,
                 BindEntry(e) \/ BindEntryFails(e) \/ BindEntryElse(e)
          PROVE  DialApproved'
      BY <3>2, <3>3 DEF BindEntry, BindEntryFails, BindEntryElse
    <3> QED BY <1>1, <2>2, <3>1, <3>3
            DEF HandleBind, BindRefused, BindBadAddr, BindUnknown, BindDone, Reply
  <2>3. CASE HandleListen \/ HandleAccept
    BY <1>1, <2>3
       DEF HandleListen, ListenAgain, ListenUnexpected, Listen, HandleAccept,
           AcceptRefused, AcceptDeliver, AcceptAddFdFails, Reply
  <2>4. CASE HandleConnect
    <3>1. CASE ConnectStart
      <4>1. cur \in Serving /\ CAE[cur.call.addr]
        BY <2>0, <3>1 DEF ConnectStart, OnConnect, On, DialAllowed
      <4> QED BY <3>1, <4>1 DEF ConnectStart, Serving
    <3>2. ASSUME NEW q, At("connect"), cur' = [cur EXCEPT !.todo = q]
          PROVE  DialApproved'
      BY <2>0, <3>2 DEF Serving
    <3>3. ASSUME NEW e \in Entries,
                 ConnectEntry(e) \/ ConnectEntryFails(e) \/ ConnectRDMA(e)
          PROVE  DialApproved'
      BY <1>1, <3>2, <3>3
         DEF ConnectEntry, ConnectEntryFails, ConnectRDMA, Reply
    <3>4. CASE ConnectNextTransport
      BY <3>2, <3>4 DEF ConnectNextTransport
    <3> QED BY <1>1, <2>4, <3>1, <3>3, <3>4
            DEF HandleConnect, ConnectBadAddr, ConnectRefused, ConnectFails, Reply
  <2> QED BY <1>1, <1>3, <2>1, <2>2, <2>3, <2>4
          DEF HandleCur, PassThrough, Getname, HandleOptions, Setsockopt,
              SetFlags, Getfl, Reply
<1>4. ASSUME NEW l \in Listener, TransportAccept(l) PROVE DialApproved'
  BY <1>1, <1>4
     DEF TransportAccept, GCheck, GEnter, GAccept, GAcceptFails, GRecvFails,
         GEnd, GDeny, GStore, GSend
<1> QED BY <1>1, <1>2, <1>3, <1>4
        DEF Next, KernelReturn, User, Peers, vars, seccompVars

\* A process gets a dialled connection only from ConnectEntry, after the
\* verdict; what accept installs is never one.
LEMMA StepFiles ==
    ASSUME TypeInv, DialApproved, FilesApproved, [Next]_vars
    PROVE  FilesApproved'
<1> USE DEF FilesApproved
<1>1. CASE UNCHANGED kfd
  BY <1>1
<1>2. ASSUME NEW p, NEW fd, NEW f, f \in VAddrs => CAE[f],
             kfd' = [kfd EXCEPT ![p][fd] = f]
      PROVE  FilesApproved'
  <2>1. \A q \in Procs, d \in Fds :
           kfd'[q][d] = IF q = p /\ d = fd THEN f ELSE kfd[q][d]
    <3> SUFFICES ASSUME NEW q \in Procs, NEW d \in Fds
                 PROVE  kfd'[q][d] = IF q = p /\ d = fd THEN f ELSE kfd[q][d]
      OBVIOUS
    <3>1. kfd[q] \in [Fds -> ContainerFile]
      BY DEF TypeInv, TablesOK
    <3>2. kfd'[q] = IF q = p THEN [kfd[q] EXCEPT ![fd] = f] ELSE kfd[q]
      BY <1>2 DEF TypeInv, TablesOK
    <3> QED BY <3>1, <3>2
  <2> QED BY <1>2, <2>1
<1>3. Closed \notin VAddrs /\ Kinds \cap VAddrs = {}
  BY ContainerAssumption, ContainerDistinct
<1>4. ASSUME NEW p, kfd' = [kfd EXCEPT ![p] = [fd \in Fds |-> Closed]]
      PROVE  FilesApproved'
  BY <1>3, <1>4 DEF TypeInv, TablesOK
<1>5. ASSUME NEW t \in Threads, Receive(t) PROVE FilesApproved'
  BY <1>1, <1>5
     DEF Receive, HandleExit, HandleThreadExit, HandleClose, Lookup, Register,
         RegisterFails, Serve
<1>6. CASE HandleCur
  <2>1. CASE AcceptDeliver
    <3> DEFINE as == Head(sock[cur.s].acceptedSockets)
    <3> PICK newfd \in Fds : kfd' = [kfd EXCEPT ![Tgid[cur.t]][newfd] = hfd[as.fd]]
      BY <2>1 DEF AcceptDeliver
    <3>1. as \in Accepted /\ hfd[as.fd] # Free
      BY <2>1, CurType, HeadType DEF AcceptDeliver, On, AddFdWorks
    <3>2. hfd[as.fd] \in File
      BY <3>1 DEF TypeInv, HostTypeOK, Accepted
    <3>3. hfd[as.fd] \notin VAddrs
      BY <3>2, HostDistinct, ContainerDistinct DEF File
    <3> QED BY <1>2, <3>3
  <2>2. ASSUME NEW e \in Entries, ConnectEntry(e) PROVE FilesApproved'
    <3>1. CAE[cur.call.addr]
      BY <2>2 DEF ConnectEntry, DialApproved
    <3>2. \/ UNCHANGED kfd
          \/ kfd' = [kfd EXCEPT ![Tgid[cur.t]][cur.call.fd] = cur.call.addr]
      BY <2>2 DEF ConnectEntry
    <3> QED BY <1>1, <1>2, <3>1, <3>2
  <2>3. CASE HandleConnect
    BY <1>1, <2>2, <2>3
       DEF HandleConnect, ConnectBadAddr, ConnectRefused, ConnectStart,
           ConnectNextTransport, ConnectFails, ConnectEntryFails, ConnectRDMA,
           containerVars
  <2>4. CASE HandleBind
    BY <1>1, <2>4
       DEF HandleBind, BindRefused, BindBadAddr, BindUnknown, BindStart,
           BindDone, BindEntry, BindEntryFails, BindEntryElse, containerVars
  <2> QED BY <1>1, <1>6, <2>1, <2>3, <2>4
          DEF HandleCur, PassThrough, Reregister, Getname, HandleListen,
              ListenAgain, ListenUnexpected, Listen, HandleAccept,
              AcceptRefused, AcceptAddFdFails, HandleOptions, Setsockopt,
              SetFlags, Getfl
<1>7. ASSUME NEW l \in Listener, TransportAccept(l) PROVE FilesApproved'
  BY <1>1, <1>7
     DEF TransportAccept, GCheck, GEnter, GAccept, GAcceptFails, GRecvFails,
         GEnd, GDeny, GStore, GSend, containerVars
<1>8. ASSUME NEW t \in Threads, KernelReturn(t) PROVE FilesApproved'
  <2>1. \/ kfd' = [kfd EXCEPT ![Tgid[t]][call[t].fd] = Closed]
        \/ kfd' = [kfd EXCEPT ![Tgid[t]] = [fd \in Fds |-> Closed]]
    BY <1>8 DEF KernelReturn, KernelClose, KernelExit, EndProcess
  <2> QED BY <1>2, <1>3, <1>4, <2>1
<1>9. ASSUME NEW t \in Threads, User(t) PROVE FilesApproved'
  BY <1>1, <1>2, <1>3, <1>4, <1>9
     DEF User, MakeCall, Open, SilentClose, Interrupt, Kill, EndProcess
<1> QED BY <1>1, <1>5, <1>6, <1>7, <1>8, <1>9
        DEF Next, Peers, vars, containerVars

LEMMA InitAccess ==
    Init => SendApproved /\ QueueApproved /\ DialApproved /\ FilesApproved
<1> SUFFICES ASSUME Init
             PROVE  SendApproved /\ QueueApproved /\ DialApproved /\ FilesApproved
  OBVIOUS
<1>1. SendApproved
  BY DEF Init, SendApproved, NoGoroutine
<1>2. QueueApproved
  <2>1. \A s \in SockIds : sock[s].acceptedSockets = <<>>
    BY DEF Init, NewStatus
  <2> QED BY <2>1 DEF QueueApproved, Queued
<1>3. DialApproved
  BY DEF Init, DialApproved, At
<1>4. FilesApproved
  BY ContainerDistinct DEF Init, ContainerInit, FilesApproved
<1> QED BY <1>1, <1>2, <1>3, <1>4

\* Nothing is queued for a container but what the server list allows under the
\* address its peer sent whole, and nothing is dialled, or is behind a
\* descriptor of a process, but what the client list allows: for any lists,
\* workload and number of peers, and whatever fails.
THEOREM AccessControlled == Spec => []AccessChecked
<1> DEFINE Inv == TypeInv /\ SendApproved /\ QueueApproved
                  /\ DialApproved /\ FilesApproved
<1>1. Init => Inv
  BY InitType, InitAccess
<1>2. ASSUME Inv, [Next]_vars PROVE Inv'
  <2>1. SentKept
    BY <1>2, StepSent
  <2>2. TypeInv'
    BY <1>2, StepType
  <2> QED BY <1>2, <2>1, <2>2, StepSend, StepQueue, StepDial, StepFiles
<1>3. Inv => AccessChecked
  BY AccessParts
<1> QED BY <1>1, <1>2, <1>3, PTL DEF Spec
=============================================================================
