------------------------------ MODULE Listener ------------------------------
(***************************************************************************)
(* The listener of the daemon (src/pkg/tiaccoon/seccomp/handle.go): the    *)
(* OCI runtime of each container connects and sends, in one message, the   *)
(* state of the container and descriptors, one of which is that of its     *)
(* seccomp notifications; a handler is started on it.  All descriptors are *)
(* numbers of one table, in which handlers open and close others.          *)
(***************************************************************************)
EXTENDS Naturals, Sequences, FiniteSets

CONSTANTS
    DaemonFds,    \* descriptor numbers, with room for every run
    Containers,
    Messages,     \* what the runtimes send
    MaxRejected   \* bound on the messages the listener rejects

ASSUME ListenerAssumption ==
    /\ DaemonFds \subseteq Nat
    /\ \A m \in Messages :
          \* the names of the descriptors in the JSON state, if it is valid,
          /\ m.names \in Seq({"seccompFd", "other"})
          /\ m.json \in BOOLEAN
          \* whether the state is shorter than the buffer for it,
          /\ m.fits \in BOOLEAN
          \* and those sent: two fit in the buffer for control messages.
          /\ m.sent \in 0 .. 2
    /\ MaxRejected \in Nat

VARIABLES
    fds,       \* the daemon's descriptor table
    at,        \* where Start is
    runtime,   \* containers whose runtime has not connected yet
    accepted,  \* the container and the number of the socket being read
    message,   \* what was received from it: the message and the numbers
    handlers,  \* the notification handlers: container and number
    owned,     \* other numbers in use by handlers: pidfds, memory, sockets
    rejected   \* how many messages were rejected

listenerVars == <<fds, at, runtime, accepted, message, handlers, owned, rejected>>

FREE == <<"free">>
STDIO == <<"stdio">>
SOCKET == <<"socket">>
OWN == <<"own">>
File(k, i) == <<"received", k, i>>

ListenerInit ==
    /\ fds = [n \in DaemonFds |-> IF n <= 2 THEN STDIO ELSE FREE]
    /\ at = "start"
    /\ runtime = Containers
    /\ accepted = <<>>
    /\ message = <<>>
    /\ handlers = {}
    /\ owned = {}
    /\ rejected = 0

\* The n-th free number in ascending order.
FreeFd(n, number) ==
    /\ fds[number] = FREE
    /\ Cardinality({m \in DaemonFds : m < number /\ fds[m] = FREE}) = n - 1

Without(table, numbers) ==
    [n \in DaemonFds |-> IF n \in numbers THEN FREE ELSE table[n]]

-----------------------------------------------------------------------------
\* net.Listen
Listen ==
    /\ at = "start"
    /\ \E n \in DaemonFds : FreeFd(1, n) /\ fds' = [fds EXCEPT ![n] = SOCKET]
    /\ at' = "accept"
    /\ UNCHANGED <<runtime, accepted, message, handlers, owned, rejected>>

\* Accept, File and the close of the connection: the duplicate stays.
Accept(k) ==
    /\ at = "accept"
    /\ k \in runtime
    /\ \E n \in DaemonFds :
          /\ FreeFd(2, n)
          /\ fds' = [fds EXCEPT ![n] = SOCKET]
          /\ accepted' = <<k, n>>
    /\ runtime' = runtime \ {k}
    /\ at' = "receive"
    /\ UNCHANGED <<message, handlers, owned, rejected>>

\* recvmsg(2): the descriptors get the lowest free numbers.
Receive(m) ==
    /\ at = "receive"
    /\ \E numbers \in [1 .. m.sent -> DaemonFds] :
          /\ \A i \in 1 .. m.sent : FreeFd(i, numbers[i])
          /\ message' = [of |-> m, recvFds |-> numbers]
          /\ fds' = [n \in DaemonFds |->
                       IF \E i \in 1 .. m.sent : numbers[i] = n
                       THEN File(accepted[1], CHOOSE i \in 1 .. m.sent : numbers[i] = n)
                       ELSE fds[n]]
    /\ at' = "parse"
    /\ UNCHANGED <<runtime, accepted, handlers, owned, rejected>>

\* The message has the sizes that are expected; without a descriptor there is no
\* control message.
WellSized == message.of.fits /\ message.of.sent # 0

\* parseStateFds: the index of the only descriptor named seccompFd.
Named == {i \in DOMAIN message.of.names : message.of.names[i] = "seccompFd"}
Parsed(idx) ==
    /\ WellSized
    /\ message.of.json
    /\ Named = {idx}
    /\ idx \in DOMAIN message.recvFds

\* Variant: the one to keep is counted from 0.
Rest_Shifted(idx) ==
    {message.recvFds[i] : i \in DOMAIN message.recvFds \ {idx + 1}}

\* Variant: the others stay.
Rest_None(idx) == {}

\* The received descriptors that are not wanted.
Rest(idx) == {message.recvFds[i] : i \in DOMAIN message.recvFds \ {idx}}

Start ==
    /\ at = "parse"
    /\ \E idx \in 1 .. 2 :
          /\ Parsed(idx)
          /\ fds' = Without(fds, Rest(idx))
          /\ handlers' = handlers \cup {<<accepted[1], message.recvFds[idx], idx>>}
    /\ at' = "close"
    /\ UNCHANGED <<runtime, accepted, message, owned, rejected>>

\* closeStateFds: `for i := range recvFds` gives the indices, from 0.
Indices(numbers) == {i - 1 : i \in DOMAIN numbers}

\* The state or the names are malformed: closeStateFds is for the descriptors
\* that were received, which stay open.  0 is the daemon's input, 1 its log.
Reject ==
    /\ at = "parse"
    /\ rejected < MaxRejected
    /\ WellSized
    /\ \A idx \in 1 .. 2 : ~Parsed(idx)
    /\ fds' = Without(fds, Indices(message.recvFds))
    /\ rejected' = rejected + 1
    /\ at' = "close"
    /\ UNCHANGED <<runtime, accepted, message, handlers, owned>>

\* A message of another size is not looked at; what came with it stays open.
RejectUnread ==
    /\ at = "parse"
    /\ rejected < MaxRejected
    /\ ~WellSized
    /\ rejected' = rejected + 1
    /\ at' = "close"
    /\ UNCHANGED <<fds, runtime, accepted, message, handlers, owned>>

\* socket.Close() in either case, by its number.
CloseSocket ==
    /\ at = "close"
    /\ fds' = Without(fds, {accepted[2]})
    /\ accepted' = <<>>
    /\ message' = <<>>
    /\ at' = "accept"
    /\ UNCHANGED <<runtime, handlers, owned, rejected>>

\* A handler opens a descriptor for its work, and closes it.
Open ==
    /\ handlers # {}
    /\ owned = {}
    /\ \E n \in DaemonFds :
          /\ FreeFd(1, n)
          /\ fds' = [fds EXCEPT ![n] = OWN]
          /\ owned' = {n}
    /\ UNCHANGED <<at, runtime, accepted, message, handlers, rejected>>

Close ==
    /\ owned # {}
    /\ fds' = Without(fds, owned)
    /\ owned' = {}
    /\ UNCHANGED <<at, runtime, accepted, message, handlers, rejected>>

ListenerNext ==
    \/ Listen \/ (\E k \in Containers : Accept(k)) \/ (\E m \in Messages : Receive(m))
    \/ Start \/ Reject \/ RejectUnread \/ CloseSocket \/ Open \/ Close

ListenerSpec == ListenerInit /\ [][ListenerNext]_listenerVars

-----------------------------------------------------------------------------
\* The descriptor a handler receives notifications on is the one its container
\* sent, and so are those it opened for itself its own: with one rejected message
\* too, which closes no number above 1, and without one 0, 1 and 2 stay the
\* standard ones, of which 1 is the daemon's log.
HandlersKept ==
    /\ rejected <= 1 =>
          /\ \A h \in handlers : fds[h[2]] = File(h[1], h[3])
          /\ \A n \in owned : fds[n] = OWN
    /\ rejected = 0 => \A n \in DaemonFds : n <= 2 => fds[n] = STDIO

\* No message closes a descriptor that is not its own: what a comment of
\* parseStateFds says of a message that is in error, "no fd is closed".
HandlersAlwaysKept ==
    \A h \in handlers : fds[h[2]] = File(h[1], h[3])

\* Nor is the daemon's log closed by one.
LogKept == \A n \in DaemonFds : n = 1 => fds[n] = STDIO

\* While no message is rejected the daemon holds, between messages, nothing a
\* runtime sent but the descriptors its handlers are started on.
NothingKept ==
    rejected = 0 /\ at = "accept" =>
        {n \in DaemonFds : fds[n][1] = "received"} = {h[2] : h \in handlers}
=============================================================================
