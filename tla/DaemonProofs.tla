---------------------------- MODULE DaemonProofs ----------------------------
(***************************************************************************)
(* What surrounds the handlers: the listener that starts each with its     *)
(* container's descriptor, the processes that each knows by their number,  *)
(* and the managers of two hosts that fill the tables while they serve.    *)
(***************************************************************************)
EXTENDS Startup, Listener, PidCache, SequenceTheorems, TLAPS

-----------------------------------------------------------------------------
\* What a number may refer to.
LEMMA Contents ==
    /\ FREE # STDIO /\ FREE # SOCKET /\ FREE # OWN
    /\ STDIO # SOCKET /\ STDIO # OWN /\ SOCKET # OWN
    /\ FREE[1] = "free" /\ STDIO[1] = "stdio" /\ SOCKET[1] = "socket" /\ OWN[1] = "own"
    /\ \A k, i : File(k, i)[1] = "received" /\ File(k, i)[2] = k /\ File(k, i)[3] = i
BY DEF FREE, STDIO, SOCKET, OWN, File

LEMMA FilesDiffer ==
    ASSUME NEW k, NEW i
    PROVE  /\ File(k, i) \notin {FREE, STDIO, SOCKET, OWN}
           /\ \A l, j : File(k, i) = File(l, j) => k = l /\ i = j
<1>1. ASSUME NEW l, NEW j, File(k, i) = File(l, j)
      PROVE  k = l /\ i = j
  BY <1>1 DEF File
<1>2. File(k, i) \notin {FREE, STDIO, SOCKET, OWN}
  <2> DEFINE f == File(k, i)
  <2>1. f[1] = "received"
    BY Contents
  <2> HIDE DEF f
  <2>2. f \notin {FREE, STDIO, SOCKET, OWN}
    BY <2>1, Contents
  <2> QED BY <2>2 DEF f
<1> QED BY <1>1, <1>2

\* Two received numbers are not the same one.
LEMMA NumbersDiffer ==
    ASSUME NEW i \in Nat, NEW j \in Nat, NEW n, FreeFd(i, n), FreeFd(j, n)
    PROVE  i = j
BY DEF FreeFd

\* Handlers by container, descriptor number and place in its message; a message
\* while it is looked at; a socket while one is read.
Reading == accepted # <<>>
Parsing == at = "parse"
Received == {message.recvFds[i] : i \in DOMAIN message.recvFds}

ListenerTypes ==
    /\ DOMAIN fds = DaemonFds
    /\ rejected \in Nat
    /\ at \in {"start", "accept", "receive", "parse", "close"}
    /\ at \in {"start", "accept"} <=> ~Reading
    /\ Reading => \E k, n : n \in DaemonFds /\ accepted = <<k, n>>
    /\ Parsing => \E m \in Messages : \E numbers \in [1 .. m.sent -> DaemonFds] :
                     message = [of |-> m, recvFds |-> numbers]
    /\ \A h \in handlers : h[2] \in DaemonFds
    /\ owned \subseteq DaemonFds

\* What is in use is what it was when it was put in use, and no container's
\* runtime is heard twice.
InUse ==
    /\ \A h \in handlers : fds[h[2]] = File(h[1], h[3]) /\ h[1] \notin runtime
    /\ \A n \in owned : fds[n] = OWN
    /\ Reading => fds[accepted[2]] = SOCKET /\ accepted[1] \notin runtime
    /\ at \in {"receive", "parse"} => \A h \in handlers : h[1] # accepted[1]
    /\ Parsing => \A i \in DOMAIN message.recvFds :
                     fds[message.recvFds[i]] = File(accepted[1], i)

\* Before a message is rejected the first three numbers are the standard ones,
\* and what runtimes sent is either a handler's or being looked at.
Unrejected ==
    /\ \A n \in DaemonFds : n <= 2 => fds[n] = STDIO
    /\ {n \in DaemonFds : fds[n][1] = "received"}
         = {h[2] : h \in handlers} \cup (IF Parsing THEN Received ELSE {})

ListenerInv ==
    /\ ListenerTypes
    /\ rejected <= 1 => InUse
    /\ rejected = 0 => Unrejected

LEMMA InvSays ==
    ASSUME ListenerInv
    PROVE  HandlersKept /\ NothingKept
BY DEF ListenerInv, HandlersKept, NothingKept, InUse, Unrejected, Parsing, ListenerTypes

LEMMA InitListener ==
    ASSUME ListenerInit
    PROVE  ListenerInv
<1> USE ListenerAssumption DEF ListenerInit
<1>1. ListenerTypes
  BY DEF ListenerTypes, Reading, Parsing
<1>2. InUse
  BY DEF InUse, Reading, Parsing
<1>3. Unrejected
  <2>1. \A n \in DaemonFds : fds[n][1] # "received"
    BY Contents
  <2> QED BY <2>1 DEF Unrejected, Parsing
<1> QED BY <1>1, <1>2, <1>3 DEF ListenerInv

LEMMA RecvType ==
    ASSUME ListenerTypes, Parsing
    PROVE  /\ message.of \in Messages /\ message.of.sent \in 0 .. 2
           /\ DOMAIN message.recvFds = 1 .. message.of.sent
           /\ \A i \in DOMAIN message.recvFds : message.recvFds[i] \in DaemonFds
<1>1. PICK m \in Messages : \E numbers \in [1 .. m.sent -> DaemonFds] :
         message = [of |-> m, recvFds |-> numbers]
  BY DEF ListenerTypes
<1> QED BY <1>1, ListenerAssumption

\* Numbers that are freed.
LEMMA WithoutIs ==
    ASSUME NEW table, NEW numbers
    PROVE  /\ DOMAIN Without(table, numbers) = DaemonFds
           /\ \A n \in DaemonFds :
                 Without(table, numbers)[n] = IF n \in numbers THEN FREE ELSE table[n]
BY DEF Without

\* A number that was free and is not a standard one, a file or in use.
LEMMA WasFree ==
    ASSUME ListenerTypes, InUse, NEW n \in DaemonFds, fds[n] = FREE
    PROVE  /\ \A h \in handlers : h[2] # n
           /\ n \notin owned
           /\ Reading => accepted[2] # n
           /\ Parsing => \A i \in DOMAIN message.recvFds : message.recvFds[i] # n
BY Contents, FilesDiffer DEF InUse

\* Listen, Accept and Open put a socket, or a file of a handler, at a free number.
LEMMA TakeFree ==
    ASSUME ListenerTypes, NEW n \in DaemonFds, fds[n] = FREE, NEW x \in {SOCKET, OWN},
           fds' = [fds EXCEPT ![n] = x]
    PROVE  /\ DOMAIN fds' = DaemonFds
           /\ fds'[n] = x
           /\ \A o \in DaemonFds : o # n => fds'[o] = fds[o]
           /\ {o \in DaemonFds : fds'[o][1] = "received"}
                = {o \in DaemonFds : fds[o][1] = "received"}
           /\ Unrejected => \A o \in DaemonFds : o <= 2 => fds'[o] = STDIO
<1>1. /\ DOMAIN fds' = DaemonFds /\ fds'[n] = x
      /\ \A o \in DaemonFds : o # n => fds'[o] = fds[o]
  BY DEF ListenerTypes
<1>2. x[1] # "received" /\ FREE[1] # "received"
  BY Contents
<1>3. {o \in DaemonFds : fds'[o][1] = "received"}
         = {o \in DaemonFds : fds[o][1] = "received"}
  BY <1>1, <1>2
<1>4. ASSUME Unrejected, NEW o \in DaemonFds, o <= 2
      PROVE  fds'[o] = STDIO
  BY <1>1, <1>4, Contents DEF Unrejected
<1> QED BY <1>1, <1>3, <1>4

LEMMA StepListen ==
    ASSUME ListenerInv, Listen
    PROVE  ListenerInv'
<1>1. PICK n \in DaemonFds : FreeFd(1, n) /\ fds' = [fds EXCEPT ![n] = SOCKET]
  BY DEF Listen
<1>2. /\ fds[n] = FREE /\ ListenerTypes
      /\ at = "start" /\ at' = "accept"
      /\ UNCHANGED <<runtime, accepted, message, handlers, owned, rejected>>
  BY <1>1 DEF Listen, FreeFd, ListenerInv
<1>3. /\ DOMAIN fds' = DaemonFds
      /\ \A o \in DaemonFds : o # n => fds'[o] = fds[o]
      /\ {o \in DaemonFds : fds'[o][1] = "received"}
           = {o \in DaemonFds : fds[o][1] = "received"}
      /\ Unrejected => \A o \in DaemonFds : o <= 2 => fds'[o] = STDIO
  BY <1>1, <1>2, TakeFree
<1>4. ListenerTypes'
  BY <1>2, <1>3 DEF ListenerTypes, Reading, Parsing
<1>5. InUse => InUse'
  BY <1>2, <1>3, WasFree DEF InUse, Reading, Parsing, ListenerTypes
<1>6. Unrejected => Unrejected'
  BY <1>2, <1>3 DEF Unrejected, Parsing, Received
<1> QED BY <1>2, <1>4, <1>5, <1>6 DEF ListenerInv

LEMMA StepAccept ==
    ASSUME ListenerInv, NEW k, Accept(k)
    PROVE  ListenerInv'
<1>1. PICK n \in DaemonFds : /\ FreeFd(2, n) /\ fds' = [fds EXCEPT ![n] = SOCKET]
                             /\ accepted' = <<k, n>>
  BY DEF Accept
<1>2. /\ fds[n] = FREE /\ ListenerTypes
      /\ at = "accept" /\ at' = "receive"
      /\ k \in runtime /\ runtime' = runtime \ {k}
      /\ UNCHANGED <<message, handlers, owned, rejected>>
  BY <1>1 DEF Accept, FreeFd, ListenerInv
<1>3. /\ DOMAIN fds' = DaemonFds /\ fds'[n] = SOCKET
      /\ \A o \in DaemonFds : o # n => fds'[o] = fds[o]
      /\ {o \in DaemonFds : fds'[o][1] = "received"}
           = {o \in DaemonFds : fds[o][1] = "received"}
      /\ Unrejected => \A o \in DaemonFds : o <= 2 => fds'[o] = STDIO
  BY <1>1, <1>2, TakeFree
<1>4. accepted'[1] = k /\ accepted'[2] = n /\ Reading'
  BY <1>1 DEF Reading
<1>5. ListenerTypes'
  BY <1>1, <1>2, <1>3, <1>4 DEF ListenerTypes, Parsing
<1>6. InUse => InUse'
  BY <1>2, <1>3, <1>4, WasFree DEF InUse, Parsing, ListenerTypes
<1>7. Unrejected => Unrejected'
  BY <1>2, <1>3 DEF Unrejected, Parsing, Received
<1> QED BY <1>2, <1>5, <1>6, <1>7 DEF ListenerInv

LEMMA StepOpen ==
    ASSUME ListenerInv, Open
    PROVE  ListenerInv'
<1>1. PICK n \in DaemonFds : /\ FreeFd(1, n) /\ fds' = [fds EXCEPT ![n] = OWN]
                             /\ owned' = {n}
  BY DEF Open
<1>2. /\ fds[n] = FREE /\ ListenerTypes
      /\ UNCHANGED <<at, runtime, accepted, message, handlers, rejected>>
  BY <1>1 DEF Open, FreeFd, ListenerInv
<1>3. /\ DOMAIN fds' = DaemonFds /\ fds'[n] = OWN
      /\ \A o \in DaemonFds : o # n => fds'[o] = fds[o]
      /\ {o \in DaemonFds : fds'[o][1] = "received"}
           = {o \in DaemonFds : fds[o][1] = "received"}
      /\ Unrejected => \A o \in DaemonFds : o <= 2 => fds'[o] = STDIO
  BY <1>1, <1>2, TakeFree
<1>4. ListenerTypes'
  BY <1>1, <1>2, <1>3 DEF ListenerTypes, Reading, Parsing
<1>5. InUse => InUse'
  <2> SUFFICES ASSUME InUse PROVE InUse'
    OBVIOUS
  <2>1. /\ \A h \in handlers : h[2] \in DaemonFds /\ h[2] # n
        /\ Reading => accepted[2] \in DaemonFds /\ accepted[2] # n
        /\ Parsing => \A i \in DOMAIN message.recvFds :
                         message.recvFds[i] \in DaemonFds /\ message.recvFds[i] # n
    <3>1. Parsing => \A i \in DOMAIN message.recvFds : message.recvFds[i] \in DaemonFds
      BY <1>2, RecvType
    <3> QED BY <1>2, <3>1, WasFree DEF ListenerTypes
  <2> QED BY <1>1, <1>2, <1>3, <2>1 DEF InUse, Reading, Parsing
<1>6. Unrejected => Unrejected'
  BY <1>2, <1>3 DEF Unrejected, Parsing, Received
<1> QED BY <1>2, <1>4, <1>5, <1>6 DEF ListenerInv

\* Numbers that are not a handler's or received are freed.
LEMMA Frees ==
    ASSUME ListenerTypes, NEW numbers, fds' = Without(fds, numbers)
    PROVE  /\ DOMAIN fds' = DaemonFds
           /\ \A n \in DaemonFds : n \notin numbers => fds'[n] = fds[n]
           /\ {n \in DaemonFds : fds'[n][1] = "received"}
                = {n \in DaemonFds : fds[n][1] = "received"} \ numbers
           /\ (Unrejected /\ \A n \in numbers : n \in DaemonFds => fds[n] # STDIO)
                => \A n \in DaemonFds : n <= 2 => fds'[n] = STDIO
<1>1. /\ DOMAIN fds' = DaemonFds
      /\ \A n \in DaemonFds : fds'[n] = IF n \in numbers THEN FREE ELSE fds[n]
  BY WithoutIs
<1>2. FREE[1] # "received"
  BY Contents
<1>3. {n \in DaemonFds : fds'[n][1] = "received"}
         = {n \in DaemonFds : fds[n][1] = "received"} \ numbers
  BY <1>1, <1>2
<1> QED BY <1>1, <1>3 DEF Unrejected

LEMMA StepClose ==
    ASSUME ListenerInv, Close
    PROVE  ListenerInv'
<1>1. /\ fds' = Without(fds, owned) /\ owned' = {} /\ ListenerTypes
      /\ UNCHANGED <<at, runtime, accepted, message, handlers, rejected>>
  BY DEF Close, ListenerInv
<1>2. ListenerTypes'
  BY <1>1, Frees DEF ListenerTypes, Reading, Parsing
<1>3. InUse => InUse'
  <2> SUFFICES ASSUME InUse PROVE InUse'
    OBVIOUS
  <2>1. \A n \in owned : fds[n] = OWN
    BY DEF InUse
  <2>2. /\ \A h \in handlers : h[2] \in DaemonFds /\ h[2] \notin owned
        /\ Reading => accepted[2] \in DaemonFds /\ accepted[2] \notin owned
    BY <1>1, <2>1, Contents, FilesDiffer DEF InUse, ListenerTypes
  <2>3. Parsing => \A i \in DOMAIN message.recvFds :
           message.recvFds[i] \in DaemonFds /\ message.recvFds[i] \notin owned
    BY <1>1, <2>1, RecvType, FilesDiffer DEF InUse
  <2> QED BY <1>1, <2>2, <2>3, Frees DEF InUse, Reading, Parsing
<1>4. InUse /\ Unrejected => Unrejected'
  <2> SUFFICES ASSUME InUse, Unrejected PROVE Unrejected'
    OBVIOUS
  <2>1. \A n \in owned : fds[n] # STDIO /\ fds[n][1] # "received"
    BY Contents DEF InUse
  <2>2. /\ {n \in DaemonFds : fds'[n][1] = "received"}
             = {n \in DaemonFds : fds[n][1] = "received"}
        /\ \A n \in DaemonFds : n <= 2 => fds'[n] = STDIO
    BY <1>1, <2>1, Frees
  <2> QED BY <1>1, <2>2 DEF Unrejected, Parsing, Received
<1> QED BY <1>1, <1>2, <1>3, <1>4 DEF ListenerInv

LEMMA StepCloseSocket ==
    ASSUME ListenerInv, CloseSocket
    PROVE  ListenerInv'
<1>1. /\ fds' = Without(fds, {accepted[2]}) /\ ListenerTypes /\ Reading
      /\ accepted' = <<>> /\ at = "close" /\ at' = "accept"
      /\ UNCHANGED <<runtime, handlers, owned, rejected>>
  BY DEF CloseSocket, ListenerInv, ListenerTypes
<1>2. PICK n \in DaemonFds : n = accepted[2]
  BY <1>1 DEF ListenerTypes
<1>3. /\ \A o \in DaemonFds : o # n => fds'[o] = fds[o]
      /\ {o \in DaemonFds : fds'[o][1] = "received"}
           = {o \in DaemonFds : fds[o][1] = "received"} \ {n}
      /\ Unrejected /\ fds[n] # STDIO
           => \A o \in DaemonFds : o <= 2 => fds'[o] = STDIO
  <2> DEFINE closed == {n}
  <2>1. fds' = Without(fds, closed)
    BY <1>1, <1>2
  <2>2. \A o : o \in closed <=> o = n
    OBVIOUS
  <2> HIDE DEF closed
  <2> QED BY <1>1, <2>1, <2>2, Frees
<1>4. ListenerTypes'
  BY <1>1, Frees DEF ListenerTypes, Reading, Parsing
<1>5. InUse => InUse'
  <2> SUFFICES ASSUME InUse PROVE InUse'
    OBVIOUS
  <2>1. fds[n] = SOCKET
    BY <1>1, <1>2 DEF InUse
  <2>2. /\ \A h \in handlers : h[2] \in DaemonFds /\ h[2] # n
        /\ \A o \in owned : o \in DaemonFds /\ o # n
    BY <1>1, <2>1, Contents, FilesDiffer DEF InUse, ListenerTypes
  <2>3. at' \notin {"receive", "parse"} /\ ~Reading'
    BY <1>1 DEF Reading
  <2> QED BY <1>1, <1>3, <2>2, <2>3 DEF InUse, Parsing
<1>6. InUse /\ Unrejected => Unrejected'
  <2> SUFFICES ASSUME InUse, Unrejected PROVE Unrejected'
    OBVIOUS
  <2>1. fds[n] # STDIO /\ fds[n][1] # "received"
    BY <1>1, <1>2, Contents DEF InUse
  <2> QED BY <1>1, <1>3, <2>1 DEF Unrejected, Parsing
<1> QED BY <1>1, <1>4, <1>5, <1>6 DEF ListenerInv

LEMMA StepReject ==
    ASSUME ListenerInv, Reject
    PROVE  ListenerInv'
<1>1. /\ fds' = Without(fds, Indices(message.recvFds)) /\ ListenerTypes /\ Parsing
      /\ at' = "close" /\ rejected' = rejected + 1
      /\ UNCHANGED <<runtime, accepted, message, handlers, owned>>
  BY DEF Reject, ListenerInv, Parsing
<1>2. rejected \in Nat /\ Reading /\ Reading'
  BY <1>1 DEF ListenerTypes, Reading, Parsing
<1>3. ListenerTypes'
  BY <1>1, <1>2, Frees DEF ListenerTypes, Reading, Parsing
<1>4. ASSUME rejected = 0
      PROVE  InUse'
  <2>1. InUse /\ Unrejected
    BY <1>4 DEF ListenerInv
  <2>2. \A n \in Indices(message.recvFds) : n <= 2
    BY <1>1, RecvType DEF Indices
  <2>3. \A n \in Indices(message.recvFds) : n \in DaemonFds => fds[n] = STDIO
    BY <2>1, <2>2 DEF Unrejected
  <2>4. /\ \A h \in handlers : h[2] \in DaemonFds /\ fds[h[2]] # STDIO
        /\ \A n \in owned : n \in DaemonFds /\ fds[n] # STDIO
        /\ accepted[2] \in DaemonFds /\ fds[accepted[2]] # STDIO
    BY <1>1, <1>2, <2>1, Contents, FilesDiffer DEF InUse, ListenerTypes
  <2>5. /\ \A h \in handlers : fds'[h[2]] = fds[h[2]]
        /\ \A n \in owned : fds'[n] = fds[n]
        /\ fds'[accepted[2]] = fds[accepted[2]]
    BY <1>1, <2>3, <2>4, Frees
  <2> QED BY <1>1, <1>2, <2>1, <2>5 DEF InUse, Reading, Parsing
<1> QED BY <1>1, <1>2, <1>3, <1>4 DEF ListenerInv

LEMMA StepRejectUnread ==
    ASSUME ListenerInv, RejectUnread
    PROVE  ListenerInv'
<1>1. /\ ListenerTypes /\ Parsing /\ ~Parsing'
      /\ at' = "close" /\ rejected' = rejected + 1
      /\ UNCHANGED <<fds, runtime, accepted, message, handlers, owned>>
  BY DEF RejectUnread, ListenerInv, Parsing
<1>2. rejected \in Nat /\ Reading /\ Reading'
  BY <1>1 DEF ListenerTypes, Reading, Parsing
<1>3. ListenerTypes'
  BY <1>1, <1>2 DEF ListenerTypes, Reading
<1>4. InUse => InUse'
  BY <1>1, <1>2 DEF InUse
<1> QED BY <1>1, <1>2, <1>3, <1>4 DEF ListenerInv

\* A message is received: each of its descriptors has the next free number.
LEMMA StepReceive ==
    ASSUME ListenerInv, NEW m \in Messages, Receive(m)
    PROVE  ListenerInv'
<1>0. PICK numbers \in [1 .. m.sent -> DaemonFds] :
        /\ \A i \in 1 .. m.sent : FreeFd(i, numbers[i])
        /\ message' = [of |-> m, recvFds |-> numbers]
        /\ fds' = [n \in DaemonFds |->
                     IF \E i \in 1 .. m.sent : numbers[i] = n
                     THEN File(accepted[1], CHOOSE i \in 1 .. m.sent : numbers[i] = n)
                     ELSE fds[n]]
  BY DEF Receive
<1>1. /\ ListenerTypes /\ at = "receive" /\ at' = "parse" /\ Parsing'
      /\ UNCHANGED <<runtime, accepted, handlers, owned, rejected>>
  BY DEF Receive, ListenerInv, Parsing
<1>2. Reading /\ ~Parsing /\ m.sent \in 0 .. 2
  BY <1>1, ListenerAssumption DEF ListenerTypes, Parsing
<1>3. \A i, j \in 1 .. m.sent : numbers[i] = numbers[j] => i = j
  <2> SUFFICES ASSUME NEW i \in 1 .. m.sent, NEW j \in 1 .. m.sent,
                      numbers[i] = numbers[j]
               PROVE  i = j
    OBVIOUS
  <2>1. i \in Nat /\ j \in Nat
    BY <1>2
  <2>2. FreeFd(i, numbers[i]) /\ FreeFd(j, numbers[i])
    BY <1>0
  <2> QED BY <2>1, <2>2, NumbersDiffer
<1>4. \A i \in 1 .. m.sent : fds[numbers[i]] = FREE /\ numbers[i] \in DaemonFds
  BY <1>0 DEF FreeFd
<1>5. \A i \in 1 .. m.sent : fds'[numbers[i]] = File(accepted[1], i)
  <2> TAKE i \in 1 .. m.sent
  <2>1. (CHOOSE j \in 1 .. m.sent : numbers[j] = numbers[i]) = i
    BY <1>3
  <2>2. fds'[numbers[i]] =
           File(accepted[1], CHOOSE j \in 1 .. m.sent : numbers[j] = numbers[i])
    BY <1>0, <1>4
  <2> QED BY <2>1, <2>2
<1>6. \A n \in DaemonFds : (\A i \in 1 .. m.sent : numbers[i] # n) => fds'[n] = fds[n]
  BY <1>0
<1>7. /\ message'.of = m /\ message'.recvFds = numbers
      /\ DOMAIN message'.recvFds = 1 .. m.sent
  BY <1>0
<1>8. ListenerTypes'
  <2>1. \E x \in Messages : \E y \in [1 .. x.sent -> DaemonFds] :
           message' = [of |-> x, recvFds |-> y]
    BY <1>0
  <2>2. DOMAIN fds' = DaemonFds
    BY <1>0
  <2> QED BY <1>1, <1>2, <2>1, <2>2 DEF ListenerTypes, Reading
<1>9. InUse => InUse'
  <2> SUFFICES ASSUME InUse PROVE InUse'
    OBVIOUS
  <2>1. \A n \in DaemonFds : fds[n] # FREE => fds'[n] = fds[n]
    BY <1>4, <1>6
  <2>2. \A h \in handlers : h[2] \in DaemonFds /\ fds'[h[2]] = fds[h[2]]
    BY <1>1, <2>1, FilesDiffer DEF InUse, ListenerTypes
  <2>3. /\ \A n \in owned : fds'[n] = fds[n]
        /\ fds'[accepted[2]] = fds[accepted[2]]
    BY <1>1, <1>2, <2>1, Contents DEF InUse, ListenerTypes
  <2> QED BY <1>1, <1>2, <1>5, <1>7, <2>2, <2>3 DEF InUse, Reading
<1>10. Unrejected => Unrejected'
  <2> SUFFICES ASSUME Unrejected PROVE Unrejected'
    OBVIOUS
  <2>1. \A n \in DaemonFds : n <= 2 => fds'[n] = STDIO
    <3> SUFFICES ASSUME NEW n \in DaemonFds, n <= 2 PROVE fds'[n] = STDIO
      OBVIOUS
    <3>1. fds[n] = STDIO
      BY DEF Unrejected
    <3> QED BY <1>4, <1>6, <3>1, Contents
  <2>2. Received' = {numbers[i] : i \in 1 .. m.sent}
    BY <1>7 DEF Received
  <2>3. \A n \in DaemonFds : fds'[n][1] = "received" <=>
           fds[n][1] = "received" \/ n \in {numbers[i] : i \in 1 .. m.sent}
    <3> SUFFICES ASSUME NEW n \in DaemonFds
                 PROVE  fds'[n][1] = "received" <=>
                           \/ fds[n][1] = "received"
                           \/ n \in {numbers[i] : i \in 1 .. m.sent}
      OBVIOUS
    <3>1. CASE n \in {numbers[i] : i \in 1 .. m.sent}
      <4>1. PICK i \in 1 .. m.sent : numbers[i] = n
        BY <3>1
      <4> QED BY <1>5, <4>1, Contents, <3>1
    <3>2. CASE n \notin {numbers[i] : i \in 1 .. m.sent}
      BY <1>6, <3>2
    <3> QED BY <3>1, <3>2
  <2>4. {n \in DaemonFds : fds[n][1] = "received"} = {h[2] : h \in handlers}
    BY <1>2 DEF Unrejected
  <2>5. {numbers[i] : i \in 1 .. m.sent} \subseteq DaemonFds
    BY <1>4
  <2>6. {n \in DaemonFds : fds'[n][1] = "received"}
           = {h[2] : h \in handlers} \cup {numbers[i] : i \in 1 .. m.sent}
    BY <2>3, <2>4, <2>5
  <2> QED BY <1>1, <2>1, <2>2, <2>6 DEF Unrejected
<1> QED BY <1>1, <1>8, <1>9, <1>10 DEF ListenerInv

\* The wanted descriptor goes to a new handler, the others are closed.
LEMMA StepStart ==
    ASSUME ListenerInv, Start
    PROVE  ListenerInv'
<1>0. PICK idx \in 1 .. 2 :
        /\ Parsed(idx)
        /\ fds' = Without(fds, Rest(idx))
        /\ handlers' = handlers \cup {<<accepted[1], message.recvFds[idx], idx>>}
  BY DEF Start
<1> DEFINE k == accepted[1]
           n == message.recvFds[idx]
           h0 == <<k, n, idx>>
           I == DOMAIN message.recvFds
<1>1. /\ ListenerTypes /\ Parsing /\ at' = "close" /\ ~Parsing'
      /\ UNCHANGED <<runtime, accepted, message, owned, rejected>>
  BY DEF Start, ListenerInv, Parsing
<1>2. Reading /\ Reading' /\ idx \in I /\ n \in DaemonFds
  BY <1>0, <1>1, RecvType DEF ListenerTypes, Parsing, Parsed, Reading
<1>3. h0[1] = k /\ h0[2] = n /\ h0[3] = idx
  OBVIOUS
<1> HIDE DEF h0
<1>4. \A h \in handlers' : h \in handlers \/ h = h0
  BY <1>0 DEF h0
<1>5. ListenerTypes'
  BY <1>1, <1>0, <1>2, <1>3, <1>4, Frees DEF ListenerTypes, Reading, Parsing
<1>6. InUse => /\ \A i \in I : fds[message.recvFds[i]] = File(k, i)
               /\ \A o \in Rest(idx) : \E i \in I : i # idx /\ o = message.recvFds[i]
               /\ n \notin Rest(idx)
  BY <1>1, <1>2, FilesDiffer DEF InUse, Rest
<1>7. InUse => InUse'
  <2> SUFFICES ASSUME InUse PROVE InUse'
    OBVIOUS
  <2>1. \A o \in Rest(idx) : \E i : fds[o] = File(k, i)
    BY <1>6
  <2>2. ASSUME NEW h \in handlers PROVE h[2] \in DaemonFds /\ h[2] \notin Rest(idx)
    <3>1. fds[h[2]] = File(h[1], h[3]) /\ h[1] # k
      BY <1>1 DEF InUse, Parsing
    <3> QED BY <1>1, <2>1, <3>1, FilesDiffer DEF ListenerTypes
  <2>3. /\ \A o \in owned : o \in DaemonFds /\ o \notin Rest(idx)
        /\ accepted[2] \in DaemonFds /\ accepted[2] \notin Rest(idx)
    BY <1>1, <1>2, <2>1, Contents, FilesDiffer DEF InUse, ListenerTypes
  <2>4. \A h \in handlers' : fds'[h[2]] = File(h[1], h[3]) /\ h[1] \notin runtime
    <3>1. fds'[n] = File(k, idx) /\ k \notin runtime
      BY <1>0, <1>1, <1>2, <1>6, Frees DEF InUse
    <3>2. \A h \in handlers : fds'[h[2]] = File(h[1], h[3]) /\ h[1] \notin runtime
      BY <1>0, <1>1, <2>2, Frees DEF InUse
    <3> QED BY <1>3, <1>4, <3>1, <3>2
  <2>5. /\ \A o \in owned : fds'[o] = OWN
        /\ fds'[accepted[2]] = SOCKET /\ accepted[1] \notin runtime
    BY <1>0, <1>1, <1>2, <2>3, Frees DEF InUse
  <2>6. at' \notin {"receive", "parse"}
    BY <1>1
  <2> QED BY <1>1, <2>4, <2>5, <2>6 DEF InUse, Parsing
<1>8. InUse /\ Unrejected => Unrejected'
  <2> SUFFICES ASSUME InUse, Unrejected PROVE Unrejected'
    OBVIOUS
  <2>1. \A o \in Rest(idx) : fds[o] # STDIO
    BY <1>6, FilesDiffer
  <2>2. /\ {o \in DaemonFds : fds'[o][1] = "received"}
             = {o \in DaemonFds : fds[o][1] = "received"} \ Rest(idx)
        /\ \A o \in DaemonFds : o <= 2 => fds'[o] = STDIO
    BY <1>0, <1>1, <2>1, Frees
  <2>3. {o \in DaemonFds : fds[o][1] = "received"}
           = {h[2] : h \in handlers} \cup {message.recvFds[i] : i \in I}
    BY <1>1 DEF Unrejected, Received
  <2>4. {message.recvFds[i] : i \in I} \ Rest(idx) = {n}
    BY <1>2, <1>6 DEF Rest
  <2>5. {h[2] : h \in handlers} \cap Rest(idx) = {}
    <3> SUFFICES ASSUME NEW h \in handlers PROVE h[2] \notin Rest(idx)
      OBVIOUS
    <3>1. fds[h[2]] = File(h[1], h[3]) /\ h[1] # k
      BY <1>1 DEF InUse, Parsing
    <3> QED BY <1>6, <3>1, FilesDiffer
  <2>6. {h[2] : h \in handlers'} = {h[2] : h \in handlers} \cup {n}
    BY <1>0, <1>3 DEF h0
  <2>7. {o \in DaemonFds : fds'[o][1] = "received"} = {h[2] : h \in handlers'}
    BY <2>2, <2>3, <2>4, <2>5, <2>6
  <2> QED BY <1>1, <2>2, <2>7 DEF Unrejected
<1> QED BY <1>1, <1>5, <1>7, <1>8 DEF ListenerInv

LEMMA StepListener ==
    ASSUME ListenerInv, [ListenerNext]_listenerVars
    PROVE  ListenerInv'
<1>1. CASE UNCHANGED listenerVars
  BY <1>1 DEF ListenerInv, ListenerTypes, InUse, Unrejected, Reading, Parsing,
              Received, listenerVars
<1> QED BY <1>1, StepListen, StepAccept, StepReceive, StepStart, StepReject,
           StepRejectUnread, StepCloseSocket, StepOpen, StepClose DEF ListenerNext

\* As long as the listener has rejected at most one message, every handler's
\* notification descriptor is the one its container sent and every descriptor a
\* handler opened is its own, for any containers, messages and table: the
\* numbers that closeStateFds closes are then standard ones.  Until it rejects
\* one the standard ones are open too.
THEOREM HandlersKeepTheirs ==
    ListenerSpec => []HandlersKept
BY InitListener, StepListener, InvSays, PTL DEF ListenerSpec

\* Until a message is rejected the listener keeps nothing of what it is sent but
\* the descriptors of its handlers.
THEOREM NothingIsKept ==
    ListenerSpec => []NothingKept
BY InitListener, StepListener, InvSays, PTL DEF ListenerSpec

-----------------------------------------------------------------------------
\* A task is of a process that was born, and the threads of a process have one
\* leader.
TasksOK ==
    /\ \A p \in Pids : Alive(p) => task[p].is \in used
    /\ \A p, q \in Pids :
          Alive(p) /\ task[q].is = task[p].is => task[q].tgid = task[p].tgid

\* Outside of `odd` there are only single-threaded processes ...
PlainTasks ==
    \A p \in Pids :
        Alive(p) /\ (p \notin odd \/ task[p].tgid \notin odd)
            => task[p].tgid = p

\* ... and they are cached as such ...
PlainInfos ==
    \A p \in Pids :
        pidInfos[p] # NoInfo /\ (p \notin odd \/ pidInfos[p].tgid \notin odd)
            => pidInfos[p].tgid = p /\ pidInfos[p].pidType = "PROCESS"

\* ... until the handler has seen their exit_group.
LeavingForgotten ==
    \A p \in Pids \ odd :
        Alive(p) /\ task[p].leaving =>
            pidInfos[p] = NoInfo /\ memfds[p] = NoOne /\ processes[p] = {}

PidInv ==
    /\ PidTypeOK
    /\ TasksOK /\ PlainTasks /\ PlainInfos /\ LeavingForgotten
    /\ CachesTrue

-----------------------------------------------------------------------------
\* What the types say of one number.
LEMMA TaskFacts ==
    ASSUME PidTypeOK, NEW p \in Pids
    PROVE  /\ Alive(p) => task[p] \in Task
           /\ task[p].is \in Incarnations \cup {NoOne}
           /\ task[p] = NoTask \/ task[p].is \in Incarnations
  BY PidCacheAssumption DEF PidTypeOK, Alive, Task, NoTask

LEMMA InfoFacts ==
    ASSUME PidTypeOK, NEW p \in Pids
    PROVE  /\ pidInfos[p] # NoInfo => pidInfos[p] \in PidInfo
           /\ pidInfos[p].pidfd \in Incarnations \cup {NoOne}
           /\ pidInfos[p] # NoInfo => pidInfos[p].tgid \in Pids
           /\ NoInfo.pidfd = NoOne
  BY PidCacheAssumption DEF PidTypeOK, PidInfo, NoInfo

\* Nothing is kept under a number of which nothing is cached.
Forgotten(p) ==
    pidInfos[p] = NoInfo /\ memfds[p] = NoOne /\ processes[p] = {}

LEMMA FreeForgotten ==
    ASSUME PidInv, NEW p \in Pids \ odd, ~Alive(p)
    PROVE  Forgotten(p)
<1> USE DEF PidInv
<1>1. task[p].is = NoOne
  BY DEF Alive
<1>2. ASSUME NEW i \in Incarnations
      PROVE  pidInfos[p].pidfd # i /\ memfds[p] # i /\ i \notin processes[p]
  BY <1>1, PidCacheAssumption DEF CachesTrue
<1>3. pidInfos[p] = NoInfo
  BY <1>2, InfoFacts DEF PidInfo
<1>4. memfds[p] = NoOne /\ processes[p] = {}
  BY <1>2 DEF PidTypeOK
<1> QED BY <1>3, <1>4 DEF Forgotten

\* Tasks end, each under an odd number or one of which nothing is kept.
LEMMA VanishKeeps ==
    ASSUME PidInv, NEW V \in SUBSET Pids,
           task' = [p \in Pids |-> IF p \in V THEN NoTask ELSE task[p]],
           odd \subseteq odd', odd' \subseteq Pids,
           \A p \in V : p \in odd' \/ Forgotten(p),
           UNCHANGED <<used, pidInfos, memfds, processes>>
    PROVE  PidInv'
<1> USE DEF PidInv
<1>0. NoTask.is = NoOne /\ NoOne \notin Incarnations
  BY PidCacheAssumption DEF NoTask
<1>1. \A p \in Pids : /\ p \in V => task'[p] = NoTask /\ ~Alive(p)'
                      /\ p \notin V => task'[p] = task[p] /\ Alive(p)' = Alive(p)
  BY <1>0 DEF Alive
<1>2. PidTypeOK'
  BY DEF PidTypeOK
<1>3. TasksOK'
  BY <1>0, <1>1 DEF TasksOK, Alive
<1>4. PlainTasks' /\ PlainInfos'
  BY <1>1 DEF PlainTasks, PlainInfos
<1>5. LeavingForgotten'
  BY <1>1 DEF LeavingForgotten
<1>6. CachesTrue'
  <2> SUFFICES ASSUME NEW p \in Pids \ odd', NEW i \in Incarnations,
                      pidInfos[p].pidfd = i \/ memfds[p] = i \/ i \in processes[p]
               PROVE  task'[p].is = i
    BY DEF CachesTrue
  <2>1. CASE p \in V
    BY <1>0, <2>1, InfoFacts DEF Forgotten
  <2>2. CASE p \notin V
    BY <1>1, <2>2 DEF CachesTrue
  <2> QED BY <2>1, <2>2
<1> QED BY <1>2, <1>3, <1>4, <1>5, <1>6

\* The kernel: what begins, begins under a number of which nothing is kept.
LEMMA ForkKeeps == ASSUME PidInv, NEW p \in Pids, Fork(p) PROVE PidInv'
<1> USE DEF PidInv
<1> PICK i \in Incarnations \ used :
      /\ task' = [task EXCEPT ![p] = [is |-> i, tgid |-> p, leaving |-> FALSE]]
      /\ used' = used \cup {i}
  BY DEF Fork
<1>0. UNCHANGED <<odd, pidInfos, memfds, processes>> /\ ~Alive(p)
  BY DEF Fork
<1> DEFINE new == [is |-> i, tgid |-> p, leaving |-> FALSE]
<1>1. /\ task'[p] = new
      /\ \A q \in Pids : q # p => task'[q] = task[q]
  BY DEF PidTypeOK
<1>2. \A q \in Pids : q # p => task[q].is # i
  BY TaskFacts, PidCacheAssumption DEF TasksOK, Alive
<1>3. PidTypeOK'
  BY <1>0 DEF PidTypeOK, Task
<1>4. TasksOK'
  BY <1>1, <1>2 DEF TasksOK, Alive
<1>5. PlainTasks' /\ PlainInfos' /\ LeavingForgotten'
  BY <1>0, <1>1 DEF PlainTasks, PlainInfos, LeavingForgotten, Alive
<1>6. CachesTrue'
  <2> SUFFICES ASSUME NEW q \in Pids \ odd, NEW j \in Incarnations,
                      pidInfos[q].pidfd = j \/ memfds[q] = j \/ j \in processes[q]
               PROVE  task'[q].is = j
    BY <1>0 DEF CachesTrue
  <2>1. q # p
    BY <1>0, FreeForgotten, InfoFacts, PidCacheAssumption DEF Forgotten
  <2> QED BY <1>1, <2>1 DEF CachesTrue
<1> QED BY <1>3, <1>4, <1>5, <1>6

LEMMA CloneKeeps ==
    ASSUME PidInv, NEW t \in Pids, NEW p \in Pids, Clone(t, p)
    PROVE  PidInv'
<1> USE DEF PidInv
<1>0. /\ Alive(t) /\ ~Alive(p)
      /\ task' = [task EXCEPT ![p] = task[t]]
      /\ odd' = odd \cup {task[t].tgid, p}
      /\ UNCHANGED <<used, pidInfos, memfds, processes>>
  BY DEF Clone
<1>1. /\ task'[p] = task[t]
      /\ \A q \in Pids : q # p => task'[q] = task[q]
  BY <1>0 DEF PidTypeOK
<1>2. task[t] \in Task
  BY <1>0, TaskFacts
<1>3. PidTypeOK'
  BY <1>0, <1>2 DEF PidTypeOK, Task
<1>4. TasksOK'
  BY <1>0, <1>1 DEF TasksOK, Alive
<1>5. PlainTasks' /\ PlainInfos' /\ LeavingForgotten' /\ CachesTrue'
  BY <1>0, <1>1
     DEF PlainTasks, PlainInfos, LeavingForgotten, CachesTrue, Alive
<1> QED BY <1>3, <1>4, <1>5

LEMMA ExitKeeps == ASSUME PidInv, NEW t \in Pids, Exit(t) PROVE PidInv'
<1> USE DEF PidInv
<1> DEFINE V == {p \in Pids : task[p].is = task[t].is}
<1>0. /\ Alive(t) /\ task[t].leaving
      /\ task' = [p \in Pids |-> IF p \in V THEN NoTask ELSE task[p]]
      /\ UNCHANGED <<used, odd, pidInfos, memfds, processes>>
  BY DEF Exit, Vanish
<1>1. ASSUME NEW p \in V, p \notin odd PROVE Forgotten(p)
  <2>1. Alive(p) /\ task[p].tgid = p
    BY <1>0, <1>1 DEF Alive, PlainTasks
  <2>2. task[t].tgid = p
    BY <2>1 DEF TasksOK
  <2>3. t = p
    BY <1>0, <1>1, <2>2 DEF PlainTasks
  <2> QED BY <1>0, <1>1, <2>3 DEF LeavingForgotten, Forgotten
<1>2. odd \subseteq Pids
  BY DEF PidTypeOK
<1> HIDE DEF V
<1> QED BY <1>0, <1>1, <1>2, VanishKeeps DEF V

LEMMA KillKeeps == ASSUME PidInv, NEW t \in Pids, Kill(t) PROVE PidInv'
<1> USE DEF PidInv
<1> DEFINE V == {p \in Pids : task[p].is = task[t].is}
<1>0. /\ Alive(t)
      /\ task' = [p \in Pids |-> IF p \in V THEN NoTask ELSE task[p]]
      /\ odd' = odd \cup {task[t].tgid}
      /\ UNCHANGED <<used, pidInfos, memfds, processes>>
  BY DEF Kill, Vanish
<1>1. ASSUME NEW p \in V, p \notin odd PROVE p \in odd'
  <2>1. Alive(p) /\ task[p].tgid = p
    BY <1>0, <1>1 DEF Alive, PlainTasks
  <2>2. task[t].tgid = p
    BY <2>1 DEF TasksOK
  <2> QED BY <1>0, <2>2
<1>2. odd' \subseteq Pids
  BY <1>0, TaskFacts DEF PidTypeOK, Task
<1> HIDE DEF V
<1>3. V \in SUBSET Pids /\ odd \subseteq odd' /\ odd' \subseteq Pids
  BY <1>0, <1>2 DEF V
<1>4. \A p \in V : p \in odd' \/ Forgotten(p)
  BY <1>0, <1>1
<1> QED BY <1>0, <1>3, <1>4, VanishKeeps

LEMMA ThreadExitKeeps ==
    ASSUME PidInv, NEW t \in Pids, ThreadExit(t)
    PROVE  PidInv'
<1> USE DEF PidInv
<1>0. /\ Alive(t) /\ task[t].tgid # t
      /\ task' = [task EXCEPT ![t] = NoTask]
      /\ UNCHANGED <<used, odd, pidInfos, memfds, processes>>
  BY DEF ThreadExit
<1>1. task' = [p \in Pids |-> IF p \in {t} THEN NoTask ELSE task[p]]
  BY <1>0 DEF PidTypeOK
<1>2. t \in odd
  BY <1>0 DEF PlainTasks
<1>3. odd \subseteq Pids
  BY DEF PidTypeOK
<1> QED BY <1>0, <1>1, <1>2, <1>3, VanishKeeps

-----------------------------------------------------------------------------
(* The handler. *)

\* A number is looked up: what is cached, or what is opened now.
LEMMA InfoOfTask ==
    ASSUME PidInv, NEW p \in Pids, Alive(p)
    PROVE  /\ Info(pidInfos, p) \in PidInfo
           /\ p \notin odd \/ Info(pidInfos, p).tgid \notin odd =>
                /\ Info(pidInfos, p).tgid = p
                /\ Info(pidInfos, p).pidType = "PROCESS"
           /\ p \notin odd => Info(pidInfos, p).pidfd = task[p].is
<1> USE DEF PidInv
<1>0. task[p] \in Task
  BY TaskFacts
<1>1. CASE pidInfos[p] # NoInfo
  <2>1. Info(pidInfos, p) = pidInfos[p] /\ pidInfos[p] \in PidInfo
    BY <1>1, InfoFacts DEF Info
  <2>2. p \notin odd => pidInfos[p].pidfd = task[p].is
    BY <2>1 DEF CachesTrue, PidInfo
  <2> QED BY <1>1, <2>1, <2>2 DEF PlainInfos
<1>2. CASE pidInfos[p] = NoInfo
  <2>1. Info(pidInfos, p) = Opened(p)
    BY <1>2 DEF Info
  <2>2. Opened(p) \in PidInfo
    BY <1>0 DEF Opened, PidInfo, Task
  <2>3. /\ Opened(p).tgid = task[p].tgid /\ Opened(p).pidfd = task[p].is
        /\ task[p].tgid = p => Opened(p).pidType = "PROCESS"
    BY DEF Opened
  <2> QED BY <2>1, <2>2, <2>3 DEF PlainTasks
<1> QED BY <1>1, <1>2

LEMMA HandleExitKeeps ==
    ASSUME PidInv, NEW t \in Pids, HandleExit(t)
    PROVE  PidInv'
<1> USE DEF PidInv
<1> DEFINE info == Info(pidInfos, t)
<1>0. /\ Alive(t)
      /\ pidInfos' = [pidInfos EXCEPT ![t] = NoInfo]
      /\ task' = [task EXCEPT ![t].leaving = TRUE]
      /\ UNCHANGED <<used, odd>>
  BY DEF HandleExit
<1>1. /\ info.pidType = "PROCESS" =>
            /\ processes' = [processes EXCEPT ![info.tgid] = {}]
            /\ memfds' = [memfds EXCEPT ![info.tgid] = NoOne]
      /\ info.pidType # "PROCESS" => UNCHANGED <<processes, memfds>>
  BY DEF HandleExit
<1>2. info \in PidInfo /\ info.tgid \in Pids /\ task[t] \in Task
  BY <1>0, InfoOfTask, TaskFacts DEF PidInfo
<1>3. t \notin odd => info.tgid = t /\ info.pidType = "PROCESS"
  BY <1>0, InfoOfTask
<1> HIDE DEF info
<1>4. \A p \in Pids : /\ Alive(p)' = Alive(p)
                      /\ task'[p].is = task[p].is
                      /\ Alive(p) => task'[p].tgid = task[p].tgid
                      /\ p # t => task'[p] = task[p]
  BY <1>0, <1>2 DEF PidTypeOK, Alive, Task
<1>5. /\ pidInfos'[t] = NoInfo
      /\ \A p \in Pids : p # t => pidInfos'[p] = pidInfos[p]
  BY <1>0 DEF PidTypeOK
<1>6. \A p \in Pids : /\ processes'[p] \subseteq processes[p]
                      /\ memfds'[p] = memfds[p] \/ memfds'[p] = NoOne
  BY <1>1, <1>2 DEF PidTypeOK
<1>7. PidTypeOK'
  <2>1. task' \in [Pids -> Task \cup {NoTask}]
    BY <1>0, <1>2 DEF PidTypeOK, Task
  <2>2. pidInfos' \in [Pids -> PidInfo \cup {NoInfo}]
    BY <1>0 DEF PidTypeOK
  <2>3. /\ memfds' \in [Pids -> Incarnations \cup {NoOne}]
        /\ processes' \in [Pids -> SUBSET Incarnations]
    BY <1>1, <1>2 DEF PidTypeOK
  <2> QED BY <1>0, <2>1, <2>2, <2>3 DEF PidTypeOK
<1>8. TasksOK'
  BY <1>0, <1>4, TaskFacts DEF TasksOK, Alive
<1>9. PlainTasks' /\ PlainInfos'
  BY <1>0, <1>4, <1>5 DEF PlainTasks, PlainInfos
<1>10. LeavingForgotten'
  <2> SUFFICES ASSUME NEW p \in Pids \ odd, Alive(p), task'[p].leaving
               PROVE  /\ pidInfos'[p] = NoInfo
                      /\ memfds'[p] = NoOne /\ processes'[p] = {}
    BY <1>0, <1>4 DEF LeavingForgotten
  <2>1. CASE p = t
    BY <1>1, <1>3, <1>5, <2>1 DEF PidTypeOK
  <2>2. CASE p # t
    BY <1>4, <1>5, <1>6, <2>2 DEF LeavingForgotten
  <2> QED BY <2>1, <2>2
<1>11. CachesTrue'
  <2> SUFFICES ASSUME NEW p \in Pids \ odd, NEW i \in Incarnations,
                      pidInfos'[p].pidfd = i \/ memfds'[p] = i
                         \/ i \in processes'[p]
               PROVE  task'[p].is = i
    BY <1>0 DEF CachesTrue
  <2>1. pidInfos[p].pidfd = i \/ memfds[p] = i \/ i \in processes[p]
    BY <1>5, <1>6, InfoFacts, PidCacheAssumption
  <2> QED BY <1>4, <2>1 DEF CachesTrue
<1> QED BY <1>7, <1>8, <1>9, <1>10, <1>11

\* A call caches what is looked up of the caller and perhaps of its leader.
LEMMA HandleCallKeeps ==
    ASSUME PidInv, NEW t \in Pids, NEW registers \in BOOLEAN,
           NEW reads \in BOOLEAN, HandleCall(t, registers, reads)
    PROVE  PidInv'
<1> USE DEF PidInv
<1> DEFINE infos == Remember(pidInfos, t)
           p == infos[t].tgid
           asThread == infos[p] # NoInfo /\ infos[p].pidType = "THREAD"
           infos2 == IF registers /\ ~asThread THEN Remember(infos, p) ELSE infos
           i == infos2[p].pidfd
<1>0. /\ Alive(t) /\ ~task[t].leaving
      /\ pidInfos' = infos2
      /\ UNCHANGED <<task, used, odd>>
      /\ \/ UNCHANGED processes
         \/ i # NoOne /\ processes' = [processes EXCEPT ![p] = @ \cup {i}]
      /\ UNCHANGED memfds \/ memfds' = [memfds EXCEPT ![p] = task[p].is]
  BY DEF HandleCall, OpenMem
<1>1. infos = [pidInfos EXCEPT ![t] = Info(pidInfos, t)]
  BY <1>0 DEF Remember
<1>2. /\ p = Info(pidInfos, t).tgid /\ p \in Pids
      /\ infos[t] = Info(pidInfos, t) /\ infos[t] \in PidInfo
      /\ t \notin odd \/ p \notin odd => p = t
  BY <1>0, <1>1, InfoOfTask DEF PidTypeOK, PidInfo
<1>3. infos[t] # NoInfo
  BY <1>2, PidCacheAssumption DEF PidInfo, NoInfo
<1>4. \A q \in Pids : q # t => infos[q] = pidInfos[q]
  BY <1>1 DEF PidTypeOK
<1>5. \/ infos2 = infos
      \/ infos2 = [infos EXCEPT ![p] = Info(infos, p)] /\ Alive(p)
  <2> DEFINE r == Remember(infos, p)
  <2>1. r = infos \/ (r = [infos EXCEPT ![p] = Info(infos, p)] /\ Alive(p))
    <3> HIDE DEF infos, p
    <3> QED BY DEF Remember
  <2>2. infos2 = infos \/ infos2 = r
    <3> DEFINE c == registers /\ ~asThread
    <3>1. infos2 = IF c THEN r ELSE infos
      OBVIOUS
    <3> HIDE DEF c, r, infos, infos2
    <3> QED BY <3>1
  <2> HIDE DEF r, infos2, infos, p
  <2> QED BY <2>1, <2>2
<1>6. Info(infos, p) = Info(pidInfos, p)
  BY <1>2, <1>3, <1>4 DEF Info
<1>7. DOMAIN infos = Pids
  BY <1>1 DEF PidTypeOK
<1> HIDE DEF infos, p, asThread, infos2
<1>8. \A q \in Pids : \/ infos2[q] = pidInfos[q]
                      \/ Alive(q) /\ infos2[q] = Info(pidInfos, q)
  BY <1>0, <1>2, <1>4, <1>5, <1>6, <1>7
<1>9. \A q \in Pids : q # t /\ q # p => infos2[q] = pidInfos[q]
  BY <1>2, <1>4, <1>5, <1>7
<1>10. infos2[t] = Info(pidInfos, t)
  BY <1>2, <1>5, <1>6, <1>7
<1>11. DOMAIN infos2 = Pids /\ infos2 = [q \in Pids |-> infos2[q]]
  BY <1>1, <1>5, <1>7 DEF PidTypeOK
<1>12. \A q \in Pids : infos2[q] \in PidInfo \cup {NoInfo}
  BY <1>8, InfoOfTask DEF PidTypeOK
<1>13. PidTypeOK'
  <2>1. i \in Incarnations \cup {NoOne}
    BY <1>2, <1>12 DEF PidInfo, NoInfo
  <2>2. processes' \in [Pids -> SUBSET Incarnations]
    BY <1>0, <1>2, <2>1 DEF PidTypeOK
  <2>3. memfds' \in [Pids -> Incarnations \cup {NoOne}]
    BY <1>0, <1>2, TaskFacts DEF PidTypeOK
  <2>4. pidInfos' \in [Pids -> PidInfo \cup {NoInfo}]
    BY <1>0, <1>11, <1>12
  <2> QED BY <1>0, <2>2, <2>3, <2>4 DEF PidTypeOK
<1>14. TasksOK' /\ PlainTasks'
  BY <1>0 DEF TasksOK, PlainTasks, Alive
<1>15. PlainInfos'
  BY <1>0, <1>8, InfoOfTask DEF PlainInfos
<1>16. \A q \in Pids : q # p => processes'[q] = processes[q]
                                /\ memfds'[q] = memfds[q]
  BY <1>0 DEF PidTypeOK
<1>17. LeavingForgotten'
  BY <1>0, <1>2, <1>9, <1>16 DEF LeavingForgotten, Alive
<1>18. CachesTrue'
  <2> SUFFICES ASSUME NEW q \in Pids \ odd, NEW j \in Incarnations,
                      infos2[q].pidfd = j \/ memfds'[q] = j \/ j \in processes'[q]
               PROVE  task[q].is = j
    BY <1>0 DEF CachesTrue
  <2>1. CASE q # p
    BY <1>2, <1>9, <1>16, <2>1 DEF CachesTrue
  <2>2. CASE q = p
    <3>1. q = t /\ infos2[q].pidfd = task[q].is
      BY <1>0, <1>2, <1>10, <2>2, InfoOfTask
    <3>2. /\ memfds'[q] = memfds[q] \/ memfds'[q] = task[q].is
          /\ processes'[q] \subseteq processes[q] \cup {task[q].is}
      BY <1>0, <2>2, <3>1 DEF PidTypeOK
    <3> QED BY <3>1, <3>2 DEF CachesTrue
  <2> QED BY <2>1, <2>2
<1> QED BY <1>13, <1>14, <1>15, <1>17, <1>18

-----------------------------------------------------------------------------
LEMMA PidInitInv == PidInit => PidInv
<1> SUFFICES ASSUME PidInit PROVE PidInv
  OBVIOUS
<1>1. \A p \in Pids : ~Alive(p)
  BY DEF PidInit, Alive, NoTask
<1>2. PidTypeOK
  BY DEF PidInit, PidTypeOK
<1>3. TasksOK /\ PlainTasks /\ PlainInfos /\ LeavingForgotten
  BY <1>1 DEF PidInit, TasksOK, PlainTasks, PlainInfos, LeavingForgotten
<1>4. CachesTrue
  BY PidCacheAssumption DEF PidInit, CachesTrue, NoInfo
<1> QED BY <1>2, <1>3, <1>4 DEF PidInv

LEMMA PidStep == ASSUME PidInv, [PidNext]_pidVars PROVE PidInv'
<1>1. CASE UNCHANGED pidVars
  BY <1>1 DEF pidVars, PidInv, PidTypeOK, TasksOK, PlainTasks, PlainInfos,
              LeavingForgotten, CachesTrue, Alive
<1>2. CASE PidNext
  BY <1>2, ForkKeeps, ExitKeeps, KillKeeps, ThreadExitKeeps, CloneKeeps,
     HandleCallKeeps, HandleExitKeeps DEF PidNext
<1> QED BY <1>1, <1>2

\* What the handler keeps under a number belongs to the process that has the
\* number now, unless one with several threads or one that was killed has had
\* it: for any set of numbers, however often and in whatever order the kernel
\* gives them out, and whatever stale entries name other processes.
THEOREM CachesStayTrue == PidSpec => []CachesTrue
<1>1. PidInv /\ [PidNext]_pidVars => PidInv'
  BY PidStep
<1>2. PidInv => CachesTrue
  BY DEF PidInv
<1> QED BY <1>1, <1>2, PidInitInv, PTL DEF PidSpec

-----------------------------------------------------------------------------
\* The managers of the two hosts: what TableProofs says of each.
T40 == INSTANCE TableProofs WITH
    IPs <- {Ten(40), Ten(50)}, defaultPolicy <- FALSE, Ports <- {}, Addresses <- {},
    myVIP <- Ten(40), featureRDMA <- TRUE, MaxAddresses <- 2,
    entries <- entries40, clientEntries <- clients40, serverEntries <- servers40,
    alive <- alive40, todo <- todo40

T50 == INSTANCE TableProofs WITH
    IPs <- {Ten(40), Ten(50)}, defaultPolicy <- FALSE, Ports <- {}, Addresses <- {},
    myVIP <- Ten(50), featureRDMA <- TRUE, MaxAddresses <- 2,
    entries <- entries50, clientEntries <- clients50, serverEntries <- servers50,
    alive <- alive50, todo <- todo50

LEMMA Same40 ==
    /\ DOMAIN Host40!Experiment = DOMAIN T40!Experiment
    /\ \A plan : Host40!ManageInit(plan) <=> T40!ManageInit(plan)
    /\ Host40!ManageNext <=> T40!ManageNext
    /\ UNCHANGED vars40 => UNCHANGED T40!manageVars
    /\ \A ip, port : Host40!GetClient(ip, port) = T40!GetClient(ip, port)
    /\ \A port : Host40!GetServer(port) = T40!GetServer(port)
    /\ \A ip : Host40!Apply("client", ip) = T40!Apply("client", ip)
<1>1. DOMAIN Host40!Experiment = DOMAIN T40!Experiment
  BY DEF Host40!Experiment, T40!Experiment
<1>2. ASSUME NEW plan PROVE Host40!ManageInit(plan) <=> T40!ManageInit(plan)
  BY DEF Host40!ManageInit, T40!ManageInit, Host40!AccessInit,
         T40!AccessInit, Host40!ListNames, T40!ListNames,
         Host40!DestinationInit, T40!DestinationInit, Host40!Insertions,
         T40!Insertions, Host40!Allow, T40!Allow, Host40!IPv4, T40!IPv4,
         Host40!MappedPrefix, T40!MappedPrefix, Host40!Zeros, T40!Zeros,
         Host40!Entry, T40!Entry, Host40!TransportType, T40!TransportType,
         Host40!PhysicalAddr, T40!PhysicalAddr, Host40!Experiment,
         T40!Experiment, Host40!TCP, T40!TCP, Host40!RDMA, T40!RDMA,
         Host40!UNIX, T40!UNIX, Host40!yourVIP, T40!yourVIP, Host40!Equal,
         T40!Equal
<1>3. Host40!ManageNext <=> T40!ManageNext
  BY DEF Host40!ManageNext, T40!ManageNext, Host40!ManagePolicy,
         T40!ManagePolicy, Host40!ManageEntry, T40!ManageEntry,
         Host40!UpsertPolicy, T40!UpsertPolicy, Host40!Put, T40!Put,
         Host40!Inner, T40!Inner, Host40!destinationVars,
         T40!destinationVars, Host40!Upsert, T40!Upsert, Host40!Withdrawn,
         T40!Withdrawn, Host40!Stored,
         T40!Stored, Host40!Slices, T40!Slices, Host40!At, T40!At,
         Host40!IP2Int, T40!IP2Int, Host40!Zeros, T40!Zeros,
         Host40!WithSlices, T40!WithSlices, Host40!Kept, T40!Kept,
         Host40!TransportType, T40!TransportType, Host40!Mine, T40!Mine,
         Host40!Equal, T40!Equal, Host40!MappedPrefix, T40!MappedPrefix,
         Host40!Ext!FlattenSeq, T40!Ext!FlattenSeq
<1>4. UNCHANGED vars40 => UNCHANGED T40!manageVars
  BY DEF vars40, T40!manageVars, T40!destinationVars
<1>5. ASSUME NEW ip, NEW port
      PROVE  Host40!GetClient(ip, port) = T40!GetClient(ip, port)
  BY DEF Host40!GetClient, T40!GetClient, Host40!Slices, T40!Slices,
         Host40!At, T40!At, Host40!IP2Int, T40!IP2Int, Host40!Zeros,
         T40!Zeros
<1>6. ASSUME NEW port PROVE Host40!GetServer(port) = T40!GetServer(port)
  BY DEF Host40!GetServer, T40!GetServer, Host40!At, T40!At
<1>7. ASSUME NEW ip PROVE Host40!Apply("client", ip) = T40!Apply("client", ip)
  BY DEF Host40!Apply, T40!Apply, Host40!Inner, T40!Inner, Host40!IP2Int,
         T40!IP2Int, Host40!Zeros, T40!Zeros
<1> QED BY <1>1, <1>2, <1>3, <1>4, <1>5, <1>6, <1>7

LEMMA Same50 ==
    /\ DOMAIN Host40!Experiment = DOMAIN T50!Experiment
    /\ \A plan : Host50!ManageInit(plan) <=> T50!ManageInit(plan)
    /\ Host50!ManageNext <=> T50!ManageNext
    /\ UNCHANGED vars50 => UNCHANGED T50!manageVars
    /\ \A ip, port : Host50!GetClient(ip, port) = T50!GetClient(ip, port)
    /\ \A port : Host50!GetServer(port) = T50!GetServer(port)
    /\ \A ip : Host50!Apply("client", ip) = T50!Apply("client", ip)
<1>1. DOMAIN Host40!Experiment = DOMAIN T50!Experiment
  BY DEF Host40!Experiment, T50!Experiment
<1>2. ASSUME NEW plan PROVE Host50!ManageInit(plan) <=> T50!ManageInit(plan)
  BY DEF Host50!ManageInit, T50!ManageInit, Host50!AccessInit,
         T50!AccessInit, Host50!ListNames, T50!ListNames,
         Host50!DestinationInit, T50!DestinationInit, Host50!Insertions,
         T50!Insertions, Host50!Allow, T50!Allow, Host50!IPv4, T50!IPv4,
         Host50!MappedPrefix, T50!MappedPrefix, Host50!Zeros, T50!Zeros,
         Host50!Entry, T50!Entry, Host50!TransportType, T50!TransportType,
         Host50!PhysicalAddr, T50!PhysicalAddr, Host50!Experiment,
         T50!Experiment, Host50!TCP, T50!TCP, Host50!RDMA, T50!RDMA,
         Host50!UNIX, T50!UNIX, Host50!yourVIP, T50!yourVIP, Host50!Equal,
         T50!Equal
<1>3. Host50!ManageNext <=> T50!ManageNext
  BY DEF Host50!ManageNext, T50!ManageNext, Host50!ManagePolicy,
         T50!ManagePolicy, Host50!ManageEntry, T50!ManageEntry,
         Host50!UpsertPolicy, T50!UpsertPolicy, Host50!Put, T50!Put,
         Host50!Inner, T50!Inner, Host50!destinationVars,
         T50!destinationVars, Host50!Upsert, T50!Upsert, Host50!Withdrawn,
         T50!Withdrawn, Host50!Stored,
         T50!Stored, Host50!Slices, T50!Slices, Host50!At, T50!At,
         Host50!IP2Int, T50!IP2Int, Host50!Zeros, T50!Zeros,
         Host50!WithSlices, T50!WithSlices, Host50!Kept, T50!Kept,
         Host50!TransportType, T50!TransportType, Host50!Mine, T50!Mine,
         Host50!Equal, T50!Equal, Host50!MappedPrefix, T50!MappedPrefix,
         Host50!Ext!FlattenSeq, T50!Ext!FlattenSeq
<1>4. UNCHANGED vars50 => UNCHANGED T50!manageVars
  BY DEF vars50, T50!manageVars, T50!destinationVars
<1>5. ASSUME NEW ip, NEW port
      PROVE  Host50!GetClient(ip, port) = T50!GetClient(ip, port)
  BY DEF Host50!GetClient, T50!GetClient, Host50!Slices, T50!Slices,
         Host50!At, T50!At, Host50!IP2Int, T50!IP2Int, Host50!Zeros,
         T50!Zeros
<1>6. ASSUME NEW port PROVE Host50!GetServer(port) = T50!GetServer(port)
  BY DEF Host50!GetServer, T50!GetServer, Host50!At, T50!At
<1>7. ASSUME NEW ip PROVE Host50!Apply("client", ip) = T50!Apply("client", ip)
  BY DEF Host50!Apply, T50!Apply, Host50!Inner, T50!Inner, Host50!IP2Int,
         T50!IP2Int, Host50!Zeros, T50!Zeros
<1> QED BY <1>1, <1>2, <1>3, <1>4, <1>5, <1>6, <1>7

\* The address of a host, as net.ParseIP gives it, is the one manage makes.
LEMMA TenIs ==
    ASSUME NEW d \in Nat
    PROVE  Ten(d) = ([i \in 1 .. 10 |-> 0] \o <<255, 255>>) \o <<10, 0, 10, d>>
<1> DEFINE z == [i \in 1 .. 10 |-> 0]
           t == <<255, 255>>
           u == <<10, 0, 10, d>>
           v == <<255, 255, 10, 0, 10, d>>
           N == Nat
<1>1. z \in Seq(N)
  BY SeqDef
<1>2. t \in Seq(N) /\ u \in Seq(N)
  OBVIOUS
<1>3. t \o u = v
  <2> HIDE DEF N
  <2>1. /\ t \o u \in Seq(N) /\ Len(t \o u) = Len(t) + Len(u)
        /\ \A i \in 1 .. Len(t) + Len(u) :
              (t \o u)[i] = IF i <= Len(t) THEN t[i] ELSE u[i - Len(t)]
    <3> HIDE DEF t, u
    <3> QED BY <1>2, ConcatProperties
  <2>2. v \in Seq(N)
    BY DEF N
  <2>6. Len(v) = 6 /\ Len(t) = 2 /\ Len(u) = 4
    OBVIOUS
  <2>3. \A i \in 1 .. 6 : v[i] = IF i <= 2 THEN t[i] ELSE u[i - 2]
    <3> SUFFICES ASSUME NEW i \in 1 .. 6
                 PROVE  v[i] = IF i <= 2 THEN t[i] ELSE u[i - 2]
      OBVIOUS
    <3>1. i \in {1, 2, 3, 4, 5, 6}
      OBVIOUS
    <3> QED BY <3>1
  <2> DEFINE w == t \o u
  <2> HIDE DEF t, u, v, w, N
  <2>4. w \in Seq(N) /\ Len(w) = 6 /\ \A i \in 1 .. 6 : w[i] = v[i]
    <3>1. w \in Seq(N) /\ Len(w) = 6
      BY <2>1, <2>6 DEF w
    <3>2. \A i \in 1 .. 6 : w[i] = IF i <= 2 THEN t[i] ELSE u[i - 2]
      <4>1. Len(t) + Len(u) = 6
        BY <2>6
      <4> QED BY <2>1, <2>6, <4>1, Zenon DEF w
    <3> QED BY <2>3, <3>1, <3>2
  <2>5. w = v
    BY <2>2, <2>4, <2>6, SeqEqual
  <2> QED BY <2>5 DEF w
<1>4. Ten(d) = z \o v
  BY DEF Ten
<1> HIDE DEF z, t, u, v, N
<1>5. (z \o t) \o u = z \o (t \o u)
  BY <1>1, <1>2, ConcatAssociative
<1>6. Ten(d) = (z \o t) \o u
  BY <1>3, <1>4, <1>5
<1> QED BY <1>6 DEF z, t, u

LEMMA TensOfHosts ==
    /\ Ten(40) = T40!Ten40 /\ Ten(50) = T40!Ten50
    /\ Ten(40) = T50!Ten40 /\ Ten(50) = T50!Ten50
BY TenIs DEF T40!Ten40, T40!Ten50, T40!IPv4, T40!MappedPrefix, T40!Zeros,
             T50!Ten40, T50!Ten50, T50!IPv4, T50!MappedPrefix, T50!Zeros

\* What TableProofs assumes holds of both hosts.
LEMMA TenIsIP ==
    ASSUME NEW d \in 0 .. 255
    PROVE  Ten(d) \in [1 .. 16 -> 0 .. 255]
<1> DEFINE z == [i \in 1 .. 10 |-> 0]
           v == <<255, 255, 10, 0, 10, d>>
           B == 0 .. 255
<1>1. z \in Seq(B) /\ Len(z) = 10
  <2>1. z \in [1 .. 10 -> B]
    OBVIOUS
  <2>2. z \in Seq(B)
    BY <2>1, SeqDef
  <2> QED BY <2>1, <2>2, LenProperties
<1>2. v \in Seq(B) /\ Len(v) = 6
  OBVIOUS
<1>3. Ten(d) = z \o v
  BY DEF Ten
<1> HIDE DEF z, v, B
<1>4. z \o v \in Seq(B) /\ Len(z \o v) = 16
  <2>1. z \o v \in Seq(B) /\ Len(z \o v) = Len(z) + Len(v)
    BY <1>1, <1>2, ConcatProperties
  <2> DEFINE w == z \o v
  <2> HIDE DEF w
  <2> QED BY <1>1, <1>2, <2>1 DEF w
<1>5. z \o v \in [1 .. 16 -> B]
  BY <1>4, LenProperties, ElementOfSeq
<1> QED BY <1>3, <1>5 DEF B

LEMMA Assumed40 ==
    /\ {Ten(40), Ten(50)} \subseteq T40!IP /\ FALSE \in BOOLEAN
    /\ Ten(40) \in {Ten(40), Ten(50)} /\ TRUE \in BOOLEAN /\ 2 \in Nat
<1>1. Ten(40) \in [1 .. 16 -> 0 .. 255] /\ Ten(50) \in [1 .. 16 -> 0 .. 255]
  <2>1. 40 \in 0 .. 255 /\ 50 \in 0 .. 255
    OBVIOUS
  <2> QED BY <2>1, TenIsIP, Zenon
<1> QED BY <1>1 DEF T40!IP, T40!Byte

LEMMA Assumed50 ==
    /\ {Ten(40), Ten(50)} \subseteq T50!IP /\ FALSE \in BOOLEAN
    /\ Ten(50) \in {Ten(40), Ten(50)} /\ TRUE \in BOOLEAN /\ 2 \in Nat
<1>1. Ten(40) \in [1 .. 16 -> 0 .. 255] /\ Ten(50) \in [1 .. 16 -> 0 .. 255]
  <2>1. 40 \in 0 .. 255 /\ 50 \in 0 .. 255
    OBVIOUS
  <2> QED BY <2>1, TenIsIP, Zenon
<1> QED BY <1>1 DEF T50!IP, T50!Byte

\* What TableProofs shows of the hosts while their managers fill the tables.
Plans40 == T40!PlanInv(experiment) /\ T40!PolicyInv(experiment)
Plans50 == T50!PlanInv(experiment) /\ T50!PolicyInv(experiment)
PlansInv ==
    /\ experiment \in DOMAIN T40!Experiment /\ experiment \in DOMAIN T50!Experiment
    /\ Plans40 /\ Plans50

LEMMA InitPlans == ASSUME StartupInit PROVE PlansInv
<1>1. /\ Host40!ManageInit(experiment) /\ Host50!ManageInit(experiment)
      /\ experiment \in DOMAIN T40!Experiment /\ experiment \in DOMAIN T50!Experiment
  BY Same40, Same50 DEF StartupInit
<1>2. Plans40
  BY <1>1, Same40, Assumed40, T40!InitPlan, T40!InitPolicies DEF Plans40
<1>3. Plans50
  BY <1>1, Same50, Assumed50, T50!InitPlan, T50!InitPolicies DEF Plans50
<1> QED BY <1>1, <1>2, <1>3 DEF PlansInv

LEMMA StepPlans == ASSUME PlansInv, [StartupNext]_startupVars PROVE PlansInv'
<1>1. /\ experiment' = experiment
      /\ Host40!ManageNext \/ UNCHANGED vars40
      /\ Host50!ManageNext \/ UNCHANGED vars50
  BY DEF StartupNext, startupVars, vars40, vars50
<1>2. Plans40'
  <2>1. UNCHANGED vars40 => Plans40'
    BY <1>1, Same40, Assumed40, T40!SamePlan, T40!SamePolicies DEF PlansInv, Plans40
  <2>2. Host40!ManageNext => Plans40'
    BY <1>1, Same40, Assumed40, T40!StepPlan, T40!StepPolicies DEF PlansInv, Plans40
  <2> QED BY <1>1, <2>1, <2>2
<1>3. Plans50'
  <2>1. UNCHANGED vars50 => Plans50'
    BY <1>1, Same50, Assumed50, T50!SamePlan, T50!SamePolicies DEF PlansInv, Plans50
  <2>2. Host50!ManageNext => Plans50'
    BY <1>1, Same50, Assumed50, T50!StepPlan, T50!StepPolicies DEF PlansInv, Plans50
  <2> QED BY <1>1, <2>1, <2>2
<1>4. T40!Experiment' = T40!Experiment /\ T50!Experiment' = T50!Experiment
  OBVIOUS
<1> QED BY <1>1, <1>2, <1>3, <1>4 DEF PlansInv

LEMMA SameExperiments ==
    /\ T40!Experiment = T50!Experiment
    /\ Host40!TransportType = T40!TransportType
    /\ Host40!TransportType = T50!TransportType
BY DEF T40!Experiment, T50!Experiment, T40!TCP, T50!TCP, T40!UNIX, T50!UNIX,
       T40!RDMA, T50!RDMA, T40!PhysicalAddr, T50!PhysicalAddr,
       Host40!TransportType, T40!TransportType, T50!TransportType

\* Where the client's host is told to dial is the machine of the server.
LEMMA OnServerMachine ==
    ASSUME experiment \in DOMAIN T40!Experiment,
           NEW s \in DOMAIN T40!Experiment[experiment]
    PROVE  T40!Experiment[experiment][s][3].host \in ServerMachine
<1> DEFINE e == T40!Experiment[experiment]
           Place(x) == x[3].host
           There == \A k \in DOMAIN e : Place(e[k]) \in ServerMachine
<1>1. ASSUME NEW x, e = <<x>>, Place(x) \in ServerMachine
      PROVE  There
  <2>1. DOMAIN e = 1 .. 1 /\ e[1] = x
    BY <1>1
  <2>2. \A k \in 1 .. 1 : k = 1
    OBVIOUS
  <2> QED BY <1>1, <2>1, <2>2, Zenon
<1>2. ASSUME NEW x, NEW y, e = <<x, y>>,
             Place(x) \in ServerMachine, Place(y) \in ServerMachine
      PROVE  There
  <2>1. DOMAIN e = 1 .. 2 /\ e[1] = x /\ e[2] = y
    BY <1>2
  <2>2. \A k \in 1 .. 2 : k = 1 \/ k = 2
    OBVIOUS
  <2> QED BY <1>2, <2>1, <2>2, Zenon
<1>3. ASSUME NEW host, NEW vport, NEW port
      PROVE  /\ Place(T40!TCP(host, vport, port)) = host
             /\ Place(T40!RDMA(host, vport)) = host
             /\ Place(T40!UNIX(vport, host)) = host
  BY DEF T40!TCP, T40!RDMA, T40!UNIX, T40!PhysicalAddr
<1>4. /\ experiment \in LocalExperiments =>
           {"127.0.0.1", "192.168.20.21", "netperf-remote.sock", "netperf-local.sock"}
              \subseteq ServerMachine
      /\ experiment \notin LocalExperiments =>
           {"192.168.20.3", "192.168.20.30"} \subseteq ServerMachine
  BY DEF ServerMachine
<1>5. ASSUME experiment = "nginxTCPLocal" PROVE There
  <2>1. e = <<T40!TCP("127.0.0.1", 80, 8080)>>
    BY <1>5 DEF T40!Experiment
  <2> HIDE DEF e, Place, There
  <2> QED BY <1>1, <1>3, <1>4, <1>5, <2>1 DEF LocalExperiments
<1>6. ASSUME experiment = "netperfTCPLocal" PROVE There
  <2>1. e = <<T40!TCP("127.0.0.1", 12865, 12865), T40!TCP("127.0.0.1", 22865, 22865)>>
    BY <1>6 DEF T40!Experiment
  <2> HIDE DEF e, Place, There
  <2> QED BY <1>2, <1>3, <1>4, <1>6, <2>1 DEF LocalExperiments
<1>7. ASSUME experiment = "netperfTCPRemote" PROVE There
  <2>1. e = <<T40!TCP("192.168.20.3", 12865, 12865),
              T40!TCP("192.168.20.3", 22865, 22865)>>
    BY <1>7 DEF T40!Experiment
  <2> HIDE DEF e, Place, There
  <2> QED BY <1>2, <1>3, <1>4, <1>7, <2>1 DEF LocalExperiments
<1>8. ASSUME experiment = "netperfUNIX" PROVE There
  <2>1. e = <<T40!UNIX(12865, "netperf-remote.sock"),
              T40!UNIX(22865, "netperf-local.sock")>>
    BY <1>8 DEF T40!Experiment
  <2> HIDE DEF e, Place, There
  <2> QED BY <1>2, <1>3, <1>4, <1>8, <2>1 DEF LocalExperiments
<1>9. ASSUME experiment = "netperfRDMALocal" PROVE There
  <2>1. e = <<T40!RDMA("192.168.20.21", 12865), T40!RDMA("192.168.20.21", 22865)>>
    BY <1>9 DEF T40!Experiment
  <2> HIDE DEF e, Place, There
  <2> QED BY <1>2, <1>3, <1>4, <1>9, <2>1 DEF LocalExperiments
<1>10. ASSUME experiment = "netperfRDMARemote" PROVE There
  <2>1. e = <<T40!RDMA("192.168.20.30", 12865), T40!RDMA("192.168.20.30", 22865)>>
    BY <1>10 DEF T40!Experiment
  <2> HIDE DEF e, Place, There
  <2> QED BY <1>2, <1>3, <1>4, <1>10, <2>1 DEF LocalExperiments
<1>11. experiment \in {"nginxTCPLocal", "netperfTCPLocal", "netperfTCPRemote",
                       "netperfUNIX", "netperfRDMALocal", "netperfRDMARemote"}
  BY DEF T40!Experiment
<1>12. There
  <2> HIDE DEF There
  <2> QED BY <1>5, <1>6, <1>7, <1>8, <1>9, <1>10, <1>11
<1> QED BY <1>12

\* What host 40 finds under the address of host 50 ...
LEMMA Found40 ==
    ASSUME PlansInv, NEW port \in Services,
           NEW i \in DOMAIN Host40!GetClient(Ten(50), port),
           NEW k \in DOMAIN Host40!GetClient(Ten(50), port)[i]
    PROVE  /\ i \in 1 .. 4
           /\ T40!Dialled(experiment, port, i, Host40!GetClient(Ten(50), port)[i][k])
           /\ Host40!Apply("client", Ten(50))
<1> DEFINE f == Host40!GetClient(Ten(50), port)
<1>1. f = T40!GetClient(T40!yourVIP, port) /\ Ten(40) \in {T40!Ten40, T40!Ten50}
  BY Same40, TensOfHosts, T40!Hosts4050, Assumed40
<1>2. port \in Nat \ {0}
  BY DEF Services
<1>3. /\ i \in 1 .. 4 /\ T40!Dialled(experiment, port, i, f[i][k])
  <2>1. \A j \in DOMAIN f :
           /\ j \in 1 .. 4
           /\ \A l \in DOMAIN f[j] : T40!Dialled(experiment, port, j, f[j][l])
    BY <1>1, <1>2, Assumed40, T40!FindsServices DEF PlansInv, Plans40
  <2> HIDE DEF f
  <2> QED BY <2>1 DEF f
<1>4. T40!GetClient(T40!yourVIP, port) # <<>>
  <2>1. DOMAIN <<>> = {}
    OBVIOUS
  <2> HIDE DEF f
  <2> QED BY <1>1, <2>1 DEF f
<1>5. Host40!Apply("client", Ten(50))
  BY <1>4, Same40, TensOfHosts, Assumed40, T40!FindsAllowed DEF PlansInv, Plans40
<1> QED BY <1>3, <1>5

\* ... is on its machine and is where that one is bound, once it is.
LEMMA BoundThere ==
    ASSUME PlansInv, NEW port, NEW i \in 1 .. 4, NEW address,
           T40!Dialled(experiment, port, i, address)
    PROVE  /\ address.host \in ServerMachine
           /\ todo50 = <<>> =>
                \E j \in DOMAIN Host50!GetServer(port) :
                   /\ Host50!GetServer(port)[j].transport = Host40!TransportType[i]
                   /\ Meets(address, Host50!GetServer(port)[j].address)
<1>1. PICK s \in DOMAIN T40!Experiment[experiment] :
         /\ port = T40!Experiment[experiment][s][1]
         /\ T40!TransportType[i] = T40!Experiment[experiment][s][2]
         /\ address = T40!Experiment[experiment][s][3]
  BY DEF T40!Dialled
<1>2. address.host \in ServerMachine
  BY <1>1, OnServerMachine DEF PlansInv
<1> DEFINE e == T40!Experiment[experiment][s]
           b == [transport |-> e[2], address |-> e[4]]
<1>3. T40!Experiment = T50!Experiment /\ Host40!TransportType = T40!TransportType
  BY SameExperiments
<1>4. ASSUME todo50 = <<>>
      PROVE  \E j \in DOMAIN Host50!GetServer(port) : Host50!GetServer(port)[j] = b
  BY <1>1, <1>3, <1>4, Same50, Assumed50, T50!BindsServices DEF PlansInv, Plans50
<1>5. T40!GoodService(e)
  BY Assumed40, T40!Services DEF PlansInv
<1>6. Meets(address, e[4])
  BY <1>1, <1>5 DEF Meets, T40!GoodService
<1>7. b.transport = Host40!TransportType[i] /\ b.address = e[4]
  BY <1>1, <1>3
<1> HIDE DEF b, e
<1> QED BY <1>2, <1>4, <1>6, <1>7

LEMMA FoundInTheEnd ==
    ASSUME PlansInv, todo40 = <<>>
    PROVE  \E port \in Services : Host40!GetClient(Ten(50), port) # <<>>
<1>1. Ten(50) = T40!yourVIP
  BY TensOfHosts, T40!Hosts4050, Assumed40
<1>2. \E port \in {80, 12865, 22865} : T40!GetClient(T40!yourVIP, port) # <<>>
  BY Assumed40, T40!FindsInTheEnd DEF PlansInv, Plans40
<1> QED BY <1>1, <1>2, Same40 DEF Services

LEMMA OneWay == ASSUME PlansInv PROVE ~Host50!Apply("client", Ten(40))
BY Same50, TensOfHosts, Assumed50, T50!AllowsOne DEF PlansInv, Plans50

\* Whatever a connect of the client's host finds under the server's virtual
\* address, while both managers fill their tables in whatever order, it is
\* allowed to dial; it leads to the machine that the server's host is on and,
\* once that one's manager is done, to where a bind of the same port leads, over
\* the same transport; when the client's manager is done there is something to
\* find.  The server's host is never allowed to dial the other way.  For each
\* experiment.
THEOREM HostsMeet == StartupSpec => []Rendezvous
<1>1. ASSUME PlansInv PROVE Rendezvous
  <2>1. ASSUME NEW port \in Services,
               NEW i \in DOMAIN Host40!GetClient(Ten(50), port),
               NEW k \in DOMAIN Host40!GetClient(Ten(50), port)[i]
        PROVE  LET address == Host40!GetClient(Ten(50), port)[i][k]
                   bound == Host50!GetServer(port)
               IN  /\ Host40!Apply("client", Ten(50))
                   /\ address.host \in ServerMachine
                   /\ todo50 = <<>> =>
                        \E j \in DOMAIN bound :
                           /\ bound[j].transport = Host40!TransportType[i]
                           /\ Meets(address, bound[j].address)
    <3> DEFINE address == Host40!GetClient(Ten(50), port)[i][k]
    <3>1. /\ i \in 1 .. 4 /\ T40!Dialled(experiment, port, i, address)
          /\ Host40!Apply("client", Ten(50))
      BY <1>1, Found40
    <3> HIDE DEF address
    <3>2. /\ address.host \in ServerMachine
          /\ todo50 = <<>> =>
               \E j \in DOMAIN Host50!GetServer(port) :
                  /\ Host50!GetServer(port)[j].transport = Host40!TransportType[i]
                  /\ Meets(address, Host50!GetServer(port)[j].address)
      BY <1>1, <3>1, BoundThere, Zenon
    <3> QED BY <3>1, <3>2 DEF address
  <2>2. todo40 = <<>> => \E port \in Services : Host40!GetClient(Ten(50), port) # <<>>
    BY <1>1, FoundInTheEnd
  <2>3. ~Host50!Apply("client", Ten(40))
    BY <1>1, OneWay
  <2> QED BY <2>1, <2>2, <2>3 DEF Rendezvous
<1> QED BY <1>1, InitPlans, StepPlans, PTL DEF StartupSpec
=============================================================================
