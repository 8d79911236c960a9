---------------------------- MODULE OwnerProofs -----------------------------
(***************************************************************************)
(* The numbers in hostSockets and acceptedSockets mean what they meant when *)
(* they were stored: what a registered socket closes, delivers or removes   *)
(* is its own.  This is the discipline on which access control at delivery, *)
(* the safety of the daemon's other descriptors and the bound on what a     *)
(* removed socket leaves open rest.                                         *)
(*                                                                         *)
(* One action breaks it: when ADDFD fails the connection is closed and its  *)
(* key stays, so that removeSocket closes whatever has the number by then.  *)
(* The results are stated for the behaviours without that action, and for   *)
(* all behaviours where nothing can make ADDFD fail.                        *)
(***************************************************************************)
EXTENDS HolderProofs

\* The behaviours in which no ADDFD fails.
AddFdSpec == Init /\ [][Next /\ ~AcceptAddFdFails]_vars

\* A status that was never used.
Blank(s) ==
    /\ Waits(s) = <<>>
    /\ \A n \in HostFds : Keys(s)[n] = None
    /\ \A e \in Entries : g[<<s, e>>].pc = "none"

\* HostSocketsSound, in the terms of this module.
KeysSound ==
    \A s \in SockIds, n \in HostFds :
        Registered(s) /\ Keys(s)[n] # None => hfd[n] = Keys(s)[n]

\* A connection in a map was accepted, by a listener of the map's socket.
KeyConns ==
    \A s \in SockIds, n \in HostFds : Keys(s)[n] \in Conns =>
        /\ conn[Keys(s)[n]].st = "accepted"
        /\ Registered(s) => conn[Keys(s)[n]].lsn[1] = s

\* A listener in a map is there under the number its host socket records.
KeySockets ==
    \A s \in SockIds, n \in HostFds, l \in Listener :
        Registered(s) /\ Keys(s)[n] = l =>
            hs[l].Sockfd \in HostFds /\ Keys(s)[hs[l].Sockfd] = l

\* The number of a connection whose address is awaited is the goroutine's alone.
Receiving ==
    \A l \in Listener : g[l].pc = "recv" =>
        /\ hfd[g[l].fd] = g[l].conn
        /\ \A s \in SockIds : Registered(s) => Keys(s)[g[l].fd] = None
        /\ \A k \in Listener : g[k].pc = "recv" /\ g[k].fd = g[l].fd => k = l

\* What is about to be queued is in the map, and neither queued nor about to be
\* queued by another goroutine.
Sending ==
    \A l \in Listener : g[l].pc = "send" /\ Registered(l[1]) =>
        /\ Keys(l[1])[g[l].fd] = g[l].conn
        /\ \A i \in 1 .. Len(Waits(l[1])) : Waits(l[1])[i].fd # g[l].fd
        /\ \A k \in Listener :
              g[k].pc = "send" /\ k[1] = l[1] /\ g[k].fd = g[l].fd => k = l

\* What is queued is in the map, and queued once.
QueueKeys ==
    \A s \in SockIds : Registered(s) =>
        /\ \A i \in 1 .. Len(Waits(s)) :
              Keys(s)[Waits(s)[i].fd] = Waits(s)[i].conn
        /\ \A i, j \in 1 .. Len(Waits(s)) :
              Waits(s)[i].fd = Waits(s)[j].fd => i = j

\* The goroutines of a registered socket work for its own listeners.
Attached ==
    \A l \in Listener : g[l].pc # "none" /\ Registered(l[1]) =>
        /\ hs[l].Sockfd \in HostFds
        /\ Keys(l[1])[hs[l].Sockfd] = l
        /\ g[l].pc = "blocked" => g[l].file = l
        /\ g[l].pc = "recv" => conn[g[l].conn].lsn[1] = l[1]

\* Those of a removed socket are told so.
Cancelled ==
    \A l \in Listener :
        g[l].pc # "none" /\ ~Registered(l[1]) => hs[l].Cancelled

Owner ==
    /\ KeysSound /\ KeyConns /\ KeySockets
    /\ Receiving /\ Sending /\ QueueKeys
    /\ Attached /\ Cancelled

OwnerInv == StatusInv /\ HeldAccepted /\ Owner

-----------------------------------------------------------------------------
(* What the invariant says of two sockets and two numbers. *)

LEMMA GoroutineType ==
    ASSUME TypeInv, NEW l \in Listener
    PROVE  /\ l[1] \in SockIds /\ l[2] \in Entries /\ l = <<l[1], l[2]>>
           /\ g[l].pc \in {"recv", "send"} =>
                 g[l].conn \in Conns /\ g[l].fd \in HostFds
  BY ListenerParts DEF TypeInv, GoroutinesOK

LEMMA QueueType ==
    ASSUME TypeInv, NEW s \in SockIds
    PROVE  /\ Waits(s) \in Seq(Accepted)
           /\ \A i \in 1 .. Len(Waits(s)) :
                 Waits(s)[i].conn \in Conns /\ Waits(s)[i].fd \in HostFds
<1>1. Waits(s) \in Seq(Accepted)
  BY StatusType
<1>2. ASSUME NEW i \in 1 .. Len(Waits(s))
      PROVE  Waits(s)[i].conn \in Conns /\ Waits(s)[i].fd \in HostFds
  <2>1. Waits(s)[i] \in Accepted
    BY <1>1
  <2> QED BY <2>1 DEF Accepted
<1> QED BY <1>1, <1>2

\* Two registered sockets have no number in common.
LEMMA KeysApart ==
    ASSUME StatusInv, KeysSound, KeyConns,
           NEW r \in SockIds, NEW s \in SockIds, NEW n \in HostFds,
           Registered(r), Registered(s), Keys(r)[n] # None, Keys(s)[n] # None
    PROVE  r = s
<1>1. Keys(r)[n] = Keys(s)[n] /\ Keys(s)[n] \in Listener \cup Conns
  BY StatusType DEF KeysSound, StatusInv
<1> QED BY <1>1 DEF KeyConns, StatusInv, ListenersOwn

LEMMA FreshBlank ==
    ASSUME StatusInv, NEW s \in SockIds, sock[s].state = "Unused"
    PROVE  Blank(s)
  BY DEF StatusInv, YoungQuiet, Young, UnusedEmpty, Blank

-----------------------------------------------------------------------------
(* The steps that remove statuses. *)

\* The statuses S are removed, and no other map or queue changes.
Removal(S) ==
    /\ S \in SUBSET SockIds
    /\ Removing(S)
    /\ UNCHANGED g
    /\ \A s \in SockIds :
          /\ Registered(s)' => s \notin S /\ (Registered(s) \/ Blank(s))
          /\ Registered(s) /\ s \notin S => Registered(s)'
          /\ s \in S => Registered(s)
          /\ Waits(s)' = Waits(s)
          /\ \A n \in HostFds : Keys(s)'[n] = Keys(s)[n]
    /\ \A p \in Procs, fd \in Fds :
          /\ sockets[p][fd] \in SockIds \ S => sockets'[p][fd] = sockets[p][fd]
          /\ sockets'[p][fd] \in SockIds =>
                \/ sockets'[p][fd] = sockets[p][fd]
                \/ ~Registered(sockets'[p][fd])

LEMMA DropRemoval ==
    ASSUME StatusInv, NEW t \in Procs, Drop(t)
    PROVE  \E S : Removal(S)
<1> DEFINE S == {s \in SockIds : \E fd \in Fds : sockets[t][fd] = s}
<1>1. S \in SUBSET SockIds /\ Removing(S) /\ UNCHANGED g
  BY DEF Drop
<1>2. ASSUME NEW s \in SockIds
      PROVE  /\ Registered(s)' => s \notin S /\ Registered(s)
             /\ Registered(s) /\ s \notin S => Registered(s)'
             /\ s \in S => Registered(s)
  <2>1. \A p \in Procs, fd \in Fds :
           sockets'[p][fd] = IF p = t THEN None ELSE sockets[p][fd]
    BY DEF Drop
  <2>2. s # None
    BY NoValues
  <2>3. ASSUME Registered(s)' PROVE s \notin S /\ Registered(s)
    <3> PICK p \in Procs, fd \in Fds : sockets'[p][fd] = s
      BY <2>3 DEF Registered
    <3>1. p # t /\ sockets[p][fd] = s
      BY <2>1, <2>2
    <3> QED BY <2>2, <3>1 DEF Registered, StatusInv, SlotsOnce
  <2>4. ASSUME Registered(s), s \notin S PROVE Registered(s)'
    BY <2>1, <2>4 DEF Registered
  <2> QED BY <2>3, <2>4 DEF Registered
<1>3. \A s \in SockIds :
         Waits(s)' = Waits(s) /\ \A n \in HostFds : Keys(s)'[n] = Keys(s)[n]
  BY DEF Drop, Waits, Keys
<1>4. \A p \in Procs, fd \in Fds :
         /\ sockets[p][fd] \in SockIds \ S => sockets'[p][fd] = sockets[p][fd]
         /\ sockets'[p][fd] \in SockIds => sockets'[p][fd] = sockets[p][fd]
  BY NoValues DEF Drop
<1> HIDE DEF S
<1> QED BY <1>1, <1>2, <1>3, <1>4 DEF Removal

LEMMA RenewRemoval ==
    ASSUME StatusInv, NEW p \in Procs, NEW fd \in Fds,
           NEW x \in SockIds \cup {None}, Renew(p, fd, x)
    PROVE  \E S : Removal(S)
<1> DEFINE S == {s \in SockIds : sockets[p][fd] = s}
<1>1. S \in SUBSET SockIds /\ Removing(S) /\ UNCHANGED g
  BY DEF Renew
<1>2. /\ x \in SockIds => sock[x].state = "Unused" /\ Blank(x)
      /\ \A s \in SockIds : s # x =>
            Keys(s)' = Keys(s) /\ Waits(s)' = Waits(s)
      /\ x \in SockIds =>
            Waits(x)' = <<>> /\ \A n \in HostFds : Keys(x)'[n] = None
  BY RenewStatus, FreshBlank DEF StatusInv
<1>3. \A s \in SockIds :
         Waits(s)' = Waits(s) /\ \A n \in HostFds : Keys(s)'[n] = Keys(s)[n]
  BY <1>2 DEF Blank
<1>4. ASSUME NEW s \in SockIds
      PROVE  /\ Registered(s)' => s \notin S /\ (Registered(s) \/ Blank(s))
             /\ Registered(s) /\ s \notin S => Registered(s)'
             /\ s \in S => Registered(s)
  <2>1. \A q \in Procs, d \in Fds :
           sockets'[q][d] = IF q = p /\ d = fd THEN x ELSE sockets[q][d]
    BY DEF Renew
  <2>2. s = x => ~Registered(s)
    BY <1>2, FreshNowhere DEF StatusInv, Slots, Registered
  <2>3. ASSUME Registered(s)' PROVE s \notin S /\ (Registered(s) \/ Blank(s))
    <3> PICK q \in Procs, d \in Fds : sockets'[q][d] = s
      BY <2>3 DEF Registered
    <3>1. CASE q = p /\ d = fd
      BY <1>2, <2>1, <2>2, <3>1 DEF Registered
    <3>2. CASE ~(q = p /\ d = fd)
      <4>1. sockets[q][d] = s
        BY <2>1, <3>2
      <4> QED BY <3>2, <4>1, NoValues DEF Registered, StatusInv, SlotsOnce
    <3> QED BY <3>1, <3>2
  <2>4. ASSUME Registered(s), s \notin S PROVE Registered(s)'
    BY <2>1, <2>4 DEF Registered
  <2> QED BY <2>3, <2>4 DEF Registered
<1>5. ASSUME NEW q \in Procs, NEW d \in Fds
      PROVE  /\ sockets[q][d] \in SockIds \ S => sockets'[q][d] = sockets[q][d]
             /\ sockets'[q][d] \in SockIds =>
                   \/ sockets'[q][d] = sockets[q][d]
                   \/ ~Registered(sockets'[q][d])
  <2>1. sockets'[q][d] = IF q = p /\ d = fd THEN x ELSE sockets[q][d]
    BY DEF Renew
  <2>2. x \in SockIds => ~Registered(x)
    BY <1>2, FreshNowhere DEF StatusInv, Slots, Registered
  <2> QED BY <2>1, <2>2
<1> HIDE DEF S
<1> QED BY <1>1, <1>3, <1>4, <1>5 DEF Removal

LEMMA RemovalOwner ==
    ASSUME OwnerInv, NEW S, Removal(S)
    PROVE  Owner'
<1> USE DEF OwnerInv, Owner
<1>1. TypeInv
  BY DEF StatusInv
<1>2. /\ \A n \in HostFds : hfd'[n] = IF n \in HeldFds(S) THEN Free ELSE hfd[n]
      /\ \A c \in Conns :
            /\ conn'[c].lsn = conn[c].lsn
            /\ conn'[c].st = "accepted" <=> conn[c].st = "accepted"
      /\ \A l \in Listener :
            /\ hs'[l].Sockfd = hs[l].Sockfd
            /\ hs'[l].Cancelled = (hs[l].Cancelled \/ l \in HeldListeners(S))
      /\ UNCHANGED g
  BY DEF Removal, Removing, Closing
<1>3. \A s \in SockIds :
         /\ Registered(s)' => s \notin S /\ (Registered(s) \/ Blank(s))
         /\ Registered(s) /\ s \notin S => Registered(s)'
         /\ s \in S => Registered(s)
         /\ Waits(s)' = Waits(s)
         /\ \A n \in HostFds : Keys(s)'[n] = Keys(s)[n]
  BY DEF Removal
<1>4. ASSUME NEW s \in SockIds \ S, Registered(s), NEW n \in HostFds,
             Keys(s)[n] # None
      PROVE  n \notin HeldFds(S)
  <2> SUFFICES ASSUME n \in HeldFds(S) PROVE FALSE
    OBVIOUS
  <2> PICK r \in SockIds : r \in S /\ Keys(r)[n] # None
    BY DEF HeldFds, Keys, Removal
  <2> QED BY <1>3, <1>4, KeysApart
<1>5. ASSUME NEW l \in Listener, g[l].pc = "recv"
      PROVE  g[l].fd \notin HeldFds(S)
  BY <1>3, <1>5 DEF Receiving, HeldFds, Keys, Removal
<1>6. KeysSound'
  BY <1>2, <1>3, <1>4 DEF KeysSound, Blank
<1>7. KeyConns'
  <2> SUFFICES ASSUME NEW s \in SockIds, NEW n \in HostFds, NEW c \in Conns,
                      Keys(s)'[n] = c
               PROVE  /\ conn'[c].st = "accepted"
                      /\ Registered(s)' => conn'[c].lsn[1] = s
    BY DEF KeyConns
  <2>1. Keys(s)[n] = c
    BY <1>3
  <2> QED BY <1>2, <1>3, <2>1, NoValues DEF KeyConns, Blank
<1>8. KeySockets'
  BY <1>2, <1>3, NoValues DEF KeySockets, Blank
<1>9. Receiving'
  BY <1>1, <1>2, <1>3, <1>5, GoroutineType DEF Receiving, Blank
<1>10. ASSUME NEW l \in Listener, g[l].pc # "none", Registered(l[1])'
       PROVE  Registered(l[1])
  BY <1>1, <1>3, <1>10, GoroutineType DEF Blank
<1>11. Sending'
  BY <1>1, <1>2, <1>3, <1>10, GoroutineType DEF Sending
<1>12. QueueKeys'
  BY <1>1, <1>3, QueueType DEF QueueKeys, Blank
<1>13. Attached'
  BY <1>1, <1>2, <1>3, <1>10, GoroutineType DEF Attached
<1>14. Cancelled'
  <2> SUFFICES ASSUME NEW l \in Listener, g[l].pc # "none", ~Registered(l[1])'
               PROVE  hs'[l].Cancelled
    BY <1>2 DEF Cancelled
  <2>1. CASE ~Registered(l[1])
    BY <1>2, <2>1 DEF Cancelled
  <2>2. CASE Registered(l[1])
    <3>1. l[1] \in S /\ l[1] \in SockIds
      BY <1>1, <1>3, <2>2, GoroutineType
    <3>2. l \in HeldListeners(S)
      BY <2>2, <3>1 DEF Attached, HeldListeners, Keys
    <3> QED BY <1>2, <3>2
  <2> QED BY <2>1, <2>2
<1> QED BY <1>6, <1>7, <1>8, <1>9, <1>11, <1>12, <1>13, <1>14

-----------------------------------------------------------------------------
(* The other steps. *)

LEMMA StillOwner ==
    ASSUME OwnerInv, Still
    PROVE  Owner'
<1> USE DEF OwnerInv, Owner
<1>1. TypeInv
  BY DEF StatusInv
<1>2. /\ \A n \in HostFds : hfd[n] # Free => hfd'[n] = hfd[n]
      /\ \A c \in Conns : conn'[c].st = conn[c].st /\ conn'[c].lsn = conn[c].lsn
      /\ UNCHANGED <<sockets, hs, g>>
      /\ \A s \in SockIds : Keys(s)' = Keys(s) /\ Waits(s)' = Waits(s)
  BY DEF Still, StillHost, ConnsKept, StillStatus
<1>3. \A s : Registered(s)' = Registered(s)
  BY <1>2 DEF Registered
<1>4. KeysSound'
  BY <1>1, <1>2, <1>3, StatusType, NoValues DEF KeysSound
<1>5. KeyConns'
  BY <1>2, <1>3 DEF KeyConns
<1>6. KeySockets'
  BY <1>2, <1>3 DEF KeySockets
<1>7. Receiving'
  BY <1>1, <1>2, <1>3, GoroutineType, NoValues DEF Receiving
<1>8. Sending' /\ Attached' /\ Cancelled'
  BY <1>1, <1>2, <1>3, GoroutineType DEF Sending, Attached, Cancelled
<1>9. QueueKeys'
  BY <1>2, <1>3 DEF QueueKeys
<1> QED BY <1>4, <1>5, <1>6, <1>7, <1>8, <1>9

LEMMA BindOwner ==
    ASSUME OwnerInv, NEW e \in Entries, NEW n \in HostFds, Bind(e, n)
    PROVE  Owner'
<1> USE DEF OwnerInv, Owner
<1> DEFINE l == <<cur.s, e>>
<1>1. /\ TypeInv /\ cur.s \in SockIds /\ Registered(cur.s) /\ l \in Listener
      /\ sock[cur.s].state = "NotBypassed"
  BY ServedUsed DEF StatusInv, Slots, ServedSlot, Bind, Listener
<1>2. PICK o \in SockIds : o = cur.s /\ l[1] = o
  BY <1>1
<1>3. /\ Waits(o) = <<>>
      /\ \A k \in Listener : g[k].pc # "none" => k[1] # o
  <2>1. \A d \in Entries : g[<<o, d>>].pc = "none"
    BY <1>1, <1>2 DEF StatusInv, YoungQuiet, Young
  <2> QED BY <1>1, <1>2, <2>1, GoroutineType DEF StatusInv, YoungQuiet, Young
<1>4. /\ hfd[n] = Free
      /\ \A m \in HostFds : hfd'[m] = IF m = n THEN l ELSE hfd[m]
      /\ UNCHANGED <<conn, sockets, g>>
  BY <1>1 DEF Bind, TypeInv, HostTypeOK
<1>5. /\ hs'[l].Sockfd = n
      /\ \A k \in Listener : k # l => hs'[k] = hs[k]
  BY <1>1 DEF Bind, TypeInv, TablesOK
<1>6. \A s \in SockIds :
         /\ Keys(s)' = IF s = o THEN [Keys(s) EXCEPT ![n] = l] ELSE Keys(s)
         /\ Waits(s)' = Waits(s)
  BY <1>2 DEF Bind
<1> HIDE DEF l
<1>7. \A s \in SockIds, m \in HostFds :
         Keys(s)'[m] = IF s = o /\ m = n THEN l ELSE Keys(s)[m]
  BY <1>1, <1>6, StatusType
<1>8. \A s : Registered(s)' = Registered(s)
  BY <1>4 DEF Registered
<1>9. \A s \in SockIds : Registered(s) => Keys(s)[n] = None
  BY <1>1, <1>4, StatusType, NoValues DEF KeysSound
<1>10. KeysSound'
  BY <1>4, <1>7, <1>8, <1>9 DEF KeysSound
<1>11. KeyConns'
  BY <1>1, <1>4, <1>7, <1>8, NoValues DEF KeyConns
<1>12. KeySockets'
  <2> SUFFICES ASSUME NEW s \in SockIds, NEW m \in HostFds, NEW k \in Listener,
                      Registered(s), Keys(s)'[m] = k
               PROVE  hs'[k].Sockfd \in HostFds /\ Keys(s)'[hs'[k].Sockfd] = k
    BY <1>8 DEF KeySockets
  <2>1. CASE k = l
    <3>1. s = o
      BY <1>2, <1>7, <2>1 DEF StatusInv, ListenersOwn
    <3> QED BY <1>5, <1>7, <2>1, <3>1
  <2>2. CASE k # l
    <3>1. Keys(s)[m] = k
      BY <1>7, <2>2
    <3>2. hs[k].Sockfd \in HostFds /\ Keys(s)[hs[k].Sockfd] = k
      BY <3>1 DEF KeySockets
    <3> QED BY <1>5, <1>7, <1>9, <2>2, <3>2, NoValues
  <2> QED BY <2>1, <2>2
<1>13. ASSUME NEW k \in Listener, g[k].pc = "recv"
       PROVE  g[k].fd # n
  BY <1>1, <1>4, <1>13, GoroutineType, NoValues DEF Receiving
<1>14. Receiving'
  BY <1>1, <1>4, <1>7, <1>8, <1>13, GoroutineType DEF Receiving
<1>15. Sending'
  BY <1>1, <1>3, <1>4, <1>6, <1>7, <1>8, GoroutineType DEF Sending
<1>16. QueueKeys'
  BY <1>1, <1>3, <1>6, <1>7, <1>8, QueueType DEF QueueKeys
<1>17. Attached'
  <2> SUFFICES ASSUME NEW k \in Listener, g[k].pc # "none", Registered(k[1])
               PROVE  /\ hs'[k].Sockfd \in HostFds
                      /\ Keys(k[1])'[hs'[k].Sockfd] = k
                      /\ g[k].pc = "blocked" => g[k].file = k
                      /\ g[k].pc = "recv" => conn[g[k].conn].lsn[1] = k[1]
    BY <1>4, <1>8 DEF Attached
  <2>1. k # l /\ k[1] # o /\ k[1] \in SockIds
    BY <1>1, <1>2, <1>3, GoroutineType
  <2> QED BY <1>5, <1>7, <2>1 DEF Attached
<1>18. Cancelled'
  <2>1. \A k \in Listener : ~Registered(k[1]) => k # l
    BY <1>1, <1>2
  <2> QED BY <1>4, <1>5, <1>8, <2>1 DEF Cancelled
<1> QED BY <1>10, <1>11, <1>12, <1>14, <1>15, <1>16, <1>17, <1>18

LEMMA StartOwner ==
    ASSUME OwnerInv, NEW up \in SUBSET Listener, Start(up)
    PROVE  Owner'
<1> USE DEF OwnerInv, Owner
<1>1. TypeInv /\ cur.s \in SockIds /\ Registered(cur.s)
  BY ServedUsed DEF StatusInv, Start
<1>2. /\ \A s \in SockIds : Keys(s)' = Keys(s) /\ Waits(s)' = Waits(s)
      /\ \A l \in Listener : /\ hs'[l].Sockfd = hs[l].Sockfd
                             /\ hs'[l].Cancelled = hs[l].Cancelled
      /\ UNCHANGED <<hfd, conn, sockets>>
  BY DEF Start
<1>3. \A s : Registered(s)' = Registered(s)
  BY <1>2 DEF Registered
<1>4. /\ \A l \in Listener \ up : g'[l] = g[l]
      /\ \A l \in up : g'[l].pc = "check"
  BY DEF Start, NoGoroutine
<1>5. ASSUME NEW l \in up
      PROVE  /\ l[1] = cur.s /\ hs[l].Sockfd \in HostFds
             /\ Keys(l[1])[hs[l].Sockfd] = l
  <2> PICK s \in {cur.s}, n \in HostFds : Keys(s)[n] = l
    BY DEF Start, HeldListeners, Keys
  <2> QED BY <1>1 DEF KeySockets, StatusInv, ListenersOwn
<1>6. KeysSound' /\ KeyConns' /\ KeySockets' /\ QueueKeys'
  BY <1>2, <1>3 DEF KeysSound, KeyConns, KeySockets, QueueKeys
<1>7. Receiving'
  BY <1>2, <1>3, <1>4 DEF Receiving
<1>8. Sending'
  BY <1>1, <1>2, <1>3, <1>4, GoroutineType DEF Sending
<1>9. Attached'
  <2> SUFFICES ASSUME NEW l \in Listener, g'[l].pc # "none", Registered(l[1])
               PROVE  /\ hs[l].Sockfd \in HostFds
                      /\ Keys(l[1])[hs[l].Sockfd] = l
                      /\ g'[l].pc = "blocked" => g'[l].file = l
                      /\ g'[l].pc = "recv" => conn[g'[l].conn].lsn[1] = l[1]
    BY <1>1, <1>2, <1>3, GoroutineType DEF Attached
  <2>1. CASE l \in up
    BY <1>4, <1>5, <2>1
  <2>2. CASE l \notin up
    BY <1>4, <2>2 DEF Attached
  <2> QED BY <2>1, <2>2
<1>10. Cancelled'
  BY <1>1, <1>2, <1>3, <1>4, <1>5 DEF Cancelled
<1> QED BY <1>6, <1>7, <1>8, <1>9, <1>10

LEMMA TailFacts ==
    ASSUME NEW A, NEW q \in Seq(A), q # <<>>, NEW i \in 1 .. Len(Tail(q))
    PROVE  i + 1 \in 1 .. Len(q) /\ Tail(q)[i] = q[i + 1]
  OBVIOUS

\* The head of the queue of a registered socket is the connection it names.
LEMMA HeadOwned ==
    ASSUME StatusInv, KeysSound, QueueKeys,
           NEW s \in SockIds, Registered(s), Waits(s) # <<>>
    PROVE  /\ Head(Waits(s)).fd \in HostFds /\ Head(Waits(s)).conn \in Conns
           /\ Keys(s)[Head(Waits(s)).fd] = Head(Waits(s)).conn
           /\ hfd[Head(Waits(s)).fd] = Head(Waits(s)).conn
<1>1. Head(Waits(s)) = Waits(s)[1] /\ 1 \in 1 .. Len(Waits(s))
  BY QueueType DEF StatusInv
<1>2. Head(Waits(s)).fd \in HostFds /\ Head(Waits(s)).conn \in Conns
  BY <1>1, QueueType DEF StatusInv
<1>3. Keys(s)[Head(Waits(s)).fd] = Head(Waits(s)).conn
  BY <1>1 DEF QueueKeys
<1> QED BY <1>2, <1>3, NoValues DEF KeysSound

LEMMA DeliverOwner ==
    ASSUME OwnerInv, NEW s \in SockIds, NEW p \in Procs, NEW newfd \in Fds,
           NEW a \in SockIds, Deliver(s, p, newfd, a)
    PROVE  Owner'
<1> USE DEF OwnerInv, Owner
<1> DEFINE k == Head(Waits(s)).fd
<1>1. TypeInv /\ s = cur.s /\ Registered(s) /\ Waits(s) # <<>>
  BY ServedUsed DEF StatusInv, Deliver
<1>2. /\ k \in HostFds /\ Keys(s)[k] \in Conns /\ hfd[k] = Keys(s)[k]
      /\ k = Waits(s)[1].fd /\ 1 \in 1 .. Len(Waits(s))
  BY <1>1, HeadOwned, QueueType
<1>3. /\ \A n \in HostFds : hfd'[n] = IF n = k THEN Free ELSE hfd[n]
      /\ \A c \in Conns :
            /\ conn'[c].lsn = conn[c].lsn
            /\ conn'[c].st = "accepted" <=> conn[c].st = "accepted"
      /\ UNCHANGED <<hs, g>>
  BY DEF Deliver, Closing
<1>4. \A r \in SockIds :
         /\ Keys(r)' = IF r = s THEN [Keys(r) EXCEPT ![k] = None] ELSE Keys(r)
         /\ Waits(r)' = IF r = s THEN Tail(Waits(r)) ELSE Waits(r)
  BY DEF Deliver
<1>5. ASSUME NEW r \in SockIds
      PROVE  /\ Registered(r) => Registered(r)'
             /\ Registered(r)' => Registered(r) \/ Blank(r)
  <2>1. /\ \/ sockets[p][newfd] = a
           \/ sockets[p][newfd] = None /\ sock[a].state = "Unused"
        /\ \A q \in Procs, d \in Fds :
              sockets'[q][d] = IF q = p /\ d = newfd THEN a ELSE sockets[q][d]
    BY DEF Deliver, Fresh
  <2>2. r # None
    BY NoValues
  <2>3. Registered(r) => Registered(r)'
    BY <2>1, <2>2 DEF Registered
  <2>4. ASSUME Registered(r)', ~Registered(r) PROVE Blank(r)
    <3>1. r = a /\ sock[a].state = "Unused"
      BY <2>1, <2>4 DEF Registered
    <3> QED BY <3>1, FreshBlank
  <2> QED BY <2>3, <2>4
<1> HIDE DEF k
<1>6. \A r \in SockIds, n \in HostFds :
         Keys(r)'[n] = IF r = s /\ n = k THEN None ELSE Keys(r)[n]
  BY <1>1, <1>2, <1>4, StatusType
<1>7. \A r \in SockIds : Registered(r) /\ r # s => Keys(r)[k] = None
  BY <1>1, <1>2, KeysApart, NoValues
<1>8. KeysSound'
  BY <1>3, <1>5, <1>6, <1>7 DEF KeysSound, Blank
<1>9. KeyConns'
  <2> SUFFICES ASSUME NEW r \in SockIds, NEW n \in HostFds, NEW c \in Conns,
                      Keys(r)'[n] = c
               PROVE  /\ conn'[c].st = "accepted"
                      /\ Registered(r)' => conn'[c].lsn[1] = r
    BY DEF KeyConns
  <2>1. Keys(r)[n] = c
    BY <1>6, NoValues
  <2> QED BY <1>3, <1>5, <2>1, NoValues DEF KeyConns, Blank
<1>10. KeySockets'
  <2> SUFFICES ASSUME NEW r \in SockIds, NEW n \in HostFds, NEW l \in Listener,
                      Registered(r)', Keys(r)'[n] = l
               PROVE  hs[l].Sockfd \in HostFds /\ Keys(r)'[hs[l].Sockfd] = l
    BY <1>3 DEF KeySockets
  <2>1. Keys(r)[n] = l /\ Registered(r)
    BY <1>5, <1>6, NoValues DEF Blank
  <2>2. hs[l].Sockfd \in HostFds /\ Keys(r)[hs[l].Sockfd] = l
    BY <2>1 DEF KeySockets
  <2> QED BY <1>2, <1>6, <2>2, NoValues
<1>11. ASSUME NEW l \in Listener, g[l].pc = "recv"
       PROVE  g[l].fd # k
  BY <1>1, <1>2, <1>11, NoValues DEF Receiving
<1>12. Receiving'
  BY <1>1, <1>3, <1>5, <1>6, <1>11, GoroutineType DEF Receiving, Blank
<1>13. ASSUME NEW l \in Listener, g[l].pc # "none", Registered(l[1])'
       PROVE  Registered(l[1])
  BY <1>1, <1>5, <1>13, GoroutineType DEF Blank
<1>14. ASSUME NEW i \in 1 .. Len(Waits(s)')
       PROVE  i + 1 \in 1 .. Len(Waits(s)) /\ Waits(s)'[i] = Waits(s)[i + 1]
  <2>1. Waits(s)' = Tail(Waits(s)) /\ Waits(s) \in Seq(Accepted)
    BY <1>1, <1>4, QueueType
  <2> QED BY <1>1, <1>14, <2>1, TailFacts
<1>15. Sending'
  <2> SUFFICES ASSUME NEW l \in Listener, g[l].pc = "send", Registered(l[1])
               PROVE  /\ Keys(l[1])'[g[l].fd] = g[l].conn
                      /\ \A i \in 1 .. Len(Waits(l[1])') :
                            Waits(l[1])'[i].fd # g[l].fd
                      /\ \A m \in Listener :
                            g[m].pc = "send" /\ m[1] = l[1] /\ g[m].fd = g[l].fd
                               => m = l
    BY <1>3, <1>13 DEF Sending
  <2>1. l[1] \in SockIds /\ g[l].fd \in HostFds
    BY <1>1, GoroutineType
  <2>2. ~(l[1] = s /\ g[l].fd = k)
    BY <1>2 DEF Sending
  <2>3. Keys(l[1])'[g[l].fd] = g[l].conn
    BY <1>6, <2>1, <2>2 DEF Sending
  <2>4. \A i \in 1 .. Len(Waits(l[1])') : Waits(l[1])'[i].fd # g[l].fd
    BY <1>4, <1>14, <2>1 DEF Sending
  <2> QED BY <2>3, <2>4 DEF Sending
<1>16. QueueKeys'
  <2> SUFFICES ASSUME NEW r \in SockIds, Registered(r)'
               PROVE  /\ \A i \in 1 .. Len(Waits(r)') :
                            Keys(r)'[Waits(r)'[i].fd] = Waits(r)'[i].conn
                      /\ \A i, j \in 1 .. Len(Waits(r)') :
                            Waits(r)'[i].fd = Waits(r)'[j].fd => i = j
    BY DEF QueueKeys
  <2>1. CASE r = s
    <3>1. ASSUME NEW i \in 1 .. Len(Waits(s)')
          PROVE  Keys(s)'[Waits(s)'[i].fd] = Waits(s)'[i].conn
      <4>1. /\ i + 1 \in 1 .. Len(Waits(s)) /\ i + 1 # 1
            /\ Waits(s)'[i] = Waits(s)[i + 1]
            /\ Waits(s)[i + 1].fd \in HostFds
        BY <1>1, <1>14, QueueType
      <4>2. Waits(s)[i + 1].fd # k
        BY <1>1, <1>2, <4>1 DEF QueueKeys
      <4> QED BY <1>1, <1>6, <4>1, <4>2 DEF QueueKeys
    <3>2. ASSUME NEW i \in 1 .. Len(Waits(s)'), NEW j \in 1 .. Len(Waits(s)'),
                 Waits(s)'[i].fd = Waits(s)'[j].fd
          PROVE  i = j
      <4>1. /\ i + 1 \in 1 .. Len(Waits(s)) /\ j + 1 \in 1 .. Len(Waits(s))
            /\ Waits(s)[i + 1].fd = Waits(s)[j + 1].fd
        BY <1>14, <3>2
      <4>2. i + 1 = j + 1
        BY <1>1, <4>1 DEF QueueKeys
      <4> QED BY <4>2
    <3> QED BY <2>1, <3>1, <3>2
  <2>2. CASE r # s
    <3>1. Waits(r)' = Waits(r) /\ \A n \in HostFds : Keys(r)'[n] = Keys(r)[n]
      BY <1>4, <1>6, <2>2
    <3>2. CASE Blank(r)
      <4>1. Waits(r)' = <<>>
        BY <3>1, <3>2 DEF Blank
      <4> QED BY <4>1
    <3>3. CASE Registered(r)
      BY <1>1, <3>1, <3>3, QueueType DEF QueueKeys
    <3> QED BY <1>5, <3>2, <3>3
  <2> QED BY <2>1, <2>2
<1>17. Attached'
  <2> SUFFICES ASSUME NEW l \in Listener, g[l].pc # "none", Registered(l[1])
               PROVE  /\ hs[l].Sockfd \in HostFds
                      /\ Keys(l[1])'[hs[l].Sockfd] = l
                      /\ g[l].pc = "blocked" => g[l].file = l
                      /\ g[l].pc = "recv" => conn'[g[l].conn].lsn[1] = l[1]
    BY <1>3, <1>13 DEF Attached
  <2>1. hs[l].Sockfd \in HostFds /\ Keys(l[1])[hs[l].Sockfd] = l /\ l[1] \in SockIds
    BY <1>1, GoroutineType DEF Attached
  <2>2. Keys(l[1])'[hs[l].Sockfd] = l
    BY <1>2, <1>6, <2>1, NoValues
  <2> QED BY <1>1, <1>3, <2>1, <2>2, GoroutineType DEF Attached
<1>18. Cancelled'
  BY <1>1, <1>3, <1>5, GoroutineType DEF Cancelled
<1> QED BY <1>8, <1>9, <1>10, <1>12, <1>15, <1>16, <1>17, <1>18

\* Goroutines that take no connection: maps, queues and numbers stay.
LEMMA TurnOwner ==
    ASSUME OwnerInv, NEW l \in Listener, Turn(l)
    PROVE  Owner'
<1> USE DEF OwnerInv, Owner
<1>1. TypeInv
  BY DEF StatusInv
<1>2. /\ \A k \in Listener : k # l => g'[k] = g[k]
      /\ g[l].pc # "none" /\ g'[l].pc \in {"enter", "blocked", "done"}
      /\ g'[l].pc = "blocked" => g'[l].file = hfd[hs[l].Sockfd]
      /\ UNCHANGED <<hfd, conn, sockets, sock>>
      /\ \A k \in Listener : /\ hs'[k].Sockfd = hs[k].Sockfd
                             /\ hs[k].Cancelled => hs'[k].Cancelled
  BY <1>1, TurnFacts DEF Elsewhere
<1>3. /\ \A s : Registered(s)' = Registered(s)
      /\ \A s : Keys(s)' = Keys(s) /\ Waits(s)' = Waits(s)
  BY <1>2 DEF Registered, Keys, Waits
<1>4. KeysSound' /\ KeyConns' /\ KeySockets' /\ QueueKeys'
  BY <1>2, <1>3 DEF KeysSound, KeyConns, KeySockets, QueueKeys
<1>5. Receiving'
  BY <1>2, <1>3 DEF Receiving
<1>6. Sending'
  BY <1>2, <1>3 DEF Sending
<1>7. Attached'
  <2> SUFFICES ASSUME NEW k \in Listener, g'[k].pc # "none", Registered(k[1])
               PROVE  /\ hs[k].Sockfd \in HostFds
                      /\ Keys(k[1])[hs[k].Sockfd] = k
                      /\ g'[k].pc = "blocked" => g'[k].file = k
                      /\ g'[k].pc = "recv" => conn[g'[k].conn].lsn[1] = k[1]
    BY <1>2, <1>3 DEF Attached
  <2>1. CASE k = l
    <3>1. hs[l].Sockfd \in HostFds /\ Keys(l[1])[hs[l].Sockfd] = l
      BY <1>2, <2>1 DEF Attached
    <3>2. hfd[hs[l].Sockfd] = l
      BY <1>1, <2>1, <3>1, GoroutineType, NoValues DEF KeysSound
    <3> QED BY <1>2, <2>1, <3>1, <3>2
  <2>2. CASE k # l
    BY <1>2, <2>2 DEF Attached
  <2> QED BY <2>1, <2>2
<1>8. Cancelled'
  BY <1>2, <1>3 DEF Cancelled
<1> QED BY <1>4, <1>5, <1>6, <1>7, <1>8

LEMMA DenyingOwner ==
    ASSUME OwnerInv, NEW l \in Listener, Denying(l)
    PROVE  Owner'
<1> USE DEF OwnerInv, Owner
<1> DEFINE n == g[l].fd
<1>1. TypeInv
  BY DEF StatusInv
<1>2. /\ \A k \in Listener : k # l => g'[k] = g[k]
      /\ g[l].pc = "recv" /\ g'[l].pc = "check"
      /\ \A m \in HostFds : hfd'[m] = IF m = n THEN Free ELSE hfd[m]
      /\ \A c \in Conns :
            /\ conn'[c].lsn = conn[c].lsn
            /\ conn'[c].st = "accepted" <=> conn[c].st = "accepted"
      /\ UNCHANGED <<sockets, sock, hs>>
  BY <1>1, GotoFacts DEF Denying, Closing, Elsewhere
<1>3. /\ \A s : Registered(s)' = Registered(s)
      /\ \A s : Keys(s)' = Keys(s) /\ Waits(s)' = Waits(s)
  BY <1>2 DEF Registered, Keys, Waits
<1>4. /\ \A s \in SockIds : Registered(s) => Keys(s)[n] = None
      /\ \A k \in Listener : g[k].pc = "recv" /\ k # l => g[k].fd # n
      /\ n \in HostFds
  BY <1>1, <1>2, GoroutineType DEF Receiving
<1> HIDE DEF n
<1>5. KeysSound'
  BY <1>2, <1>3, <1>4 DEF KeysSound
<1>6. KeyConns' /\ KeySockets' /\ QueueKeys'
  BY <1>2, <1>3 DEF KeyConns, KeySockets, QueueKeys
<1>7. Receiving'
  BY <1>1, <1>2, <1>3, <1>4, GoroutineType DEF Receiving
<1>8. Sending' /\ Cancelled'
  BY <1>2, <1>3 DEF Sending, Cancelled
<1>9. Attached'
  BY <1>1, <1>2, <1>3, GoroutineType DEF Attached
<1> QED BY <1>5, <1>6, <1>7, <1>8, <1>9

LEMMA StoringOwner ==
    ASSUME OwnerInv, NEW l \in Listener, Storing(l)
    PROVE  Owner'
<1> USE DEF OwnerInv, Owner
<1>1. TypeInv /\ l[1] \in SockIds
  BY GoroutineType DEF StatusInv
<1> DEFINE n == g[l].fd
           c == g[l].conn
           s == l[1]
<1>2. /\ \A k \in Listener : k # l => g'[k] = g[k]
      /\ g[l].pc = "recv" /\ g'[l].pc = "send"
      /\ g'[l].conn = c /\ g'[l].fd = n
      /\ c \in Conns /\ n \in HostFds
      /\ UNCHANGED <<hfd, conn, sockets, hs>>
  BY <1>1, StoringFacts DEF Storing, Elsewhere
<1>3. \A r : Registered(r)' = Registered(r)
  BY <1>2 DEF Registered
<1>4. \A r \in SockIds :
         /\ Keys(r)' = IF r = s THEN [Keys(r) EXCEPT ![n] = c] ELSE Keys(r)
         /\ Waits(r)' = Waits(r)
  BY DEF Storing
<1>5. /\ hfd[n] = c /\ conn[c].st = "accepted"
      /\ \A r \in SockIds : Registered(r) => Keys(r)[n] = None
      /\ \A k \in Listener : g[k].pc = "recv" /\ k # l => g[k].fd # n
      /\ Registered(s) => conn[c].lsn[1] = s
  BY <1>1, <1>2 DEF Receiving, Attached, HeldAccepted
<1> HIDE DEF n, c
<1>6. \A r \in SockIds, m \in HostFds :
         Keys(r)'[m] = IF r = s /\ m = n THEN c ELSE Keys(r)[m]
  <2> HIDE DEF s
  <2> QED BY <1>1, <1>2, <1>4, StatusType
<1>7. KeysSound'
  BY <1>2, <1>3, <1>5, <1>6 DEF KeysSound
<1>8. KeyConns'
  BY <1>2, <1>3, <1>5, <1>6 DEF KeyConns
<1>9. KeySockets'
  <2> SUFFICES ASSUME NEW r \in SockIds, NEW m \in HostFds, NEW k \in Listener,
                      Registered(r), Keys(r)'[m] = k
               PROVE  hs[k].Sockfd \in HostFds /\ Keys(r)'[hs[k].Sockfd] = k
    BY <1>2, <1>3 DEF KeySockets
  <2>1. Keys(r)[m] = k
    BY <1>2, <1>6, NoValues
  <2>2. hs[k].Sockfd \in HostFds /\ Keys(r)[hs[k].Sockfd] = k
    BY <2>1 DEF KeySockets
  <2> QED BY <1>5, <1>6, <2>2, NoValues
<1>10. Receiving'
  BY <1>1, <1>2, <1>3, <1>5, <1>6, GoroutineType DEF Receiving
<1>11. Sending'
  <2> SUFFICES ASSUME NEW k \in Listener, g'[k].pc = "send", Registered(k[1])
               PROVE  /\ Keys(k[1])'[g'[k].fd] = g'[k].conn
                      /\ \A i \in 1 .. Len(Waits(k[1])) :
                            Waits(k[1])[i].fd # g'[k].fd
                      /\ \A m \in Listener :
                            g'[m].pc = "send" /\ m[1] = k[1]
                               /\ g'[m].fd = g'[k].fd => m = k
    BY <1>1, <1>3, <1>4, GoroutineType DEF Sending
  <2>0. k[1] \in SockIds
    BY <1>1, GoroutineType
  <2>1. \A m \in Listener : m # l /\ g[m].pc = "send" /\ Registered(m[1])
           => g[m].fd # n
    BY <1>1, <1>5, GoroutineType, NoValues DEF Sending
  <2>2. \A m \in Listener : m[1] = k[1] => Registered(m[1])
    OBVIOUS
  <2>3. CASE k = l
    <3>1. \A i \in 1 .. Len(Waits(s)) : Waits(s)[i].fd # n
      BY <1>1, <1>5, <2>3, QueueType, NoValues DEF QueueKeys
    <3>2. \A m \in Listener :
             g'[m].pc = "send" /\ m[1] = k[1] /\ g'[m].fd = g'[k].fd => m = k
      BY <1>2, <2>1, <2>2, <2>3
    <3> QED BY <1>1, <1>2, <1>6, <2>3, <3>1, <3>2
  <2>4. CASE k # l
    <3>1. /\ g[k].pc = "send" /\ g[k].fd # n
          /\ g'[k] = g[k] /\ g[k].fd \in HostFds
      BY <1>1, <1>2, <2>1, <2>4, GoroutineType
    <3>2. \A m \in Listener :
             g'[m].pc = "send" /\ m[1] = k[1] /\ g'[m].fd = g'[k].fd => m = k
      BY <1>2, <2>2, <3>1 DEF Sending
    <3>3. Keys(k[1])'[g[k].fd] = g[k].conn
      BY <1>6, <2>0, <3>1 DEF Sending
    <3> QED BY <3>1, <3>2, <3>3 DEF Sending
  <2> QED BY <2>3, <2>4
<1>12. QueueKeys'
  BY <1>1, <1>3, <1>4, <1>5, <1>6, QueueType, NoValues DEF QueueKeys
<1>13. Attached'
  <2> SUFFICES ASSUME NEW k \in Listener, g'[k].pc # "none", Registered(k[1])
               PROVE  /\ hs[k].Sockfd \in HostFds
                      /\ Keys(k[1])'[hs[k].Sockfd] = k
                      /\ g'[k].pc = "blocked" => g'[k].file = k
                      /\ g'[k].pc = "recv" => conn[g'[k].conn].lsn[1] = k[1]
    BY <1>2, <1>3 DEF Attached
  <2>1. g[k].pc # "none" /\ k[1] \in SockIds
    BY <1>1, <1>2, GoroutineType
  <2>2. hs[k].Sockfd \in HostFds /\ Keys(k[1])[hs[k].Sockfd] = k
    BY <2>1 DEF Attached
  <2>3. Keys(k[1])'[hs[k].Sockfd] = k
    BY <1>5, <1>6, <2>1, <2>2, NoValues
  <2>4. CASE k = l
    BY <1>2, <2>2, <2>3, <2>4
  <2>5. CASE k # l
    BY <1>2, <2>3, <2>5 DEF Attached
  <2> QED BY <2>4, <2>5
<1>14. Cancelled'
  BY <1>2, <1>3 DEF Cancelled
<1> QED BY <1>7, <1>8, <1>9, <1>10, <1>11, <1>12, <1>13, <1>14

LEMMA AppendFacts ==
    ASSUME NEW q \in Seq(Accepted), NEW x \in Accepted
    PROVE  /\ Len(Append(q, x)) = Len(q) + 1 /\ Len(q) \in Nat
           /\ \A i \in 1 .. Len(q) : Append(q, x)[i] = q[i]
           /\ Append(q, x)[Len(q) + 1] = x
<1>1. Len(q) \in Nat
  OBVIOUS
<1> QED BY <1>1, AppendProperties

LEMMA QueueingOwner ==
    ASSUME OwnerInv, NEW l \in Listener, Queueing(l)
    PROVE  Owner'
<1> USE DEF OwnerInv, Owner
<1>1. TypeInv /\ l[1] \in SockIds
  BY GoroutineType DEF StatusInv
<1> DEFINE n == g[l].fd
           c == g[l].conn
           s == l[1]
<1>2. /\ \A k \in Listener : k # l => g'[k] = g[k]
      /\ g[l].pc = "send" /\ g'[l].pc = "check"
      /\ c \in Conns /\ n \in HostFds
      /\ UNCHANGED <<hfd, conn, sockets, hs>>
  BY <1>1, GotoFacts, GoroutineType DEF Queueing, Elsewhere
<1>3. \A r : Registered(r)' = Registered(r)
  BY <1>2 DEF Registered
<1>4. \A r \in SockIds :
         /\ Keys(r)' = Keys(r)
         /\ Waits(r)' = IF r = s THEN Append(Waits(r), [conn |-> c, fd |-> n])
                        ELSE Waits(r)
  BY DEF Queueing
<1>5. Registered(s) =>
         /\ Keys(s)[n] = c
         /\ \A i \in 1 .. Len(Waits(s)) : Waits(s)[i].fd # n
         /\ \A k \in Listener :
               g[k].pc = "send" /\ k[1] = s /\ g[k].fd = n => k = l
  BY <1>2 DEF Sending
<1> HIDE DEF n, c
<1>6. /\ Len(Waits(s)') = Len(Waits(s)) + 1 /\ Len(Waits(s)) \in Nat
      /\ \A i \in 1 .. Len(Waits(s)) : Waits(s)'[i] = Waits(s)[i]
      /\ Waits(s)'[Len(Waits(s)) + 1].conn = c
      /\ Waits(s)'[Len(Waits(s)) + 1].fd = n
  <2> DEFINE as == [conn |-> c, fd |-> n]
             q == Waits(s)
  <2>1. as \in Accepted /\ as.conn = c /\ as.fd = n
    BY <1>2 DEF Accepted
  <2>2. q \in Seq(Accepted) /\ Waits(s)' = Append(q, as)
    BY <1>1, <1>4, QueueType
  <2> HIDE DEF as, q
  <2>3. /\ Len(Append(q, as)) = Len(q) + 1 /\ Len(q) \in Nat
        /\ \A i \in 1 .. Len(q) : Append(q, as)[i] = q[i]
        /\ Append(q, as)[Len(q) + 1] = as
    BY <2>1, <2>2, AppendFacts
  <2> QED BY <2>1, <2>2, <2>3 DEF q
<1>7. KeysSound' /\ KeyConns' /\ KeySockets'
  BY <1>2, <1>3, <1>4 DEF KeysSound, KeyConns, KeySockets
<1>8. Receiving'
  BY <1>2, <1>3, <1>4 DEF Receiving
<1>9. Sending'
  <2> SUFFICES ASSUME NEW k \in Listener, g'[k].pc = "send", Registered(k[1])
               PROVE  /\ Keys(k[1])'[g'[k].fd] = g'[k].conn
                      /\ \A i \in 1 .. Len(Waits(k[1])') :
                            Waits(k[1])'[i].fd # g'[k].fd
                      /\ \A m \in Listener :
                            g'[m].pc = "send" /\ m[1] = k[1]
                               /\ g'[m].fd = g'[k].fd => m = k
    BY <1>3 DEF Sending
  <2>1. /\ k # l /\ g'[k] = g[k] /\ g[k].pc = "send"
        /\ k[1] \in SockIds /\ g[k].fd \in HostFds
    BY <1>1, <1>2, GoroutineType
  <2>2. Keys(k[1])'[g[k].fd] = g[k].conn
    BY <1>4, <2>1 DEF Sending
  <2>3. ASSUME NEW i \in 1 .. Len(Waits(k[1])')
        PROVE  Waits(k[1])'[i].fd # g[k].fd
    <3>1. CASE k[1] = s
      <4>1. g[k].fd # n
        BY <1>5, <2>1, <3>1
      <4>2. CASE i = Len(Waits(s)) + 1
        BY <1>6, <3>1, <4>1, <4>2
      <4>3. CASE i # Len(Waits(s)) + 1
        <5>1. i \in 1 .. Len(Waits(s))
          BY <1>6, <2>3, <3>1, <4>3
        <5> QED BY <1>6, <2>1, <3>1, <5>1 DEF Sending
      <4> QED BY <4>2, <4>3
    <3>2. CASE k[1] # s
      BY <1>4, <2>1, <2>3, <3>2 DEF Sending
    <3> QED BY <3>1, <3>2
  <2>4. \A m \in Listener :
           g'[m].pc = "send" /\ m[1] = k[1] /\ g'[m].fd = g'[k].fd => m = k
    BY <1>2, <2>1 DEF Sending
  <2> QED BY <2>1, <2>2, <2>3, <2>4
<1>10. QueueKeys'
  <2> SUFFICES ASSUME NEW r \in SockIds, Registered(r)
               PROVE  /\ \A i \in 1 .. Len(Waits(r)') :
                            Keys(r)[Waits(r)'[i].fd] = Waits(r)'[i].conn
                      /\ \A i, j \in 1 .. Len(Waits(r)') :
                            Waits(r)'[i].fd = Waits(r)'[j].fd => i = j
    BY <1>3, <1>4 DEF QueueKeys
  <2>1. CASE r = s
    <3>1. \A i \in 1 .. Len(Waits(s)') :
             i \in 1 .. Len(Waits(s)) \/ i = Len(Waits(s)) + 1
      BY <1>6
    <3>2. \A i \in 1 .. Len(Waits(s)') : Keys(s)[Waits(s)'[i].fd] = Waits(s)'[i].conn
      BY <1>1, <1>5, <1>6, <2>1, <3>1 DEF QueueKeys
    <3>3. \A i, j \in 1 .. Len(Waits(s)') :
             Waits(s)'[i].fd = Waits(s)'[j].fd => i = j
      BY <1>1, <1>5, <1>6, <2>1, <3>1 DEF QueueKeys
    <3> QED BY <2>1, <3>2, <3>3
  <2>2. CASE r # s
    BY <1>4, <2>2 DEF QueueKeys
  <2> QED BY <2>1, <2>2
<1>11. Attached'
  <2> SUFFICES ASSUME NEW k \in Listener, g'[k].pc # "none", Registered(k[1])
               PROVE  /\ hs[k].Sockfd \in HostFds
                      /\ Keys(k[1])[hs[k].Sockfd] = k
                      /\ g'[k].pc = "blocked" => g'[k].file = k
                      /\ g'[k].pc = "recv" => conn[g'[k].conn].lsn[1] = k[1]
    BY <1>1, <1>2, <1>3, <1>4, GoroutineType DEF Attached
  <2>1. CASE k = l
    BY <1>2, <2>1 DEF Attached
  <2>2. CASE k # l
    BY <1>2, <2>2 DEF Attached
  <2> QED BY <2>1, <2>2
<1>12. Cancelled'
  BY <1>2, <1>3 DEF Cancelled
<1> QED BY <1>7, <1>8, <1>9, <1>10, <1>11, <1>12

LEMMA AcceptingOwner ==
    ASSUME OwnerInv, NEW l \in Listener, NEW c \in Conns, NEW n \in HostFds,
           Accepting(l, c, n)
    PROVE  Owner'
<1> USE DEF OwnerInv, Owner
<1>1. TypeInv /\ l[1] \in SockIds
  BY GoroutineType DEF StatusInv
<1>2. /\ \A k \in Listener : k # l => g'[k] = g[k]
      /\ g[l].pc = "blocked"
      /\ g'[l].pc = "recv" /\ g'[l].conn = c /\ g'[l].fd = n
      /\ hfd[n] = Free
      /\ \A m \in HostFds : hfd'[m] = IF m = n THEN c ELSE hfd[m]
      /\ conn[c].lsn = g[l].file
      /\ conn'[c].st = "accepted"
      /\ \A d \in Conns : conn'[d].lsn = conn[d].lsn
      /\ \A d \in Conns : d # c => conn'[d].st = conn[d].st
  BY <1>1, AcceptingFacts DEF Elsewhere
<1>3. UNCHANGED <<sockets, sock, hs>>
  BY DEF Accepting
<1>4. /\ \A s : Registered(s)' = Registered(s)
      /\ \A s : Keys(s)' = Keys(s) /\ Waits(s)' = Waits(s)
  BY <1>3 DEF Registered, Keys, Waits
<1>5. \A s \in SockIds : Registered(s) => Keys(s)[n] = None
  BY <1>1, <1>2, StatusType, NoValues DEF KeysSound
<1>6. ASSUME NEW k \in Listener, g[k].pc = "recv"
      PROVE  g[k].fd # n
  BY <1>1, <1>2, <1>6, GoroutineType, NoValues DEF Receiving
<1>7. KeysSound'
  BY <1>2, <1>4, <1>5 DEF KeysSound
<1>8. KeyConns'
  BY <1>2, <1>4 DEF KeyConns
<1>9. KeySockets' /\ QueueKeys'
  BY <1>3, <1>4 DEF KeySockets, QueueKeys
<1>10. Receiving'
  <2> SUFFICES ASSUME NEW k \in Listener, g'[k].pc = "recv"
               PROVE  /\ hfd'[g'[k].fd] = g'[k].conn
                      /\ \A s \in SockIds :
                            Registered(s) => Keys(s)[g'[k].fd] = None
                      /\ \A m \in Listener :
                            g'[m].pc = "recv" /\ g'[m].fd = g'[k].fd => m = k
    BY <1>4 DEF Receiving
  <2>1. CASE k = l
    BY <1>2, <1>5, <1>6, <2>1
  <2>2. CASE k # l
    <3>1. g'[k] = g[k] /\ g[k].pc = "recv" /\ g[k].fd # n /\ g[k].fd \in HostFds
      BY <1>1, <1>2, <1>6, <2>2, GoroutineType
    <3> QED BY <1>2, <3>1 DEF Receiving
  <2> QED BY <2>1, <2>2
<1>11. Sending'
  BY <1>2, <1>4 DEF Sending
<1>12. Attached'
  <2> SUFFICES ASSUME NEW k \in Listener, g'[k].pc # "none", Registered(k[1])
               PROVE  /\ hs[k].Sockfd \in HostFds
                      /\ Keys(k[1])[hs[k].Sockfd] = k
                      /\ g'[k].pc = "blocked" => g'[k].file = k
                      /\ g'[k].pc = "recv" => conn'[g'[k].conn].lsn[1] = k[1]
    BY <1>3, <1>4 DEF Attached
  <2>1. CASE k = l
    BY <1>2, <2>1 DEF Attached
  <2>2. CASE k # l
    BY <1>1, <1>2, <2>2, GoroutineType DEF Attached
  <2> QED BY <2>1, <2>2
<1>13. Cancelled'
  BY <1>2, <1>3, <1>4 DEF Cancelled
<1> QED BY <1>7, <1>8, <1>9, <1>10, <1>11, <1>12, <1>13

LEMMA ArrivingOwner ==
    ASSUME OwnerInv, NEW c \in Conns, NEW l \in Listener, Arriving(c, l)
    PROVE  Owner'
<1> USE DEF OwnerInv, Owner
<1>1. TypeInv
  BY DEF StatusInv
<1>2. /\ conn[c].st = "new"
      /\ \A d \in Conns : d # c => conn'[d] = conn[d]
      /\ UNCHANGED <<hfd, sockets, sock, hs, g>>
  BY <1>1, ArrivingFacts DEF Arriving
<1>3. /\ \A s : Registered(s)' = Registered(s)
      /\ \A s : Keys(s)' = Keys(s) /\ Waits(s)' = Waits(s)
  BY <1>2 DEF Registered, Keys, Waits
<1>4. KeyConns'
  <2> SUFFICES ASSUME NEW s \in SockIds, NEW n \in HostFds, NEW d \in Conns,
                      Keys(s)[n] = d
               PROVE  /\ conn'[d].st = "accepted"
                      /\ Registered(s) => conn'[d].lsn[1] = s
    BY <1>3 DEF KeyConns
  <2>1. conn[d].st = "accepted" /\ (Registered(s) => conn[d].lsn[1] = s)
    BY DEF KeyConns
  <2> QED BY <1>2, <2>1
<1>5. KeysSound' /\ KeySockets' /\ Receiving' /\ Sending' /\ QueueKeys' /\ Cancelled'
  BY <1>2, <1>3
     DEF KeysSound, KeySockets, Receiving, Sending, QueueKeys, Cancelled
<1>6. Attached'
  <2>1. ASSUME NEW k \in Listener, g[k].pc = "recv"
        PROVE  conn'[g[k].conn] = conn[g[k].conn]
    <3>1. /\ g[k].conn \in Conns /\ g[k].fd \in HostFds
          /\ hfd[g[k].fd] = g[k].conn
      BY <1>1, <2>1, GoroutineType DEF Receiving
    <3>2. conn[g[k].conn].st = "accepted"
      BY <3>1 DEF HeldAccepted
    <3> QED BY <1>2, <3>1, <3>2
  <2> QED BY <1>2, <1>3, <2>1 DEF Attached
<1> QED BY <1>4, <1>5, <1>6

LEMMA StepOwner ==
    ASSUME OwnerInv, Moves, ~AcceptAddFdFails
    PROVE  Owner'
<1>1. ASSUME NEW t \in Procs, Drop(t) PROVE Owner'
  BY <1>1, DropRemoval, RemovalOwner DEF OwnerInv
<1>2. ASSUME NEW p \in Procs, NEW fd \in Fds, NEW x \in SockIds \cup {None},
             Renew(p, fd, x)
      PROVE  Owner'
  BY <1>2, RenewRemoval, RemovalOwner DEF OwnerInv
<1> QED BY <1>1, <1>2, StillOwner, BindOwner, StartOwner, DeliverOwner, TurnOwner,
           DenyingOwner, StoringOwner, QueueingOwner, AcceptingOwner,
           ArrivingOwner DEF Moves

LEMMA StutterStill ==
    ASSUME StatusInv, UNCHANGED vars
    PROVE  Still /\ ~AcceptAddFdFails
<1>1. Still
  BY DEF vars, hostVars, containerVars, seccompVars, Still, StillHost, ConnsKept,
         StillStatus, StillFiles, StillServing, Keys, Waits, StatusInv, Slots,
         ServedSlot
<1>2. UNCHANGED cur
  BY DEF vars, seccompVars
<1>3. ~AcceptAddFdFails
  BY <1>2 DEF AcceptAddFdFails, On, At, Reply
<1> QED BY <1>1, <1>3

LEMMA StepOwnerInv ==
    ASSUME OwnerInv, [Next /\ ~AcceptAddFdFails]_vars
    PROVE  OwnerInv' /\ Moves
<1>1. [Next]_vars
  OBVIOUS
<1>2. Moves /\ StatusInv' /\ HeldAccepted'
  BY <1>1, StepStatus, StepAccepted DEF OwnerInv
<1>3. CASE Next /\ ~AcceptAddFdFails
  BY <1>2, <1>3, StepOwner DEF OwnerInv
<1>4. CASE UNCHANGED vars
  BY <1>2, <1>4, StutterStill, StillOwner DEF OwnerInv, StatusInv
<1> QED BY <1>3, <1>4

LEMMA InitOwner ==
    ASSUME Init
    PROVE  OwnerInv
<1>1. StatusInv /\ HeldAccepted
  BY InitHolders DEF HeldOnce
<1>2. /\ \A s : Registered(s) => s \notin SockIds
      /\ \A s \in SockIds, n \in HostFds : Keys(s)[n] = None
      /\ \A l \in Listener : g[l].pc = "none"
  BY NoValues DEF Init, Registered, NewStatus, Keys, NoGoroutine
<1> QED BY <1>1, <1>2, NoValues, ListenerParts
        DEF OwnerInv, Owner, KeysSound, KeyConns, KeySockets, Receiving, Sending,
            QueueKeys, Attached, Cancelled

-----------------------------------------------------------------------------
(* What a removed socket leaves open. *)

\* The connections that a removed socket has still open are at most as many as
\* its goroutines that stored one after the map was walked.
Stored(s) == {e \in Entries : g[<<s, e>>].pc \in {"send", "check", "done"}}
Held(s) == {n \in HostFds : hfd[n] \in Conns /\ Keys(s)[n] = hfd[n]}

LeftHeld ==
    \A s \in SockIds :
        ~Registered(s) => Cardinality(Held(s)) <= Cardinality(Stored(s))

\* The daemon has finitely many descriptors and destinations.
Finite == IsFiniteSet(HostFds) /\ IsFiniteSet(Entries)

LEMMA Counted ==
    ASSUME Finite, NEW s
    PROVE  /\ IsFiniteSet(Held(s)) /\ Cardinality(Held(s)) \in Nat
           /\ IsFiniteSet(Stored(s)) /\ Cardinality(Stored(s)) \in Nat
<1>1. IsFiniteSet(Held(s)) /\ IsFiniteSet(Stored(s))
  BY FS_Subset DEF Finite, Held, Stored
<1> QED BY <1>1, FS_CardinalityType

\* A socket that holds no more and whose goroutines stored no less.
LEMMA HeldLess ==
    ASSUME Finite, NEW s \in SockIds, Held(s)' \subseteq Held(s),
           Stored(s) \subseteq Stored(s)',
           Cardinality(Held(s)) <= Cardinality(Stored(s))
    PROVE  Cardinality(Held(s)') <= Cardinality(Stored(s)')
<1>1. IsFiniteSet(Held(s)) /\ IsFiniteSet(Stored(s))
  BY Counted
<1>2. IsFiniteSet(Stored(s)')
  <2>1. Stored(s)' \subseteq Entries
    BY DEF Stored
  <2> QED BY <2>1, FS_Subset DEF Finite
<1>3. /\ Cardinality(Held(s)') <= Cardinality(Held(s))
      /\ Cardinality(Stored(s)) <= Cardinality(Stored(s)')
      /\ Cardinality(Held(s)') \in Nat /\ Cardinality(Held(s)) \in Nat
      /\ Cardinality(Stored(s)') \in Nat /\ Cardinality(Stored(s)) \in Nat
  BY <1>1, <1>2, FS_Subset, FS_CardinalityType
<1> QED BY <1>3

LEMMA OneMore ==
    ASSUME NEW S, IsFiniteSet(S), NEW x
    PROVE  /\ IsFiniteSet(S \cup {x})
           /\ Cardinality(S \cup {x}) <= Cardinality(S) + 1
           /\ Cardinality(S \cup {x}) \in Nat
<1> DEFINE T == S \cup {x}
<1>1. Cardinality(S) \in Nat
  BY FS_CardinalityType
<1>2. IsFiniteSet(T) /\ Cardinality(T) \in {Cardinality(S), Cardinality(S) + 1}
  BY FS_AddElement
<1> HIDE DEF T
<1>3. Cardinality(T) \in Nat /\ Cardinality(T) <= Cardinality(S) + 1
  BY <1>1, <1>2
<1> QED BY <1>2, <1>3 DEF T

LEMMA StepLeft ==
    ASSUME NumbersApart, Finite, OwnerInv, LeftHeld, Moves, ~AcceptAddFdFails
    PROVE  LeftHeld'
<1> USE DEF OwnerInv, Owner
<1> SUFFICES ASSUME NEW s \in SockIds, ~Registered(s)'
             PROVE  Cardinality(Held(s)') <= Cardinality(Stored(s)')
  BY DEF LeftHeld
<1>0. TypeInv
  BY DEF StatusInv
<1>1. ASSUME ~Registered(s),
             \A n \in HostFds : hfd'[n] \in Conns /\ Keys(s)'[n] = hfd'[n] =>
                hfd[n] = hfd'[n] /\ Keys(s)[n] = hfd[n],
             \A e \in Entries : g[<<s, e>>].pc \in {"send", "check", "done"} =>
                g'[<<s, e>>].pc \in {"send", "check", "done"}
      PROVE  Cardinality(Held(s)') <= Cardinality(Stored(s)')
  <2>1. Held(s)' \subseteq Held(s) /\ Stored(s) \subseteq Stored(s)'
    BY <1>1 DEF Held, Stored
  <2> QED BY <1>1, <2>1, HeldLess DEF LeftHeld
<1>2. ASSUME NEW l \in Listener, Elsewhere(l),
             g[l].pc = "blocked" \/ g'[l].pc = "check", NEW e \in Entries
      PROVE  g[<<s, e>>].pc \in {"send", "check", "done"} =>
                g'[<<s, e>>].pc \in {"send", "check", "done"}
  <2>1. <<s, e>> \in Listener
    BY DEF Listener
  <2> QED BY <1>2, <2>1 DEF Elsewhere
<1>3. CASE Still
  <2>1. UNCHANGED <<sockets, g>> /\ Keys(s)' = Keys(s)
    BY <1>3 DEF Still, StillStatus
  <2>2. \A n \in HostFds : hfd'[n] \in Conns => hfd'[n] = hfd[n]
    BY <1>0, <1>3, NoValues, NoCopies DEF Still, StillHost
  <2> QED BY <1>1, <2>1, <2>2 DEF Registered
<1>4. ASSUME NEW S, Removal(S)
      PROVE  Cardinality(Held(s)') <= Cardinality(Stored(s)')
  <2>1. /\ UNCHANGED g
        /\ Registered(s) => s \in S
        /\ \A n \in HostFds :
              /\ Keys(s)'[n] = Keys(s)[n]
              /\ hfd'[n] = IF n \in HeldFds(S) THEN Free ELSE hfd[n]
    BY <1>4 DEF Removal, Removing, Closing
  <2>2. CASE ~Registered(s)
    BY <1>1, <2>1, <2>2, NoValues
  <2>3. CASE Registered(s)
    <3>1. Held(s)' = {}
      <4> SUFFICES ASSUME NEW n \in HostFds, hfd'[n] \in Conns,
                          Keys(s)'[n] = hfd'[n]
                   PROVE  FALSE
        BY DEF Held
      <4>1. n \in HeldFds(S)
        BY <2>1, <2>3, NoValues DEF HeldFds, Keys
      <4> QED BY <2>1, <4>1, NoValues
    <3>2. Stored(s)' \subseteq Entries
      BY DEF Stored
    <3>3. Cardinality(Stored(s)') \in Nat
      BY <3>2, FS_Subset, FS_CardinalityType DEF Finite
    <3> QED BY <3>1, <3>3, FS_EmptySet
  <2> QED BY <2>2, <2>3
<1>5. ASSUME NEW t \in Procs, Drop(t)
      PROVE  Cardinality(Held(s)') <= Cardinality(Stored(s)')
  BY <1>4, <1>5, DropRemoval
<1>6. ASSUME NEW p \in Procs, NEW fd \in Fds, NEW x \in SockIds \cup {None},
             Renew(p, fd, x)
      PROVE  Cardinality(Held(s)') <= Cardinality(Stored(s)')
  BY <1>4, <1>6, RenewRemoval
<1>7. ASSUME NEW e \in Entries, NEW n \in HostFds, Bind(e, n)
      PROVE  Cardinality(Held(s)') <= Cardinality(Stored(s)')
  <2>1. Registered(cur.s) /\ UNCHANGED <<sockets, g>>
    BY <1>7, ServedUsed DEF Bind, StatusInv
  <2>2. ~Registered(s) /\ s # cur.s
    BY <2>1 DEF Registered
  <2>3. Keys(s)' = Keys(s)
    BY <1>7, <2>2 DEF Bind
  <2>4. <<cur.s, e>> \notin Conns
    BY <1>7, <1>0, ServedUsed, NoValues DEF Bind, Listener, StatusInv
  <2>5. \A m \in HostFds : hfd'[m] \in Conns => hfd'[m] = hfd[m]
    BY <1>0, <1>7, <2>4 DEF Bind, TypeInv, HostTypeOK
  <2> QED BY <1>1, <2>1, <2>2, <2>3, <2>5
<1>8. ASSUME NEW up \in SUBSET Listener, Start(up)
      PROVE  Cardinality(Held(s)') <= Cardinality(Stored(s)')
  <2>1. UNCHANGED <<hfd, sockets>> /\ Keys(s)' = Keys(s) /\ ~Registered(s)
    BY <1>8 DEF Start, Registered
  <2>2. \A e \in Entries : g'[<<s, e>>].pc \in {g[<<s, e>>].pc, "check"}
    BY <1>8 DEF Start, Listener, NoGoroutine
  <2> QED BY <1>1, <2>1, <2>2
<1>9. ASSUME NEW r \in SockIds, NEW p \in Procs, NEW newfd \in Fds,
             NEW a \in SockIds, Deliver(r, p, newfd, a)
      PROVE  Cardinality(Held(s)') <= Cardinality(Stored(s)')
  <2>1. /\ \/ sockets[p][newfd] = a
           \/ sockets[p][newfd] = None
        /\ \A q \in Procs, d \in Fds :
              sockets'[q][d] = IF q = p /\ d = newfd THEN a ELSE sockets[q][d]
    BY <1>9 DEF Deliver
  <2>2. ~Registered(s)
    BY <2>1, NoValues DEF Registered
  <2>3. Registered(r)
    BY <1>9, ServedUsed DEF Deliver, StatusInv
  <2>4. Keys(s)' = Keys(s) /\ UNCHANGED g
    BY <1>9, <2>2, <2>3 DEF Deliver
  <2>5. \A n \in HostFds : hfd'[n] \in Conns => hfd'[n] = hfd[n]
    BY <1>9, NoValues DEF Deliver, Closing
  <2> QED BY <1>1, <2>2, <2>4, <2>5
<1>10. ASSUME NEW l \in Listener, Turn(l)
       PROVE  Cardinality(Held(s)') <= Cardinality(Stored(s)')
  <2>1. /\ Elsewhere(l) /\ g[l].pc \notin {"send", "done"}
        /\ g[l].pc = "check" /\ hs[l].Cancelled => g'[l].pc = "done"
        /\ UNCHANGED <<hfd, sockets, sock>>
    BY <1>0, <1>10, TurnFacts
  <2>2. ~Registered(s) /\ Keys(s)' = Keys(s)
    BY <2>1 DEF Registered, Keys
  <2>3. ASSUME NEW e \in Entries, g[<<s, e>>].pc \in {"send", "check", "done"}
        PROVE  g'[<<s, e>>].pc \in {"send", "check", "done"}
    <3> DEFINE k == <<s, e>>
    <3>1. k \in Listener /\ k[1] = s
      BY DEF Listener
    <3> HIDE DEF k
    <3>2. CASE k = l
      BY <2>1, <2>2, <2>3, <3>1, <3>2 DEF Cancelled, k
    <3>3. CASE k # l
      BY <2>1, <2>3, <3>1, <3>3 DEF Elsewhere, k
    <3> QED BY <3>2, <3>3
  <2> QED BY <1>1, <2>1, <2>2, <2>3
<1>11. ASSUME NEW l \in Listener, Denying(l) \/ Queueing(l)
       PROVE  Cardinality(Held(s)') <= Cardinality(Stored(s)')
  <2>1. /\ Elsewhere(l) /\ g'[l].pc = "check"
        /\ UNCHANGED sockets /\ Keys(s)' = Keys(s)
    BY <1>0, <1>11, GotoFacts DEF Denying, Queueing, Keys
  <2>2. \A n \in HostFds : hfd'[n] \in Conns => hfd'[n] = hfd[n]
    BY <1>11, NoValues DEF Denying, Queueing, Closing
  <2> QED BY <1>1, <1>2, <2>1, <2>2 DEF Registered
<1>12. ASSUME NEW l \in Listener, NEW c \in Conns, NEW n \in HostFds,
              Accepting(l, c, n)
       PROVE  Cardinality(Held(s)') <= Cardinality(Stored(s)')
  <2>1. /\ Elsewhere(l) /\ g[l].pc = "blocked" /\ conn[c].st = "backlog"
        /\ \A m \in HostFds : hfd'[m] = IF m = n THEN c ELSE hfd[m]
    BY <1>0, <1>12, AcceptingFacts
  <2>2. ~Registered(s) /\ Keys(s)' = Keys(s)
    BY <1>12 DEF Accepting, Registered, Keys
  <2>3. Keys(s)[n] # c
    BY <2>1 DEF KeyConns
  <2>4. \A e \in Entries :
           g[<<s, e>>].pc \in {"send", "check", "done"} =>
              g'[<<s, e>>].pc \in {"send", "check", "done"}
    BY <1>2, <2>1, <2>2
  <2> QED BY <1>1, <2>1, <2>2, <2>3, <2>4
<1>13. ASSUME NEW c \in Conns, NEW l \in Listener, Arriving(c, l)
       PROVE  Cardinality(Held(s)') <= Cardinality(Stored(s)')
  <2>1. UNCHANGED <<hfd, sockets, g>> /\ Keys(s)' = Keys(s)
    BY <1>13 DEF Arriving, Keys
  <2> QED BY <1>1, <2>1 DEF Registered
<1>14. ASSUME NEW l \in Listener, Storing(l)
       PROVE  Cardinality(Held(s)') <= Cardinality(Stored(s)')
  <2>1. /\ Elsewhere(l) /\ g[l].pc = "recv" /\ g'[l].pc = "send"
        /\ g[l].fd \in HostFds /\ UNCHANGED <<hfd, sockets>>
        /\ Keys(s)' = IF s = l[1] THEN [Keys(s) EXCEPT ![g[l].fd] = g[l].conn]
                      ELSE Keys(s)
        /\ l[2] \in Entries /\ l = <<l[1], l[2]>> /\ l[1] \in SockIds
    BY <1>0, <1>14, StoringFacts, ListenerParts DEF Storing
  <2>2. ~Registered(s)
    BY <2>1 DEF Registered
  <2>3. CASE s # l[1]
    <3>1. \A e \in Entries : g'[<<s, e>>] = g[<<s, e>>]
      BY <2>1, <2>3 DEF Elsewhere, Listener
    <3> QED BY <1>1, <2>1, <2>2, <2>3, <3>1
  <2>4. CASE s = l[1]
    <3> DEFINE n == g[l].fd
               c == g[l].conn
               e == l[2]
    <3>1. \A m \in HostFds : m # n => Keys(s)'[m] = Keys(s)[m]
      <4>1. Keys(s)' = [Keys(s) EXCEPT ![n] = c]
        BY <2>1, <2>4
      <4> HIDE DEF n, c
      <4> QED BY <1>0, <4>1, StatusType
    <3>2. Held(s)' \subseteq Held(s) \cup {n}
      BY <2>1, <3>1 DEF Held
    <3>3. /\ e \notin Stored(s)
          /\ Stored(s)' = Stored(s) \cup {e}
      <4>1. \A d \in Entries : d # e => g'[<<s, d>>] = g[<<s, d>>]
        BY <2>1, <2>4 DEF Elsewhere, Listener
      <4>2. l = <<s, e>>
        BY <2>1, <2>4
      <4> QED BY <2>1, <4>1, <4>2 DEF Stored
    <3> HIDE DEF n, c, e
    <3>4. /\ IsFiniteSet(Held(s)) /\ Cardinality(Held(s)) \in Nat
          /\ IsFiniteSet(Stored(s)) /\ Cardinality(Stored(s)) \in Nat
      BY Counted
    <3>5. Cardinality(Stored(s)') = Cardinality(Stored(s)) + 1
      BY <3>3, <3>4, FS_AddElement
    <3>6. /\ IsFiniteSet(Held(s) \cup {n})
          /\ Cardinality(Held(s) \cup {n}) <= Cardinality(Held(s)) + 1
          /\ Cardinality(Held(s) \cup {n}) \in Nat
      BY <3>4, OneMore
    <3>7. /\ Cardinality(Held(s)') <= Cardinality(Held(s) \cup {n})
          /\ Cardinality(Held(s)') \in Nat
      BY <3>2, <3>6, FS_Subset, FS_CardinalityType
    <3>8. Cardinality(Held(s)) <= Cardinality(Stored(s))
      BY <2>2 DEF LeftHeld
    <3> QED BY <3>4, <3>5, <3>6, <3>7, <3>8
  <2> QED BY <2>3, <2>4
<1> QED BY <1>3, <1>5, <1>6, <1>7, <1>8, <1>9, <1>10, <1>11, <1>12, <1>13, <1>14
        DEF Moves

-----------------------------------------------------------------------------
(* What the discipline gives. *)

LEMMA OwnedSound ==
    ASSUME OwnerInv
    PROVE  HostSocketsSound /\ QueueSound
<1> USE DEF OwnerInv, Owner
<1>1. HostSocketsSound
  BY DEF KeysSound, HostSocketsSound, Keys
<1>2. ASSUME NEW s \in SockIds, Registered(s)
      PROVE  /\ \A i \in 1 .. Len(Waits(s)) :
                   /\ Keys(s)[Waits(s)[i].fd] = Waits(s)[i].conn
                   /\ conn[Waits(s)[i].conn].lsn[1] = s
             /\ \A i, j \in 1 .. Len(Waits(s)) :
                   Waits(s)[i].fd = Waits(s)[j].fd => i = j
  BY <1>2, QueueType DEF QueueKeys, KeyConns, StatusInv
<1>3. QueueSound
  BY <1>2 DEF QueueSound, Keys, Waits
<1> QED BY <1>1, <1>3

\* A connection behind a descriptor of a process was approved.
ConnsApproved ==
    \A p \in Procs, fd \in Fds : kfd[p][fd] \in Conns => Approved(kfd[p][fd])

AccessInv ==
    /\ SendApproved /\ QueueApproved /\ DialApproved /\ FilesApproved
    /\ ConnsApproved

LEMMA StepConnsApproved ==
    ASSUME OwnerInv, AccessInv, SentKept, Moves, ~AcceptAddFdFails
    PROVE  ConnsApproved'
<1> USE DEF OwnerInv, Owner
<1>1. ASSUME \A p \in Procs, fd \in Fds :
                kfd'[p][fd] \in Conns => kfd'[p][fd] = kfd[p][fd]
      PROVE  ConnsApproved'
  BY <1>1, ApprovedKept DEF AccessInv, ConnsApproved
<1>2. CASE Still
  BY <1>1, <1>2 DEF Still, StillFiles
<1>3. ASSUME NEW s \in SockIds, NEW p \in Procs, NEW newfd \in Fds,
             NEW a \in SockIds, Deliver(s, p, newfd, a)
      PROVE  ConnsApproved'
  <2>1. Registered(s) /\ Waits(s) # <<>>
    BY <1>3, ServedUsed DEF Deliver, StatusInv
  <2> DEFINE c == Head(Waits(s)).conn
  <2>2. c \in Conns /\ hfd[Head(Waits(s)).fd] = c
    BY <2>1, HeadOwned
  <2>3. Approved(c)
    <3>1. Head(Waits(s)) = Waits(s)[1] /\ 1 \in 1 .. Len(Waits(s))
      BY <2>1, QueueType DEF StatusInv
    <3> QED BY <2>2, <3>1 DEF AccessInv, QueueApproved, Queued, Waits
  <2>4. \A q \in Procs, d \in Fds :
           kfd'[q][d] = IF q = p /\ d = newfd THEN c ELSE kfd[q][d]
    BY <1>3, <2>2 DEF Deliver
  <2> HIDE DEF c
  <2> QED BY <2>2, <2>3, <2>4, ApprovedKept DEF AccessInv, ConnsApproved
<1> QED BY <1>1, <1>2, <1>3
        DEF Moves, Drop, Renew, Bind, Start, Turn, Denying, Storing, Queueing,
            Accepting, Arriving

LEMMA StepAccessInv ==
    ASSUME OwnerInv, AccessInv, [Next /\ ~AcceptAddFdFails]_vars
    PROVE  OwnerInv' /\ AccessInv'
<1>1. TypeInv /\ [Next]_vars
  BY DEF OwnerInv, StatusInv
<1>2. OwnerInv' /\ Moves /\ SentKept
  BY <1>1, StepOwnerInv, StepSent
<1>3. SendApproved' /\ QueueApproved' /\ DialApproved' /\ FilesApproved'
  BY <1>1, <1>2, StepSend, StepQueue, StepDial, StepFiles DEF AccessInv
<1>4. ConnsApproved'
  <2>1. CASE ~AcceptAddFdFails
    BY <1>2, <2>1, StepConnsApproved
  <2>2. CASE UNCHANGED vars
    BY <1>2, <2>2, ApprovedKept
       DEF AccessInv, ConnsApproved, vars, containerVars
  <2> QED BY <2>1, <2>2
<1> QED BY <1>2, <1>3, <1>4 DEF AccessInv

\* No step closes a number that is not the handler's.
LEMMA StepForeign ==
    ASSUME OwnerInv, Moves, ~AcceptAddFdFails,
           NEW n \in HostFds, hfd[n] = Foreign
    PROVE  hfd'[n] = Foreign
<1> USE DEF OwnerInv, Owner
<1>0. TypeInv
  BY DEF StatusInv
<1>1. CASE Still
  BY <1>1, NoValues DEF Still, StillHost
<1>2. ASSUME NEW S, Removal(S) PROVE hfd'[n] = Foreign
  <2>1. n \notin HeldFds(S)
    <3> SUFFICES ASSUME NEW s \in S, Keys(s)[n] # None PROVE FALSE
      BY DEF HeldFds, Keys
    <3>1. s \in SockIds /\ Registered(s)
      BY <1>2 DEF Removal
    <3>2. Keys(s)[n] \in Listener \cup Conns /\ hfd[n] = Keys(s)[n]
      BY <1>0, <3>1, StatusType DEF KeysSound
    <3> QED BY <3>2, NoValues
  <2> QED BY <1>2, <2>1 DEF Removal, Removing, Closing
<1>3. ASSUME NEW t \in Procs, Drop(t) PROVE hfd'[n] = Foreign
  BY <1>2, <1>3, DropRemoval
<1>4. ASSUME NEW p \in Procs, NEW fd \in Fds, NEW x \in SockIds \cup {None},
             Renew(p, fd, x)
      PROVE  hfd'[n] = Foreign
  BY <1>2, <1>4, RenewRemoval
<1>5. ASSUME NEW e \in Entries, NEW m \in HostFds, Bind(e, m)
      PROVE  hfd'[n] = Foreign
  BY <1>0, <1>5, NoValues DEF Bind, TypeInv, HostTypeOK
<1>6. ASSUME NEW s \in SockIds, NEW p \in Procs, NEW newfd \in Fds,
             NEW a \in SockIds, Deliver(s, p, newfd, a)
      PROVE  hfd'[n] = Foreign
  <2>1. hfd[Head(Waits(s)).fd] \in Conns
    BY <1>6, ServedUsed, HeadOwned DEF Deliver, StatusInv
  <2> QED BY <1>6, <2>1, NoValues DEF Deliver, Closing
<1>7. ASSUME NEW l \in Listener, Denying(l) PROVE hfd'[n] = Foreign
  <2>1. hfd[g[l].fd] \in Conns
    BY <1>0, <1>7, GoroutineType DEF Denying, Receiving
  <2> QED BY <1>7, <2>1, NoValues DEF Denying, Closing
<1>8. ASSUME NEW l \in Listener, NEW c \in Conns, NEW m \in HostFds,
             Accepting(l, c, m)
      PROVE  hfd'[n] = Foreign
  BY <1>0, <1>8, AcceptingFacts, NoValues
<1> QED BY <1>1, <1>3, <1>4, <1>5, <1>6, <1>7, <1>8
        DEF Moves, Start, Turn, Storing, Queueing, Arriving

-----------------------------------------------------------------------------
(* Where nothing can make ADDFD fail. *)

\* No signal ends a call that waits for the handler, no process is killed, and
\* every process has one thread.
Undisturbed ==
    /\ ~Interrupts /\ ~Kills
    /\ \A t \in Threads : Tgid[t] = t

\* The call in service is still waited for, and who accepts has room for what
\* he gets.
InFlight ==
    /\ cur # None => phase[cur.t] = "received" /\ call[cur.t] = cur.call
    /\ \A t \in Threads :
          phase[t] \in {"notified", "received"} /\ call[t].name = "accept"
             => ~ContainerTableFull(Tgid[t])

LEMMA ServingType ==
    ASSUME TypeInv, cur # None
    PROVE  cur \in Serving /\ cur.t \in Threads
  BY DEF TypeInv, ServingOK, Serving

LEMMA InFlightWorks ==
    ASSUME OwnerInv, InFlight
    PROVE  ~AcceptAddFdFails
<1> SUFFICES ASSUME AcceptAddFdFails PROVE FALSE
  OBVIOUS
<1> DEFINE as == Head(sock[cur.s].acceptedSockets)
<1>1. /\ cur # None /\ cur.call.name = "accept" /\ as = Head(Waits(cur.s))
      /\ Waits(cur.s) # <<>>
      /\ ~AddFdWorks(as.fd) \/ ContainerTableFull(Tgid[cur.t])
  BY DEF AcceptAddFdFails, On, At, Waits
<1>2. cur.s \in SockIds /\ Registered(cur.s) /\ cur.t \in Threads
  BY <1>1, ServedUsed, ServingType DEF OwnerInv, StatusInv
<1>3. hfd[as.fd] \in Conns
  BY <1>1, <1>2, HeadOwned DEF OwnerInv, Owner
<1>4. AddFdWorks(as.fd)
  BY <1>1, <1>3, NoValues DEF AddFdWorks, InFlight
<1> QED BY <1>1, <1>2, <1>4 DEF InFlight

LEMMA StepInFlight ==
    ASSUME Undisturbed, TypeInv, InFlight, [Next]_vars
    PROVE  InFlight'
<1> USE DEF Undisturbed
<1>0. /\ phase \in [Threads -> Phases] /\ call \in [Threads -> Calls \cup {None}]
      /\ kfd \in [Procs -> [Fds -> ContainerFile]]
      /\ \A t \in Threads : t \in Procs
  BY ProcType DEF TypeInv, ThreadOK, TablesOK, Undisturbed
\* Only the table and the call of one thread change.
<1>1. ASSUME NEW t \in Threads,
             \A u \in Threads : u # t =>
                phase'[u] = phase[u] /\ call'[u] = call[u] /\ kfd'[u] = kfd[u],
             phase'[t] \in {"notified", "received"} /\ call'[t].name = "accept"
                => ~ContainerTableFull(t)',
             cur' # None =>
                /\ phase'[cur'.t] = "received" /\ call'[cur'.t] = cur'.call
      PROVE  InFlight'
  BY <1>0, <1>1 DEF InFlight, ContainerTableFull
<1>2. ASSUME UNCHANGED <<phase, call, kfd>>,
             cur' # None => cur # None /\ cur'.t = cur.t /\ cur'.call = cur.call
      PROVE  InFlight'
  BY <1>2 DEF InFlight, ContainerTableFull
<1>3. ASSUME NEW t \in Threads, Receive(t)
      PROVE  InFlight'
  <2>1. cur = None /\ phase[t] = "notified" /\ kfd' = kfd
    BY <1>3 DEF Receive, HandleExit, HandleThreadExit, HandleClose, Lookup,
                Register, RegisterFails, Notified, Serve
  <2>2. CASE HandleExit(t) \/ HandleThreadExit(t) \/ HandleClose(t)
    <3>1. Continue(t) /\ cur' = None
      BY <2>1, <2>2 DEF HandleExit, HandleThreadExit, HandleClose, seccompVars
    <3> QED BY <1>0, <1>1, <2>1, <3>1 DEF Continue, AfterClose
  <2>3. CASE RegisterFails(t)
    BY <1>0, <1>1, <2>1, <2>3 DEF RegisterFails, seccompVars
  <2>4. ASSUME NEW s, Serve(t, s)
        PROVE  InFlight'
    <3>1. /\ cur'.t = t /\ cur'.call = call[t]
          /\ phase' = [phase EXCEPT ![t] = "received"] /\ call' = call
      BY <2>4 DEF Serve
    <3>2. call[t].name = "accept" => ~ContainerTableFull(t)'
      BY <2>1 DEF InFlight, ContainerTableFull
    <3> QED BY <1>0, <1>1, <2>1, <3>1, <3>2
  <2> QED BY <1>3, <2>2, <2>3, <2>4 DEF Receive, Lookup, Register
\* The call in service is answered; its process may get a descriptor.
<1>4. ASSUME cur # None, cur.t \in Threads, Reply,
             \A u \in Threads : u # cur.t => kfd'[u] = kfd[u]
      PROVE  InFlight'
  <2>1. phase[cur.t] = "received" /\ cur' = None
    BY <1>4 DEF InFlight, Reply
  <2>2. /\ phase' = [phase EXCEPT ![cur.t] = "idle"]
        /\ call' = [call EXCEPT ![cur.t] = None]
    BY <1>0, <1>4, <2>1 DEF Reply, Answer
  <2> QED BY <1>0, <1>1, <1>4, <2>1, <2>2
<1>5. CASE HandleCur
  <2>1. cur # None /\ cur.t \in Threads /\ Tgid[cur.t] = cur.t
    BY <1>5, CurType DEF HandleCur, PassThrough, Reregister, Getname, HandleBind,
       BindRefused, BindBadAddr, BindUnknown, BindStart, BindDone, BindEntry,
       BindEntryFails, BindEntryElse, HandleListen, ListenAgain,
       ListenUnexpected, Listen, HandleAccept, AcceptRefused, AcceptDeliver,
       AcceptAddFdFails, HandleConnect, ConnectBadAddr, ConnectRefused,
       OnConnect, ConnectStart, ConnectNextTransport, ConnectFails,
       ConnectEntry, ConnectEntryFails, ConnectRDMA, HandleOptions, Setsockopt,
       SetFlags, Getfl, OnOption, On, At
  <2>2. CASE AcceptDeliver
    <3> DEFINE as == Head(sock[cur.s].acceptedSockets)
    <3> PICK newfd \in Fds, f \in {hfd[as.fd]} :
          kfd' = [kfd EXCEPT ![Tgid[cur.t]][newfd] = f]
      BY <2>2 DEF AcceptDeliver
    <3> QED BY <1>0, <1>4, <2>1, <2>2 DEF AcceptDeliver
  <2>3. CASE \E e \in Entries : ConnectEntry(e)
    <3>1. Reply /\ \A u \in Threads : u # cur.t => kfd'[u] = kfd[u]
      BY <1>0, <2>1, <2>3 DEF ConnectEntry
    <3> QED BY <1>4, <2>1, <3>1
  <2>4. ASSUME Reply, kfd' = kfd PROVE InFlight'
    BY <1>4, <2>1, <2>4
  <2>5. cur \in Serving
    BY <2>1, ServingType
  <2>6. ASSUME UNCHANGED <<phase, call, kfd>>,
               cur'.t = cur.t /\ cur'.call = cur.call
        PROVE  InFlight'
    BY <1>2, <2>1, <2>6
  <2>7. CASE PassThrough \/ Reregister \/ Getname
    BY <2>4, <2>5, <2>6, <2>7
       DEF PassThrough, Reregister, Getname, containerVars, Serving
  <2>8. CASE HandleBind
    <3>1. CASE BindRefused \/ BindBadAddr \/ BindUnknown \/ BindDone
      BY <2>4, <3>1 DEF BindRefused, BindBadAddr, BindUnknown, BindDone
    <3>2. CASE BindStart
      BY <2>5, <2>6, <3>2 DEF BindStart, containerVars, Serving
    <3>3. CASE \E e \in Entries :
                  BindEntry(e) \/ BindEntryFails(e) \/ BindEntryElse(e)
      BY <2>5, <2>6, <3>3 DEF BindEntry, BindEntryFails, BindEntryElse,
                              NextEntry, containerVars, Serving
    <3> QED BY <2>8, <3>1, <3>2, <3>3 DEF HandleBind
  <2>9. CASE HandleListen
    BY <2>4, <2>9 DEF HandleListen, ListenAgain, ListenUnexpected, Listen
  <2>10. CASE AcceptRefused \/ AcceptAddFdFails
    BY <2>4, <2>10 DEF AcceptRefused, AcceptAddFdFails
  <2>11. CASE ConnectBadAddr \/ ConnectRefused \/ ConnectFails
    BY <2>4, <2>11 DEF ConnectBadAddr, ConnectRefused, ConnectFails
  <2>12. CASE ConnectStart \/ ConnectNextTransport
    BY <2>5, <2>6, <2>12
       DEF ConnectStart, ConnectNextTransport, NextEntry, containerVars, Serving
  <2>13. CASE \E e \in Entries : ConnectEntryFails(e) \/ ConnectRDMA(e)
    BY <2>4, <2>5, <2>6, <2>13
       DEF ConnectEntryFails, ConnectRDMA, NextEntry, containerVars, Serving
  <2>14. CASE HandleOptions
    BY <2>4, <2>14 DEF HandleOptions, Setsockopt, SetFlags, Getfl
  <2> QED BY <1>5, <2>2, <2>3, <2>7, <2>8, <2>9, <2>10, <2>11, <2>12, <2>13,
             <2>14
          DEF HandleCur, HandleAccept, HandleConnect
<1>6. ASSUME NEW l \in Listener, TransportAccept(l) PROVE InFlight'
  <2>1. UNCHANGED <<phase, call, kfd, cur>>
    BY <1>6 DEF TransportAccept, GCheck, GEnter, GAccept, GAcceptFails,
                GRecvFails, GEnd, GDeny, GStore, GSend, containerVars
  <2> QED BY <1>2, <2>1
\* The threads' own steps are not those of a call in service.
<1>7. ASSUME NEW t \in Threads, phase[t] # "received", cur' = cur,
             \A u \in Threads : u # t =>
                phase'[u] = phase[u] /\ call'[u] = call[u] /\ kfd'[u] = kfd[u],
             phase'[t] \in {"notified", "received"} /\ call'[t].name = "accept"
                => ~ContainerTableFull(t)'
      PROVE  InFlight'
  <2>1. cur # None => cur.t \in Threads /\ cur.t # t
    BY <1>7, ServingType DEF InFlight
  <2> QED BY <1>1, <1>7, <2>1 DEF InFlight
<1>8. ASSUME NEW t \in Threads, KernelReturn(t) PROVE InFlight'
  <2>1. phase[t] = "continued" /\ cur' = cur
    BY <1>8 DEF KernelReturn, KernelClose, KernelExit, seccompVars
  <2>2. CASE KernelClose(t)
    <3> DEFINE fd == call[t].fd
    <3>1. /\ kfd' = [kfd EXCEPT ![t][fd] = Closed]
          /\ phase' = [phase EXCEPT ![t] = "idle"]
          /\ call' = [call EXCEPT ![t] = None]
      BY <2>2 DEF KernelClose
    <3> HIDE DEF fd
    <3> QED BY <1>0, <1>7, <2>1, <3>1
  <2>3. CASE KernelExit(t)
    <3>1. Tgid[t] = t /\ \A u \in Threads : Tgid[u] = t <=> u = t
      OBVIOUS
    <3>2. EndProcess(t)
      BY <2>3, <3>1 DEF KernelExit
    <3>3. \A u \in Threads :
             /\ phase'[u] = IF u = t THEN "exited" ELSE phase[u]
             /\ call'[u] = IF u = t THEN None ELSE call[u]
      BY <3>1, <3>2 DEF EndProcess
    <3>4. \A u \in Threads : u # t => kfd'[u] = kfd[u]
      BY <1>0, <3>2 DEF EndProcess
    <3> QED BY <1>7, <2>1, <3>3, <3>4
  <2> QED BY <1>8, <2>2, <2>3 DEF KernelReturn
<1>9. ASSUME NEW t \in Threads, User(t) PROVE InFlight'
  <2>1. ASSUME NEW c \in Calls, MakeCall(t, c) PROVE InFlight'
    <3>1. /\ phase[t] = "idle" /\ kfd' = kfd /\ cur' = cur
          /\ call' = [call EXCEPT ![t] = c]
          /\ phase' = [phase EXCEPT ![t] = "notified"]
          /\ c.name = "accept" => ~ContainerTableFull(t)
      BY <1>9, <2>1 DEF User, MakeCall, seccompVars
    <3> QED BY <1>0, <1>7, <3>1 DEF ContainerTableFull
  <2>2. CASE Open(t) \/ SilentClose(t)
    BY <1>0, <1>7, <1>9, <2>2 DEF User, Open, SilentClose, seccompVars
  <2> QED BY <1>9, <2>1, <2>2 DEF User, Interrupt, Kill
<1>10. CASE Peers \/ UNCHANGED vars
  BY <1>2, <1>10 DEF Peers, vars, containerVars, seccompVars
<1> QED BY <1>3, <1>5, <1>6, <1>8, <1>9, <1>10 DEF Next

-----------------------------------------------------------------------------
(* The results. *)

\* Where nothing can make it fail, ADDFD does not.
LEMMA AddFdNeverFails ==
    ASSUME Undisturbed
    PROVE  Spec => AddFdSpec
<1> DEFINE Inv == OwnerInv /\ InFlight
<1>1. Init => Inv
  <2>1. Init => InFlight
    BY DEF Init, ContainerInit, InFlight
  <2> QED BY <2>1, InitOwner
<1>2. Inv /\ [Next]_vars => [Next /\ ~AcceptAddFdFails]_vars
  BY InFlightWorks
<1>3. Inv /\ [Next]_vars => Inv'
  BY <1>2, StepOwnerInv, StepInFlight DEF OwnerInv, StatusInv
<1> QED BY <1>1, <1>2, <1>3, PTL DEF Spec, AddFdSpec

\* While no ADDFD fails, hostSockets maps a number of the daemon to what that
\* number refers to, and what waits in acceptedSockets of a registered socket
\* came through its own listeners, is recorded, and waits once: for any number
\* of processes, threads, sockets, destinations and peers, whatever is
\* interrupted, killed, closed unreported, fails on the host, or is copied
\* because a reported fcntl names a number of the daemon.
THEOREM NumbersStayOwn ==
    AddFdSpec => [](HostSocketsSound /\ QueueSound)
<1>1. Init => OwnerInv
  BY InitOwner
<1>2. OwnerInv /\ [Next /\ ~AcceptAddFdFails]_vars => OwnerInv'
  BY StepOwnerInv
<1>3. OwnerInv => HostSocketsSound /\ QueueSound
  BY OwnedSound
<1> QED BY <1>1, <1>2, <1>3, PTL DEF AddFdSpec

\* While no ADDFD fails access control is complete: a descriptor of a process refers to a
\* connection only if the server list allows the address its peer sent whole,
\* and to a dialled address only if the client list allows it.
THEOREM DeliveriesApproved ==
    AddFdSpec => []DeliveredApproved
<1> DEFINE Inv == OwnerInv /\ AccessInv
<1>1. Init => Inv
  <2>1. Init => ConnsApproved
    BY NoValues DEF Init, ContainerInit, ConnsApproved
  <2> QED BY <2>1, InitOwner, InitAccess DEF AccessInv
<1>2. Inv /\ [Next /\ ~AcceptAddFdFails]_vars => Inv'
  BY StepAccessInv
<1>3. Inv => DeliveredApproved
  BY DEF AccessInv, ConnsApproved, FilesApproved, DeliveredApproved
<1> QED BY <1>1, <1>2, <1>3, PTL DEF AddFdSpec

\* While no ADDFD fails no step closes a number that another part of the daemon has.
THEOREM ForeignLeftAlone ==
    AddFdSpec => ForeignSafe
<1>1. Init => OwnerInv
  BY InitOwner
<1>2. OwnerInv /\ [Next /\ ~AcceptAddFdFails]_vars => OwnerInv'
  BY StepOwnerInv
<1>3. OwnerInv /\ [Next /\ ~AcceptAddFdFails]_vars
         => [\A n \in HostFds : hfd[n] = Foreign => hfd'[n] = Foreign]_vars
  BY StepOwnerInv, StepForeign
<1> QED BY <1>1, <1>2, <1>3, PTL DEF AddFdSpec, ForeignSafe

\* While no ADDFD fails a removed socket leaves open at most one connection for each of its
\* goroutines: the one it stored after removeSocket walked the map.  A copy that
\* fcntl made of such a connection would be a second, so there must be none.
THEOREM LeftoversBounded ==
    ASSUME NumbersApart, Finite
    PROVE  AddFdSpec => []RemovedHoldsLittle
<1> DEFINE Inv == OwnerInv /\ LeftHeld
<1>1. Init => Inv
  <2> SUFFICES ASSUME Init PROVE LeftHeld
    BY InitOwner
  <2>1. ASSUME NEW s \in SockIds PROVE Held(s) = {}
    BY <2>1, NoValues DEF Init, HostInit, Held
  <2> QED BY <2>1, Counted, FS_EmptySet DEF LeftHeld
<1>2. ASSUME Inv, [Next /\ ~AcceptAddFdFails]_vars
      PROVE  Inv'
  <2>1. OwnerInv' /\ Moves
    BY <1>2, StepOwnerInv
  <2>2. CASE ~AcceptAddFdFails
    BY <1>2, <2>1, <2>2, StepLeft
  <2>3. CASE UNCHANGED vars
    BY <1>2, <2>1, <2>3
       DEF LeftHeld, Held, Stored, Registered, Keys, vars, hostVars, seccompVars
  <2> QED BY <1>2, <2>1, <2>2, <2>3
<1>3. Inv => RemovedHoldsLittle
  <2> SUFFICES ASSUME Inv, NEW s \in SockIds, ~Registered(s)
               PROVE  Cardinality(Held(s))
                         <= Cardinality({e \in Entries : g[<<s, e>>].pc # "none"})
    BY DEF RemovedHoldsLittle, Held, Keys
  <2> DEFINE E == {e \in Entries : g[<<s, e>>].pc # "none"}
  <2>1. Stored(s) \subseteq E /\ E \subseteq Entries
    BY DEF Stored
  <2> HIDE DEF E
  <2>2. IsFiniteSet(E)
    BY <2>1, FS_Subset DEF Finite
  <2>3. Cardinality(Stored(s)) <= Cardinality(E) /\ Cardinality(E) \in Nat
    BY <2>1, <2>2, FS_Subset, FS_CardinalityType
  <2>4. Cardinality(Held(s)) <= Cardinality(Stored(s))
    BY DEF LeftHeld
  <2> QED BY <2>3, <2>4, Counted DEF E
<1> QED BY <1>1, <1>2, <1>3, PTL DEF AddFdSpec

-----------------------------------------------------------------------------
(* What becomes of a connection: Seccomp implements Delivery. *)

\* A connection is in one place of what registered sockets keep: under one
\* number of their maps, or awaited by one goroutine.
Claimed ==
    /\ \A r, s \in SockIds, m, n \in HostFds :
          /\ Registered(r) /\ Registered(s)
          /\ Keys(s)[n] \in Conns /\ Keys(r)[m] = Keys(s)[n]
          => m = n
    /\ \A l \in Listener : g[l].pc = "recv" =>
          /\ \A s \in SockIds, n \in HostFds :
                Registered(s) => Keys(s)[n] # g[l].conn
          /\ \A k \in Listener :
                g[k].pc = "recv" /\ g[k].conn = g[l].conn => k = l

\* Who listens is in the map of a registered socket.
ListensOwn ==
    \A l \in listening :
        Registered(l[1]) /\ \E n \in HostFds : Keys(l[1])[n] = l

\* Who waits in a backlog waits for a socket that listens.
BacklogHeard ==
    \A c \in Conns : conn[c].st = "backlog" => conn[c].lsn \in listening

\* Who is not known yet was not dialled.
Dialled == \A c \in Conns : conn[c].st = "new" <=> conn[c].lsn = None

DeliveryInv ==
    /\ OwnerInv /\ AccessInv
    /\ Claimed /\ ListensOwn /\ BacklogHeard /\ Dialled

\* Who keeps what: a new key is that of a connection received, and a new
\* reception one from the backlog.
LEMMA KeptClaimed ==
    ASSUME OwnerInv, Claimed,
           \A s \in SockIds : Registered(s)' => Registered(s) \/ Blank(s),
           \A s \in SockIds, n \in HostFds :
              Keys(s)'[n] \in Conns => Keys(s)'[n] = Keys(s)[n],
           \A l \in Listener :
              g'[l].pc = "recv" => g[l].pc = "recv" /\ g'[l].conn = g[l].conn
    PROVE  Claimed'
<1>1. \A l \in Listener : g[l].pc = "recv" => g[l].conn \in Conns
  BY GoroutineType DEF OwnerInv, StatusInv
<1>2. \A s \in SockIds, n \in HostFds :
         Registered(s)' /\ Keys(s)'[n] \in Conns =>
            Registered(s) /\ Keys(s)[n] = Keys(s)'[n]
  BY NoValues DEF Blank
<1> QED BY <1>1, <1>2 DEF Claimed

LEMMA StepClaimed ==
    ASSUME OwnerInv, Claimed, Moves, ~AcceptAddFdFails
    PROVE  Claimed'
<1> USE DEF OwnerInv, StatusInv
<1>1. ASSUME UNCHANGED sockets, NEW s \in SockIds PROVE Registered(s)' = Registered(s)
  BY <1>1 DEF Registered
<1>2. CASE Still
  <2>1. /\ UNCHANGED <<sockets, g>>
        /\ \A s \in SockIds : Keys(s)' = Keys(s)
    BY <1>2 DEF Still, StillStatus
  <2> QED BY <1>1, <2>1, KeptClaimed
<1>3. ASSUME NEW S, Removal(S) PROVE Claimed'
  BY <1>3, KeptClaimed DEF Removal
<1>4. ASSUME NEW e \in Entries, NEW n \in HostFds, Bind(e, n) PROVE Claimed'
  <2>1. cur.s \in SockIds /\ <<cur.s, e>> \in Listener
    BY <1>4, ServedUsed DEF Bind, Listener
  <2>2. UNCHANGED <<sockets, g>>
    BY <1>4 DEF Bind
  <2>3. ASSUME NEW s \in SockIds, NEW m \in HostFds, Keys(s)'[m] \in Conns
        PROVE  Keys(s)'[m] = Keys(s)[m]
    <3>1. Keys(s)' = IF s = cur.s THEN [Keys(s) EXCEPT ![n] = <<cur.s, e>>]
                     ELSE Keys(s)
      BY <1>4 DEF Bind
    <3> QED BY <2>1, <2>3, <3>1, StatusType, NoValues
  <2> QED BY <1>1, <2>2, <2>3, KeptClaimed
<1>5. ASSUME NEW up \in SUBSET Listener, Start(up) PROVE Claimed'
  BY <1>1, <1>5, KeptClaimed DEF Start, NoGoroutine
<1>6. ASSUME NEW s \in SockIds, NEW p \in Procs, NEW newfd \in Fds,
             NEW a \in SockIds, Deliver(s, p, newfd, a)
      PROVE  Claimed'
  <2>1. ASSUME NEW r \in SockIds, NEW n \in HostFds, Keys(r)'[n] \in Conns
        PROVE  Keys(r)'[n] = Keys(r)[n]
    <3>1. Keys(r)' = IF r = s THEN [Keys(r) EXCEPT ![Head(Waits(s)).fd] = None]
                     ELSE Keys(r)
      BY <1>6 DEF Deliver
    <3> QED BY <2>1, <3>1, StatusType, NoValues
  <2>2. ASSUME NEW r \in SockIds, Registered(r)' PROVE Registered(r) \/ Blank(r)
    <3>1. /\ \/ sockets[p][newfd] = a
             \/ sockets[p][newfd] = None /\ sock[a].state = "Unused"
          /\ \A q \in Procs, d \in Fds :
                sockets'[q][d] = IF q = p /\ d = newfd THEN a ELSE sockets[q][d]
      BY <1>6 DEF Deliver, Fresh
    <3> QED BY <2>2, <3>1, FreshBlank DEF Registered
  <2>3. UNCHANGED g
    BY <1>6 DEF Deliver
  <2> QED BY <2>1, <2>2, <2>3, KeptClaimed
<1>7. ASSUME NEW l \in Listener, Turn(l) PROVE Claimed'
  <2>1. /\ Elsewhere(l) /\ g'[l].pc # "recv" /\ UNCHANGED <<sockets, sock>>
    BY <1>7, TurnFacts DEF Turn
  <2> QED BY <1>1, <2>1, KeptClaimed DEF Elsewhere, Keys
<1>8. ASSUME NEW l \in Listener, Denying(l) PROVE Claimed'
  <2>1. /\ Elsewhere(l) /\ g'[l].pc # "recv" /\ UNCHANGED <<sockets, sock>>
    BY <1>8, GotoFacts DEF Denying
  <2> QED BY <1>1, <2>1, KeptClaimed DEF Elsewhere, Keys
<1>9. ASSUME NEW l \in Listener, Storing(l) PROVE Claimed'
  <2> DEFINE c == g[l].conn
             n == g[l].fd
             s == l[1]
  <2>1. /\ Elsewhere(l) /\ g[l].pc = "recv" /\ g'[l].pc = "send"
        /\ c \in Conns /\ n \in HostFds /\ UNCHANGED sockets
    BY <1>9, StoringFacts DEF Storing
  <2>2. \A r \in SockIds, m \in HostFds :
           Keys(r)'[m] = IF r = s /\ m = n THEN c ELSE Keys(r)[m]
    <3>1. \A r \in SockIds :
             Keys(r)' = IF r = s THEN [Keys(r) EXCEPT ![n] = c] ELSE Keys(r)
      BY <1>9 DEF Storing
    <3> HIDE DEF c, n, s
    <3> QED BY <2>1, <3>1, StatusType
  <2>3. \A r \in SockIds, m \in HostFds : Registered(r) => Keys(r)[m] # c
    BY <2>1 DEF Claimed
  <2>4. ASSUME NEW k \in Listener, g'[k].pc = "recv"
        PROVE  /\ g'[k] = g[k] /\ g[k].pc = "recv" /\ g[k].conn # c
    BY <2>1, <2>4 DEF Claimed, Elsewhere
  <2> HIDE DEF c, n, s
  <2>5. \A r \in SockIds : Registered(r)' = Registered(r)
    BY <1>1, <2>1
  <2>6. \A r, o \in SockIds, i, j \in HostFds :
           /\ Registered(r) /\ Registered(o)
           /\ Keys(o)'[j] \in Conns /\ Keys(r)'[i] = Keys(o)'[j]
           => i = j
    BY <2>2, <2>3 DEF Claimed
  <2>7. \A k \in Listener : g'[k].pc = "recv" =>
           /\ \A r \in SockIds, m \in HostFds :
                 Registered(r) => Keys(r)'[m] # g'[k].conn
           /\ \A j \in Listener :
                 g'[j].pc = "recv" /\ g'[j].conn = g'[k].conn => j = k
    BY <2>2, <2>4 DEF Claimed
  <2> QED BY <2>5, <2>6, <2>7 DEF Claimed
<1>10. ASSUME NEW l \in Listener, Queueing(l) PROVE Claimed'
  <2>1. GGoto(l, "check") /\ UNCHANGED sockets
    BY <1>10 DEF Queueing
  <2>3. Elsewhere(l) /\ g'[l].pc = "check"
    BY <2>1, GotoFacts
  <2>2. \A s \in SockIds : Keys(s)' = Keys(s)
    BY <1>10 DEF Queueing
  <2> QED BY <1>1, <2>1, <2>2, <2>3, KeptClaimed DEF Elsewhere
<1>11. ASSUME NEW l \in Listener, NEW c \in Conns, NEW n \in HostFds,
              Accepting(l, c, n)
       PROVE  Claimed'
  <2>0. UNCHANGED <<sockets, sock>>
    BY <1>11 DEF Accepting
  <2>1. /\ Elsewhere(l) /\ g'[l].pc = "recv" /\ g'[l].conn = c
        /\ conn[c].st = "backlog"
    BY <1>11, AcceptingFacts
  <2>2. \A s \in SockIds, m \in HostFds : Keys(s)[m] # c
    BY <2>1 DEF Owner, KeyConns
  <2>3. ASSUME NEW k \in Listener, g[k].pc = "recv" PROVE g[k].conn # c
    BY <2>1, <2>3, GoroutineType DEF Owner, Receiving, HeldAccepted
  <2>4. \A s : Keys(s)' = Keys(s)
    BY <2>0 DEF Keys
  <2> QED BY <1>1, <2>0, <2>1, <2>2, <2>3, <2>4 DEF Claimed, Elsewhere
<1>12. ASSUME NEW c \in Conns, NEW l \in Listener, Arriving(c, l) PROVE Claimed'
  BY <1>1, <1>12, KeptClaimed DEF Arriving, Keys
<1> QED BY <1>2, <1>3, <1>4, <1>5, <1>6, <1>7, <1>8, <1>9, <1>10, <1>11, <1>12,
           DropRemoval, RenewRemoval DEF Moves

-----------------------------------------------------------------------------
\* Who listens after a step: a listener that listened, or one that the socket in
\* service has in its map, none of whose numbers is closed; and whoever waits in
\* a backlog waits for one of them.
Heeding ==
    /\ \A l \in listening' :
          /\ \/ l \in listening
             \/ cur # None /\ l \in HeldListeners({cur.s})
          /\ \A n \in HostFds : hfd[n] = l => hfd'[n] # Free
    /\ \A c \in Conns : conn'[c].st = "backlog" => conn'[c].lsn \in listening'

\* The numbers of listeners stay open.
LEMMA KeptHeeding ==
    ASSUME TypeInv, BacklogHeard, UNCHANGED <<listening, conn>>,
           \A n \in HostFds : hfd[n] \in Listener => hfd'[n] = hfd[n]
    PROVE  Heeding
<1>1. \A l \in listening : l \in Listener /\ l # Free
  BY NoValues DEF TypeInv, HostTypeOK
<1> QED BY <1>1 DEF Heeding, BacklogHeard

LEMMA ClosingHeeding ==
    ASSUME TypeInv, BacklogHeard, NEW N \in SUBSET HostFds, CloseFds(N)
    PROVE  Heeding
<1> DEFINE dead == {l \in listening : \E n \in N : hfd[n] = l}
<1>1. /\ \A n \in HostFds : hfd'[n] = IF n \in N THEN Free ELSE hfd[n]
      /\ listening' = listening \ dead
      /\ \A c \in Conns :
            conn'[c] = IF conn[c].st = "backlog" /\ conn[c].lsn \in dead
                       THEN [conn[c] EXCEPT !.st = "reset"] ELSE conn[c]
  BY DEF CloseFds
<1>2. \A l \in listening : l \in Listener /\ l # Free
  BY NoValues DEF TypeInv, HostTypeOK
<1>3. ASSUME NEW l \in listening'
      PROVE  l \in listening /\ \A n \in HostFds : hfd[n] = l => hfd'[n] # Free
  BY <1>1, <1>2
<1>4. ASSUME NEW c \in Conns, conn'[c].st = "backlog"
      PROVE  conn'[c].lsn \in listening'
  <2>1. conn[c] \in Connection
    BY DEF TypeInv, HostTypeOK
  <2>2. CASE conn[c].st = "backlog" /\ conn[c].lsn \in dead
    <3>1. conn'[c].st = "reset"
      BY <1>1, <2>1, <2>2 DEF Connection
    <3> QED BY <1>4, <3>1
  <2>3. CASE ~(conn[c].st = "backlog" /\ conn[c].lsn \in dead)
    <3>1. conn'[c] = conn[c]
      BY <1>1, <2>3
    <3> QED BY <1>1, <1>4, <2>3, <3>1 DEF BacklogHeard
  <2> QED BY <2>2, <2>3
<1> QED BY <1>3, <1>4 DEF Heeding

LEMMA StepHeeding ==
    ASSUME TypeInv, Slots, BacklogHeard, [Next]_vars
    PROVE  Heeding
<1>1. ASSUME NEW S, Remove(S) PROVE Heeding
  <2>1. HeldFds(S) \in SUBSET HostFds
    BY DEF HeldFds
  <2> QED BY <1>1, <2>1, ClosingHeeding DEF Remove
<1>2. CASE UNCHANGED hostVars
  BY <1>2, KeptHeeding DEF hostVars
<1>3. CASE QuietCall
  <2>1. \A n \in HostFds : hfd[n] \in Listener => hfd'[n] = hfd[n]
    BY <1>3, QuietHost, NoValues DEF StillHost
  <2>2. UNCHANGED <<listening, conn>>
    BY <1>3
       DEF QuietCall, PassThrough, Getname, HandleConnect, ConnectBadAddr,
           ConnectRefused, ConnectStart, ConnectNextTransport, ConnectFails,
           ConnectEntry, ConnectEntryFails, ConnectRDMA, HandleOptions,
           Setsockopt, SetFlags, Getfl, BindRefused, BindBadAddr, BindUnknown,
           BindStart, BindDone, BindEntryFails, BindEntryElse, ListenAgain,
           ListenUnexpected, AcceptRefused, hostVars
  <2> QED BY <2>1, <2>2, KeptHeeding
<1>4. ASSUME NEW t \in Threads, Receive(t) \/ KernelReturn(t) \/ User(t)
      PROVE  Heeding
  BY <1>1, <1>2, <1>4
     DEF Receive, HandleExit, HandleThreadExit, HandleClose, Lookup, Register,
         RegisterFails, KernelReturn, User
<1>5. CASE Reregister
  BY <1>1, <1>5 DEF Reregister
<1>6. ASSUME NEW e \in Entries, BindEntry(e) PROVE Heeding
  <2>1. /\ UNCHANGED <<listening, conn>>
        /\ \E n \in HostFds : NextFd(n) /\ hfd' = [hfd EXCEPT ![n] = <<cur.s, e>>]
    BY <1>6 DEF BindEntry
  <2>2. \A n \in HostFds : hfd[n] \in Listener => hfd'[n] = hfd[n]
    BY <2>1, NoValues DEF NextFd, TypeInv, HostTypeOK
  <2> QED BY <2>1, <2>2, KeptHeeding
<1>7. CASE Listen
  <2>1. /\ UNCHANGED <<hfd, conn>> /\ cur # None /\ listening \subseteq listening'
        /\ \A l \in listening' : l \in listening \/ l \in HeldListeners({cur.s})
    BY <1>7 DEF Listen, On, At
  <2>2. \A l \in listening' : l \in Listener /\ l # Free
    BY <2>1, NoValues DEF TypeInv, HostTypeOK, HeldListeners
  <2> QED BY <2>1, <2>2 DEF Heeding, BacklogHeard
<1>8. CASE AcceptDeliver \/ AcceptAddFdFails
  <2>1. cur # None /\ Waits(cur.s) # <<>> /\ CloseFds({Head(Waits(cur.s)).fd})
    BY <1>8 DEF AcceptDeliver, AcceptAddFdFails, CloseAccepted, On, At, Waits
  <2>2. cur.s \in SockIds /\ Waits(cur.s) \in Seq(Accepted)
    BY <2>1, ServedUsed, QueueType
  <2>3. Head(Waits(cur.s)) \in Accepted
    BY <2>1, <2>2
  <2> QED BY <2>1, <2>3, ClosingHeeding DEF Accepted
<1>9. ASSUME NEW k \in Listener, TransportAccept(k) PROVE Heeding
  <2>1. CASE GDeny(k)
    <3>1. g[k].fd \in HostFds
      BY <2>1, GoroutineType DEF GDeny, Received, AtG
    <3> QED BY <2>1, <3>1, ClosingHeeding DEF GDeny
  <2>2. CASE GAccept(k)
    <3> PICK c \in Conns, n \in HostFds :
          /\ conn[c].st = "backlog" /\ NextFd(n)
          /\ hfd' = [hfd EXCEPT ![n] = c]
          /\ conn' = [conn EXCEPT ![c].st = "accepted"]
      BY <2>2 DEF GAccept
    <3>1. UNCHANGED listening
      BY <2>2 DEF GAccept
    <3>2. \A m \in HostFds : hfd[m] \in Listener => hfd'[m] = hfd[m]
      BY NoValues DEF NextFd, TypeInv, HostTypeOK
    <3>3. \A d \in Conns : conn'[d].st = "backlog" => conn'[d] = conn[d]
      BY DEF TypeInv, HostTypeOK, Connection
    <3>4. \A l \in listening : l \in Listener /\ l # Free
      BY NoValues DEF TypeInv, HostTypeOK
    <3> QED BY <3>1, <3>2, <3>3, <3>4 DEF Heeding, BacklogHeard
  <2> QED BY <1>2, <1>9, <2>1, <2>2
          DEF TransportAccept, GCheck, GEnter, GAcceptFails, GRecvFails,
              GEnd, GStore, GSend
<1>10. CASE HostNext
  <2>1. ASSUME NEW c \in Conns, NEW e \in Entries, PeerConnect(c, e) PROVE Heeding
    <3> DEFINE k == <<addr[e], e>>
    <3>1. /\ UNCHANGED <<hfd, listening>> /\ k \in listening
          /\ conn' = [conn EXCEPT ![c].st = "backlog", ![c].lsn = k]
      BY <2>1 DEF PeerConnect
    <3> HIDE DEF k
    <3>2. \A d \in Conns : conn'[d] = conn[d] \/ conn'[d].lsn = k
      BY <3>1 DEF TypeInv, HostTypeOK, Connection
    <3>3. \A l \in listening : l \in Listener /\ l # Free
      BY NoValues DEF TypeInv, HostTypeOK
    <3>4. ASSUME NEW d \in Conns, conn'[d].st = "backlog"
          PROVE  conn'[d].lsn \in listening'
      <4>1. CASE conn'[d] = conn[d]
        BY <3>1, <3>4, <4>1 DEF BacklogHeard
      <4>2. CASE conn'[d].lsn = k
        BY <3>1, <4>2
      <4> QED BY <3>2, <4>1, <4>2
    <3>5. \A l \in listening' :
             l \in listening /\ \A n \in HostFds : hfd[n] = l => hfd'[n] # Free
      BY <3>1, <3>3
    <3> QED BY <3>4, <3>5 DEF Heeding
  <2>2. ASSUME NEW c \in Conns, PeerSend(c) \/ PeerFail(c) PROVE Heeding
    <3>1. UNCHANGED <<hfd, listening>>
      BY <2>2 DEF PeerSend, PeerFail
    <3>2. \A d \in Conns : conn'[d].st = conn[d].st /\ conn'[d].lsn = conn[d].lsn
      BY <2>2 DEF PeerSend, PeerFail, TypeInv, HostTypeOK, Connection
    <3>3. \A l \in listening : l \in Listener /\ l # Free
      BY NoValues DEF TypeInv, HostTypeOK
    <3> QED BY <3>1, <3>2, <3>3 DEF Heeding, BacklogHeard
  <2>3. CASE ForeignOpen
    <3>1. \A m \in HostFds : hfd[m] \in Listener => hfd'[m] = hfd[m]
      BY <2>3, NoValues DEF ForeignOpen, NextFd, TypeInv, HostTypeOK
    <3> QED BY <2>3, <3>1, KeptHeeding DEF ForeignOpen
  <2> QED BY <1>10, <2>1, <2>2, <2>3 DEF HostNext
<1>11. CASE UNCHANGED vars
  BY <1>2, <1>11 DEF vars
<1> QED BY <1>3, <1>4, <1>5, <1>6, <1>7, <1>8, <1>9, <1>10, <1>11
        DEF Next, Peers, HandleCur, HandleAccept, HandleBind, HandleListen, QuietCall

LEMMA HeardOwn ==
    ASSUME OwnerInv, ListensOwn, Heeding, NEW l \in listening'
    PROVE  /\ l \in Listener /\ l[1] \in SockIds /\ Registered(l[1])
           /\ \E n \in HostFds :
                 Keys(l[1])[n] = l /\ hfd[n] = l /\ hfd'[n] # Free
<1> USE DEF OwnerInv, StatusInv, Owner
<1>1. l \in Listener
  BY DEF Heeding, HeldListeners, TypeInv, HostTypeOK
<1>2. l[1] \in SockIds
  BY <1>1, ListenerParts
<1>3. Registered(l[1]) /\ \E n \in HostFds : Keys(l[1])[n] = l
  <2>1. CASE l \in listening
    BY <2>1 DEF ListensOwn
  <2>2. CASE cur # None /\ l \in HeldListeners({cur.s})
    <3>1. cur.s \in SockIds /\ Registered(cur.s)
      BY <2>2, ServedUsed
    <3> PICK n \in HostFds : Keys(cur.s)[n] = l
      BY <2>2 DEF HeldListeners, Keys
    <3>2. l[1] = cur.s
      BY <1>1, <3>1 DEF ListenersOwn
    <3> QED BY <3>1, <3>2
  <2> QED BY <2>1, <2>2 DEF Heeding
<1>4. PICK n \in HostFds : Keys(l[1])[n] = l
  BY <1>3
<1>5. hfd[n] = l
  BY <1>1, <1>2, <1>3, <1>4, NoValues DEF KeysSound
<1>6. hfd'[n] # Free
  BY <1>5 DEF Heeding
<1> QED BY <1>1, <1>2, <1>3, <1>4, <1>5, <1>6

LEMMA StepListensOwn ==
    ASSUME OwnerInv, ListensOwn, Heeding, Moves, ~AcceptAddFdFails
    PROVE  ListensOwn'
<1> USE DEF OwnerInv, StatusInv, Owner
<1> SUFFICES ASSUME NEW l \in listening'
             PROVE  Registered(l[1])' /\ \E n \in HostFds : Keys(l[1])'[n] = l
  BY DEF ListensOwn
<1>1. l \in Listener /\ l[1] \in SockIds /\ Registered(l[1])
  BY HeardOwn
<1> PICK n \in HostFds : Keys(l[1])[n] = l /\ hfd[n] = l /\ hfd'[n] # Free
  BY HeardOwn
<1> PICK o \in SockIds : o = l[1]
  BY <1>1
<1>2. l # Free /\ l # None /\ l \notin Conns
  BY <1>1, NoValues
<1> SUFFICES Registered(o)' /\ Keys(o)'[n] = l
  OBVIOUS
<1>3. Registered(o) /\ Keys(o)[n] = l
  BY <1>1
<1>4. ASSUME UNCHANGED sockets PROVE Registered(o)'
  BY <1>3, <1>4 DEF Registered
<1>5. ASSUME NEW S, Removal(S) PROVE Registered(o)' /\ Keys(o)'[n] = l
  <2>1. n \notin HeldFds(S)
    BY <1>5 DEF Removal, Removing, Closing
  <2>2. o \notin S
    BY <1>2, <1>3, <2>1 DEF HeldFds, Keys
  <2> QED BY <1>3, <1>5, <2>2 DEF Removal
<1>6. ASSUME NEW e \in Entries, NEW m \in HostFds, Bind(e, m)
      PROVE  Registered(o)' /\ Keys(o)'[n] = l
  <2>1. n # m /\ UNCHANGED sockets
    BY <1>2, <1>6 DEF Bind
  <2>2. Keys(o)' = IF o = cur.s THEN [Keys(o) EXCEPT ![m] = <<cur.s, e>>]
                   ELSE Keys(o)
    BY <1>6 DEF Bind
  <2> QED BY <1>3, <1>4, <2>1, <2>2, StatusType
<1>7. ASSUME NEW s \in SockIds, NEW p \in Procs, NEW newfd \in Fds,
             NEW a \in SockIds, Deliver(s, p, newfd, a)
      PROVE  Registered(o)' /\ Keys(o)'[n] = l
  <2> DEFINE m == Head(Waits(s)).fd
  <2>1. Registered(s) /\ Waits(s) # <<>>
    BY <1>7, ServedUsed DEF Deliver
  <2>2. m \in HostFds /\ hfd[m] \in Conns
    BY <2>1, HeadOwned
  <2>3. Keys(o)' = IF o = s THEN [Keys(o) EXCEPT ![m] = None] ELSE Keys(o)
    BY <1>7 DEF Deliver
  <2> HIDE DEF m
  <2>4. n # m
    BY <1>2, <2>2
  <2>5. Keys(o)'[n] = l
    BY <1>3, <2>2, <2>3, <2>4, StatusType
  <2>6. \A q \in Procs, d \in Fds :
           sockets[q][d] = o => sockets'[q][d] = o
    BY <1>7, NoValues DEF Deliver
  <2> QED BY <1>3, <2>5, <2>6 DEF Registered
<1>8. ASSUME NEW k \in Listener, Storing(k)
      PROVE  Registered(o)' /\ Keys(o)'[n] = l
  <2> DEFINE m == g[k].fd
             c == g[k].conn
             s == k[1]
  <2>1. m \in HostFds /\ g[k].pc = "recv" /\ UNCHANGED sockets
    BY <1>8, StoringFacts DEF Storing
  <2>2. Keys(o)' = IF o = s THEN [Keys(o) EXCEPT ![m] = c] ELSE Keys(o)
    BY <1>8 DEF Storing
  <2>3. Keys(o)[m] = None
    BY <1>3, <2>1 DEF Receiving
  <2> HIDE DEF m, c, s
  <2> QED BY <1>2, <1>3, <1>4, <2>1, <2>2, <2>3, StatusType
<1>9. ASSUME UNCHANGED sockets, Keys(o)' = Keys(o)
      PROVE  Registered(o)' /\ Keys(o)'[n] = l
  BY <1>3, <1>4, <1>9
<1>10. CASE Still
  BY <1>9, <1>10 DEF Still, StillStatus
<1>11. ASSUME NEW up \in SUBSET Listener, Start(up)
       PROVE  Registered(o)' /\ Keys(o)'[n] = l
  BY <1>9, <1>11 DEF Start
<1>12. ASSUME NEW k \in Listener, Turn(k) \/ Denying(k) \/ Queueing(k)
       PROVE  Registered(o)' /\ Keys(o)'[n] = l
  BY <1>9, <1>12 DEF Turn, Denying, Queueing, Keys
<1>13. ASSUME NEW k \in Listener, NEW c \in Conns, NEW m \in HostFds,
              Accepting(k, c, m)
       PROVE  Registered(o)' /\ Keys(o)'[n] = l
  BY <1>9, <1>13 DEF Accepting, Keys
<1>14. ASSUME NEW c \in Conns, NEW k \in Listener, Arriving(c, k)
       PROVE  Registered(o)' /\ Keys(o)'[n] = l
  BY <1>9, <1>14 DEF Arriving, Keys
<1> QED BY <1>5, <1>6, <1>7, <1>8, <1>10, <1>11, <1>12, <1>13, <1>14,
           DropRemoval, RenewRemoval DEF Moves

LEMMA StepDialled ==
    ASSUME TypeInv, Dialled, Moves, ~AcceptAddFdFails
    PROVE  Dialled'
<1>1. ASSUME \A c \in Conns : /\ conn'[c].lsn = conn[c].lsn
                              /\ conn'[c].st = "new" <=> conn[c].st = "new"
      PROVE  Dialled'
  BY <1>1 DEF Dialled
<1>2. ASSUME NEW N, Closing(N) PROVE Dialled'
  BY <1>1, <1>2 DEF Closing
<1>3. CASE Still
  BY <1>1, <1>3 DEF Still, StillHost, ConnsKept
<1>4. ASSUME NEW t \in Procs, Drop(t) PROVE Dialled'
  BY <1>2, <1>4 DEF Drop, Removing
<1>5. ASSUME NEW p \in Procs, NEW fd \in Fds, NEW x \in SockIds \cup {None},
             Renew(p, fd, x)
      PROVE  Dialled'
  BY <1>2, <1>5 DEF Renew, Removing
<1>6. ASSUME NEW s \in SockIds, NEW p \in Procs, NEW newfd \in Fds,
             NEW a \in SockIds, Deliver(s, p, newfd, a)
      PROVE  Dialled'
  BY <1>2, <1>6 DEF Deliver
<1>7. ASSUME UNCHANGED conn PROVE Dialled'
  BY <1>1, <1>7
<1>8. ASSUME NEW l \in Listener, Turn(l) \/ Denying(l) \/ Storing(l) \/ Queueing(l)
      PROVE  Dialled'
  BY <1>2, <1>7, <1>8 DEF Turn, Denying, Storing, Queueing
<1>9. ASSUME NEW l \in Listener, NEW c \in Conns, NEW n \in HostFds,
             Accepting(l, c, n)
      PROVE  Dialled'
  BY <1>1, <1>9, AcceptingFacts
<1>10. ASSUME NEW c \in Conns, NEW l \in Listener, Arriving(c, l) PROVE Dialled'
  BY <1>10, ArrivingFacts, NoValues DEF Dialled
<1> QED BY <1>3, <1>4, <1>5, <1>6, <1>7, <1>8, <1>9, <1>10
        DEF Moves, Bind, Start

LEMMA StepDelivery ==
    ASSUME DeliveryInv, [Next /\ ~AcceptAddFdFails]_vars
    PROVE  DeliveryInv' /\ Moves /\ ~AcceptAddFdFails
<1> USE DEF DeliveryInv
<1>1. TypeInv /\ Slots /\ [Next]_vars
  BY DEF OwnerInv, StatusInv
<1>2. OwnerInv' /\ AccessInv' /\ Moves
  BY StepAccessInv, StepOwnerInv
<1>3. ~AcceptAddFdFails
  BY StutterStill DEF OwnerInv
<1>4. Heeding
  BY <1>1, StepHeeding
<1>5. Claimed' /\ ListensOwn' /\ Dialled'
  BY <1>1, <1>2, <1>3, <1>4, StepClaimed, StepListensOwn, StepDialled
<1>6. BacklogHeard'
  BY <1>4 DEF Heeding, BacklogHeard
<1> QED BY <1>2, <1>3, <1>5, <1>6

LEMMA InitDelivery ==
    ASSUME Init
    PROVE  DeliveryInv
<1>1. OwnerInv /\ SendApproved /\ QueueApproved /\ DialApproved /\ FilesApproved
  BY InitOwner, InitAccess
<1>2. ConnsApproved
  BY NoValues DEF Init, ContainerInit, ConnsApproved
<1>3. \A l \in Listener : g[l].pc = "none"
  BY DEF Init, NoGoroutine
<1>4. Claimed
  <2>1. \A s \in SockIds, n \in HostFds : Keys(s)[n] = None
    BY DEF Init, NewStatus, Keys
  <2> QED BY <1>3, <2>1, NoValues DEF Claimed
<1>5. ListensOwn /\ BacklogHeard /\ Dialled
  BY DEF Init, HostInit, ListensOwn, BacklogHeard, Dialled
<1> QED BY <1>1, <1>2, <1>4, <1>5 DEF DeliveryInv, AccessInv

-----------------------------------------------------------------------------
(* The lines and the stages. *)

LEMMA LineDomain ==
    ASSUME TypeInv, NEW s \in SockIds
    PROVE  /\ Registered(s) =>
                 /\ DOMAIN Line(s) = 1 .. Len(Waits(s))
                 /\ \A i \in 1 .. Len(Waits(s)) : Line(s)[i] = Waits(s)[i].conn
           /\ ~Registered(s) \/ Waits(s) = <<>> => Line(s) = <<>> /\ DOMAIN Line(s) = {}
<1>1. DOMAIN Waits(s) = 1 .. Len(Waits(s))
  BY QueueType
<1>2. DOMAIN <<>> = {}
  OBVIOUS
<1>3. Line(s) = IF Registered(s)
                THEN [i \in DOMAIN Waits(s) |-> Waits(s)[i].conn] ELSE <<>>
  BY DEF Line, Waits
<1>4. ASSUME Waits(s) = <<>> PROVE [i \in DOMAIN Waits(s) |-> Waits(s)[i].conn] = <<>>
  BY <1>2, <1>4
<1> QED BY <1>1, <1>2, <1>3, <1>4

\* What is in a line is in the map of its socket.
LEMMA InLineKey ==
    ASSUME OwnerInv, NEW s \in SockIds, NEW c \in Conns,
           NEW i \in DOMAIN Line(s), Line(s)[i] = c
    PROVE  /\ Registered(s) /\ i \in 1 .. Len(Waits(s)) /\ Waits(s)[i].conn = c
           /\ Waits(s)[i].fd \in HostFds /\ Keys(s)[Waits(s)[i].fd] = c
           /\ conn[c].st = "accepted" /\ conn[c].lsn[1] = s
<1> USE DEF OwnerInv, StatusInv, Owner
<1>1. Registered(s)
  BY LineDomain
<1>2. i \in 1 .. Len(Waits(s)) /\ Waits(s)[i].conn = c
  BY <1>1, LineDomain
<1>3. Waits(s)[i].fd \in HostFds /\ Keys(s)[Waits(s)[i].fd] = c
  BY <1>1, <1>2, QueueType DEF QueueKeys
<1> QED BY <1>1, <1>2, <1>3 DEF KeyConns

\* The goroutine l has the connection c.
Having(l, c) == g[l].pc \in {"recv", "send"} /\ g[l].conn = c

LEMMA InHandKey ==
    ASSUME OwnerInv, NEW l \in Listener, NEW c \in Conns, Having(l, c),
           Registered(l[1])
    PROVE  /\ conn[c].st = "accepted" /\ conn[c].lsn[1] = l[1]
           /\ g[l].pc = "send" => Keys(l[1])[g[l].fd] = c
<1> USE DEF OwnerInv, StatusInv, Owner, Having
<1>1. CASE g[l].pc = "recv"
  <2>1. g[l].fd \in HostFds /\ hfd[g[l].fd] = c /\ conn[c].lsn[1] = l[1]
    BY <1>1, GoroutineType DEF Receiving, Attached
  <2> QED BY <1>1, <2>1 DEF HeldAccepted
<1>2. CASE g[l].pc = "send"
  <2>1. g[l].fd \in HostFds /\ Keys(l[1])[g[l].fd] = c /\ l[1] \in SockIds
    BY <1>2, GoroutineType DEF Sending
  <2> QED BY <2>1 DEF KeyConns
<1> QED BY <1>1, <1>2

\* A connection that a goroutine receives is in no line and with no other one.
LEMMA ReceivedAlone ==
    ASSUME OwnerInv, Claimed, NEW l \in Listener, g[l].pc = "recv",
           NEW c \in Conns, g[l].conn = c
    PROVE  /\ ~InLine(c)
           /\ \A k \in Listener : Having(k, c) /\ Registered(k[1]) => k = l
<1>1. ~InLine(c)
  BY InLineKey DEF InLine, Claimed
<1>2. ASSUME NEW k \in Listener, Having(k, c), Registered(k[1]) PROVE k = l
  <2>1. CASE g[k].pc = "recv"
    BY <1>2, <2>1 DEF Claimed, Having
  <2>2. CASE g[k].pc = "send"
    <3>1. Keys(k[1])[g[k].fd] = c /\ k[1] \in SockIds /\ g[k].fd \in HostFds
      BY <1>2, <2>2, InHandKey, GoroutineType DEF OwnerInv, StatusInv
    <3> QED BY <1>2, <3>1 DEF Claimed
  <2> QED BY <1>2, <2>1, <2>2 DEF Having
<1> QED BY <1>1, <1>2

\* The same of one that it is about to queue.
LEMMA SentAlone ==
    ASSUME OwnerInv, Claimed, NEW l \in Listener, g[l].pc = "send",
           Registered(l[1]), NEW c \in Conns, g[l].conn = c
    PROVE  /\ ~InLine(c)
           /\ \A k \in Listener : Having(k, c) /\ Registered(k[1]) => k = l
<1> USE DEF OwnerInv, StatusInv, Owner
<1>1. /\ Keys(l[1])[g[l].fd] = c /\ l[1] \in SockIds /\ g[l].fd \in HostFds
      /\ conn[c].lsn[1] = l[1]
  BY InHandKey, GoroutineType DEF Having
<1>2. ASSUME NEW s \in SockIds, NEW i \in DOMAIN Line(s), Line(s)[i] = c PROVE FALSE
  <2>1. /\ s = l[1] /\ i \in 1 .. Len(Waits(s)) /\ Waits(s)[i].fd \in HostFds
        /\ Registered(s) /\ Keys(s)[Waits(s)[i].fd] = c
    BY <1>1, <1>2, InLineKey
  <2>2. Waits(s)[i].fd = g[l].fd
    BY <1>1, <2>1 DEF Claimed
  <2> QED BY <2>1, <2>2 DEF Sending
<1>3. ASSUME NEW k \in Listener, Having(k, c), Registered(k[1]) PROVE k = l
  <2>1. CASE g[k].pc = "recv"
    <3>1. g[k].conn = c
      BY <1>3 DEF Having
    <3> QED BY <1>1, <2>1, <3>1 DEF Claimed
  <2>2. CASE g[k].pc = "send"
    <3>1. /\ Keys(k[1])[g[k].fd] = c /\ k[1] = l[1] /\ g[k].fd \in HostFds
      BY <1>1, <1>3, <2>2, InHandKey, GoroutineType
    <3>2. g[k].fd = g[l].fd
      BY <1>1, <3>1 DEF Claimed
    <3> QED BY <2>2, <3>1, <3>2 DEF Sending
  <2> QED BY <1>3, <2>1, <2>2 DEF Having
<1> QED BY <1>2, <1>3 DEF InLine

LEMMA HandSame ==
    ASSUME NEW c \in Conns
    PROVE  InHand(c) <=> \E l \in Listener : Having(l, c) /\ Registered(l[1])
  BY DEF InHand, Having

\* A connection that is where it was is at the stage at which it was.
LEMMA StageSame ==
    ASSUME NEW c \in Conns, conn'[c].st = conn[c].st,
           InLine(c)' <=> InLine(c), InHand(c)' <=> InHand(c)
    PROVE  Stage(c)' = Stage(c)
  BY DEF Stage

-----------------------------------------------------------------------------
(* What the moves are to the promise. *)

LEMMA OpenRegistered ==
    ASSUME NEW s \in SockIds
    PROVE  Promise!Open(s) <=> Registered(s)
  BY DEF Promise!Open, Has, Registered

LEMMA RegisteredSame ==
    ASSUME UNCHANGED sockets
    PROVE  Has' = Has /\ \A s : Registered(s)' = Registered(s)
  BY DEF Has, Registered

LEMMA DialledSame ==
    ASSUME \A c \in Conns : conn'[c].lsn = conn[c].lsn
    PROVE  DialledTo' = DialledTo
  BY DEF DialledTo

LEMMA LinesSame ==
    ASSUME \A s \in SockIds : Line(s)' = Line(s)
    PROVE  /\ [s \in SockIds |-> Line(s)]' = [s \in SockIds |-> Line(s)]
           /\ \A c \in Conns : InLine(c)' <=> InLine(c)
  BY DEF InLine

\* Nothing happens to the connections.
LEMMA QuietOthers ==
    ASSUME UNCHANGED sockets,
           \A c \in Conns : conn'[c].st = conn[c].st /\ conn'[c].lsn = conn[c].lsn,
           \A s \in SockIds : Registered(s) => Waits(s)' = Waits(s),
           \A l \in Listener, c \in Conns :
              Registered(l[1]) => (Having(l, c)' <=> Having(l, c))
    PROVE  Promise!Others
<1>1. Has' = Has /\ \A s : Registered(s)' = Registered(s)
  BY RegisteredSame
<1>2. DialledTo' = DialledTo
  BY DialledSame
<1>3. \A s \in SockIds : Line(s)' = Line(s)
  BY <1>1 DEF Line, Waits
<1>4. \A c \in Conns : InHand(c)' <=> InHand(c)
  BY <1>1, HandSame DEF InHand, Having
<1>5. \A c \in Conns : Stage(c)' = Stage(c)
  BY <1>3, <1>4, LinesSame, StageSame
<1> QED BY <1>1, <1>2, <1>3, <1>5, LinesSame DEF Promise!Others

LEMMA NamedKept ==
    ASSUME SentKept
    PROVE  {c \in Conns : conn[c].snd = "sent"} \subseteq
              {c \in Conns : conn'[c].snd = "sent"}
  BY DEF SentKept

LEMMA HoldsKept ==
    ASSUME \A p \in Procs, fd \in Fds :
              kfd'[p][fd] \in Conns => kfd'[p][fd] = kfd[p][fd]
    PROVE  Holds' \subseteq Holds
  BY DEF Holds

\* Closing a connection leaves the others where they were.
LEMMA ClosingConn ==
    ASSUME TypeInv, TypeInv', NEW n \in HostFds, hfd[n] \in Conns, Closing({n})
    PROVE  \A c \in Conns : conn'[c].st = conn[c].st /\ conn'[c].lsn = conn[c].lsn
<1> SUFFICES ASSUME NEW c \in Conns
             PROVE  conn'[c].st = conn[c].st /\ conn'[c].lsn = conn[c].lsn
  OBVIOUS
<1>1. conn[c] \in Connection /\ conn'[c] \in Connection
  BY DEF TypeInv, HostTypeOK
<1>2. hfd[n] # conn[c].lsn
  BY <1>1, NoValues DEF Connection
<1> QED BY <1>1, <1>2 DEF Closing, Connection

\* A goroutine gives up the connection that it received.
LEMMA GivenUp ==
    ASSUME OwnerInv, Claimed, NEW l \in Listener, g[l].pc = "recv",
           NEW c \in Conns, g[l].conn = c,
           g'[l].pc \notin {"recv", "send"}, Elsewhere(l),
           UNCHANGED <<sockets, sock>>,
           \A d \in Conns : conn'[d].st = conn[d].st /\ conn'[d].lsn = conn[d].lsn,
           c \notin {d \in Conns : conn[d].snd = "sent"}
                    \cap {d \in Conns : SAE[ConnVAddr[d]]}
    PROVE  Promise!Others \/ Promise!Refuse(c)
<1> USE DEF OwnerInv, StatusInv, Owner
<1>1. \A k \in Listener, d \in Conns : k # l => (Having(k, d)' <=> Having(k, d))
  BY DEF Elsewhere, Having
<1>2. CASE ~Registered(l[1])
  <2>1. \A s \in SockIds : Waits(s)' = Waits(s)
    BY DEF Waits
  <2> QED BY <1>1, <1>2, <2>1, QuietOthers
<1>3. CASE Registered(l[1])
  <2>1. Has' = Has /\ DialledTo' = DialledTo /\ \A s : Registered(s)' = Registered(s)
    BY RegisteredSame, DialledSame
  <2>2. \A s \in SockIds : Line(s)' = Line(s)
    BY <2>1 DEF Line
  <2>3. ASSUME NEW d \in Conns
        PROVE  InHand(d)' <=> InHand(d) /\ d # c
    <3>1. d = c => ~InHand(d)'
      BY <1>1, <2>1, ReceivedAlone DEF InHand, Having
    <3>2. d # c => (InHand(d)' <=> InHand(d))
      BY <1>1, <2>1 DEF InHand, Having
    <3> QED BY <3>1, <3>2
  <2>4. InHand(c) /\ ~InLine(c) /\ conn[c].st = "accepted"
    <3>1. Having(l, c)
      BY DEF Having
    <3> QED BY <1>3, <3>1, ReceivedAlone, InHandKey, HandSame
  <2>5. Stage(c) = "taken" /\ Stage(c)' = "done"
    BY <2>2, <2>3, <2>4, LinesSame DEF Stage
  <2>6. \A d \in Conns : d # c => Stage(d)' = Stage(d)
    BY <2>2, <2>3, LinesSame, StageSame
  <2>7. Promise!Move({c}, "taken", "done")
    BY <2>5, <2>6 DEF Promise!Move
  <2> QED BY <2>1, <2>2, <2>7, LinesSame DEF Promise!Refuse
<1> QED BY <1>2, <1>3

LEMMA TurnPromise ==
    ASSUME DeliveryInv, NEW l \in Listener, Turn(l)
    PROVE  Promise!Others \/ \E c \in Conns : Promise!Refuse(c)
<1> USE DEF DeliveryInv, OwnerInv, StatusInv
<1>1. /\ Elsewhere(l) /\ g[l].pc \in {"check", "enter", "blocked", "recv"}
      /\ g'[l].pc \in {"enter", "blocked", "done"}
      /\ UNCHANGED <<conn, sockets, sock>>
  BY TurnFacts
<1>2. CASE g[l].pc = "recv"
  <2>1. Failing(l)
    BY <1>2 DEF Turn
  <2>2. conn[g[l].conn].snd # "sent" /\ g[l].conn \in Conns
    BY <1>2, <2>1, GoroutineType DEF Failing, GAcceptFails, GRecvFails, AtG
  <2> QED BY <1>1, <1>2, <2>2, GivenUp
<1>3. CASE g[l].pc # "recv"
  <2>1. \A k \in Listener, c \in Conns : Having(k, c)' <=> Having(k, c)
    BY <1>1, <1>3 DEF Elsewhere, Having
  <2>2. \A s \in SockIds : Waits(s)' = Waits(s)
    BY <1>1 DEF Waits
  <2> QED BY <1>1, <2>1, <2>2, QuietOthers
<1> QED BY <1>2, <1>3

LEMMA DenyingPromise ==
    ASSUME DeliveryInv, TypeInv', NEW l \in Listener, Denying(l)
    PROVE  Promise!Others \/ \E c \in Conns : Promise!Refuse(c)
<1> USE DEF DeliveryInv, OwnerInv, StatusInv, Owner
<1>1. /\ Elsewhere(l) /\ g'[l].pc = "check" /\ g[l].pc = "recv"
      /\ UNCHANGED <<sockets, sock>>
  BY GotoFacts DEF Denying
<1>2. g[l].conn \in Conns /\ g[l].fd \in HostFds /\ hfd[g[l].fd] = g[l].conn
  BY <1>1, GoroutineType DEF Receiving
<1>3. \A c \in Conns : conn'[c].st = conn[c].st /\ conn'[c].lsn = conn[c].lsn
  BY <1>2, ClosingConn DEF Denying
<1>4. ~SAE[ConnVAddr[g[l].conn]]
  BY DEF Denying, Allowed
<1> QED BY <1>1, <1>2, <1>3, <1>4, GivenUp

LEMMA StoringPromise ==
    ASSUME DeliveryInv, NEW l \in Listener, Storing(l)
    PROVE  Promise!Others
<1>1. /\ Elsewhere(l) /\ g[l].pc = "recv" /\ g'[l].pc = "send"
      /\ g'[l].conn = g[l].conn
  BY StoringFacts DEF DeliveryInv, OwnerInv, StatusInv
<1>2. \A k \in Listener, c \in Conns : Having(k, c)' <=> Having(k, c)
  BY <1>1 DEF Elsewhere, Having
<1>3. /\ UNCHANGED <<sockets, conn>>
      /\ \A s \in SockIds : Waits(s)' = Waits(s)
  BY DEF Storing
<1> QED BY <1>2, <1>3, QuietOthers

\* A sequence of accepted connections with one more: their names with one more.
LEMMA NamesAppend ==
    ASSUME NEW q \in Seq(Accepted), NEW x \in Accepted
    PROVE  [i \in DOMAIN Append(q, x) |-> Append(q, x)[i].conn]
              = Append([i \in DOMAIN q |-> q[i].conn], x.conn)
<1> DEFINE n == [i \in 1 .. Len(q) |-> q[i].conn]
           f == [i \in 1 .. Len(q) + 1 |-> Append(q, x)[i].conn]
<1>1. /\ Len(Append(q, x)) = Len(q) + 1 /\ Len(q) \in Nat
      /\ \A i \in 1 .. Len(q) : Append(q, x)[i] = q[i]
      /\ Append(q, x)[Len(q) + 1] = x
  BY AppendFacts
<1>2. ASSUME NEW i \in 1 .. Len(q) PROVE q[i].conn \in Conns
  <2>1. q[i] \in Accepted
    OBVIOUS
  <2> QED BY <2>1 DEF Accepted
<1>3. x.conn \in Conns
  BY DEF Accepted
<1>4. n \in Seq(Conns) /\ Len(n) = Len(q)
  BY <1>1, <1>2
<1> HIDE DEF n, f
<1>5. /\ Append(n, x.conn) \in Seq(Conns) /\ Len(Append(n, x.conn)) = Len(q) + 1
      /\ \A i \in 1 .. Len(q) : Append(n, x.conn)[i] = n[i]
      /\ Append(n, x.conn)[Len(q) + 1] = x.conn
  BY <1>1, <1>3, <1>4, AppendProperties
<1>6. f \in Seq(Conns) /\ Len(f) = Len(q) + 1
  BY <1>1, <1>2, <1>3 DEF f
<1>7. \A i \in 1 .. Len(q) + 1 : f[i] = Append(n, x.conn)[i]
  BY <1>1, <1>5 DEF f, n
<1>8. f = Append(n, x.conn)
  BY <1>5, <1>6, <1>7, SeqEqual
<1>9. DOMAIN q = 1 .. Len(q) /\ DOMAIN Append(q, x) = 1 .. Len(q) + 1
  BY <1>1
<1> QED BY <1>8, <1>9 DEF f, n

LEMMA QueueingPromise ==
    ASSUME DeliveryInv, NEW l \in Listener, Queueing(l)
    PROVE  Promise!Others \/ \E c \in Conns : Promise!Admit(c)
<1> USE DEF DeliveryInv, OwnerInv, StatusInv, Owner
<1> DEFINE x == [conn |-> g[l].conn, fd |-> g[l].fd]
<1>1. /\ g[l].pc = "send" /\ GGoto(l, "check") /\ UNCHANGED <<conn, sockets>>
      /\ \A s \in SockIds :
            Waits(s)' = IF s = l[1] THEN Append(Waits(s), x) ELSE Waits(s)
  BY DEF Queueing
<1>2. Elsewhere(l) /\ g'[l].pc = "check"
  BY <1>1, GotoFacts
<1>3. \A k \in Listener, d \in Conns : k # l => (Having(k, d)' <=> Having(k, d))
  BY <1>2 DEF Elsewhere, Having
<1>4. CASE ~Registered(l[1])
  BY <1>1, <1>3, <1>4, QuietOthers
<1>5. CASE Registered(l[1])
  <2> PICK o \in SockIds : o = l[1]
    BY GoroutineType
  <2> PICK c \in Conns : c = g[l].conn
    BY <1>1, GoroutineType
  <2>1. x \in Accepted /\ x.conn = c
    BY <1>1, GoroutineType DEF Accepted
  <2> HIDE DEF x
  <2>2. Has' = Has /\ DialledTo' = DialledTo /\ \A s : Registered(s)' = Registered(s)
    BY <1>1, RegisteredSame, DialledSame
  <2>3. Line(o)' = Append(Line(o), c)
    <3>1. Waits(o)' = Append(Waits(o), x) /\ Waits(o) \in Seq(Accepted)
      BY <1>1, QueueType
    <3>2. [i \in DOMAIN Append(Waits(o), x) |-> Append(Waits(o), x)[i].conn]
             = Append([i \in DOMAIN Waits(o) |-> Waits(o)[i].conn], c)
      BY <2>1, <3>1, NamesAppend
    <3>3. /\ Line(o) = [i \in DOMAIN Waits(o) |-> Waits(o)[i].conn]
          /\ Line(o)' = [i \in DOMAIN Waits(o)' |-> Waits(o)'[i].conn]
      BY <1>5, <2>2 DEF Line, Waits
    <3> QED BY <3>1, <3>2, <3>3
  <2>4. \A s \in SockIds : s # o => Line(s)' = Line(s)
    BY <1>1, <2>2 DEF Line, Waits
  <2>5. /\ conn[c].st = "accepted" /\ conn[c].lsn[1] = o /\ conn[c].lsn # None
        /\ ~InLine(c) /\ InHand(c)
        /\ \A k \in Listener : Having(k, c) /\ Registered(k[1]) => k = l
    <3>1. Having(l, c)
      BY <1>1 DEF Having
    <3>2. conn[c].st = "accepted" /\ conn[c].lsn[1] = o
      BY <1>5, <3>1, InHandKey
    <3> QED BY <1>1, <1>5, <3>1, <3>2, SentAlone, HandSame DEF Dialled
  <2>6. \A d \in Conns : InLine(d)' <=> InLine(d) \/ d = c
    <3>1. ASSUME NEW d \in Conns
          PROVE  (\E i \in DOMAIN Line(o)' : Line(o)'[i] = d)
                    <=> (\E i \in DOMAIN Line(o) : Line(o)[i] = d) \/ d = c
      <4> DEFINE q == Line(o)
      <4>1. q \in Seq(Conns)
        <5>1. /\ q = [i \in 1 .. Len(Waits(o)) |-> Waits(o)[i].conn]
              /\ Len(Waits(o)) \in Nat
          BY <1>5, QueueType DEF Line, Waits
        <5>2. \A i \in 1 .. Len(Waits(o)) : Waits(o)[i].conn \in Conns
          BY QueueType
        <5> QED BY <5>1, <5>2
      <4>2. Line(o)' = Append(q, c)
        BY <2>3
      <4> HIDE DEF q
      <4>3. /\ Len(q) \in Nat /\ DOMAIN q = 1 .. Len(q)
            /\ DOMAIN Append(q, c) = 1 .. Len(q) + 1
            /\ \A i \in 1 .. Len(q) : Append(q, c)[i] = q[i]
            /\ Append(q, c)[Len(q) + 1] = c
        BY <4>1, AppendProperties
      <4>4. (\E i \in DOMAIN Append(q, c) : Append(q, c)[i] = d)
               <=> (\E i \in DOMAIN q : q[i] = d) \/ d = c
        BY <4>3
      <4> QED BY <4>2, <4>4 DEF q
    <3> QED BY <2>4, <3>1 DEF InLine
  <2>7. \A d \in Conns : d # c => (InHand(d)' <=> InHand(d))
    <3>1. ASSUME NEW d \in Conns, d # c PROVE ~Having(l, d) /\ ~Having(l, d)'
      BY <1>2, <3>1 DEF Having
    <3> QED BY <1>3, <2>2, <3>1 DEF InHand, Having
  <2>8. Stage(c) = "taken" /\ Stage(c)' = "queued"
    BY <1>1, <2>5, <2>6 DEF Stage
  <2>9. \A d \in Conns : d # c => Stage(d)' = Stage(d)
    BY <1>1, <2>6, <2>7, StageSame
  <2>10. Promise!Move({c}, "taken", "queued")
    BY <2>8, <2>9 DEF Promise!Move
  <2>11. SAE[ConnVAddr[c]] /\ conn[c].snd = "sent"
    BY <1>1 DEF AccessInv, SendApproved, Approved
  <2>12. DialledTo[c] = o
    BY <2>5 DEF DialledTo
  <2>13. [s \in SockIds |-> Line(s)]' =
            [[s \in SockIds |-> Line(s)] EXCEPT ![DialledTo[c]] = Append(@, c)]
    BY <2>3, <2>4, <2>12
  <2>14. c \in {d \in Conns : conn[d].snd = "sent"}
               \cap {d \in Conns : SAE[ConnVAddr[d]]}
    BY <2>11
  <2>15. Promise!Admit(c)
    BY <2>2, <2>10, <2>13, <2>14 DEF Promise!Admit
  <2> QED BY <2>15
<1> QED BY <1>4, <1>5

LEMMA AcceptingPromise ==
    ASSUME DeliveryInv, NEW l \in Listener, NEW c \in Conns, NEW n \in HostFds,
           Accepting(l, c, n)
    PROVE  Promise!Take(c) \/ Promise!Stray(c)
<1> USE DEF DeliveryInv, OwnerInv, StatusInv, Owner
<1>1. /\ Elsewhere(l) /\ g[l].pc = "blocked" /\ g'[l].pc = "recv" /\ g'[l].conn = c
      /\ conn[c].st = "backlog" /\ conn[c].lsn = g[l].file
      /\ conn'[c].st = "accepted"
      /\ \A d \in Conns : conn'[d].lsn = conn[d].lsn
      /\ \A d \in Conns : d # c => conn'[d].st = conn[d].st
  BY AcceptingFacts
<1>2. UNCHANGED <<sockets, sock>>
  BY DEF Accepting
<1>3. Has' = Has /\ DialledTo' = DialledTo /\ \A s : Registered(s)' = Registered(s)
  BY <1>1, <1>2, RegisteredSame, DialledSame
<1>4. \A s \in SockIds : Line(s)' = Line(s)
  BY <1>2, <1>3 DEF Line
<1>5. ~InLine(c) /\ \A k \in Listener : Having(k, c) => ~Registered(k[1])
  BY <1>1, InLineKey, InHandKey DEF InLine
<1>6. \A k \in Listener, d \in Conns :
         Having(k, d)' <=> \/ k # l /\ Having(k, d)
                           \/ k = l /\ d = c
  BY <1>1 DEF Elsewhere, Having
<1>7. \A d \in Conns : d # c => (InHand(d)' <=> InHand(d))
  <2>1. \A d \in Conns : ~Having(l, d)
    BY <1>1 DEF Having
  <2> QED BY <1>3, <1>6, <2>1 DEF InHand, Having
<1>8. InHand(c)' <=> Registered(l[1])
  BY <1>3, <1>5, <1>6 DEF InHand, Having
<1>9. \A d \in Conns : d # c => Stage(d)' = Stage(d)
  BY <1>1, <1>4, <1>7, LinesSame, StageSame
<1>10. Stage(c) = "waiting"
  BY <1>1 DEF Stage
<1>11. ~InLine(c)'
  BY <1>4, <1>5, LinesSame
<1>12. CASE Registered(l[1])
  <2>1. conn[c].lsn = l /\ l[1] \in SockIds
    BY <1>1, <1>12, GoroutineType DEF Attached
  <2>2. DialledTo[c] = l[1]
    BY <2>1, NoValues DEF DialledTo
  <2>3. Promise!Open(DialledTo[c])
    BY <1>12, <2>1, <2>2, OpenRegistered
  <2>4. Stage(c)' = "taken"
    BY <1>1, <1>8, <1>11, <1>12 DEF Stage
  <2>5. Promise!Move({c}, "waiting", "taken")
    BY <1>9, <1>10, <2>4 DEF Promise!Move
  <2> QED BY <1>3, <1>4, <2>3, <2>5, LinesSame DEF Promise!Take
<1>13. CASE ~Registered(l[1])
  <2>1. Stage(c)' = "done"
    BY <1>1, <1>8, <1>11, <1>13 DEF Stage
  <2>2. Promise!Move({c}, "waiting", "done")
    BY <1>9, <1>10, <2>1 DEF Promise!Move
  <2> QED BY <1>3, <1>4, <2>2, LinesSame DEF Promise!Stray
<1> QED BY <1>12, <1>13

LEMMA ArrivingPromise ==
    ASSUME DeliveryInv, NEW c \in Conns, NEW l \in Listener, Arriving(c, l)
    PROVE  Promise!Arrive(c, l[1])
<1> USE DEF DeliveryInv, OwnerInv, StatusInv
<1>1. /\ conn[c].st = "new" /\ conn'[c].st = "backlog" /\ conn'[c].lsn = l
      /\ \A d \in Conns : d # c => conn'[d] = conn[d]
  BY ArrivingFacts
<1>2. l \in listening /\ UNCHANGED <<sockets, sock, g>>
  BY DEF Arriving
<1>3. Has' = Has /\ \A s : Registered(s)' = Registered(s)
  BY <1>2, RegisteredSame
<1>4. \A s \in SockIds : Line(s)' = Line(s)
  BY <1>2, <1>3 DEF Line
<1>5. \A d \in Conns : d # c => Stage(d)' = Stage(d)
  <2>1. \A d \in Conns : InHand(d)' <=> InHand(d)
    BY <1>2, <1>3 DEF InHand
  <2> QED BY <1>1, <1>4, <2>1, LinesSame, StageSame
<1>6. Stage(c) = "away" /\ Stage(c)' = "waiting"
  BY <1>1 DEF Stage
<1>7. Promise!Move({c}, "away", "waiting")
  BY <1>5, <1>6 DEF Promise!Move
<1>8. l[1] \in SockIds /\ Promise!Open(l[1])
  BY <1>2, ListenerParts, OpenRegistered DEF ListensOwn
<1>9. DialledTo' = [DialledTo EXCEPT ![c] = l[1]]
  BY <1>1, NoValues DEF DialledTo
<1> QED BY <1>3, <1>4, <1>7, <1>8, <1>9, LinesSame DEF Promise!Arrive

\* A removal takes from the promise what belongs to the sockets that end.
LEMMA RemovalPromise ==
    ASSUME DeliveryInv, DeliveryInv', Heeding, NEW S, Removal(S)
    PROVE  S \in SUBSET SockIds /\ Promise!Change(S)
<1> USE DEF DeliveryInv, OwnerInv, StatusInv, Owner
<1>1. /\ S \in SUBSET SockIds /\ UNCHANGED g
      /\ \A s \in SockIds :
            /\ Registered(s)' => s \notin S /\ (Registered(s) \/ Blank(s))
            /\ Registered(s) /\ s \notin S => Registered(s)'
            /\ s \in S => Registered(s)
            /\ Waits(s)' = Waits(s)
      /\ \A p \in Procs, fd \in Fds :
            /\ sockets[p][fd] \in SockIds \ S => sockets'[p][fd] = sockets[p][fd]
            /\ sockets'[p][fd] \in SockIds =>
                  \/ sockets'[p][fd] = sockets[p][fd]
                  \/ ~Registered(sockets'[p][fd])
  BY DEF Removal
<1>2. /\ \A n \in HostFds : hfd'[n] = IF n \in HeldFds(S) THEN Free ELSE hfd[n]
      /\ \A c \in Conns :
            /\ conn'[c].lsn = conn[c].lsn
            /\ conn'[c].st = "accepted" <=> conn[c].st = "accepted"
            /\ conn'[c].st = "new" <=> conn[c].st = "new"
            /\ conn'[c].st = "backlog" => conn[c].st = "backlog"
            /\ conn[c].st = "backlog" =>
                  \/ conn'[c].st = "backlog"
                  \/ \E n \in HeldFds(S) : hfd[n] = conn[c].lsn
  BY DEF Removal, Removing, Closing
<1>3. DialledTo' = DialledTo
  BY <1>2, DialledSame
<1>4. \A x \in Has : x \in Has' <=> x[2] \notin S
  <2> SUFFICES ASSUME NEW p \in Procs, NEW s \in SockIds, <<p, s>> \in Has
               PROVE  <<p, s>> \in Has' <=> s \notin S
    BY DEF Has
  <2>1. ASSUME <<p, s>> \in Has' PROVE s \notin S
    BY <1>1, <2>1 DEF Has, Registered
  <2>2. ASSUME s \notin S PROVE <<p, s>> \in Has'
    <3> PICK fd \in Fds : sockets[p][fd] = s
      BY DEF Has
    <3>1. sockets'[p][fd] = s
      BY <1>1, <2>2
    <3> QED BY <3>1 DEF Has
  <2> QED BY <2>1, <2>2
<1>5. \A x \in Has' : x \in Has \/ ~Promise!Open(x[2])
  <2> SUFFICES ASSUME NEW p \in Procs, NEW s \in SockIds, <<p, s>> \in Has'
               PROVE  <<p, s>> \in Has \/ ~Promise!Open(s)
    BY DEF Has
  <2> PICK fd \in Fds : sockets'[p][fd] = s
    BY DEF Has
  <2>1. sockets[p][fd] = s \/ ~Registered(s)
    BY <1>1
  <2> QED BY <2>1, OpenRegistered DEF Has
<1>6. ASSUME NEW s \in SockIds
      PROVE  Line(s)' = IF s \in S THEN <<>> ELSE Line(s)
  <2>1. CASE s \in S
    BY <1>1, <2>1 DEF Line
  <2>2. CASE s \notin S /\ Registered(s)
    BY <1>1, <2>2 DEF Line, Waits
  <2>3. CASE s \notin S /\ ~Registered(s)
    <3>1. Line(s) = <<>>
      BY <2>3 DEF Line
    <3>2. ASSUME Registered(s)' PROVE Line(s)' = <<>>
      <4>1. Waits(s)' = <<>> /\ DOMAIN <<>> = {}
        BY <1>1, <2>3, <3>2 DEF Blank
      <4>2. Line(s)' = [i \in DOMAIN Waits(s)' |-> Waits(s)'[i].conn]
        BY <3>2 DEF Line, Waits
      <4> QED BY <4>1, <4>2
    <3>3. ~Registered(s)' => Line(s)' = <<>>
      BY DEF Line
    <3> QED BY <2>3, <3>1, <3>2, <3>3
  <2> QED BY <2>1, <2>2, <2>3
<1>7. ASSUME NEW c \in Conns, conn[c].st = "accepted"
      PROVE  /\ InLine(c)' <=> InLine(c) /\ conn[c].lsn[1] \notin S
             /\ InHand(c)' <=> InHand(c) /\ conn[c].lsn[1] \notin S
  <2>1. InLine(c)' <=> InLine(c) /\ conn[c].lsn[1] \notin S
    <3>1. \A s \in SockIds :
             (\E i \in DOMAIN Line(s) : Line(s)[i] = c) => s = conn[c].lsn[1]
      BY InLineKey
    <3>2. InLine(c)' <=>
             \E s \in SockIds : s \notin S /\ \E i \in DOMAIN Line(s) : Line(s)[i] = c
      BY <1>6 DEF InLine
    <3> QED BY <3>1, <3>2 DEF InLine
  <2>2. InHand(c)' <=> InHand(c) /\ conn[c].lsn[1] \notin S
    <3>1. \A l \in Listener : Having(l, c)' <=> Having(l, c)
      BY <1>1 DEF Having
    <3>2. \A l \in Listener : Having(l, c) =>
             (Registered(l[1])' <=> Registered(l[1]) /\ l[1] \notin S)
      <4> SUFFICES ASSUME NEW l \in Listener, Having(l, c)
                   PROVE  Registered(l[1])' <=> Registered(l[1]) /\ l[1] \notin S
        OBVIOUS
      <4>1. l[1] \in SockIds /\ ~Blank(l[1])
        BY GoroutineType DEF Having, Blank
      <4> QED BY <1>1, <4>1
    <3>3. \A l \in Listener :
             Having(l, c) /\ Registered(l[1]) => conn[c].lsn[1] = l[1]
      BY InHandKey
    <3> QED BY <3>1, <3>2, <3>3 DEF InHand, Having
  <2> QED BY <2>1, <2>2
<1>8. ASSUME NEW c \in Conns, conn[c].st = "backlog"
      PROVE  /\ conn[c].lsn \in Listener
             /\ conn'[c].st = "backlog" <=> conn[c].lsn[1] \notin S
  <2> DEFINE l == conn[c].lsn
  <2>1. l \in listening /\ l \in Listener /\ l # Free /\ l # None
    BY <1>8, NoValues DEF BacklogHeard, TypeInv, HostTypeOK
  <2>2. l[1] \in SockIds
    BY <2>1, ListenerParts
  <2>3. ASSUME l[1] \in S, conn'[c].st = "backlog" PROVE FALSE
    <3> PICK n \in HostFds : Keys(l[1])[n] = l
      BY <2>1 DEF ListensOwn
    <3>1. hfd[n] = l
      BY <2>1, <2>2 DEF ListensOwn, KeysSound
    <3>2. n \in HeldFds(S)
      BY <2>1, <2>3 DEF HeldFds, Keys
    <3>3. l \in listening'
      BY <1>2, <2>3 DEF Heeding
    <3>4. hfd'[n] # Free
      BY <3>1, <3>3 DEF Heeding
    <3> QED BY <1>2, <3>2, <3>4
  <2>4. ASSUME NEW n \in HeldFds(S), hfd[n] = l PROVE l[1] \in S
    <3> PICK s \in S : Keys(s)[n] # None
      BY DEF HeldFds, Keys
    <3>1. s \in SockIds /\ n \in HostFds /\ Registered(s)
      BY <1>1 DEF HeldFds
    <3>2. Keys(s)[n] = l
      BY <2>4, <3>1 DEF KeysSound
    <3> QED BY <2>1, <3>1, <3>2 DEF ListenersOwn
  <2>5. ~(conn'[c].st = "backlog") => l[1] \in S
    BY <1>2, <1>8, <2>4
  <2> HIDE DEF l
  <2>6. conn'[c].st = "backlog" <=> l[1] \notin S
    BY <2>3, <2>5
  <2> QED BY <2>1, <2>6 DEF l
<1>9. ASSUME NEW c \in Conns
      PROVE  Stage(c)' = IF /\ Stage(c) \in {"waiting", "taken", "queued"}
                            /\ DialledTo[c] \in S
                         THEN "done" ELSE Stage(c)
  <2>0. conn[c] \in Connection /\ conn'[c] \in Connection
    BY DEF TypeInv, HostTypeOK
  <2>1. CASE conn[c].st = "new"
    <3>1. conn'[c].st = "new"
      BY <1>2, <2>1
    <3> QED BY <2>1, <3>1 DEF Stage
  <2>2. CASE conn[c].st = "backlog"
    <3>1. DialledTo[c] = conn[c].lsn[1]
      BY <1>8, <2>2, NoValues DEF DialledTo
    <3>2. CASE DialledTo[c] \in S
      <4>1. conn'[c].st = "reset"
        BY <1>2, <1>8, <2>0, <2>2, <3>1, <3>2 DEF Connection
      <4> QED BY <2>2, <3>2, <4>1 DEF Stage
    <3>3. CASE DialledTo[c] \notin S
      <4>1. conn'[c].st = "backlog"
        BY <1>8, <2>2, <3>1, <3>3
      <4> QED BY <2>2, <3>3, <4>1 DEF Stage
    <3> QED BY <3>2, <3>3
  <2>3. CASE conn[c].st = "accepted"
    <3>1. DialledTo[c] = conn[c].lsn[1]
      BY <2>3 DEF DialledTo, Dialled
    <3>2. conn'[c].st = "accepted"
      BY <1>2, <2>3
    <3> QED BY <1>7, <2>3, <3>1, <3>2 DEF Stage
  <2>4. CASE conn[c].st = "reset"
    <3>1. conn'[c].st = "reset"
      BY <1>2, <2>0, <2>4 DEF Connection
    <3> QED BY <2>4, <3>1 DEF Stage
  <2> QED BY <2>0, <2>1, <2>2, <2>3, <2>4 DEF Connection
<1> QED BY <1>1, <1>3, <1>4, <1>5, <1>6, <1>9 DEF Promise!Change

\* The names of a queue without its head: its names without their head.
LEMMA NamesTail ==
    ASSUME NEW q \in Seq(Accepted), q # <<>>
    PROVE  LET names == [i \in DOMAIN q |-> q[i].conn]
           IN  /\ names # <<>> /\ Head(names) = Head(q).conn
               /\ [i \in DOMAIN Tail(q) |-> Tail(q)[i].conn] = Tail(names)
<1> DEFINE n == [i \in 1 .. Len(q) |-> q[i].conn]
           f == [i \in 1 .. Len(q) - 1 |-> Tail(q)[i].conn]
<1>1. /\ Len(q) \in Nat /\ Len(q) # 0 /\ Head(q) = q[1] /\ DOMAIN q = 1 .. Len(q)
      /\ Tail(q) \in Seq(Accepted) /\ Len(Tail(q)) = Len(q) - 1
      /\ \A i \in 1 .. Len(q) - 1 : Tail(q)[i] = q[i + 1]
  BY HeadTailProperties
<1>2. DOMAIN Tail(q) = 1 .. Len(q) - 1
  BY <1>1
<1>3. ASSUME NEW i \in 1 .. Len(q) PROVE q[i].conn \in Conns
  <2>1. q[i] \in Accepted
    OBVIOUS
  <2> QED BY <2>1 DEF Accepted
<1>4. n \in Seq(Conns) /\ Len(n) = Len(q)
  BY <1>1, <1>3
<1>5. n[1] = q[1].conn
  BY <1>1
<1>6. \A i \in 1 .. Len(q) - 1 : f[i] = n[i + 1]
  BY <1>1
<1>7. f \in Seq(Conns) /\ Len(f) = Len(q) - 1
  <2>1. \A i \in 1 .. Len(q) - 1 : Tail(q)[i].conn \in Conns
    BY <1>1, <1>3
  <2> QED BY <1>1, <2>1
<1> HIDE DEF n, f
<1>8. /\ n # <<>> /\ Head(n) = n[1]
      /\ Tail(n) \in Seq(Conns) /\ Len(Tail(n)) = Len(n) - 1
      /\ \A i \in 1 .. Len(Tail(n)) : Tail(n)[i] = n[i + 1]
  BY <1>1, <1>4, HeadTailProperties
<1>9. f = Tail(n)
  BY <1>4, <1>6, <1>7, <1>8, SeqEqual
<1> QED BY <1>1, <1>2, <1>5, <1>8, <1>9 DEF n, f

\* What is given is in no line and no hand any more, and the others are where
\* they were.
LEMMA Given ==
    ASSUME DeliveryInv, NEW s \in SockIds, Registered(s), Waits(s) # <<>>,
           NEW c \in Conns, c = Head(Waits(s)).conn
    PROVE  /\ \A i \in 1 .. Len(Tail(Waits(s))) : Tail(Waits(s))[i].conn # c
           /\ \A r \in SockIds : \A i \in DOMAIN Line(r) : Line(r)[i] = c => r = s
           /\ \A l \in Listener : ~(Having(l, c) /\ Registered(l[1]))
           /\ InLine(c) /\ conn[c].st = "accepted" /\ conn[c].lsn[1] = s
<1> USE DEF DeliveryInv, OwnerInv, StatusInv, Owner
<1> DEFINE n == Head(Waits(s)).fd
<1>1. /\ Waits(s) \in Seq(Accepted) /\ Head(Waits(s)) = Waits(s)[1]
      /\ 1 \in 1 .. Len(Waits(s))
  BY QueueType
<1>2. n \in HostFds /\ Keys(s)[n] = c
  BY HeadOwned
<1>3. InLine(c) /\ conn[c].st = "accepted" /\ conn[c].lsn[1] = s
  <2>1. 1 \in DOMAIN Line(s) /\ Line(s)[1] = c
    BY <1>1, LineDomain
  <2> QED BY <2>1, InLineKey DEF InLine
<1>4. ASSUME NEW i \in 1 .. Len(Tail(Waits(s))), Tail(Waits(s))[i].conn = c PROVE FALSE
  <2>1. /\ i + 1 \in 1 .. Len(Waits(s)) /\ Waits(s)[i + 1].conn = c
    BY <1>1, <1>4, TailFacts
  <2>2. Waits(s)[i + 1].fd \in HostFds /\ Keys(s)[Waits(s)[i + 1].fd] = c
    BY <2>1, QueueType DEF QueueKeys
  <2>3. Waits(s)[i + 1].fd = Waits(s)[1].fd
    BY <1>1, <1>2, <2>2 DEF Claimed
  <2>4. i + 1 = 1
    BY <1>1, <2>1, <2>3 DEF QueueKeys
  <2> QED BY <2>4
<1>5. ASSUME NEW r \in SockIds, NEW i \in DOMAIN Line(r), Line(r)[i] = c PROVE r = s
  BY <1>3, <1>5, InLineKey
<1>6. ASSUME NEW l \in Listener, Having(l, c), Registered(l[1]) PROVE FALSE
  <2>1. g[l].pc = "recv" => ~InLine(c)
    BY <1>6, ReceivedAlone DEF Having
  <2>2. g[l].pc = "send" => ~InLine(c)
    BY <1>6, SentAlone DEF Having
  <2> QED BY <1>3, <1>6, <2>1, <2>2 DEF Having
<1> QED BY <1>3, <1>4, <1>5, <1>6

LEMMA DeliverPromise ==
    ASSUME DeliveryInv, TypeInv', NEW s \in SockIds, NEW p \in Procs,
           NEW newfd \in Fds, NEW a \in SockIds, Deliver(s, p, newfd, a)
    PROVE  LET given == <<p, Head([r \in SockIds |-> Line(r)][s])>>
           IN  /\ Promise!Give(p, s, a)
               /\ given \in Holds' /\ Holds' \subseteq Holds \cup {given}
<1> USE DEF DeliveryInv, OwnerInv, StatusInv, Owner
<1>0. /\ cur # None /\ s = cur.s /\ Waits(s) # <<>>
      /\ Registered(s) /\ sockets[Tgid[cur.t]][cur.call.fd] = s
      /\ cur.call.fd \in Fds
  BY ServedUsed, CurType DEF Deliver, At
<1> PICK n \in HostFds, c \in Conns :
      n = Head(Waits(s)).fd /\ c = Head(Waits(s)).conn /\ hfd[n] = c
  BY <1>0, HeadOwned
<1>1. /\ cur # None /\ s = cur.s /\ p = Tgid[cur.t] /\ Waits(s) # <<>>
      /\ Closing({n}) /\ UNCHANGED g
      /\ \/ sockets[p][newfd] = a
         \/ sockets[p][newfd] = None /\ sock[a].state = "Unused"
      /\ \A q \in Procs, d \in Fds :
            /\ sockets'[q][d] = IF q = p /\ d = newfd THEN a ELSE sockets[q][d]
            /\ kfd'[q][d] = IF q = p /\ d = newfd THEN hfd[n] ELSE kfd[q][d]
      /\ \A r \in SockIds :
            Waits(r)' = IF r = s THEN Tail(Waits(r)) ELSE Waits(r)
  BY DEF Deliver, Fresh
<1>2. Registered(s) /\ sockets[p][cur.call.fd] = s /\ cur.call.fd \in Fds
  BY <1>0, <1>1
<1>3. c \in Conns /\ n \in HostFds /\ hfd[n] = c
  OBVIOUS
<1>4. \A d \in Conns : conn'[d].st = conn[d].st /\ conn'[d].lsn = conn[d].lsn
  BY <1>1, <1>3, ClosingConn
<1>5. /\ \A i \in 1 .. Len(Tail(Waits(s))) : Tail(Waits(s))[i].conn # c
      /\ \A r \in SockIds : \A i \in DOMAIN Line(r) : Line(r)[i] = c => r = s
      /\ \A l \in Listener : ~(Having(l, c) /\ Registered(l[1]))
      /\ InLine(c) /\ conn[c].st = "accepted" /\ conn[c].lsn[1] = s
  BY <1>1, <1>2, <1>3, Given
<1>6. /\ [i \in DOMAIN Waits(s) |-> Waits(s)[i].conn] # <<>>
      /\ Head([i \in DOMAIN Waits(s) |-> Waits(s)[i].conn]) = c
      /\ [i \in DOMAIN Tail(Waits(s)) |-> Tail(Waits(s))[i].conn]
            = Tail([i \in DOMAIN Waits(s) |-> Waits(s)[i].conn])
  BY <1>1, QueueType, NamesTail
<1>7. DialledTo' = DialledTo
  BY <1>4, DialledSame
<1>8. /\ \A r \in SockIds : Registered(r)' <=> Registered(r) \/ r = a
      /\ Registered(a) \/ sock[a].state = "Unused"
  BY <1>1, NoValues DEF Registered
<1>9. Registered(a) \/ Blank(a)
  BY <1>8, FreshBlank
<1>10. Line(s) # <<>> /\ Head(Line(s)) = c /\ Line(s)' = Tail(Line(s))
  <2>1. Line(s) = [i \in DOMAIN Waits(s) |-> Waits(s)[i].conn]
    BY <1>2 DEF Line, Waits
  <2>2. Line(s)' = [i \in DOMAIN Tail(Waits(s)) |-> Tail(Waits(s))[i].conn]
    <3>1. Line(s)' = [i \in DOMAIN Waits(s)' |-> Waits(s)'[i].conn]
      BY <1>2, <1>8 DEF Line, Waits
    <3>2. Waits(s)' = Tail(Waits(s))
      BY <1>1
    <3> QED BY <3>1, <3>2
  <2> QED BY <1>6, <2>1, <2>2
<1>11. ASSUME NEW r \in SockIds, r # s PROVE Line(r)' = Line(r)
  <2>1. Waits(r)' = Waits(r)
    BY <1>1, <1>11
  <2>2. CASE Registered(r)' <=> Registered(r)
    BY <2>1, <2>2 DEF Line, Waits
  <2>3. CASE ~Registered(r) /\ Registered(r)'
    <3>1. Waits(r)' = <<>> /\ DOMAIN <<>> = {}
      BY <1>8, <1>9, <2>1, <2>3 DEF Blank
    <3>2. Line(r)' = [i \in DOMAIN Waits(r)' |-> Waits(r)'[i].conn] /\ Line(r) = <<>>
      BY <2>3 DEF Line, Waits
    <3> QED BY <3>1, <3>2
  <2> QED BY <1>8, <2>2, <2>3
<1>12. ASSUME NEW d \in Conns PROVE InLine(d)' <=> InLine(d) /\ d # c
  <2> DEFINE q == Waits(s)
  <2>1. /\ q \in Seq(Accepted) /\ q # <<>> /\ Len(q) \in Nat /\ q[1].conn = c
        /\ Tail(q) \in Seq(Accepted) /\ Len(Tail(q)) = Len(q) - 1
        /\ \A i \in 1 .. Len(q) - 1 : Tail(q)[i] = q[i + 1]
    <3>1. q \in Seq(Accepted) /\ q # <<>>
      BY <1>1, QueueType
    <3> HIDE DEF q
    <3>2. Head(q) = q[1] /\ Len(q) \in Nat
      BY <3>1
    <3> QED BY <3>1, <3>2, HeadTailProperties DEF q
  <2>2. (\E i \in DOMAIN Line(s)' : Line(s)'[i] = d)
           <=> \E i \in 1 .. Len(q) - 1 : Tail(q)[i].conn = d
    <3>1. Line(s)' = [i \in DOMAIN Waits(s)' |-> Waits(s)'[i].conn]
      BY <1>2, <1>8 DEF Line, Waits
    <3>2. Waits(s)' = Tail(q)
      BY <1>1
    <3> HIDE DEF q
    <3>3. DOMAIN Tail(q) = 1 .. Len(q) - 1
      BY <2>1
    <3> QED BY <3>1, <3>2, <3>3
  <2>3. (\E i \in DOMAIN Line(s) : Line(s)[i] = d)
           <=> \E i \in 1 .. Len(q) : q[i].conn = d
    BY <1>2, LineDomain
  <2>4. \A i \in 1 .. Len(q) - 1 : Tail(q)[i].conn # c
    BY <1>5, <2>1
  <2> HIDE DEF q
  <2>5. (\E i \in 1 .. Len(q) - 1 : Tail(q)[i].conn = d)
           <=> (\E i \in 1 .. Len(q) : q[i].conn = d) /\ d # c
    <3>1. ASSUME NEW i \in 1 .. Len(q) - 1, Tail(q)[i].conn = d
          PROVE  i + 1 \in 1 .. Len(q) /\ q[i + 1].conn = d /\ d # c
      BY <2>1, <2>4, <3>1
    <3>2. ASSUME NEW i \in 1 .. Len(q), q[i].conn = d, d # c
          PROVE  i - 1 \in 1 .. Len(q) - 1 /\ Tail(q)[i - 1].conn = d
      <4>1. i # 1
        BY <2>1, <3>2
      <4>2. i - 1 \in 1 .. Len(q) - 1 /\ i = (i - 1) + 1
        BY <2>1, <4>1
      <4> QED BY <2>1, <3>2, <4>2
    <3> QED BY <3>1, <3>2
  <2>6. \A r \in SockIds :
           r # s /\ (\E i \in DOMAIN Line(r) : Line(r)[i] = d) => d # c
    BY <1>5
  <2> QED BY <1>11, <2>2, <2>3, <2>5, <2>6 DEF InLine
<1>13. ASSUME NEW d \in Conns PROVE InHand(d)' <=> InHand(d)
  <2>1. \A l \in Listener : Having(l, d)' <=> Having(l, d)
    BY <1>1 DEF Having
  <2>2. ASSUME NEW l \in Listener, Having(l, d)
        PROVE  Registered(l[1])' <=> Registered(l[1])
    <3>1. l[1] \in SockIds /\ ~Blank(l[1])
      BY <2>2, GoroutineType DEF Having, Blank
    <3> QED BY <1>8, <1>9, <3>1
  <2> QED BY <2>1, <2>2 DEF InHand, Having
<1>14. Stage(c) = "queued" /\ Stage(c)' = "done"
  <2>1. ~InHand(c)
    BY <1>3, <1>5, HandSame
  <2> QED BY <1>3, <1>4, <1>5, <1>12, <1>13, <2>1 DEF Stage
<1>15. \A d \in Conns : d # c => Stage(d)' = Stage(d)
  BY <1>4, <1>12, <1>13, StageSame
<1>16. Promise!Move({c}, "queued", "done")
  BY <1>3, <1>14, <1>15 DEF Promise!Move
<1>17. <<p, s>> \in Has
  BY <1>2 DEF Has
<1>18. <<p, a>> \in Has \/ ~Promise!Open(a)
  <2>1. sockets[p][newfd] = a => <<p, a>> \in Has
    BY DEF Has
  <2>2. sock[a].state = "Unused" => ~Registered(a)
    BY FreshNowhere DEF Slots, Registered
  <2> QED BY <1>1, <2>1, <2>2, OpenRegistered
<1>19. Has' = Has \cup {<<p, a>>}
  <2>1. \A q \in Procs, r \in SockIds :
           <<q, r>> \in Has' <=> <<q, r>> \in Has \/ (q = p /\ r = a)
    BY <1>1, NoValues DEF Has
  <2>2. Has \subseteq Procs \X SockIds /\ Has' \subseteq Procs \X SockIds
    BY DEF Has
  <2> QED BY <2>1, <2>2
<1>20. [r \in SockIds |-> Line(r)]' =
          [[r \in SockIds |-> Line(r)] EXCEPT ![s] = Tail(@)]
  BY <1>10, <1>11
<1>21. Promise!Give(p, s, a)
  BY <1>7, <1>10, <1>16, <1>17, <1>18, <1>19, <1>20 DEF Promise!Give
<1>22. <<p, c>> \in Holds' /\ Holds' \subseteq Holds \cup {<<p, c>>}
  <2>1. \A q \in Procs, d \in Conns :
           <<q, d>> \in Holds' => <<q, d>> \in Holds \/ (q = p /\ d = c)
    BY <1>1, <1>3 DEF Holds
  <2>2. kfd'[p][newfd] = c
    BY <1>1, <1>3
  <2>3. Holds' \subseteq Procs \X Conns
    BY DEF Holds
  <2>4. <<p, c>> \in Holds'
    BY <1>3, <2>2 DEF Holds
  <2> QED BY <2>1, <2>3, <2>4
<1>23. Head([r \in SockIds |-> Line(r)][s]) = c
  BY <1>10
<1> QED BY <1>21, <1>22, <1>23

LEMMA StepPromise ==
    ASSUME DeliveryInv, [Next /\ ~AcceptAddFdFails]_vars
    PROVE  Promise!Next
<1> USE DEF DeliveryInv, OwnerInv, StatusInv
<1>1. /\ Moves /\ ~AcceptAddFdFails /\ DeliveryInv' /\ TypeInv'
      /\ [Next]_vars
  BY StepDelivery
<1>2. SentKept /\ Heeding
  BY <1>1, StepSent, StepHeeding
<1>3. {c \in Conns : conn[c].snd = "sent"}
         \subseteq {c \in Conns : conn[c].snd = "sent"}'
  BY <1>2, NamedKept
<1>4. ASSUME Holds' \subseteq Holds,
             \/ \E c \in Conns :
                   \/ \E s \in SockIds : Promise!Arrive(c, s)
                   \/ Promise!Take(c) \/ Promise!Refuse(c) \/ Promise!Admit(c)
                   \/ Promise!Stray(c)
             \/ \E S \in SUBSET SockIds : Promise!Change(S)
             \/ Promise!Others
      PROVE  Promise!Next
  BY <1>3, <1>4 DEF Promise!Next
<1>5. CASE Still
  <2>1. Holds' \subseteq Holds
    BY <1>5, HoldsKept DEF Still, StillFiles
  <2>2. /\ UNCHANGED <<sockets, g>>
        /\ \A s \in SockIds : Waits(s)' = Waits(s)
        /\ \A c \in Conns : conn'[c].st = conn[c].st /\ conn'[c].lsn = conn[c].lsn
    BY <1>5 DEF Still, StillHost, ConnsKept, StillStatus
  <2>3. \A l \in Listener, c \in Conns : Having(l, c)' <=> Having(l, c)
    BY <2>2 DEF Having
  <2> QED BY <1>4, <2>1, <2>2, <2>3, QuietOthers
<1>6. ASSUME UNCHANGED kfd PROVE Holds' \subseteq Holds
  BY <1>6 DEF Holds
<1>7. ASSUME NEW S, Removal(S), UNCHANGED kfd PROVE Promise!Next
  BY <1>1, <1>2, <1>4, <1>6, <1>7, RemovalPromise
<1>8. ASSUME NEW t \in Procs, Drop(t) PROVE Promise!Next
  <2>1. UNCHANGED kfd
    BY <1>8 DEF Drop
  <2> QED BY <1>7, <1>8, <2>1, DropRemoval
<1>9. ASSUME NEW p \in Procs, NEW fd \in Fds, NEW x \in SockIds \cup {None},
             Renew(p, fd, x)
      PROVE  Promise!Next
  <2>1. UNCHANGED kfd
    BY <1>9 DEF Renew
  <2> QED BY <1>7, <1>9, <2>1, RenewRemoval
<1>10. ASSUME NEW e \in Entries, NEW n \in HostFds, Bind(e, n) PROVE Promise!Next
  <2>1. /\ UNCHANGED <<conn, sockets, g, kfd>>
        /\ \A s \in SockIds : Waits(s)' = Waits(s)
    BY <1>10 DEF Bind
  <2>2. \A l \in Listener, c \in Conns : Having(l, c)' <=> Having(l, c)
    BY <2>1 DEF Having
  <2> QED BY <1>4, <1>6, <2>1, <2>2, QuietOthers
<1>11. ASSUME NEW up \in SUBSET Listener, Start(up) PROVE Promise!Next
  <2>1. /\ UNCHANGED <<conn, sockets, kfd>> /\ cur # None
        /\ \A s \in SockIds : Waits(s)' = Waits(s)
        /\ up \subseteq HeldListeners({cur.s}) /\ sock[cur.s].state = "Binded"
        /\ g' = [l \in Listener |->
                   IF l \in up THEN [NoGoroutine EXCEPT !.pc = "check"] ELSE g[l]]
    BY <1>11 DEF Start
  <2>2. ASSUME NEW l \in up PROVE g[l].pc = "none" /\ g'[l].pc = "check"
    <3>1. l \in Listener /\ cur.s \in SockIds
      BY <2>1, ServedUsed
    <3>2. l[1] = cur.s
      BY <2>1, <3>1 DEF HeldListeners, ListenersOwn, Keys
    <3>3. l = <<cur.s, l[2]>> /\ l[2] \in Entries
      BY <3>1, <3>2, ListenerParts
    <3>4. g[l].pc = "none"
      BY <2>1, <3>1, <3>3 DEF YoungQuiet, Young
    <3>5. g'[l].pc = "check"
      BY <2>1, <3>1 DEF NoGoroutine
    <3> QED BY <3>4, <3>5
  <2>3. \A l \in Listener : l \notin up => g'[l] = g[l]
    BY <2>1
  <2>4. \A l \in Listener, c \in Conns : Having(l, c)' <=> Having(l, c)
    BY <2>2, <2>3 DEF Having
  <2> QED BY <1>4, <1>6, <2>1, <2>4, QuietOthers
<1>12. ASSUME NEW s \in SockIds, NEW p \in Procs, NEW newfd \in Fds,
              NEW a \in SockIds, Deliver(s, p, newfd, a)
       PROVE  Promise!Next
  BY <1>1, <1>3, <1>12, DeliverPromise DEF Promise!Next
<1>13. ASSUME NEW l \in Listener, Turn(l) \/ Denying(l) \/ Storing(l) \/ Queueing(l)
       PROVE  Promise!Next
  <2>1. UNCHANGED kfd
    BY <1>13 DEF Turn, Denying, Storing, Queueing
  <2> QED BY <1>1, <1>4, <1>6, <1>13, <2>1, TurnPromise, DenyingPromise,
             StoringPromise, QueueingPromise
<1>14. ASSUME NEW l \in Listener, NEW c \in Conns, NEW n \in HostFds,
              Accepting(l, c, n)
       PROVE  Promise!Next
  <2>1. UNCHANGED kfd
    BY <1>14 DEF Accepting
  <2> QED BY <1>4, <1>6, <1>14, <2>1, AcceptingPromise
<1>15. ASSUME NEW c \in Conns, NEW l \in Listener, Arriving(c, l)
       PROVE  Promise!Next
  <2>1. UNCHANGED kfd
    BY <1>15 DEF Arriving
  <2> QED BY <1>4, <1>6, <1>15, <2>1, ListenerParts, ArrivingPromise
<1> QED BY <1>1, <1>5, <1>8, <1>9, <1>10, <1>11, <1>12, <1>13, <1>14, <1>15
        DEF Moves

LEMMA InitPromise ==
    ASSUME Init
    PROVE  Promise!Init
<1>1. Has = {} /\ Holds = {}
  BY NoValues DEF Init, ContainerInit, Has, Holds
<1>2. /\ \A c \in Conns :
            conn[c].st = "new" /\ conn[c].lsn = None /\ conn[c].snd # "sent"
      /\ \A s \in SockIds : ~Registered(s)
  BY NoValues DEF Init, HostInit, Registered
<1>3. DialledTo = [c \in Conns |-> None]
  BY <1>2 DEF DialledTo
<1>4. \A s \in SockIds : Line(s) = <<>>
  BY <1>2 DEF Line
<1>5. \A c \in Conns : Stage(c) = "away"
  BY <1>2 DEF Stage
<1> QED BY <1>1, <1>2, <1>3, <1>4, <1>5 DEF Promise!Init

\* While no ADDFD fails what the daemon does to connections is what Delivery says.
\* A connection is taken for the socket it was opened to, while that is open, by one
\* goroutine; it is refused only if its peer has not sent an address or the
\* server list denies it; it is put in line and given, once, in the order of the
\* line, to a process that has the socket; what is not given is lost only when
\* the socket ends or when a goroutine of a removed socket takes it.  All
\* else, in whatever order notifications, goroutines, peers and failures come,
\* leaves it where it is.
THEOREM ConnectionsDelivered ==
    AddFdSpec => DeliveryKept
<1>1. Init => DeliveryInv /\ Promise!Init
  BY InitDelivery, InitPromise
<1>2. DeliveryInv /\ [Next /\ ~AcceptAddFdFails]_vars => DeliveryInv'
  BY StepDelivery
<1>3. DeliveryInv /\ [Next /\ ~AcceptAddFdFails]_vars => Promise!Next
  BY StepPromise
<1> QED BY <1>1, <1>2, <1>3, PTL DEF AddFdSpec, DeliveryKept, Promise!Spec

\* All of that holds of every behaviour of a container whose processes have one thread
\* each and are neither signalled nor killed while they wait.
THEOREM UndisturbedDiscipline ==
    ASSUME Undisturbed
    PROVE  Spec => /\ [](HostSocketsSound /\ QueueSound)
                   /\ []DeliveredApproved
                   /\ ForeignSafe
                   /\ (NumbersApart /\ Finite => []RemovedHoldsLittle)
                   /\ DeliveryKept
  BY AddFdNeverFails, NumbersStayOwn, DeliveriesApproved, ForeignLeftAlone,
     LeftoversBounded, ConnectionsDelivered
=============================================================================
