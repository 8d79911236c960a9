------------------------------ MODULE Rsocket -------------------------------
(***************************************************************************)
(* The control path of the RDMA library                                    *)
(* (src/pkg/tiaccoon/seccomp/rsocket.go): a connect of a UNIX socket to a  *)
(* reserved path is answered with one end of a socketpair, and a goroutine *)
(* at the other end answers the library's questions about the virtual      *)
(* addresses of the connections it makes by itself.                        *)
(*                                                                         *)
(* The library is external; it sends a question when it has the answer to  *)
(* the one before.                                                         *)
(***************************************************************************)
EXTENDS AccessControl, Sockaddr

CONSTANTS
    Channels,    \* the socketpairs, in the order they are made
    Questioned,  \* raw addresses the library asks about
    ownVIP       \* handler.myVIP

ASSUME RsocketAssumption ==
    /\ Channels \subseteq Nat
    /\ \A buf \in Questioned : buf \in [1 .. 16 -> Byte]
    /\ ownVIP \in IP

VARIABLE chan  \* the channels, each with its goroutine

PING == <<80, 73, 78, 71>>
MVIP == <<77, 86, 73, 80>>
ACON == <<65, 67, 79, 78>>

OK == <<79, 75>>
NO == <<78, 79>>
ER == <<69, 82>>

Questions == {PING, MVIP} \cup {ACON \o buf : buf \in Questioned}

\* Only the first 20 bytes of the goroutine's buffer are ever looked at.
NoChannel ==
    [up |-> FALSE, held |-> FALSE, buf |-> Zeros(20),
     asked |-> <<>>, in |-> <<>>, out |-> <<>>]

RsocketInit == chan = [k \in Channels |-> NoChannel]

\* initializeRsocket: the goroutine runs whether or not ADDFD (`works`) gives
\* the other end to the process; the descriptor it replaces was perhaps the
\* previous channel's.
Initialize(k, works) ==
    /\ ~chan[k].up
    /\ \A j \in Channels : j < k => chan[j].up
    /\ chan' = [j \in Channels |->
                  IF j = k THEN [chan[j] EXCEPT !.up = TRUE, !.held = works]
                  ELSE IF works THEN [chan[j] EXCEPT !.held = FALSE]
                  ELSE chan[j]]

Ask(k, question) ==
    /\ chan[k].held
    /\ chan[k].asked = <<>>
    /\ chan' = [chan EXCEPT ![k].asked = question, ![k].in = question]

\* read(2) overwrites as much of the buffer as it reads.
Overwritten(buf, bytes) == bytes \o SubSeq(buf, Len(bytes) + 1, Len(buf))

\* Variant: the address is taken to follow the command and its terminator.
Subject_Late(buf) == SubSeq(buf, 6, 20) \o <<0>>

Subject(buf) == SubSeq(buf, 5, 20)

\* handleRsocketMYVIP and handleRsocketAccessControl.
Response(buf) ==
    CASE SubSeq(buf, 1, 4) = PING -> OK
      [] SubSeq(buf, 1, 4) = MVIP ->
            OK \o sockaddrToByte(
                     newSockAddrFromIPPort(AF_INET, ownVIP, 0, Zeros(4), Zeros(4)))
      [] SubSeq(buf, 1, 4) = ACON ->
            IF ~WellFormed(Subject(buf)) THEN ER
            ELSE IF Apply("server", newSockaddr(Subject(buf)).IP) THEN OK
            ELSE NO
      [] OTHER -> ER

\* handleRsocket: one read, one response.
HandleRsocket(k) ==
    LET buf == Overwritten(chan[k].buf, chan[k].in)
    IN  /\ chan[k].in # <<>>
        /\ chan' = [chan EXCEPT ![k].buf = buf,
                                ![k].in = <<>>,
                                ![k].out = Response(buf)]

Learn(k) ==
    /\ chan[k].out # <<>>
    /\ chan' = [chan EXCEPT ![k].asked = <<>>, ![k].out = <<>>]

RsocketNext ==
    \E k \in Channels :
       \/ \E works \in BOOLEAN : Initialize(k, works)
       \/ \E question \in Questions : Ask(k, question)
       \/ HandleRsocket(k)
       \/ Learn(k)

\* Questions are answered while the lists change.
RsocketSpec ==
    /\ AccessInit /\ RsocketInit
    /\ [][\/ RsocketNext /\ UNCHANGED entries
          \/ AccessNext /\ UNCHANGED chan]_<<entries, chan>>

-----------------------------------------------------------------------------
\* What the library is told of what it asked: of an address, what the server
\* list says of it; of the host, its own address.
Truthful(asked, said) ==
    IF Len(asked) > 4
    THEN \E sa \in {newSockaddr(buf) : buf \in Questioned} :
            /\ SubSeq(asked, 5, 20) = sockaddrToByte(sa)
            /\ said = IF Apply("server", sa.IP) THEN OK ELSE NO
    ELSE /\ SubSeq(said, 1, 2) = OK
         /\ asked = MVIP => Equal(newSockaddr(SubSeq(said, 3, 18)).IP, ownVIP)

\* The library learns what the list says of the very address it asked about, in
\* whichever channel and after whatever longer or shorter question the buffer
\* still holds, and the host's address in the form that connections carry.
ControlTruthful ==
    [][\A k \in Channels :
          chan[k].out = <<>> /\ chan'[k].out # <<>> =>
             Truthful(chan[k].asked, chan'[k].out)]_chan
=============================================================================
