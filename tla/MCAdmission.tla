---------------------------- MODULE MCAdmission -----------------------------
(***************************************************************************)
(* Values for Handshake and Rsocket, the two ways in which the server list *)
(* is consulted, and the lists changing meanwhile.  They share only the    *)
(* lists, so each is explored with the other as it was made.               *)
(***************************************************************************)
EXTENDS Handshake, Rsocket, TLC

CONSTANTS c1, c2

Symmetry == Permutations({c1, c2})

Nobody == Zeros(4)
Client4 == <<10, 0, 10, 40>>
Server4 == <<10, 0, 10, 50>>

AllIPs == {Nobody, MappedPrefix \o Nobody, Client4, MappedPrefix \o Client4, Server4}

Inet4(ip, hi, lo) == <<2, 0, hi, lo>> \o ip \o Zeros(8)
Inet6(ip, hi, lo) ==
    <<10, 0, hi, lo>> \o Zeros(4) \o MappedPrefix \o ip \o <<1, 0, 0, 0>>

BoundDef == {Inet4(Client4, 19, 136), Inet6(Client4, 19, 136)}
Bound6 == {Inet6(Client4, 19, 136)}
DialledDef == {Inet4(Server4, 0, 80)}
ListenDef == Inet4(Server4, 0, 80)

QuestionedDef == {Inet4(Client4, 0, 80), Inet4(Nobody, 0, 80)}

\* "GET / HTTP/1.1\r\n"
Request == <<71, 69, 84, 32, 47, 32, 72, 84, 84, 80, 47, 49, 46, 49, 13, 10>>

\* A request, and 16 bytes that are an address.
DataDef == {Request, Inet4(Nobody, 0, 0)}

\* Everyone is denied at first.  Connections to the server and from clients
\* that bound no address are allowed at some time; those from the address that
\* clients bind are allowed and denied again.
Manage ==
    /\ \/ UpsertPolicy("client", Server4, TRUE)
       \/ UpsertPolicy("server", Nobody, TRUE)
       \/ \E verdict \in BOOLEAN :
             UpsertPolicy("server", MappedPrefix \o Client4, verdict)
    /\ UNCHANGED <<handshakeVars, chan>>

Init == AccessInit /\ HandshakeInit /\ RsocketInit

Next ==
    \/ Manage
    \/ /\ chan = [k \in Channels |-> NoChannel]
       /\ HandshakeNext
       /\ UNCHANGED <<entries, chan>>
    \/ /\ \A c \in Conns : client[c] = "idle" /\ local[c] = zeroSockaddr
       /\ RsocketNext
       /\ UNCHANGED <<entries, handshakeVars>>

Spec == Init /\ [][Next]_<<entries, handshakeVars, chan>>
=============================================================================
