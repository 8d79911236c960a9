----------------------------- MODULE Directory ------------------------------
(***************************************************************************)
(* What the destination table promises: a directory of the physical        *)
(* addresses of virtual ones.  Asked for a virtual address it gives those  *)
(* registered, by transport and in order; asked for a port it gives those  *)
(* of its own host.  A port may be withdrawn, once: the directory fails    *)
(* when it is used for a withdrawn one, and only then.                     *)
(***************************************************************************)
EXTENDS Sequences

CONSTANTS IPs, Ports, Usable, Addresses, myVIP, Same(_, _)

VARIABLES
    client, server,
    withdrawn,       \* the ports of virtual addresses that were withdrawn
    usable           \* FALSE once the directory has failed

directoryVars == <<client, server, withdrawn, usable>>

NoAddress == [t \in Usable |-> <<>>]

Init ==
    /\ client = [ip \in IPs |-> [port \in Ports |-> NoAddress]]
    /\ server = [port \in Ports |-> <<>>]
    /\ withdrawn = {}
    /\ usable = TRUE

Register(ip, port, transport, address) ==
    /\ <<ip, port>> \notin withdrawn
    /\ client' = [i \in IPs |->
                    IF Same(i, ip)
                    THEN [client[i] EXCEPT ![port][transport] = Append(@, address)]
                    ELSE client[i]]
    /\ server' = IF Same(ip, myVIP)
                 THEN [server EXCEPT ![port] =
                         Append(@, [transport |-> transport, address |-> address])]
                 ELSE server
    /\ UNCHANGED <<withdrawn, usable>>

\* Nothing is withdrawn where nothing is registered.
Withdraw(ip, port) ==
    /\ <<ip, port>> \notin withdrawn
    /\ client' = [i \in IPs |->
                    IF Same(i, ip) THEN [client[i] EXCEPT ![port] = NoAddress]
                    ELSE client[i]]
    /\ server' = IF Same(ip, myVIP) THEN [server EXCEPT ![port] = <<>>]
                 ELSE server
    /\ withdrawn' = IF client[ip][port] = NoAddress THEN withdrawn
                    ELSE withdrawn \cup {<<i, port>> : i \in {j \in IPs : Same(j, ip)}}
    /\ UNCHANGED usable

Fail(ip, port) ==
    /\ <<ip, port>> \in withdrawn
    /\ usable' = FALSE
    /\ UNCHANGED <<client, server, withdrawn>>

Next ==
    /\ usable
    /\ \E ip \in IPs, port \in Ports :
          \/ \E t \in Usable, a \in Addresses : Register(ip, port, t, a)
          \/ Withdraw(ip, port)
          \/ Fail(ip, port)

Spec == Init /\ [][Next]_directoryVars
=============================================================================
