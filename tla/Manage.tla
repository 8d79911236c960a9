------------------------------- MODULE Manage -------------------------------
(***************************************************************************)
(* What manage.Manager puts in the tables (src/pkg/tiaccoon/manage):       *)
(* Start makes them, hands them to the seccomp handler and starts manage,  *)
(* which fills them, one entry at a time, while calls are already handled. *)
(*                                                                         *)
(* Which experiment runs is a line of manage.go, to be edited: nginx or    *)
(* one of five of netperf.                                                 *)
(***************************************************************************)
EXTENDS Destination

VARIABLE todo   \* insertions that manage has not made yet

manageVars == <<entries, destinationVars, todo>>

IPv4(a, b, c, d) == MappedPrefix \o <<a, b, c, d>>

PhysicalAddr(host, port) == [host |-> host, port |-> port]
Allow(ip) == [op |-> "client policy", ip |-> ip]
Entry(ip, vport, transport, address) ==
    [op |-> "destination", ip |-> ip, port |-> vport,
     i |-> CHOOSE i \in DOMAIN TransportType : TransportType[i] = transport,
     address |-> address]

\* An experiment: for each virtual port how the client reaches the server, and
\* where the server is bound.
TCP(host, vport, port) ==
    <<vport, "IPv4", PhysicalAddr(host, port), PhysicalAddr("any", port)>>
RDMA(host, vport) ==
    <<vport, "RDMA", PhysicalAddr(host, vport), PhysicalAddr("any", vport)>>
UNIX(vport, path) ==
    <<vport, "UNIX", PhysicalAddr(path, 0), PhysicalAddr(path, 0)>>

Experiment ==
    [nginxTCPLocal    |-> <<TCP("127.0.0.1", 80, 8080)>>,
     netperfTCPLocal  |-> <<TCP("127.0.0.1", 12865, 12865),
                            TCP("127.0.0.1", 22865, 22865)>>,
     netperfTCPRemote |-> <<TCP("192.168.20.3", 12865, 12865),
                            TCP("192.168.20.3", 22865, 22865)>>,
     netperfUNIX      |-> <<UNIX(12865, "netperf-remote.sock"),
                            UNIX(22865, "netperf-local.sock")>>,
     netperfRDMALocal |-> <<RDMA("192.168.20.21", 12865), RDMA("192.168.20.21", 22865)>>,
     netperfRDMARemote |-> <<RDMA("192.168.20.30", 12865), RDMA("192.168.20.30", 22865)>>]

\* Variant: the two are mixed up.
yourVIP_Swapped ==
    IF Equal(myVIP, IPv4(10, 0, 10, 40))
    THEN IPv4(10, 0, 10, 40) ELSE IPv4(10, 0, 10, 50)

yourVIP ==
    IF Equal(myVIP, IPv4(10, 0, 10, 40))
    THEN IPv4(10, 0, 10, 50) ELSE IPv4(10, 0, 10, 40)

\* manage: its insertions, in order.
Insertions(plan) ==
    LET e == Experiment[plan]
        anywhere == PhysicalAddr("any", 0)
    IN  <<Allow(IPv4(10, 0, 10, 50)),
          Entry(IPv4(0, 0, 0, 0), 0, "IPv4", anywhere),
          Entry(myVIP, 0, "IPv4", anywhere)>>
        \o [k \in DOMAIN e |-> Entry(yourVIP, e[k][1], e[k][2], e[k][3])]
        \o [k \in DOMAIN e |-> Entry(myVIP, e[k][1], e[k][2], e[k][4])]

\* Start
ManageInit(plan) ==
    /\ AccessInit
    /\ DestinationInit
    /\ todo = Insertions(plan)

ManagePolicy ==
    /\ todo # <<>>
    /\ Head(todo).op = "client policy"
    /\ UpsertPolicy("client", Head(todo).ip, TRUE)
    /\ todo' = Tail(todo)
    /\ UNCHANGED destinationVars

\* An RDMA entry is dropped when RDMA is not enabled.
ManageEntry ==
    /\ todo # <<>>
    /\ Head(todo).op = "destination"
    /\ LET e == Head(todo)
       IN  IF Kept(e.i) THEN Upsert(e.ip, e.port, e.i, e.address)
           ELSE UNCHANGED destinationVars
    /\ todo' = Tail(todo)
    /\ UNCHANGED entries

ManageNext == ManagePolicy \/ ManageEntry

=============================================================================
