---------------------------- MODULE Destination -----------------------------
(***************************************************************************)
(* The destination table (src/pkg/tiaccoon/destination): physical          *)
(* addresses by virtual IP, port and transport for connect, and those of   *)
(* this host's own virtual IP by port for bind.                            *)
(***************************************************************************)
EXTENDS AccessControl

CONSTANTS
    Ports, Addresses,
    myVIP, featureRDMA,
    MaxAddresses          \* bound on the addresses of one virtual address

ASSUME DestinationAssumption ==
    /\ myVIP \in IPs
    /\ featureRDMA \in BOOLEAN
    /\ MaxAddresses \in Nat

VARIABLES
    clientEntries,  \* clientEntries[upper VIP][lower VIP][Vport][Transport]
    serverEntries,  \* serverEntries[Vport]
    alive           \* FALSE once an operation has panicked

Ext == INSTANCE SequencesExt

destinationVars == <<clientEntries, serverEntries, alive>>

\* In priority order; the slices of a port are indexed by them.
TransportType == <<"UNIX", "RDMA", "IPv6", "IPv4">>

DestinationInit ==
    /\ clientEntries = <<>>
    /\ serverEntries = <<>>
    /\ alive = TRUE

\* map[key], whose zero value is empty.
At(map, key) == IF key \in DOMAIN map THEN map[key] ELSE <<>>

\* The slices stored under a virtual address, and the table with others there.
Slices(ip, port) ==
    LET key == IP2Int(ip)
    IN  At(At(At(clientEntries, key.upper), key.lower), port)

WithSlices(ip, port, slices) ==
    LET key == IP2Int(ip)
        lowers == At(clientEntries, key.upper)
    IN  Put(clientEntries, key.upper,
            Put(lowers, key.lower, Put(At(lowers, key.lower), port, slices)))

Stored(ip, port) ==
    LET key == IP2Int(ip)
    IN  port \in DOMAIN At(At(clientEntries, key.upper), key.lower)

\* Only a remove leaves a key with a nil slice.
Withdrawn(ip, port) == Stored(ip, port) /\ Slices(ip, port) = <<>>

\* Variant: the form in which the address is written matters.
Mine_Bytes(ip) == ip = myVIP

\* ip.Equal(d.myVIP)
Mine(ip) == Equal(ip, myVIP)

\* An entry that is not dropped for want of RDMA.
Kept(i) == featureRDMA \/ TransportType[i] # "RDMA"

\* Entries.upsert: appends to a slice of the port, which is made when the port
\* has none ...
Upsert(ip, port, i, address) ==
    LET slices == IF Stored(ip, port) THEN Slices(ip, port)
                  ELSE [j \in DOMAIN TransportType |-> <<>>]
        entry == [transport |-> TransportType[i], address |-> address]
    IN  /\ Kept(i)
        /\ ~Withdrawn(ip, port)
        /\ Len(Ext!FlattenSeq(slices)) < MaxAddresses
        /\ clientEntries' =
              WithSlices(ip, port, [slices EXCEPT ![i] = Append(@, address)])
        /\ serverEntries' =
              IF Mine(ip)
              THEN Put(serverEntries, port, Append(At(serverEntries, port), entry))
              ELSE serverEntries
        /\ UNCHANGED alive

\* ... but is nil, and indexed out of its range, after a remove.
UpsertPanics(ip, port, i) ==
    /\ Kept(i)
    /\ Withdrawn(ip, port)
    /\ alive' = FALSE
    /\ UNCHANGED <<clientEntries, serverEntries>>

\* Variant: the bound addresses of the port stay.
Remove_ClientOnly(ip, port) ==
    /\ ~Withdrawn(ip, port)
    /\ clientEntries' = IF Stored(ip, port) THEN WithSlices(ip, port, <<>>)
                        ELSE clientEntries
    /\ UNCHANGED <<serverEntries, alive>>

\* Entries.remove: the port stays a key, of nil ...
Remove(ip, port) ==
    /\ ~Withdrawn(ip, port)
    /\ clientEntries' = IF Stored(ip, port) THEN WithSlices(ip, port, <<>>)
                        ELSE clientEntries
    /\ serverEntries' = IF Mine(ip) /\ port \in DOMAIN serverEntries
                        THEN Put(serverEntries, port, <<>>) ELSE serverEntries
    /\ UNCHANGED alive

\* ... whose elements the next one assigns.
RemovePanics(ip, port) ==
    /\ Withdrawn(ip, port)
    /\ alive' = FALSE
    /\ UNCHANGED <<clientEntries, serverEntries>>

\* Entries.GetClient and GetServer; nil and an empty slice are not told apart.
GetClient(ip, port) == Slices(ip, port)
GetServer(port) == At(serverEntries, port)

DestinationNext ==
    /\ alive
    /\ \E ip \in IPs, port \in Ports :
          \/ \E i \in DOMAIN TransportType :
                \/ \E address \in Addresses : Upsert(ip, port, i, address)
                \/ UpsertPanics(ip, port, i)
          \/ Remove(ip, port)
          \/ RemovePanics(ip, port)

DestinationSpec == DestinationInit /\ [][DestinationNext]_destinationVars

-----------------------------------------------------------------------------
\* A list of entries has, for the i-th transport, these addresses in this order.
ListsInOrder(list, i, addresses) ==
    \E pos \in [DOMAIN addresses -> DOMAIN list] :
       /\ \A j, k \in DOMAIN addresses : j < k => pos[j] < pos[k]
       /\ {pos[j] : j \in DOMAIN addresses}
            = {k \in DOMAIN list : list[k].transport = TransportType[i]}
       /\ \A j \in DOMAIN addresses : list[pos[j]].address = addresses[j]

\* The two tables agree: what bind is given for a port of this host is, for
\* each transport and in order, what connect is given for its virtual address,
\* although one is found by IP2Int and the other by ip.Equal.
TablesAgree ==
    \A ip \in IPs, port \in Ports : Equal(ip, myVIP) =>
        \A i \in DOMAIN TransportType :
            ListsInOrder(GetServer(port), i,
                IF GetClient(ip, port) = <<>> THEN <<>> ELSE GetClient(ip, port)[i])

UsableTransports == {TransportType[i] : i \in {j \in 1 .. 4 : Kept(j)}}

Book == INSTANCE Directory WITH
    client <- [ip \in IPs |-> [port \in Ports |->
                 [t \in UsableTransports |->
                    IF GetClient(ip, port) = <<>> THEN <<>>
                    ELSE LET i == CHOOSE j \in 1 .. 4 : TransportType[j] = t
                         IN  GetClient(ip, port)[i]]]],
    server <- [port \in Ports |-> GetServer(port)],
    withdrawn <- {slot \in IPs \X Ports : Withdrawn(slot[1], slot[2])},
    usable <- alive,
    Usable <- UsableTransports,
    Same <- Equal

\* The nested maps behave as the directory they stand for: registrations are
\* found in order under either written form of an address and no other,
\* withdrawing a port withdraws it from both tables, and the directory fails
\* only when a port that was withdrawn is used again.
DirectoryKept == Book!Spec
=============================================================================
