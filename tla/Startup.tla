------------------------------ MODULE Startup -------------------------------
(***************************************************************************)
(* The two hosts that manage.go is written for, with the deny default,     *)
(* while their managers fill the tables: calls are already handled, and    *)
(* may find any part of what will be there.                                *)
(***************************************************************************)
EXTENDS Naturals, Sequences

VARIABLES
    entries40, clients40, servers40, alive40, todo40,
    entries50, clients50, servers50, alive50, todo50,
    experiment    \* what both are built for

startupVars ==
    <<entries40, clients40, servers40, alive40, todo40,
      entries50, clients50, servers50, alive50, todo50, experiment>>
vars40 == <<entries40, clients40, servers40, alive40, todo40>>
vars50 == <<entries50, clients50, servers50, alive50, todo50>>

Ten(d) == [i \in 1 .. 10 |-> 0] \o <<255, 255, 10, 0, 10, d>>

\* net.ParseIP gives the 16-byte form of -ip.
Host40 == INSTANCE Manage WITH
    IPs <- {Ten(40), Ten(50)}, defaultPolicy <- FALSE, Ports <- {}, Addresses <- {},
    myVIP <- Ten(40), featureRDMA <- TRUE, MaxAddresses <- 2,
    entries <- entries40, clientEntries <- clients40, serverEntries <- servers40,
    alive <- alive40, todo <- todo40

Host50 == INSTANCE Manage WITH
    IPs <- {Ten(40), Ten(50)}, defaultPolicy <- FALSE, Ports <- {}, Addresses <- {},
    myVIP <- Ten(50), featureRDMA <- TRUE, MaxAddresses <- 2,
    entries <- entries50, clientEntries <- clients50, serverEntries <- servers50,
    alive <- alive50, todo <- todo50

\* Both are built with the same experiment.  In the local ones both daemons are
\* on one machine; in the remote ones the client's host is at 10.0.10.40 and the
\* server's, on another machine, at 10.0.10.50.
LocalExperiments ==
    {"nginxTCPLocal", "netperfTCPLocal", "netperfUNIX", "netperfRDMALocal"}

\* What of the physical addresses is of the machine that 10.0.10.50 is on.
ServerMachine ==
    IF experiment \in LocalExperiments
    THEN {"127.0.0.1", "192.168.20.21", "netperf-remote.sock", "netperf-local.sock"}
    ELSE {"192.168.20.3", "192.168.20.30"}

StartupInit ==
    /\ experiment \in DOMAIN Host40!Experiment
    /\ Host40!ManageInit(experiment)
    /\ Host50!ManageInit(experiment)

StartupNext ==
    /\ \/ Host40!ManageNext /\ UNCHANGED vars50
       \/ Host50!ManageNext /\ UNCHANGED vars40
    /\ UNCHANGED experiment

StartupSpec == StartupInit /\ [][StartupNext]_startupVars

-----------------------------------------------------------------------------
Services == {80, 12865, 22865}

\* Who dials the first address on its own machine reaches who is bound to the second.
Meets(dialled, bound) ==
    \/ dialled = bound
    \/ dialled.port = bound.port /\ bound.host = "any"

\* What the client's host finds under the server's virtual address, at any time
\* of the start-up of either, it is allowed to dial, leads to the machine of the
\* server, and there, once its manager is done, to where a bind of the same port
\* over the same transport leads; and it finds something in the end.
\* What the server's host finds under the client's address, which may be its own
\* machine, it is not allowed to dial.
Rendezvous ==
    /\ \A port \in Services :
          LET found == Host40!GetClient(Ten(50), port)
              bound == Host50!GetServer(port)
          IN  \A i \in DOMAIN found : \A k \in DOMAIN found[i] :
                 /\ Host40!Apply("client", Ten(50))
                 /\ found[i][k].host \in ServerMachine
                 /\ todo50 = <<>> =>
                      \E j \in DOMAIN bound :
                         /\ bound[j].transport = Host40!TransportType[i]
                         /\ Meets(found[i][k], bound[j].address)
    /\ todo40 = <<>> => \E port \in Services : Host40!GetClient(Ten(50), port) # <<>>
    /\ ~Host50!Apply("client", Ten(40))
=============================================================================
