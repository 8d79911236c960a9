----------------------------- MODULE MCSeccomp ------------------------------
(***************************************************************************)
(* Values for the constants of Seccomp.                                    *)
(***************************************************************************)
EXTENDS Seccomp, TLC

CONSTANTS t1, t2, c1, c2, eUnix, eTcp, eTcp6, eRdma, vA, vB, vZero

Call1(name, fd, v) == [name |-> name, fd |-> fd, addr |-> v]

TransportDef == [e \in Entries |-> IF e = eUnix THEN "UNIX" ELSE "IPv4"]
ServeUnix == [v \in VAddrs |-> IF v = vA THEN <<eUnix>> ELSE <<>>]

\* vA is allowed, vB is not.
AllowA == [v \in VAddrs |-> v = vA]
ConnFrom == [c \in Conns |-> IF c = c1 THEN vA ELSE vB]

\* The server listens on vA; its peer vB is allowed, vZero is not.
AllowB == [v \in VAddrs |-> v = vB]
ConnFromB == [c \in Conns |-> IF c = c1 THEN vB ELSE vZero]

\* One process; in the second case with two threads.
SelfTgid == [t \in Threads |-> t1]

ServeA == [v \in VAddrs |-> IF v = vA THEN <<eUnix, eTcp>> ELSE <<>>]
DialNone == [v \in VAddrs |-> <<>>]

ServerCalls ==
    {Call1("bind", 3, vA), Call1("listen", 3, None), Call1("accept", 3, None),
     Call1("close", 3, None), Call1("exit_group", 3, None)}

\* vA is dialled through all its transports, IPv6 is not implemented; vZero is
\* allowed and has no destination; vB is denied.
AllowAZero == [v \in VAddrs |-> v # vB]
DialAll == [v \in VAddrs |-> IF v = vZero THEN <<>>
                             ELSE <<{eUnix}, {}, {eTcp6}, {eTcp}>>]
Transport3 == [e \in Entries |-> CASE e = eUnix -> "UNIX"
                                   [] e = eTcp6 -> "IPv6"
                                   [] e = eTcp -> "IPv4"]
Serve6 == [v \in VAddrs |-> IF v = vA THEN <<eTcp6, eTcp>> ELSE <<>>]

ClientCalls ==
    {Call1("connect", 3, v) : v \in {vA, vB, vZero, None}} \cup
    {Call1("bind", 3, v) : v \in {vA, vZero, None}} \cup
    {Call1("listen", 3, None), Call1("accept", 3, None),
     Call1("close", 3, None), Call1("getname", 3, None),
     Call1("setsockopt", 3, None), Call1("setnonblock", 3, None),
     Call1("setblock", 3, None), Call1("getfl", 3, None)}

\* The options of a bound socket.
OptionCalls ==
    {Call1(name, 3, None) : name \in {"getfl", "close"}} \cup
    {Call1("bind", 3, vA)}

\* A process of two threads that may be interrupted, killed and exit.
ServeTcp == [v \in VAddrs |-> IF v = vA THEN <<eTcp>> ELSE <<>>]
ServeRdma == [v \in VAddrs |-> IF v = vA THEN <<eTcp, eRdma>> ELSE <<>>]
DialRdma == [v \in VAddrs |-> <<{}, {eRdma}, {}, {eTcp}>>]
TransportRdma == [e \in Entries |-> IF e = eRdma THEN "RDMA" ELSE "IPv4"]

ThreadCalls ==
    {Call1("bind", 3, vA), Call1("listen", 3, None), Call1("accept", 3, None),
     Call1("connect", 3, vA), Call1("close", 3, None),
     Call1("exit_group", 3, None)}

\* Both peers of `restart` are allowed, and alike.
ConnAlike == [c \in Conns |-> vA]
ConnSymmetry == Permutations(Conns)

\* The exit of the server is left to the other runs.
RestartCalls == {c \in ServerCalls : c.name # "exit_group"}

LiveSpec == FairSpec /\ HonestPeers
=============================================================================
