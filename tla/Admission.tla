----------------------------- MODULE Admission ------------------------------
(***************************************************************************)
(* What the daemons of two hosts promise about the connections between     *)
(* their containers (README.md, "unified access control"): a connection is *)
(* dialled only if the client's list allows the address it goes to, and    *)
(* given to a container only if the server's list allowed the true address *)
(* of the container it comes from; or some address, when the true one of   *)
(* the connection was not sent.  The lists may change at any time.         *)
(***************************************************************************)
CONSTANTS Conns, IPs, Same(_, _)

VARIABLES
    policy,  \* the verdict of each list for each address
    from,    \* the virtual address of the container that dials
    to,      \* the virtual address it dials
    anonymous, \* the connections whose true address is not sent
    stage    \* how far the connection has got

Stages == {"new", "dialled", "admitted", "delivered", "dropped"}

Init ==
    /\ policy \in [{"client", "server"} -> [IPs -> BOOLEAN]]
    /\ from \in [Conns -> IPs]
    /\ to \in [Conns -> IPs]
    /\ anonymous = {}
    /\ stage = [c \in Conns |-> "new"]

Move(c, old, new) == stage[c] = old /\ stage' = [stage EXCEPT ![c] = new]

Dial(c) == policy["client"][to[c]] /\ Move(c, "new", "dialled")

Withhold(c) ==
    /\ stage[c] # "new"
    /\ anonymous' = anonymous \cup {c}
    /\ UNCHANGED stage

Admit(c) ==
    /\ \E ip \in IF c \in anonymous THEN IPs ELSE {from[c]} : policy["server"][ip]
    /\ Move(c, "dialled", "admitted")

Deliver(c) == Move(c, "admitted", "delivered")

Drop(c) ==
    /\ stage[c] # "delivered"
    /\ stage' = [stage EXCEPT ![c] = "dropped"]

Decide(list, ip, verdict) ==
    policy' = [policy EXCEPT ![list] =
                 [i \in IPs |-> IF Same(i, ip) THEN verdict ELSE @[i]]]

Next ==
    \/ /\ \E c \in Conns : Dial(c) \/ Admit(c) \/ Deliver(c) \/ Drop(c)
       /\ UNCHANGED <<policy, from, to, anonymous>>
    \/ /\ \E c \in Conns : Withhold(c)
       /\ UNCHANGED <<policy, from, to>>
    \/ /\ \E list \in {"client", "server"}, ip \in IPs, verdict \in BOOLEAN :
             Decide(list, ip, verdict)
       /\ UNCHANGED <<from, to, anonymous, stage>>

Spec == Init /\ [][Next]_<<policy, from, to, anonymous, stage>>
=============================================================================
