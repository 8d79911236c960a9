---------------------------- MODULE AccessPolicy ----------------------------
(***************************************************************************)
(* What the access control lists promise: each list gives every address    *)
(* the verdict it was last given, or the default, whatever form the        *)
(* address is written in, and the two lists do not touch each other.       *)
(***************************************************************************)
CONSTANTS IPs, defaultPolicy, Same(_, _)

VARIABLE policy

Lists == {"server", "client"}

Set(list, ip, verdict) ==
    policy' = [policy EXCEPT ![list] =
                 [i \in IPs |-> IF Same(i, ip) THEN verdict ELSE @[i]]]

Init == policy = [list \in Lists |-> [i \in IPs |-> defaultPolicy]]

Next ==
    \E list \in Lists, ip \in IPs :
       \/ \E verdict \in BOOLEAN : Set(list, ip, verdict)
       \/ Set(list, ip, defaultPolicy)

Spec == Init /\ [][Next]_policy
=============================================================================
