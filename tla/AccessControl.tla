---------------------------- MODULE AccessControl ---------------------------
(***************************************************************************)
(* The access control lists (src/pkg/tiaccoon/accesscontrol/entry.go,      *)
(* manager.go): for each list a map of maps keyed by the two halves of the *)
(* virtual IP.                                                             *)
(***************************************************************************)
EXTENDS Vip

CONSTANTS IPs, defaultPolicy

ASSUME AccessControlAssumption == IPs \subseteq IP /\ defaultPolicy \in BOOLEAN

VARIABLE entries    \* entries[list][upper VIP][lower VIP]

ListNames == {"server", "client"}

\* A Go map is a function; storing under a key adds or replaces it.
Put(map, key, value) ==
    [k \in {key} \cup DOMAIN map |-> IF k = key THEN value ELSE map[k]]

AccessInit == entries = [list \in ListNames |-> <<>>]

\* The inner map of an upper half, made when it is missing.
Inner(list, upper) ==
    IF upper \in DOMAIN entries[list] THEN entries[list][upper] ELSE <<>>

\* Entries.upsert, through UpsertServer and UpsertClient.
UpsertPolicy(list, ip, policy) ==
    LET key == IP2Int(ip)
    IN  entries' = [entries EXCEPT ![list] =
                      Put(@, key.upper,
                          Put(Inner(list, key.upper), key.lower, policy))]

\* Entries.remove, through RemoveServer and RemoveClient.
RemovePolicy(list, ip) ==
    LET key == IP2Int(ip)
        inner == Inner(list, key.upper)
    IN  /\ key.upper \in DOMAIN entries[list]
        /\ entries' = [entries EXCEPT ![list] =
                         Put(@, key.upper,
                             [l \in DOMAIN inner \ {key.lower} |-> inner[l]])]

\* Entries.Apply
Apply(list, ip) ==
    LET key == IP2Int(ip)
    IN  IF key.lower \in DOMAIN Inner(list, key.upper)
        THEN entries[list][key.upper][key.lower]
        ELSE defaultPolicy

AccessNext ==
    \E list \in ListNames, ip \in IPs :
       \/ \E policy \in BOOLEAN : UpsertPolicy(list, ip, policy)
       \/ RemovePolicy(list, ip)

AccessSpec == AccessInit /\ [][AccessNext]_entries

Policy == INSTANCE AccessPolicy WITH
    policy <- [list \in ListNames |-> [ip \in IPs |-> Apply(list, ip)]],
    Same <- Equal

\* The two-level maps behave as the lists they stand for: the last verdict for
\* an address holds in both of its written forms, touches no other address
\* that shares half of the key, and removing it restores the default.
PolicyKept == Policy!Spec
=============================================================================
