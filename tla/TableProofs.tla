---------------------------- MODULE TableProofs ----------------------------
(***************************************************************************)
(* The destination table implements Directory and its two halves agree,    *)
(* for any set of addresses that their keys tell apart; and what a manager *)
(* has put in it is at every moment a part of its experiment.              *)
(***************************************************************************)
EXTENDS AccessControlProofs, Manage

\* Two addresses with the same key.
SameKey(a, b) ==
    IP2Int(a).upper = IP2Int(b).upper /\ IP2Int(a).lower = IP2Int(b).lower

LEMMA SameKeys ==
    ASSUME KeysSeparate, NEW a \in IPs, NEW b \in IPs
    PROVE  SameKey(a, b) <=> Equal(a, b)
BY KeyHalves DEF KeysSeparate, SameKey

\* What a map gives after a store.
LEMMA AtPut ==
    ASSUME NEW map, NEW key, NEW value, NEW x
    PROVE  At(Put(map, key, value), x) = IF x = key THEN value ELSE At(map, x)
BY PutAt DEF At

LEMMA AtNothing ==
    ASSUME NEW x
    PROVE  At(<<>>, x) = <<>>
<1>1. DOMAIN <<>> = {}
  OBVIOUS
<1> QED BY <1>1 DEF At

\* The slices under an address after those of another were stored.
LEMMA SlicesAfter ==
    ASSUME NEW ip, NEW port, NEW slices, NEW a, NEW p,
           clientEntries' = WithSlices(ip, port, slices)
    PROVE  Slices(a, p)' = IF SameKey(a, ip) /\ p = port
                           THEN slices ELSE Slices(a, p)
<1> DEFINE k == IP2Int(ip)
           x == IP2Int(a)
           lowers == At(clientEntries, k.upper)
           inner == Put(At(lowers, k.lower), port, slices)
           outer == Put(lowers, k.lower, inner)
<1>1. Slices(a, p)' = At(At(At(Put(clientEntries, k.upper, outer), x.upper), x.lower), p)
  BY DEF Slices, WithSlices, At
<1>2. CASE x.upper # k.upper
  BY <1>1, <1>2, AtPut DEF Slices, SameKey
<1>3. CASE x.upper = k.upper
  <2>1. Slices(a, p)' = At(At(outer, x.lower), p)
    BY <1>1, <1>3, AtPut
  <2>2. CASE x.lower # k.lower
    BY <1>3, <2>1, <2>2, AtPut DEF Slices, SameKey
  <2>3. CASE x.lower = k.lower
    <3>1. Slices(a, p)' = At(inner, p)
      BY <2>1, <2>3, AtPut
    <3> QED BY <1>3, <2>3, <3>1, AtPut DEF Slices, SameKey
  <2> QED BY <2>2, <2>3
<1> QED BY <1>2, <1>3

LEMMA SlicesSame ==
    ASSUME NEW a, NEW b, NEW p, SameKey(a, b)
    PROVE  Slices(a, p) = Slices(b, p)
BY DEF Slices, SameKey

\* The ports that are keys under an address then.
LEMMA StoredAfter ==
    ASSUME NEW ip, NEW port, NEW slices, NEW a, NEW p,
           clientEntries' = WithSlices(ip, port, slices)
    PROVE  Stored(a, p)' <=> Stored(a, p) \/ (SameKey(a, ip) /\ p = port)
<1> DEFINE k == IP2Int(ip)
           x == IP2Int(a)
           lowers == At(clientEntries, k.upper)
           inner == Put(At(lowers, k.lower), port, slices)
           outer == Put(lowers, k.lower, inner)
<1>1. Stored(a, p)' <=>
         p \in DOMAIN At(At(Put(clientEntries, k.upper, outer), x.upper), x.lower)
  BY DEF Stored, WithSlices, At
<1>2. CASE x.upper # k.upper
  BY <1>1, <1>2, AtPut DEF Stored, SameKey
<1>3. CASE x.upper = k.upper
  <2>1. Stored(a, p)' <=> p \in DOMAIN At(outer, x.lower)
    BY <1>1, <1>3, AtPut
  <2>2. CASE x.lower # k.lower
    BY <1>3, <2>1, <2>2, AtPut DEF Stored, SameKey
  <2>3. CASE x.lower = k.lower
    <3>1. Stored(a, p)' <=> p \in DOMAIN inner
      BY <2>1, <2>3, AtPut
    <3> QED BY <1>3, <2>3, <3>1, PutAt DEF Stored, SameKey
  <2> QED BY <2>2, <2>3
<1> QED BY <1>2, <1>3

LEMMA StoredSame ==
    ASSUME NEW a, NEW b, NEW p, SameKey(a, b)
    PROVE  Stored(a, p) <=> Stored(b, p)
BY DEF Stored, SameKey

LEMMA NotStored ==
    ASSUME NEW ip, NEW port, ~Stored(ip, port)
    PROVE  Slices(ip, port) = <<>>
BY DEF Stored, Slices, At

\* Each transport has its place.
LEMMA Places ==
    /\ DOMAIN TransportType = 1 .. 4
    /\ \A i, j \in 1 .. 4 : TransportType[i] = TransportType[j] <=> i = j
BY DEF TransportType

LEMMA PlaceOf ==
    ASSUME NEW t \in UsableTransports
    PROVE  \E j \in 1 .. 4 :
              /\ Kept(j)
              /\ TransportType[j] = t
              /\ (CHOOSE i \in 1 .. 4 : TransportType[i] = t) = j
BY Places DEF UsableTransports

-----------------------------------------------------------------------------
\* A port has a slice for each transport, or nothing; its own host's addresses
\* are a list of entries.
SliceLists == [1 .. 4 -> Seq(Addresses)]
EntryList == Seq([transport : {TransportType[i] : i \in 1 .. 4}, address : Addresses])

DestinationTypes ==
    /\ \A ip \in IPs, port \in Ports : Slices(ip, port) \in SliceLists \cup {<<>>}
    /\ \A port \in Ports : GetServer(port) \in EntryList

\* The addresses of one transport.
Found(ip, port, i) == IF Slices(ip, port) = <<>> THEN <<>> ELSE Slices(ip, port)[i]

LEMMA ListIsSomething ==
    ASSUME NEW l \in SliceLists
    PROVE  l # <<>>
<1>1. DOMAIN l = 1 .. 4 /\ DOMAIN <<>> = {}
  BY DEF SliceLists
<1> QED BY <1>1

LEMMA FoundType ==
    ASSUME DestinationTypes, NEW ip \in IPs, NEW port \in Ports, NEW i \in 1 .. 4
    PROVE  Found(ip, port, i) \in Seq(Addresses)
BY ListIsSomething DEF DestinationTypes, Found, SliceLists

\* An insertion adds an address for one transport of one virtual address.
LEMMA UpsertFound ==
    ASSUME KeysSeparate, DestinationTypes,
           NEW ip \in IPs, NEW port \in Ports, NEW i \in 1 .. 4,
           NEW address \in Addresses, Upsert(ip, port, i, address),
           NEW a \in IPs, NEW p \in Ports
    PROVE  /\ Slices(a, p)' \in SliceLists \cup {<<>>}
           /\ \A j \in 1 .. 4 :
                 Found(a, p, j)' = IF Equal(a, ip) /\ p = port /\ j = i
                                   THEN Append(Found(a, p, j), address)
                                   ELSE Found(a, p, j)
           /\ IF Equal(a, ip) /\ p = port THEN Slices(a, p)' # <<>>
              ELSE Slices(a, p)' = Slices(a, p)
<1> DEFINE old == IF Stored(ip, port) THEN Slices(ip, port)
                  ELSE [j \in 1 .. 4 |-> <<>>]
           new == [old EXCEPT ![i] = Append(@, address)]
<1>1. /\ ~Withdrawn(ip, port)
      /\ clientEntries' = WithSlices(ip, port, new)
  BY Places DEF Upsert
<1>2. old \in SliceLists /\ \A j \in 1 .. 4 : old[j] = Found(ip, port, j)
  <2>1. CASE Stored(ip, port)
    BY <1>1, <2>1 DEF DestinationTypes, Found, Withdrawn
  <2>2. CASE ~Stored(ip, port)
    <3>1. [j \in 1 .. 4 |-> <<>>] \in SliceLists
      BY DEF SliceLists
    <3> QED BY <2>2, <3>1, NotStored DEF Found
  <2> QED BY <2>1, <2>2
<1> HIDE DEF old
<1>3. new \in SliceLists
  BY <1>2 DEF SliceLists
<1>4. \A j \in 1 .. 4 : new[j] = IF j = i THEN Append(old[j], address) ELSE old[j]
  BY <1>2 DEF SliceLists
<1>5. new # <<>>
  BY <1>3, ListIsSomething
<1> HIDE DEF new
<1>6. Slices(a, p)' = IF SameKey(a, ip) /\ p = port THEN new ELSE Slices(a, p)
  BY <1>1, SlicesAfter
<1>7. CASE Equal(a, ip) /\ p = port
  <2>1. Slices(a, p)' = new /\ Slices(a, p) = Slices(ip, port)
    BY <1>6, <1>7, SameKeys, SlicesSame
  <2>2. \A j \in 1 .. 4 : Found(a, p, j)' = new[j] /\ Found(a, p, j) = old[j]
    BY <1>2, <1>5, <2>1 DEF Found
  <2> QED BY <1>3, <1>4, <1>5, <1>7, <2>1, <2>2
<1>8. CASE ~(Equal(a, ip) /\ p = port)
  <2>1. Slices(a, p)' = Slices(a, p)
    BY <1>6, <1>8, SameKeys
  <2> QED BY <1>8, <2>1 DEF Found, DestinationTypes
<1> QED BY <1>7, <1>8

LEMMA UpsertBound ==
    ASSUME NEW ip \in IPs, NEW port \in Ports, NEW i \in 1 .. 4,
           NEW address \in Addresses, Upsert(ip, port, i, address),
           NEW p \in Ports
    PROVE  GetServer(p)' =
             IF Equal(ip, myVIP) /\ p = port
             THEN Append(GetServer(p), [transport |-> TransportType[i], address |-> address])
             ELSE GetServer(p)
<1> DEFINE entry == [transport |-> TransportType[i], address |-> address]
<1>1. serverEntries' =
         IF Mine(ip) THEN Put(serverEntries, port, Append(At(serverEntries, port), entry))
         ELSE serverEntries
  BY DEF Upsert
<1>2. GetServer(p)' = At(serverEntries', p) /\ GetServer(p) = At(serverEntries, p)
  BY DEF GetServer, At
<1> QED BY <1>1, <1>2, AtPut DEF Mine

\* A removal takes all of them.
LEMMA RemoveFound ==
    ASSUME KeysSeparate, DestinationTypes,
           NEW ip \in IPs, NEW port \in Ports, Remove(ip, port),
           NEW a \in IPs, NEW p \in Ports
    PROVE  /\ Slices(a, p)' \in SliceLists \cup {<<>>}
           /\ \A j \in 1 .. 4 :
                 Found(a, p, j)' = IF Equal(a, ip) /\ p = port THEN <<>>
                                   ELSE Found(a, p, j)
           /\ Slices(a, p)' = IF Equal(a, ip) /\ p = port THEN <<>> ELSE Slices(a, p)
<1>1. Slices(a, p)' = IF Equal(a, ip) /\ p = port THEN <<>> ELSE Slices(a, p)
  <2>1. CASE Stored(ip, port)
    <3>1. clientEntries' = WithSlices(ip, port, <<>>)
      BY <2>1 DEF Remove
    <3> QED BY <3>1, SlicesAfter, SameKeys
  <2>2. CASE ~Stored(ip, port)
    <3>1. Slices(a, p)' = Slices(a, p)
      BY <2>2 DEF Remove, Slices, At
    <3> QED BY <2>2, <3>1, NotStored, SameKeys, SlicesSame
  <2> QED BY <2>1, <2>2
<1> QED BY <1>1 DEF Found, DestinationTypes

LEMMA RemoveBound ==
    ASSUME NEW ip \in IPs, NEW port \in Ports, Remove(ip, port), NEW p \in Ports
    PROVE  GetServer(p)' = IF Equal(ip, myVIP) /\ p = port THEN <<>>
                           ELSE GetServer(p)
<1>1. serverEntries' = IF Mine(ip) /\ port \in DOMAIN serverEntries
                       THEN Put(serverEntries, port, <<>>) ELSE serverEntries
  BY DEF Remove
<1>2. GetServer(p)' = At(serverEntries', p) /\ GetServer(p) = At(serverEntries, p)
  BY DEF GetServer, At
<1>3. port \notin DOMAIN serverEntries => At(serverEntries, port) = <<>>
  BY DEF At
<1> QED BY <1>1, <1>2, <1>3, AtPut DEF Mine

\* A panic leaves the tables as they are.
LEMMA TablesSame ==
    ASSUME UNCHANGED <<clientEntries, serverEntries>>
    PROVE  /\ \A a, p : Slices(a, p)' = Slices(a, p)
           /\ \A a, p, j : Found(a, p, j)' = Found(a, p, j)
           /\ \A p : GetServer(p)' = GetServer(p)
BY DEF Slices, Found, GetServer, At

LEMMA InitTables ==
    ASSUME DestinationInit
    PROVE  /\ \A a, p : Slices(a, p) = <<>>
           /\ \A a, p, j : Found(a, p, j) = <<>>
           /\ \A p : GetServer(p) = <<>>
BY AtNothing DEF DestinationInit, Slices, Found, GetServer

\* The steps of the table, each with what it is given.
LEMMA DestinationSteps ==
    ASSUME [DestinationNext]_destinationVars
    PROVE  \/ \E ip \in IPs, port \in Ports, i \in 1 .. 4, address \in Addresses :
                 Upsert(ip, port, i, address)
           \/ \E ip \in IPs, port \in Ports : Remove(ip, port)
           \/ UNCHANGED <<clientEntries, serverEntries>>
BY Places DEF DestinationNext, destinationVars, UpsertPanics, RemovePanics

LEMMA StepTypes ==
    ASSUME KeysSeparate, DestinationTypes, [DestinationNext]_destinationVars
    PROVE  DestinationTypes'
<1>1. ASSUME NEW ip \in IPs, NEW port \in Ports, NEW i \in 1 .. 4,
             NEW address \in Addresses, Upsert(ip, port, i, address)
      PROVE  DestinationTypes'
  <2>1. \A a \in IPs, p \in Ports : Slices(a, p)' \in SliceLists \cup {<<>>}
    BY <1>1, UpsertFound
  <2>2. ASSUME NEW p \in Ports PROVE GetServer(p)' \in EntryList
    <3> DEFINE entry == [transport |-> TransportType[i], address |-> address]
    <3>1. GetServer(p) \in EntryList
      BY DEF DestinationTypes
    <3>2. Append(GetServer(p), entry) \in EntryList
      BY <3>1 DEF EntryList
    <3> HIDE DEF entry
    <3>3. GetServer(p)' \in {GetServer(p), Append(GetServer(p), entry)}
      BY <1>1, UpsertBound DEF entry
    <3> QED BY <3>1, <3>2, <3>3
  <2> QED BY <2>1, <2>2 DEF DestinationTypes
<1>2. ASSUME NEW ip \in IPs, NEW port \in Ports, Remove(ip, port)
      PROVE  DestinationTypes'
  <2>1. \A a \in IPs, p \in Ports : Slices(a, p)' \in SliceLists \cup {<<>>}
    BY <1>2, RemoveFound
  <2>2. ASSUME NEW p \in Ports PROVE GetServer(p)' \in EntryList
    <3>1. GetServer(p) \in EntryList /\ <<>> \in EntryList
      BY DEF DestinationTypes, EntryList
    <3>2. GetServer(p)' \in {GetServer(p), <<>>}
      BY <1>2, RemoveBound
    <3> QED BY <3>1, <3>2
  <2> QED BY <2>1, <2>2 DEF DestinationTypes
<1>3. CASE UNCHANGED <<clientEntries, serverEntries>>
  BY <1>3, TablesSame DEF DestinationTypes
<1> QED BY <1>1, <1>2, <1>3, DestinationSteps

-----------------------------------------------------------------------------
\* Addresses in order, and one more at the end of both lists.
LEMMA OneMore ==
    ASSUME NEW list \in EntryList, NEW i \in 1 .. 4, NEW addresses \in Seq(Addresses),
           NEW address \in Addresses, ListsInOrder(list, i, addresses)
    PROVE  ListsInOrder(Append(list, [transport |-> TransportType[i],
                                      address |-> address]),
                        i, Append(addresses, address))
<1> DEFINE entry == [transport |-> TransportType[i], address |-> address]
           more == Append(list, entry)
           longer == Append(addresses, address)
           n == Len(list)
           m == Len(addresses)
<1>1. PICK pos \in [DOMAIN addresses -> DOMAIN list] :
        /\ \A j, k \in DOMAIN addresses : j < k => pos[j] < pos[k]
        /\ {pos[j] : j \in DOMAIN addresses}
             = {k \in DOMAIN list : list[k].transport = TransportType[i]}
        /\ \A j \in DOMAIN addresses : list[pos[j]].address = addresses[j]
  BY DEF ListsInOrder
<1>2. /\ n \in Nat /\ m \in Nat
      /\ DOMAIN list = 1 .. n /\ DOMAIN addresses = 1 .. m
      /\ DOMAIN more = 1 .. n + 1 /\ DOMAIN longer = 1 .. m + 1
      /\ \A k \in 1 .. n : more[k] = list[k]
      /\ \A j \in 1 .. m : longer[j] = addresses[j]
      /\ more[n + 1] = entry /\ longer[m + 1] = address
  BY DEF EntryList
<1>3. entry.transport = TransportType[i] /\ entry.address = address
  OBVIOUS
<1> DEFINE last == [j \in 1 .. m + 1 |-> IF j = m + 1 THEN n + 1 ELSE pos[j]]
<1> HIDE DEF entry, more, longer, n, m
<1>4. \A j \in 1 .. m : pos[j] \in 1 .. n
  BY <1>1, <1>2
<1>5. last \in [DOMAIN longer -> DOMAIN more]
  BY <1>2, <1>4
<1>6. \A j, k \in 1 .. m + 1 : j < k => last[j] < last[k]
  <2> SUFFICES ASSUME NEW j \in 1 .. m + 1, NEW k \in 1 .. m + 1, j < k
               PROVE  last[j] < last[k]
    OBVIOUS
  <2>1. j \in 1 .. m /\ last[j] = pos[j] /\ pos[j] \in 1 .. n
    BY <1>2, <1>4
  <2>2. CASE k = m + 1
    BY <1>2, <2>1, <2>2
  <2>3. CASE k \in 1 .. m
    <3>1. last[k] = pos[k]
      BY <1>2, <2>3
    <3>2. pos[j] < pos[k]
      BY <1>1, <1>2, <2>1, <2>3
    <3> QED BY <2>1, <3>1, <3>2
  <2> QED BY <1>2, <2>2, <2>3
<1>7. \A j \in 1 .. m + 1 : more[last[j]].address = longer[j]
  <2> SUFFICES ASSUME NEW j \in 1 .. m + 1
               PROVE  more[last[j]].address = longer[j]
    OBVIOUS
  <2>1. CASE j = m + 1
    BY <1>2, <1>3, <2>1
  <2>2. CASE j \in 1 .. m
    <3>1. last[j] = pos[j] /\ pos[j] \in 1 .. n
      BY <1>2, <1>4, <2>2
    <3> QED BY <1>1, <1>2, <2>2, <3>1
  <2> QED BY <1>2, <2>1, <2>2
<1>8. {last[j] : j \in 1 .. m + 1}
        = {k \in 1 .. n + 1 : more[k].transport = TransportType[i]}
  <2>1. ASSUME NEW j \in 1 .. m + 1
        PROVE  last[j] \in 1 .. n + 1 /\ more[last[j]].transport = TransportType[i]
    <3>1. CASE j = m + 1
      BY <1>2, <1>3, <3>1
    <3>2. CASE j \in 1 .. m
      <4>1. pos[j] \in {k \in 1 .. n : list[k].transport = TransportType[i]}
        BY <1>1, <1>2, <3>2
      <4> QED BY <1>2, <3>2, <4>1
    <3> QED BY <1>2, <3>1, <3>2
  <2>2. ASSUME NEW k \in 1 .. n + 1, more[k].transport = TransportType[i]
        PROVE  \E j \in 1 .. m + 1 : last[j] = k
    <3>1. CASE k = n + 1
      BY <1>2, <3>1
    <3>2. CASE k \in 1 .. n
      <4>1. k \in {pos[j] : j \in 1 .. m}
        BY <1>1, <1>2, <2>2, <3>2
      <4>2. PICK j \in 1 .. m : pos[j] = k
        BY <4>1
      <4>3. last[j] = k /\ j \in 1 .. m + 1
        BY <1>2, <4>2
      <4> QED BY <4>3
    <3> QED BY <1>2, <3>1, <3>2
  <2> QED BY <2>1, <2>2
<1> HIDE DEF last
<1>9. ListsInOrder(more, i, longer)
  BY <1>2, <1>5, <1>6, <1>7, <1>8 DEF ListsInOrder
<1> QED BY <1>9 DEF entry, more, longer

\* An entry of another transport.
LEMMA OneOther ==
    ASSUME NEW list \in EntryList, NEW i \in 1 .. 4, NEW addresses \in Seq(Addresses),
           NEW t, NEW address, t # TransportType[i],
           ListsInOrder(list, i, addresses)
    PROVE  ListsInOrder(Append(list, [transport |-> t, address |-> address]),
                        i, addresses)
<1> DEFINE entry == [transport |-> t, address |-> address]
           more == Append(list, entry)
           n == Len(list)
<1>1. PICK pos \in [DOMAIN addresses -> DOMAIN list] :
        /\ \A j, k \in DOMAIN addresses : j < k => pos[j] < pos[k]
        /\ {pos[j] : j \in DOMAIN addresses}
             = {k \in DOMAIN list : list[k].transport = TransportType[i]}
        /\ \A j \in DOMAIN addresses : list[pos[j]].address = addresses[j]
  BY DEF ListsInOrder
<1>2. /\ n \in Nat /\ DOMAIN list = 1 .. n /\ DOMAIN more = 1 .. n + 1
      /\ \A k \in 1 .. n : more[k] = list[k]
      /\ more[n + 1] = entry
  BY DEF EntryList
<1>3. entry.transport # TransportType[i]
  OBVIOUS
<1> HIDE DEF entry, more, n
<1>4. {k \in DOMAIN more : more[k].transport = TransportType[i]}
        = {k \in DOMAIN list : list[k].transport = TransportType[i]}
  BY <1>2, <1>3
<1>5. pos \in [DOMAIN addresses -> DOMAIN more]
  BY <1>2
<1>6. \A j \in DOMAIN addresses : more[pos[j]].address = addresses[j]
  BY <1>1, <1>2
<1>7. ListsInOrder(more, i, addresses)
  BY <1>1, <1>4, <1>5, <1>6 DEF ListsInOrder
<1> QED BY <1>7 DEF entry, more

LEMMA NoneInOrder ==
    ASSUME NEW i
    PROVE  ListsInOrder(<<>>, i, <<>>)
<1> DEFINE pos == [j \in {} |-> 0]
<1>1. DOMAIN <<>> = {}
  OBVIOUS
<1>2. pos \in [{} -> {}]
  OBVIOUS
<1> QED BY <1>1, <1>2 DEF ListsInOrder

LEMMA StepAgree ==
    ASSUME KeysSeparate, DestinationTypes, TablesAgree,
           [DestinationNext]_destinationVars
    PROVE  TablesAgree'
<1> USE DestinationAssumption
<1>0. SUFFICES ASSUME NEW a \in IPs, NEW p \in Ports, Equal(a, myVIP), NEW j \in 1 .. 4
               PROVE  ListsInOrder(GetServer(p)', j, Found(a, p, j)')
  BY Places DEF TablesAgree, Found, GetClient
<1>1. /\ ListsInOrder(GetServer(p), j, Found(a, p, j))
      /\ GetServer(p) \in EntryList
      /\ Found(a, p, j) \in Seq(Addresses)
  BY <1>0, Places, FoundType DEF TablesAgree, Found, GetClient, DestinationTypes
<1>2. \A ip \in IPs : Equal(ip, myVIP) <=> Equal(a, ip)
  BY <1>0 DEF KeysSeparate
<1>3. ASSUME NEW ip \in IPs, NEW port \in Ports, NEW i \in 1 .. 4,
             NEW address \in Addresses, Upsert(ip, port, i, address)
      PROVE  ListsInOrder(GetServer(p)', j, Found(a, p, j)')
  <2> DEFINE here == Equal(a, ip) /\ p = port
             entry == [transport |-> TransportType[i], address |-> address]
  <2>1. GetServer(p)' = IF here THEN Append(GetServer(p), entry) ELSE GetServer(p)
    BY <1>2, <1>3, UpsertBound
  <2>2. Found(a, p, j)' = IF here /\ j = i THEN Append(Found(a, p, j), address)
                          ELSE Found(a, p, j)
    BY <1>3, UpsertFound
  <2>3. ListsInOrder(Append(GetServer(p), entry), j,
           IF j = i THEN Append(Found(a, p, j), address) ELSE Found(a, p, j))
    <3>1. CASE j = i
      BY <1>1, <3>1, OneMore
    <3>2. CASE j # i
      <4>1. TransportType[i] # TransportType[j]
        BY <3>2, Places
      <4> QED BY <1>1, <3>2, <4>1, OneOther
    <3> QED BY <3>1, <3>2
  <2> HIDE DEF entry, here
  <2>4. CASE here
    BY <2>1, <2>2, <2>3, <2>4
  <2>5. CASE ~here
    BY <1>1, <2>1, <2>2, <2>5
  <2> QED BY <2>4, <2>5
<1>4. ASSUME NEW ip \in IPs, NEW port \in Ports, Remove(ip, port)
      PROVE  ListsInOrder(GetServer(p)', j, Found(a, p, j)')
  <2>1. CASE Equal(a, ip) /\ p = port
    <3>1. GetServer(p)' = <<>> /\ Found(a, p, j)' = <<>>
      BY <1>2, <1>4, <2>1, RemoveBound, RemoveFound
    <3> QED BY <3>1, NoneInOrder
  <2>2. CASE ~(Equal(a, ip) /\ p = port)
    <3>1. GetServer(p)' = GetServer(p) /\ Found(a, p, j)' = Found(a, p, j)
      BY <1>2, <1>4, <2>2, RemoveBound, RemoveFound
    <3> QED BY <1>1, <3>1
  <2> QED BY <2>1, <2>2
<1>5. CASE UNCHANGED <<clientEntries, serverEntries>>
  BY <1>1, <1>5, TablesSame
<1> QED BY <1>3, <1>4, <1>5, DestinationSteps

LEMMA InitAgree ==
    ASSUME DestinationInit
    PROVE  DestinationTypes /\ TablesAgree
<1>0. <<>> \in EntryList
  BY DEF EntryList
<1>1. DestinationTypes
  BY <1>0, InitTables DEF DestinationTypes
<1>2. TablesAgree
  BY InitTables, NoneInOrder DEF TablesAgree, GetClient
<1> QED BY <1>1, <1>2

\* Whatever is registered and withdrawn, bind is given for a port of this host
\* the addresses, in the order, that connect is given for it on any other, for
\* any set of addresses that the keys tell apart.
THEOREM BothSidesAgree ==
    ASSUME KeysSeparate
    PROVE  DestinationSpec => []TablesAgree
<1>1. DestinationInit => DestinationTypes /\ TablesAgree
  BY InitAgree
<1>2. DestinationTypes /\ TablesAgree /\ [DestinationNext]_destinationVars
         => (DestinationTypes /\ TablesAgree)'
  BY StepTypes, StepAgree
<1> QED BY <1>1, <1>2, PTL DEF DestinationSpec

-----------------------------------------------------------------------------
\* What the directory that the tables stand for gives.
Place(t) == CHOOSE j \in 1 .. 4 : TransportType[j] = t

ClientView ==
    [ip \in IPs |-> [port \in Ports |->
        [t \in UsableTransports |->
            IF GetClient(ip, port) = <<>> THEN <<>>
            ELSE LET i == CHOOSE j \in 1 .. 4 : TransportType[j] = t
                 IN  GetClient(ip, port)[i]]]]

ServerView == [port \in Ports |-> GetServer(port)]

Slots(ip, port) == [t \in UsableTransports |-> Found(ip, port, Place(t))]
NoSlots == [t \in UsableTransports |-> <<>>]

LEMMA ViewIs ==
    /\ ClientView = [ip \in IPs |-> [port \in Ports |-> Slots(ip, port)]]
    /\ ClientView' = [ip \in IPs |-> [port \in Ports |-> Slots(ip, port)']]
    /\ ServerView' = [port \in Ports |-> GetServer(port)']
BY DEF ClientView, ServerView, Slots, Found, GetClient, Place

\* A port has slices only while it has an address.
SlicesFilled ==
    \A ip \in IPs, port \in Ports :
        Slices(ip, port) # <<>> =>
            \E t \in UsableTransports : Found(ip, port, Place(t)) # <<>>

WithdrawnView == {slot \in IPs \X Ports : Withdrawn(slot[1], slot[2])}

LEMMA WithdrawnIs ==
    ASSUME NEW ip \in IPs, NEW port \in Ports
    PROVE  /\ <<ip, port>> \in WithdrawnView <=> Withdrawn(ip, port)
           /\ (<<ip, port>> \in WithdrawnView)' <=> Withdrawn(ip, port)'
BY DEF WithdrawnView

LEMMA UpsertKeeps ==
    ASSUME KeysSeparate, DestinationTypes, SlicesFilled,
           NEW ip \in IPs, NEW port \in Ports, NEW i \in 1 .. 4,
           NEW address \in Addresses, Upsert(ip, port, i, address)
    PROVE  SlicesFilled' /\ WithdrawnView' = WithdrawnView
<1> DEFINE t0 == TransportType[i]
<1>1. t0 \in UsableTransports /\ Place(t0) = i
  BY Places DEF Upsert, UsableTransports, Place
<1>2. \A t \in UsableTransports : Place(t) \in 1 .. 4
  BY PlaceOf DEF Place
<1>3. ASSUME NEW a \in IPs, NEW p \in Ports, Slices(a, p)' # <<>>
      PROVE  \E t \in UsableTransports : Found(a, p, Place(t))' # <<>>
  <2>1. CASE Equal(a, ip) /\ p = port
    <3>1. Found(a, p, i)' = Append(Found(a, p, i), address)
      BY <2>1, UpsertFound
    <3>2. Found(a, p, i) \in Seq(Addresses)
      BY FoundType
    <3>3. Found(a, p, i)' # <<>>
      BY <3>1, <3>2
    <3>4. Found(a, p, Place(t0))' = Found(a, p, i)'
      BY <1>1 DEF Found
    <3> QED BY <1>1, <3>3, <3>4
  <2>2. CASE ~(Equal(a, ip) /\ p = port)
    <3>1. Slices(a, p)' = Slices(a, p)
      BY <2>2, UpsertFound
    <3>2. PICK t \in UsableTransports : Found(a, p, Place(t)) # <<>>
      BY <1>3, <3>1 DEF SlicesFilled
    <3>3. Found(a, p, Place(t))' = Found(a, p, Place(t))
      BY <3>1 DEF Found
    <3> QED BY <3>2, <3>3
  <2> QED BY <2>1, <2>2
<1>4. SlicesFilled'
  BY <1>3 DEF SlicesFilled
<1>5. ASSUME NEW a \in IPs, NEW p \in Ports
      PROVE  Withdrawn(a, p)' <=> Withdrawn(a, p)
  <2>1. PICK slices : clientEntries' = WithSlices(ip, port, slices)
    BY DEF Upsert
  <2>2. Stored(a, p)' <=> Stored(a, p) \/ (Equal(a, ip) /\ p = port)
    BY <2>1, StoredAfter, SameKeys
  <2>3. CASE Equal(a, ip) /\ p = port
    <3>1. ~Withdrawn(a, p)
      BY <2>3, SameKeys, StoredSame, SlicesSame DEF Upsert, Withdrawn
    <3>2. Slices(a, p)' # <<>>
      BY <2>3, UpsertFound
    <3> QED BY <3>1, <3>2 DEF Withdrawn
  <2>4. CASE ~(Equal(a, ip) /\ p = port)
    BY <2>2, <2>4, UpsertFound DEF Withdrawn
  <2> QED BY <2>3, <2>4
<1>6. WithdrawnView' = WithdrawnView
  BY <1>5 DEF WithdrawnView
<1> QED BY <1>4, <1>6

LEMMA UpsertRegisters ==
    ASSUME alive, KeysSeparate, DestinationTypes, SlicesFilled,
           NEW ip \in IPs, NEW port \in Ports, NEW i \in 1 .. 4,
           NEW address \in Addresses, Upsert(ip, port, i, address)
    PROVE  Book!Next
<1> DEFINE t0 == TransportType[i]
<1>1. t0 \in UsableTransports /\ Place(t0) = i
  BY Places DEF Upsert, UsableTransports, Place
<1>2. \A t \in UsableTransports : Place(t) \in 1 .. 4 /\ (Place(t) = i <=> t = t0)
  BY PlaceOf, Places DEF Place
<1> HIDE DEF t0
<1>3. \A a \in IPs, p \in Ports :
         Slots(a, p)' = IF Equal(a, ip) /\ p = port
                        THEN [Slots(a, p) EXCEPT ![t0] = Append(@, address)]
                        ELSE Slots(a, p)
  <2> SUFFICES ASSUME NEW a \in IPs, NEW p \in Ports
               PROVE  Slots(a, p)' = IF Equal(a, ip) /\ p = port
                                     THEN [Slots(a, p) EXCEPT ![t0] = Append(@, address)]
                                     ELSE Slots(a, p)
    OBVIOUS
  <2>1. Slots(a, p)' = [t \in UsableTransports |-> Found(a, p, Place(t))']
    BY DEF Slots
  <2>2. \A t \in UsableTransports :
           Found(a, p, Place(t))' = IF Equal(a, ip) /\ p = port /\ t = t0
                                    THEN Append(Found(a, p, Place(t)), address)
                                    ELSE Found(a, p, Place(t))
    BY <1>2, UpsertFound
  <2>3. CASE Equal(a, ip) /\ p = port
    BY <1>1, <2>1, <2>2, <2>3 DEF Slots
  <2>4. CASE ~(Equal(a, ip) /\ p = port)
    BY <2>1, <2>2, <2>4 DEF Slots
  <2> QED BY <2>3, <2>4
<1>4. ClientView' = [a \in IPs |->
                       IF Equal(a, ip)
                       THEN [ClientView[a] EXCEPT ![port][t0] = Append(@, address)]
                       ELSE ClientView[a]]
  BY <1>3, ViewIs
<1>5. ServerView' = IF Equal(ip, myVIP)
                    THEN [ServerView EXCEPT ![port] =
                             Append(@, [transport |-> t0, address |-> address])]
                    ELSE ServerView
  <2> DEFINE entry == [transport |-> t0, address |-> address]
  <2> HIDE DEF entry
  <2>1. \A p \in Ports : GetServer(p)' = IF Equal(ip, myVIP) /\ p = port
                                        THEN Append(GetServer(p), entry)
                                        ELSE GetServer(p)
    BY UpsertBound DEF entry, t0
  <2>2. ServerView' = IF Equal(ip, myVIP)
                      THEN [ServerView EXCEPT ![port] = Append(@, entry)]
                      ELSE ServerView
    BY <2>1, ViewIs DEF ServerView
  <2> QED BY <2>2 DEF entry
<1>6. /\ WithdrawnView' = WithdrawnView /\ alive' = alive
      /\ <<ip, port>> \notin WithdrawnView
  BY UpsertKeeps, WithdrawnIs DEF Upsert
<1>7. Book!Register(ip, port, t0, address)
  BY <1>4, <1>5, <1>6 DEF Book!Register, ClientView, ServerView, WithdrawnView
<1> QED BY <1>1, <1>7 DEF Book!Next

LEMMA RemoveKeeps ==
    ASSUME KeysSeparate, DestinationTypes, SlicesFilled,
           NEW ip \in IPs, NEW port \in Ports, Remove(ip, port)
    PROVE  /\ SlicesFilled'
           /\ \A a \in IPs, p \in Ports :
                 Withdrawn(a, p)' <=>
                    \/ Withdrawn(a, p)
                    \/ Slices(ip, port) # <<>> /\ Equal(a, ip) /\ p = port
<1>1. \A a \in IPs, p \in Ports :
         Slices(a, p)' = IF Equal(a, ip) /\ p = port THEN <<>> ELSE Slices(a, p)
  BY RemoveFound
<1>2. SlicesFilled'
  BY <1>1 DEF SlicesFilled, Found
<1>3. ASSUME NEW a \in IPs, NEW p \in Ports
      PROVE  Withdrawn(a, p)' <=>
                \/ Withdrawn(a, p)
                \/ Slices(ip, port) # <<>> /\ Equal(a, ip) /\ p = port
  <2>1. Stored(a, p)' <=> Stored(a, p)
    <3>1. CASE Stored(ip, port)
      <4>1. clientEntries' = WithSlices(ip, port, <<>>)
        BY <3>1 DEF Remove
      <4> QED BY <3>1, <4>1, StoredAfter, StoredSame
    <3>2. CASE ~Stored(ip, port)
      BY <3>2 DEF Remove, Stored, At
    <3> QED BY <3>1, <3>2
  <2>2. Equal(a, ip) => Slices(a, p) = Slices(ip, p) /\ (Stored(a, p) <=> Stored(ip, p))
    BY SameKeys, SlicesSame, StoredSame
  <2>3. Slices(ip, port) # <<>> => Stored(ip, port)
    BY NotStored
  <2>4. ~Withdrawn(ip, port)
    BY DEF Remove
  <2> QED BY <1>1, <2>1, <2>2, <2>3, <2>4 DEF Withdrawn
<1> QED BY <1>2, <1>3

LEMMA RemoveWithdraws ==
    ASSUME alive, KeysSeparate, DestinationTypes, SlicesFilled,
           NEW ip \in IPs, NEW port \in Ports, Remove(ip, port)
    PROVE  Book!Next
<1>1. \A t \in UsableTransports : Place(t) \in 1 .. 4
  BY PlaceOf DEF Place
<1>2. \A a \in IPs, p \in Ports :
         Slots(a, p)' = IF Equal(a, ip) /\ p = port THEN NoSlots ELSE Slots(a, p)
  BY <1>1, RemoveFound DEF Slots, NoSlots
<1>3. ClientView' = [a \in IPs |->
                       IF Equal(a, ip) THEN [ClientView[a] EXCEPT ![port] = NoSlots]
                       ELSE ClientView[a]]
  BY <1>2, ViewIs
<1>4. ServerView' = IF Equal(ip, myVIP) THEN [ServerView EXCEPT ![port] = <<>>]
                    ELSE ServerView
  BY RemoveBound, ViewIs DEF ServerView
<1>5. Slots(ip, port) = NoSlots <=> Slices(ip, port) = <<>>
  <2>1. Slices(ip, port) = <<>> => Slots(ip, port) = NoSlots
    BY DEF Slots, NoSlots, Found
  <2>2. ASSUME Slices(ip, port) # <<>> PROVE Slots(ip, port) # NoSlots
    <3>1. PICK t \in UsableTransports : Found(ip, port, Place(t)) # <<>>
      BY <2>2 DEF SlicesFilled
    <3>2. Slots(ip, port)[t] # NoSlots[t]
      BY <3>1 DEF Slots, NoSlots
    <3> QED BY <3>2
  <2> QED BY <2>1, <2>2
<1>6. WithdrawnView' = IF Slots(ip, port) = NoSlots THEN WithdrawnView
                       ELSE WithdrawnView \cup
                              {<<i, port>> : i \in {j \in IPs : Equal(j, ip)}}
  <2>1. \A a \in IPs, p \in Ports :
           Withdrawn(a, p)' <=>
              \/ Withdrawn(a, p)
              \/ Slots(ip, port) # NoSlots /\ Equal(a, ip) /\ p = port
    BY <1>5, RemoveKeeps
  <2>2. WithdrawnView' = {slot \in IPs \X Ports : Withdrawn(slot[1], slot[2])'}
    BY DEF WithdrawnView
  <2>3. {<<i, port>> : i \in {j \in IPs : Equal(j, ip)}}
          = {slot \in IPs \X Ports : Equal(slot[1], ip) /\ slot[2] = port}
    OBVIOUS
  <2> QED BY <2>1, <2>2, <2>3 DEF WithdrawnView
<1>7. ClientView[ip][port] = Slots(ip, port)
  BY ViewIs
<1>8. <<ip, port>> \notin WithdrawnView /\ alive' = alive
  BY WithdrawnIs DEF Remove
<1>9. Book!Withdraw(ip, port)
  BY <1>3, <1>4, <1>6, <1>7, <1>8
     DEF Book!Withdraw, Book!NoAddress, ClientView, ServerView, NoSlots, WithdrawnView
<1> QED BY <1>9 DEF Book!Next

LEMMA PanicFails ==
    ASSUME alive, NEW ip \in IPs, NEW port \in Ports, Withdrawn(ip, port),
           alive' = FALSE, UNCHANGED <<ClientView, ServerView, WithdrawnView>>
    PROVE  Book!Next
<1>1. Book!Fail(ip, port)
  BY WithdrawnIs DEF Book!Fail, ClientView, ServerView, WithdrawnView
<1> QED BY <1>1 DEF Book!Next

\* The steps of the table with what they find.
LEMMA BookSteps ==
    ASSUME [DestinationNext]_destinationVars
    PROVE  \/ alive /\ \E ip \in IPs, port \in Ports, i \in 1 .. 4,
                        address \in Addresses : Upsert(ip, port, i, address)
           \/ alive /\ \E ip \in IPs, port \in Ports : Remove(ip, port)
           \/ /\ alive /\ alive' = FALSE
              /\ \E ip \in IPs, port \in Ports : Withdrawn(ip, port)
              /\ UNCHANGED <<clientEntries, serverEntries>>
           \/ UNCHANGED destinationVars
BY Places DEF DestinationNext, UpsertPanics, RemovePanics

LEMMA ViewsSame ==
    ASSUME UNCHANGED <<clientEntries, serverEntries>>
    PROVE  UNCHANGED <<ClientView, ServerView, WithdrawnView>>
           /\ (SlicesFilled => SlicesFilled')
<1>1. ASSUME NEW a \in IPs, NEW p \in Ports
      PROVE  Slots(a, p)' = Slots(a, p)
  <2>1. Slots(a, p)' = [t \in UsableTransports |-> Found(a, p, Place(t))']
    BY DEF Slots
  <2> QED BY <2>1, TablesSame DEF Slots
<1>2. ClientView' = ClientView
  BY <1>1, ViewIs
<1>3. ServerView' = ServerView
  BY TablesSame, ViewIs DEF ServerView
<1>4. WithdrawnView' = WithdrawnView
  BY DEF WithdrawnView, Withdrawn, Stored, Slices, At
<1>5. SlicesFilled => SlicesFilled'
  BY TablesSame DEF SlicesFilled
<1> QED BY <1>2, <1>3, <1>4, <1>5

\* The destination table implements Directory: what is registered is found, in
\* order, under either written form of its address and under no other,
\* withdrawing a port withdraws it from both tables, and the table panics when a
\* withdrawn port is used again and at no other time, for any set of addresses
\* that the keys tell apart.
THEOREM TablesImplementDirectory ==
    ASSUME KeysSeparate
    PROVE  DestinationSpec => DirectoryKept
<1>1. DestinationInit => DestinationTypes /\ SlicesFilled
  BY InitAgree, InitTables DEF SlicesFilled
<1>2. DestinationTypes /\ SlicesFilled /\ [DestinationNext]_destinationVars
         => (DestinationTypes /\ SlicesFilled)'
  BY StepTypes, BookSteps, UpsertKeeps, RemoveKeeps, ViewsSame DEF destinationVars
<1>3. DestinationInit => Book!Init
  <2> SUFFICES ASSUME DestinationInit PROVE Book!Init
    OBVIOUS
  <2>1. /\ \A a \in IPs, p \in Ports : GetClient(a, p) = <<>>
        /\ \A p \in Ports : GetServer(p) = <<>>
        /\ alive = TRUE
    BY InitTables DEF GetClient, DestinationInit
  <2>2. \A a \in IPs, p \in Ports : ~Withdrawn(a, p)
    <3>1. DOMAIN <<>> = {}
      OBVIOUS
    <3> QED BY <3>1, AtNothing DEF DestinationInit, Withdrawn, Stored
  <2> QED BY <2>1, <2>2 DEF Book!Init, Book!NoAddress
<1>4. DestinationTypes /\ SlicesFilled /\ [DestinationNext]_destinationVars
         => [Book!Next]_<<ClientView, ServerView, WithdrawnView, alive>>
  <2> SUFFICES ASSUME DestinationTypes, SlicesFilled,
                      [DestinationNext]_destinationVars
               PROVE  [Book!Next]_<<ClientView, ServerView, WithdrawnView, alive>>
    OBVIOUS
  <2>1. UNCHANGED destinationVars
          => UNCHANGED <<ClientView, ServerView, WithdrawnView, alive>>
    BY ViewsSame DEF destinationVars
  <2> QED BY <2>1, UpsertRegisters, RemoveWithdraws, PanicFails, ViewsSame, BookSteps
<1> QED BY <1>1, <1>2, <1>3, <1>4, PTL
        DEF DestinationSpec, DirectoryKept, Book!Spec, Book!directoryVars,
            ClientView, ServerView, WithdrawnView

\* For IPv4 addresses, in either form, nothing more is asked of them.
THEOREM IPv4Directory ==
    ASSUME IPs \subseteq IPv4Forms
    PROVE  DestinationSpec => []TablesAgree /\ DirectoryKept
BY IPv4KeysSeparate, BothSidesAgree, TablesImplementDirectory

-----------------------------------------------------------------------------
(* The manager.  At every moment of the start-up each entry of the           *)
(* experiment is in the table or still to be inserted, and nothing else is. *)

Hosts == {"any", "127.0.0.1", "192.168.20.3", "192.168.20.21", "192.168.20.30",
          "netperf-remote.sock", "netperf-local.sock"}
PhysicalAddresses == [host : Hosts, port : Nat]
Transports4 == {TransportType[i] : i \in 1 .. 4}

\* A line of an experiment: who dials its first address gets to its second.
GoodService(s) ==
    /\ s[1] \in {80, 12865, 22865}
    /\ s[2] \in Transports4
    /\ s[3] \in PhysicalAddresses /\ s[4] \in PhysicalAddresses
    /\ s[3] = s[4] \/ (s[4].host = "any" /\ s[3].port = s[4].port)

LEMMA Services ==
    ASSUME NEW plan \in DOMAIN Experiment
    PROVE  /\ \E n \in {1, 2} : DOMAIN Experiment[plan] = 1 .. n
           /\ \A k \in DOMAIN Experiment[plan] : GoodService(Experiment[plan][k])
<1>0. /\ "UNIX" \in Transports4 /\ "RDMA" \in Transports4 /\ "IPv4" \in Transports4
      /\ "any" \in Hosts
  BY Places DEF TransportType, Transports4, Hosts
<1>1. ASSUME NEW host \in Hosts, NEW vport \in {80, 12865, 22865}, NEW port \in Nat
      PROVE  GoodService(TCP(host, vport, port))
  BY <1>0 DEF TCP, PhysicalAddr, GoodService, PhysicalAddresses
<1>2. ASSUME NEW host \in Hosts, NEW vport \in {80, 12865, 22865}
      PROVE  GoodService(UNIX(vport, host)) /\ GoodService(RDMA(host, vport))
  BY <1>0 DEF UNIX, RDMA, PhysicalAddr, GoodService, PhysicalAddresses
<1>3. ASSUME NEW s, GoodService(s), Experiment[plan] = <<s>>
      PROVE  /\ \E n \in {1, 2} : DOMAIN Experiment[plan] = 1 .. n
             /\ \A k \in DOMAIN Experiment[plan] : GoodService(Experiment[plan][k])
  <2>1. DOMAIN Experiment[plan] = 1 .. 1 /\ Experiment[plan][1] = s
    BY <1>3
  <2>2. \A k \in 1 .. 1 : k = 1
    OBVIOUS
  <2> QED BY <1>3, <2>1, <2>2, Zenon
<1>4. ASSUME NEW s, NEW t, GoodService(s), GoodService(t), Experiment[plan] = <<s, t>>
      PROVE  /\ \E n \in {1, 2} : DOMAIN Experiment[plan] = 1 .. n
             /\ \A k \in DOMAIN Experiment[plan] : GoodService(Experiment[plan][k])
  <2>1. /\ DOMAIN Experiment[plan] = 1 .. 2
        /\ Experiment[plan][1] = s /\ Experiment[plan][2] = t
    BY <1>4
  <2>2. \A k \in 1 .. 2 : k = 1 \/ k = 2
    OBVIOUS
  <2> QED BY <1>4, <2>1, <2>2, Zenon
<1> HIDE DEF GoodService
<1>5. CASE plan = "nginxTCPLocal"
  <2>1. /\ Experiment[plan] = <<TCP("127.0.0.1", 80, 8080)>>
        /\ "127.0.0.1" \in Hosts
    BY <1>5 DEF Experiment, Hosts
  <2>2. GoodService(TCP("127.0.0.1", 80, 8080))
    BY <1>1, <2>1
  <2> QED BY <1>3, <2>1, <2>2
<1>6. CASE plan \in {"netperfTCPLocal", "netperfTCPRemote"}
  <2>1. PICK host \in Hosts :
           Experiment[plan] = <<TCP(host, 12865, 12865), TCP(host, 22865, 22865)>>
    BY <1>6 DEF Experiment, Hosts
  <2>2. GoodService(TCP(host, 12865, 12865)) /\ GoodService(TCP(host, 22865, 22865))
    BY <1>1
  <2> QED BY <1>4, <2>1, <2>2
<1>7. CASE plan = "netperfUNIX"
  <2>1. Experiment[plan] = <<UNIX(12865, "netperf-remote.sock"),
                             UNIX(22865, "netperf-local.sock")>>
    BY <1>7 DEF Experiment
  <2>2. /\ GoodService(UNIX(12865, "netperf-remote.sock"))
        /\ GoodService(UNIX(22865, "netperf-local.sock"))
    BY <1>2 DEF Hosts
  <2> QED BY <1>4, <2>1, <2>2
<1>8. CASE plan \in {"netperfRDMALocal", "netperfRDMARemote"}
  <2>1. PICK host \in Hosts :
           Experiment[plan] = <<RDMA(host, 12865), RDMA(host, 22865)>>
    BY <1>8 DEF Experiment, Hosts
  <2>2. GoodService(RDMA(host, 12865)) /\ GoodService(RDMA(host, 22865))
    BY <1>2
  <2> QED BY <1>4, <2>1, <2>2
<1>9. DOMAIN Experiment = {"nginxTCPLocal", "netperfTCPLocal", "netperfTCPRemote",
                           "netperfUNIX", "netperfRDMALocal", "netperfRDMARemote"}
  BY DEF Experiment
<1> QED BY <1>5, <1>6, <1>7, <1>8, <1>9, Zenon

\* What an experiment inserts: destinations, after a policy.
VIPs == {IPv4(0, 0, 0, 0), myVIP, yourVIP}

Destinations(plan) ==
    LET e == Experiment[plan]
        anywhere == PhysicalAddr("any", 0)
    IN  {Entry(IPv4(0, 0, 0, 0), 0, "IPv4", anywhere),
         Entry(myVIP, 0, "IPv4", anywhere)}
        \cup {Entry(yourVIP, e[k][1], e[k][2], e[k][3]) : k \in DOMAIN e}
        \cup {Entry(myVIP, e[k][1], e[k][2], e[k][4]) : k \in DOMAIN e}

Planned(plan) == {Allow(IPv4(10, 0, 10, 50))} \cup Destinations(plan)

LEMMA EntryIs ==
    ASSUME NEW ip, NEW vport, NEW transport \in Transports4, NEW address
    PROVE  LET x == Entry(ip, vport, transport, address)
           IN  /\ x.op = "destination" /\ x.ip = ip /\ x.port = vport
               /\ x.i \in 1 .. 4 /\ TransportType[x.i] = transport
               /\ x.address = address
<1> DEFINE j == CHOOSE i \in DOMAIN TransportType : TransportType[i] = transport
<1>1. j \in 1 .. 4 /\ TransportType[j] = transport
  BY Places DEF Transports4
<1>2. Entry(ip, vport, transport, address) =
         [op |-> "destination", ip |-> ip, port |-> vport, i |-> j,
          address |-> address]
  BY DEF Entry
<1> HIDE DEF j
<1> QED BY <1>1, <1>2

LEMMA ServiceEntry ==
    ASSUME NEW s, GoodService(s), NEW ip \in {myVIP, yourVIP},
           NEW address \in {s[3], s[4]}, NEW x, x = Entry(ip, s[1], s[2], address)
    PROVE  /\ x.op = "destination" /\ x.ip = ip /\ x.ip \in VIPs
           /\ x.port = s[1] /\ x.port \in Nat
           /\ x.i \in 1 .. 4 /\ TransportType[x.i] = s[2]
           /\ x.address = address /\ x.address \in PhysicalAddresses
<1>1. /\ s[1] \in Nat /\ s[2] \in Transports4
      /\ address \in PhysicalAddresses /\ ip \in VIPs
  BY DEF GoodService, VIPs
<1> QED BY <1>1, EntryIs

LEMMA DestinationIs ==
    ASSUME NEW plan \in DOMAIN Experiment, NEW x \in Destinations(plan)
    PROVE  /\ x.op = "destination" /\ x.ip \in VIPs /\ x.port \in Nat
           /\ x.i \in 1 .. 4 /\ x.address \in PhysicalAddresses
           /\ \/ x.port = 0
              \/ \E k \in DOMAIN Experiment[plan] :
                    LET s == Experiment[plan][k]
                    IN  /\ x.port = s[1] /\ TransportType[x.i] = s[2]
                        /\ \/ x.ip = yourVIP /\ x.address = s[3]
                           \/ x.ip = myVIP /\ x.address = s[4]
<1> DEFINE e == Experiment[plan]
           anywhere == PhysicalAddr("any", 0)
<1>0. "IPv4" \in Transports4 /\ anywhere \in PhysicalAddresses
  BY Places DEF TransportType, Transports4, PhysicalAddr, PhysicalAddresses, Hosts
<1>1. \A k \in DOMAIN e : GoodService(e[k])
  BY Services
<1>2. CASE x = Entry(IPv4(0, 0, 0, 0), 0, "IPv4", anywhere)
           \/ x = Entry(myVIP, 0, "IPv4", anywhere)
  BY <1>0, <1>2, EntryIs DEF VIPs
<1>3. ASSUME NEW k \in DOMAIN e,
             \/ x = Entry(yourVIP, e[k][1], e[k][2], e[k][3])
             \/ x = Entry(myVIP, e[k][1], e[k][2], e[k][4])
      PROVE  /\ x.op = "destination" /\ x.ip \in VIPs /\ x.port \in Nat
             /\ x.i \in 1 .. 4 /\ x.address \in PhysicalAddresses
             /\ x.port = e[k][1] /\ TransportType[x.i] = e[k][2]
             /\ \/ x.ip = yourVIP /\ x.address = e[k][3]
                \/ x.ip = myVIP /\ x.address = e[k][4]
  BY <1>1, <1>3, ServiceEntry
<1> QED BY <1>2, <1>3 DEF Destinations

\* Everything in one list is in another.
Within(s, u) == \A k \in 1 .. Len(s) : \E j \in 1 .. Len(u) : u[j] = s[k]

LEMMA WithinWithin ==
    ASSUME NEW s, NEW t, NEW u, Within(s, t), Within(t, u)
    PROVE  Within(s, u)
BY Zenon DEF Within

LEMMA Joined ==
    ASSUME NEW S, NEW s \in Seq(S), NEW t \in Seq(S)
    PROVE  s \o t \in Seq(S) /\ Within(s, s \o t) /\ Within(t, s \o t)
<1>1. /\ s \o t \in Seq(S) /\ Len(s \o t) = Len(s) + Len(t)
      /\ \A i \in 1 .. Len(s) + Len(t) :
            (s \o t)[i] = IF i <= Len(s) THEN s[i] ELSE t[i - Len(s)]
  BY ConcatProperties, Zenon
<1>2. Len(s) \in Nat /\ Len(t) \in Nat
  BY LenProperties
<1> DEFINE u == s \o t
           m == Len(s)
<1> HIDE DEF u
<1>3. ASSUME NEW k \in 1 .. Len(s) PROVE \E j \in 1 .. Len(u) : u[j] = s[k]
  <2>1. k \in 1 .. Len(u) /\ u[k] = s[k]
    BY <1>1, <1>2 DEF u
  <2> QED BY <2>1
<1>4. ASSUME NEW k \in 1 .. Len(t) PROVE \E j \in 1 .. Len(u) : u[j] = t[k]
  <2>1. m + k \in 1 .. Len(u) /\ u[m + k] = t[k]
    BY <1>1, <1>2 DEF u
  <2> QED BY <2>1
<1>5. Within(s, u) /\ Within(t, u)
  BY <1>3, <1>4, Zenon DEF Within
<1> QED BY <1>1, <1>5 DEF u

LEMMA JoinedThree ==
    ASSUME NEW S, NEW s \in Seq(S), NEW t \in Seq(S), NEW u \in Seq(S),
           NEW all, all = (s \o t) \o u
    PROVE  all \in Seq(S) /\ Within(s, all) /\ Within(t, all) /\ Within(u, all)
<1>1. s \o t \in Seq(S) /\ Within(s, s \o t) /\ Within(t, s \o t)
  BY Joined
<1>2. all \in Seq(S) /\ Within(s \o t, all) /\ Within(u, all)
  BY <1>1, Joined
<1> QED BY <1>1, <1>2, WithinWithin, Zenon

LEMMA TailJoined ==
    ASSUME NEW S, NEW D, NEW s \in Seq(S), NEW t \in Seq(S), t \in Seq(D),
           s # <<>>, Tail(s) \in Seq(D)
    PROVE  /\ s \o t \in Seq(S) /\ s \o t # <<>>
           /\ Head(s \o t) = Head(s) /\ Tail(s \o t) \in Seq(D)
<1> DEFINE u == s \o t
           m == Len(s)
           n == Len(t)
<1>1. /\ m \in Nat /\ n \in Nat /\ m # 0
      /\ u \in Seq(S) /\ Len(u) = m + n
      /\ \A i \in 1 .. m + n : u[i] = IF i <= m THEN s[i] ELSE t[i - m]
  BY ConcatProperties, LenProperties, EmptySeq
<1> HIDE DEF u
<1>2. /\ Head(s) = s[1] /\ Len(Tail(s)) = m - 1
      /\ \A i \in 1 .. m - 1 : Tail(s)[i] = s[i + 1] /\ Tail(s)[i] \in D
  BY HeadTailProperties, ElementOfSeq
<1>3. u # <<>>
  BY <1>1, EmptySeq
<1>4. /\ Head(u) = u[1] /\ Tail(u) \in Seq(S) /\ Len(Tail(u)) = m + n - 1
      /\ \A i \in 1 .. m + n - 1 : Tail(u)[i] = u[i + 1]
  BY <1>1, <1>3, HeadTailProperties
<1>5. \A i \in 1 .. n : t[i] \in D
  BY ElementOfSeq
<1>6. ASSUME NEW i \in 1 .. m + n - 1 PROVE Tail(u)[i] \in D
  <2>1. i + 1 \in 1 .. m + n /\ Tail(u)[i] = u[i + 1]
    BY <1>1, <1>4
  <2>2. CASE i + 1 <= m
    <3>1. i \in 1 .. m - 1 /\ u[i + 1] = s[i + 1]
      BY <1>1, <2>1, <2>2
    <3> QED BY <1>2, <2>1, <3>1
  <2>3. CASE ~(i + 1 <= m)
    <3>1. i + 1 - m \in 1 .. n /\ u[i + 1] = t[i + 1 - m]
      BY <1>1, <2>1, <2>3
    <3> QED BY <1>5, <2>1, <3>1
  <2> QED BY <2>2, <2>3
<1>7. Tail(u) \in Seq(D)
  <2>1. Tail(u) = [i \in 1 .. Len(Tail(u)) |-> Tail(u)[i]]
    BY <1>4, LenProperties
  <2>2. Len(Tail(u)) \in Nat
    BY <1>4, LenProperties
  <2>3. [i \in 1 .. Len(Tail(u)) |-> Tail(u)[i]] \in [1 .. Len(Tail(u)) -> D]
    BY <1>4, <1>6
  <2> DEFINE v == [i \in 1 .. Len(Tail(u)) |-> Tail(u)[i]]
             k == Len(Tail(u))
  <2> HIDE DEF v, k
  <2>4. k \in Nat /\ v \in [1 .. k -> D]
    BY <2>2, <2>3 DEF v, k
  <2>5. v \in Seq(D)
    BY <2>4, SeqDef
  <2> QED BY <2>1, <2>5 DEF v
<1> QED BY <1>1, <1>2, <1>3, <1>4, <1>7 DEF u

LEMMA InsertionsAre ==
    ASSUME NEW plan \in DOMAIN Experiment
    PROVE  /\ Insertions(plan) \in Seq(Planned(plan))
           /\ \A x \in Destinations(plan) :
                 \E k \in DOMAIN Insertions(plan) : Insertions(plan)[k] = x
           /\ Insertions(plan) # <<>>
           /\ Head(Insertions(plan)) = Allow(IPv4(10, 0, 10, 50))
           /\ Tail(Insertions(plan)) \in Seq(Destinations(plan))
<1> DEFINE e == Experiment[plan]
           P == Planned(plan)
           D == Destinations(plan)
           anywhere == PhysicalAddr("any", 0)
           a == Allow(IPv4(10, 0, 10, 50))
           b == Entry(IPv4(0, 0, 0, 0), 0, "IPv4", anywhere)
           c == Entry(myVIP, 0, "IPv4", anywhere)
           first == <<a, b, c>>
           Y(k) == Entry(yourVIP, e[k][1], e[k][2], e[k][3])
           M(k) == Entry(myVIP, e[k][1], e[k][2], e[k][4])
           yours == [k \in DOMAIN e |-> Y(k)]
           mine == [k \in DOMAIN e |-> M(k)]
<1>0. PICK n \in Nat : DOMAIN e = 1 .. n
  BY Services
<1>1. /\ Insertions(plan) = (first \o yours) \o mine
      /\ {a, b, c} \subseteq P
      /\ \A k \in DOMAIN e : Y(k) \in P /\ M(k) \in P
      /\ {b, c} \subseteq D
      /\ \A k \in DOMAIN e : Y(k) \in D /\ M(k) \in D
      /\ \A x \in Destinations(plan) :
            \/ x = b \/ x = c
            \/ \E k \in DOMAIN e : x = Y(k) \/ x = M(k)
  BY DEF Insertions, Planned, Destinations
<1> HIDE DEF P, D, a, b, c, Y, M, e
<1>2. /\ first \in Seq(P) /\ Len(first) = 3
      /\ first[1] = a /\ first[2] = b /\ first[3] = c
  BY <1>1
<1>3. /\ yours \in Seq(P) /\ Len(yours) = n /\ mine \in Seq(P) /\ Len(mine) = n
      /\ yours \in Seq(D) /\ mine \in Seq(D)
  <2>1. yours \in [1 .. n -> P] /\ mine \in [1 .. n -> P]
    BY <1>0, <1>1
  <2>3. yours \in [1 .. n -> D] /\ mine \in [1 .. n -> D]
    BY <1>0, <1>1
  <2>2. yours \in Seq(P) /\ mine \in Seq(P) /\ yours \in Seq(D) /\ mine \in Seq(D)
    BY <2>1, <2>3, SeqDef
  <2> QED BY <2>1, <2>2, LenProperties
<1>4. \A k \in 1 .. n : yours[k] = Y(k) /\ mine[k] = M(k)
  BY <1>0
<1> DEFINE all == Insertions(plan)
<1> HIDE DEF first, yours, mine, all
<1>5. /\ all \in Seq(P)
      /\ Within(first, all) /\ Within(yours, all) /\ Within(mine, all)
  <2>1. all = (first \o yours) \o mine
    BY <1>1 DEF all
  <2> HIDE DEF all
  <2> QED BY <1>2, <1>3, <2>1, JoinedThree
<1>6. DOMAIN all = 1 .. Len(all) /\ 2 \in 1 .. Len(first) /\ 3 \in 1 .. Len(first)
  BY <1>2, <1>5, LenProperties
<1>7. ASSUME NEW x \in Destinations(plan)
      PROVE  \E k \in DOMAIN all : all[k] = x
  <2>1. CASE x = b \/ x = c
    <3>1. PICK k \in {2, 3} : first[k] = x
      BY <1>2, <2>1
    <3>2. k \in 1 .. Len(first)
      BY <1>6, <3>1
    <3> QED BY <1>5, <1>6, <3>1, <3>2 DEF Within
  <2>2. ASSUME NEW k \in 1 .. n, x = Y(k) \/ x = M(k)
        PROVE  \E j \in DOMAIN all : all[j] = x
    <3>1. \E j \in {yours, mine} : k \in 1 .. Len(j) /\ j[k] = x /\ Within(j, all)
      BY <1>3, <1>4, <1>5, <2>2
    <3> QED BY <1>6, <3>1 DEF Within
  <2> QED BY <1>0, <1>1, <2>1, <2>2
<1>8. all # <<>> /\ Head(all) = a /\ Tail(all) \in Seq(D)
  <2>1. all = (first \o yours) \o mine
    BY <1>1 DEF all
  <2>2. first # <<>> /\ Head(first) = a /\ Tail(first) \in Seq(D)
    <3>1. Tail(<<a, b, c>>) = <<b, c>> /\ Head(<<a, b, c>>) = a
      OBVIOUS
    <3>2. <<b, c>> \in Seq(D)
      BY <1>1
    <3> QED BY <3>1, <3>2 DEF first
  <2>3. /\ first \o yours \in Seq(P) /\ first \o yours # <<>>
        /\ Head(first \o yours) = a /\ Tail(first \o yours) \in Seq(D)
    BY <1>2, <1>3, <2>2, TailJoined
  <2> QED BY <1>3, <2>1, <2>3, TailJoined
<1> QED BY <1>5, <1>7, <1>8 DEF P, D, a, all

-----------------------------------------------------------------------------
\* What connect finds was planned.
PlannedSlices(plan, ip, port, slices) ==
    /\ slices \in [1 .. 4 -> Seq(PhysicalAddresses)]
    /\ \A i \in 1 .. 4 : \A k \in 1 .. Len(slices[i]) :
          \E x \in Destinations(plan) :
             /\ SameKey(x.ip, ip) /\ x.port = port
             /\ x.i = i /\ x.address = slices[i][k]

FoundPlanned(plan) ==
    \A ip \in VIPs, port \in Nat :
        Slices(ip, port) = <<>> \/ PlannedSlices(plan, ip, port, Slices(ip, port))

\* What bind is given for this host's addresses.
Bound == [transport : Transports4, address : PhysicalAddresses]
BoundOK == \A port \in Nat : GetServer(port) \in Seq(Bound)

Lists(l, b) == \E k \in 1 .. Len(l) : l[k] = b

Inserted(x) ==
    /\ Slices(x.ip, x.port) # <<>>
    /\ Mine(x.ip) =>
          Lists(GetServer(x.port),
                [transport |-> TransportType[x.i], address |-> x.address])

LEMMA OneMoreListed ==
    ASSUME NEW S, NEW l \in Seq(S), NEW b \in S
    PROVE  /\ Append(l, b) \in Seq(S) /\ Lists(Append(l, b), b)
           /\ \A c : Lists(l, c) => Lists(Append(l, b), c)
<1> DEFINE m == Append(l, b)
<1>1. /\ m \in Seq(S) /\ Len(m) = Len(l) + 1 /\ Len(l) \in Nat
      /\ \A k \in 1 .. Len(l) : m[k] = l[k]
      /\ m[Len(l) + 1] = b
  BY AppendProperties, LenProperties
<1> HIDE DEF m
<1>2. Len(l) + 1 \in 1 .. Len(m) /\ \A k \in 1 .. Len(l) : k \in 1 .. Len(m)
  BY <1>1
<1>3. Lists(m, b)
  BY <1>1, <1>2 DEF Lists
<1>4. \A c : Lists(l, c) => Lists(m, c)
  BY <1>1, <1>2 DEF Lists
<1> QED BY <1>1, <1>3, <1>4 DEF m

\* What was planned is in the tables or to come.
PlanKept(plan) ==
    \A x \in Destinations(plan) : Kept(x.i) =>
        Lists(todo, x) \/ Inserted(x)

PlanInv(plan) ==
    /\ todo \in Seq(Planned(plan))
    /\ FoundPlanned(plan) /\ BoundOK /\ PlanKept(plan)

LEMMA InitPlan ==
    ASSUME NEW plan \in DOMAIN Experiment, ManageInit(plan)
    PROVE  PlanInv(plan)
<1>1. todo = Insertions(plan)
  BY DEF ManageInit
<1>2. todo \in Seq(Planned(plan)) /\ PlanKept(plan)
  <2>1. todo \in Seq(Planned(plan)) /\ DOMAIN todo = 1 .. Len(todo)
    BY <1>1, InsertionsAre, LenProperties
  <2> QED BY <1>1, <2>1, InsertionsAre DEF PlanKept, Lists
<1>3. \A ip, port : Slices(ip, port) = <<>>
  BY AtNothing DEF ManageInit, DestinationInit, Slices
<1>4. \A port : GetServer(port) = <<>>
  BY AtNothing DEF ManageInit, DestinationInit, GetServer
<1>5. BoundOK
  <2>1. \A S : <<>> \in Seq(S)
    OBVIOUS
  <2> QED BY <1>4, <2>1, Zenon DEF BoundOK
<1>6. FoundPlanned(plan)
  BY <1>3 DEF FoundPlanned
<1> QED BY <1>2, <1>5, <1>6 DEF PlanInv

\* What is still to come after the head of todo was taken.
LEMMA TakenHead ==
    ASSUME NEW S, todo \in Seq(S), todo # <<>>, todo' = Tail(todo)
    PROVE  /\ todo' \in Seq(S) /\ Head(todo) \in S
           /\ \A x : Lists(todo, x) => x = Head(todo) \/ Lists(todo', x)
<1>1. /\ Head(todo) \in S /\ Tail(todo) \in Seq(S)
      /\ Len(Tail(todo)) = Len(todo) - 1
      /\ \A i \in 1 .. Len(Tail(todo)) : Tail(todo)[i] = todo[i + 1]
      /\ Head(todo) = todo[1] /\ Len(todo) \in Nat
  BY HeadTailProperties, LenProperties
<1>2. ASSUME NEW x, NEW k \in 1 .. Len(todo), todo[k] = x, k # 1
      PROVE  \E j \in 1 .. Len(todo)' : todo'[j] = x
  <2>1. k - 1 \in 1 .. Len(todo)' /\ todo'[k - 1] = todo[(k - 1) + 1]
    BY <1>1, <1>2
  <2>2. (k - 1) + 1 = k
    OBVIOUS
  <2> QED BY <1>2, <2>1, <2>2
<1> QED BY <1>1, <1>2 DEF Lists

LEMMA PolicyPlan ==
    ASSUME NEW plan \in DOMAIN Experiment, PlanInv(plan), ManagePolicy
    PROVE  PlanInv(plan)'
<1>1. /\ todo \in Seq(Planned(plan)) /\ todo # <<>> /\ todo' = Tail(todo)
      /\ Head(todo).op = "client policy" /\ UNCHANGED destinationVars
  BY DEF PlanInv, ManagePolicy
<1>2. /\ todo' \in Seq(Planned(plan))
      /\ \A x : Lists(todo, x) => x = Head(todo) \/ Lists(todo', x)
  BY <1>1, TakenHead
<1>3. \A x \in Destinations(plan) : x # Head(todo)
  BY <1>1, DestinationIs
<1>4. /\ \A ip, port : Slices(ip, port)' = Slices(ip, port)
      /\ \A port : GetServer(port)' = GetServer(port)
  BY <1>1 DEF destinationVars, Slices, GetServer, At
<1>5. FoundPlanned(plan)' /\ BoundOK'
  BY <1>4 DEF PlanInv, FoundPlanned, BoundOK
<1>6. \A x : Inserted(x) => Inserted(x)'
  BY <1>4 DEF Inserted
<1>7. PlanKept(plan)'
  BY <1>2, <1>3, <1>6 DEF PlanInv, PlanKept
<1> QED BY <1>2, <1>5, <1>7 DEF PlanInv

\* What Upsert stores under an address.
LEMMA StoredSlices ==
    ASSUME NEW plan \in DOMAIN Experiment, FoundPlanned(plan),
           NEW e \in Destinations(plan), Upsert(e.ip, e.port, e.i, e.address)
    PROVE  \E new :
              /\ new # <<>>
              /\ clientEntries' = WithSlices(e.ip, e.port, new)
              /\ PlannedSlices(plan, e.ip, e.port, new)
<1> DEFINE S == Seq(PhysicalAddresses)
           old == IF Stored(e.ip, e.port) THEN Slices(e.ip, e.port)
                  ELSE [j \in 1 .. 4 |-> <<>>]
           new == [old EXCEPT ![e.i] = Append(@, e.address)]
           OK(i, address) == \E x \in Destinations(plan) :
                                /\ SameKey(x.ip, e.ip) /\ x.port = e.port
                                /\ x.i = i /\ x.address = address
<1>1. /\ e.ip \in VIPs /\ e.port \in Nat
      /\ e.i \in 1 .. 4 /\ e.address \in PhysicalAddresses
  BY DestinationIs
<1>2. /\ Stored(e.ip, e.port) => Slices(e.ip, e.port) # <<>>
      /\ clientEntries' = WithSlices(e.ip, e.port, new)
  BY Places DEF Upsert, Withdrawn
<1>3. OK(e.i, e.address)
  BY DEF SameKey
<1>4. /\ old \in [1 .. 4 -> S]
      /\ \A i \in 1 .. 4 : \A k \in 1 .. Len(old[i]) : OK(i, old[i][k])
  <2>1. CASE Stored(e.ip, e.port)
    <3>1. old = Slices(e.ip, e.port)
      BY <2>1
    <3>2. PlannedSlices(plan, e.ip, e.port, Slices(e.ip, e.port))
      BY <1>1, <1>2, <3>1 DEF FoundPlanned
    <3> HIDE DEF old
    <3> QED BY <3>1, <3>2 DEF PlannedSlices
  <2>2. CASE ~Stored(e.ip, e.port)
    <3>1. old = [j \in 1 .. 4 |-> <<>>]
      BY <2>2
    <3>2. <<>> \in S /\ \A k \in 1 .. Len(<<>>) : FALSE
      OBVIOUS
    <3> HIDE DEF S, OK, old
    <3> QED BY <3>1, <3>2
  <2> QED BY <2>1, <2>2
<1> HIDE DEF S, OK, old
<1>5. /\ old[e.i] \in S
      /\ \A i \in 1 .. 4 : new[i] = IF i = e.i THEN Append(old[i], e.address) ELSE old[i]
  BY <1>1, <1>4
<1>6. /\ Append(old[e.i], e.address) \in S
      /\ \A k \in 1 .. Len(Append(old[e.i], e.address)) :
            \/ Append(old[e.i], e.address)[k] = e.address
            \/ /\ k \in 1 .. Len(old[e.i])
               /\ Append(old[e.i], e.address)[k] = old[e.i][k]
  <2> DEFINE s == old[e.i]
  <2>1. s \in S
    BY <1>5
  <2> HIDE DEF s
  <2>2. /\ Append(s, e.address) \in S
        /\ Len(Append(s, e.address)) = Len(s) + 1
        /\ \A k \in 1 .. Len(s) : Append(s, e.address)[k] = s[k]
        /\ Append(s, e.address)[Len(s) + 1] = e.address
    BY <1>1, <2>1, AppendProperties DEF S
  <2>3. Len(s) \in Nat
    BY <2>1, LenProperties DEF S
  <2>4. \A k \in 1 .. Len(s) + 1 : k = Len(s) + 1 \/ k \in 1 .. Len(s)
    BY <2>3
  <2> QED BY <2>2, <2>4 DEF s
<1>7. new \in [1 .. 4 -> S] /\ new # <<>>
  <2>1. new \in [1 .. 4 -> S]
    BY <1>4, <1>6
  <2>2. DOMAIN new = 1 .. 4 /\ DOMAIN <<>> = {} /\ 1 \in 1 .. 4
    BY <2>1
  <2> QED BY <2>1, <2>2
<1> HIDE DEF new
<1>8. ASSUME NEW i \in 1 .. 4, NEW k \in 1 .. Len(new[i])
      PROVE  OK(i, new[i][k])
  <2>1. CASE i = e.i
    BY <1>3, <1>4, <1>5, <1>6, <2>1
  <2>2. CASE i # e.i
    BY <1>4, <1>5, <2>2
  <2> QED BY <2>1, <2>2
<1>9. PlannedSlices(plan, e.ip, e.port, new)
  BY <1>7, <1>8 DEF S, OK, PlannedSlices
<1> QED BY <1>2, <1>7, <1>9 DEF new

\* What it does to what bind is given.
LEMMA StoredBound ==
    ASSUME NEW ip, NEW port, NEW i, NEW address, Upsert(ip, port, i, address), NEW p
    PROVE  GetServer(p)' =
             IF Mine(ip) /\ p = port
             THEN Append(GetServer(p), [transport |-> TransportType[i],
                                        address |-> address])
             ELSE GetServer(p)
<1>1. serverEntries' =
         IF Mine(ip)
         THEN Put(serverEntries, port,
                  Append(At(serverEntries, port),
                         [transport |-> TransportType[i], address |-> address]))
         ELSE serverEntries
  BY DEF Upsert
<1>2. GetServer(p)' = At(serverEntries', p) /\ GetServer(p) = At(serverEntries, p)
  BY DEF GetServer, At
<1> QED BY <1>1, <1>2, AtPut

LEMMA EntryPlan ==
    ASSUME NEW plan \in DOMAIN Experiment, PlanInv(plan), ManageEntry
    PROVE  PlanInv(plan)'
<1>0. PICK e : e = Head(todo)
  OBVIOUS
<1> DEFINE b == [transport |-> TransportType[e.i], address |-> e.address]
<1>1. /\ todo \in Seq(Planned(plan)) /\ todo # <<>> /\ todo' = Tail(todo)
      /\ e.op = "destination"
      /\ IF Kept(e.i) THEN Upsert(e.ip, e.port, e.i, e.address)
         ELSE UNCHANGED destinationVars
  BY <1>0 DEF PlanInv, ManageEntry
<1>2. /\ todo' \in Seq(Planned(plan)) /\ e \in Planned(plan)
      /\ \A x : Lists(todo, x) => x = e \/ Lists(todo', x)
  BY <1>0, <1>1, TakenHead
<1>3. e \in Destinations(plan)
  <2>1. Allow(IPv4(10, 0, 10, 50)).op = "client policy"
    BY DEF Allow
  <2> QED BY <1>1, <1>2, <2>1 DEF Planned
<1>4. /\ e.ip \in VIPs /\ e.port \in Nat
      /\ e.i \in 1 .. 4 /\ e.address \in PhysicalAddresses
  BY <1>3, DestinationIs
<1>5. CASE ~Kept(e.i)
  <2>1. /\ \A ip, port : Slices(ip, port)' = Slices(ip, port)
        /\ \A port : GetServer(port)' = GetServer(port)
    BY <1>1, <1>5 DEF destinationVars, Slices, GetServer, At
  <2>2. FoundPlanned(plan)' /\ BoundOK'
    BY <2>1 DEF PlanInv, FoundPlanned, BoundOK
  <2>3. \A x : Inserted(x) => Inserted(x)'
    BY <2>1 DEF Inserted
  <2>4. PlanKept(plan)'
    BY <1>2, <1>5, <2>3 DEF PlanInv, PlanKept
  <2> QED BY <1>2, <2>2, <2>4 DEF PlanInv
<1>6. CASE Kept(e.i)
  <2>0. Upsert(e.ip, e.port, e.i, e.address) /\ FoundPlanned(plan) /\ BoundOK
    BY <1>1, <1>6 DEF PlanInv
  <2>1. PICK new :
              /\ new # <<>>
              /\ clientEntries' = WithSlices(e.ip, e.port, new)
              /\ PlannedSlices(plan, e.ip, e.port, new)
    BY <1>3, <2>0, StoredSlices
  <2>2. \A a, p : Slices(a, p)' = IF SameKey(a, e.ip) /\ p = e.port
                                  THEN new ELSE Slices(a, p)
    BY <2>1, SlicesAfter
  <2>3. FoundPlanned(plan)'
    <3> SUFFICES ASSUME NEW ip \in VIPs, NEW port \in Nat
                 PROVE  \/ Slices(ip, port)' = <<>>
                        \/ PlannedSlices(plan, ip, port, Slices(ip, port)')
      BY DEF FoundPlanned, PlannedSlices
    <3>1. CASE SameKey(ip, e.ip) /\ port = e.port
      <4>1. \A x : SameKey(x.ip, e.ip) => SameKey(x.ip, ip)
        BY <3>1 DEF SameKey
      <4>2. PlannedSlices(plan, ip, port, new)
        BY <2>1, <3>1, <4>1 DEF PlannedSlices
      <4> QED BY <2>2, <3>1, <4>2
    <3>2. CASE ~(SameKey(ip, e.ip) /\ port = e.port)
      <4>1. Slices(ip, port)' = Slices(ip, port)
        BY <2>2, <3>2
      <4>2. Slices(ip, port) = <<>> \/ PlannedSlices(plan, ip, port, Slices(ip, port))
        BY <2>0 DEF FoundPlanned
      <4> QED BY <4>1, <4>2
    <3> QED BY <3>1, <3>2
  <2>4. /\ b \in Bound
        /\ \A p : GetServer(p)' = IF Mine(e.ip) /\ p = e.port
                                  THEN Append(GetServer(p), b) ELSE GetServer(p)
    BY <1>4, <2>0, StoredBound DEF Bound, Transports4
  <2> HIDE DEF b
  <2>5. ASSUME NEW p \in Nat
        PROVE  /\ GetServer(p)' \in Seq(Bound)
               /\ \A c : Lists(GetServer(p), c) => Lists(GetServer(p)', c)
               /\ Mine(e.ip) /\ p = e.port => Lists(GetServer(p)', b)
    <3>1. GetServer(p) \in Seq(Bound)
      BY <2>0 DEF BoundOK
    <3>2. /\ Append(GetServer(p), b) \in Seq(Bound)
          /\ Lists(Append(GetServer(p), b), b)
          /\ \A c : Lists(GetServer(p), c) => Lists(Append(GetServer(p), b), c)
      BY <2>4, <3>1, OneMoreListed
    <3> QED BY <2>4, <3>1, <3>2
  <2>6. BoundOK'
    BY <2>5 DEF BoundOK
  <2>7. ASSUME NEW x \in Destinations(plan), Inserted(x)
        PROVE  Inserted(x)'
    <3>1. x.port \in Nat
      BY DestinationIs
    <3>2. Slices(x.ip, x.port)' # <<>>
      BY <2>1, <2>2, <2>7 DEF Inserted
    <3>3. \A c : Lists(GetServer(x.port), c) => Lists(GetServer(x.port)', c)
      BY <2>5, <3>1
    <3> QED BY <2>7, <3>2, <3>3 DEF Inserted
  <2>8. Inserted(e)'
    <3>1. Slices(e.ip, e.port)' # <<>>
      BY <2>1, <2>2 DEF SameKey
    <3>2. Mine(e.ip) => Lists(GetServer(e.port)', b)
      BY <1>4, <2>5
    <3> QED BY <3>1, <3>2 DEF Inserted, b
  <2>9. PlanKept(plan)'
    BY <1>2, <2>7, <2>8 DEF PlanInv, PlanKept
  <2> QED BY <1>2, <2>3, <2>6, <2>9 DEF PlanInv
<1> QED BY <1>5, <1>6

LEMMA StepPlan ==
    ASSUME NEW plan \in DOMAIN Experiment, PlanInv(plan), ManageNext
    PROVE  PlanInv(plan)'
BY PolicyPlan, EntryPlan DEF ManageNext

LEMMA SamePlan ==
    ASSUME NEW plan, PlanInv(plan), UNCHANGED manageVars
    PROVE  PlanInv(plan)'
<1>1. /\ todo' = todo
      /\ \A ip, port : Slices(ip, port)' = Slices(ip, port)
      /\ \A port : GetServer(port)' = GetServer(port)
  BY DEF manageVars, destinationVars, Slices, GetServer, At
<1>2. FoundPlanned(plan)' /\ BoundOK'
  BY <1>1 DEF PlanInv, FoundPlanned, BoundOK
<1>3. \A x : Inserted(x)' <=> Inserted(x)
  BY <1>1 DEF Inserted
<1>4. PlanKept(plan)'
  BY <1>1, <1>3 DEF PlanInv, PlanKept
<1> QED BY <1>1, <1>2, <1>4 DEF PlanInv

-----------------------------------------------------------------------------
\* The policy comes before the destinations, and is the only one.
Tenant == IPv4(10, 0, 10, 50)

PolicyInv(plan) ==
    /\ \/ todo = Insertions(plan) /\ \A ip, port : Slices(ip, port) = <<>>
       \/ todo \in Seq(Destinations(plan)) /\ Apply("client", Tenant)
    /\ ListsOK
    /\ \A ip : Apply("client", ip) => defaultPolicy \/ SameKey(ip, Tenant)

LEMMA InitPolicies ==
    ASSUME NEW plan, ManageInit(plan)
    PROVE  PolicyInv(plan)
<1>1. /\ todo = Insertions(plan) /\ \A ip, port : Slices(ip, port) = <<>>
  BY AtNothing DEF ManageInit, DestinationInit, Slices
<1>2. ListsOK /\ \A ip : Apply("client", ip) = defaultPolicy
  <2>1. "client" \in ListNames /\ DOMAIN <<>> = {}
    BY DEF ListNames
  <2> QED BY <2>1 DEF ManageInit, AccessInit, ListsOK, Apply, Inner
<1> QED BY <1>1, <1>2 DEF PolicyInv

LEMMA StepPolicies ==
    ASSUME NEW plan \in DOMAIN Experiment, PolicyInv(plan), ManageNext
    PROVE  PolicyInv(plan)'
<1>1. todo # <<>> /\ todo' = Tail(todo)
  BY DEF ManageNext, ManagePolicy, ManageEntry
<1>2. Allow(Tenant).op = "client policy" /\ Allow(Tenant).ip = Tenant
  BY DEF Allow
<1>3. CASE todo = Insertions(plan)
  <2>1. Head(todo) = Allow(Tenant) /\ todo' \in Seq(Destinations(plan))
    BY <1>1, <1>3, InsertionsAre DEF Tenant
  <2>2. UpsertPolicy("client", Tenant, TRUE)
    BY <1>2, <2>1 DEF ManageNext, ManagePolicy, ManageEntry
  <2>3. "client" \in ListNames /\ ListsOK
    BY DEF PolicyInv, ListNames
  <2>4. ListsOK'
    BY <2>2, <2>3 DEF ListsOK, UpsertPolicy
  <2>5. \A ip : Apply("client", ip)' = IF SameKey(ip, Tenant) THEN TRUE
                                       ELSE Apply("client", ip)
    <3> TAKE ip
    <3>1. Apply("client", ip)' = Ruling(entries'["client"], IP2Int(ip))
      BY DEF Apply, Inner, Ruling
    <3>2. Ruling(entries'["client"], IP2Int(ip)) =
             IF SameKey(ip, Tenant) THEN TRUE
             ELSE Ruling(entries["client"], IP2Int(ip))
      <4>1. PICK verdict : verdict = TRUE /\ UpsertPolicy("client", Tenant, verdict)
        BY <2>2
      <4>2. PICK ten : ten = Tenant /\ UpsertPolicy("client", ten, verdict)
        BY <4>1
      <4>3. UpsertPolicy("client", ten, verdict)
        BY <4>2
      <4>4. ASSUME NEW key
            PROVE  Ruling(entries'["client"], key) =
                      IF /\ "client" = "client"
                         /\ key.upper = IP2Int(ten).upper
                         /\ key.lower = IP2Int(ten).lower
                      THEN verdict ELSE Ruling(entries["client"], key)
        BY <2>3, <4>3, UpsertRuling
      <4> QED BY <4>1, <4>2, <4>4 DEF SameKey
    <3> QED BY <2>3, <3>1, <3>2, ApplyIsRuling
  <2>6. SameKey(Tenant, Tenant)
    BY DEF SameKey
  <2>7. /\ Apply("client", Tenant)'
        /\ \A ip : Apply("client", ip)' => defaultPolicy \/ SameKey(ip, Tenant)
    BY <2>5, <2>6 DEF PolicyInv
  <2> QED BY <2>1, <2>4, <2>7 DEF PolicyInv
<1>4. CASE todo \in Seq(Destinations(plan)) /\ Apply("client", Tenant)
  <2>1. Head(todo) \in Destinations(plan) /\ todo' \in Seq(Destinations(plan))
    BY <1>1, <1>4, HeadTailProperties
  <2>2. Head(todo).op = "destination"
    BY <2>1, DestinationIs
  <2>3. entries' = entries
    BY <2>2 DEF ManageNext, ManagePolicy, ManageEntry
  <2>4. ListsOK' /\ \A ip : Apply("client", ip)' = Apply("client", ip)
    BY <2>3 DEF PolicyInv, ListsOK, Apply, Inner
  <2> QED BY <1>4, <2>1, <2>4 DEF PolicyInv, Tenant
<1> QED BY <1>3, <1>4 DEF PolicyInv

LEMMA SamePolicies ==
    ASSUME NEW plan, PolicyInv(plan), UNCHANGED manageVars
    PROVE  PolicyInv(plan)'
<1>1. /\ todo' = todo /\ entries' = entries
      /\ \A ip, port : Slices(ip, port)' = Slices(ip, port)
  BY DEF manageVars, destinationVars, Slices, At
<1>2. ListsOK <=> ListsOK'
  BY <1>1 DEF ListsOK
<1>3. \A ip : Apply("client", ip)' = Apply("client", ip)
  BY <1>1 DEF Apply, Inner
<1> QED BY <1>1, <1>2, <1>3 DEF PolicyInv, Tenant, Insertions, Destinations

-----------------------------------------------------------------------------
\* The two hosts of the experiments.
Ten40 == IPv4(10, 0, 10, 40)
Ten50 == IPv4(10, 0, 10, 50)

LEMMA TensAre ==
    /\ Equal(Ten40, Ten40) /\ ~Equal(Ten50, Ten40)
    /\ ~SameKey(Ten40, Ten50) /\ ~SameKey(Ten50, Ten40)
<1> DEFINE x == <<10, 0, 10, 40>>
           y == <<10, 0, 10, 50>>
<1>1. x \in [1 .. 4 -> Byte] /\ y \in [1 .. 4 -> Byte] /\ x # y
  BY DEF Byte
<1>2. Ten40 = Mapped(x) /\ Ten50 = Mapped(y)
  BY DEF Ten40, Ten50, IPv4, Mapped
<1> HIDE DEF x, y
<1>3. Equal(Ten40, Ten40) /\ ~Equal(Ten50, Ten40)
  BY <1>1, <1>2, EqualForms
<1>4. IP2Int(Ten40).lower = Zeros(4) \o x /\ IP2Int(Ten50).lower = Zeros(4) \o y
  BY <1>1, <1>2, KeyOf, LowerOf, Zenon
<1>5. Zeros(4) \o x # Zeros(4) \o y
  BY <1>1, KeyTells
<1> QED BY <1>3, <1>4, <1>5 DEF SameKey

LEMMA Hosts4050 ==
    /\ myVIP = Ten40 => yourVIP = Ten50
    /\ myVIP = Ten50 => yourVIP = Ten40
BY TensAre, Zenon DEF yourVIP, Ten40, Ten50

\* Where a service of the experiment is.
Dialled(plan, port, i, address) ==
    \E k \in DOMAIN Experiment[plan] :
       /\ port = Experiment[plan][k][1] /\ TransportType[i] = Experiment[plan][k][2]
       /\ address = Experiment[plan][k][3]

\* What connect finds under the other host's address is a service of its.
LEMMA FindsServices ==
    ASSUME NEW plan \in DOMAIN Experiment, PlanInv(plan), myVIP \in {Ten40, Ten50},
           NEW port \in Nat \ {0}
    PROVE  \A i \in DOMAIN GetClient(yourVIP, port) :
              /\ i \in 1 .. 4
              /\ \A k \in DOMAIN GetClient(yourVIP, port)[i] :
                    Dialled(plan, port, i, GetClient(yourVIP, port)[i][k])
<1> DEFINE f == GetClient(yourVIP, port)
<1>1. f = Slices(yourVIP, port) /\ yourVIP \in VIPs /\ port \in Nat
  BY DEF GetClient, VIPs
<1>2. f = <<>> \/ PlannedSlices(plan, yourVIP, port, f)
  BY <1>1 DEF PlanInv, FoundPlanned
<1> HIDE DEF f
<1>3. CASE f = <<>>
  <2>1. DOMAIN f = {}
    BY <1>3
  <2> QED BY <2>1 DEF f
<1>4. CASE PlannedSlices(plan, yourVIP, port, f)
  <2>1. f \in [1 .. 4 -> Seq(PhysicalAddresses)]
    BY <1>4 DEF PlannedSlices
  <2>2. ASSUME NEW i \in 1 .. 4 PROVE DOMAIN f[i] = 1 .. Len(f[i])
    <3>1. f[i] \in Seq(PhysicalAddresses)
      BY <2>1
    <3> QED BY <3>1, LenProperties
  <2>3. ASSUME NEW i \in 1 .. 4, NEW k \in 1 .. Len(f[i])
        PROVE  Dialled(plan, port, i, f[i][k])
    <3>1. PICK x \in Destinations(plan) :
             /\ SameKey(x.ip, yourVIP) /\ x.port = port
             /\ x.i = i /\ x.address = f[i][k]
      BY <1>4 DEF PlannedSlices
    <3>2. PICK s \in DOMAIN Experiment[plan] :
             /\ x.port = Experiment[plan][s][1]
             /\ TransportType[x.i] = Experiment[plan][s][2]
             /\ \/ x.ip = yourVIP /\ x.address = Experiment[plan][s][3]
                \/ x.ip = myVIP /\ x.address = Experiment[plan][s][4]
      BY <3>1, DestinationIs
    <3>3. ~SameKey(myVIP, yourVIP)
      BY Hosts4050, TensAre
    <3> QED BY <3>1, <3>2, <3>3 DEF Dialled
  <2> QED BY <2>1, <2>2, <2>3 DEF f
<1> QED BY <1>2, <1>3, <1>4

\* What is found may be dialled; nothing else may.
LEMMA FindsAllowed ==
    ASSUME NEW plan, PolicyInv(plan), myVIP = Ten40, NEW port,
           GetClient(yourVIP, port) # <<>>
    PROVE  Apply("client", Ten50)
BY DEF PolicyInv, GetClient, Tenant, Ten50

LEMMA AllowsOne ==
    ASSUME NEW plan, PolicyInv(plan), ~defaultPolicy
    PROVE  ~Apply("client", Ten40)
BY TensAre DEF PolicyInv, Tenant, Ten50

\* When a manager is done, where a service is bound is what bind is given.
LEMMA BindsServices ==
    ASSUME NEW plan \in DOMAIN Experiment, PlanInv(plan), featureRDMA, todo = <<>>,
           NEW s \in DOMAIN Experiment[plan]
    PROVE  \E j \in DOMAIN GetServer(Experiment[plan][s][1]) :
              GetServer(Experiment[plan][s][1])[j]
                = [transport |-> Experiment[plan][s][2],
                   address |-> Experiment[plan][s][4]]
<1> DEFINE e == Experiment[plan][s]
           b == [transport |-> e[2], address |-> e[4]]
<1>1. GoodService(e)
  BY Services
<1>2. PICK x : x = Entry(myVIP, e[1], e[2], e[4])
  OBVIOUS
<1>3. x \in Destinations(plan)
  BY <1>2 DEF Destinations
<1> HIDE DEF e
<1>4. /\ x.op = "destination" /\ x.ip = myVIP /\ x.port = e[1]
      /\ x.i \in 1 .. 4 /\ TransportType[x.i] = e[2] /\ x.address = e[4]
      /\ x.port \in Nat
  BY <1>1, <1>2, ServiceEntry
<1>5. Mine(x.ip) /\ Kept(x.i)
  BY <1>4 DEF Mine, Equal, Kept
<1>6. ~Lists(todo, x)
  <2>1. Len(todo) = 0
    OBVIOUS
  <2> QED BY <2>1 DEF Lists
<1>7. Inserted(x)
  BY <1>3, <1>5, <1>6 DEF PlanInv, PlanKept
<1>8. Lists(GetServer(e[1]), b)
  BY <1>4, <1>5, <1>7 DEF Inserted
<1>9. GetServer(e[1]) \in Seq(Bound)
  BY <1>4 DEF PlanInv, BoundOK
<1>10. DOMAIN GetServer(e[1]) = 1 .. Len(GetServer(e[1]))
  BY <1>9, LenProperties
<1>11. \E k \in DOMAIN GetServer(e[1]) : GetServer(e[1])[k] = b
  BY <1>8, <1>10 DEF Lists
<1> QED BY <1>11 DEF e

\* In the end the first service is found.
LEMMA FindsInTheEnd ==
    ASSUME NEW plan \in DOMAIN Experiment, PlanInv(plan), featureRDMA, todo = <<>>
    PROVE  \E port \in {80, 12865, 22865} : GetClient(yourVIP, port) # <<>>
<1> DEFINE e == Experiment[plan][1]
<1>1. 1 \in DOMAIN Experiment[plan] /\ GoodService(e)
  BY Services
<1>2. PICK x : x = Entry(yourVIP, e[1], e[2], e[3])
  OBVIOUS
<1>3. x \in Destinations(plan)
  BY <1>1, <1>2 DEF Destinations
<1> HIDE DEF e
<1>4. /\ x.ip = yourVIP /\ x.port = e[1] /\ x.i \in 1 .. 4
      /\ e[1] \in {80, 12865, 22865}
  BY <1>1, <1>2, ServiceEntry DEF GoodService
<1>5. ~Lists(todo, x)
  <2>1. Len(todo) = 0
    OBVIOUS
  <2> QED BY <2>1 DEF Lists
<1>6. Inserted(x)
  BY <1>3, <1>4, <1>5 DEF PlanInv, PlanKept, Kept
<1> QED BY <1>4, <1>6 DEF Inserted, GetClient
=============================================================================
