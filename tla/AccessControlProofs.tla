------------------------ MODULE AccessControlProofs -------------------------
(***************************************************************************)
(* The nested maps of the access control lists implement AccessPolicy, for *)
(* any set of addresses that their keys tell apart, and the keys tell all  *)
(* IPv4 addresses apart, in both their written forms.                      *)
(***************************************************************************)
EXTENDS AccessControl, SequenceTheorems, TLAPS

\* Two addresses have one key exactly when they are the same.
KeysSeparate ==
    \A a, b \in IPs : Equal(a, b) <=> IP2Int(a) = IP2Int(b)

\* The halves of a key make it.
LEMMA KeyHalves ==
    ASSUME NEW a, NEW b
    PROVE  IP2Int(a) = IP2Int(b) <=> /\ IP2Int(a).upper = IP2Int(b).upper
                                     /\ IP2Int(a).lower = IP2Int(b).lower
<1>1. IP2Int(a) = [upper |-> IP2Int(a).upper, lower |-> IP2Int(a).lower]
  BY DEF IP2Int
<1>2. IP2Int(b) = [upper |-> IP2Int(b).upper, lower |-> IP2Int(b).lower]
  BY DEF IP2Int
<1> QED BY <1>1, <1>2, Zenon

\* A map after a store.
LEMMA PutAt ==
    ASSUME NEW map, NEW key, NEW value, NEW x
    PROVE  /\ x \in DOMAIN Put(map, key, value) <=> x = key \/ x \in DOMAIN map
           /\ Put(map, key, value)[key] = value
           /\ x # key /\ x \in DOMAIN map => Put(map, key, value)[x] = map[x]
  BY DEF Put

-----------------------------------------------------------------------------
\* The list that an operation is for gets a new map, the other keeps its own.
ListsOK == entries = [list \in ListNames |-> entries[list]]

\* What Apply answers for a list with the map m.
Ruling(m, key) ==
    IF key.upper \in DOMAIN m /\ key.lower \in DOMAIN m[key.upper]
    THEN m[key.upper][key.lower] ELSE defaultPolicy

LEMMA ApplyIsRuling ==
    ASSUME NEW list, NEW ip
    PROVE  Apply(list, ip) = Ruling(entries[list], IP2Int(ip))
<1>1. DOMAIN <<>> = {}
  OBVIOUS
<1> QED BY <1>1 DEF Apply, Inner, Ruling

\* An update of one list changes the verdicts of one key.
LEMMA UpsertRuling ==
    ASSUME NEW list \in ListNames, NEW ip, NEW policy,
           ListsOK, UpsertPolicy(list, ip, policy),
           NEW l \in ListNames, NEW key
    PROVE  Ruling(entries'[l], key) =
             IF /\ l = list
                /\ key.upper = IP2Int(ip).upper /\ key.lower = IP2Int(ip).lower
             THEN policy ELSE Ruling(entries[l], key)
<1> DEFINE k == IP2Int(ip)
           inner == Put(Inner(list, k.upper), k.lower, policy)
           m == Put(entries[list], k.upper, inner)
<1>1. entries' = [entries EXCEPT ![list] = m]
  BY DEF UpsertPolicy
<1>2. entries'[l] = IF l = list THEN m ELSE entries[l]
  BY <1>1 DEF ListsOK
<1>3. CASE l # list
  BY <1>2, <1>3
<1>4. CASE l = list /\ key.upper # k.upper
  BY <1>2, <1>4, PutAt DEF Ruling
<1>5. CASE l = list /\ key.upper = k.upper
  <2>1. Ruling(entries'[l], key) =
           IF key.lower \in DOMAIN inner THEN inner[key.lower] ELSE defaultPolicy
    BY <1>2, <1>5, PutAt DEF Ruling
  <2>2. DOMAIN <<>> = {}
    OBVIOUS
  <2> QED BY <1>5, <2>1, <2>2, PutAt DEF Ruling, Inner
<1> QED BY <1>3, <1>4, <1>5

LEMMA RemoveRuling ==
    ASSUME NEW list \in ListNames, NEW ip,
           ListsOK, RemovePolicy(list, ip),
           NEW l \in ListNames, NEW key
    PROVE  Ruling(entries'[l], key) =
             IF /\ l = list
                /\ key.upper = IP2Int(ip).upper /\ key.lower = IP2Int(ip).lower
             THEN defaultPolicy ELSE Ruling(entries[l], key)
<1> DEFINE k == IP2Int(ip)
           old == entries[list][k.upper]
           inner == [x \in DOMAIN old \ {k.lower} |-> old[x]]
           m == Put(entries[list], k.upper, inner)
<1>1. k.upper \in DOMAIN entries[list] /\ entries' = [entries EXCEPT ![list] = m]
  BY DEF RemovePolicy, Inner
<1>2. entries'[l] = IF l = list THEN m ELSE entries[l]
  BY <1>1 DEF ListsOK
<1>3. CASE l # list
  BY <1>2, <1>3
<1>4. CASE l = list /\ key.upper # k.upper
  BY <1>2, <1>4, PutAt DEF Ruling
<1>5. CASE l = list /\ key.upper = k.upper
  <2>1. Ruling(entries'[l], key) =
           IF key.lower \in DOMAIN inner THEN inner[key.lower] ELSE defaultPolicy
    BY <1>2, <1>5, PutAt DEF Ruling
  <2> QED BY <1>1, <1>5, <2>1 DEF Ruling
<1> QED BY <1>3, <1>4, <1>5

-----------------------------------------------------------------------------
\* There are always two lists.
LEMMA ListsKept ==
    ASSUME ListsOK, [AccessNext]_entries
    PROVE  ListsOK'
<1>1. CASE UNCHANGED entries
  BY <1>1 DEF ListsOK
<1>2. ASSUME NEW list \in ListNames, NEW ip \in IPs, NEW policy \in BOOLEAN,
             UpsertPolicy(list, ip, policy)
      PROVE  ListsOK'
  BY <1>2 DEF ListsOK, UpsertPolicy
<1>3. ASSUME NEW list \in ListNames, NEW ip \in IPs, RemovePolicy(list, ip)
      PROVE  ListsOK'
  BY <1>3 DEF ListsOK, RemovePolicy
<1> QED BY <1>1, <1>2, <1>3 DEF AccessNext

\* The verdicts that the two lists give now.
Rulings == [list \in ListNames |-> [ip \in IPs |-> Apply(list, ip)]]

\* An operation that gives verdict to one key sets the policy of its address.
LEMMA SetsPolicy ==
    ASSUME KeysSeparate,
           NEW list \in ListNames, NEW ip \in IPs, NEW verdict,
           \A l \in ListNames, a \in IPs :
              Ruling(entries'[l], IP2Int(a)) =
                IF /\ l = list
                   /\ IP2Int(a).upper = IP2Int(ip).upper
                   /\ IP2Int(a).lower = IP2Int(ip).lower
                THEN verdict ELSE Ruling(entries[l], IP2Int(a))
    PROVE  Policy!Set(list, ip, verdict)
<1>1. \A l \in ListNames, a \in IPs :
         Apply(l, a)' = IF l = list /\ Equal(a, ip)
                        THEN verdict ELSE Apply(l, a)
  <2> TAKE l \in ListNames, a \in IPs
  <2>1. Apply(l, a)' = Ruling(entries'[l], IP2Int(a))
    BY ApplyIsRuling DEF Apply, Inner, Ruling
  <2>2. Apply(l, a) = Ruling(entries[l], IP2Int(a))
    BY ApplyIsRuling
  <2>3. Equal(a, ip) <=> /\ IP2Int(a).upper = IP2Int(ip).upper
                         /\ IP2Int(a).lower = IP2Int(ip).lower
    BY KeyHalves DEF KeysSeparate
  <2> QED BY <2>1, <2>2, <2>3
<1>2. Rulings' = [Rulings EXCEPT ![list] =
                     [i \in IPs |-> IF Equal(i, ip) THEN verdict ELSE @[i]]]
  BY <1>1 DEF Rulings
<1> QED BY <1>2 DEF Policy!Set, Rulings

\* The empty maps give every address the default.
LEMMA InitPolicy ==
    ASSUME AccessInit
    PROVE  ListsOK /\ Policy!Init
<1>1. \A list \in ListNames : entries[list] = <<>>
  BY DEF AccessInit
<1>2. \A list \in ListNames, ip \in IPs : Apply(list, ip) = defaultPolicy
  <2>1. DOMAIN <<>> = {}
    OBVIOUS
  <2> QED BY <1>1, <2>1, ApplyIsRuling DEF Ruling
<1>3. ListsOK
  BY DEF ListsOK, AccessInit
<1> QED BY <1>2, <1>3 DEF Policy!Init, Policy!Lists, ListNames

\* Every step of the maps sets one policy or changes none.
LEMMA StepPolicy ==
    ASSUME KeysSeparate, ListsOK, [AccessNext]_entries
    PROVE  [Policy!Next]_Rulings
<1>1. CASE UNCHANGED entries
  BY <1>1 DEF Rulings, Apply, Inner
<1>2. ASSUME NEW list \in ListNames, NEW ip \in IPs, NEW policy \in BOOLEAN,
             UpsertPolicy(list, ip, policy)
      PROVE  Policy!Next
  <2>1. Policy!Set(list, ip, policy)
    BY <1>2, UpsertRuling, SetsPolicy
  <2> QED BY <2>1 DEF Policy!Next, Policy!Lists, ListNames
<1>3. ASSUME NEW list \in ListNames, NEW ip \in IPs, RemovePolicy(list, ip)
      PROVE  Policy!Next
  <2>1. Policy!Set(list, ip, defaultPolicy)
    BY <1>3, RemoveRuling, SetsPolicy
  <2> QED BY <2>1 DEF Policy!Next, Policy!Lists, ListNames
<1> QED BY <1>1, <1>2, <1>3 DEF AccessNext

\* The nested maps of the access control lists implement the flat lists of
\* AccessPolicy: an address has the verdict it was last given, in both lists,
\* for any set of addresses that the keys tell apart.
THEOREM ListsImplementPolicy ==
    ASSUME KeysSeparate
    PROVE  AccessSpec => PolicyKept
<1>1. AccessInit => ListsOK /\ Policy!Init
  BY InitPolicy
<1>2. ListsOK /\ [AccessNext]_entries => ListsOK'
  BY ListsKept
<1>3. ListsOK /\ [AccessNext]_entries => [Policy!Next]_Rulings
  BY StepPolicy
<1> QED BY <1>1, <1>2, <1>3, PTL DEF AccessSpec, PolicyKept, Policy!Spec, Rulings

-----------------------------------------------------------------------------
\* An IPv4 address as net.IPv4 writes it, and both forms of all of them.
Mapped(ip) == MappedPrefix \o ip

IPv4Forms == [1 .. 4 -> Byte] \cup {Mapped(ip) : ip \in [1 .. 4 -> Byte]}

\* A sequence of n bytes.
LEMMA Bytes ==
    ASSUME NEW n \in Nat, NEW s \in [1 .. n -> Byte]
    PROVE  s \in Seq(Byte) /\ Len(s) = n
<1>1. s \in Seq(Byte)
  BY SeqDef
<1> QED BY <1>1, LenProperties

\* n bytes of zero.
LEMMA ZerosAre ==
    ASSUME NEW n \in Nat
    PROVE  /\ Zeros(n) \in Seq(Byte) /\ Len(Zeros(n)) = n
           /\ \A i \in 1 .. n : Zeros(n)[i] = 0
<1>1. Zeros(n) \in [1 .. n -> Byte] /\ \A i \in 1 .. n : Zeros(n)[i] = 0
  BY DEF Zeros, Byte
<1> QED BY <1>1, Bytes

\* Ten bytes and two make twelve, twelve and four sixteen.
LEMMA TenTwo ==
    ASSUME NEW s \in Seq(Byte), NEW t \in Seq(Byte), Len(s) = 10, Len(t) = 2
    PROVE  /\ s \o t \in Seq(Byte) /\ Len(s \o t) = 12
           /\ \A i \in 1 .. 12 :
                 (s \o t)[i] = IF i <= 10 THEN s[i] ELSE t[i - 10]
<1>1. /\ s \o t \in Seq(Byte)
      /\ Len(s \o t) = Len(s) + Len(t)
      /\ \A i \in 1 .. Len(s) + Len(t) : (s \o t)[i] =
                     IF i <= Len(s) THEN s[i] ELSE t[i - Len(s)]
  BY ConcatProperties, Zenon
<1>2. Len(s) + Len(t) = 12
  OBVIOUS
<1>3. \A i \in 1 .. 12 : (s \o t)[i] = IF i <= 10 THEN s[i] ELSE t[i - 10]
  BY <1>1, <1>2
<1>4. Len(s \o t) = 12
  BY <1>1, <1>2, Zenon
<1> QED BY <1>1, <1>3, <1>4

LEMMA TwelveFour ==
    ASSUME NEW s \in Seq(Byte), NEW t \in Seq(Byte), Len(s) = 12, Len(t) = 4
    PROVE  /\ s \o t \in Seq(Byte) /\ Len(s \o t) = 16
           /\ \A i \in 1 .. 16 :
                 (s \o t)[i] = IF i <= 12 THEN s[i] ELSE t[i - 12]
<1>1. /\ s \o t \in Seq(Byte)
      /\ Len(s \o t) = Len(s) + Len(t)
      /\ \A i \in 1 .. Len(s) + Len(t) : (s \o t)[i] =
                     IF i <= Len(s) THEN s[i] ELSE t[i - Len(s)]
  BY ConcatProperties, Zenon
<1>2. Len(s) + Len(t) = 16
  OBVIOUS
<1>3. \A i \in 1 .. 16 : (s \o t)[i] = IF i <= 12 THEN s[i] ELSE t[i - 12]
  BY <1>1, <1>2
<1>4. Len(s \o t) = 16
  BY <1>1, <1>2, Zenon
<1> QED BY <1>1, <1>3, <1>4

\* The twelve bytes before a mapped address.
LEMMA PrefixIs ==
    /\ MappedPrefix \in Seq(Byte) /\ Len(MappedPrefix) = 12
    /\ \A i \in 1 .. 8 : MappedPrefix[i] = 0
    /\ MappedPrefix[11] = 255 /\ MappedPrefix[12] = 255
<1>1. /\ Zeros(10) \in Seq(Byte) /\ Len(Zeros(10)) = 10
      /\ \A i \in 1 .. 10 : Zeros(10)[i] = 0
  BY ZerosAre
<1> DEFINE ones == <<255, 255>>
<1>3. ones \in Seq(Byte) /\ Len(ones) = 2 /\ ones[1] = 255 /\ ones[2] = 255
  BY DEF Byte
<1>2. MappedPrefix = Zeros(10) \o ones
  BY DEF MappedPrefix
<1> HIDE DEF ones
<1>5. /\ MappedPrefix \in Seq(Byte) /\ Len(MappedPrefix) = 12
      /\ \A i \in 1 .. 12 :
            MappedPrefix[i] = IF i <= 10 THEN Zeros(10)[i] ELSE ones[i - 10]
  <2>1. Zeros(10) \in Seq(Byte) /\ Len(Zeros(10)) = 10
    BY <1>1
  <2>2. ones \in Seq(Byte) /\ Len(ones) = 2
    BY <1>3
  <2>3. /\ Zeros(10) \o ones \in Seq(Byte) /\ Len(Zeros(10) \o ones) = 12
        /\ \A i \in 1 .. 12 : (Zeros(10) \o ones)[i] =
              IF i <= 10 THEN Zeros(10)[i] ELSE ones[i - 10]
    BY <2>1, <2>2, TenTwo, Zenon
  <2> QED BY <1>2, <2>3, Zenon
<1>6. MappedPrefix[11] = ones[1] /\ MappedPrefix[12] = ones[2]
  BY <1>5
<1>7. \A i \in 1 .. 8 : MappedPrefix[i] = 0
  <2> TAKE i \in 1 .. 8
  <2>1. i \in 1 .. 10 /\ MappedPrefix[i] = Zeros(10)[i]
    BY <1>5
  <2> QED BY <1>1, <2>1, Zenon
<1>8. MappedPrefix[11] = 255 /\ MappedPrefix[12] = 255
  BY <1>3, <1>6
<1> QED BY <1>5, <1>7, <1>8, Zenon

\* What IP2Int reads in a mapped address.
LEMMA MappedIs ==
    ASSUME NEW ip \in [1 .. 4 -> Byte]
    PROVE  /\ Mapped(ip) \in Seq(Byte) /\ Len(Mapped(ip)) = 16
           /\ SubSeq(Mapped(ip), 1, 8) = Zeros(8)
           /\ Mapped(ip)[11] = 255 /\ Mapped(ip)[12] = 255
           /\ SubSeq(Mapped(ip), 13, 16) = ip
<1>1. ip \in Seq(Byte) /\ Len(ip) = 4
  BY Bytes
<1>2. /\ Mapped(ip) \in Seq(Byte) /\ Len(Mapped(ip)) = 16
      /\ \A i \in 1 .. 16 : Mapped(ip)[i] =
            IF i <= 12 THEN MappedPrefix[i] ELSE ip[i - 12]
  <2>1. MappedPrefix \in Seq(Byte) /\ Len(MappedPrefix) = 12
    BY PrefixIs
  <2> QED BY <1>1, <2>1, TwelveFour, Zenon DEF Mapped
<1>3. \A i \in 1 .. 16 : Mapped(ip)[i] \in Byte
  BY <1>2, ElementOfSeq
<1>4. SubSeq(Mapped(ip), 1, 8) = Zeros(8)
  <2> DEFINE s == SubSeq(Mapped(ip), 1, 8)
  <2>1. \A i \in 1 .. 8 : Mapped(ip)[i] \in Byte
    BY <1>3
  <2>2. s \in Seq(Byte) /\ Len(s) = 8 /\ \A i \in 1 .. 8 : s[i] = Mapped(ip)[i]
    BY <2>1, SubSeqProperties
  <2>3. \A i \in 1 .. 8 : s[i] = Zeros(8)[i]
    <3>1. \A i \in 1 .. 8 : Zeros(8)[i] = 0
      BY ZerosAre
    <3>2. \A i \in 1 .. 8 : MappedPrefix[i] = 0
      BY PrefixIs
    <3> QED BY <1>2, <2>2, <3>1, <3>2
  <2>4. Zeros(8) \in Seq(Byte) /\ Len(Zeros(8)) = 8
    BY ZerosAre
  <2> QED BY <2>2, <2>3, <2>4, SeqEqual
<1>5. SubSeq(Mapped(ip), 13, 16) = ip
  <2> DEFINE s == SubSeq(Mapped(ip), 13, 16)
  <2>1. \A i \in 13 .. 16 : Mapped(ip)[i] \in Byte
    BY <1>3
  <2>2. /\ s \in Seq(Byte) /\ Len(s) = 4
        /\ \A i \in 1 .. 4 : s[i] = Mapped(ip)[13 + i - 1]
    BY <2>1, SubSeqProperties
  <2>3. \A i \in 1 .. 4 : s[i] = ip[i]
    BY <1>2, <2>2
  <2> QED BY <1>1, <2>2, <2>3, SeqEqual
<1> QED BY <1>2, <1>4, <1>5, PrefixIs

\* Both forms of an address have one key.
LEMMA KeyOf ==
    ASSUME NEW ip \in [1 .. 4 -> Byte]
    PROVE  /\ IP2Int(ip) = [upper |-> Zeros(8), lower |-> Zeros(4) \o ip]
           /\ IP2Int(Mapped(ip)) = [upper |-> Zeros(8), lower |-> Zeros(4) \o ip]
<1>1. Len(ip) = 4 /\ Len(Mapped(ip)) = 16
  BY Bytes, MappedIs
<1>2. IP2Int(ip) = [upper |-> Zeros(8), lower |-> Zeros(4) \o ip]
  BY <1>1 DEF IP2Int
<1>3. IP2Int(Mapped(ip)) = [upper |-> Zeros(8), lower |-> Zeros(4) \o ip]
  <2> DEFINE m == Mapped(ip)
  <2>1. /\ Len(m) = 16 /\ SubSeq(m, 1, 8) = Zeros(8) /\ SubSeq(m, 13, 16) = ip
        /\ m[11] = 255 /\ m[12] = 255
    BY <1>1, MappedIs
  <2> HIDE DEF m
  <2>2. IP2Int(m) = [upper |-> Zeros(8), lower |-> Zeros(4) \o ip]
    BY <2>1, Zenon DEF IP2Int
  <2> QED BY <2>2 DEF m
<1> QED BY <1>2, <1>3

\* Different addresses have different keys.
LEMMA KeyTells ==
    ASSUME NEW a \in [1 .. 4 -> Byte], NEW b \in [1 .. 4 -> Byte],
           Zeros(4) \o a = Zeros(4) \o b
    PROVE  a = b
<1>1. a \in Seq(Byte) /\ b \in Seq(Byte) /\ Zeros(4) \in Seq(Byte)
  BY Bytes, ZerosAre
<1> QED BY <1>1, ConcatSimplifications

\* Two forms are the same address exactly when the four bytes are.
LEMMA EqualForms ==
    ASSUME NEW x \in [1 .. 4 -> Byte], NEW y \in [1 .. 4 -> Byte],
           NEW a \in {x, Mapped(x)}, NEW b \in {y, Mapped(y)}
    PROVE  Equal(a, b) <=> x = y
<1>1. /\ Len(x) = 4 /\ Len(Mapped(x)) = 16 /\ SubSeq(Mapped(x), 13, 16) = x
      /\ Len(y) = 4 /\ Len(Mapped(y)) = 16 /\ SubSeq(Mapped(y), 13, 16) = y
  BY Bytes, MappedIs
<1>2. Mapped(x) = Mapped(y) <=> x = y
  BY <1>1
<1>3. Equal(a, b) <=> a = b \/ (Len(a) = 4 /\ b = Mapped(a))
                           \/ (Len(b) = 4 /\ a = Mapped(b))
  BY DEF Equal, Mapped
<1>4. CASE a = x /\ b = y
  BY <1>1, <1>3, <1>4
<1>5. CASE a = x /\ b = Mapped(y)
  BY <1>1, <1>2, <1>3, <1>5
<1>6. CASE a = Mapped(x) /\ b = y
  BY <1>1, <1>2, <1>3, <1>6
<1>7. CASE a = Mapped(x) /\ b = Mapped(y)
  BY <1>1, <1>2, <1>3, <1>7
<1> QED BY <1>4, <1>5, <1>6, <1>7

\* A field of a key.
LEMMA LowerOf ==
    ASSUME NEW u, NEW l
    PROVE  [upper |-> u, lower |-> l].lower = l
  OBVIOUS

\* IP2Int tells the IPv4 addresses apart and not the forms they are written in.
THEOREM IPv4KeysSeparate ==
    ASSUME IPs \subseteq IPv4Forms
    PROVE  KeysSeparate
<1> SUFFICES ASSUME NEW a \in IPs, NEW b \in IPs
             PROVE  Equal(a, b) <=> IP2Int(a) = IP2Int(b)
  BY DEF KeysSeparate
<1>1. PICK x \in [1 .. 4 -> Byte] : a \in {x, Mapped(x)}
  BY DEF IPv4Forms
<1>2. PICK y \in [1 .. 4 -> Byte] : b \in {y, Mapped(y)}
  BY DEF IPv4Forms
<1>3. IP2Int(a) = [upper |-> Zeros(8), lower |-> Zeros(4) \o x]
  BY <1>1, KeyOf
<1>4. IP2Int(b) = [upper |-> Zeros(8), lower |-> Zeros(4) \o y]
  BY <1>2, KeyOf
<1>5. IP2Int(a) = IP2Int(b) <=> Zeros(4) \o x = Zeros(4) \o y
  <2>1. IP2Int(a).lower = Zeros(4) \o x /\ IP2Int(b).lower = Zeros(4) \o y
    BY <1>3, <1>4, LowerOf, Zenon
  <2> QED BY <1>3, <1>4, <2>1, Zenon
<1>6. Zeros(4) \o x = Zeros(4) \o y <=> x = y
  BY KeyTells
<1> QED BY <1>1, <1>2, <1>5, <1>6, EqualForms

\* For IPv4 addresses, in either form, nothing more is asked of them.
THEOREM IPv4ListsImplementPolicy ==
    ASSUME IPs \subseteq IPv4Forms
    PROVE  AccessSpec => PolicyKept
BY IPv4KeysSeparate, ListsImplementPolicy
=============================================================================
