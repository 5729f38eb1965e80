---------------------------- MODULE LookupProofs ----------------------------
(***************************************************************************)
(* The lookup of the nodes' machines, for any cloud and any number of      *)
(* addresses.  It inherits what is proved of its batch loop and of its     *)
(* binary search; LookupInv puts the two together.                         *)
(***************************************************************************)
EXTENDS Lookup, BatchesProofs, SequenceTheorems

\* The proofs about the search hold for the one that runs here.
SearchFacts == INSTANCE SortedSearchProofs
                 WITH Strings <- Addresses, MaxLen <- MaxCount, strArray <- ips,
                      i <- lo, j <- hi, result <- verdict

\* What getInstanceByInstancePrivateIps does between two turns of its loop,
\* the searches through ips and the entries into the cache, leaves the loop
\* alone: the lookup implements module Batches.
THEOREM LookupIsBatches == LookupSpec => Spec
<1>1. LookupInit => Init
  BY DEF LookupInit
<1>2. [LookupNext]_lookupVars => [Next]_vars
  <2> SUFFICES ASSUME [LookupNext]_lookupVars PROVE [Next]_vars
    OBVIOUS
  <2>1. CASE Turn
    BY <2>1 DEF Turn, Next
  <2>2. CASE isExist
    BY <2>2 DEF isExist
  <2>3. CASE SearchStep
    BY <2>3 DEF SearchStep
  <2>4. CASE Take
    BY <2>4 DEF Take
  <2>5. CASE Return
    BY <2>5 DEF Return, Next
  <2>6. CASE UNCHANGED lookupVars
    BY <2>6 DEF lookupVars
  <2> QED
    BY <2>1, <2>2, <2>3, <2>4, <2>5, <2>6 DEF LookupNext
<1> QED
  BY <1>1, <1>2, PTL DEF LookupSpec, Spec

\* No DescribeInstances call names more addresses than the filter takes.
THEOREM LookupWithinLimit == LookupSpec => []WithinLimit
  BY LookupIsBatches, CallsWithinLimit, PTL

\* A lookup that returns without error has asked for every address it had to.
THEOREM LookupAsksForAll == LookupSpec => []NothingDropped
  BY LookupIsBatches, EverythingSent, PTL

\* How many there are below an item, in a set of numbers, is less than how
\* many there are, and grows with the item.
Below(S, a) == {b \in S : b < a}

LEMMA Ranks ==
  ASSUME NEW S, S \subseteq Int, IsFiniteSet(S)
  PROVE  /\ Cardinality(S) \in Nat
         /\ \A a \in S : Cardinality(Below(S, a)) \in 0 .. Cardinality(S) - 1
         /\ \A a, b \in S : a < b => Cardinality(Below(S, a)) < Cardinality(Below(S, b))
<1>1. Cardinality(S) \in Nat
  BY FS_CardinalityType
<1>2. ASSUME NEW a \in S
      PROVE  /\ IsFiniteSet(Below(S, a)) /\ Cardinality(Below(S, a)) \in Nat
             /\ Cardinality(Below(S, a)) < Cardinality(S)
  <2>1. Below(S, a) \in SUBSET (S \ {a})
    BY DEF Below
  <2>2. IsFiniteSet(S \ {a}) /\ Cardinality(S \ {a}) = Cardinality(S) - 1
    BY FS_RemoveElement
  <2>3. IsFiniteSet(Below(S, a)) /\ Cardinality(Below(S, a)) <= Cardinality(S \ {a})
    BY <2>1, <2>2, FS_Subset
  <2>4. Cardinality(Below(S, a)) \in Nat
    BY <2>3, FS_CardinalityType
  <2> QED
    BY <1>1, <2>2, <2>3, <2>4
<1>3. ASSUME NEW a \in S, NEW b \in S, a < b
      PROVE  Cardinality(Below(S, a)) < Cardinality(Below(S, b))
  <2>1. ASSUME NEW c \in Below(S, a) PROVE c \in Below(S, b) \ {a}
    <3>1. c \in S /\ c < a
      BY <2>1 DEF Below
    <3>2. c < b /\ c # a
      BY <1>3, <3>1
    <3> QED
      BY <3>1, <3>2 DEF Below
  <2>2. Below(S, a) \in SUBSET (Below(S, b) \ {a}) /\ a \in Below(S, b)
    BY <1>3, <2>1 DEF Below
  <2>3. IsFiniteSet(Below(S, b)) /\ Cardinality(Below(S, b)) \in Nat
        /\ Cardinality(Below(S, a)) \in Nat
    BY <1>2
  <2>4. IsFiniteSet(Below(S, b) \ {a})
        /\ Cardinality(Below(S, b) \ {a}) = Cardinality(Below(S, b)) - 1
    BY <2>2, <2>3, FS_RemoveElement
  <2>5. Cardinality(Below(S, a)) <= Cardinality(Below(S, b) \ {a})
    BY <2>2, <2>4, FS_Subset
  <2> QED
    BY <2>3, <2>4, <2>5
<1>4. ASSUME NEW a \in S PROVE Cardinality(Below(S, a)) \in 0 .. Cardinality(S) - 1
  <2>1. Cardinality(Below(S, a)) \in Nat /\ Cardinality(Below(S, a)) < Cardinality(S)
    BY <1>2
  <2> QED
    BY <1>1, <2>1
<1> QED
  BY <1>1, <1>3, <1>4

\* sort.Strings: as many items as there are, in strictly ascending order,
\* and none left out.
LEMMA SortedList ==
  ASSUME NEW S, S \subseteq Int, IsFiniteSet(S)
  PROVE  /\ Sorted(S) \in Seq(S)
         /\ Len(Sorted(S)) = Cardinality(S)
         /\ \A k, l \in 1 .. Cardinality(S) : k < l => Sorted(S)[k] < Sorted(S)[l]
         /\ \A a \in S : \E k \in 1 .. Cardinality(S) : Sorted(S)[k] = a
<1> DEFINE n    == Cardinality(S)
           rank == [a \in S |-> Cardinality(Below(S, a))]
<1>1. n \in Nat
  BY Ranks
<1>2. \A a \in S : rank[a] \in 0 .. n - 1
  BY Ranks
<1>3. \A a, b \in S : a < b => rank[a] < rank[b]
  BY Ranks
<1>4. rank \in [S -> 0 .. n - 1]
  BY <1>2
<1>5. \A a \in S : rank[a] = Cardinality(Below(S, a))
  OBVIOUS
<1>6. IsFiniteSet(0 .. n - 1) /\ Cardinality(0 .. n - 1) = n
  <2> HIDE DEF n
  <2>1. 0 \in Int /\ n - 1 \in Int
    BY <1>1
  <2> QED
    BY <1>1, <2>1, FS_Interval
<1>7. n = Cardinality(S)
  OBVIOUS
<1> HIDE DEF n, rank
<1>8. \A a, b \in S : a # b => rank[a] # rank[b]
  <2> SUFFICES ASSUME NEW a \in S, NEW b \in S, a # b PROVE rank[a] # rank[b]
    OBVIOUS
  <2>1. a < b \/ b < a
    OBVIOUS
  <2>2. rank[a] \in Int /\ rank[b] \in Int
    BY <1>2
  <2> QED
    BY <1>3, <2>1, <2>2
<1>9. rank \in Surjection(S, 0 .. n - 1)
  <2>1. rank \in Injection(S, 0 .. n - 1)
    BY <1>4, <1>8 DEF Injection, IsInjective
  <2> QED
    BY <1>6, <1>7, <2>1, FS_Injection
<1>10. ASSUME NEW k \in 1 .. n
       PROVE  Sorted(S)[k] \in S /\ rank[Sorted(S)[k]] = k - 1
  <2>1. k - 1 \in 0 .. n - 1
    BY <1>1
  <2>2. \E a \in S : Cardinality(Below(S, a)) = k - 1
    BY <1>5, <1>9, <2>1 DEF Surjection
  <2>3. Sorted(S)[k] = CHOOSE a \in S : Cardinality(Below(S, a)) = k - 1
    BY <1>7 DEF Sorted, Below
  <2> QED
    BY <1>5, <2>2, <2>3
<1>11. Sorted(S) \in [1 .. n -> S]
  <2> DEFINE item(k) == CHOOSE a \in S : Cardinality({b \in S : b < a}) = k - 1
  <2>1. Sorted(S) = [k \in 1 .. Cardinality(S) |-> item(k)]
    BY DEF Sorted
  <2> HIDE DEF item
  <2>2. Sorted(S) = [k \in 1 .. n |-> item(k)]
    BY <1>7, <2>1
  <2>3. ASSUME NEW k \in 1 .. n PROVE item(k) \in S
    BY <1>10, <2>2, <2>3
  <2> QED
    BY <2>2, <2>3
<1>12. Sorted(S) \in Seq(S) /\ Len(Sorted(S)) = n
  BY <1>1, <1>11
<1>13. ASSUME NEW k \in 1 .. n, NEW l \in 1 .. n, k < l
       PROVE  Sorted(S)[k] < Sorted(S)[l]
  <2>1. PICK a \in S : a = Sorted(S)[k] /\ rank[a] = k - 1
    BY <1>10
  <2>2. PICK b \in S : b = Sorted(S)[l] /\ rank[b] = l - 1
    BY <1>10
  <2>3. a # b
    BY <1>1, <1>13, <2>1, <2>2
  <2>4. ~(b < a)
    BY <1>1, <1>3, <1>13, <2>1, <2>2
  <2> QED
    BY <2>1, <2>2, <2>3, <2>4
<1>14. ASSUME NEW a \in S PROVE \E k \in 1 .. n : Sorted(S)[k] = a
  <2>1. PICK k \in 1 .. n : k - 1 = rank[a]
    <3>1. rank[a] + 1 \in 1 .. n /\ (rank[a] + 1) - 1 = rank[a]
      BY <1>1, <1>2
    <3> QED
      BY <3>1
  <2>2. Sorted(S)[k] \in S /\ rank[Sorted(S)[k]] = rank[a]
    BY <1>10, <2>1
  <2> QED
    BY <1>8, <2>2
<1> QED
  BY <1>7, <1>12, <1>13, <1>14

-----------------------------------------------------------------------------
\* The nodes are on different machines: no two of the addresses asked for are
\* those of one machine of the VPC.
OneEach == \A m \in machines : InVpc(m) =>
              \A a, b \in m.addresses \cap privateIps : a = b

\* The inductive invariant of the lookup.
LookupInv ==
    /\ LookupTypeOK /\ OneEach /\ ListRight /\ CachesRight /\ Accounted /\ SearchRight
    /\ searching => IsExistRight

\* The machines of the VPC do not share addresses.
LEMMA OneOwner ==
  ASSUME LookupTypeOK, NEW m \in machines, NEW n \in machines, InVpc(m), InVpc(n),
         NEW a, a \in m.addresses, a \in n.addresses
  PROVE  m = n
<1>1. machines \in Clouds
  BY DEF LookupTypeOK
<1> QED
  BY <1>1, LookupAssumption DEF InVpc

\* What is in the list is an address asked for.
LEMMA Listed ==
  ASSUME LookupTypeOK, ListRight, NEW k \in 1 .. count
  PROVE  /\ ips[k] \in privateIps /\ ips[k] \in Addresses /\ ips[k] \in Int
         /\ k - 1 \in 0 .. count - 1 /\ (k - 1) + 1 = k
<1>1. ips \in Seq(privateIps) /\ Len(ips) = count /\ privateIps \subseteq Addresses
  BY DEF LookupTypeOK, ListRight
<1>2. ips[k] \in privateIps
  BY <1>1, ElementOfSeq
<1>3. count \in Nat
  BY BatchesAssumption DEF LookupTypeOK, TypeOK
<1>4. ips[k] \in Addresses /\ ips[k] \in Int
  BY <1>1, <1>2, LookupAssumption
<1>5. k - 1 \in 0 .. count - 1 /\ (k - 1) + 1 = k
  BY <1>3
<1> QED
  BY <1>2, <1>4, <1>5

\* The list is without doubles.
LEMMA ListedOnce ==
  ASSUME LookupTypeOK, ListRight,
         NEW k \in 1 .. count, NEW l \in 1 .. count, ips[k] = ips[l]
  PROVE  k = l
<1>1. ips[k] \in Int /\ ips[l] \in Int
  BY Listed
<1>2. ~(k < l) /\ ~(l < k)
  BY <1>1 DEF ListRight
<1>3. count \in Nat
  BY BatchesAssumption DEF LookupTypeOK, TypeOK
<1> QED
  BY <1>2, <1>3

\* A lookup starts with what is in the cache, and a list of the rest.
LEMMA LookupStarts == LookupInit => LookupInv
<1> SUFFICES ASSUME LookupInit PROVE LookupInv
  OBVIOUS
<1> DEFINE rest == {a \in privateIps : cache[a] = {}}
<1>1. /\ machines \in Clouds /\ privateIps \in SUBSET Addresses
      /\ answer = {} /\ verdict = {} /\ searching = FALSE /\ sent = {}
      /\ result = "running" /\ count = Len(ips) /\ ips = Sorted(rest)
  BY DEF LookupInit, Init
<1>2. PICK hits \in SUBSET privateIps :
         cache = [a \in Addresses |-> {m \in machines : InVpc(m) /\ a \in m.addresses \cap hits}]
  BY DEF LookupInit
<1>3. /\ cache \in [Addresses -> SUBSET machines]
      /\ \A a \in Addresses : \A m \in cache[a] : InVpc(m) /\ a \in m.addresses \cap privateIps
  BY <1>2
<1>4. OneEach
  <2>1. ASSUME NEW m \in machines, InVpc(m),
               NEW a \in m.addresses \cap privateIps, NEW b \in m.addresses \cap privateIps
        PROVE  a = b
    <3> DEFINE T == m.addresses \cap privateIps
    <3>1. Cardinality(T) <= 1
      BY <2>1 DEF LookupInit
    <3>2. IsFiniteSet(T) /\ T \in SUBSET Addresses /\ a \in T /\ b \in T
      BY <1>1, LookupAssumption, FS_Subset
    <3> HIDE DEF T
    <3>3. Cardinality(T) \in Nat
      BY <3>2, FS_CardinalityType
    <3>4. IsFiniteSet(T \ {a}) /\ Cardinality(T \ {a}) = Cardinality(T) - 1
      BY <3>2, FS_RemoveElement
    <3>5. Cardinality(T \ {a}) \in Nat
      BY <3>4, FS_CardinalityType
    <3>6. Cardinality(T \ {a}) = 0
      BY <3>1, <3>3, <3>4, <3>5
    <3>7. T \ {a} = {}
      BY <3>4, <3>6, FS_EmptySet
    <3> QED
      BY <3>2, <3>7
  <2> QED
    BY <2>1 DEF OneEach
<1>5. /\ ips \in Seq(rest)
      /\ \A k, l \in 1 .. count : k < l => ips[k] < ips[l]
      /\ \A a \in rest : \E k \in 1 .. count : ips[k] = a
  <2>1. rest \subseteq Int /\ IsFiniteSet(rest)
    BY <1>1, LookupAssumption, FS_Subset
  <2> HIDE DEF rest
  <2> QED
    BY <1>1, <2>1, SortedList
<1>6. \A k \in 1 .. count : ips[k] \in rest
  <2> HIDE DEF rest
  <2> QED
    BY <1>1, <1>5, ElementOfSeq
<1>7. ips \in Seq(privateIps)
  <2>1. rest \subseteq privateIps
    OBVIOUS
  <2> HIDE DEF rest
  <2> QED
    BY <1>5, <2>1
<1>8. count \in 0 .. MaxCount /\ count \in Nat /\ TypeOK
  BY BatchesAssumption DEF LookupInit, Init, TypeOK
<1>9. \A m \in machines : found[m] = IF \E a \in Addresses : m \in cache[a] THEN 1 ELSE 0
  <2> SUFFICES ASSUME NEW m \in machines
               PROVE  found[m] = IF \E a \in Addresses : m \in cache[a] THEN 1 ELSE 0
    OBVIOUS
  <2> DEFINE where == {a \in privateIps : m \in cache[a]}
  <2>1. found[m] = Cardinality(where)
    BY DEF LookupInit
  <2>2. CASE \E a \in Addresses : m \in cache[a]
    <3>1. PICK a \in Addresses : m \in cache[a]
      BY <2>2
    <3>2. where = {a}
      <4>1. a \in where /\ InVpc(m) /\ a \in m.addresses \cap privateIps
        BY <1>3, <3>1
      <4>2. ASSUME NEW b \in where PROVE b = a
        <5>1. b \in m.addresses \cap privateIps
          BY <1>1, <1>3
        <5> QED
          BY <1>4, <4>1, <5>1 DEF OneEach
      <4> QED
        BY <4>1, <4>2
    <3> QED
      BY <2>1, <2>2, <3>2, FS_Singleton
  <2>3. CASE ~ \E a \in Addresses : m \in cache[a]
    <3>1. where = {}
      BY <1>1, <2>3
    <3> QED
      BY <2>1, <2>3, <3>1, FS_EmptySet
  <2> QED
    BY <2>2, <2>3
<1>10. found \in [machines -> 0 .. count + 1]
  <2>1. found = [m \in machines |-> found[m]]
    BY DEF LookupInit
  <2>2. \A m \in machines : found[m] \in 0 .. count + 1
    BY <1>8, <1>9
  <2> QED
    BY <2>1, <2>2
<1>11. LookupTypeOK
  BY <1>1, <1>3, <1>7, <1>8, <1>10 DEF LookupTypeOK
<1>12. ListRight
  BY <1>1, <1>5 DEF ListRight
<1>13. Accounted
  <2>1. ASSUME NEW k \in 0 .. count - 1 PROVE cache[ips[k + 1]] = {}
    <3>1. k + 1 \in 1 .. count
      BY <1>8
    <3> QED
      BY <1>6, <3>1
  <2>2. UNION sent = {}
    BY <1>1
  <2> QED
    BY <1>1, <1>9, <2>1, <2>2 DEF Accounted
<1> QED
  BY <1>1, <1>3, <1>4, <1>11, <1>12, <1>13 DEF LookupInv, CachesRight, SearchRight

\* A turn of the loop.
LEMMA TurnKeeps ==
  ASSUME LookupInv, TypeOK', InHand, Turn
  PROVE  LookupInv'
<1> USE DEF LookupInv
<1>1. /\ UNCHANGED <<machines, privateIps, ips, cache, search, found, count>>
      /\ answer = {} /\ result = "running" /\ i < count /\ i \in Nat /\ count \in Nat
  BY BatchesAssumption DEF Turn, Iterate, LookupTypeOK, TypeOK
<1>2. UNCHANGED <<target, lo, hi, verdict, searching>>
  BY <1>1 DEF search
<1>3. ~searching /\ verdict = {}
  BY <1>1 DEF SearchRight
<1>4. result' # "done"
  BY <1>1 DEF Turn, Iterate
<1>5. OneEach' /\ ListRight' /\ CachesRight' /\ SearchRight' /\ (searching => IsExistRight)'
  BY <1>1, <1>2, <1>3 DEF OneEach, ListRight, CachesRight, SearchRight, InVpc
<1>6. CASE Flush /\ result' = "running"
  <2> DEFINE new == batch \cup {i}
  <2>1. PICK first \in 0 .. i : UNION sent = 0 .. first - 1 /\ batch = first .. i - 1
    BY DEF InHand
  <2>2. (UNION sent) \cap new = {} /\ i \in new /\ new \subseteq 0 .. count - 1
    <3>1. ASSUME NEW k \in batch PROVE k \notin UNION sent
      <4>1. k \in first .. i - 1 /\ first \in Int
        BY <1>1, <2>1
      <4>2. k \notin 0 .. first - 1
        BY <1>1, <4>1
      <4> QED
        BY <2>1, <4>2
    <3>2. i \notin UNION sent /\ i \in 0 .. count - 1
      <4>1. first \in Int /\ first <= i /\ i \in Int
        BY <1>1, <2>1
      <4>2. i \notin 0 .. first - 1
        BY <4>1
      <4>3. i \in 0 .. count - 1
        BY <1>1
      <4> QED BY <2>1, <4>2, <4>3, Zenon
    <3>3. batch \subseteq 0 .. count - 1
      BY DEF LookupTypeOK, TypeOK
    <3> QED
      BY <3>1, <3>2, <3>3
  <2>3. sent' = sent \cup {new} /\ new \notin sent
    <3>1. new \notin sent
      BY <2>2, Zenon
    <3> QED
      BY <1>6, <3>1 DEF Turn, Iterate
  <2>4. sent' \ sent = {new} /\ UNION sent' = (UNION sent) \cup new
    BY <2>3, Zenon
  <2> HIDE DEF new
  <2>5. answer' = Answer(Requested(new))
    <3>1. answer' = UNION {Answer(Requested(b)) : b \in sent' \ sent}
      BY <1>6, <2>2, <2>4 DEF Turn
    <3> QED
      BY <2>4, <3>1
  <2>6. \A k \in new : k + 1 \in 1 .. count
    BY <1>1, <2>2
  <2>7. ASSUME NEW ma \in answer'
        PROVE  /\ ma \in machines \X Addresses
               /\ InVpc(ma[1]) /\ ma[2] \in ma[1].addresses
               /\ \A k \in 1 .. count :
                     ips[k] = ma[2] => cache[ma[2]] = {} /\ k - 1 \in new
    <3>1. /\ ma \in machines \X Addresses
          /\ InVpc(ma[1]) /\ ma[2] \in ma[1].addresses
      BY <2>5 DEF Answer
    <3>2. PICK l \in new : ips[l + 1] \in ma[1].addresses
      BY <2>5 DEF Answer, Requested
    <3>3. l + 1 \in 1 .. count /\ l \in 0 .. count - 1 /\ l \notin UNION sent /\ (l + 1) - 1 = l
      BY <2>2, <2>6
    <3>4. cache[ips[l + 1]] = {} /\ ips[l + 1] \in privateIps
      BY <3>3, Listed DEF Accounted
    <3>5. ASSUME NEW k \in 1 .. count, ips[k] = ma[2]
          PROVE  cache[ma[2]] = {} /\ k - 1 \in new
      <4>1. ips[k] \in privateIps /\ ma[1] \in machines
        BY <3>1, Listed
      <4>2. ips[k] = ips[l + 1]
        BY <3>1, <3>2, <3>4, <3>5, <4>1 DEF OneEach
      <4>3. k = l + 1
        BY <3>3, <4>2, ListedOnce
      <4> QED
        BY <3>3, <3>4, <3>5, <4>2, <4>3
    <3> QED
      BY <3>1, <3>5
  <2>8. ASSUME NEW k \in UNION sent', NEW m \in machines, InVpc(m), ips[k + 1] \in m.addresses
        PROVE  m \in cache[ips[k + 1]] \/ <<m, ips[k + 1]>> \in answer'
    <3>1. CASE k \in UNION sent
      BY <1>1, <2>8, <3>1 DEF Accounted
    <3>2. CASE k \in new
      <4>1. ips[k + 1] \in Addresses /\ ips[k + 1] \in Requested(new)
        BY <2>6, <3>2, Listed DEF Requested
      <4>2. m.addresses \cap Requested(new) # {}
        BY <2>8, <4>1
      <4> QED
        BY <2>5, <2>8, <4>1, <4>2 DEF Answer
    <3> QED
      BY <2>4, <3>1, <3>2
  <2>9. Accounted'
    <3>1. \A k \in 0 .. count - 1 : k \notin UNION sent' => cache[ips[k + 1]] = {}
      BY <2>4 DEF Accounted
    <3>2. \A ma \in answer' :
             /\ InVpc(ma[1]) /\ ma[2] \in ma[1].addresses
             /\ \A k \in 1 .. count :
                   ips[k] = ma[2] => cache[ma[2]] = {} /\ k - 1 \in UNION sent'
      BY <2>4, <2>7
    <3>3. \A m \in machines : found[m] = IF \E a \in Addresses : m \in cache[a] THEN 1 ELSE 0
      BY DEF Accounted
    <3> QED
      BY <1>1, <1>4, <2>8, <3>1, <3>2, <3>3 DEF Accounted, InVpc
  <2>10. LookupTypeOK'
    BY <1>1, <1>2, <1>3, <2>7 DEF LookupTypeOK
  <2> QED
    BY <1>5, <2>9, <2>10
<1>7. CASE ~(Flush /\ result' = "running")
  <2>1. answer' = {} /\ (UNION sent) \subseteq UNION sent'
    <3>1. CASE Flush
      BY <1>7, <3>1 DEF Turn, Iterate
    <3>2. CASE ~Flush
      BY <3>2 DEF Turn, Iterate
    <3> QED
      BY <3>1, <3>2
  <2>2. result' = "error" \/ (result' = "running" /\ sent' = sent)
    BY <1>7, <1>1 DEF Turn, Iterate
  <2>3. LookupTypeOK'
    BY <1>1, <1>2, <1>3, <2>1 DEF LookupTypeOK
  <2>4. Accounted'
    BY <1>1, <1>4, <2>1, <2>2 DEF Accounted, InVpc
  <2> QED
    BY <1>5, <2>3, <2>4
<1> QED
  BY <1>6, <1>7

\* A search starts.
LEMMA IsExistKeeps ==
  ASSUME LookupInv, TypeOK', isExist
  PROVE  LookupInv'
<1> USE DEF LookupInv
<1>1. /\ UNCHANGED <<machines, privateIps, ips, cache, answer, found, count, sent, result>>
      /\ searching' = TRUE /\ verdict' = {} /\ lo' = 0 /\ hi' = Len(ips)
  BY DEF isExist, vars
<1>2. PICK ma \in answer : target' = ma[2]
  BY DEF isExist
<1>3. target' \in Addresses
  BY <1>2 DEF LookupTypeOK
<1>4. Len(ips) \in Nat /\ ips \in Seq(Addresses) /\ ips \in Seq(privateIps)
  BY DEF LookupTypeOK
<1>5. Search!TypeOK' /\ Search!Narrowed'
  BY <1>1, <1>3, <1>4 DEF Search!TypeOK, Search!Narrowed
<1>6. IsExistRight'
  BY <1>1 DEF IsExistRight, Search!FindsMembers, Search!FindsNoOther
<1>7. LookupTypeOK'
  BY <1>1, <1>5 DEF LookupTypeOK
<1>8. OneEach' /\ ListRight' /\ CachesRight' /\ Accounted'
  <2>1. OneEach' /\ ListRight' /\ CachesRight'
    BY <1>1 DEF OneEach, ListRight, CachesRight, InVpc
  <2>2. Accounted'
    BY <1>1 DEF Accounted, InVpc
  <2> QED
    BY <2>1, <2>2
<1>9. SearchRight'
  BY <1>1, <1>2, <1>5 DEF SearchRight
<1> QED
  BY <1>6, <1>7, <1>8, <1>9

\* A step of a search.
LEMMA SearchStepKeeps ==
  ASSUME LookupInv, TypeOK', SearchStep
  PROVE  LookupInv'
<1> USE DEF LookupInv
<1>1. /\ UNCHANGED <<machines, privateIps, ips, cache, answer, found, count, sent, result>>
      /\ UNCHANGED <<target, searching>> /\ searching
  BY DEF SearchStep, vars, Search!Halve, Search!Answer
<1>2. Addresses \subseteq Int /\ SearchFacts!TypeOK /\ SearchFacts!Narrowed
      /\ SearchFacts!FindsMembers /\ SearchFacts!FindsNoOther
  BY <1>1, LookupAssumption
     DEF SearchRight, IsExistRight, Search!TypeOK, Search!Narrowed, Search!Sorted,
         Search!FindsMembers, Search!FindsNoOther, Search!IsMember,
         SearchFacts!TypeOK, SearchFacts!Narrowed, SearchFacts!Sorted,
         SearchFacts!FindsMembers, SearchFacts!FindsNoOther, SearchFacts!IsMember
<1>3. SearchFacts!Next
  BY DEF SearchStep, SearchFacts!Next, Search!Halve, Search!Answer, Search!At,
         Search!Left, Search!Right, Search!Hits, SearchFacts!Halve, SearchFacts!Answer,
         SearchFacts!At, SearchFacts!Left, SearchFacts!Right, SearchFacts!Hits
<1>4. SearchFacts!TypeOK' /\ SearchFacts!Narrowed'
      /\ (SearchFacts!FindsMembers /\ SearchFacts!FindsNoOther)'
  BY <1>2, <1>3, SearchFacts!TypeStep, SearchFacts!NarrowedStep, SearchFacts!AnswerStep
<1>5. Search!TypeOK' /\ Search!Narrowed' /\ IsExistRight'
  BY <1>4
     DEF SearchRight, IsExistRight, Search!TypeOK, Search!Narrowed, Search!Sorted,
         Search!FindsMembers, Search!FindsNoOther, Search!IsMember,
         SearchFacts!TypeOK, SearchFacts!Narrowed, SearchFacts!Sorted,
         SearchFacts!FindsMembers, SearchFacts!FindsNoOther, SearchFacts!IsMember
<1>6. LookupTypeOK'
  BY <1>1, <1>5 DEF LookupTypeOK
<1>7. OneEach' /\ ListRight' /\ CachesRight' /\ Accounted'
  BY <1>1 DEF OneEach, ListRight, CachesRight, Accounted, InVpc
<1>8. SearchRight'
  BY <1>1, <1>5 DEF SearchRight
<1> QED
  BY <1>5, <1>6, <1>7, <1>8

\* The search has told whether an address is in the list: its machine is taken,
\* or not.
LEMMA TakeKeeps ==
  ASSUME LookupInv, TypeOK', Take
  PROVE  LookupInv'
<1> USE DEF LookupInv
<1>1. /\ UNCHANGED <<machines, privateIps, ips, count, sent, result>>
      /\ searching /\ searching' = FALSE /\ verdict' = {} /\ verdict # {}
  BY DEF Take, vars
<1>2. PICK ma \in answer :
         /\ ma[2] = target
         /\ answer' = answer \ {ma}
         /\ IF verdict = {TRUE}
              THEN /\ cache' = [cache EXCEPT ![target] = {ma[1]}]
                   /\ found' = [found EXCEPT ![ma[1]] = @ + 1]
              ELSE UNCHANGED <<cache, found>>
  BY DEF Take
<1>3. /\ ma[1] \in machines /\ target \in Addresses /\ ma = <<ma[1], target>>
      /\ InVpc(ma[1]) /\ target \in ma[1].addresses
  BY <1>2 DEF LookupTypeOK, Accounted
<1>4. OneEach' /\ SearchRight' /\ (searching => IsExistRight)'
  BY <1>1 DEF OneEach, SearchRight, InVpc
<1>5. Search!FindsMembers /\ Search!FindsNoOther
  BY <1>1 DEF IsExistRight
<1>6. CASE verdict = {TRUE}
  <2>1. /\ cache' = [cache EXCEPT ![target] = {ma[1]}]
        /\ found' = [found EXCEPT ![ma[1]] = @ + 1]
    BY <1>2, <1>6
  <2>2. PICK k \in 1 .. count : ips[k] = target
    BY <1>5, <1>6 DEF Search!FindsNoOther, Search!IsMember, ListRight
  <2>3. /\ cache[target] = {} /\ k - 1 \in UNION sent /\ target \in privateIps
    BY <1>2, <2>2, Listed DEF Accounted
  <2>4. \A m \in machines : InVpc(m) /\ target \in m.addresses => m = ma[1]
    BY <1>3, OneOwner
  <2>5. /\ cache' \in [Addresses -> SUBSET machines] /\ cache'[target] = {ma[1]}
        /\ \A a \in Addresses : a # target => cache'[a] = cache[a]
    BY <1>3, <2>1 DEF LookupTypeOK
  <2>6. CachesRight'
    BY <1>1, <1>3, <2>3, <2>5 DEF CachesRight, InVpc
  <2>7. ListRight'
    <3>1. privateIps \subseteq Addresses
      BY DEF LookupTypeOK
    <3> QED
      BY <1>1, <2>5, <3>1 DEF ListRight
  <2>8. ASSUME NEW m \in machines
        PROVE  found'[m] = IF \E a \in Addresses : m \in cache'[a] THEN 1 ELSE 0
    <3>1. CASE m = ma[1]
      <4>1. ASSUME NEW a \in Addresses, m \in cache[a] PROVE FALSE
        <5>1. a \in m.addresses \cap privateIps
          BY <4>1 DEF CachesRight
        <5>2. a = target
          BY <1>3, <2>3, <3>1, <5>1 DEF OneEach
        <5> QED
          BY <2>3, <4>1, <5>2
      <4>2. found[m] = 0
        BY <4>1 DEF Accounted
      <4>3. found'[m] = 1
        BY <2>1, <3>1, <4>2 DEF LookupTypeOK
      <4> QED
        BY <1>3, <2>5, <3>1, <4>3
    <3>2. CASE m # ma[1]
      <4>1. found'[m] = found[m]
        BY <2>1, <3>2 DEF LookupTypeOK
      <4>2. \A a \in Addresses : m \in cache'[a] <=> m \in cache[a]
        BY <2>3, <2>5, <3>2
      <4> QED
        BY <4>1, <4>2 DEF Accounted
    <3> QED
      BY <3>1, <3>2
  <2>9. Accounted'
    <3>1. ASSUME NEW l \in 0 .. count - 1, l \notin UNION sent PROVE cache'[ips[l + 1]] = {}
      <4>1. l + 1 \in 1 .. count /\ (l + 1) - 1 = l
        BY BatchesAssumption DEF LookupTypeOK, TypeOK
      <4>2. ips[l + 1] # target
        BY <1>2, <3>1, <4>1 DEF Accounted
      <4>3. ips[l + 1] \in Addresses
        BY <4>1, Listed
      <4>4. cache[ips[l + 1]] = {}
        BY <3>1 DEF Accounted
      <4> QED
        BY <2>5, <4>2, <4>3, <4>4
    <3>2. ASSUME NEW na \in answer'
          PROVE  /\ InVpc(na[1]) /\ na[2] \in na[1].addresses
                 /\ \A l \in 1 .. count :
                       ips[l] = na[2] => cache'[na[2]] = {} /\ l - 1 \in UNION sent
      <4>1. na \in answer /\ na # ma
        BY <1>2
      <4>2. na[1] \in machines /\ na[2] \in Addresses /\ na = <<na[1], na[2]>>
        BY <4>1 DEF LookupTypeOK
      <4>3. InVpc(na[1]) /\ na[2] \in na[1].addresses
        BY <4>1 DEF Accounted
      <4>4. na[2] # target
        BY <1>3, <2>4, <4>1, <4>2, <4>3
      <4> QED
        BY <2>5, <4>1, <4>2, <4>3, <4>4 DEF Accounted
    <3>3. ASSUME result # "error", NEW l \in UNION sent, NEW m \in machines,
                 InVpc(m), ips[l + 1] \in m.addresses
          PROVE  m \in cache'[ips[l + 1]] \/ <<m, ips[l + 1]>> \in answer'
      <4>1. l + 1 \in 1 .. count
        BY BatchesAssumption DEF LookupTypeOK, TypeOK
      <4>2. ips[l + 1] \in Addresses
        BY <4>1, Listed
      <4>3. m \in cache[ips[l + 1]] \/ <<m, ips[l + 1]>> \in answer
        BY <3>3 DEF Accounted
      <4>4. CASE ips[l + 1] = target
        BY <2>4, <2>5, <3>3, <4>4
      <4>5. CASE ips[l + 1] # target
        BY <1>2, <1>3, <2>5, <4>2, <4>3, <4>5
      <4> QED
        BY <4>4, <4>5
    <3>4. result # "done"
      BY <1>2 DEF Accounted
    <3> QED
      BY <1>1, <2>8, <3>1, <3>2, <3>3, <3>4 DEF Accounted, InVpc
  <2>10. LookupTypeOK'
    <3>1. \A m \in machines : found'[m] \in 0 .. count + 1
      BY <2>8, BatchesAssumption DEF LookupTypeOK, TypeOK
    <3>2. found' \in [machines -> 0 .. count + 1]
      BY <2>1, <3>1 DEF LookupTypeOK
    <3> QED
      BY <1>1, <1>2, <2>5, <3>2 DEF LookupTypeOK
  <2> QED
    BY <1>4, <2>6, <2>7, <2>9, <2>10
<1>7. CASE verdict # {TRUE}
  <2>1. UNCHANGED <<cache, found>>
    BY <1>2, <1>7
  <2>2. \A k \in 1 .. count : ips[k] # target
    <3>1. Search!Sorted
      <4>1. \A k, l \in 1 .. count : k <= l => ips[k] <= ips[l]
        <5>1. \A k \in 1 .. count : ips[k] \in Int
          BY Listed
        <5> QED
          BY <5>1 DEF ListRight
      <4> QED
        BY <4>1 DEF Search!Sorted, ListRight
    <3> QED
      BY <1>1, <1>5, <1>7, <3>1 DEF Search!FindsMembers, Search!IsMember, ListRight
  <2>3. CachesRight' /\ ListRight'
    BY <1>1, <2>1 DEF CachesRight, ListRight, InVpc
  <2>4. LookupTypeOK'
    BY <1>1, <1>2, <2>1 DEF LookupTypeOK
  <2>5. Accounted'
    <3>1. ASSUME NEW l \in UNION sent PROVE ips[l + 1] # target
      <4>1. l + 1 \in 1 .. count
        BY BatchesAssumption DEF LookupTypeOK, TypeOK
      <4> QED
        BY <2>2, <4>1
    <3>2. \A l \in UNION sent : \A m \in machines :
             <<m, ips[l + 1]>> \in answer => <<m, ips[l + 1]>> \in answer'
      BY <1>2, <1>3, <3>1
    <3> QED
      BY <1>1, <1>2, <2>1, <3>2 DEF Accounted, InVpc
  <2> QED
    BY <1>4, <2>3, <2>4, <2>5
<1> QED
  BY <1>6, <1>7

\* The loop ends.
LEMMA ReturnKeeps ==
  ASSUME LookupInv, TypeOK', Return
  PROVE  LookupInv'
<1> USE DEF LookupInv
<1>1. /\ UNCHANGED <<machines, privateIps, ips, cache, answer, search, found, count, sent>>
      /\ answer = {} /\ result = "running" /\ result' = "done"
  BY DEF Return, Finish
<1>2. UNCHANGED <<target, lo, hi, verdict, searching>>
  BY <1>1 DEF search
<1>3. ~searching /\ verdict = {}
  BY <1>1 DEF SearchRight
<1>4. OneEach' /\ ListRight' /\ CachesRight' /\ SearchRight' /\ (searching => IsExistRight)'
  BY <1>1, <1>2, <1>3 DEF OneEach, ListRight, CachesRight, SearchRight, InVpc
<1>5. LookupTypeOK' /\ Accounted'
  BY <1>1, <1>2, <1>3 DEF LookupTypeOK, Accounted, InVpc
<1> QED
  BY <1>4, <1>5

\* The invariant holds all along a lookup.
LEMMA LookupAlwaysInv == LookupSpec => []LookupInv
<1>1. LookupInv /\ TypeOK' /\ InHand /\ [LookupNext]_lookupVars => LookupInv'
  <2> SUFFICES ASSUME LookupInv, TypeOK', InHand, [LookupNext]_lookupVars PROVE LookupInv'
    OBVIOUS
  <2>1. CASE Turn
    BY <2>1, TurnKeeps
  <2>2. CASE isExist
    BY <2>2, IsExistKeeps
  <2>3. CASE SearchStep
    BY <2>3, SearchStepKeeps
  <2>4. CASE Take
    BY <2>4, TakeKeeps
  <2>5. CASE Return
    BY <2>5, ReturnKeeps
  <2>6. CASE UNCHANGED lookupVars
    <3>1. /\ UNCHANGED <<machines, privateIps, ips, cache, answer, found, count, sent, result>>
          /\ UNCHANGED <<target, lo, hi, verdict, searching>>
      BY <2>6 DEF lookupVars, search, vars
    <3>2. OneEach' /\ ListRight' /\ CachesRight' /\ Accounted'
      BY <3>1 DEF LookupInv, OneEach, ListRight, CachesRight, Accounted, InVpc
    <3>3. LookupTypeOK' /\ SearchRight' /\ (searching => IsExistRight)'
      BY <3>1 DEF LookupInv, LookupTypeOK, SearchRight, IsExistRight, Search!TypeOK,
                  Search!Narrowed, Search!Sorted, Search!FindsMembers,
                  Search!FindsNoOther, Search!IsMember
    <3> QED
      BY <3>2, <3>3 DEF LookupInv
  <2> QED
    BY <2>1, <2>2, <2>3, <2>4, <2>5, <2>6 DEF LookupNext
<1> QED
  BY <1>1, LookupStarts, LookupIsBatches, TypeCorrect, AlwaysInHand, PTL DEF LookupSpec

\* Every state of a lookup is of its type.
THEOREM LookupTypeCorrect == LookupSpec => []LookupTypeOK
<1>1. LookupInv => LookupTypeOK
  BY DEF LookupInv
<1> QED
  BY <1>1, LookupAlwaysInv, PTL

\* However the lookup goes on or fails: under an address of a node the cache
\* has a machine of the VPC with that address, and under no other address has
\* getInstanceByInstancePrivateIps entered any.
THEOREM OnlyRightCached == LookupSpec => []CachesRight
<1>1. LookupInv => CachesRight
  BY DEF LookupInv
<1> QED
  BY <1>1, LookupAlwaysInv, PTL

\* The list is sorted, so isExist is right in every search of the lookup.
THEOREM IsExistRightHere == LookupSpec => []IsExistRight
<1>1. LookupInv => IsExistRight
  BY DEF LookupInv, SearchRight, IsExistRight, Search!FindsMembers, Search!FindsNoOther
<1> QED
  BY <1>1, LookupAlwaysInv, PTL

\* For any cloud, any number of nodes, and any part of them in the cache: the
\* lookup that returns without error has found just the machines of the nodes,
\* each once.
THEOREM LookupFindsExactly == LookupSpec => []FindsExactly
<1>1. LookupInv /\ TypeOK /\ NothingDropped => FindsExactly
  <2> SUFFICES ASSUME LookupInv, TypeOK, NothingDropped, result = "done", NEW m \in machines
               PROVE  IF InVpc(m) /\ m.addresses \cap privateIps # {}
                        THEN /\ found[m] = 1
                             /\ \A a \in m.addresses \cap privateIps : cache[a] = {m}
                        ELSE found[m] = 0
    BY DEF FindsExactly
  <2> USE DEF LookupInv
  <2>1. CASE InVpc(m) /\ m.addresses \cap privateIps # {}
    <3>1. ASSUME NEW a \in m.addresses \cap privateIps PROVE cache[a] = {m}
      <4>1. a \in Addresses
        BY DEF LookupTypeOK
      <4>2. cache[a] # {}
        <5> SUFFICES ASSUME cache[a] = {} PROVE FALSE
          OBVIOUS
        <5>1. PICK k \in 1 .. count : ips[k] = a
          BY DEF ListRight
        <5>2. k - 1 \in UNION sent /\ (k - 1) + 1 = k
          BY Listed DEF NothingDropped
        <5>3. answer = {}
          BY DEF Accounted
        <5>4. m \in cache[ips[(k - 1) + 1]] \/ <<m, ips[(k - 1) + 1]>> \in answer
          BY <2>1, <5>1, <5>2 DEF Accounted
        <5> QED
          BY <5>1, <5>2, <5>3, <5>4
      <4>3. ASSUME NEW n \in cache[a] PROVE n = m
        <5>1. n \in machines /\ InVpc(n) /\ a \in n.addresses
          BY <4>1, <4>3 DEF CachesRight, LookupTypeOK
        <5> QED
          BY <2>1, <5>1, OneOwner
      <4> QED
        BY <4>2, <4>3
    <3>2. \E a \in Addresses : m \in cache[a]
      BY <2>1, <3>1 DEF LookupTypeOK
    <3> QED
      BY <2>1, <3>1, <3>2 DEF Accounted
  <2>2. CASE ~(InVpc(m) /\ m.addresses \cap privateIps # {})
    <3>1. ~ \E a \in Addresses : m \in cache[a]
      BY <2>2 DEF CachesRight
    <3> QED
      BY <2>2, <3>1 DEF Accounted
  <2> QED
    BY <2>1, <2>2
<1> QED
  BY <1>1, LookupAlwaysInv, TypeCorrect, LookupAsksForAll, LookupIsBatches, PTL
=============================================================================
