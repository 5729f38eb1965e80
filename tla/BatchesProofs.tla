--------------------------- MODULE BatchesProofs ---------------------------
(***************************************************************************)
(* The batch loop is right for lists of every length: InHand is inductive, *)
(* and the three properties of Batches follow from it.                     *)
(***************************************************************************)
EXTENDS Batches, FiniteSetTheorems, TLAPS

\* Every state is of its type.
THEOREM TypeCorrect == Spec => []TypeOK
<1>1. Init => TypeOK
  BY BatchesAssumption DEF Init, TypeOK
<1>2. TypeOK /\ [Next]_vars => TypeOK'
  <2> SUFFICES ASSUME TypeOK, [Next]_vars PROVE TypeOK'
    OBVIOUS
  <2>1. CASE Iterate
    <3>1. batch \cup {i} \subseteq 0 .. count - 1
      BY <2>1, BatchesAssumption DEF TypeOK, Iterate
    <3>2. i' \in 0 .. count
      BY <2>1, BatchesAssumption DEF TypeOK, Iterate
    <3>3. /\ size' = size /\ count' = count
          /\ batch' = {} \/ batch' = batch \cup {i}
          /\ sent' = sent \/ sent' = sent \cup {batch \cup {i}}
          /\ result' = result \/ result' \in {"running", "error"}
      BY <2>1, Zenon DEF Iterate
    <3>4. size' \in Sizes /\ count' \in 0 .. MaxCount /\ i' \in 0 .. count'
      BY <3>2, <3>3 DEF TypeOK
    <3>5. batch' \subseteq 0 .. count' - 1
      BY <3>1, <3>3, Zenon
    <3>6. sent \subseteq SUBSET (0 .. count - 1)
      BY DEF TypeOK
    <3>7. sent' \subseteq SUBSET (0 .. count' - 1)
      BY <3>1, <3>3, <3>6, Zenon
    <3>8. result' \in {"running", "done", "error"}
      BY <3>3 DEF TypeOK
    <3> QED BY <3>4, <3>5, <3>7, <3>8 DEF TypeOK
  <2>2. CASE Finish
    BY <2>2 DEF TypeOK, Finish
  <2>3. CASE UNCHANGED vars
    BY <2>3 DEF TypeOK, vars
  <2> QED BY <2>1, <2>2, <2>3 DEF Next
<1> QED BY <1>1, <1>2, PTL DEF Spec

\* The three parts of InHand, for a step of the loop.
LEMMA IterateKeepsIntervals ==
    ASSUME TypeOK, InHand, Iterate
    PROVE  \A b \in sent' : \E lo, hi \in 0 .. i' :
              b = lo .. hi - 1 /\ lo < hi /\ hi - lo <= size'
<1>0. i \in Nat /\ i' = i + 1 /\ size' = size /\ size \in {5, 20}
  BY BatchesAssumption DEF TypeOK, Iterate
<1>1. ASSUME NEW b \in sent
      PROVE  \E lo, hi \in 0 .. i' : b = lo .. hi - 1 /\ lo < hi /\ hi - lo <= size'
  <2>1. PICK lo \in 0 .. i, hi \in 0 .. i : b = lo .. hi - 1 /\ lo < hi /\ hi - lo <= size
    BY <1>1 DEF InHand
  <2>2. lo \in 0 .. i' /\ hi \in 0 .. i'
    BY <1>0
  <2> QED BY <1>0, <2>1, <2>2
<1>2. PICK first \in 0 .. i : /\ batch = first .. i - 1
                              /\ i < count => i < first + size
  BY DEF InHand
<1>3. batch \cup {i} = first .. i' - 1 /\ first < i' /\ i' - first <= size
  BY <1>0, <1>2 DEF Iterate, TypeOK
<1>4. first \in 0 .. i' /\ i' \in 0 .. i'
  BY <1>0
<1>5. \A b \in sent' : b \in sent \/ b = batch \cup {i}
  BY DEF Iterate
<1> QED BY <1>0, <1>1, <1>3, <1>4, <1>5

LEMMA IterateKeepsRest ==
    ASSUME TypeOK, InHand, Iterate
    PROVE  \E first \in 0 .. i' :
              /\ UNION sent' = 0 .. first - 1
              /\ batch' = first .. i' - 1
              /\ i' < count' => first % size' = 0 /\ i' < first + size'
              /\ i' = count' => first = count'
<1>0. /\ i \in Nat /\ count \in Nat /\ i < count
      /\ i' = i + 1 /\ size' = size /\ count' = count
      /\ size \in {5, 20}
  BY BatchesAssumption DEF TypeOK, Iterate
<1>1. PICK first \in 0 .. i : /\ UNION sent = 0 .. first - 1
                              /\ batch = first .. i - 1
                              /\ first % size = 0 /\ i < first + size
  BY <1>0 DEF InHand
<1>2. CASE Flush
  <2>1. sent' = sent \cup {batch \cup {i}} /\ batch' = {}
    BY <1>2 DEF Iterate
  <2>2. UNION sent' = (UNION sent) \cup (batch \cup {i})
    BY <2>1, Zenon
  <2>5. (UNION sent) \cup (batch \cup {i}) = 0 .. i' - 1
    BY <1>0, <1>1
  <2>6. batch' = i' .. i' - 1
    BY <1>0, <2>1
  <2>3. i' < count => (i + 1) % size = 0
    BY <1>0, <1>2 DEF Flush
  <2>4. i' \in 0 .. i' /\ i' < i' + size
    BY <1>0
  <2> QED BY <1>0, <2>2, <2>3, <2>4, <2>5, <2>6
<1>3. CASE ~Flush
  <2>1. UNION sent' = UNION sent /\ batch' = batch \cup {i}
    BY <1>3 DEF Iterate
  <2>2. batch' = first .. i' - 1 /\ first \in 0 .. i'
    BY <1>0, <1>1, <2>1
  <2>3. i # count - 1
    BY <1>3 DEF Flush
  <2>4. i' < first + size
    <3>1. CASE i = 0
      BY <1>0, <1>1, <3>1
    <3>2. CASE i > 0
      <4>1. (i + 1) % size # 0
        BY <1>3, <3>2 DEF Flush
      <4>2. CASE size = 5
        BY <1>0, <1>1, <4>1, <4>2
      <4>3. CASE size = 20
        BY <1>0, <1>1, <4>1, <4>3
      <4> QED BY <1>0, <4>2, <4>3
    <3> QED BY <1>0, <3>1, <3>2
  <2> QED BY <1>0, <1>1, <2>1, <2>2, <2>3, <2>4
<1> QED BY <1>2, <1>3

\* InHand, the inductive invariant, holds between any two iterations.
THEOREM AlwaysInHand == Spec => []InHand
<1>1. Init => InHand
  <2> SUFFICES ASSUME Init PROVE InHand
    OBVIOUS
  <2>1. size \in {5, 20} /\ count \in Nat
    BY BatchesAssumption DEF Init
  <2>2. 0 % size = 0
    BY <2>1
  <2>3. UNION sent = 0 .. 0 - 1 /\ batch = 0 .. i - 1 /\ 0 \in 0 .. i
    BY DEF Init
  <2> QED BY <2>1, <2>2, <2>3 DEF Init, InHand
<1>2. TypeOK /\ InHand /\ [Next]_vars => InHand'
  <2> SUFFICES ASSUME TypeOK, InHand, [Next]_vars PROVE InHand'
    OBVIOUS
  <2>1. CASE Iterate
    <3>1. result' # "done"
      BY <2>1 DEF Iterate, TypeOK
    <3> QED BY <2>1, <3>1, IterateKeepsIntervals, IterateKeepsRest DEF InHand
  <2>2. CASE Finish
    <3>1. UNCHANGED <<size, count, i, batch, sent>> /\ i = count
      BY <2>2 DEF Finish
    <3> QED BY <3>1 DEF InHand
  <2>3. CASE UNCHANGED vars
    BY <2>3 DEF InHand, vars
  <2> QED BY <2>1, <2>2, <2>3 DEF Next
<1> QED BY <1>1, <1>2, TypeCorrect, PTL DEF Spec

\* Whatever the length of the list, no call carries more than its limit and
\* none is empty.
THEOREM CallsWithinLimit == Spec => []WithinLimit
<1>1. TypeOK /\ InHand => WithinLimit
  <2> SUFFICES ASSUME TypeOK, InHand, NEW b \in sent
               PROVE  b # {} /\ Cardinality(b) <= size
    BY DEF WithinLimit
  <2>1. PICK lo \in 0 .. i, hi \in 0 .. i : b = lo .. hi - 1 /\ lo < hi /\ hi - lo <= size
    BY DEF InHand
  <2>2. i \in Nat /\ size \in {5, 20}
    BY BatchesAssumption DEF TypeOK
  <2>3. lo \in b
    BY <2>1, <2>2
  <2>4. Cardinality(lo .. hi - 1) = hi - lo
    <3>1. lo \in Int /\ hi - 1 \in Int
      BY <2>2
    <3>2. Cardinality(lo .. hi - 1) = IF lo > hi - 1 THEN 0 ELSE (hi - 1) - lo + 1
      BY <3>1, FS_Interval
    <3> QED BY <2>1, <2>2, <3>2
  <2> QED BY <2>1, <2>3, <2>4
<1> QED BY <1>1, TypeCorrect, AlwaysInHand, PTL

\* Whatever the length of the list, the loop that ends has sent every item.
THEOREM EverythingSent == Spec => []NothingDropped
<1>1. TypeOK /\ InHand => NothingDropped
  BY DEF TypeOK, InHand, NothingDropped
<1> QED BY <1>1, TypeCorrect, AlwaysInHand, PTL

\* Whatever the length of the list, no two calls share an item.
THEOREM NeverTwice == Spec => []SentOnce
<1>1. Init => SentOnce
  BY DEF Init, SentOnce
<1>2. TypeOK /\ InHand /\ SentOnce /\ [Next]_vars => SentOnce'
  <2> SUFFICES ASSUME TypeOK, InHand, SentOnce, [Next]_vars PROVE SentOnce'
    OBVIOUS
  <2>1. CASE Iterate
    <3>1. PICK first \in 0 .. i : UNION sent = 0 .. first - 1 /\ batch = first .. i - 1
      BY DEF InHand
    <3>2. (UNION sent) \cap (batch \cup {i}) = {}
      <4>1. i \in Nat
        BY BatchesAssumption DEF TypeOK
      <4>2. first \in Nat /\ first <= i
        BY <4>1
      <4>3. \A n \in UNION sent : n \in Int /\ n < first
        BY <3>1, <4>2
      <4>4. \A n \in batch \cup {i} : n \in Int /\ first <= n
        BY <3>1, <4>1, <4>2
      <4>5. \A n \in Int : ~(n < first /\ first <= n)
        BY <4>2
      <4> QED BY <4>3, <4>4, <4>5, Zenon
    <3>3. \A b \in sent : b \cap (batch \cup {i}) = {}
      BY <3>2, Zenon
    <3>4. \A b \in sent' : b \in sent \/ b = batch \cup {i}
      BY <2>1 DEF Iterate
    <3> QED BY <3>3, <3>4 DEF SentOnce
  <2>2. CASE UNCHANGED sent
    BY <2>2 DEF SentOnce
  <2> QED BY <2>1, <2>2 DEF Next, Finish, vars
<1> QED BY <1>1, <1>2, TypeCorrect, AlwaysInHand, PTL DEF Spec
=============================================================================
