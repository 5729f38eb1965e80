------------------------- MODULE SortedSearchProofs -------------------------
(***************************************************************************)
(* Proofs about isExist, for lists of every length.                        *)
(***************************************************************************)
EXTENDS SortedSearch, SequenceTheorems, TLAPS

\* The middle of what is searched lies in it.
LEMMA Middle ==
  ASSUME NEW a \in Int, NEW b \in Int, a < b
  PROVE  /\ (a + b) \div 2 \in Int
         /\ a <= (a + b) \div 2 /\ (a + b) \div 2 < b
OBVIOUS

\* What is in the list are numbers.
LEMMA Elements ==
  ASSUME Strings \subseteq Int, TypeOK
  PROVE  /\ Len(strArray) \in Nat /\ target \in Int
         /\ \A k \in 1 .. Len(strArray) : strArray[k] \in Int
<1>1. ASSUME NEW k \in 1 .. Len(strArray) PROVE strArray[k] \in Strings
  BY ElementOfSeq DEF TypeOK
<1>2. Len(strArray) \in Nat
  BY LenProperties DEF TypeOK
<1> QED
  BY <1>1, <1>2 DEF TypeOK

\* A turn of the search keeps every variable in its type.
LEMMA TypeStep ==
  ASSUME Strings \subseteq Int, TypeOK, [Next]_vars
  PROVE  TypeOK'
<1>1. CASE Halve
  <2> DEFINE h == (i + j) \div 2
  <2>1. h \in Int /\ i <= h /\ h < j
    BY <1>1, Middle DEF TypeOK, Halve
  <2>2. /\ i' \in 0 .. Len(strArray) /\ j' \in i' .. Len(strArray)
    <3> HIDE DEF h
    <3>1. (i' = h + 1 /\ j' = j) \/ (i' = i /\ j' = h)
      BY <1>1 DEF Halve, Right, Left, h
    <3> QED
      BY <2>1, <3>1 DEF TypeOK
  <2>3. UNCHANGED <<strArray, target, result>>
    BY <1>1 DEF Halve
  <2> QED
    BY <2>2, <2>3 DEF TypeOK
<1>2. CASE Answer
  <2>1. Hits \in BOOLEAN
    BY DEF Hits
  <2>2. result' \subseteq BOOLEAN /\ UNCHANGED <<strArray, target, i, j>>
    BY <1>2, <2>1 DEF Answer
  <2> QED
    BY <2>2 DEF TypeOK
<1>3. CASE UNCHANGED vars
  BY <1>3 DEF vars, TypeOK
<1> QED
  BY <1>1, <1>2, <1>3 DEF Next

\* The search never looks beside the list: every variable keeps its type.
THEOREM TypeCorrect == Strings \subseteq Int => (Spec => []TypeOK)
<1> SUFFICES ASSUME Strings \subseteq Int PROVE Spec => []TypeOK
  OBVIOUS
<1>1. Init => TypeOK
  <2> SUFFICES ASSUME Init PROVE TypeOK
    OBVIOUS
  <2>1. strArray \in Seq(Strings)
    BY DEF Init, Lists
  <2> QED
    BY <2>1 DEF Init, TypeOK
<1>2. TypeOK /\ [Next]_vars => TypeOK'
  BY TypeStep
<1> QED
  BY <1>1, <1>2, PTL DEF Spec

\* A turn of the search only leaves out where the target can not be.
LEMMA NarrowedStep ==
  ASSUME Strings \subseteq Int, TypeOK, Narrowed, [Next]_vars
  PROVE  Narrowed'
<1>1. CASE Halve
  <2> DEFINE h == (i + j) \div 2
  <2>1. h \in Int /\ i <= h /\ h < j
    BY <1>1, Middle DEF TypeOK, Halve
  <2>2. h + 1 \in 1 .. Len(strArray) /\ strArray[h + 1] \in Int
    <3> HIDE DEF h
    <3>1. h + 1 \in 1 .. Len(strArray)
      BY <2>1 DEF TypeOK
    <3> QED
      BY <3>1, Elements
  <2>3. \A k \in 1 .. Len(strArray) : strArray[k] \in Int
    BY Elements
  <2>4. /\ strArray' = strArray /\ target' = target
        /\ IF strArray[h + 1] < target THEN i' = h + 1 /\ j' = j ELSE i' = i /\ j' = h
    BY <1>1 DEF Halve, At, Right, Left
  <2> HIDE DEF h
  <2> SUFFICES ASSUME Sorted
               PROVE  /\ \A k \in 1 .. Len(strArray) : k <= i' => strArray[k] < target
                      /\ \A k \in 1 .. Len(strArray) : k > j' => strArray[k] >= target
    BY <2>4 DEF Narrowed, Sorted
  <2>5. target \in Int /\ Len(strArray) \in Nat
    BY Elements
  <2>6. CASE strArray[h + 1] < target
    <3>1. ASSUME NEW k \in 1 .. Len(strArray), k <= h + 1 PROVE strArray[k] < target
      <4>1. strArray[k] <= strArray[h + 1]
        BY <2>2, <3>1 DEF Sorted
      <4> QED
        BY <2>2, <2>3, <2>5, <2>6, <4>1
    <3> QED
      BY <2>4, <2>6, <3>1 DEF Narrowed
  <2>7. CASE ~(strArray[h + 1] < target)
    <3>1. ASSUME NEW k \in 1 .. Len(strArray), k > h PROVE strArray[k] >= target
      <4>1. h + 1 <= k
        BY <2>1, <3>1
      <4>2. strArray[h + 1] <= strArray[k]
        BY <2>2, <4>1 DEF Sorted
      <4> QED
        BY <2>2, <2>3, <2>5, <2>7, <4>2
    <3> QED
      BY <2>4, <2>7, <3>1 DEF Narrowed
  <2> QED
    BY <2>6, <2>7
<1>2. CASE Answer
  BY <1>2 DEF Answer, Narrowed, Sorted
<1>3. CASE UNCHANGED vars
  BY <1>3 DEF vars, Narrowed, Sorted
<1> QED
  BY <1>1, <1>2, <1>3 DEF Next

\* In a sorted list the target is nowhere left of what is searched, and
\* nothing right of it is smaller than the target.
THEOREM SearchNarrows == Strings \subseteq Int => (Spec => []Narrowed)
<1> SUFFICES ASSUME Strings \subseteq Int PROVE Spec => []Narrowed
  OBVIOUS
<1>1. Init => Narrowed
  <2> SUFFICES ASSUME Init PROVE Narrowed
    OBVIOUS
  <2>1. strArray \in Seq(Strings)
    BY DEF Init, Lists
  <2> QED
    BY <2>1 DEF Init, Narrowed
<1>2. TypeOK /\ Narrowed /\ [Next]_vars => Narrowed'
  BY NarrowedStep
<1> QED
  BY <1>1, <1>2, TypeCorrect, PTL DEF Spec

\* The answer is right when it is given, and stays.
LEMMA AnswerStep ==
  ASSUME Strings \subseteq Int, TypeOK, Narrowed, FindsMembers, FindsNoOther, [Next]_vars
  PROVE  (FindsMembers /\ FindsNoOther)'
<1>1. CASE Halve
  BY <1>1 DEF Halve, FindsMembers, FindsNoOther, Sorted, IsMember
<1>2. CASE Answer
  <2>1. /\ strArray' = strArray /\ target' = target /\ i = j
        /\ result' = {i < Len(strArray) /\ strArray[i + 1] = target}
    BY <1>2 DEF Answer, Hits, At
  <2>2. ASSUME i < Len(strArray), strArray[i + 1] = target PROVE IsMember
    <3>1. i + 1 \in 1 .. Len(strArray)
      BY <2>2 DEF TypeOK
    <3> QED
      BY <2>2, <3>1 DEF IsMember
  <2>3. ASSUME Sorted, IsMember PROVE i < Len(strArray) /\ strArray[i + 1] = target
    <3>1. PICK k \in 1 .. Len(strArray) : strArray[k] = target
      BY <2>3 DEF IsMember
    <3>2. i < k
      BY <2>1, <2>3, <3>1 DEF Narrowed, TypeOK
    <3>3. i + 1 \in 1 .. Len(strArray) /\ i + 1 <= k /\ i + 1 > j
      BY <2>1, <3>2 DEF TypeOK
    <3>4. strArray[i + 1] <= target
      BY <2>3, <3>1, <3>3 DEF Sorted
    <3>5. strArray[i + 1] >= target
      BY <2>3, <3>3 DEF Narrowed
    <3>6. strArray[i + 1] \in Int /\ target \in Int
      BY <3>3, Elements
    <3>7. i < Len(strArray)
      BY <3>3 DEF TypeOK
    <3> QED
      BY <3>4, <3>5, <3>6, <3>7
  <2> QED
    BY <2>1, <2>2, <2>3 DEF FindsMembers, FindsNoOther, Sorted, IsMember
<1>3. CASE UNCHANGED vars
  BY <1>3 DEF vars, FindsMembers, FindsNoOther, Sorted, IsMember
<1> QED
  BY <1>1, <1>2, <1>3 DEF Next

\* isExist says what is so: of a sorted list it tells whether the target is in
\* it, and of no list does it say that a stranger is.
THEOREM IsExistCorrect == Strings \subseteq Int => (Spec => [](FindsMembers /\ FindsNoOther))
<1> SUFFICES ASSUME Strings \subseteq Int PROVE Spec => [](FindsMembers /\ FindsNoOther)
  OBVIOUS
<1>1. Init => FindsMembers /\ FindsNoOther
  BY DEF Init, FindsMembers, FindsNoOther
<1>2. TypeOK /\ Narrowed /\ FindsMembers /\ FindsNoOther /\ [Next]_vars
        => (FindsMembers /\ FindsNoOther)'
  BY AnswerStep
<1> QED
  BY <1>1, <1>2, TypeCorrect, SearchNarrows, PTL DEF Spec
=============================================================================
