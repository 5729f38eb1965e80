--------------------------- MODULE TTLCacheProofs ---------------------------
(***************************************************************************)
(* The expiring cache is a lossy cache, for every TTL, any number of keys, *)
(* values and callers.                                                     *)
(***************************************************************************)
EXTENDS TTLCache, TLAPS

USE TTLCacheAssumption

\* Every variable keeps its type.
THEOREM TypeCorrect == Spec => []TypeOK
<1>1. Init => TypeOK
  BY DEF Init, TypeOK, Empty
<1>2. TypeOK /\ [Next]_vars => TypeOK'
  <2> SUFFICES ASSUME TypeOK, [Next]_vars PROVE TypeOK'
    OBVIOUS
  <2> USE DEF TypeOK
  <2>1. ASSUME NEW c \in Callers, NEW k \in Keys, Get(c, k) PROVE TypeOK'
    <3>1. Unexpired(k) \subseteq Entry
      BY DEF Unexpired
    <3>2. {e.data : e \in Unexpired(k)} \subseteq Data
      BY <3>1 DEF Entry
    <3>3. QED
      BY <2>1, <3>1, <3>2 DEF Get
  <2>2. ASSUME NEW c \in Callers, NEW k \in Keys, NEW d \in Data, Set(c, k, d) PROVE TypeOK'
    BY <2>2 DEF Set, Entry
  <2>3. ASSUME NEW c \in Callers, GiveUp(c) PROVE TypeOK'
    BY <2>3 DEF GiveUp
  <2>4. ASSUME NEW k \in Keys, Delete(k) PROVE TypeOK'
    BY <2>4 DEF Delete, Empty
  <2>5. CASE Restart
    BY <2>5 DEF Restart
  <2>6. CASE Tick
    <3>1. ASSUME NEW k \in Keys, NEW e \in store[k]
          PROVE  [e EXCEPT !.age = IF @ <= Ttl THEN @ + 1 ELSE @] \in Entry
      BY DEF Entry
    <3>2. QED
      BY <2>6, <3>1 DEF Tick
  <2>7. CASE UNCHANGED vars
    BY <2>7 DEF vars
  <2>8. QED
    BY <2>1, <2>2, <2>3, <2>4, <2>5, <2>6, <2>7 DEF Next, Use
<1>3. QED
  BY <1>1, <1>2, PTL DEF Spec

\* The store never holds two entries under one key.
OneEntry == \A k \in Keys : \A e, f \in store[k] : e = f

LEMMA OneEntryHolds == Spec => []OneEntry
<1>1. Init => OneEntry
  BY DEF Init, OneEntry, Empty
<1>2. TypeOK /\ OneEntry /\ [Next]_vars => OneEntry'
  <2> SUFFICES ASSUME TypeOK, OneEntry, [Next]_vars PROVE OneEntry'
    OBVIOUS
  <2> USE DEF OneEntry, TypeOK
  <2>1. ASSUME NEW c \in Callers, NEW k \in Keys, Get(c, k) PROVE OneEntry'
    BY <2>1 DEF Get, Unexpired
  <2>2. ASSUME NEW c \in Callers, NEW k \in Keys, NEW d \in Data, Set(c, k, d)
        PROVE  OneEntry'
    BY <2>2 DEF Set
  <2>3. ASSUME NEW c \in Callers, GiveUp(c) PROVE OneEntry'
    BY <2>3 DEF GiveUp
  <2>4. ASSUME NEW k \in Keys, Delete(k) PROVE OneEntry'
    <3>1. store' = [store EXCEPT ![k] = {}] \/ store' = [j \in Keys |-> {}]
      BY <2>4, Zenon DEF Delete, Empty
    <3>2. \A j \in Keys : store'[j] = {} \/ store'[j] = store[j]
      BY <3>1
    <3> QED BY <3>2
  <2>5. CASE Restart
    BY <2>5 DEF Restart
  <2>6. CASE Tick
    BY <2>6 DEF Tick
  <2>7. CASE UNCHANGED vars
    BY <2>7 DEF vars
  <2>8. QED
    BY <2>1, <2>2, <2>3, <2>4, <2>5, <2>6, <2>7 DEF Next, Use
<1>3. QED
  BY <1>1, <1>2, TypeCorrect, PTL DEF Spec

\* Every step of the expiring cache is one of a cache that forgets: entries
\* vanish when the clock ticks, a panic forgets them all, and nothing else
\* changes what a caller can see.
THEOREM ForgettingCache == Spec => IsLossyCache
<1>1. Init => Lossy!LossyInit
  BY DEF Init, Lossy!LossyInit, Visible, Unexpired, Empty
<1>2. TypeOK /\ OneEntry /\ [Next]_vars => [Lossy!LossyNext]_<<Visible, answer>>
  <2> SUFFICES ASSUME TypeOK, OneEntry, [Next]_vars
               PROVE  Lossy!LossyNext \/ UNCHANGED <<Visible, answer>>
    OBVIOUS
  <2>1. ASSUME NEW c \in Callers, NEW k \in Keys, Get(c, k)
        PROVE  Lossy!LossyGet(c, k)
    <3>1. Visible' = Visible
      BY <2>1 DEF Get, Visible, Unexpired, TypeOK
    <3>2. Visible[k] = {e.data : e \in Unexpired(k)}
      BY DEF Visible
    <3>3. QED
      BY <2>1, <3>1, <3>2 DEF Get, Lossy!LossyGet
  <2>2. ASSUME NEW c \in Callers, NEW k \in Keys, NEW d \in Data, Set(c, k, d)
        PROVE  Lossy!LossySet(k, d)
    <3>1. \A l \in Keys : Unexpired(l)' = IF l = k THEN {[data |-> d, age |-> 0]} ELSE Unexpired(l)
      BY <2>2 DEF Set, Unexpired, TypeOK
    <3>2. Visible' = [Visible EXCEPT ![k] = {d}]
      <4>1. Visible'[k] = {e.data : e \in {[data |-> d, age |-> 0]}}
        BY <3>1 DEF Visible
      <4>2. Visible'[k] = {d}
        BY <4>1
      <4>3. ASSUME NEW l \in Keys, l # k PROVE Visible'[l] = Visible[l]
        BY <3>1, <4>3 DEF Visible
      <4>4. QED
        BY <4>2, <4>3 DEF Visible
    <3>3. QED
      BY <2>2, <3>2 DEF Set, Lossy!LossySet
  <2>3. ASSUME NEW c \in Callers, GiveUp(c) PROVE UNCHANGED <<Visible, answer>>
    BY <2>3 DEF GiveUp, Visible, Unexpired
  <2>4. ASSUME NEW k \in Keys, Delete(k)
        PROVE  Lossy!LossyRestart \/ Lossy!Forget({k})
    <3>1. CASE KeyFuncAccepts("string")
      BY <2>4, <3>1 DEF Delete, KeyFuncAccepts
    <3>2. CASE ~KeyFuncAccepts("string")
      BY <2>4, <3>2 DEF Delete, Lossy!LossyRestart, Visible, Unexpired, Empty
    <3>3. QED
      BY <3>1, <3>2
  <2>5. CASE Restart
    BY <2>5 DEF Restart, Visible, Unexpired
  <2>6. CASE Tick
    <3> DEFINE lost == {k \in Keys : Visible'[k] = {}}
               older(e) == [e EXCEPT !.age = IF @ <= Ttl THEN @ + 1 ELSE @]
    <3>1. ASSUME NEW k \in Keys
          PROVE  Visible'[k] = IF k \in lost THEN {} ELSE Visible[k]
      <4>1. store'[k] = {older(e) : e \in store[k]}
        BY <2>6 DEF Tick
      <4>2. \A e \in store[k] : e.age \in Nat /\ older(e).data = e.data
                                  /\ older(e).age >= e.age
        BY DEF TypeOK, Entry
      <4>3. Visible'[k] = {e.data : e \in {f \in store'[k] : f.age <= Ttl}}
        BY DEF Visible, Unexpired
      <4>4. Visible[k] = {e.data : e \in {f \in store[k] : f.age <= Ttl}}
        BY DEF Visible, Unexpired
      <4>5. CASE store[k] = {}
        BY <4>1, <4>3, <4>4, <4>5
      <4>6. ASSUME NEW e \in store[k], store[k] = {e}
            PROVE  Visible'[k] = {} \/ Visible'[k] = Visible[k]
        <5>1. store'[k] = {older(e)}
          BY <4>1, <4>6
        <5>2. CASE older(e).age <= Ttl
          <6>1. e.age <= Ttl
            BY <4>2, <5>2 DEF TypeOK, Entry
          <6>2. {f \in store'[k] : f.age <= Ttl} = {older(e)}
            BY <5>1, <5>2
          <6>3. {f \in store[k] : f.age <= Ttl} = {e}
            BY <4>6, <6>1
          <6>4. Visible'[k] = {older(e).data}
            BY <4>3, <6>2
          <6>5. Visible[k] = {e.data}
            BY <4>4, <6>3
          <6>6. QED
            BY <4>2, <6>4, <6>5
        <5>3. CASE ~(older(e).age <= Ttl)
          BY <4>3, <5>1, <5>3
        <5>4. QED
          BY <5>2, <5>3
      <4>7. store[k] = {} \/ \E e \in store[k] : store[k] = {e}
        BY DEF OneEntry
      <4>8. QED
        BY <4>5, <4>6, <4>7
    <3>2. Visible' = [k \in Keys |-> IF k \in lost THEN {} ELSE Visible[k]]
      BY <3>1 DEF Visible
    <3>3. Lossy!Forget(lost)
      BY <2>6, <3>2 DEF Tick, Lossy!Forget
    <3>4. lost \in SUBSET Keys
      OBVIOUS
    <3>5. QED
      BY <3>3, <3>4 DEF Lossy!LossyNext
  <2>7. CASE UNCHANGED vars
    BY <2>7 DEF vars, Visible, Unexpired
  <2>8. QED
    BY <2>1, <2>2, <2>3, <2>4, <2>5, <2>6, <2>7 DEF Next, Use, Lossy!LossyNext
<1>3. QED
  BY <1>1, <1>2, TypeCorrect, OneEntryHolds, PTL DEF Spec, IsLossyCache, Lossy!LossySpec
=============================================================================
