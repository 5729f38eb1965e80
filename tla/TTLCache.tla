------------------------------ MODULE TTLCache ------------------------------
(***************************************************************************)
(* The cache of the provider (pkg/cache/cache.go over the expiring store   *)
(* of client-go, external) and the way every function of the provider      *)
(* uses it: Get, after a miss ask the cloud, Set the answer.               *)
(*                                                                         *)
(* The store stamps an entry when it is added and drops it when it is      *)
(* asked for after more than TTL.  A stamp only matters through its        *)
(* distance to now, so an entry keeps its age, counted up to Ttl + 1.      *)
(* A lock makes each call of the store one step.                           *)
(***************************************************************************)
EXTENDS Naturals

CONSTANTS
    Keys,
    Data,
    Callers,        \* goroutines that share the cache
    Ttl             \* TTLTime, in ticks of the clock

ASSUME TTLCacheAssumption == Ttl \in Nat

VARIABLES
    store,          \* store[k]: {} or the one entry under key k
    asking,         \* asking[c]: the keys caller c missed and asks the cloud for
    answer,         \* answer[c]: the data its last Get returned, {} for none
    up              \* does the process run?

vars == <<store, asking, answer, up>>

Entry == [data : Data, age : 0 .. Ttl + 1]

TypeOK ==
    /\ store \in [Keys -> SUBSET Entry]
    /\ asking \in [Callers -> SUBSET Keys]
    /\ answer \in [Callers -> SUBSET Data]
    /\ up \in BOOLEAN

Empty == [k \in Keys |-> {}]

\* NewTTLCache.
Init ==
    /\ store = Empty
    /\ asking = [c \in Callers |-> {}]
    /\ answer = [c \in Callers |-> {}]
    /\ up = TRUE

-----------------------------------------------------------------------------
\* Slip: an expired entry is found, too.
FindsExpired(k) == store[k]

\* What the store has under k, older entries being dropped (client-go:
\* an entry expires when it is older than the TTL, not when it is as old).
Unexpired(k) == {e \in store[k] : e.age <= Ttl}

\* Slip: the item is returned although the store says it does not exist.
GetsExpired(c, k) ==
    /\ up /\ asking[c] = {}
    /\ store' = [store EXCEPT ![k] = Unexpired(k)]
    /\ answer' = [answer EXCEPT ![c] = {e.data : e \in store[k]}]
    /\ asking' = [asking EXCEPT ![c] = IF store[k] = {} THEN {k} ELSE {}]
    /\ UNCHANGED up

\* TTLCache.Get by a caller that is not waiting for the cloud.
Get(c, k) ==
    /\ up /\ asking[c] = {}
    /\ store' = [store EXCEPT ![k] = Unexpired(k)]
    /\ answer' = [answer EXCEPT ![c] = {e.data : e \in Unexpired(k)}]
    /\ asking' = [asking EXCEPT ![c] = IF Unexpired(k) = {} THEN {k} ELSE {}]
    /\ UNCHANGED up

\* TTLCache.Set, with the answer of the cloud, whoever has Set it meanwhile.
Set(c, k, d) ==
    /\ up /\ k \in asking[c]
    /\ store' = [store EXCEPT ![k] = {[data |-> d, age |-> 0]}]
    /\ asking' = [asking EXCEPT ![c] = {}]
    /\ UNCHANGED <<answer, up>>

\* The cloud has no answer: the caller returns without a Set.
GiveUp(c) ==
    /\ up /\ asking[c] # {}
    /\ asking' = [asking EXCEPT ![c] = {}]
    /\ UNCHANGED <<store, answer, up>>

\* cacheKeyFunc asserts that it is given a *TencentCloudCacheEntry.
KeyFuncAccepts(type) == type = "*TencentCloudCacheEntry"

\* TTLCache.Delete hands the key, a string, to Store.Delete, which applies
\* cacheKeyFunc to it.  A failed type assertion panics, nobody recovers.
Delete(k) ==
    /\ up
    /\ IF KeyFuncAccepts("string")
         THEN /\ store' = [store EXCEPT ![k] = {}]
              /\ UNCHANGED <<asking, answer, up>>
         ELSE /\ store' = Empty
              /\ asking' = [c \in Callers |-> {}]
              /\ answer' = [c \in Callers |-> {}]
              /\ up' = FALSE

\* Kubernetes starts the process again (external).
Restart ==
    /\ ~up /\ up' = TRUE
    /\ UNCHANGED <<store, asking, answer>>

\* Time passes.
Tick ==
    /\ store' = [k \in Keys |->
          {[e EXCEPT !.age = IF @ <= Ttl THEN @ + 1 ELSE @] : e \in store[k]}]
    /\ UNCHANGED <<asking, answer, up>>

-----------------------------------------------------------------------------
Use(c) ==
    \/ \E k \in Keys : Get(c, k)
    \/ \E k \in Keys, d \in Data : Set(c, k, d)
    \/ GiveUp(c)

Next ==
    \/ \E c \in Callers : Use(c)
    \/ \E k \in Keys : Delete(k)
    \/ Restart \/ Tick

Spec == Init /\ [][Next]_vars

\* The clock does not stop.
FairSpec == Spec /\ WF_vars(Tick)

-----------------------------------------------------------------------------
\* What a caller can see of the store.
Visible == [k \in Keys |-> {e.data : e \in Unexpired(k)}]

Lossy == INSTANCE LossyCache WITH held <- Visible

\* The cache is one that forgets: a Get never returns anything but what was
\* Set last under its key, whoever else sets and expires entries meanwhile.
IsLossyCache == Lossy!LossySpec

\* No entry is visible for ever, though several callers that missed it may
\* Set it one after the other: what LoadBalancer's fairness assumes.
EntriesExpire == Lossy!NothingStays

\* What the comment of Delete says: it deletes the data of the key.  That the
\* process goes on is the least of it.
DeleteReturns == up
=============================================================================
