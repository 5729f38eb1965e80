----------------------------- MODULE LossyCache -----------------------------
(***************************************************************************)
(* What the provider may rely on when it uses its cache: a Get answers     *)
(* with the value Set last or with nothing, any value may be forgotten at  *)
(* any moment, and none is kept for ever.  Module LoadBalancer uses the    *)
(* cache in this form; module TTLCache shows that pkg/cache/cache.go has   *)
(* it, clock included.                                                     *)
(***************************************************************************)
CONSTANTS
    Keys,
    Data,
    Callers         \* goroutines that use the cache

VARIABLES
    held,           \* held[k]: {} is a miss, {d} a hit
    answer          \* answer[c]: what the last Get of caller c returned

LossyInit ==
    /\ held = [k \in Keys |-> {}]
    /\ answer = [c \in Callers |-> {}]

LossySet(k, d) ==
    /\ held' = [held EXCEPT ![k] = {d}]
    /\ UNCHANGED answer

LossyGet(c, k) ==
    /\ answer' = [answer EXCEPT ![c] = held[k]]
    /\ UNCHANGED held

\* Some keys are forgotten at once: entries that expire in the same moment,
\* or all of them when the process ends.
Forget(lost) ==
    /\ held' = [k \in Keys |-> IF k \in lost THEN {} ELSE held[k]]
    /\ UNCHANGED answer

\* The process ends and with it what its callers were told.
LossyRestart ==
    /\ held' = [k \in Keys |-> {}]
    /\ answer' = [c \in Callers |-> {}]

LossyNext ==
    \/ \E k \in Keys, d \in Data : LossySet(k, d)
    \/ \E c \in Callers, k \in Keys : LossyGet(c, k)
    \/ \E lost \in SUBSET Keys : Forget(lost)
    \/ LossyRestart

LossySpec == LossyInit /\ [][LossyNext]_<<held, answer>>

\* No entry is kept for ever: LoadBalancer assumes this of ExpireBalancer and
\* ExpireListeners.
NothingStays == \A k \in Keys : []<>(held[k] = {})
=============================================================================
