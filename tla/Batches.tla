------------------------------ MODULE Batches ------------------------------
(***************************************************************************)
(* The loop that splits a list of items into API calls.  It stands three   *)
(* times in the provider: targets to deregister and to register, 20 a      *)
(* call, and addresses to look up, 5 a call.  Items are numbered from 0 as *)
(* in the code; a step is one iteration, a call may fail and end the loop. *)
(***************************************************************************)
EXTENDS Integers, FiniteSets

CONSTANTS
    Sizes,          \* items per call
    MaxCount        \* bound on the length of the list

ASSUME BatchesAssumption == Sizes \subseteq {5, 20} /\ MaxCount \in Nat

VARIABLES
    size,           \* items per call, in this one of the loops
    count,          \* length of the list
    i,              \* the loop variable
    batch,          \* the items collected since the last call
    sent,           \* the batches sent
    result          \* "running", "done" or "error"

vars == <<size, count, i, batch, sent, result>>

TypeOK ==
    /\ size \in Sizes
    /\ count \in 0 .. MaxCount
    /\ i \in 0 .. count
    /\ batch \subseteq 0 .. count - 1
    /\ sent \subseteq SUBSET (0 .. count - 1)
    /\ result \in {"running", "done", "error"}

Init ==
    /\ size \in Sizes
    /\ count \in 0 .. MaxCount
    /\ i = 0
    /\ batch = {} /\ sent = {}
    /\ result = "running"

-----------------------------------------------------------------------------
\* Slip: the last items are forgotten.
OnlyFull == (i + 1) % size = 0

\* Slip: an item too late.
OneTooLate == (i > 0 /\ i % size = 0) \/ i = count - 1

\* Is the batch sent in this iteration?
Flush == (i > 0 /\ (i + 1) % size = 0) \/ i = count - 1

\* Slip: "i <= count".
OneTooMany ==
    /\ result = "running" /\ i <= count
    /\ i' = i + 1
    /\ batch' = batch \cup {i}
    /\ UNCHANGED <<size, count, sent, result>>

\* One iteration: the item joins the batch, which may be sent.
Iterate ==
    /\ result = "running" /\ i < count
    /\ i' = i + 1
    /\ IF Flush
         THEN /\ sent' = sent \cup {batch \cup {i}}
              /\ batch' = {}
              /\ result' \in {"running", "error"}
         ELSE /\ batch' = batch \cup {i}
              /\ UNCHANGED <<sent, result>>
    /\ UNCHANGED <<size, count>>

Finish ==
    /\ result = "running" /\ i = count
    /\ result' = "done"
    /\ UNCHANGED <<size, count, i, batch, sent>>

Next == Iterate \/ Finish

Spec == Init /\ [][Next]_vars

-----------------------------------------------------------------------------
\* No call carries more items than the service takes, none is empty: the
\* limits of RegisterTargets, DeregisterTargets and of a DescribeInstances
\* filter that the constants 20 and 5 stand for.
WithinLimit == \A b \in sent : b # {} /\ Cardinality(b) <= size

\* When the loop ends without error every item has been sent: no target stays
\* unregistered, no address goes without a lookup.
NothingDropped == result = "done" => UNION sent = 0 .. count - 1

\* No item is sent twice, be it that the loop ends or fails.
SentOnce == \A b, c \in sent : b # c => b \cap c = {}

\* What holds between two iterations, and carries the proofs: the items
\* before some first one are sent, in intervals that are not too long, those
\* from it on are in hand; it starts a full batch, or the list is at its end.
InHand ==
    /\ \A b \in sent : \E lo, hi \in 0 .. i :
          b = lo .. hi - 1 /\ lo < hi /\ hi - lo <= size
    /\ \E first \in 0 .. i :
          /\ UNION sent = 0 .. first - 1
          /\ batch = first .. i - 1
          /\ i < count => first % size = 0 /\ i < first + size
          /\ i = count => first = count
    /\ result = "done" => i = count
=============================================================================
