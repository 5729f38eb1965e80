---------------------------- MODULE SortedSearch ----------------------------
(***************************************************************************)
(* isExist (common.go): is a string in a list?  It relies on the binary    *)
(* search of Go's sort.SearchStrings (external), which calls for a sorted  *)
(* list; a comment puts that on the callers.  Strings are numbers here,    *)
(* only their order matters.  A step is one turn of the search loop.       *)
(* Module Lookup runs it inside of getInstanceByInstancePrivateIps.        *)
(***************************************************************************)
EXTENDS Integers, Sequences

CONSTANTS
    Strings,        \* a set of integers
    MaxLen          \* bound on the length of the list

VARIABLES
    strArray, target,       \* the arguments
    i, j,                   \* what is searched: i .. j - 1, from 0
    result                  \* {} as long as it searches, then {TRUE} or {FALSE}

vars == <<strArray, target, i, j, result>>

Lists == UNION {[1 .. n -> Strings] : n \in 0 .. MaxLen}

TypeOK ==
    /\ strArray \in Seq(Strings) /\ target \in Strings
    /\ i \in 0 .. Len(strArray) /\ j \in i .. Len(strArray)
    /\ result \subseteq BOOLEAN

Init ==
    /\ strArray \in Lists /\ target \in Strings
    /\ i = 0 /\ j = Len(strArray)
    /\ result = {}

\* Go counts from 0.
At(k) == strArray[k + 1]

\* The part right of h is left.
Right(h) == j' = j /\ i' = h + 1

\* Slip: the middle is lost.
LeftTooShort(h) == i' = i /\ j' = IF h > i THEN h - 1 ELSE h

\* The part left of h is left.
Left(h) == i' = i /\ j' = h

\* One turn of sort.Search: halve what is left.
Halve ==
    /\ i < j
    /\ LET h == (i + j) \div 2 IN
          IF At(h) < target THEN Right(h) ELSE Left(h)
    /\ UNCHANGED <<strArray, target, result>>

\* Has the search found the target itself?
Hits == i < Len(strArray) /\ At(i) = target

Answer ==
    /\ i = j /\ result = {}
    /\ result' = {Hits}
    /\ UNCHANGED <<strArray, target, i, j>>

Next == Halve \/ Answer

Spec == Init /\ [][Next]_vars

-----------------------------------------------------------------------------
Sorted   == \A k, l \in 1 .. Len(strArray) : k <= l => strArray[k] <= strArray[l]
IsMember == \E k \in 1 .. Len(strArray) : strArray[k] = target

\* In a sorted list, doubles included, isExist finds what there is.
FindsMembers == Sorted /\ result # {} => (result = {TRUE} <=> IsMember)

\* In any list it finds nothing that is not there: a caller that forgets to
\* sort may do too much, but takes no stranger for its own.
FindsNoOther == result = {TRUE} => IsMember

\* What carries the proof: in a sorted list the target is nowhere left of i,
\* and nothing from j on is smaller.
Narrowed ==
    Sorted => /\ \A k \in 1 .. Len(strArray) : k <= i => strArray[k] < target
              /\ \A k \in 1 .. Len(strArray) : k > j => strArray[k] >= target
=============================================================================
