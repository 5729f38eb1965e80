------------------------------- MODULE Lookup -------------------------------
(***************************************************************************)
(* getInstanceByInstancePrivateIps (pkg/tencentcloud/instances.go): the    *)
(* machines at the addresses of the nodes, those in the cache and those    *)
(* the cloud is asked for, five addresses a call.  It puts two parts       *)
(* together: the batch loop (module Batches) over the sorted addresses     *)
(* without a cache entry, and in every turn that calls the service one     *)
(* binary search (module SortedSearch) for each address in the answer.     *)
(*                                                                         *)
(* Addresses are numbers.  A machine may have several addresses, and       *)
(* another VPC of the account may have the same ones.                      *)
(***************************************************************************)
EXTENDS Batches, Sequences

CONSTANTS
    Addresses,      \* a set of integers
    Clouds          \* what there may be in the cloud: sets of machines

Machine == [addresses : SUBSET Addresses, inVpc : BOOLEAN]

\* Addresses are numbers, in no VPC does one belong to two machines.
ASSUME LookupAssumption ==
    /\ Addresses \subseteq Int /\ IsFiniteSet(Addresses)
    /\ Clouds \subseteq SUBSET Machine
    /\ \A ms \in Clouds : \A m, n \in ms :
          m.inVpc /\ n.inVpc /\ m # n => m.addresses \cap n.addresses = {}

VARIABLES
    machines,       \* the machines of the account
    privateIps,     \* the argument: the addresses of the nodes
    ips,            \* those that are not in the cache, sorted
    cache,          \* of each address: {} or {machine}
    answer,         \* of the last call: pairs <<machine, address>> to look at
    target, lo, hi, verdict,    \* the search under way; verdict {} means none
    searching,
    found           \* the result: how often each machine is in it

search     == <<target, lo, hi, verdict, searching>>
lookupVars == <<vars, machines, privateIps, ips, cache, answer, search, found>>

Search == INSTANCE SortedSearch
            WITH Strings <- Addresses, MaxLen <- MaxCount, strArray <- ips,
                 i <- lo, j <- hi, result <- verdict

LookupTypeOK ==
    /\ TypeOK
    /\ machines \in Clouds /\ privateIps \subseteq Addresses
    /\ ips \in Seq(privateIps)
    /\ cache \in [Addresses -> SUBSET machines]
    /\ answer \subseteq machines \X Addresses
    /\ searching \in BOOLEAN
    /\ searching => Search!TypeOK
    /\ found \in [machines -> 0 .. count + 1]

InVpc(m) == m.inVpc

\* Slip: the addresses are left in the order of the nodes.
NotSorted(s) ==
    [k \in 1 .. Cardinality(s) |-> CHOOSE a \in s : Cardinality({b \in s : b > a}) = k - 1]

\* sort.Strings
Sorted(s) ==
    [k \in 1 .. Cardinality(s) |-> CHOOSE a \in s : Cardinality({b \in s : b < a}) = k - 1]

\* The nodes are on different machines; some of these are in the cache.
LookupInit ==
    /\ machines \in Clouds
    /\ privateIps \in SUBSET Addresses
    /\ \A m \in machines : InVpc(m) => Cardinality(m.addresses \cap privateIps) <= 1
    /\ \E hits \in SUBSET {a \in privateIps : \E m \in machines : InVpc(m) /\ a \in m.addresses} :
          cache = [a \in Addresses |->
                     {m \in machines : InVpc(m) /\ a \in m.addresses \cap hits}]
    /\ ips = Sorted({a \in privateIps : cache[a] = {}})
    /\ found = [m \in machines |-> Cardinality({a \in privateIps : m \in cache[a]})]
    /\ Init /\ count = Len(ips)
    /\ answer = {}
    /\ target = CHOOSE a \in Addresses : TRUE
    /\ lo = 0 /\ hi = 0 /\ verdict = {} /\ searching = FALSE

-----------------------------------------------------------------------------
Requested(b) == {ips[k + 1] : k \in b}

\* Slip: machines of other VPCs count, too.
AnyVpc(request) ==
    {ma \in machines \X Addresses : /\ ma[2] \in ma[1].addresses
                                    /\ ma[1].addresses \cap request # {}}

\* DescribeInstances for some addresses, the machines of other VPCs dropped:
\* each address of each machine is looked at.
Answer(request) ==
    {ma \in machines \X Addresses : /\ InVpc(ma[1]) /\ ma[2] \in ma[1].addresses
                                    /\ ma[1].addresses \cap request # {}}

\* A turn of the loop.  When it calls the service, and does not fail, the
\* answer is gone through before the next one.
Turn ==
    /\ answer = {} /\ Iterate
    /\ answer' = IF sent' # sent /\ result' = "running"
                   THEN UNION {Answer(Requested(b)) : b \in sent' \ sent} ELSE {}
    /\ UNCHANGED <<machines, privateIps, ips, cache, search, found>>

\* isExist(privateIp, ips)
isExist ==
    /\ ~searching /\ searching' = TRUE
    /\ \E ma \in answer : target' = ma[2]
    /\ lo' = 0 /\ hi' = Len(ips) /\ verdict' = {}
    /\ UNCHANGED <<vars, machines, privateIps, ips, cache, answer, found>>

SearchStep ==
    /\ searching
    /\ Search!Halve \/ Search!Answer
    /\ UNCHANGED <<vars, machines, privateIps, cache, answer, searching, found>>

\* If the address is one of those asked for, its machine is cached and joins
\* the result.
Take ==
    /\ searching /\ verdict # {} /\ searching' = FALSE
    /\ \E ma \in answer :
          /\ ma[2] = target
          /\ answer' = answer \ {ma}
          /\ IF verdict = {TRUE}
               THEN /\ cache' = [cache EXCEPT ![target] = {ma[1]}]
                    /\ found' = [found EXCEPT ![ma[1]] = @ + 1]
               ELSE UNCHANGED <<cache, found>>
    /\ lo' = 0 /\ hi' = 0 /\ verdict' = {}
    /\ UNCHANGED <<vars, machines, privateIps, ips, target>>

Return ==
    /\ answer = {} /\ Finish
    /\ UNCHANGED <<machines, privateIps, ips, cache, answer, search, found>>

LookupNext == Turn \/ isExist \/ SearchStep \/ Take \/ Return

LookupSpec == LookupInit /\ [][LookupNext]_lookupVars

-----------------------------------------------------------------------------
\* When the lookup ends without error it has found the machine at each of the
\* addresses, in this VPC, once, and no other machine, wherever the address
\* stands in the list and whichever batch it is in; and all are cached.
FindsExactly ==
    result = "done" =>
      \A m \in machines :
         LET asked == m.addresses \cap privateIps IN
         IF InVpc(m) /\ asked # {}
           THEN found[m] = 1 /\ \A a \in asked : cache[a] = {m}
           ELSE found[m] = 0

\* Even while it runs, or fails half way: what is in the cache is right.
CachesRight ==
    \A a \in Addresses : \A m \in cache[a] : InVpc(m) /\ a \in m.addresses \cap privateIps

\* isExist finds what is in the list, and nothing else.
IsExistRight == Search!FindsMembers /\ Search!FindsNoOther

\* What carries the proof of all that: every address asked for is in the list
\* or in the cache, the list is sorted; an address not asked the cloud about
\* has no entry yet, nor has one whose answer is at hand; of those it was asked
\* about, each machine is cached or in that answer; a machine is in the result
\* when it is cached, once.
ListRight ==
    /\ Len(ips) = count
    /\ \A k, l \in 1 .. count : k < l => ips[k] < ips[l]
    /\ \A a \in privateIps : cache[a] = {} => \E k \in 1 .. count : ips[k] = a
Accounted ==
    /\ \A k \in 0 .. count - 1 : k \notin UNION sent => cache[ips[k + 1]] = {}
    /\ \A ma \in answer :
          /\ InVpc(ma[1]) /\ ma[2] \in ma[1].addresses
          /\ \A k \in 1 .. count :
                ips[k] = ma[2] => cache[ma[2]] = {} /\ k - 1 \in UNION sent
    /\ result # "error" =>
          \A k \in UNION sent : \A m \in machines :
             InVpc(m) /\ ips[k + 1] \in m.addresses =>
                m \in cache[ips[k + 1]] \/ <<m, ips[k + 1]>> \in answer
    /\ result = "done" => answer = {}
    /\ \A m \in machines :
          found[m] = IF \E a \in Addresses : m \in cache[a] THEN 1 ELSE 0
SearchRight ==
    IF searching
      THEN Search!TypeOK /\ Search!Narrowed /\ \E ma \in answer : ma[2] = target
      ELSE verdict = {}
=============================================================================
