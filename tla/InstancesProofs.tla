-------------------------- MODULE InstancesProofs --------------------------
(***************************************************************************)
(* Proofs about Instances, for any nodes, life of cache entries, latency,  *)
(* and any number of changes and failing queries.                          *)
(***************************************************************************)
EXTENDS Instances, TLAPS

USE InstancesAssumption

Reply == [found : SUBSET Found, age : 0 .. Latency]
Entry == [found : Found, age : 0 .. Ttl]

\* What the service finds are machines it may find, and one at most.
LEMMA InCloudType ==
  ASSUME TypeOK, NEW k \in Key
  PROVE  InCloud(k) \in SUBSET Found
BY DEF TypeOK, InCloud, Found, Key

LEMMA KeyOfType ==
  ASSUME TypeOK, NEW c \in Callers, NEW n \in Nodes
  PROVE  KeyOf(c, n) \in Key /\ KeyOf(c, n).node = n
BY DEF TypeOK, KeyOf, Key

\* Deleting a Node object leaves no trace of it but the machine.
LEMMA RemoveNodeType ==
  ASSUME TypeOK, NEW n \in Nodes, RemoveNode(n)
  PROVE  /\ exists' \subseteq Nodes /\ ready' \subseteq exists'
         /\ tainted' \subseteq exists' /\ fresh' \subseteq exists'
         /\ provider' \in [Nodes -> SUBSET Gens]
BY DEF TypeOK, RemoveNode

ObjectsOK ==
    /\ exists \subseteq Nodes /\ ready \subseteq exists
    /\ tainted \subseteq exists /\ fresh \subseteq exists
    /\ provider \in [Nodes -> SUBSET Gens]
ControlOK ==
    /\ phase \in [Callers -> [Nodes -> Phases]]
    /\ asked \in [Nodes -> SUBSET Gens] /\ got \in [Nodes -> SUBSET Gens]
    /\ reply \in [Callers -> [Nodes -> SUBSET Reply]]

LEMMA ThenType ==
  ASSUME TypeOK, NEW c \in Callers, NEW n \in Nodes,
         NEW next \in Phases,
         Then(c, n, next)
  PROVE  /\ phase' \in [Callers -> [Nodes -> Phases]]
         /\ reply' \in [Callers -> [Nodes -> SUBSET Reply]]
<1>1. phase' = [phase EXCEPT ![c] = [phase[c] EXCEPT ![n] = next]]
  BY DEF Then
<1>2. reply' = [reply EXCEPT ![c] = [reply[c] EXCEPT ![n] = {}]]
  BY DEF Then
<1>3. phase[c] \in [Nodes -> Phases]
  BY DEF TypeOK
<1>4. reply \in [Callers -> [Nodes -> SUBSET Reply]]
  BY DEF TypeOK, Reply
<1>5. phase' \in [Callers -> [Nodes -> Phases]]
  BY <1>1, <1>3 DEF TypeOK
<1>6. [reply[c] EXCEPT ![n] = {}] \in [Nodes -> SUBSET Reply]
  BY <1>4
<1> QED
  BY <1>2, <1>4, <1>5, <1>6

\* What a controller does with an answer keeps all types.
LEMMA ReturnsType ==
  ASSUME TypeOK, NEW c \in Callers, NEW n \in Nodes, NEW found \in SUBSET Found,
         c = "lifecycle" <=> phase[c][n] \in {"name", "named", "exists", "shutdown"},
         Returns(c, n, found)
  PROVE  ObjectsOK' /\ ControlOK'
<1>0. CASE phase[c][n] = "name" /\ NameReturns(n, found)
  <2>1. c = "lifecycle"
    BY <1>0
  <2>2. PICK next \in {"named", "idle"} : Then(c, n, next)
    BY <1>0, <2>1 DEF NameReturns
  <2>3. ObjectsOK'
    BY <1>0, RemoveNodeType DEF NameReturns, objects, TypeOK, ObjectsOK
  <2>4. got' = got /\ asked' = [asked EXCEPT ![n] = {m.gen : m \in found}]
    BY <1>0 DEF NameReturns
  <2>5. {m.gen : m \in found} \subseteq Gens
    BY DEF Found
  <2>6. asked' \in [Nodes -> SUBSET Gens]
    BY <2>4, <2>5 DEF TypeOK
  <2> QED
    BY <2>2, <2>3, <2>4, <2>6, ThenType DEF ControlOK, TypeOK, Phases
<1>1. CASE phase[c][n] \in {"named", "exists"} /\ ExistsReturns(n, found)
  <2>1. c = "lifecycle"
    BY <1>1
  <2>2. PICK next \in {"shutdown", "idle"} : Then(c, n, next)
    BY <1>1, <2>1 DEF ExistsReturns
  <2>3. ObjectsOK'
    BY <1>1 DEF ExistsReturns, objects, TypeOK, ObjectsOK
  <2>4. asked' = asked /\ got' = got
    BY <1>1 DEF ExistsReturns
  <2> QED
    BY <2>2, <2>3, <2>4, ThenType DEF ControlOK, TypeOK, Phases
<1>2. CASE phase[c][n] = "shutdown" /\ ShutdownReturns(n, found)
  <2>1. c = "lifecycle"
    BY <1>2
  <2>2. Then(c, n, "idle") /\ asked' = asked /\ got' = got
    BY <1>2, <2>1 DEF ShutdownReturns
  <2>3. ObjectsOK'
    BY <1>2 DEF ShutdownReturns, TypeOK, ObjectsOK
  <2> QED
    BY <2>2, <2>3, ThenType DEF ControlOK, TypeOK, Phases
<1>3. CASE phase[c][n] = "id" /\ IdReturns(n, found)
  <2>1. c = "initialiser"
    BY <1>3 DEF Callers
  <2>2. Then(c, n, "addresses") /\ asked' = asked /\ got' = [got EXCEPT ![n] = {m.gen : m \in found}]
    BY <1>3, <2>1 DEF IdReturns
  <2>3. ObjectsOK'
    BY <1>3 DEF IdReturns, objects, TypeOK, ObjectsOK
  <2>4. {m.gen : m \in found} \subseteq Gens
    BY DEF Found
  <2> QED
    BY <2>2, <2>3, <2>4, ThenType DEF ControlOK, TypeOK, Phases
<1>4. CASE phase[c][n] = "addresses" /\ AddressesReturn(n, found)
  <2>1. c = "initialiser"
    BY <1>4 DEF Callers
  <2>2. Then(c, n, "idle") /\ asked' = asked /\ got' = [got EXCEPT ![n] = {}]
    BY <1>4, <2>1 DEF AddressesReturn
  <2>3. ObjectsOK'
    BY <1>4 DEF AddressesReturn, TypeOK, ObjectsOK
  <2> QED
    BY <2>2, <2>3, ThenType DEF ControlOK, TypeOK, Phases
<1> QED
  BY <1>0, <1>1, <1>2, <1>3, <1>4 DEF Returns

-----------------------------------------------------------------------------
\* Each controller asks its own questions; it waits for one answer at a time,
\* and for none if it asks nothing.
InTurn ==
    \A n \in Nodes :
       /\ phase["lifecycle"][n] \in {"idle", "name", "named", "exists", "shutdown"}
       /\ phase["lifecycle"][n] = "name" => asked[n] = {}
       /\ phase["initialiser"][n] \in {"idle", "id", "addresses"}
       /\ \A c \in Callers : /\ phase[c][n] = "idle" => reply[c][n] = {}
                             /\ \A q, r \in reply[c][n] : q = r

\* After an answer there is none under way to that controller about that node.
LEMMA ReturnsInTurn ==
  ASSUME TypeOK, InTurn, NEW c \in Callers, NEW n \in Nodes, NEW found, Returns(c, n, found)
  PROVE  InTurn'
<1>1. PICK next \in Phases :
        /\ Then(c, n, next)
        /\ c = "lifecycle" => next \in {"idle", "named", "shutdown"}
        /\ c = "initialiser" => next \in {"idle", "addresses"}
  BY DEF Returns, NameReturns, ExistsReturns, ShutdownReturns, IdReturns, AddressesReturn,
         Then, InTurn, Callers, Phases
<1>2. \A d \in Callers, m \in Nodes :
        /\ phase'[d][m] = IF d = c /\ m = n THEN next ELSE phase[d][m]
        /\ reply'[d][m] = IF d = c /\ m = n THEN {} ELSE reply[d][m]
  BY <1>1 DEF Then, TypeOK
<1>3. \A m \in Nodes : asked'[m] = asked[m] \/ (m = n /\ c = "lifecycle")
  BY DEF Returns, NameReturns, ExistsReturns, ShutdownReturns, IdReturns, AddressesReturn,
         InTurn, Callers, TypeOK
<1> QED
  BY <1>1, <1>2, <1>3 DEF InTurn, Callers

\* TypeOK in parts, which the actions touch one at a time.
MachinesOK ==
    /\ gen \in [Nodes -> Gens] /\ state \in [Nodes -> States]
    /\ since \in [Nodes -> 0 .. Longest + 1]
CacheOK == cache \in [Key -> SUBSET Entry]
RestOK == changes \in 0 .. MaxChanges /\ faults \in 0 .. MaxFaults

LEMMA TypeInParts == TypeOK <=> MachinesOK /\ ObjectsOK /\ ControlOK /\ CacheOK /\ RestOK
BY DEF TypeOK, MachinesOK, ObjectsOK, ControlOK, CacheOK, RestOK, Reply, Entry

LEMMA TypeInPartsNext ==
  TypeOK' <=> MachinesOK' /\ ObjectsOK' /\ ControlOK' /\ CacheOK' /\ RestOK'
BY TypeInParts, PTL

Typed == TypeOK /\ InTurn

LEMMA TypedInit == Init => Typed
<1> SUFFICES ASSUME Init PROVE Typed
  OBVIOUS
<1>1. \A c \in Callers, n \in Nodes : phase[c][n] = "idle" /\ reply[c][n] = {}
  BY DEF Init
<1> QED
  BY <1>1 DEF Init, Typed, TypeOK, InTurn, Gens, States, Phases, Callers, Longest, Bound

LEMMA QueryTyped ==
  ASSUME Typed, NEW c \in Callers, NEW n \in Nodes, Query(c, n)
  PROVE  Typed'
<1> DEFINE r == [found |-> InCloud(KeyOf(c, n)), age |-> 0]
<1>1. r \in Reply
  BY InCloudType, KeyOfType DEF Typed, Reply
<1>2. reply' = [reply EXCEPT ![c] = [reply[c] EXCEPT ![n] = {r}]]
  BY DEF Query
<1>3. reply \in [Callers -> [Nodes -> SUBSET Reply]]
  BY DEF Typed, TypeOK, Reply
<1>4. [reply[c] EXCEPT ![n] = {r}] \in [Nodes -> SUBSET Reply]
  <2> HIDE DEF r
  <2> QED
    BY <1>1, <1>3
<1>5. reply' \in [Callers -> [Nodes -> SUBSET Reply]]
  BY <1>2, <1>3, <1>4
<1>6. UNCHANGED <<machines, objects, cache, phase, asked, got, changes, faults>>
  BY DEF Query
<1>7. TypeOK'
  BY <1>5, <1>6, TypeInParts, TypeInPartsNext
     DEF Typed, MachinesOK, ObjectsOK, ControlOK, CacheOK, RestOK, machines, objects
<1>8. InTurn'
  <2>1. \A d \in Callers, m \in Nodes :
          (d # c \/ m # n) => reply'[d][m] = reply[d][m]
    <3> HIDE DEF r
    <3> QED
      BY <1>2, <1>3
  <2>2. phase[c][n] # "idle"
    BY DEF Query, Waiting
  <2>3. \A p, q \in reply'[c][n] : p = q
    <3> HIDE DEF r
    <3> QED
      BY <1>2, <1>3
  <2> QED
    BY <1>6, <2>1, <2>2, <2>3 DEF InTurn, Typed
<1> QED
  BY <1>7, <1>8 DEF Typed

LEMMA QueryFailsTyped ==
  ASSUME Typed, NEW c \in Callers, NEW n \in Nodes, QueryFails(c, n)
  PROVE  Typed'
<1>1. Then(c, n, "idle")
  BY DEF QueryFails, Then
<1>2. /\ UNCHANGED <<machines, objects, cache, asked, got, changes>>
      /\ faults' \in 0 .. MaxFaults
  BY DEF QueryFails, Typed, TypeOK
<1>3. TypeOK'
  BY <1>1, <1>2, ThenType, TypeInParts, TypeInPartsNext
     DEF Typed, MachinesOK, ObjectsOK, ControlOK, CacheOK, RestOK, machines, objects, Phases
<1>4. \A d \in Callers, m \in Nodes :
        /\ phase'[d][m] = IF d = c /\ m = n THEN "idle" ELSE phase[d][m]
        /\ reply'[d][m] = IF d = c /\ m = n THEN {} ELSE reply[d][m]
  BY <1>1 DEF Then, Typed, TypeOK
<1>5. InTurn'
  BY <1>2, <1>4 DEF InTurn, Typed, Callers
<1> QED
  BY <1>3, <1>5 DEF Typed

LEMMA HitTyped ==
  ASSUME Typed, NEW c \in Callers, NEW n \in Nodes, Hit(c, n)
  PROVE  Typed'
<1>1. PICK e \in cache[KeyOf(c, n)] : Returns(c, n, {e.found})
  BY DEF Hit
<1>2. e \in Entry
  BY KeyOfType DEF Typed, TypeOK, Entry
<1>3. {e.found} \in SUBSET Found
  BY <1>2 DEF Entry
<1>4. c = "lifecycle" <=> phase[c][n] \in {"name", "named", "exists", "shutdown"}
  BY DEF Hit, Waiting, Typed, InTurn, Callers
<1>5. ObjectsOK' /\ ControlOK'
  BY <1>1, <1>3, <1>4, ReturnsType DEF Typed
<1>6. UNCHANGED <<machines, cache, changes, faults>>
  BY DEF Hit
<1>7. TypeOK'
  BY <1>5, <1>6, TypeInParts, TypeInPartsNext DEF Typed, MachinesOK, CacheOK, RestOK, machines
<1> QED
  BY <1>1, <1>7, ReturnsInTurn DEF Typed

LEMMA ArriveTyped ==
  ASSUME Typed, NEW c \in Callers, NEW n \in Nodes, Arrive(c, n)
  PROVE  Typed'
<1>1. PICK r \in reply[c][n] :
        /\ Returns(c, n, r.found)
        /\ cache' = IF r.found = {} THEN cache
                    ELSE [cache EXCEPT ![KeyOf(c, n)] = {[found |-> m, age |-> 0] : m \in r.found}]
  BY DEF Arrive
<1>2. r \in Reply
  BY DEF Typed, TypeOK, Reply
<1>3. r.found \in SUBSET Found
  BY <1>2 DEF Reply
<1>4. c = "lifecycle" <=> phase[c][n] \in {"name", "named", "exists", "shutdown"}
  BY DEF Arrive, Waiting, Typed, InTurn, Callers
<1>5. ObjectsOK' /\ ControlOK'
  BY <1>1, <1>3, <1>4, ReturnsType DEF Typed
<1>6. UNCHANGED <<machines, changes, faults>>
  BY DEF Arrive
<1>7. CacheOK'
  <2>1. {[found |-> m, age |-> 0] : m \in r.found} \subseteq Entry
    BY <1>3 DEF Entry
  <2>2. cache \in [Key -> SUBSET Entry]
    BY DEF Typed, TypeOK, Entry
  <2> QED
    BY <1>1, <2>1, <2>2 DEF CacheOK
<1>8. TypeOK'
  BY <1>5, <1>6, <1>7, TypeInParts, TypeInPartsNext DEF Typed, MachinesOK, RestOK, machines
<1> QED
  BY <1>1, <1>8, ReturnsInTurn DEF Typed

LEMMA TickTyped == ASSUME Typed, Tick PROVE Typed'
<1>1. MachinesOK'
  <2>1. since' \in [Nodes -> 0 .. Longest + 1]
    BY DEF Tick, Typed, TypeOK, Longest, Bound
  <2> QED
    BY <2>1 DEF Tick, Typed, TypeOK, MachinesOK
<1>2. CacheOK'
  <2>1. ASSUME NEW k \in Key
        PROVE  {[e EXCEPT !.age = @ + 1] : e \in {f \in cache[k] : f.age < Ttl}} \subseteq Entry
    <3>1. cache[k] \subseteq Entry
      BY DEF Typed, TypeOK, Entry
    <3>2. ASSUME NEW e \in cache[k], e.age < Ttl PROVE [e EXCEPT !.age = @ + 1] \in Entry
      BY <3>1, <3>2 DEF Entry
    <3> QED
      BY <3>2
  <2> QED
    BY <2>1 DEF Tick, CacheOK
<1>3. /\ phase' = phase /\ asked' = asked
      /\ \A c \in Callers, n \in Nodes :
            reply'[c][n] = {[r EXCEPT !.age = @ + 1] : r \in reply[c][n]}
  BY DEF Tick
<1>4. reply' \in [Callers -> [Nodes -> SUBSET Reply]]
  <2>1. ASSUME NEW c \in Callers, NEW n \in Nodes
        PROVE  {[r EXCEPT !.age = @ + 1] : r \in reply[c][n]} \in SUBSET Reply
    <3>1. ASSUME NEW r \in reply[c][n] PROVE r \in Reply /\ r.age < Latency
      <4>1. r \in Reply
        BY DEF Typed, TypeOK, Reply
      <4>2. phase[c][n] # "idle" /\ \A p, q \in reply[c][n] : p = q
        BY DEF Typed, InTurn
      <4>3. \E q \in reply[c][n] : q.age < Latency
        BY <4>2 DEF Tick, Waiting
      <4> QED
        BY <4>1, <4>2, <4>3
    <3>2. ASSUME NEW r \in reply[c][n] PROVE [r EXCEPT !.age = @ + 1] \in Reply
      BY <3>1 DEF Reply
    <3> QED
      BY <3>2
  <2> QED
    BY <2>1 DEF Tick
<1>5. TypeOK'
  <2>1. ObjectsOK' /\ ControlOK' /\ RestOK'
    BY <1>3, <1>4 DEF Tick, Typed, TypeOK, objects, ObjectsOK, ControlOK, RestOK
  <2> QED
    BY <1>1, <1>2, <2>1, TypeInPartsNext
<1>6. InTurn'
  BY <1>3 DEF InTurn, Typed
<1> QED
  BY <1>5, <1>6 DEF Typed

\* What happens to machines and Node objects, and the start of a question.
LEMMA OthersTyped ==
  ASSUME Typed, NEW n \in Nodes, World(n) \/ MonitorNode(n) \/ InitializeNode(n)
  PROVE  Typed'
<1>1. CASE World(n)
  <2>1. MachinesOK'
    <3>1. CASE MachineChanges(n)
      <4>1. gen' \in [Nodes -> Gens]
        BY <3>1 DEF MachineChanges, Typed, TypeOK, Gens
      <4>2. state' \in [Nodes -> States]
        BY <3>1 DEF MachineChanges, Typed, TypeOK, States
      <4>3. since' \in [Nodes -> 0 .. Longest + 1]
        BY <3>1 DEF MachineChanges, Typed, TypeOK, Longest, Bound
      <4> QED
        BY <4>1, <4>2, <4>3 DEF MachinesOK
    <3>2. CASE UserRemovesNode(n) \/ Register(n) \/ Heartbeat(n)
      BY <3>2 DEF UserRemovesNode, Register, Heartbeat, Typed, TypeOK, MachinesOK, machines
    <3> QED
      BY <1>1, <3>1, <3>2 DEF World
  <2>2. ObjectsOK'
    <3>1. CASE UserRemovesNode(n)
      BY <3>1, RemoveNodeType DEF UserRemovesNode, Typed, ObjectsOK
    <3> QED
      BY <1>1, <3>1 DEF World, MachineChanges, Register, Heartbeat, Typed, TypeOK,
                        ObjectsOK, objects
  <2>3. RestOK'
    BY <1>1 DEF World, MachineChanges, UserRemovesNode, Register, Heartbeat, Change,
                control, Typed, TypeOK, RestOK
  <2>4. UNCHANGED <<cache, phase, asked, got, reply>>
    BY <1>1 DEF World, MachineChanges, UserRemovesNode, Register, Heartbeat, control
  <2>5. CacheOK' /\ ControlOK'
    BY <2>4, TypeInParts DEF Typed, CacheOK, ControlOK
  <2> QED
    BY <2>1, <2>2, <2>3, <2>4, <2>5, TypeInPartsNext DEF Typed, InTurn
<1>2. CASE MonitorNode(n)
  <2>1. MachinesOK' /\ CacheOK' /\ RestOK' /\ ObjectsOK'
    BY <1>2 DEF MonitorNode, Typed, TypeOK, machines, MachinesOK, CacheOK, RestOK,
                ObjectsOK, Entry
  <2>2. \/ UNCHANGED <<phase, asked>>
        \/ \E p \in {"name", "exists"} :
              /\ phase' = [phase EXCEPT !["lifecycle"] = [phase["lifecycle"] EXCEPT ![n] = p]]
              /\ asked' = [asked EXCEPT ![n] = provider[n]]
              /\ p = "name" => provider[n] = {}
    BY <1>2 DEF MonitorNode
  <2>3. phase' \in [Callers -> [Nodes -> Phases]] /\ asked' \in [Nodes -> SUBSET Gens]
    BY <2>2 DEF Typed, TypeOK, Callers, Phases
  <2>4. ControlOK'
    BY <1>2, <2>3 DEF MonitorNode, ControlOK, Typed, TypeOK, Reply
  <2>5. InTurn'
    <3>1. \A d \in Callers, m \in Nodes :
            \/ phase'[d][m] = phase[d][m] /\ (d = "lifecycle" => asked'[m] = asked[m])
            \/ /\ d = "lifecycle" /\ m = n /\ phase'[d][m] \in {"name", "exists"}
               /\ phase'[d][m] = "name" => asked'[m] = {}
      BY <2>2 DEF Typed, TypeOK, Callers
    <3>2. \/ reply' = reply /\ phase'["lifecycle"][n] # "idle"
          \/ UNCHANGED <<phase, asked, reply>>
      BY <1>2, <2>2 DEF MonitorNode, Typed, TypeOK, Callers
    <3> QED
      BY <1>2, <3>1, <3>2 DEF MonitorNode, InTurn, Typed, Callers
  <2> QED
    BY <2>1, <2>4, <2>5, TypeInPartsNext DEF Typed
<1>3. CASE InitializeNode(n)
  <2>1. MachinesOK' /\ CacheOK' /\ RestOK' /\ ObjectsOK'
    BY <1>3 DEF InitializeNode, Typed, TypeOK, machines, objects, MachinesOK, CacheOK,
                RestOK, ObjectsOK, Entry
  <2>2. phase' = [phase EXCEPT !["initialiser"] = [phase["initialiser"] EXCEPT ![n] = "id"]]
    BY <1>3 DEF InitializeNode
  <2>3. phase' \in [Callers -> [Nodes -> Phases]]
    BY <2>2 DEF Typed, TypeOK, Callers, Phases
  <2>4. ControlOK'
    BY <1>3, <2>3 DEF InitializeNode, ControlOK, Typed, TypeOK, Reply
  <2>5. InTurn'
    <3>1. \A d \in Callers, m \in Nodes :
            phase'[d][m] = phase[d][m] \/ (d = "initialiser" /\ m = n /\ phase'[d][m] = "id")
      BY <2>2 DEF Typed, TypeOK, Callers
    <3> QED
      BY <1>3, <3>1 DEF InitializeNode, InTurn, Typed, Callers
  <2> QED
    BY <2>1, <2>4, <2>5, TypeInPartsNext DEF Typed
<1> QED
  BY <1>1, <1>2, <1>3

LEMMA TypedStays == Spec => []Typed
<1>1. Typed /\ [Next]_vars => Typed'
  <2> SUFFICES ASSUME Typed, [Next]_vars PROVE Typed'
    OBVIOUS
  <2>1. ASSUME NEW c \in Callers, NEW n \in Nodes, Act(c, n) PROVE Typed'
    BY <2>1, HitTyped, QueryTyped, ArriveTyped, QueryFailsTyped DEF Act
  <2>2. CASE UNCHANGED vars
    BY <2>2 DEF vars, machines, objects, control, Typed, TypeOK, InTurn
  <2> QED
    BY <2>1, <2>2, OthersTyped, TickTyped DEF Next
<1> QED
  BY <1>1, TypedInit, PTL DEF Spec

\* Every variable keeps its type: no Node object without the node, no answer
\* older than a query may take, no cache entry older than the TTL.
THEOREM TypeCorrect == Spec => []TypeOK
<1>1. Typed => TypeOK
  BY DEF Typed
<1> QED
  BY <1>1, TypedStays, PTL

-----------------------------------------------------------------------------
\* Time and the TTL: ages are natural numbers.
LEMMA Ages ==
  ASSUME TypeOK
  PROVE  /\ \A n \in Nodes : since[n] \in 0 .. Longest + 1
         /\ \A k \in Key : \A e \in cache[k] : e.age \in 0 .. Ttl /\ e.found \in Found
         /\ \A c \in Callers, n \in Nodes : \A r \in reply[c][n] :
               r.age \in 0 .. Latency /\ r.found \subseteq Found
BY DEF TypeOK

\* A reply under way, and what it says.
ReplyTrue(c, n, r) ==
    /\ \A m \in r.found : StillTrue(n, m, r.age)
    /\ r.found = {} /\ since[n] > r.age =>
          state[n] = "gone" \/ KeyOf(c, n).id \notin {{}, {gen[n]}}

CacheTrue  == \A k \in Key : \A e \in cache[k] : StillTrue(k.node, e.found, e.age + Latency)
RepliesTrue == \A c \in Callers, n \in Nodes : \A r \in reply[c][n] : ReplyTrue(c, n, r)

LEMMA RecentInParts == Recent <=> CacheTrue /\ RepliesTrue
BY DEF Recent, CacheTrue, RepliesTrue, ReplyTrue

LEMMA RecentInPartsNext == Recent' <=> CacheTrue' /\ RepliesTrue'
BY RecentInParts, PTL

\* An answer handed over is not under way any more; the others are as before.
LEMMA ReturnsRecent ==
  ASSUME Typed, RepliesTrue, NEW c \in Callers, NEW n \in Nodes, NEW found,
         Returns(c, n, found), UNCHANGED machines
  PROVE  RepliesTrue'
<1>1. PICK next : Then(c, n, next)
  BY DEF Returns, NameReturns, ExistsReturns, ShutdownReturns, IdReturns, AddressesReturn,
         Then, Typed, InTurn, Callers
<1>2. \A d \in Callers, m \in Nodes :
        reply'[d][m] = IF d = c /\ m = n THEN {} ELSE reply[d][m]
  BY <1>1 DEF Then, Typed, TypeOK
<1>3. \A m \in Nodes : asked'[m] = asked[m] \/ (m = n /\ c = "lifecycle")
  BY DEF Returns, NameReturns, ExistsReturns, ShutdownReturns, IdReturns, AddressesReturn,
         Typed, InTurn, Callers, TypeOK
<1> SUFFICES ASSUME NEW d \in Callers, NEW m \in Nodes, NEW r \in reply'[d][m]
             PROVE  ReplyTrue(d, m, r)'
  BY DEF RepliesTrue
<1>4. ~(d = c /\ m = n) /\ r \in reply[d][m]
  BY <1>2
<1>5. KeyOf(d, m)' = KeyOf(d, m)
  BY <1>3, <1>4 DEF KeyOf
<1> QED
  BY <1>4, <1>5 DEF RepliesTrue, ReplyTrue, StillTrue, machines

LEMMA ArriveRecent ==
  ASSUME Typed, Recent, NEW c \in Callers, NEW n \in Nodes, Arrive(c, n)
  PROVE  Recent'
<1>1. PICK r \in reply[c][n] :
        /\ Returns(c, n, r.found)
        /\ cache' = IF r.found = {} THEN cache
                    ELSE [cache EXCEPT ![KeyOf(c, n)] = {[found |-> m, age |-> 0] : m \in r.found}]
  BY DEF Arrive
<1>2. UNCHANGED machines
  BY DEF Arrive
<1>3. RepliesTrue'
  BY <1>1, <1>2, RecentInParts, ReturnsRecent
<1>4. ASSUME NEW m \in r.found PROVE StillTrue(n, m, Latency)
  <2>1. StillTrue(n, m, r.age) /\ r.age \in 0 .. Latency /\ since[n] \in Int
    BY Ages DEF Recent, Typed
  <2> QED
    BY <2>1 DEF StillTrue
<1>5. CacheTrue'
  <2> SUFFICES ASSUME NEW k \in Key, NEW e \in cache'[k]
               PROVE  StillTrue(k.node, e.found, e.age + Latency)'
    BY DEF CacheTrue
  <2>1. CASE e \in cache[k]
    BY <1>2, <2>1, RecentInParts DEF CacheTrue, StillTrue, machines
  <2>2. CASE e \notin cache[k]
    <3>1. k = KeyOf(c, n) /\ \E m \in r.found : e = [found |-> m, age |-> 0]
      BY <1>1, <2>2 DEF Typed, TypeOK
    <3>2. k.node = n
      BY <3>1, KeyOfType DEF Typed
    <3>3. PICK m \in r.found : e = [found |-> m, age |-> 0]
      BY <3>1
    <3>4. e.found = m /\ e.age + Latency = Latency
      BY <3>3
    <3> QED
      BY <1>2, <1>4, <3>2, <3>4 DEF StillTrue, machines
  <2> QED
    BY <2>1, <2>2
<1> QED
  BY <1>3, <1>5, RecentInPartsNext

LEMMA QueryRecent ==
  ASSUME Typed, Recent, NEW c \in Callers, NEW n \in Nodes, Query(c, n)
  PROVE  Recent'
<1> DEFINE new == [found |-> InCloud(KeyOf(c, n)), age |-> 0]
<1>1. UNCHANGED <<machines, asked, cache>>
  BY DEF Query
<1>2. reply' = [reply EXCEPT ![c] = [reply[c] EXCEPT ![n] = {new}]]
  BY DEF Query
<1>3. ReplyTrue(c, n, new)
  <2>1. KeyOf(c, n).node = n
    BY KeyOfType DEF Typed
  <2>2. \A m \in InCloud(KeyOf(c, n)) : gen[n] = m.gen /\ state[n] = m.state
    BY <2>1 DEF InCloud
  <2>3. InCloud(KeyOf(c, n)) = {} => state[n] = "gone" \/ KeyOf(c, n).id \notin {{}, {gen[n]}}
    BY <2>1 DEF InCloud
  <2>4. new.found = InCloud(KeyOf(c, n)) /\ new.age = 0
    OBVIOUS
  <2> HIDE DEF new
  <2> QED
    BY <2>2, <2>3, <2>4 DEF ReplyTrue, StillTrue
<1>4. CacheTrue'
  BY <1>1, RecentInParts DEF CacheTrue, StillTrue, machines
<1>5. RepliesTrue'
  <2> HIDE DEF new
  <2> SUFFICES ASSUME NEW d \in Callers, NEW m \in Nodes, NEW r \in reply'[d][m]
               PROVE  ReplyTrue(d, m, r)'
    BY DEF RepliesTrue
  <2>1. ReplyTrue(d, m, r)
    <3>1. r \in reply[d][m] \/ (d = c /\ m = n /\ r = new)
      BY <1>2 DEF Typed, TypeOK
    <3> QED
      BY <1>3, <3>1, RecentInParts DEF RepliesTrue
  <2> QED
    BY <1>1, <2>1 DEF ReplyTrue, StillTrue, KeyOf, machines
<1> QED
  BY <1>4, <1>5, RecentInPartsNext

LEMMA TickRecent == ASSUME Typed, Recent, Tick PROVE Recent'
<1>1. /\ UNCHANGED <<gen, state, asked>>
      /\ \A n \in Nodes : since'[n] = IF since[n] <= Longest THEN since[n] + 1 ELSE since[n]
      /\ \A k \in Key : \A e \in cache'[k] : \E f \in cache[k] :
            e.found = f.found /\ e.age = f.age + 1
      /\ \A c \in Callers, n \in Nodes : \A r \in reply'[c][n] : \E q \in reply[c][n] :
            r.found = q.found /\ r.age = q.age + 1
  <2>1. ASSUME NEW k \in Key, NEW e \in cache'[k]
        PROVE  \E f \in cache[k] : e.found = f.found /\ e.age = f.age + 1
    <3>1. PICK f \in cache[k] : e = [f EXCEPT !.age = @ + 1]
      BY DEF Tick
    <3>2. f \in Entry
      BY DEF Typed, TypeOK, Entry
    <3> QED
      BY <3>1, <3>2 DEF Entry
  <2>2. ASSUME NEW c \in Callers, NEW n \in Nodes, NEW r \in reply'[c][n]
        PROVE  \E q \in reply[c][n] : r.found = q.found /\ r.age = q.age + 1
    <3>1. PICK q \in reply[c][n] : r = [q EXCEPT !.age = @ + 1]
      BY DEF Tick
    <3>2. q \in Reply
      BY DEF Typed, TypeOK, Reply
    <3> QED
      BY <3>1, <3>2 DEF Reply
  <2> QED
    BY <2>1, <2>2 DEF Tick
<1>2. ASSUME NEW n \in Nodes, NEW a \in Nat PROVE since'[n] > a + 1 => since[n] > a
  BY <1>1, Ages DEF Typed, Longest, Bound
<1>3. CacheTrue'
  <2> SUFFICES ASSUME NEW k \in Key, NEW e \in cache'[k]
               PROVE  StillTrue(k.node, e.found, e.age + Latency)'
    BY DEF CacheTrue
  <2>1. PICK f \in cache[k] : e.found = f.found /\ e.age = f.age + 1
    BY <1>1
  <2>2. StillTrue(k.node, f.found, f.age + Latency) /\ f.age \in Nat /\ k.node \in Nodes
    BY RecentInParts, Ages DEF CacheTrue, Key, Typed
  <2>3. f.age + Latency \in Nat /\ e.age + Latency = (f.age + Latency) + 1
    BY <2>1, <2>2
  <2>4. since'[k.node] > e.age + Latency => since[k.node] > f.age + Latency
    BY <1>2, <2>2, <2>3
  <2> QED
    BY <1>1, <2>1, <2>2, <2>4 DEF StillTrue
<1>4. RepliesTrue'
  <2> SUFFICES ASSUME NEW c \in Callers, NEW n \in Nodes, NEW r \in reply'[c][n]
               PROVE  ReplyTrue(c, n, r)'
    BY DEF RepliesTrue
  <2>1. PICK q \in reply[c][n] : r.found = q.found /\ r.age = q.age + 1
    BY <1>1
  <2>2. ReplyTrue(c, n, q) /\ q.age \in Nat
    BY RecentInParts, Ages DEF RepliesTrue, Typed
  <2>3. since'[n] > r.age => since[n] > q.age
    BY <1>2, <2>1, <2>2
  <2> QED
    BY <1>1, <2>1, <2>2, <2>3 DEF ReplyTrue, StillTrue, KeyOf
<1> QED
  BY <1>3, <1>4, RecentInPartsNext

\* When the machine at an address changes, whatever is said of it counts as
\* true until a moment ago.
LEMMA OthersRecent ==
  ASSUME Typed, Recent, NEW n \in Nodes, World(n) \/ MonitorNode(n) \/ InitializeNode(n)
  PROVE  Recent'
<1>1. CASE MachineChanges(n)
  <2>1. UNCHANGED <<cache, reply, asked>> /\ since'[n] = 0
    BY <1>1 DEF MachineChanges, control, Typed, TypeOK
  <2>2. \A m \in Nodes \ {n} : gen'[m] = gen[m] /\ state'[m] = state[m] /\ since'[m] = since[m]
    BY <1>1 DEF MachineChanges, Typed, TypeOK
  <2>3. CacheTrue'
    <3> SUFFICES ASSUME NEW k \in Key, NEW e \in cache[k]
                 PROVE  StillTrue(k.node, e.found, e.age + Latency)'
      BY <2>1 DEF CacheTrue
    <3>1. StillTrue(k.node, e.found, e.age + Latency) /\ k.node \in Nodes
      BY RecentInParts DEF CacheTrue, Key
    <3>2. e.age \in 0 .. Ttl
      BY Ages DEF Typed
    <3>3. ~(0 > e.age + Latency)
      BY <3>2
    <3> QED
      BY <2>1, <2>2, <3>1, <3>3 DEF StillTrue
  <2>4. RepliesTrue'
    <3> SUFFICES ASSUME NEW d \in Callers, NEW m \in Nodes, NEW r \in reply[d][m]
                 PROVE  ReplyTrue(d, m, r)'
      BY <2>1 DEF RepliesTrue
    <3>1. ReplyTrue(d, m, r)
      BY RecentInParts DEF RepliesTrue
    <3>2. ~(0 > r.age)
      BY Ages DEF Typed
    <3> QED
      BY <2>1, <2>2, <3>1, <3>2 DEF ReplyTrue, StillTrue, KeyOf
  <2> QED
    BY <2>3, <2>4, RecentInPartsNext
<1>2. CASE UserRemovesNode(n) \/ Register(n) \/ Heartbeat(n)
  <2>1. UNCHANGED <<gen, state, since, cache, reply, asked>>
    BY <1>2 DEF UserRemovesNode, Register, Heartbeat, machines, control
  <2> QED
    BY <2>1 DEF Recent, StillTrue, KeyOf
<1>3. CASE InitializeNode(n)
  <2>1. UNCHANGED <<gen, state, since, cache, reply, asked>>
    BY <1>3 DEF InitializeNode, machines
  <2> QED
    BY <2>1 DEF Recent, StillTrue, KeyOf
<1>4. CASE MonitorNode(n)
  <2>1. UNCHANGED <<gen, state, since, cache, reply>>
    BY <1>4 DEF MonitorNode, machines
  <2>2. asked' = asked \/ (asked' = [asked EXCEPT ![n] = provider[n]] /\ reply["lifecycle"][n] = {})
    BY <1>4 DEF MonitorNode, Typed, InTurn, Callers
  <2>3. CacheTrue'
    BY <2>1, RecentInParts DEF CacheTrue, StillTrue
  <2>4. RepliesTrue'
    <3> SUFFICES ASSUME NEW d \in Callers, NEW m \in Nodes, NEW r \in reply[d][m]
                 PROVE  ReplyTrue(d, m, r)'
      BY <2>1 DEF RepliesTrue
    <3>1. ReplyTrue(d, m, r)
      BY RecentInParts DEF RepliesTrue
    <3>2. KeyOf(d, m)' = KeyOf(d, m)
      BY <2>2 DEF KeyOf, Typed, TypeOK
    <3> QED
      BY <2>1, <3>1, <3>2 DEF ReplyTrue, StillTrue
  <2> QED
    BY <2>3, <2>4, RecentInPartsNext
<1> QED
  BY <1>1, <1>2, <1>3, <1>4 DEF World

LEMMA RecentStep == Typed /\ Recent /\ [Next]_vars => Recent'
<1> SUFFICES ASSUME Typed, Recent, [Next]_vars PROVE Recent'
  OBVIOUS
<1>1. ASSUME NEW c \in Callers, NEW n \in Nodes, Hit(c, n) PROVE Recent'
  <2>1. PICK e \in cache[KeyOf(c, n)] : Returns(c, n, {e.found})
    BY <1>1 DEF Hit
  <2>2. UNCHANGED <<machines, cache>>
    BY <1>1 DEF Hit
  <2>3. RepliesTrue'
    BY <2>1, <2>2, RecentInParts, ReturnsRecent
  <2>4. CacheTrue'
    BY <2>2, RecentInParts DEF CacheTrue, StillTrue, machines
  <2> QED
    BY <2>3, <2>4, RecentInPartsNext
<1>2. ASSUME NEW c \in Callers, NEW n \in Nodes, QueryFails(c, n) PROVE Recent'
  <2>1. UNCHANGED <<machines, asked, cache>>
    BY <1>2 DEF QueryFails
  <2>2. \A d \in Callers, m \in Nodes : reply'[d][m] \subseteq reply[d][m]
    BY <1>2 DEF QueryFails, Typed, TypeOK
  <2> QED
    BY <2>1, <2>2 DEF Recent, StillTrue, KeyOf, machines
<1>3. CASE UNCHANGED vars
  BY <1>3 DEF vars, machines, control, Recent, StillTrue, KeyOf
<1> QED
  BY <1>1, <1>2, <1>3, ArriveRecent, QueryRecent, OthersRecent, TickRecent DEF Next, Act

\* A cached answer is true, or was so until as long ago as it is in the cache
\* and its query took; one under way is true, or was when it was given.
THEOREM RecentHolds == Spec => []Recent
<1>1. Init => Recent
  BY DEF Init, Recent, KeyOf
<1> QED
  BY <1>1, RecentStep, TypedStays, PTL DEF Spec

-----------------------------------------------------------------------------
\* The answer a controller acts on, from the cache or just arrived.
LEMMA ActedOn ==
  ASSUME Typed, Recent, NEW c \in Callers, NEW n \in Nodes, Act(c, n),
         ~(UNCHANGED <<exists, tainted, provider, got>>)
  PROVE  \E found \in SUBSET Found :
            /\ Returns(c, n, found)
            /\ \A m \in found : StillTrue(n, m, Bound)
            /\ found = {} /\ since[n] > Latency =>
                  state[n] = "gone" \/ KeyOf(c, n).id \notin {{}, {gen[n]}}
<1>1. KeyOf(c, n) \in Key /\ KeyOf(c, n).node = n /\ since[n] \in Int
  BY KeyOfType, Ages DEF Typed
<1>2. CASE Hit(c, n)
  <2>1. PICK e \in cache[KeyOf(c, n)] : Returns(c, n, {e.found})
    BY <1>2 DEF Hit
  <2>2. e.age \in 0 .. Ttl /\ e.found \in Found
    BY <1>1, Ages DEF Typed
  <2>3. StillTrue(n, e.found, e.age + Latency)
    BY <1>1 DEF Recent
  <2>4. StillTrue(n, e.found, Bound)
    BY <1>1, <2>2, <2>3 DEF StillTrue, Bound
  <2> QED
    BY <2>1, <2>2, <2>4
<1>3. CASE Arrive(c, n)
  <2>1. PICK r \in reply[c][n] : Returns(c, n, r.found)
    BY <1>3 DEF Arrive
  <2>2. r.age \in 0 .. Latency /\ r.found \subseteq Found
    BY Ages DEF Typed
  <2>3. \A m \in r.found : StillTrue(n, m, Bound)
    <3>1. \A m \in r.found : StillTrue(n, m, r.age)
      BY DEF Recent
    <3> QED
      BY <1>1, <2>2, <3>1 DEF StillTrue, Bound
  <2>4. r.found = {} /\ since[n] > Latency =>
          state[n] = "gone" \/ KeyOf(c, n).id \notin {{}, {gen[n]}}
    BY <1>1, <2>2 DEF Recent
  <2> QED
    BY <2>1, <2>2, <2>3, <2>4
<1> QED
  BY <1>2, <1>3 DEF Act, Query, QueryFails, objects

\* No node is tainted whose machine has been running for longer than an
\* answer is cached and under way (InstanceShutdownByProviderID).
THEOREM NoStaleTaints == Spec => NoStaleTaint
<1>1. Typed /\ Recent /\ [Next]_vars =>
        [\A n \in tainted' \ tainted : state[n] = "running" => since[n] <= Bound]_vars
  <2> SUFFICES ASSUME Typed, Recent, [Next]_vars,
                      NEW n \in tainted' \ tainted, state[n] = "running"
               PROVE  since[n] <= Bound
    OBVIOUS
  <2>1. PICK m \in Nodes, c \in Callers : Act(c, m)
    BY DEF Next, vars, objects, World, MachineChanges, UserRemovesNode, RemoveNode,
           Register, Heartbeat, MonitorNode, InitializeNode, Tick
  <2>2. PICK found \in SUBSET Found :
          Returns(c, m, found) /\ \A f \in found : StillTrue(m, f, Bound)
    BY <2>1, ActedOn
  <2>3. ShutdownReturns(m, found)
    BY <2>2 DEF Returns, NameReturns, ExistsReturns, IdReturns, AddressesReturn, RemoveNode,
                objects
  <2>4. n = m /\ n \in Nodes /\ \E f \in found : f.state # "running"
    BY <2>3 DEF ShutdownReturns
  <2>5. ~(since[n] > Bound)
    BY <2>2, <2>4 DEF StillTrue
  <2>6. since[n] \in Int
    BY <2>4, Ages DEF Typed
  <2> QED
    BY <2>5, <2>6 DEF Bound
<1> QED
  BY <1>1, TypedStays, RecentHolds, PTL DEF Spec, NoStaleTaint

\* No controller removes a node whose machine has been there for longer than
\* a query takes (InstanceID, by way of the node lifecycle controller).
THEOREM OnlyAbsentRemoved == Spec => RemovesOnlyAbsent
<1>1. Typed /\ Recent /\ [Next]_vars =>
        [\A n \in exists \ exists' :
            changes' = changes /\ state[n] # "gone" => since[n] <= Latency]_vars
  <2> SUFFICES ASSUME Typed, Recent, [Next]_vars,
                      NEW n \in exists \ exists', changes' = changes, state[n] # "gone"
               PROVE  since[n] <= Latency
    OBVIOUS
  <2>1. PICK m \in Nodes, c \in Callers : Act(c, m)
    BY DEF Next, vars, objects, World, MachineChanges, UserRemovesNode, Change, Typed, TypeOK,
           Register, Heartbeat, MonitorNode, InitializeNode, Tick
  <2>2. PICK found \in SUBSET Found :
          /\ Returns(c, m, found)
          /\ found = {} /\ since[m] > Latency =>
                state[m] = "gone" \/ KeyOf(c, m).id \notin {{}, {gen[m]}}
    BY <2>1, ActedOn
  <2>3. phase[c][m] = "name" /\ NameReturns(m, found)
    BY <2>2 DEF Returns, ExistsReturns, ShutdownReturns, IdReturns, AddressesReturn, objects
  <2>4. n = m /\ found = {}
    BY <2>3 DEF NameReturns, RemoveNode, objects
  <2>5. c = "lifecycle" => asked[m] = {}
    BY <2>3 DEF Typed, InTurn
  <2>6. KeyOf(c, m).id = {}
    BY <2>5 DEF KeyOf
  <2>7. ~(since[n] > Latency) /\ since[n] \in Int
    BY <2>2, <2>4, <2>6, Ages DEF Typed
  <2> QED
    BY <2>7
<1> QED
  BY <1>1, TypedStays, RecentHolds, PTL DEF Spec, RemovesOnlyAbsent

\* What carries the last proof: the provider id the initialiser holds while it
\* asks for the addresses is right, or was until as long ago as the first
\* answer was cached and under way, and the second one is.
GotRecent ==
    \A n \in Nodes :
       phase["initialiser"][n] = "addresses" =>
         \A g \in got[n] : g # gen[n] =>
            since[n] <= Bound \/ \E r \in reply["initialiser"][n] : since[n] <= Bound + r.age

LEMMA GotRecentStep == Typed /\ Recent /\ GotRecent /\ [Next]_vars => GotRecent'
<1> SUFFICES ASSUME Typed, Recent, GotRecent, [Next]_vars,
                    NEW n \in Nodes, phase'["initialiser"][n] = "addresses",
                    NEW g \in got'[n], g # gen'[n]
             PROVE  \/ since'[n] <= Bound
                    \/ \E r \in reply'["initialiser"][n] : since'[n] <= Bound + r.age
  BY DEF GotRecent
<1> DEFINE Held == /\ phase["initialiser"][n] = "addresses" /\ g \in got[n]
                   /\ since'[n] = since[n] /\ gen'[n] = gen[n]
                   /\ \/ reply'["initialiser"][n] = reply["initialiser"][n]
                      \/ reply["initialiser"][n] = {}
<1>a. Held => \/ since'[n] <= Bound
              \/ \E r \in reply'["initialiser"][n] : since'[n] <= Bound + r.age
  BY DEF GotRecent
<1>b. since[n] \in Int /\ Bound \in Nat /\ "initialiser" \in Callers
  BY Ages DEF Typed, Bound, Callers
<1>1. CASE Tick
  <2>1. /\ phase["initialiser"][n] = "addresses" /\ g \in got[n] /\ g # gen[n]
        /\ since'[n] <= since[n] + 1
    BY <1>1, <1>b DEF Tick
  <2>2. PICK q \in reply["initialiser"][n] : q.age < Latency
    BY <1>1, <1>b, <2>1 DEF Tick, Waiting
  <2>3. reply'["initialiser"][n] = {[r EXCEPT !.age = @ + 1] : r \in reply["initialiser"][n]}
    BY <1>1, <1>b DEF Tick
  <2>4. \A r \in reply["initialiser"][n] :
           /\ r.age \in 0 .. Latency
           /\ [r EXCEPT !.age = @ + 1].age = r.age + 1
    BY <1>b DEF Typed, TypeOK
  <2>5. PICK r \in reply["initialiser"][n] : since[n] <= Bound \/ since[n] <= Bound + r.age
    BY <2>1, <2>2 DEF GotRecent
  <2>6. since[n] <= Bound + r.age /\ since'[n] \in Int
    BY <1>1, <1>b, <2>4, <2>5 DEF Tick
  <2>7. since'[n] <= Bound + [r EXCEPT !.age = @ + 1].age
    BY <1>b, <2>1, <2>4, <2>6
  <2> QED
    BY <2>3, <2>7
<1>2. ASSUME NEW c \in Callers, NEW m \in Nodes, Hit(c, m) \/ Arrive(c, m)
      PROVE  \/ since'[n] <= Bound
             \/ \E r \in reply'["initialiser"][n] : since'[n] <= Bound + r.age
  <2>1. UNCHANGED machines
    BY <1>2 DEF Hit, Arrive
  <2>2. PICK found : Returns(c, m, found)
    BY <1>2 DEF Hit, Arrive
  <2>3. CASE c = "initialiser" /\ m = n
    <3>3. PICK f \in SUBSET Found :
            Returns(c, m, f) /\ \A x \in f : StillTrue(m, x, Bound)
      <4>1. CASE Hit(c, m)
        <5>1. PICK e \in cache[KeyOf(c, m)] : Returns(c, m, {e.found})
          BY <4>1 DEF Hit
        <5>2. e.age \in 0 .. Ttl /\ e.found \in Found /\ KeyOf(c, m).node = m
          BY KeyOfType, Ages DEF Typed
        <5>3. StillTrue(m, e.found, e.age + Latency)
          BY <5>2, KeyOfType DEF Recent, Typed
        <5>4. StillTrue(m, e.found, Bound)
          BY <1>b, <2>3, <5>2, <5>3 DEF StillTrue, Bound
        <5> QED
          BY <5>1, <5>2, <5>4
      <4>2. CASE Arrive(c, m)
        <5>1. PICK r \in reply[c][m] : Returns(c, m, r.found)
          BY <4>2 DEF Arrive
        <5>2. r.age \in 0 .. Latency /\ r.found \subseteq Found
          BY Ages DEF Typed
        <5>3. \A x \in r.found : StillTrue(m, x, r.age)
          BY DEF Recent
        <5>4. \A x \in r.found : StillTrue(m, x, Bound)
          BY <1>b, <2>3, <5>2, <5>3 DEF StillTrue, Bound
        <5> QED
          BY <5>1, <5>2, <5>4
      <4> QED
        BY <1>2, <4>1, <4>2
    <3>4. IdReturns(n, f)
      <4>1. phase[c][m] # "addresses" \/ ~AddressesReturn(m, f)
        BY <1>b, <2>3 DEF AddressesReturn, Then, Typed, TypeOK
      <4>2. phase[c][m] \in {"id", "addresses"}
        BY <1>b, <2>3, <1>2 DEF Hit, Arrive, Waiting, Typed, InTurn
      <4> QED
        BY <2>3, <3>3, <4>1, <4>2 DEF Returns
    <3>5. got'[n] = {x.gen : x \in f}
      BY <3>4 DEF IdReturns, Typed, TypeOK
    <3>6. since[n] <= Bound
      BY <1>b, <2>1, <2>3, <3>3, <3>5 DEF StillTrue, machines
    <3> QED
      BY <2>1, <3>6 DEF machines
  <2>4. CASE ~(c = "initialiser" /\ m = n)
    <3>1. PICK next : Then(c, m, next)
      BY <2>2 DEF Returns, NameReturns, ExistsReturns, ShutdownReturns, IdReturns, AddressesReturn, Then,
                  Typed, InTurn, Callers
    <3>2. /\ phase'["initialiser"][n] = phase["initialiser"][n]
          /\ reply'["initialiser"][n] = reply["initialiser"][n]
      BY <1>b, <2>4, <3>1 DEF Then, Typed, TypeOK
    <3>3. got'[n] = got[n]
      BY <2>2, <2>4, <1>2
         DEF Returns, NameReturns, ExistsReturns, ShutdownReturns, IdReturns,
             AddressesReturn, Typed, TypeOK, InTurn, Callers
    <3> QED
      BY <1>a, <2>1, <3>2, <3>3 DEF machines
  <2> QED
    BY <2>3, <2>4
<1>3. ASSUME NEW c \in Callers, NEW m \in Nodes, Query(c, m)
      PROVE  \/ since'[n] <= Bound
             \/ \E r \in reply'["initialiser"][n] : since'[n] <= Bound + r.age
  <2>1. UNCHANGED <<machines, phase, got>>
    BY <1>3 DEF Query
  <2>2. \/ reply'["initialiser"][n] = reply["initialiser"][n]
        \/ reply["initialiser"][n] = {}
    BY <1>3, <1>b DEF Query, Typed, TypeOK
  <2> QED
    BY <1>a, <2>1, <2>2 DEF machines
<1>4. ASSUME NEW c \in Callers, NEW m \in Nodes, QueryFails(c, m)
      PROVE  \/ since'[n] <= Bound
             \/ \E r \in reply'["initialiser"][n] : since'[n] <= Bound + r.age
  <2>1. ~(c = "initialiser" /\ m = n)
    BY <1>4, <1>b DEF QueryFails, Typed, TypeOK
  <2>2. /\ phase'["initialiser"][n] = phase["initialiser"][n]
        /\ reply'["initialiser"][n] = reply["initialiser"][n]
    BY <1>4, <1>b, <2>1 DEF QueryFails, Typed, TypeOK
  <2>3. UNCHANGED <<machines, got>>
    BY <1>4 DEF QueryFails
  <2> QED
    BY <1>a, <2>2, <2>3 DEF machines
<1>5. ASSUME NEW m \in Nodes, MachineChanges(m)
      PROVE  \/ since'[n] <= Bound
             \/ \E r \in reply'["initialiser"][n] : since'[n] <= Bound + r.age
  <2>1. UNCHANGED <<phase, got, reply>>
    BY <1>5 DEF MachineChanges, control
  <2>2. since'[n] = 0 \/ (since'[n] = since[n] /\ gen'[n] = gen[n])
    BY <1>5 DEF MachineChanges, Typed, TypeOK
  <2> QED
    BY <1>a, <1>b, <2>1, <2>2
<1>6. ASSUME NEW m \in Nodes,
             UserRemovesNode(m) \/ Register(m) \/ Heartbeat(m) \/ MonitorNode(m) \/ InitializeNode(m)
      PROVE  \/ since'[n] <= Bound
             \/ \E r \in reply'["initialiser"][n] : since'[n] <= Bound + r.age
  <2>1. UNCHANGED <<gen, since, got, reply>>
    BY <1>6 DEF UserRemovesNode, Register, Heartbeat, MonitorNode, InitializeNode,
                machines, control
  <2>2. phase'["initialiser"][n] = "addresses" => phase["initialiser"][n] = "addresses"
    BY <1>6, <1>b DEF UserRemovesNode, Register, Heartbeat, MonitorNode, InitializeNode,
                      control, Typed, TypeOK, Callers
  <2> QED
    BY <1>a, <2>1, <2>2
<1>7. CASE UNCHANGED vars
  BY <1>7, <1>a DEF vars, machines, control
<1> QED
  BY <1>1, <1>2, <1>3, <1>4, <1>5, <1>6, <1>7 DEF Next, World, Act

LEMMA GotRecentHolds == Spec => []GotRecent
<1>1. Init => GotRecent
  BY DEF Init, GotRecent, Callers
<1> QED
  BY <1>1, GotRecentStep, TypedStays, RecentHolds, PTL DEF Spec

\* The provider id a node gets is that of the machine at its address, or of
\* one that was there until a cache entry and two queries ago (InstanceID).
THEOREM RecentlyInitialised == Spec => InitialisedRecently
<1>1. Typed /\ GotRecent /\ [Next]_vars =>
        [\A n \in Nodes : \A g \in provider'[n] \ provider[n] :
            g # gen[n] => since[n] <= Longest]_vars
  <2> SUFFICES ASSUME Typed, GotRecent, [Next]_vars,
                      NEW n \in Nodes, NEW g \in provider'[n] \ provider[n], g # gen[n]
               PROVE  since[n] <= Longest
    OBVIOUS
  <2>1. PICK m \in Nodes, c \in Callers : Hit(c, m) \/ Arrive(c, m)
    BY DEF Next, vars, objects, World, MachineChanges, UserRemovesNode, RemoveNode, Typed,
           TypeOK, Register, Heartbeat, MonitorNode, InitializeNode, Tick, Act, Query, QueryFails
  <2>2. PICK found : Returns(c, m, found)
    BY <2>1 DEF Hit, Arrive
  <2>3. phase[c][m] = "addresses" /\ AddressesReturn(m, found)
    BY <2>2 DEF Returns, NameReturns, ExistsReturns, ShutdownReturns, IdReturns, RemoveNode,
                objects,
                Typed, TypeOK
  <2>4. m = n /\ g \in got[n]
    BY <2>3 DEF AddressesReturn, Typed, TypeOK
  <2>5. c = "initialiser"
    BY <2>3 DEF Typed, InTurn, Callers
  <2>6. since[n] <= Bound \/ \E r \in reply["initialiser"][n] : since[n] <= Bound + r.age
    BY <2>3, <2>4, <2>5 DEF GotRecent
  <2>7. \A r \in reply["initialiser"][n] : r.age \in 0 .. Latency
    BY Ages DEF Typed, Callers
  <2>8. since[n] \in Int /\ Bound \in Nat
    BY Ages DEF Typed, Bound
  <2> QED
    BY <2>6, <2>7, <2>8 DEF Longest
<1> QED
  BY <1>1, TypedStays, GotRecentHolds, PTL DEF Spec, InitialisedRecently
=============================================================================
