---------------------------- MODULE RoutesProofs ----------------------------
(***************************************************************************)
(* Proofs about Routes, for any nodes, CIDRs and foreign routes, and any   *)
(* number of changes and failing calls.                                    *)
(***************************************************************************)
EXTENDS Routes, TLAPS

\* A route of somebody else is never one a node of the cluster wants.
LEMMA ForeignUnwanted == Wanted \cap Foreign = {}
<1>1. ASSUME NEW r \in Wanted, r \in Foreign PROVE FALSE
  <2>1. r.cidr \in Cidrs
    BY DEF Wanted, Route
  <2> QED
    BY <1>1, <2>1, RoutesAssumption
<1> QED
  BY <1>1

\* Every variable keeps its type: the controller only ever creates routes of
\* the cluster's nodes and CIDRs, and only deletes such routes.
THEOREM TypeCorrect == Spec => []TypeOK
<1>1. Init => TypeOK
  <2>1. Init => clean \in BOOLEAN
    BY DEF Init
  <2> QED
    BY <2>1, RoutesAssumption DEF Init, TypeOK
<1>2. TypeOK /\ [Next]_vars => TypeOK'
  <2> SUFFICES ASSUME TypeOK, [Next]_vars PROVE TypeOK'
    OBVIOUS
  <2> USE RoutesAssumption DEF TypeOK
  <2>1. ASSUME NEW n \in Nodes, NodeChanges(n) PROVE TypeOK'
    <3>1. changes' \in 0 .. MaxChanges
      BY <2>1 DEF NodeChanges
    <3>2. cidrOf' \in [Nodes -> SUBSET Cidrs]
      BY <2>1 DEF NodeChanges
    <3>3. steady' \subseteq Route
      BY <2>1 DEF NodeChanges
    <3> QED
      BY <2>1, <3>1, <3>2, <3>3 DEF NodeChanges
  <2>2. CASE ListRoutes
    BY <2>2 DEF ListRoutes, Listed, Fault
  <2>3. CASE Reconcile
    <3>1. Wanted \subseteq Route
      BY DEF Wanted
    <3>2. {r \in listed : Responsible(r)} \subseteq Route
      BY DEF Responsible
    <3> QED
      BY <2>3, <3>1, <3>2 DEF Reconcile
  <2>4. ASSUME NEW r \in Route \cup Foreign, CreateRoute(r) PROVE TypeOK'
    <3>1. clean' \in BOOLEAN
      BY <2>4 DEF CreateRoute
    <3> QED
      BY <2>4, <3>1 DEF CreateRoute, Fault
  <2>5. ASSUME NEW r \in Route \cup Foreign, DeleteRoute(r) PROVE TypeOK'
    <3>1. clean' \in BOOLEAN
      BY <2>5 DEF DeleteRoute
    <3> QED
      BY <2>5, <3>1 DEF DeleteRoute, Deleted, Fault
  <2>6. CASE RoundEnds
    BY <2>6 DEF RoundEnds
  <2>7. CASE UNCHANGED vars
    BY <2>7 DEF vars
  <2> QED
    BY <2>1, <2>2, <2>3, <2>4, <2>5, <2>6, <2>7 DEF Next, Calls
<1> QED
  BY <1>1, <1>2, PTL DEF Spec

\* A deletion under way never concerns a route that has been wanted since the
\* nodes were read (DeleteRoute), nor one of somebody else.
LEMMA DeletesRight == Spec => []CallsRight
<1>1. Init => CallsRight
  BY DEF Init, CallsRight
<1>2. CallsRight /\ [Next]_vars => CallsRight'
  <2> SUFFICES ASSUME CallsRight, [Next]_vars PROVE CallsRight'
    OBVIOUS
  <2> USE DEF CallsRight
  <2>1. ASSUME NEW n \in Nodes, NodeChanges(n) PROVE CallsRight'
    BY <2>1 DEF NodeChanges
  <2>2. CASE ListRoutes
    BY <2>2 DEF ListRoutes
  <2>3. CASE Reconcile
    BY <2>3, ForeignUnwanted DEF Reconcile, Responsible
  <2>4. ASSUME NEW r \in Route \cup Foreign, CreateRoute(r) PROVE CallsRight'
    BY <2>4 DEF CreateRoute
  <2>5. ASSUME NEW r \in Route \cup Foreign, DeleteRoute(r) PROVE CallsRight'
    BY <2>5 DEF DeleteRoute
  <2>6. CASE RoundEnds
    BY <2>6 DEF RoundEnds
  <2>7. CASE UNCHANGED vars
    BY <2>7 DEF vars
  <2> QED
    BY <2>1, <2>2, <2>3, <2>4, <2>5, <2>6, <2>7 DEF Next, Calls
<1> QED
  BY <1>1, <1>2, PTL DEF Spec

\* The route of a node that has kept its CIDR since the nodes were read stays
\* in the table, though the CIDR's former route is deleted at the same time.
THEOREM WantedRoutesStay == Spec => RouteKept
<1>1. CallsRight /\ [Next]_vars => [\A r \in table \ table' : r \notin steady]_vars
  <2> SUFFICES ASSUME CallsRight, Next PROVE \A r \in table \ table' : r \notin steady
    OBVIOUS
  <2>1. ASSUME NEW d \in Route \cup Foreign, DeleteRoute(d)
        PROVE  \A r \in table \ table' : r \notin steady
    BY <2>1 DEF DeleteRoute, Deleted, CallsRight
  <2>2. ASSUME NEW c \in Route \cup Foreign, CreateRoute(c) PROVE table \subseteq table'
    BY <2>2 DEF CreateRoute
  <2>3. ASSUME NEW n \in Nodes, NodeChanges(n) PROVE table \subseteq table'
    BY <2>3 DEF NodeChanges
  <2>4. ListRoutes \/ Reconcile \/ RoundEnds => table \subseteq table'
    BY DEF ListRoutes, Reconcile, RoundEnds
  <2> QED
    BY <2>1, <2>2, <2>3, <2>4 DEF Next, Calls
<1> QED
  BY <1>1, DeletesRight, PTL DEF Spec, RouteKept

\* The calls of a round that nothing comes in the way of are for just what is
\* missing from the table and what is too much (ListRoutes, CreateRoute,
\* DeleteRoute), in whatever order they return.
THEOREM AlwaysSettling == Spec => []Settling
<1>1. Init => Settling
  BY DEF Init, Settling
<1>2. TypeOK /\ CallsRight /\ Settling /\ [Next]_vars => Settling'
  <2> SUFFICES ASSUME TypeOK, CallsRight, Settling, [Next]_vars PROVE Settling'
    OBVIOUS
  <2> USE DEF Settling
  <2>1. ASSUME NEW n \in Nodes, NodeChanges(n) PROVE Settling'
    BY <2>1 DEF NodeChanges
  <2>2. CASE ListRoutes
    BY <2>2 DEF ListRoutes, Listed
  <2>3. CASE Reconcile
    <3>1. /\ listed = table /\ Wanted' = Wanted /\ table' = table /\ pc' = "calling"
          /\ toCreate' = Wanted \ listed
          /\ toDelete' = {r \in listed : r \notin Foreign} \ Wanted
      BY <2>3 DEF Reconcile, Wanted, Responsible
    <3> QED
      BY <3>1
  <2>4. ASSUME NEW r \in Route \cup Foreign, CreateRoute(r) PROVE Settling'
    <3>1. Wanted' = Wanted /\ UNCHANGED <<pc, listed, toDelete>> /\ pc = "calling"
      BY <2>4 DEF CreateRoute, Wanted, CallsRight
    <3>2. \/ table' = table /\ ~clean'
          \/ table' = table \cup {r} /\ clean' = clean /\ r \in toCreate
             /\ toCreate' = toCreate \ {r}
      BY <2>4 DEF CreateRoute
    <3> QED
      BY <3>1, <3>2
  <2>5. ASSUME NEW r \in Route \cup Foreign, DeleteRoute(r) PROVE Settling'
    <3>1. /\ Wanted' = Wanted /\ UNCHANGED <<pc, listed, toCreate>> /\ pc = "calling"
          /\ r \in toDelete /\ r \notin Foreign
      BY <2>5 DEF DeleteRoute, Wanted, CallsRight
    <3>2. \/ table' = table /\ ~clean'
          \/ table' = table \ {r} /\ clean' = clean /\ toDelete' = toDelete \ {r}
      BY <2>5 DEF DeleteRoute, Deleted
    <3> QED
      BY <3>1, <3>2
  <2>6. CASE RoundEnds
    BY <2>6 DEF RoundEnds
  <2>7. CASE UNCHANGED vars
    BY <2>7 DEF vars, Wanted
  <2> QED
    BY <2>1, <2>2, <2>3, <2>4, <2>5, <2>6, <2>7 DEF Next, Calls
<1> QED
  BY <1>1, <1>2, TypeCorrect, DeletesRight, PTL DEF Spec

\* After however many changes, and calls that failed, one round without any
\* puts the table right.
THEOREM QuietRoundSettles == Spec => []RoundSettles
<1>1. Settling => RoundSettles
  BY DEF Settling, RoundSettles
<1> QED
  BY <1>1, AlwaysSettling, PTL
=============================================================================
