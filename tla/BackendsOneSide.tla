-------------------------- MODULE BackendsOneSide --------------------------
(***************************************************************************)
(* Backends where either the node ports of the Service change, or its      *)
(* nodes and their machines do, never both.  Worker and node sync may      *)
(* disturb each other for good when both change (see the README); this is  *)
(* about what each of them achieves by itself.                             *)
(***************************************************************************)
EXTENDS Backends

VARIABLE changing       \* which of the two changes

OneSide ==
    /\ changing' = changing
    /\ nodePort' # nodePort => changing = "ports"
    /\ <<nodes, gen, gone>>' # <<nodes, gen, gone>> => changing = "nodes"

OneSideSpec ==
    /\ Init /\ changing \in {"ports", "nodes"}
    /\ [][Next /\ OneSide]_<<vars, changing>>
    /\ Fairness

-----------------------------------------------------------------------------
\* What carries the proof of RestsInStep.  One caller does all the work, for
\* the nodes of the last round, and nobody runs beside it; a caller that is
\* through with its lookup wants a machine at each of its nodes, and has each
\* wanted machine that is none any more on its list to the end.

Runner == IF changing = "ports" THEN "worker" ELSE "nodeSync"

\* Has it something to do yet?
Due == IF changing = "ports" THEN queued ELSE retry # {}

\* The listeners forward to the machines at the nodes of the last round.
KnownServed == targets = TargetsOf({m \in Machine : m.node \in known /\ Living(m)}, nodePort)

WantsEachNode(c) ==
    /\ \A t \in wanted[c] : /\ t.node \in seenNodes[c]
                           /\ \E ports \in seenPorts[c] : t.nodePort = ports[t.port]
    /\ \A n \in seenNodes[c], p \in Ports, ports \in seenPorts[c] :
          \E t \in wanted[c] : t.port = p /\ t.node = n /\ t.nodePort = ports[p]

DeadStay(c) == \A t \in wanted[c] : Living(t) \/ t \in add[c]

OneSided ==
    /\ changing \in {"ports", "nodes"}
    /\ (nodes \cup known) \cap gone = {}
    /\ \A c \in Callers \ {Runner} : step[c] = "idle"
    /\ IF changing = "ports"
         THEN nodes = known /\ retry = {}
         ELSE ~queued /\ cached = {nodePort} /\ retry \subseteq {nodePort}
    /\ IF step[Runner] = "idle"
         THEN Due \/ KnownServed
         ELSE /\ Runner \in alone /\ seenNodes[Runner] = known
              /\ seenPorts[Runner] = {nodePort} \/ (changing = "ports" /\ queued)
    /\ step[Runner] \in {"describe", "apply", "wait", "done"} => WantsEachNode(Runner)
    /\ step[Runner] \in {"apply", "wait", "done"} => DeadStay(Runner)
=============================================================================
