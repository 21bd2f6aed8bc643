------------------------------ MODULE Topology ------------------------------
(***************************************************************************)
(* topology/topology_collector.py: the services that run, the edges        *)
(* between them, and what is published of both every ten seconds.          *)
(*                                                                         *)
(* One asyncio loop runs the collector and the endpoints, and none of them *)
(* awaits in the middle: each is one step.  Docker and Redis may fail to   *)
(* answer in any step.  Rows of topology_snapshots are written for people  *)
(* to read, and left out.                                                  *)
(***************************************************************************)
EXTENDS Drift, Integers

CONSTANTS
  Nodes,        \* services of the Compose file
  StaticEdges,  \* STATIC_EDGES
  Deployed,     \* those of them that stop and start
  Traffic,      \* calls between services that the engine may report
  EdgeTtl,      \* OBSERVED_EDGE_TTL, in rounds of the collector
  MaxTopoClock, \* bound: rounds of the clock
  MaxOutages    \* bound: restarts, and rounds in which Redis does not answer

ASSUME TopologyAssumption ==
  /\ StaticEdges \subseteq Nodes \X Nodes /\ IsFiniteSet(StaticEdges)
  /\ Traffic \subseteq Nodes \X Nodes /\ Deployed \subseteq Nodes
  /\ {EdgeTtl, MaxTopoClock, MaxOutages} \subseteq Nat
  /\ NoBaseline \notin [services : SUBSET Nodes, edges : SUBSET (Nodes \X Nodes)]

VARIABLES
  topoClock,
  running,      \* containers that Docker would list
  serviceMap,   \* _service_map: names of the services last collected
  graphEdges,   \* _graph_edges: in the order of insertion
  observed,     \* _observed_edges: edge -> when it was last seen
  anchored,     \* history: the neighbours of each service of the baseline when it came into it
  signalled,    \* history: services that critical security events named since then
  outages

topoVars == <<topoClock, running, serviceMap, graphEdges, observed, anchored, signalled, outages, driftVars>>

Anchors(sig) == IF sig = NoBaseline THEN <<>> ELSE [s \in sig.services |-> Neighbours(sig, s)]

SomeOrder(edges) == CHOOSE s \in [1..Cardinality(edges) -> edges] : \A e \in edges : \E n \in DOMAIN s : s[n] = e

EdgesOf(s) == {s[n] : n \in DOMAIN s}

TopoInit ==
  /\ topoClock = 0 /\ running = Nodes
  /\ serviceMap = {} /\ graphEdges = SomeOrder(StaticEdges) /\ observed = <<>>
  /\ anchored = <<>> /\ signalled = {} /\ outages = 0
  /\ DriftInit

TopoTick ==
  /\ topoClock < MaxTopoClock /\ topoClock' = topoClock + 1
  /\ UNCHANGED <<running, serviceMap, graphEdges, observed, anchored, signalled, outages, driftVars>>

\* A container starts or stops.
Deploy(s) ==
  /\ running' = IF s \in running THEN running \ {s} ELSE running \cup {s}
  /\ UNCHANGED <<topoClock, serviceMap, graphEdges, observed, anchored, signalled, outages, driftVars>>

-----------------------------------------------------------------------------

Among(services, edges) == {e \in edges : e[1] \in services /\ e[2] \in services}

\* A call from a service to itself is no edge.
RecordObservedEdge(s, t) ==
  [e \in DOMAIN observed \cup ({<<s, t>>} \ {<<s, s>>}) |-> IF e = <<s, t>> THEN topoClock ELSE observed[e]]

\* POST /topology/edge
AddObservedEdge(s, t) ==
  /\ observed' = RecordObservedEdge(s, t)
  /\ UNCHANGED <<topoClock, running, serviceMap, graphEdges, anchored, signalled, outages, driftVars>>

\* _prune_stale_observed_edges
Live == {e \in DOMAIN observed : topoClock - observed[e] <= EdgeTtl}

\* Mutant: known edges are appended again.
NewEdgesAgain(fresh) == Among(fresh, Live)

\* _merge_observed_into_graph: in the order in which they were first observed.
NewEdges(fresh) == Among(fresh, Live) \ EdgesOf(graphEdges)

\* _collect_topology: the containers that run, under the names of their services;
\* addresses and the colours of their risk are left out.
Collected == running

\* _publish_drift_as_security_event
Level(severity) == CASE severity = "info" -> "low" [] severity = "warn" -> "high" [] severity = "critical" -> "critical"
SecurityEvent(e) == [type |-> e.kind, level |-> Level(e.severity), service |-> e.target]

Signals(events) == {x \in {SecurityEvent(e) : e \in events} : x.level = "critical"}

\* One round of _collector_loop.  Nothing happens when Docker lists nothing or
\* does not answer.
CollectTopology(redisUp) ==
  /\ Collected # {}
  /\ outages + (IF redisUp THEN 0 ELSE 1) <= MaxOutages
  /\ outages' = outages + (IF redisUp THEN 0 ELSE 1)
  /\ serviceMap' = Collected
  /\ observed' = [e \in Live |-> observed[e]]
  /\ graphEdges' = graphEdges \o SomeOrder(NewEdges(Collected))
  /\ LET sig == Fingerprint(Collected, Among(Collected, EdgesOf(graphEdges')))
     IN  /\ Observe(sig, redisUp)
         /\ signalled' = IF redisUp THEN signalled \cup {x.service : x \in Signals(Observed(sig))} ELSE signalled
         /\ anchored' = [s \in baseline'.services |->
              IF s \in DOMAIN anchored THEN anchored[s] ELSE Neighbours(baseline', s)]
  /\ UNCHANGED <<topoClock, running>>

\* GET /topology/graph: what the engine and the dashboard see; the engine takes
\* a 503 for everything being reachable.  Neither reads anything into the order.
Graph == [nodes |-> serviceMap, edges |-> Among(serviceMap, EdgesOf(graphEdges))]

AcceptDrift(redisUp) ==
  /\ outages + (IF redisUp THEN 0 ELSE 1) <= MaxOutages
  /\ outages' = outages + (IF redisUp THEN 0 ELSE 1)
  /\ ResetDrift(redisUp) /\ anchored' = <<>> /\ signalled' = {}
  /\ UNCHANGED <<topoClock, running, serviceMap, graphEdges, observed>>

\* GET /topology/signature
Signature == Fingerprint(serviceMap, Among(serviceMap, EdgesOf(graphEdges)))

\* The collector restarts: what it observed is forgotten, the baseline is not.
RestartCollector(redisUp) ==
  /\ outages < MaxOutages /\ outages' = outages + 1
  /\ serviceMap' = {} /\ graphEdges' = SomeOrder(StaticEdges) /\ observed' = <<>>
  /\ LoadBaseline(redisUp) /\ anchored' = Anchors(baseline') /\ UNCHANGED signalled
  /\ UNCHANGED <<topoClock, running>>

TopoNext ==
  \/ TopoTick
  \/ \E s \in Deployed : Deploy(s)
  \/ \E e \in Traffic : AddObservedEdge(e[1], e[2])
  \/ \E redisUp \in BOOLEAN :
       \/ CollectTopology(redisUp) \/ AcceptDrift(redisUp) \/ RestartCollector(redisUp)

TopoSpec == TopoInit /\ [][TopoNext]_topoVars

-----------------------------------------------------------------------------
(* Properties *)

\* The graph shows every edge once, only edges between services it shows, and
\* never loses a static one.
GraphIsClean ==
  /\ \A m, n \in DOMAIN graphEdges : graphEdges[m] = graphEdges[n] => m = n
  /\ StaticEdges \subseteq EdgesOf(graphEdges)
  /\ Graph.edges \subseteq Graph.nodes \X Graph.nodes

\* "critical drifts are kept against the old baseline so the next observe() still
\* flags them until an analyst clears them": however small the steps in which a
\* service is rewired, the baseline never creeps after them; each service in it
\* has the neighbours it had when it came into it, and one that has others now was
\* named in a critical security event, unless Redis or the collector was away.
BaselineDoesNotCreep ==
  baseline # NoBaseline => \A s \in baseline.services :
    /\ Neighbours(baseline, s) = anchored[s]
    /\ s \in serviceMap /\ Neighbours(Signature, s) # anchored[s] => s \in signalled \/ outages > 0
=============================================================================
