------------------------------- MODULE Drift -------------------------------
(***************************************************************************)
(* topology/drift_detector.py: a rolling baseline of the service graph and *)
(* the drift of each new graph against it.                                 *)
(*                                                                         *)
(* A signature is kept as what it hashes: the services and the edges it    *)
(* was made of.  Hashes of different sets are taken to be different.       *)
(***************************************************************************)
EXTENDS Naturals, FiniteSets, Sequences

CONSTANTS NoBaseline,  \* before the first observation and after a reset
          MaxDrifts    \* topology:drift_events keeps the last 200

VARIABLES baseline,    \* DriftDetector._baseline
          saved,       \* the same under topology:drift:baseline, for the next start
          drifts       \* how many events topology:drift_events holds

driftVars == <<baseline, saved, drifts>>

DriftInit == baseline = NoBaseline /\ saved = NoBaseline /\ drifts = 0

-----------------------------------------------------------------------------

Neighbours(sig, s) ==
  {e[2] : e \in {x \in sig.edges : x[1] = s}} \cup {e[1] : e \in {x \in sig.edges : x[2] = s}}

\* fingerprint
Fingerprint(services, edges) == [services |-> services, edges |-> edges]

Rewired(prev, curr) ==
  {s \in prev.services \cap curr.services : Neighbours(prev, s) # Neighbours(curr, s)}

Event(kind, severity, target) == [kind |-> kind, severity |-> severity, target |-> target]

\* diff
Diff(prev, curr) ==
  {Event("service_added", "warn", s) : s \in curr.services \ prev.services}
  \cup {Event("service_removed", "warn", s) : s \in prev.services \ curr.services}
  \cup (IF prev.edges # curr.edges THEN {Event("edge_set_changed", "info", "*")} ELSE {})
  \cup {Event("neighbour_change", "critical", s) : s \in Rewired(prev, curr)}

Critical(events) == {e \in events : e.severity = "critical"}

\* What observe returns.
Observed(sig) == IF baseline = NoBaseline THEN {} ELSE Diff(baseline, sig)

Kept(n) == IF n > MaxDrifts THEN MaxDrifts ELSE n

\* Mutant: the baseline always follows.
ObserveAndFollow(sig, redisUp) ==
  /\ baseline' = sig
  /\ saved' = IF redisUp THEN sig ELSE saved
  /\ drifts' = IF redisUp THEN Kept(drifts + Cardinality(Observed(sig))) ELSE drifts

\* observe: the baseline follows the graph unless a service was rewired; then it
\* stays until reset.  Without Redis neither the events nor the baseline are kept.
Observe(sig, redisUp) ==
  LET events == Observed(sig)
      follows == Critical(events) = {}
  IN  /\ baseline' = IF follows THEN sig ELSE baseline
      /\ saved' = IF follows /\ redisUp THEN sig ELSE saved
      /\ drifts' = IF redisUp THEN Kept(drifts + Cardinality(events)) ELSE drifts

\* /topology/drift/reset; each deletion is tried on its own.
ResetDrift(redisUp) ==
  /\ baseline' = NoBaseline
  /\ saved' = IF redisUp THEN NoBaseline ELSE saved
  /\ drifts' = IF redisUp THEN 0 ELSE drifts

\* A new process loads what was saved, if Redis answers.
LoadBaseline(redisUp) ==
  /\ baseline' = IF redisUp THEN saved ELSE NoBaseline
  /\ UNCHANGED <<saved, drifts>>
=============================================================================
