---------------------------- MODULE Completeness ----------------------------
(***************************************************************************)
(* evaluation/metrics/completeness.py: how much of an attack a kill chain  *)
(* tells.  Each step of the ground truth takes the first step of the       *)
(* chain that fits and that no other has taken.                            *)
(*                                                                         *)
(* A step is [type, source, destination, stage, time]; what a step does    *)
(* not say is Unsaid and fits everything.                                  *)
(***************************************************************************)
EXTENDS Integers, Sequences, FiniteSets, FiniteSetsExt, Functions

CONSTANTS Unsaid, Tolerance

-----------------------------------------------------------------------------

Agree(x, y) == x = Unsaid \/ y = Unsaid \/ x = y

\* _service_path and _paths_match: the first name a step gives for where it came
\* from is its source.  The scenarios never give two.
PathsMatch(e, a) == Agree(e.source, a.source) /\ Agree(e.destination, a.destination)

InTolerance(e, a) ==
  e.time # Unsaid /\ a.time # Unsaid => a.time - e.time <= Tolerance /\ e.time - a.time <= Tolerance

Relaxed(e, a) == Agree(e.type, a.type) /\ PathsMatch(e, a) /\ Agree(e.stage, a.stage)
EventsEquivalent(e, a) == Relaxed(e, a) /\ InTolerance(e, a)

Unused(actual, used) == DOMAIN actual \ used

\* _find_match.  A step that fits but for its time is taken all the same.
Fitting(e, actual, used) ==
  {n \in Unused(actual, used) : EventsEquivalent(e, actual[n]) \/ Relaxed(e, actual[n])}

\* reconstruct_chain_log, and the loop of evaluate_completeness: which step of the
\* chain each expected one takes, 0 for none.
ChainLog(actual, expected) ==
  LET after[k \in 0..Len(expected)] ==
        IF k = 0 THEN <<>>
        ELSE LET fits == Fitting(expected[k], actual, Range(after[k - 1]))
             IN  Append(after[k - 1], IF fits = {} THEN 0 ELSE Min(fits))
  IN  after[Len(expected)]

\* evaluate_completeness: <<hits, of how many>>.
EvaluateCompleteness(actual, expected) ==
  IF expected = <<>> THEN <<IF actual = <<>> THEN 1 ELSE 0, 1>>
  ELSE <<Cardinality({k \in DOMAIN expected : ChainLog(actual, expected)[k] # 0}), Len(expected)>>

-----------------------------------------------------------------------------
(* Property *)

Pairings(actual, expected) ==
  {m \in [DOMAIN expected -> {0} \cup DOMAIN actual] :
     /\ \A k \in DOMAIN expected : m[k] # 0 => Relaxed(expected[k], actual[m[k]])
     /\ \A j, k \in DOMAIN expected : m[j] = m[k] /\ m[j] # 0 => j = k}

Hits(pairing) == Cardinality({k \in DOMAIN pairing : pairing[k] # 0})

\* Steps of the built-in rules name their service and no stage, those of the YAML
\* rules the stage and no service.
OneKind(steps) == \A m, n \in DOMAIN steps : (steps[m].stage = Unsaid) = (steps[n].stage = Unsaid)

\* The ground truth names type, services and stage.  Of chains of one kind of rules the
\* greedy choice is the best there is: no other pairing finds more of the attack,
\* whatever the order of the steps, so the score compares correlation modes and not
\* the order of events.  Where chains of both kinds are merged, it depends on the
\* order, but half of what there is to be found is always found.
ScoreIsFair(actual, expected) ==
  expected # <<>> =>
    LET hits == EvaluateCompleteness(actual, expected)[1]
        best == Max({Hits(m) : m \in Pairings(actual, expected)})
    IN  /\ OneKind(actual) => hits = best
        /\ 2 * hits >= best
=============================================================================
