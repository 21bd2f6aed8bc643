--------------------------- MODULE CampaignMerge ---------------------------
(***************************************************************************)
(* How the campaign aggregator turns an incident into a campaign record    *)
(* and merges further incidents into it: the functions of                  *)
(* campaign_aggregator.py that compute and touch no store.                 *)
(*                                                                         *)
(* An incident is a record of the fields these functions read.  Absent     *)
(* text is None; a kill-chain step has an event id, a time and the stage   *)
(* its tactic belongs to; severities are ranks 0..3; confidences are       *)
(* numbers on any scale.  Techniques stand for every field that is merged  *)
(* as a plain set union (techniques, layers, user names).                  *)
(***************************************************************************)
EXTENDS Naturals, Sequences, SequencesExt

CONSTANTS None,        \* an absent text field
          NoAddress    \* source_ip values that identify nobody

NoActor == <<"none", None>>

\* The first identity that is present, service first.
ResolveActor(inc) ==
  LET identities ==
        << <<"service", inc.service>>, <<"workload", inc.workload>>,
           <<"ip", IF inc.ip \in NoAddress THEN None ELSE inc.ip>>,
           <<"user", inc.user>>, <<"key", inc.key>> >>
      present == {k \in DOMAIN identities : identities[k][2] # None}
  IN  IF present = {} THEN NoActor
      ELSE identities[CHOOSE k \in present : \A j \in present : k <= j]

\* The stages of an incident's steps, or of the incident when no step has one.
StagesOf(inc) ==
  LET ofSteps == {inc.steps[n].stage : n \in DOMAIN inc.steps} \ {None}
  IN  IF ofSteps = {} THEN {inc.stage} \ {None} ELSE ofSteps

\* Mutant: the newest incident's.
MaxSeverityOfLatest(a, b) == b

MaxSeverity(a, b) == IF a >= b THEN a ELSE b

\* A service is appended to the path unless the path already ends with it.
Visit(path, svc) ==
  IF path # <<>> /\ path[Len(path)] = svc THEN path ELSE Append(path, svc)

ExtendPath(path, more) ==
  LET upTo[n \in 0..Len(more)] == IF n = 0 THEN path ELSE Visit(upTo[n - 1], more[n])
  IN  upTo[Len(more)]

\* A step is added unless its event is there already; one without event id is
\* always added.
AddStep(steps, s) ==
  IF s.event # None /\ \E n \in DOMAIN steps : steps[n].event = s.event
  THEN steps ELSE Append(steps, s)

AddSteps(steps, more) ==
  LET upTo[n \in 0..Len(more)] == IF n = 0 THEN steps ELSE AddStep(upTo[n - 1], more[n])
  IN  upTo[Len(more)]

\* A step goes behind the last that is not later, so that inserting one after the
\* other sorts like list.sort.
NotLater(steps, s) == {n \in DOMAIN steps : steps[n].time <= s.time}
InsertByTime(steps, s) == InsertAt(steps, Max({0} \cup NotLater(steps, s)) + 1, s)

SortByTime(steps) ==
  LET upTo[n \in 0..Len(steps)] == IF n = 0 THEN <<>> ELSE InsertByTime(upTo[n - 1], steps[n])
  IN  upTo[Len(steps)]

\* Mutant: the steps are not sorted again.
MergeStepsUnsorted(steps, more) == AddSteps(steps, more)

MergeSteps(steps, more) == SortByTime(AddSteps(steps, more))

\* _create
NewCampaign(cid, inc, now) ==
  [cid |-> cid, actor |-> ResolveActor(inc), ids |-> <<inc.id>>,
   path |-> inc.path, steps |-> inc.steps, techniques |-> inc.techniques,
   stages |-> StagesOf(inc), severity |-> inc.severity,
   confidence |-> inc.confidence, last |-> now,
   status |-> "active", message |-> None]

\* _merge, the record
Merged(c, inc, now) ==
  [c EXCEPT !.ids = Append(@, inc.id),
            !.path = ExtendPath(@, inc.path),
            !.steps = MergeSteps(@, inc.steps),
            !.techniques = @ \cup inc.techniques,
            !.stages = @ \cup StagesOf(inc),
            !.severity = MaxSeverity(@, inc.severity),
            !.confidence = MaxSeverity(@, inc.confidence),
            !.last = now]

\* _merge, the kind of change
ChangeKind(c, inc) ==
  IF inc.severity > c.severity \/ ~(StagesOf(inc) \subseteq c.stages)
  THEN "escalated" ELSE "extended"

Lists(c, i) == \E n \in DOMAIN c.ids : c.ids[n] = i
=============================================================================
