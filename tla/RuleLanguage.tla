---------------------------- MODULE RuleLanguage ----------------------------
(***************************************************************************)
(* The rules that operators write in YAML (rules/dsl.py): a sequence of    *)
(* stages that events of one service must match one after the other, the   *)
(* newest event the last stage.                                            *)
(*                                                                         *)
(* A specification of "match" is kept in disjunctive form: a set of        *)
(* clauses, each a function from fields to the values it takes ("any",     *)
(* "all" and a value for a one-element list reduce to this).  The field    *)
(* that joins the events is src (source_service_name), the default of      *)
(* "same" and the key of every rule in rules/builtin.                      *)
(***************************************************************************)
EXTENDS Integers, SequencesExt

CONSTANT NoLimit   \* a stage without within_seconds, and a field that is missing

DefaultWindow == 900

\* What a file says: its name, the window and the stages; NoLimit is what it leaves
\* out.  A file that is not a mapping has no name.  A stage without "match" takes any
\* event: its only clause asks nothing.
AnyEvent == {[f \in {} |-> {}]}

\* Rule.from_dict
FromDict(doc) ==
  [window |-> IF doc.window = NoLimit THEN DefaultWindow ELSE doc.window,
   sequence |-> [n \in DOMAIN doc.sequence |->
     LET stage == doc.sequence[n]
     IN  [stage EXCEPT !.match = IF @ = NoLimit THEN AnyEvent ELSE @]]]

\* load_rules: a file that cannot be read as a rule is skipped.
LoadRules(docs) ==
  LET readable == SelectSeq(docs, LAMBDA doc : doc.name # NoLimit /\ doc.window \in Int \cup {NoLimit})
  IN  [n \in DOMAIN readable |-> FromDict(readable[n])]

-----------------------------------------------------------------------------

Matches(e, spec) == \E clause \in spec : \A f \in DOMAIN clause : e[f] \in clause[f]

\* The code asks whether the number is true: a gap of 0 s is no limit either.
Limited(stage) == stage.within \notin {NoLimit, 0}

\* Mutant: gaps are not limited.
FitsStageAnytime(e, stage, found, new, window) ==
  /\ e # new /\ e.src = new.src
  /\ new.time - e.time \in 0..window
  /\ Matches(e, stage.match)
  /\ found # <<>> => e.time >= Last(found).time

\* May the event be the next stage, after those already matched?
FitsStage(e, stage, found, new, window) ==
  /\ e # new /\ e.src = new.src
  /\ new.time - e.time \in 0..window
  /\ Matches(e, stage.match)
  /\ found # <<>> =>
       /\ e.time >= Last(found).time
       /\ Limited(stage) => e.time - Last(found).time <= stage.within

\* One step back in the sequence: the first event of the buffer that fits.  A
\* stage without one ends the search: none of the stages matched is tried again
\* with another event.
MatchStage(acc, stage, new, buf, window) ==
  LET fit == {n \in DOMAIN buf : FitsStage(buf[n], stage, acc.found, new, window)}
      first == CHOOSE n \in fit : \A m \in fit : n <= m
  IN  IF ~acc.ok \/ fit = {} THEN [acc EXCEPT !.ok = FALSE]
      ELSE [acc EXCEPT !.found = Append(acc.found, buf[first])]

\* Every stage but the last.
EarlierStages(rule, new, buf) ==
  LET upTo[n \in 0..Len(rule.sequence)] ==
        IF n = 0 THEN [ok |-> TRUE, found |-> <<>>]
        ELSE MatchStage(upTo[n - 1], rule.sequence[n], new, buf, rule.window)
  IN  upTo[Len(rule.sequence) - 1]

\* Rule.evaluate: the events of the incident, none if the rule does not fire.
Evaluate(rule, new, buf) ==
  LET earlier == EarlierStages(rule, new, buf)
      last == Last(rule.sequence)
      inTime == Limited(last) /\ earlier.found # <<>> => new.time - Last(earlier.found).time <= last.within
  IN  IF rule.sequence # <<>> /\ new.src # NoLimit /\ Matches(new, Last(rule.sequence).match)
      THEN IF earlier.ok /\ inTime THEN Append(earlier.found, new) ELSE <<>>
      ELSE <<>>

\* _build_incident: which event was which stage, how long it took, and where.
BuildIncident(rule, found) ==
  LET lasted == Last(found).time - Head(found).time
      upTo[n \in 0..Len(found)] ==
        IF n = 0 THEN <<>>
        ELSE IF \E m \in 1..(n - 1) : found[m].src = found[n].src THEN upTo[n - 1] ELSE Append(upTo[n - 1], found[n].src)
  IN  [stages |-> [n \in DOMAIN found |-> <<rule.sequence[n], found[n]>>],
       mttd |-> IF lasted > 0 THEN lasted ELSE 0,
       path |-> upTo[Len(found)]]

-----------------------------------------------------------------------------
(* What a rule says *)

\* Events that are an instance of the rule: one for each stage, of one service,
\* in time order and within the gaps and the window.
Instance(rule, found, new) ==
  /\ found # <<>> /\ Len(found) = Len(rule.sequence) /\ Last(found) = new
  /\ \A n \in DOMAIN found :
       /\ Matches(found[n], rule.sequence[n].match)
       /\ found[n].src = new.src /\ new.time - found[n].time \in 0..rule.window
       /\ n < Len(found) => found[n] # new
       /\ n > 1 => LET gap == found[n].time - found[n - 1].time
                   IN  gap >= 0 /\ (Limited(rule.sequence[n]) => gap <= rule.sequence[n].within)

\* An incident of a rule is an instance of it, in one service and within the window;
\* and of a buffer in time order, a rule that limits no gap misses no instance.  (One
\* that does may: the search keeps the oldest event that fits and looks at no later
\* one.)
RuleIsRight(rule, new, buf) ==
  LET found == Evaluate(rule, new, buf)
      incident == BuildIncident(rule, found)
      inOrder == \A m, n \in DOMAIN buf : m < n => buf[m].time <= buf[n].time
      free == \A n \in DOMAIN rule.sequence : ~Limited(rule.sequence[n])
  IN  /\ found # <<>> =>
           /\ Instance(rule, found, new)
           /\ incident.mttd <= rule.window /\ incident.path = <<new.src>>
           /\ \A n \in DOMAIN incident.stages : Matches(incident.stages[n][2], incident.stages[n][1].match)
      /\ inOrder /\ free /\ found = <<>> =>
           ~\E some \in [DOMAIN rule.sequence -> ToSet(buf) \cup {new}] : Instance(rule, some, new)
=============================================================================
