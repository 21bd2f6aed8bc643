------------------------------ MODULE KillChain ------------------------------
(***************************************************************************)
(* kill_chain/reconstructor.py: the path of an attack rebuilt from the     *)
(* events of an incident, and the rows of table kill_chains it is kept in. *)
(*                                                                         *)
(* An event has a time (Absent if its timestamp is missing), a place (the  *)
(* service, the target's service or the layer, in that order), a trace and *)
(* bare: its severity is a string, or its target is one and its service is *)
(* not named, which the reconstruction cannot read.                        *)
(***************************************************************************)
EXTENDS Integers, Sequences, SequencesExt

CONSTANTS
  Missing,      \* a field without a value, and the row of an incident that has none
  ChainIds,     \* incidents
  Chains,       \* what an incident's reconstruction may have come to
  Writings      \* narratives, labels, notes and statuses

\* What is stored of an incident: the account comes with a chain.
Row == [chain : Chains, user : {chain.user : chain \in Chains} \cup {Missing},
        narrative : Writings \cup {Missing}, label : Writings \cup {Missing}, status : {"active"}]

ASSUME ChainAssumption == Missing \notin Writings \cup Row

VARIABLE chainRows  \* kill_chains, by incident_id

-----------------------------------------------------------------------------
(* reconstruct *)

Timed(events) == SelectSeq(events, LAMBDA e : e.time # Missing)

\* Mutant: in the order in which they were buffered.
AsBuffered(events) == events

\* Stable: events of the same time keep their order.
Chronological(events) ==
  LET keyed == [n \in DOMAIN events |-> <<events[n].time, n>>]
      before(p, q) == p[1] < q[1] \/ (p[1] = q[1] /\ p[2] < q[2])
      sorted == SetToSortSeq(ToSet(keyed), before)
  IN  [n \in DOMAIN sorted |-> events[sorted[n][2]]]

\* A service is left out where the attack stays on it.
ServicePath(steps) ==
  FoldLeft(LAMBDA path, e : IF path # <<>> /\ Last(path) = e.place THEN path ELSE Append(path, e.place),
           <<>>, steps)

Traces(steps) ==
  FoldLeft(LAMBDA seen, e : IF e.trace = Missing \/ Contains(seen, e.trace) THEN seen ELSE Append(seen, e.trace),
           <<>>, steps)

\* Without an event it can place in time, or with one it cannot read, reconstruction
\* raises; the caller keeps the incident as it was.
Reconstructable(events) == Timed(events) # <<>> /\ \A n \in DOMAIN events : ~events[n].bare

Reconstruct(events, detected) ==
  LET steps == Chronological(Timed(events))
      path == ServicePath(steps)
  IN  [steps |-> steps, path |-> path, traces |-> Traces(steps),
       first |-> Head(path), last |-> Last(path),
       edges |-> [n \in 1..(Len(path) - 1) |-> <<path[n], path[n + 1]>>],
       mttd |-> IF detected > Head(steps).time THEN detected - Head(steps).time ELSE 0]

\* However the events were buffered, the chain is the same but for events of one
\* instant; it never goes back in time, an edge leads from every service to a
\* different one, and detection never precedes the attack.
ChainIsRight(events, detected) ==
  Reconstructable(events) =>
    LET c == Reconstruct(events, detected)
    IN  /\ \A m, n \in DOMAIN c.steps : m < n => c.steps[m].time <= c.steps[n].time
        /\ \A e \in ToSet(Timed(events)) :
             Len(SelectSeq(c.steps, LAMBDA s : s = e)) = Len(SelectSeq(events, LAMBDA s : s = e))
        /\ \A n \in DOMAIN c.edges : c.edges[n][1] # c.edges[n][2]
        /\ ToSet(c.path) = {c.steps[n].place : n \in DOMAIN c.steps}
        /\ \A n \in 1..(Len(c.steps) - 1) : c.steps[n].place # c.steps[n + 1].place =>
             Contains(c.edges, <<c.steps[n].place, c.steps[n + 1].place>>)
        /\ c.mttd >= 0 /\ \A n \in DOMAIN c.steps : c.mttd >= detected - c.steps[n].time

-----------------------------------------------------------------------------
(* The table *)

ChainInit == chainRows = [i \in ChainIds |-> Missing]

NewRow(chain) == [chain |-> chain, user |-> chain.user, narrative |-> Missing, label |-> Missing,
                  status |-> "active"]

\* Mutant: the row is replaced.
PersistChainAnew(i, chain) == chainRows' = [chainRows EXCEPT ![i] = NewRow(chain)]

Restored(row, chain) ==
  [row EXCEPT !.chain = chain, !.user = IF chain.user # Missing THEN chain.user ELSE row.user]

\* persist: an upsert, which leaves what others wrote about the incident.
PersistChain(i, chain) ==
  chainRows' = [chainRows EXCEPT ![i] = IF @ = Missing THEN NewRow(chain) ELSE Restored(@, chain)]

\* update_narrative, from the narration thread, and tag_kill_chain: an UPDATE,
\* which of an incident without a row says it succeeded.
Narrate(i, text) ==
  chainRows' = [chainRows EXCEPT ![i] = IF @ = Missing THEN Missing ELSE [@ EXCEPT !.narrative = text]]

TagChain(i, text) ==
  chainRows' = [chainRows EXCEPT ![i] = IF @ = Missing THEN Missing ELSE [@ EXCEPT !.label = text]]

ChainNext ==
  \E i \in ChainIds :
    \/ \E chain \in Chains : PersistChain(i, chain)
    \/ \E text \in Writings : Narrate(i, text) \/ TagChain(i, text)

\* Once an incident has been persisted, persisting it again, whenever that is,
\* never takes away its narrative, its label or the account that was attacked.
WritingsSurvive ==
  \A i \in ChainIds : chainRows[i] # Missing =>
    /\ chainRows'[i] # Missing
    /\ \A f \in {"narrative", "label", "user"} :
         chainRows[i][f] # Missing => chainRows'[i][f] # Missing

ChainSpec == ChainInit /\ [][ChainNext]_chainRows

\* What analysts and the narrator write into a row stays when the row is stored again.
WritingsStay == [][WritingsSurvive]_chainRows
=============================================================================
