------------------------------ MODULE Delivery ------------------------------
(***************************************************************************)
(* What the consumer group promises of each stream entry, whoever handles  *)
(* it and however often the engine restarts: an entry is handed out once,  *)
(* in stream order or never; it is settled only after its callback         *)
(* returned (or because it cannot be read), and a settled entry never      *)
(* comes back.  A held entry may stay held for ever.                       *)
(***************************************************************************)
EXTENDS Naturals

CONSTANTS Ids,    \* stream ids, in order
          Kinds   \* what an entry may contain; "event" is a readable event

VARIABLES status,  \* where each entry is
          kind,    \* what it contains
          done     \* how many times its callback has returned

vars == <<status, kind, done>>

Statuses == {"absent", "queued", "held", "settled", "dropped"}

Init ==
  /\ status = [i \in Ids |-> "absent"]
  /\ kind = [i \in Ids |-> "none"]
  /\ done = [i \in Ids |-> 0]

\* The status of the entries of S becomes s.
Become(S, s) == [i \in Ids |-> IF i \in S THEN s ELSE status[i]]

All(S, s) == \A i \in S : status[i] = s

\* A new entry is appended; trimming may drop the oldest unread ones.
Publish(i, k, lost) ==
  /\ status[i] = "absent"
  /\ All(lost, "queued")
  /\ kind' = [kind EXCEPT ![i] = k]
  /\ status' = [Become(lost, "dropped") EXCEPT ![i] = "queued"]
  /\ UNCHANGED done

\* The group starts after these entries.
Skip(lost) ==
  /\ All(lost, "queued")
  /\ status' = Become(lost, "dropped")
  /\ UNCHANGED <<kind, done>>

\* A batch is handed to one consumer; nothing older is still queued.
Take(batch) ==
  /\ All(batch, "queued")
  /\ \A i \in batch, j \in Ids : status[j] = "queued" /\ j < i => j \in batch
  /\ status' = Become(batch, "held")
  /\ UNCHANGED <<kind, done>>

\* The callback returned for a held entry.
Complete(i) ==
  /\ status[i] = "held" /\ kind[i] = "event"
  /\ done' = [done EXCEPT ![i] = @ + 1]
  /\ UNCHANGED <<status, kind>>

Settle(i) ==
  /\ status[i] = "held"
  /\ kind[i] = "event" => done[i] > 0
  /\ status' = [status EXCEPT ![i] = "settled"]
  /\ UNCHANGED <<kind, done>>

Next ==
  \/ \E i \in Ids, k \in Kinds, lost \in SUBSET Ids : Publish(i, k, lost)
  \/ \E S \in SUBSET Ids : Skip(S) \/ Take(S)
  \/ \E i \in Ids : Complete(i) \/ Settle(i)

Spec == Init /\ [][Next]_vars
=============================================================================
