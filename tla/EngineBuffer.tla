---------------------------- MODULE EngineBuffer ----------------------------
(***************************************************************************)
(* The event buffers of the correlation engine and the lock in front of    *)
(* them (backend/engine/correlation/correlation_engine.py): the workers in *)
(* process_event, the summary and commentary loops, and the requests       *)
(* /engine/clear-buffer and /engine/reset.  buffer_lock is a               *)
(* threading.Lock: a thread that holds it cannot take it again.            *)
(***************************************************************************)
EXTENDS Naturals

CONSTANTS
  Workers,    \* threads in process_event
  Loops,      \* publish_summary_loop and ai_commentary_loop
  Requests,   \* requests to clear or reset
  Keys,       \* correlation keys
  None,       \* no holder of the lock; no event
  Window,     \* CORRELATION_WINDOW, in ticks
  MaxTime,    \* bound: clock ticks
  MaxEvents   \* bound: events processed

VARIABLES
  clock,
  lock,        \* who holds buffer_lock
  pc,          \* what each thread is about to do
  event,       \* the event of each worker
  partitions,  \* event_buffers
  merged,      \* event_buffer, the merged view
  arrived,     \* events taken from the bus
  correlated   \* events that went through every rule

vars == <<clock, lock, pc, event, partitions, merged, arrived, correlated>>

Threads == Workers \cup Loops \cup Requests

Init ==
  /\ clock = 0
  /\ lock = None
  /\ pc = [t \in Threads |-> "idle"]
  /\ event = [w \in Workers |-> None]
  /\ partitions = [k \in Keys |-> {}]
  /\ merged = {}
  /\ arrived = 0
  /\ correlated = {}

Goto(t, label) == pc' = [pc EXCEPT ![t] = label]

Tick ==
  /\ clock < MaxTime /\ clock' = clock + 1
  /\ UNCHANGED <<lock, pc, event, partitions, merged, arrived, correlated>>

-----------------------------------------------------------------------------
(* process_event *)

\* A timestamp with an offset cannot be compared with datetime.now().
Take(w, k, offset) ==
  /\ pc[w] = "idle" /\ arrived < MaxEvents
  /\ arrived' = arrived + 1
  /\ event' = [event EXCEPT ![w] = [id |-> arrived + 1, key |-> k, time |-> clock, offset |-> offset]]
  /\ Goto(w, "buffer")
  /\ UNCHANGED <<clock, lock, partitions, merged, correlated>>

\* with self.buffer_lock: the event joins its partition.
Buffer(w) ==
  /\ pc[w] = "buffer" /\ lock = None
  /\ lock' = w
  /\ partitions' = [partitions EXCEPT ![event[w].key] = @ \cup {event[w]}]
  /\ Goto(w, "prune")
  /\ UNCHANGED <<clock, event, merged, arrived, correlated>>

Recent(S) == {e \in S : e.time + Window > clock}

\* _prune_buffers, partition by partition; the first timestamp with an offset
\* raises, which leaves the later partitions alone and the lock released.
Prune(w) ==
  /\ pc[w] = "prune"
  /\ LET bad == {k \in Keys : \E e \in partitions[k] : e.offset}
     IN  \/ /\ bad = {}
            /\ partitions' = [k \in Keys |-> Recent(partitions[k])]
            /\ Goto(w, "merge") /\ UNCHANGED lock
         \/ /\ bad # {}
            /\ \E visited \in SUBSET (Keys \ bad) :
                 partitions' = [k \in Keys |-> IF k \in visited THEN Recent(partitions[k])
                                               ELSE partitions[k]]
            /\ lock' = None /\ Goto(w, "idle")
  /\ UNCHANGED <<clock, event, merged, arrived, correlated>>

\* The last line of _prune_buffers calls _merged_buffer, which takes the lock.
Merge(w) ==
  /\ pc[w] = "merge" /\ lock = None
  /\ merged' = UNION {partitions[k] : k \in Keys}
  /\ Goto(w, "leave")
  /\ UNCHANGED <<clock, lock, event, partitions, arrived, correlated>>

Leave(w) ==
  /\ pc[w] = "leave"
  /\ lock' = None
  /\ Goto(w, "rules")
  /\ UNCHANGED <<clock, event, partitions, merged, arrived, correlated>>

\* The rules; rule_distributed_attack reads the merged buffer under the lock.
Rules(w) ==
  /\ pc[w] = "rules" /\ lock = None
  /\ correlated' = correlated \cup {event[w].id}
  /\ Goto(w, "idle")
  /\ UNCHANGED <<clock, lock, event, partitions, merged, arrived>>

Work(w) == Buffer(w) \/ Prune(w) \/ Merge(w) \/ Leave(w) \/ Rules(w)

-----------------------------------------------------------------------------
(* The loops read the merged view under the lock; the requests empty it and  *)
(* leave the partitions.                                                     *)

Wake(t) ==
  /\ t \notin Workers /\ pc[t] = "idle"
  /\ Goto(t, "locking")
  /\ UNCHANGED <<clock, lock, event, partitions, merged, arrived, correlated>>

Locked(t) ==
  /\ pc[t] = "locking" /\ lock = None
  /\ merged' = IF t \in Requests THEN {} ELSE merged
  /\ Goto(t, IF t \in Requests THEN "answered" ELSE "idle")
  /\ UNCHANGED <<clock, lock, event, partitions, arrived, correlated>>

Next ==
  \/ Tick
  \/ \E w \in Workers, k \in Keys, offset \in BOOLEAN : Take(w, k, offset)
  \/ \E w \in Workers : Work(w)
  \/ \E t \in Loops \cup Requests : Wake(t) \/ Locked(t)

\* Every thread runs on, and a lock that keeps being released is obtained.
FairSpec ==
  /\ Init /\ [][Next]_vars
  /\ \A w \in Workers : SF_vars(Work(w))
  /\ \A t \in Loops \cup Requests : SF_vars(Locked(t))

-----------------------------------------------------------------------------
\* process_event brings every buffered event to the rules ("partition buffer,
\* rules, create_incident"), or raises.
BufferedIsCorrelated == \A w \in Workers : pc[w] = "buffer" ~> pc[w] \in {"rules", "idle"}
=============================================================================
