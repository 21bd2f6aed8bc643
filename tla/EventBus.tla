------------------------------ MODULE EventBus ------------------------------
(***************************************************************************)
(* The Redis stream securisphere:events, its consumer group "correlation"  *)
(* and the worker threads of the correlation engine that read it           *)
(* (backend/engine/correlation/event_bus.py, and the part of               *)
(* correlation_engine.py that starts the workers).                         *)
(*                                                                         *)
(* The stream keeps the entries trimmed+1..added.  The group remembers the *)
(* last id it handed out and, per consumer NAME, the entries handed out    *)
(* and not acknowledged.  The engine process crashes and is started again  *)
(* by the container runtime; a worker reclaims what is pending under its   *)
(* own name, then reads new entries.                                       *)
(***************************************************************************)
EXTENDS Integers, FiniteSets

CONSTANTS
  Workers,       \* worker threads of the engine, CORRELATION_WORKERS of them
  StableNames,   \* the workers whose consumer name survives a restart
  BatchSize,     \* batch_size of consume
  ReclaimLimit,  \* count of xpending_range in _reclaim_pending
  MaxLen,        \* MAX_STREAM_LEN
  MaxEvents,     \* bound: entries ever published
  MaxBoots,      \* bound: starts of the engine process
  RedisFaults    \* may a Redis call of a worker raise?

ASSUME BusAssumption ==
  /\ StableNames \subseteq Workers
  /\ BatchSize \in Nat \ {0} /\ ReclaimLimit \in Nat \ {0} /\ MaxLen \in Nat \ {0}
  /\ MaxEvents \in Nat /\ MaxBoots \in Nat
  /\ RedisFaults \in BOOLEAN

Ids == 1..MaxEvents

\* "event": a JSON payload; "garbage": a payload json.loads rejects;
\* "empty": an entry with no payload field.
Kinds == {"event", "garbage", "empty"}

Names == Workers \X (0..MaxBoots)

VARIABLES
  added,        \* id of the newest entry
  kind,         \* what each entry contains
  trimmed,      \* entries up to this id are gone from the stream
  group,        \* does the consumer group exist?
  delivered,    \* the group's last-delivered id
  given,        \* entries the group ever handed out
  pel,          \* pending entries list: consumer name -> entries
  up,           \* is the engine process running?
  incarnation,  \* how often it was started
  pc,           \* what each worker thread is doing
  todo,         \* entries a worker fetched and has still to go through
  ackDue,       \* workers whose callback returned and whose XACK is next
  done,         \* how often the callback returned, per entry
  raised        \* entries whose callback raised at least once

streamVars == <<added, kind, trimmed>>
groupVars  == <<group, delivered, given>>
procVars   == <<up, incarnation>>
workVars   == <<pc, todo, ackDue>>
logVars    == <<done, raised>>
vars == <<streamVars, groupVars, pel, procVars, workVars, logVars>>

-----------------------------------------------------------------------------
(* Helpers *)

\* Mutant: engine-<pid> without the worker's index.
NameOfPid(w) == <<CHOOSE v \in Workers : TRUE, 0>>

\* Worker 0 uses the engine's first bus, whose default name holds a random
\* suffix; the others are engine-<pid>-<i>, and the pid is 1 in the container.
Name(w) == <<w, IF w \in StableNames THEN 0 ELSE incarnation>>

Pending(i) == \E n \in Names : i \in pel[n]

\* XACK removes an entry from the group's list, whoever holds it.
Acked(i) == [n \in Names |-> pel[n] \ {i}]

\* The n smallest members of a set of ids.
FirstN(S, n) == {i \in S : Cardinality({j \in S : j < i}) < n}

\* A worker goes through what it fetched in ascending order.
Current(w, i) == i \in todo[w] /\ \A j \in todo[w] : i <= j

\* Worker w is about to handle entry i.
Facing(w, i) == Current(w, i) /\ w \notin ackDue /\ pc[w] \in {"retry", "read"}

\* The entry's fields are at hand: they came with the reply of XREADGROUP, or
\* XRANGE still finds the entry.
Readable(w, i) == pc[w] = "read" \/ i > trimmed

PassOver(w, i) == todo' = [todo EXCEPT ![w] = @ \ {i}]

Larger(a, b) == IF a >= b THEN a ELSE b

-----------------------------------------------------------------------------
Init ==
  /\ added = 0 /\ kind = [i \in Ids |-> "none"] /\ trimmed = 0
  /\ group = FALSE /\ delivered = 0 /\ given = {}
  /\ pel = [n \in Names |-> {}]
  /\ up = FALSE /\ incarnation = 0
  /\ pc = [w \in Workers |-> "down"]
  /\ todo = [w \in Workers |-> {}]
  /\ ackDue = {}
  /\ done = [i \in Ids |-> 0]
  /\ raised = {}

\* XADD with an approximate MAXLEN: Redis may trim down to MaxLen, or less far.
Publish(k) ==
  /\ added < MaxEvents
  /\ added' = added + 1
  /\ kind' = [kind EXCEPT ![added + 1] = k]
  /\ trimmed' \in trimmed .. Larger(trimmed, added + 1 - MaxLen)
  /\ UNCHANGED <<groupVars, pel, procVars, workVars, logVars>>

\* Mutants: the group starts past the newest entry; the group is made anew,
\* from the oldest entry, at every start.
BootPastNewest ==
  /\ ~up /\ incarnation < MaxBoots
  /\ up' = TRUE /\ incarnation' = incarnation + 1
  /\ group' = TRUE
  /\ delivered' = IF group THEN delivered ELSE added + 1
  /\ pc' = [w \in Workers |-> "claim"]
  /\ UNCHANGED <<streamVars, given, pel, todo, ackDue, logVars>>

BootFromOldest ==
  /\ ~up /\ incarnation < MaxBoots
  /\ up' = TRUE /\ incarnation' = incarnation + 1
  /\ group' = TRUE /\ delivered' = 0
  /\ pc' = [w \in Workers |-> "claim"]
  /\ UNCHANGED <<streamVars, given, pel, todo, ackDue, logVars>>

\* The engine process starts: the group is created after the newest entry
\* unless it exists, and every worker thread enters consume.
Boot ==
  /\ ~up /\ incarnation < MaxBoots
  /\ up' = TRUE /\ incarnation' = incarnation + 1
  /\ group' = TRUE
  /\ delivered' = IF group THEN delivered ELSE added
  /\ pc' = [w \in Workers |-> "claim"]
  /\ UNCHANGED <<streamVars, given, pel, todo, ackDue, logVars>>

\* The process dies with all its threads; it will be started again.
Crash ==
  /\ up /\ incarnation < MaxBoots
  /\ up' = FALSE
  /\ pc' = [w \in Workers |-> "down"]
  /\ todo' = [w \in Workers |-> {}]
  /\ ackDue' = {}
  /\ UNCHANGED <<streamVars, groupVars, pel, incarnation, logVars>>

\* Mutant: the newest pending entries instead of the oldest.
LastN(S, n) == {i \in S : Cardinality({j \in S : j > i}) < n}

ClaimNewest(w) ==
  /\ pc[w] = "claim"
  /\ \/ /\ todo' = [todo EXCEPT ![w] = LastN(pel[Name(w)], ReclaimLimit)]
        /\ pc' = [pc EXCEPT ![w] = "retry"]
     \/ /\ RedisFaults
        /\ pc' = [pc EXCEPT ![w] = "read"]
        /\ UNCHANGED todo
  /\ UNCHANGED <<streamVars, groupVars, pel, procVars, ackDue, logVars>>

\* XPENDING for this consumer's name; an error gives the reclaim up.
ClaimPending(w) ==
  /\ pc[w] = "claim"
  /\ \/ /\ todo' = [todo EXCEPT ![w] = FirstN(pel[Name(w)], ReclaimLimit)]
        /\ pc' = [pc EXCEPT ![w] = "retry"]
     \/ /\ RedisFaults
        /\ pc' = [pc EXCEPT ![w] = "read"]
        /\ UNCHANGED todo
  /\ UNCHANGED <<streamVars, groupVars, pel, procVars, ackDue, logVars>>

\* Mutant: reclaim again instead of reading.
RetryAgain(w) ==
  /\ pc[w] = "retry" /\ todo[w] = {}
  /\ pc' = [pc EXCEPT ![w] = IF pel[Name(w)] = {} THEN "read" ELSE "claim"]
  /\ UNCHANGED <<streamVars, groupVars, pel, procVars, todo, ackDue, logVars>>

RetryDone(w) ==
  /\ pc[w] = "retry" /\ todo[w] = {}
  /\ pc' = [pc EXCEPT ![w] = "read"]
  /\ UNCHANGED <<streamVars, groupVars, pel, procVars, todo, ackDue, logVars>>

\* Entries never handed to the group, still in the stream.
Fresh == {i \in Ids : delivered < i /\ trimmed < i /\ i <= added}

\* XREADGROUP ">": the oldest fresh entries become pending under this name.
\* When the reply is lost the worker only sees an error and reads on.
ReadNew(w) ==
  /\ pc[w] = "read" /\ todo[w] = {} /\ Fresh # {}
  /\ LET batch == FirstN(Fresh, BatchSize)
     IN  /\ \E last \in batch : /\ \A i \in batch : i <= last
                                /\ delivered' = last
         /\ given' = given \cup batch
         /\ pel' = [pel EXCEPT ![Name(w)] = @ \cup batch]
         /\ \/ todo' = [todo EXCEPT ![w] = batch]
            \/ RedisFaults /\ UNCHANGED todo
  /\ UNCHANGED <<streamVars, group, procVars, pc, ackDue, logVars>>

\* The callback returns; the acknowledgement is the next call.
CallbackReturns(w, i) ==
  /\ Facing(w, i) /\ Readable(w, i) /\ kind[i] = "event"
  /\ done' = [done EXCEPT ![i] = @ + 1]
  /\ ackDue' = ackDue \cup {w}
  /\ UNCHANGED <<streamVars, groupVars, pel, procVars, pc, todo, raised>>

\* Mutants: the exception ends the thread; acknowledged in a finally clause.
CallbackRaisesAndEnds(w, i) ==
  /\ Facing(w, i) /\ Readable(w, i) /\ kind[i] = "event"
  /\ raised' = raised \cup {i}
  /\ pc' = [pc EXCEPT ![w] = "dead"]
  /\ todo' = [todo EXCEPT ![w] = {}]
  /\ UNCHANGED <<streamVars, groupVars, pel, procVars, ackDue, done>>

CallbackRaisesAndAcks(w, i) ==
  /\ Facing(w, i) /\ Readable(w, i) /\ kind[i] = "event"
  /\ raised' = raised \cup {i}
  /\ pel' = Acked(i)
  /\ PassOver(w, i)
  /\ UNCHANGED <<streamVars, groupVars, procVars, pc, ackDue, done>>

\* The callback raises: the entry stays pending and the worker moves on.
CallbackRaises(w, i) ==
  /\ Facing(w, i) /\ Readable(w, i) /\ kind[i] = "event"
  /\ raised' = raised \cup {i}
  /\ PassOver(w, i)
  /\ UNCHANGED <<streamVars, groupVars, pel, procVars, pc, ackDue, done>>

\* XACK after the callback; when it raises, the entry stays pending.
Ack(w, i) ==
  /\ Current(w, i) /\ w \in ackDue
  /\ ackDue' = ackDue \ {w}
  /\ PassOver(w, i)
  /\ \/ pel' = Acked(i)
     \/ RedisFaults /\ UNCHANGED pel
  /\ UNCHANGED <<streamVars, groupVars, procVars, pc, logVars>>

\* An entry without payload is acknowledged unseen, and so is one whose payload
\* is not JSON when it is read as new.  This XACK is outside the try: when it
\* raises, the worker thread ends.
DiscardMalformed(w, i) ==
  /\ Facing(w, i) /\ Readable(w, i)
  /\ kind[i] = "empty" \/ (kind[i] = "garbage" /\ pc[w] = "read")
  /\ \/ /\ pel' = Acked(i)
        /\ PassOver(w, i)
        /\ UNCHANGED pc
     \/ /\ RedisFaults
        /\ pc' = [pc EXCEPT ![w] = "dead"]
        /\ todo' = [todo EXCEPT ![w] = {}]
        /\ UNCHANGED pel
  /\ UNCHANGED <<streamVars, groupVars, procVars, ackDue, logVars>>

\* While reclaiming, a trimmed entry yields nothing and a payload that is not
\* JSON raises inside the try: both stay pending.  So does an XRANGE error.
SkipReclaimed(w, i) ==
  /\ Facing(w, i) /\ pc[w] = "retry"
  /\ i <= trimmed \/ kind[i] = "garbage" \/ RedisFaults
  /\ PassOver(w, i)
  /\ UNCHANGED <<streamVars, groupVars, pel, procVars, pc, ackDue, logVars>>

Handle(w) ==
  \E i \in Ids : \/ CallbackReturns(w, i) \/ CallbackRaises(w, i) \/ Ack(w, i)
                 \/ DiscardMalformed(w, i) \/ SkipReclaimed(w, i)

Work(w) == ClaimPending(w) \/ RetryDone(w) \/ ReadNew(w) \/ Handle(w)

Next ==
  \/ \E k \in Kinds : Publish(k)
  \/ Boot
  \/ Crash
  \/ \E w \in Workers : Work(w)

Spec == Init /\ [][Next]_vars

\* A started thread keeps running, a callback ends, and the container runtime
\* starts a dead engine again (restart: unless-stopped).
FairSpec == Spec /\ WF_vars(Boot) /\ \A w \in Workers : WF_vars(Work(w))

-----------------------------------------------------------------------------
(* Properties *)

TypeOK ==
  /\ added \in 0..MaxEvents /\ trimmed \in 0..added
  /\ kind \in [Ids -> Kinds \cup {"none"}]
  /\ group \in BOOLEAN /\ delivered \in 0..added /\ given \subseteq Ids
  /\ pel \in [Names -> SUBSET Ids]
  /\ up \in BOOLEAN /\ incarnation \in 0..MaxBoots
  /\ pc \in [Workers -> {"down", "claim", "retry", "read", "dead"}]
  /\ todo \in [Workers -> SUBSET Ids]
  /\ ackDue \subseteq Workers
  /\ done \in [Ids -> Nat]
  /\ raised \subseteq Ids

\* "Acknowledges only after the callback returns without raising": an entry the
\* group handed out and no longer holds was processed, unless it was unreadable.
SettledWasProcessed ==
  \A i \in given : ~Pending(i) => done[i] > 0 \/ kind[i] # "event"

\* Workers of one group never go through the same entry at the same time, and
\* what a worker goes through is pending under its own name.
OneWorkerPerEntry ==
  /\ \A w \in Workers : todo[w] \subseteq pel[Name(w)]
  /\ \A v, w \in Workers : v # w => todo[v] \cap todo[w] = {}

\* Within one run of the engine no entry is processed twice: a second time
\* takes a restart, however many acknowledgements were lost.
RedeliveryNeedsRestart == \A i \in Ids : done[i] <= incarnation

\* The bus keeps the delivery contract.
Status == [i \in Ids |->
  IF i > added THEN "absent"
  ELSE IF i \in given THEN IF Pending(i) THEN "held" ELSE "settled"
  ELSE IF i <= delivered \/ i <= trimmed THEN "dropped"
  ELSE "queued"]

Contract == INSTANCE Delivery WITH status <- Status

DeliveryContract == Contract!Spec

\* Reached an end: the callback returned or raised at least once, or the
\* entry was trimmed away before.
Attended(i) == done[i] > 0 \/ i \in raised \/ i <= trimmed

\* As many older entries are pending under the stable name of w as one start
\* reclaims: entry i is out of its sight.
Crowded(w, i) == Cardinality({j \in pel[<<w, 0>>] : j < i}) >= ReclaimLimit

\* An event pending under a name that survives restarts is attended to, however
\* the crashes fall, if a worker has it in hand or the engine is down and it is
\* among the oldest that one start reclaims (xpending_range, count 64).  Behind
\* more entries than that nothing is promised: those that keep raising stay
\* pending and hide the later ones for good, and an entry passed over at a start
\* waits for the next one.
StableNamesRecover ==
  \A i \in Ids, w \in StableNames :
    (kind[i] = "event" /\ i \in pel[<<w, 0>>] /\ (i \in todo[w] \/ ~up))
    ~> (Attended(i) \/ Crowded(w, i))

\* An entry in the stream is handed out sooner or later, or trimmed, or it was
\* published before the group existed.
QueuedIsTaken ==
  \A i \in Ids : i <= added ~> (i \in given \/ i <= trimmed \/ i <= delivered)

\* "Recovers pending messages on startup so restarts do not lose in-flight
\* events" (consume): every pending event is attended to.
RestartLosesNothing ==
  \A i \in Ids : (kind[i] = "event" /\ Pending(i)) ~> Attended(i)
=============================================================================
