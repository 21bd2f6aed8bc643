--------------------------- MODULE EventBusProofs ---------------------------
(***************************************************************************)
(* Proofs about EventBus, for any number of workers, entries and restarts. *)
(*                                                                         *)
(* The inductive invariant has three layers.  TypeOK; who holds what       *)
(* (Holding), from which OneWorkerPerEntry follows; and what the done      *)
(* counts say (Counting), from which SettledWasProcessed and               *)
(* RedeliveryNeedsRestart follow.                                          *)
(***************************************************************************)
EXTENDS EventBus, FiniteSetTheorems, TLAPS

\* A process that is not running has no worker in the middle of anything.
DownIsEmpty ==
  ~up => /\ ackDue = {}
         /\ \A w \in Workers : pc[w] = "down" /\ todo[w] = {}

\* What is pending was handed out, to one name only, and what was handed out is
\* not newer than the group's last-delivered id.
PendingOnce ==
  /\ \A i \in given : i <= delivered
  /\ \A n \in Names : pel[n] \subseteq given
  /\ \A m, n \in Names : m # n => pel[m] \cap pel[n] = {}

\* A worker goes through entries that are pending under its own name.
OwnPending == \A w \in Workers : todo[w] \subseteq pel[Name(w)]

Holding == DownIsEmpty /\ PendingOnce /\ OwnPending

\* An acknowledgement is due for the entry at hand, whose callback returned.
AckAfterDone ==
  \A w \in ackDue :
    /\ pc[w] \in {"retry", "read"} /\ todo[w] # {}
    /\ \A i \in todo[w] : Current(w, i) => done[i] > 0

\* Nothing was done with an entry that was not handed out.
DoneWasGiven == \A i \in Ids : i \notin given => done[i] = 0

\* What this run of the engine may still process, it has not processed yet:
\* neither what a worker goes through (but for the entry whose acknowledgement
\* is due) nor what it is about to reclaim.
NotYetDone ==
  /\ \A i \in Ids : done[i] <= incarnation
  /\ up => incarnation > 0
  /\ \A w \in Workers : \A i \in todo[w] :
       ~(w \in ackDue /\ Current(w, i)) => done[i] < incarnation
  /\ \A w \in Workers : pc[w] = "claim" => \A i \in pel[Name(w)] : done[i] < incarnation

Counting == SettledWasProcessed /\ AckAfterDone /\ DoneWasGiven /\ NotYetDone

IInv == TypeOK /\ Holding /\ Counting

USE DEF Ids, Kinds, Names, streamVars, groupVars, procVars, workVars, logVars,
        BusAssumption

-----------------------------------------------------------------------------
(* Helpers *)

LEMMA NameIsName ==
  ASSUME TypeOK, NEW w \in Workers
  PROVE  Name(w) \in Names
  BY BusAssumption DEF TypeOK, Name

LEMMA NamesDiffer ==
  ASSUME NEW v \in Workers, NEW w \in Workers, v # w
  PROVE  Name(v) # Name(w)
  BY DEF Name

LEMMA CurrentIsOne ==
  ASSUME TypeOK, NEW w \in Workers,
         NEW i \in Ids, Current(w, i), NEW j \in Ids, Current(w, j)
  PROVE  i = j
  BY BusAssumption DEF TypeOK, Current

LEMMA FirstNIn ==
  ASSUME NEW S, NEW n
  PROVE  FirstN(S, n) \subseteq S
  BY DEF FirstN

-----------------------------------------------------------------------------
(* Types *)

LEMMA InitType == Init => TypeOK
<1> SUFFICES ASSUME Init PROVE TypeOK
  OBVIOUS
<1> USE BusAssumption
<1>1. added \in 0..MaxEvents /\ trimmed \in 0..added /\ delivered \in 0..added
  BY DEF Init
<1>2. incarnation \in 0..MaxBoots
  BY DEF Init
<1>6. up \in BOOLEAN /\ group \in BOOLEAN
  BY Zenon DEF Init
<1>3. kind \in [Ids -> Kinds \cup {"none"}] /\ done \in [Ids -> Nat]
  BY DEF Init
<1>4. pel \in [Names -> SUBSET Ids] /\ todo \in [Workers -> SUBSET Ids]
  BY DEF Init
<1>5. pc \in [Workers -> {"down", "claim", "retry", "read", "dead"}]
  BY DEF Init
<1> QED BY <1>1, <1>2, <1>3, <1>4, <1>5, <1>6 DEF Init, TypeOK

LEMMA StepType == TypeOK /\ [Next]_vars => TypeOK'
<1> SUFFICES ASSUME TypeOK, [Next]_vars PROVE TypeOK'
  OBVIOUS
<1> USE BusAssumption
<1>1. ASSUME NEW k \in Kinds, Publish(k) PROVE TypeOK'
  <2>1. added' \in 0..MaxEvents /\ trimmed' \in 0..added'
    BY <1>1 DEF Publish, TypeOK, Larger
  <2>2. delivered' \in 0..added'
    BY <1>1, <2>1 DEF Publish, TypeOK
  <2>3. kind' \in [Ids -> Kinds \cup {"none"}]
    BY <1>1 DEF Publish, TypeOK
  <2> QED BY <1>1, <2>1, <2>2, <2>3 DEF Publish, TypeOK
<1>2. CASE Boot
  BY <1>2 DEF Boot, TypeOK
<1>3. CASE Crash
  BY <1>3 DEF Crash, TypeOK
<1>4. ASSUME NEW w \in Workers, ClaimPending(w) PROVE TypeOK'
  <2>1. FirstN(pel[Name(w)], ReclaimLimit) \subseteq Ids
    BY FirstNIn, NameIsName DEF TypeOK
  <2>2. /\ todo' = todo \/ todo' = [todo EXCEPT ![w] = FirstN(pel[Name(w)], ReclaimLimit)]
        /\ \E stage \in {"retry", "read"} : pc' = [pc EXCEPT ![w] = stage]
        /\ UNCHANGED <<streamVars, groupVars, pel, procVars, ackDue, logVars>>
    BY <1>4 DEF ClaimPending
  <2>3. todo' \in [Workers -> SUBSET Ids]
    BY <2>1, <2>2 DEF TypeOK
  <2> QED BY <2>2, <2>3 DEF TypeOK
<1>5. ASSUME NEW w \in Workers, RetryDone(w) PROVE TypeOK'
  BY <1>5 DEF RetryDone, TypeOK
<1>6. ASSUME NEW w \in Workers, ReadNew(w) PROVE TypeOK'
  <2> DEFINE batch == FirstN(Fresh, BatchSize)
  <2>1. batch \subseteq Fresh
    BY FirstNIn
  <2>2. delivered' \in 0..added'
    BY <1>6, <2>1 DEF ReadNew, Fresh, TypeOK
  <2>3. Name(w) \in Names /\ batch \in SUBSET Ids
    BY <2>1, NameIsName DEF Fresh
  <2> HIDE DEF batch
  <2>4. /\ pel' = [pel EXCEPT ![Name(w)] = @ \cup batch]
        /\ todo' = [todo EXCEPT ![w] = batch] \/ todo' = todo
        /\ given' = given \cup batch
    BY <1>6 DEF ReadNew, batch
  <2>5. pel' \in [Names -> SUBSET Ids]
    BY <2>3, <2>4 DEF TypeOK
  <2>6. todo' \in [Workers -> SUBSET Ids] /\ given' \subseteq Ids
    BY <2>3, <2>4 DEF TypeOK
  <2> QED BY <1>6, <2>2, <2>5, <2>6 DEF ReadNew, TypeOK
<1>7. ASSUME NEW w \in Workers, NEW i \in Ids, CallbackReturns(w, i) PROVE TypeOK'
  BY <1>7 DEF CallbackReturns, TypeOK
<1>8. ASSUME NEW w \in Workers, NEW i \in Ids, CallbackRaises(w, i) PROVE TypeOK'
  BY <1>8 DEF CallbackRaises, PassOver, TypeOK
<1>9. ASSUME NEW w \in Workers, NEW i \in Ids, Ack(w, i) PROVE TypeOK'
  BY <1>9, SMTT(30) DEF Ack, PassOver, Acked, TypeOK
<1>10. ASSUME NEW w \in Workers, NEW i \in Ids, DiscardMalformed(w, i) PROVE TypeOK'
  <2>1. pel' \in [Names -> SUBSET Ids]
    <3>1. Acked(i) \in [Names -> SUBSET Ids]
      BY DEF Acked, TypeOK
    <3>2. pel' = Acked(i) \/ pel' = pel
      BY <1>10 DEF DiscardMalformed
    <3> QED BY <3>1, <3>2 DEF TypeOK
  <2>3. todo' \in [Workers -> SUBSET Ids]
    BY <1>10 DEF DiscardMalformed, PassOver, TypeOK
  <2>2. pc' \in [Workers -> {"down", "claim", "retry", "read", "dead"}]
    BY <1>10 DEF DiscardMalformed, TypeOK
  <2> QED BY <1>10, <2>1, <2>2, <2>3 DEF DiscardMalformed, TypeOK
<1>11. ASSUME NEW w \in Workers, NEW i \in Ids, SkipReclaimed(w, i) PROVE TypeOK'
  BY <1>11 DEF SkipReclaimed, PassOver, TypeOK
<1>12. CASE UNCHANGED vars
  BY <1>12 DEF vars, TypeOK
<1> QED
  BY <1>1, <1>2, <1>3, <1>4, <1>5, <1>6, <1>7, <1>8, <1>9, <1>10, <1>11, <1>12
  DEF Next, Work, Handle

\* The bus never leaves its types: in particular the group's position and the
\* trimmed part never pass the newest entry.
THEOREM TypeCorrect == Spec => []TypeOK
  BY InitType, StepType, PTL DEF Spec
-----------------------------------------------------------------------------
(* Who holds what *)

LEMMA InitHolding == Init => Holding
  BY BusAssumption DEF Init, Holding, DownIsEmpty, PendingOnce, OwnPending

\* A worker that drops entries from what it goes through, while one entry at
\* most leaves the pending lists, disturbs nobody, provided it drops that one.
LEMMA PassOverHolding ==
  ASSUME TypeOK, Holding, NEW w \in Workers, NEW i \in Ids,
         i \in todo[w], up,
         UNCHANGED <<given, delivered, up, incarnation>>,
         pel' = pel \/ pel' = Acked(i),
         \A v \in Workers : todo'[v] \subseteq todo[v],
         i \notin todo'[w]
  PROVE  Holding'
<1>1. DownIsEmpty'
  BY DEF DownIsEmpty
<1>2. \A n \in Names : pel'[n] \subseteq pel[n]
  BY DEF Acked
<1>3. PendingOnce'
  BY <1>2 DEF PendingOnce, Holding
<1>4. ASSUME NEW v \in Workers PROVE todo'[v] \subseteq pel'[Name(v)']
  <2>1. Name(v)' = Name(v) /\ Name(v) \in Names /\ Name(w) \in Names
    BY NameIsName DEF Name
  <2>2. todo'[v] \subseteq pel[Name(v)]
    BY DEF Holding, OwnPending
  <2>3. i \notin todo'[v]
    <3>1. CASE v = w
      BY <3>1
    <3>2. CASE v # w
      <4>1. i \in pel[Name(w)] /\ Name(v) # Name(w)
        BY <3>2, NamesDiffer DEF Holding, OwnPending
      <4>2. i \notin pel[Name(v)]
        BY <4>1, <2>1 DEF Holding, PendingOnce
      <4> QED BY <4>2, <2>2
    <3> QED BY <3>1, <3>2
  <2> QED BY <2>1, <2>2, <2>3 DEF Acked
<1> QED BY <1>1, <1>3, <1>4 DEF Holding, OwnPending

\* Only a running process has workers that do something.
LEMMA WorkingIsUp ==
  ASSUME Holding, NEW w \in Workers, pc[w] # "down"
  PROVE  up
  BY DEF Holding, DownIsEmpty

LEMMA StepHolding ==
  ASSUME TypeOK, Holding, [Next]_vars
  PROVE  Holding'
<1> USE BusAssumption
<1>1. ASSUME NEW k \in Kinds, Publish(k) PROVE Holding'
  BY <1>1 DEF Publish, Holding, DownIsEmpty, PendingOnce, OwnPending, Name
<1>2. CASE Boot
  <2>1. DownIsEmpty'
    BY <1>2 DEF Boot, DownIsEmpty
  <2>2. PendingOnce'
    <3>1. \A i \in given : i <= delivered'
      BY <1>2 DEF Boot, Holding, PendingOnce, TypeOK
    <3> QED BY <1>2, <3>1 DEF Boot, Holding, PendingOnce
  <2>3. OwnPending'
    BY <1>2 DEF Boot, Holding, DownIsEmpty, OwnPending
  <2> QED BY <2>1, <2>2, <2>3 DEF Holding
<1>3. CASE Crash
  BY <1>3 DEF Crash, Holding, DownIsEmpty, PendingOnce, OwnPending
<1>4. ASSUME NEW w \in Workers, ClaimPending(w) PROVE Holding'
  <2>1. up
    BY <1>4, WorkingIsUp DEF ClaimPending
  <2>2. FirstN(pel[Name(w)], ReclaimLimit) \subseteq pel[Name(w)]
    BY FirstNIn
  <2>3. OwnPending'
    BY <1>4, <2>2, SMTT(30) DEF ClaimPending, Holding, OwnPending, Name, TypeOK
  <2> QED BY <1>4, <2>1, <2>3 DEF ClaimPending, Holding, DownIsEmpty, PendingOnce
<1>5. ASSUME NEW w \in Workers, RetryDone(w) PROVE Holding'
  <2>1. up
    BY <1>5, WorkingIsUp DEF RetryDone
  <2> QED BY <1>5, <2>1 DEF RetryDone, Holding, DownIsEmpty, PendingOnce, OwnPending, Name
<1>6. ASSUME NEW w \in Workers, ReadNew(w) PROVE Holding'
  <2> DEFINE batch == FirstN(Fresh, BatchSize)
  <2>1. up
    BY <1>6, WorkingIsUp DEF ReadNew
  <2>2. \A i \in batch : i \in Ids /\ delivered < i
    BY FirstNIn DEF Fresh
  <2>3. Name(w) \in Names
    BY NameIsName
  <2> HIDE DEF batch
  <2>4. /\ pel' = [pel EXCEPT ![Name(w)] = @ \cup batch]
        /\ todo' = [todo EXCEPT ![w] = batch] \/ todo' = todo
        /\ given' = given \cup batch
        /\ \E last \in batch : (\A i \in batch : i <= last) /\ delivered' = last
        /\ UNCHANGED <<up, incarnation>>
    BY <1>6 DEF ReadNew, batch
  <2>5. DownIsEmpty'
    BY <2>1, <2>4 DEF DownIsEmpty
  <2>6. \A i \in given' : i <= delivered'
    BY <2>2, <2>4 DEF Holding, PendingOnce, TypeOK
  <2>7. batch \cap given = {}
    BY <2>2 DEF Holding, PendingOnce, TypeOK
  <2>8. \A n \in Names : pel'[n] \subseteq given'
    BY <2>3, <2>4 DEF Holding, PendingOnce, TypeOK
  <2>9. \A m, n \in Names : m # n => pel'[m] \cap pel'[n] = {}
    BY <2>3, <2>4, <2>7 DEF Holding, PendingOnce, TypeOK
  <2>10. OwnPending'
    <3> SUFFICES ASSUME NEW v \in Workers PROVE todo'[v] \subseteq pel'[Name(v)]
      BY <2>4 DEF OwnPending, Name
    <3>1. Name(v) \in Names
      BY NameIsName
    <3>2. pel[Name(v)] \subseteq pel'[Name(v)]
      BY <2>4, <3>1 DEF TypeOK
    <3>3. CASE v = w
      BY <2>3, <2>4, <3>2, <3>3 DEF Holding, OwnPending, TypeOK
    <3>4. CASE v # w
      BY <2>4, <3>2, <3>4 DEF Holding, OwnPending, TypeOK
    <3> QED BY <3>3, <3>4
  <2> QED BY <2>5, <2>6, <2>8, <2>9, <2>10 DEF Holding, PendingOnce
<1>7. ASSUME NEW w \in Workers, NEW i \in Ids, CallbackReturns(w, i) PROVE Holding'
  <2>1. up
    BY <1>7, WorkingIsUp DEF CallbackReturns, Facing
  <2> QED BY <1>7, <2>1 DEF CallbackReturns, Holding, DownIsEmpty, PendingOnce, OwnPending, Name
<1>8. ASSUME NEW w \in Workers, NEW i \in Ids, CallbackRaises(w, i) PROVE Holding'
  <2>1. up /\ i \in todo[w]
    BY <1>8, WorkingIsUp DEF CallbackRaises, Facing, Current
  <2>2. /\ pel' = pel /\ UNCHANGED <<given, delivered, up, incarnation>>
        /\ \A v \in Workers : todo'[v] \subseteq todo[v]
        /\ i \notin todo'[w]
    BY <1>8 DEF CallbackRaises, PassOver, TypeOK
  <2> QED BY <2>1, <2>2, PassOverHolding
<1>9. ASSUME NEW w \in Workers, NEW i \in Ids, Ack(w, i) PROVE Holding'
  <2>1. up /\ i \in todo[w]
    BY <1>9 DEF Ack, Current, Holding, DownIsEmpty
  <2>2. /\ pel' = pel \/ pel' = Acked(i)
        /\ UNCHANGED <<given, delivered, up, incarnation>>
        /\ \A v \in Workers : todo'[v] \subseteq todo[v]
        /\ i \notin todo'[w]
    BY <1>9 DEF Ack, PassOver, TypeOK
  <2> QED BY <2>1, <2>2, PassOverHolding
<1>10. ASSUME NEW w \in Workers, NEW i \in Ids, DiscardMalformed(w, i) PROVE Holding'
  <2>1. up /\ i \in todo[w]
    BY <1>10, WorkingIsUp DEF DiscardMalformed, Facing, Current
  <2>2. /\ pel' = pel \/ pel' = Acked(i)
        /\ UNCHANGED <<given, delivered, up, incarnation>>
        /\ \A v \in Workers : todo'[v] \subseteq todo[v]
        /\ i \notin todo'[w]
    BY <1>10 DEF DiscardMalformed, PassOver, TypeOK
  <2> QED BY <2>1, <2>2, PassOverHolding
<1>11. ASSUME NEW w \in Workers, NEW i \in Ids, SkipReclaimed(w, i) PROVE Holding'
  <2>1. up /\ i \in todo[w]
    BY <1>11, WorkingIsUp DEF SkipReclaimed, Facing, Current
  <2>2. /\ pel' = pel /\ UNCHANGED <<given, delivered, up, incarnation>>
        /\ \A v \in Workers : todo'[v] \subseteq todo[v]
        /\ i \notin todo'[w]
    BY <1>11 DEF SkipReclaimed, PassOver, TypeOK
  <2> QED BY <2>1, <2>2, PassOverHolding
<1>12. CASE UNCHANGED vars
  BY <1>12 DEF vars, Holding, DownIsEmpty, PendingOnce, OwnPending, Name
<1> QED
  BY <1>1, <1>2, <1>3, <1>4, <1>5, <1>6, <1>7, <1>8, <1>9, <1>10, <1>11, <1>12
  DEF Next, Work, Handle

LEMMA HoldingSeparates ==
  ASSUME TypeOK, Holding
  PROVE  OneWorkerPerEntry
<1>1. ASSUME NEW v \in Workers, NEW w \in Workers, v # w
      PROVE  todo[v] \cap todo[w] = {}
  <2>1. Name(v) \in Names /\ Name(w) \in Names /\ Name(v) # Name(w)
    BY <1>1, NameIsName, NamesDiffer
  <2>2. pel[Name(v)] \cap pel[Name(w)] = {}
    BY <2>1 DEF Holding, PendingOnce
  <2> QED BY <2>2 DEF Holding, OwnPending
<1> QED BY <1>1 DEF OneWorkerPerEntry, Holding, OwnPending

\* No two workers of the group ever go through the same entry, and each goes
\* through entries pending under its own name, for any number of workers,
\* crashes and lost replies.
THEOREM OneWorkerPerEntryAlways == Spec => []OneWorkerPerEntry
<1>1. Init => TypeOK /\ Holding
  BY InitType, InitHolding
<1>2. TypeOK /\ Holding /\ [Next]_vars => (TypeOK /\ Holding)'
  BY StepType, StepHolding
<1>3. TypeOK /\ Holding => OneWorkerPerEntry
  BY HoldingSeparates
<1> QED BY <1>1, <1>2, <1>3, PTL DEF Spec

-----------------------------------------------------------------------------
(* What the counts say *)

LEMMA InitCounting == Init => Counting
  BY BusAssumption
  DEF Init, Counting, SettledWasProcessed, AckAfterDone, DoneWasGiven, NotYetDone

\* A worker is done with entry i, by acknowledging it or by leaving it pending.
LEMMA PassOverCounting ==
  ASSUME TypeOK, Holding, Counting, NEW w \in Workers, NEW i \in Ids, Current(w, i),
         UNCHANGED <<given, kind, done, up, incarnation>>,
         pel' = pel \/ (pel' = Acked(i) /\ (done[i] > 0 \/ kind[i] # "event")),
         ackDue' = ackDue \ {w},
         \A v \in Workers : v # w => todo'[v] = todo[v] /\ pc'[v] = pc[v],
         todo'[w] \subseteq todo[w] \ {i}, pc'[w] # "claim"
  PROVE  Counting'
<1>1. SettledWasProcessed'
  <2> SUFFICES ASSUME NEW j \in given, ~Pending(j)'
               PROVE  done[j] > 0 \/ kind[j] # "event"
    BY DEF SettledWasProcessed
  <2>1. CASE j = i /\ pel' = Acked(i)
    BY <2>1 DEF Counting, SettledWasProcessed, Acked, Pending
  <2>2. CASE j # i \/ pel' = pel
    <3>1. ~Pending(j)
      BY <2>2 DEF Pending, Acked
    <3> QED BY <3>1 DEF Counting, SettledWasProcessed
  <2> QED BY <2>1, <2>2
<1>2. AckAfterDone'
  BY DEF Counting, AckAfterDone, Current, TypeOK
<1>3. DoneWasGiven'
  BY DEF Counting, DoneWasGiven
<1>4. \A v \in Workers : \A j \in todo'[v] :
        ~(v \in ackDue' /\ Current(v, j)') => done[j] < incarnation
  <2> SUFFICES ASSUME NEW v \in Workers, NEW j \in todo'[v],
                      ~(v \in ackDue' /\ Current(v, j)')
               PROVE  done[j] < incarnation
    OBVIOUS
  <2>1. CASE v = w
    <3>1. j \in todo[w] /\ j # i /\ j \in Ids
      BY <2>1 DEF TypeOK
    <3>2. ~Current(w, j)
      BY <3>1, CurrentIsOne
    <3> QED BY <3>1, <3>2 DEF Counting, NotYetDone
  <2>2. CASE v # w
    BY <2>2 DEF Counting, NotYetDone, Current
  <2> QED BY <2>1, <2>2
<1>5. \A v \in Workers : pc'[v] = "claim" => \A j \in pel'[Name(v)'] : done[j] < incarnation
  <2> SUFFICES ASSUME NEW v \in Workers, pc'[v] = "claim", NEW j \in pel'[Name(v)']
               PROVE  done[j] < incarnation
    OBVIOUS
  <2>1. v # w /\ pc[v] = "claim"
    OBVIOUS
  <2>2. Name(v)' = Name(v) /\ Name(v) \in Names
    BY NameIsName DEF Name
  <2>3. j \in pel[Name(v)]
    BY <2>2 DEF Acked
  <2> QED BY <2>1, <2>3 DEF Counting, NotYetDone
<1> QED BY <1>1, <1>2, <1>3, <1>4, <1>5 DEF Counting, NotYetDone

LEMMA StepCounting ==
  ASSUME TypeOK, Holding, Counting, [Next]_vars
  PROVE  Counting'
<1> USE BusAssumption
<1>1. ASSUME NEW k \in Kinds, Publish(k) PROVE Counting'
  <2>1. \A i \in given : kind'[i] = kind[i]
    BY <1>1 DEF Publish, TypeOK, Holding, PendingOnce
  <2>2. SettledWasProcessed'
    BY <1>1, <2>1 DEF Publish, Counting, SettledWasProcessed, Pending
  <2> QED BY <1>1, <2>2
          DEF Publish, Counting, AckAfterDone, DoneWasGiven, NotYetDone, Current, Name
<1>2. CASE Boot
  <2>1. SettledWasProcessed' /\ DoneWasGiven'
    BY <1>2 DEF Boot, Counting, SettledWasProcessed, DoneWasGiven, Pending
  <2>2. AckAfterDone'
    BY <1>2 DEF Boot, AckAfterDone, Holding, DownIsEmpty
  <2>3. \A i \in Ids : done'[i] < incarnation'
    BY <1>2 DEF Boot, Counting, NotYetDone, TypeOK
  <2>4. \A w \in Workers : Name(w)' \in Names /\ pel'[Name(w)'] \subseteq Ids
    <3>1. pel' \in [Names -> SUBSET Ids] /\ incarnation' \in 0..MaxBoots
      BY <1>2 DEF Boot, TypeOK
    <3> QED BY <3>1 DEF Name
  <2>5. \A w \in Workers : todo'[w] = {}
    BY <1>2 DEF Boot, Holding, DownIsEmpty
  <2>6. NotYetDone'
    BY <1>2, <2>3, <2>4, <2>5 DEF Boot, NotYetDone, TypeOK
  <2> QED BY <2>1, <2>2, <2>6 DEF Counting
<1>3. CASE Crash
  <2>1. SettledWasProcessed' /\ DoneWasGiven'
    BY <1>3 DEF Crash, Counting, SettledWasProcessed, DoneWasGiven, Pending
  <2> QED BY <1>3, <2>1 DEF Crash, Counting, AckAfterDone, NotYetDone
<1>4. ASSUME NEW w \in Workers, ClaimPending(w) PROVE Counting'
  <2>1. SettledWasProcessed' /\ DoneWasGiven'
    BY <1>4 DEF ClaimPending, Counting, SettledWasProcessed, DoneWasGiven, Pending
  <2>2. w \notin ackDue
    BY <1>4 DEF ClaimPending, Counting, AckAfterDone
  <2>3. AckAfterDone'
    BY <1>4, <2>2 DEF ClaimPending, Counting, AckAfterDone, Current, TypeOK
  <2>4. FirstN(pel[Name(w)], ReclaimLimit) \subseteq pel[Name(w)]
    BY FirstNIn
  <2>5. \A v \in Workers : \A i \in todo'[v] :
          ~(v \in ackDue' /\ Current(v, i)') => done[i] < incarnation
    <3> SUFFICES ASSUME NEW v \in Workers, NEW i \in todo'[v],
                        ~(v \in ackDue' /\ Current(v, i)')
                 PROVE  done[i] < incarnation
      OBVIOUS
    <3>1. CASE v = w /\ todo'[w] # todo[w]
      <4>1. i \in pel[Name(w)] /\ pc[w] = "claim"
        BY <1>4, <2>4, <3>1 DEF ClaimPending, TypeOK
      <4> QED BY <4>1 DEF Counting, NotYetDone
    <3>2. CASE v # w \/ todo'[w] = todo[w]
      <4>1. todo'[v] = todo[v] /\ ackDue' = ackDue
        BY <1>4, <3>2 DEF ClaimPending, TypeOK
      <4> QED BY <4>1 DEF Counting, NotYetDone, Current
    <3> QED BY <3>1, <3>2
  <2>6. \A v \in Workers : pc'[v] = "claim" => pc[v] = "claim"
    BY <1>4 DEF ClaimPending, TypeOK
  <2>7. NotYetDone'
    BY <1>4, <2>5, <2>6 DEF ClaimPending, Counting, NotYetDone, Name
  <2> QED BY <2>1, <2>3, <2>7 DEF Counting
<1>5. ASSUME NEW w \in Workers, RetryDone(w) PROVE Counting'
  <2>1. SettledWasProcessed' /\ DoneWasGiven'
    BY <1>5 DEF RetryDone, Counting, SettledWasProcessed, DoneWasGiven, Pending
  <2>2. AckAfterDone'
    BY <1>5 DEF RetryDone, Counting, AckAfterDone, Current, TypeOK
  <2>3. NotYetDone'
    BY <1>5 DEF RetryDone, Counting, NotYetDone, Current, Name, TypeOK
  <2> QED BY <2>1, <2>2, <2>3 DEF Counting
<1>6. ASSUME NEW w \in Workers, ReadNew(w) PROVE Counting'
  <2> DEFINE batch == FirstN(Fresh, BatchSize)
  <2>1. up /\ pc[w] = "read" /\ todo[w] = {}
    BY <1>6, WorkingIsUp DEF ReadNew
  <2>2. \A i \in batch : i \in Ids /\ delivered < i
    BY FirstNIn DEF Fresh
  <2>3. Name(w) \in Names /\ w \notin ackDue
    BY <2>1, NameIsName DEF Counting, AckAfterDone
  <2> HIDE DEF batch
  <2>4. /\ pel' = [pel EXCEPT ![Name(w)] = @ \cup batch]
        /\ todo' = [todo EXCEPT ![w] = batch] \/ todo' = todo
        /\ given' = given \cup batch
        /\ UNCHANGED <<kind, done, up, incarnation, pc, ackDue>>
    BY <1>6 DEF ReadNew, batch
  <2>5. \A i \in batch : done[i] = 0 /\ i \notin given
    BY <2>2 DEF Counting, DoneWasGiven, Holding, PendingOnce, TypeOK
  <2>6. \A n \in Names : pel[n] \subseteq pel'[n]
    BY <2>3, <2>4 DEF TypeOK
  <2>7. batch \subseteq pel'[Name(w)]
    BY <2>3, <2>4 DEF TypeOK
  <2>8. SettledWasProcessed'
    BY <2>3, <2>4, <2>6, <2>7 DEF Counting, SettledWasProcessed, Pending
  <2>9. DoneWasGiven'
    BY <2>4 DEF Counting, DoneWasGiven
  <2>10. \A v \in Workers : v # w => todo'[v] = todo[v]
    BY <2>4 DEF TypeOK
  <2>11. AckAfterDone'
    BY <2>3, <2>4, <2>10 DEF Counting, AckAfterDone, Current, TypeOK
  <2>12. \A v \in Workers : \A i \in todo'[v] :
           ~(v \in ackDue /\ Current(v, i)') => done[i] < incarnation
    <3>1. \A i \in todo'[w] : done[i] < incarnation
      BY <2>1, <2>4, <2>5 DEF Counting, NotYetDone, TypeOK
    <3> QED BY <2>10, <3>1 DEF Counting, NotYetDone, Current
  <2>13. \A v \in Workers : pc[v] = "claim" => pel'[Name(v)] = pel[Name(v)]
    <3> SUFFICES ASSUME NEW v \in Workers, pc[v] = "claim" PROVE pel'[Name(v)] = pel[Name(v)]
      OBVIOUS
    <3>1. Name(v) # Name(w) /\ Name(v) \in Names
      BY <2>1, NamesDiffer, NameIsName
    <3> QED BY <2>4, <3>1 DEF TypeOK
  <2>14. \A v \in Workers : Name(v)' = Name(v)
    BY <2>4 DEF Name
  <2>15. NotYetDone'
    BY <2>4, <2>12, <2>13, <2>14 DEF Counting, NotYetDone
  <2> QED BY <2>8, <2>9, <2>11, <2>15 DEF Counting
<1>7. ASSUME NEW w \in Workers, NEW i \in Ids, CallbackReturns(w, i) PROVE Counting'
  <2>1. i \in todo[w] /\ Current(w, i) /\ w \notin ackDue /\ pc[w] \in {"retry", "read"}
    BY <1>7 DEF CallbackReturns, Facing, Current
  <2>2. /\ done' = [done EXCEPT ![i] = @ + 1] /\ ackDue' = ackDue \cup {w}
        /\ UNCHANGED <<given, pel, kind, up, incarnation, pc, todo>>
    BY <1>7 DEF CallbackReturns
  <2>3. \A j \in Ids : /\ done[j] \in Nat /\ done'[j] \in Nat
                       /\ done'[j] >= done[j] /\ (j # i => done'[j] = done[j])
    BY <2>2 DEF TypeOK
  <2>4. done'[i] = done[i] + 1 /\ done[i] < incarnation
    BY <2>1, <2>2 DEF Counting, NotYetDone, TypeOK
  <2>5. Name(w) \in Names /\ i \in pel[Name(w)]
    BY <2>1, NameIsName DEF Holding, OwnPending
  <2>6. i \in given
    BY <2>5 DEF Holding, PendingOnce
  <2>7. SettledWasProcessed'
    <3> SUFFICES ASSUME NEW j \in given, ~Pending(j)
                 PROVE  done'[j] > 0 \/ kind[j] # "event"
      BY <2>2 DEF SettledWasProcessed, Pending
    <3>1. j \in Ids /\ (done[j] > 0 \/ kind[j] # "event")
      BY DEF Counting, SettledWasProcessed, TypeOK
    <3> QED BY <2>3, <3>1
  <2>8. AckAfterDone'
    <3> SUFFICES ASSUME NEW v \in ackDue'
                 PROVE  /\ pc[v] \in {"retry", "read"} /\ todo[v] # {}
                        /\ \A j \in todo[v] : Current(v, j) => done'[j] > 0
      BY <2>2 DEF AckAfterDone, Current
    <3>1. CASE v = w
      <4>1. \A j \in todo[w] : Current(w, j) => j = i
        BY <2>1, CurrentIsOne DEF TypeOK
      <4> QED BY <2>1, <2>4, <3>1, <4>1 DEF TypeOK
    <3>2. CASE v # w
      <4>1. v \in ackDue
        BY <2>2, <3>2
      <4>2. \A j \in todo[v] : j \in Ids
        BY <4>1 DEF TypeOK
      <4>3. \A j \in todo[v] : Current(v, j) => done[j] > 0
        BY <4>1 DEF Counting, AckAfterDone
      <4>4. \A j \in todo[v] : Current(v, j) => done'[j] > 0
        BY <2>3, <4>2, <4>3
      <4> QED BY <4>1, <4>4 DEF Counting, AckAfterDone
    <3> QED BY <3>1, <3>2
  <2>9. DoneWasGiven'
    BY <2>2, <2>3, <2>6 DEF Counting, DoneWasGiven
  <2>10. \A j \in Ids : done'[j] <= incarnation
    BY <2>3, <2>4 DEF Counting, NotYetDone, TypeOK
  <2>11. \A v \in Workers : \A j \in todo[v] :
           ~(v \in ackDue' /\ Current(v, j)) => done'[j] < incarnation
    <3> SUFFICES ASSUME NEW v \in Workers, NEW j \in todo[v],
                        ~(v \in ackDue' /\ Current(v, j))
                 PROVE  done'[j] < incarnation
      OBVIOUS
    <3>1. j # i
      <4>1. CASE v = w
        BY <2>1, <2>2, <4>1
      <4>2. CASE v # w
        BY <2>1, <4>2, HoldingSeparates DEF OneWorkerPerEntry
      <4> QED BY <4>1, <4>2
    <3>2. j \in Ids /\ ~(v \in ackDue /\ Current(v, j))
      BY <2>2 DEF TypeOK
    <3> QED BY <2>3, <3>1, <3>2 DEF Counting, NotYetDone
  <2>12. \A v \in Workers : pc[v] = "claim" => \A j \in pel[Name(v)] : done'[j] < incarnation
    <3> SUFFICES ASSUME NEW v \in Workers, pc[v] = "claim", NEW j \in pel[Name(v)]
                 PROVE  done'[j] < incarnation
      OBVIOUS
    <3>1. Name(v) \in Names /\ Name(v) # Name(w)
      BY <2>1, NameIsName, NamesDiffer
    <3>2. j # i
      BY <2>5, <3>1 DEF Holding, PendingOnce
    <3>3. j \in Ids
      BY <3>1 DEF TypeOK
    <3> QED BY <2>3, <3>2, <3>3 DEF Counting, NotYetDone
  <2>13. NotYetDone'
    BY <2>2, <2>10, <2>11, <2>12 DEF Counting, NotYetDone, Current, Name
  <2> QED BY <2>7, <2>8, <2>9, <2>13 DEF Counting
<1>8. ASSUME NEW w \in Workers, NEW i \in Ids, CallbackRaises(w, i) PROVE Counting'
  <2>1. Current(w, i) /\ w \notin ackDue /\ pc[w] \in {"retry", "read"}
    BY <1>8 DEF CallbackRaises, Facing
  <2>2. /\ pel' = pel
        /\ UNCHANGED <<given, kind, done, up, incarnation, ackDue>>
        /\ \A v \in Workers : v # w => todo'[v] = todo[v] /\ pc'[v] = pc[v]
        /\ todo'[w] \subseteq todo[w] \ {i} /\ pc'[w] # "claim"
    BY <1>8, <2>1 DEF CallbackRaises, PassOver, TypeOK
  <2>3. ackDue' = ackDue \ {w}
    BY <2>1, <2>2
  <2> QED BY <2>1, <2>2, <2>3, PassOverCounting
<1>9. ASSUME NEW w \in Workers, NEW i \in Ids, Ack(w, i) PROVE Counting'
  <2>1. done[i] > 0 /\ pc[w] # "claim"
    BY <1>9 DEF Ack, Counting, AckAfterDone, Current
  <2> QED BY <1>9, <2>1, PassOverCounting DEF Ack, PassOver, TypeOK
<1>10. ASSUME NEW w \in Workers, NEW i \in Ids, DiscardMalformed(w, i) PROVE Counting'
  <2>1. Current(w, i) /\ w \notin ackDue /\ pc[w] \in {"retry", "read"}
    BY <1>10 DEF DiscardMalformed, Facing
  <2>2. /\ pel' = pel \/ (pel' = Acked(i) /\ kind[i] # "event")
        /\ UNCHANGED <<given, kind, done, up, incarnation, ackDue>>
        /\ \A v \in Workers : v # w => todo'[v] = todo[v] /\ pc'[v] = pc[v]
        /\ todo'[w] \subseteq todo[w] \ {i} /\ pc'[w] # "claim"
    BY <1>10, <2>1 DEF DiscardMalformed, PassOver, TypeOK
  <2>3. ackDue' = ackDue \ {w}
    BY <2>1, <2>2
  <2> QED BY <2>1, <2>2, <2>3, PassOverCounting
<1>11. ASSUME NEW w \in Workers, NEW i \in Ids, SkipReclaimed(w, i) PROVE Counting'
  <2>1. Current(w, i) /\ w \notin ackDue /\ pc[w] \in {"retry", "read"}
    BY <1>11 DEF SkipReclaimed, Facing
  <2>2. /\ pel' = pel
        /\ UNCHANGED <<given, kind, done, up, incarnation, ackDue>>
        /\ \A v \in Workers : v # w => todo'[v] = todo[v] /\ pc'[v] = pc[v]
        /\ todo'[w] \subseteq todo[w] \ {i} /\ pc'[w] # "claim"
    BY <1>11, <2>1 DEF SkipReclaimed, PassOver, TypeOK
  <2>3. ackDue' = ackDue \ {w}
    BY <2>1, <2>2
  <2> QED BY <2>1, <2>2, <2>3, PassOverCounting
<1>12. CASE UNCHANGED vars
  BY <1>12 DEF vars, Counting, SettledWasProcessed, AckAfterDone, DoneWasGiven, NotYetDone,
               Pending, Current, Name
<1> QED
  BY <1>1, <1>2, <1>3, <1>4, <1>5, <1>6, <1>7, <1>8, <1>9, <1>10, <1>11, <1>12
  DEF Next, Work, Handle

LEMMA InvAlways == Spec => []IInv
<1>1. Init => IInv
  BY InitType, InitHolding, InitCounting DEF IInv
<1>2. IInv /\ [Next]_vars => IInv'
  BY StepType, StepHolding, StepCounting DEF IInv
<1> QED BY <1>1, <1>2, PTL DEF Spec

\* An entry the group handed out and no longer holds had its callback return at
\* least once, unless it could not be read.
THEOREM SettledWasProcessedAlways == Spec => []SettledWasProcessed
<1>1. IInv => SettledWasProcessed
  BY DEF IInv, Counting
<1> QED BY <1>1, InvAlways, PTL

\* No entry is processed more often than the engine was started.
THEOREM RedeliveryNeedsRestartAlways == Spec => []RedeliveryNeedsRestart
<1>1. IInv => RedeliveryNeedsRestart
  BY DEF IInv, Counting, NotYetDone, RedeliveryNeedsRestart
<1> QED BY <1>1, InvAlways, PTL

-----------------------------------------------------------------------------
(* The bus keeps the delivery contract *)

LEMMA StatusOf ==
  ASSUME TypeOK, Holding, NEW i \in Ids
  PROVE  /\ Status[i] = "absent" <=> i > added
         /\ Status[i] = "held" <=> i \in given /\ Pending(i)
         /\ Status[i] = "settled" <=> i \in given /\ ~Pending(i)
         /\ Status[i] = "queued" <=> i \in Fresh
         /\ i \in given => i <= delivered /\ i <= added
  BY DEF Status, Fresh, TypeOK, Holding, PendingOnce

\* What is among the n smallest has everything smaller with it.
LEMMA FirstNClosed ==
  ASSUME NEW S \in SUBSET Ids, NEW n \in Nat, NEW i \in FirstN(S, n), NEW j \in S, j <= i
  PROVE  j \in FirstN(S, n)
<1> DEFINE below(k) == {h \in S : h < k}
<1>1. below(j) \subseteq below(i)
  <2>1. \A h \in S : h \in Int
    BY BusAssumption
  <2>2. i \in S
    BY FirstNIn
  <2>3. \A h \in S : h < j => h < i
    BY <2>1, <2>2
  <2> QED BY <2>3
<1>2. IsFiniteSet(below(i))
  <2>1. IsFiniteSet(Ids)
    BY FS_Interval, BusAssumption
  <2> QED BY <2>1, FS_Subset
<1>3. /\ IsFiniteSet(below(j)) /\ Cardinality(below(j)) <= Cardinality(below(i))
      /\ Cardinality(below(i)) \in Nat /\ Cardinality(below(j)) \in Nat
  BY <1>1, <1>2, FS_Subset, FS_CardinalityType
<1>4. Cardinality(below(i)) < n
  BY DEF FirstN
<1> QED BY <1>3, <1>4 DEF FirstN

LEMMA StatusStays ==
  ASSUME UNCHANGED <<added, given, pel, delivered, trimmed>>
  PROVE  Status' = Status
  BY DEF Status, Pending

LEMMA PublishContract ==
  ASSUME IInv, NEW k \in Kinds, Publish(k)
  PROVE  Contract!Next
<1> USE BusAssumption
<1> DEFINE i == added + 1
           lost == {j \in Fresh : j <= trimmed'}
<1>1. /\ i \in Ids /\ i > added /\ trimmed' <= added /\ trimmed <= trimmed' /\ trimmed' \in Int
      /\ added \in Int
  BY DEF IInv, TypeOK, Publish, Larger
<1>2. added' = i /\ UNCHANGED <<given, delivered, pel, done>> /\ kind' = [kind EXCEPT ![i] = k]
  BY DEF Publish
<1>3. \A j \in Ids : Pending(j)' = Pending(j)
  BY <1>2 DEF Pending
<1>4. \A j \in Ids : Status'[j] = IF j = i THEN "queued" ELSE IF j \in lost THEN "dropped" ELSE Status[j]
  <2> SUFFICES ASSUME NEW j \in Ids
               PROVE  Status'[j] = IF j = i THEN "queued"
                                   ELSE IF j \in lost THEN "dropped" ELSE Status[j]
    OBVIOUS
  <2>1. i \notin given /\ ~(i <= delivered) /\ delivered \in Int
    BY <1>1 DEF IInv, TypeOK, Holding, PendingOnce
  <2>2. Status'[j] = IF j > i THEN "absent"
                     ELSE IF j \in given THEN IF Pending(j) THEN "held" ELSE "settled"
                     ELSE IF j <= delivered \/ j <= trimmed' THEN "dropped" ELSE "queued"
    BY <1>2, <1>3 DEF Status
  <2>3. Status[j] = IF j > added THEN "absent"
                    ELSE IF j \in given THEN IF Pending(j) THEN "held" ELSE "settled"
                    ELSE IF j <= delivered \/ j <= trimmed THEN "dropped" ELSE "queued"
    BY DEF Status
  <2>4. j \in lost <=> delivered < j /\ trimmed < j /\ j <= added /\ j <= trimmed'
    BY DEF Fresh
  <2>5. j \in lost => j \notin given
    BY <2>1 DEF Fresh, IInv, TypeOK, Holding, PendingOnce
  <2>6. trimmed \in Int /\ j \in Int
    BY DEF IInv, TypeOK
  <2>7. CASE j = i
    BY <1>1, <2>1, <2>2, <2>7
  <2>8. CASE j # i /\ j \in given
    BY <1>1, <2>2, <2>3, <2>5, <2>6, <2>8
  <2>9. CASE j # i /\ j \notin given
    BY <1>1, <2>1, <2>2, <2>3, <2>4, <2>6, <2>9
  <2> QED BY <2>7, <2>8, <2>9
<1>5. Status[i] = "absent" /\ \A j \in lost : Status[j] = "queued"
  BY <1>1, StatusOf DEF IInv, Fresh
<1>6. Status' = [[j \in Ids |-> IF j \in lost THEN "dropped" ELSE Status[j]] EXCEPT ![i] = "queued"]
  BY <1>1, <1>4 DEF Status
<1>7. Contract!Publish(i, k, lost)
  BY <1>2, <1>5, <1>6 DEF Contract!Publish, Contract!All, Contract!Become
<1>8. lost \in SUBSET Ids
  BY DEF Fresh
<1> QED BY <1>1, <1>7, <1>8 DEF Contract!Next

LEMMA BootContract ==
  ASSUME IInv, Boot
  PROVE  Contract!Next
<1> USE BusAssumption
<1> DEFINE lost == {j \in Fresh : j <= delivered'}
<1>1. /\ delivered \in Int /\ delivered' \in Int /\ delivered <= delivered' /\ delivered' <= added
      /\ UNCHANGED <<added, trimmed, kind, given, pel, done>>
  BY DEF IInv, TypeOK, Boot
<1>2. \A j \in Ids : Status'[j] = IF j \in lost THEN "dropped" ELSE Status[j]
  <2> SUFFICES ASSUME NEW j \in Ids PROVE Status'[j] = IF j \in lost THEN "dropped" ELSE Status[j]
    OBVIOUS
  <2>1. Pending(j)' = Pending(j)
    BY <1>1 DEF Pending
  <2>2. j \in lost => j \notin given
    BY DEF Fresh, IInv, TypeOK, Holding, PendingOnce
  <2> QED BY <1>1, <2>1, <2>2 DEF Status, Fresh, IInv, TypeOK
<1>3. \A j \in lost : Status[j] = "queued"
  BY StatusOf DEF IInv, Fresh
<1>4. Status' = [j \in Ids |-> IF j \in lost THEN "dropped" ELSE Status[j]]
  BY <1>2 DEF Status
<1>5. Contract!Skip(lost)
  BY <1>1, <1>3, <1>4 DEF Contract!Skip, Contract!All, Contract!Become
<1>6. lost \in SUBSET Ids
  BY DEF Fresh
<1> QED BY <1>5, <1>6 DEF Contract!Next

LEMMA ReadContract ==
  ASSUME IInv, NEW w \in Workers, ReadNew(w)
  PROVE  Contract!Next
<1> USE BusAssumption
<1> DEFINE batch == FirstN(Fresh, BatchSize)
<1>0. Fresh \in SUBSET Ids /\ BatchSize \in Nat /\ Name(w) \in Names
  <2>1. Fresh \in SUBSET Ids /\ BatchSize \in Nat
    BY DEF Fresh
  <2>2. Name(w) \in Names
    BY NameIsName DEF IInv
  <2> QED BY <2>1, <2>2
<1>1. batch \subseteq Fresh
  BY <1>0, FirstNIn
<1>oldest. \A i \in batch : \A j \in Fresh : j <= i => j \in batch
  BY <1>0, FirstNClosed
<1> HIDE DEF batch
<1>2. /\ pel' = [pel EXCEPT ![Name(w)] = @ \cup batch] /\ given' = given \cup batch
      /\ UNCHANGED <<added, trimmed, kind, done>>
  BY DEF ReadNew, batch
<1>3. /\ delivered' \in batch /\ delivered' \in Ids /\ delivered < delivered' /\ delivered \in Int
      /\ \A i \in batch : i <= delivered'
  BY <1>0, <1>1 DEF ReadNew, batch, Fresh, IInv, TypeOK
<1>4. \A i \in Ids : Status'[i] = IF i \in batch THEN "held" ELSE Status[i]
  <2> SUFFICES ASSUME NEW i \in Ids PROVE Status'[i] = IF i \in batch THEN "held" ELSE Status[i]
    OBVIOUS
  <2>1. CASE i \in batch
    <3>1. i \in pel'[Name(w)] /\ i \in given' /\ i <= added
      BY <1>0, <1>1, <1>2, <2>1 DEF IInv, TypeOK, Fresh
    <3>2. Pending(i)'
      BY <1>0, <1>1, <3>1 DEF Pending
    <3> QED BY <1>2, <2>1, <3>1, <3>2 DEF Status, IInv, TypeOK
  <2>2. CASE i \notin batch
    <3>1. Pending(i)' = Pending(i) /\ (i \in given' <=> i \in given)
      BY <1>0, <1>1, <1>2, <2>2 DEF Pending, IInv, TypeOK
    <3>2. i <= delivered' => i <= delivered \/ i <= trimmed \/ i > added
      <4>1. i <= delivered' => i \notin Fresh
        BY <1>3, <1>oldest, <2>2
      <4> QED BY <4>1 DEF Fresh, IInv, TypeOK
    <3>3. i <= delivered => i <= delivered'
      BY <1>3
    <3> QED BY <1>2, <2>2, <3>1, <3>2, <3>3 DEF Status
  <2> QED BY <2>1, <2>2
<1>5. \A i \in Ids : Status[i] = "queued" <=> i \in Fresh
  BY StatusOf DEF IInv
<1>6. Status' = [i \in Ids |-> IF i \in batch THEN "held" ELSE Status[i]]
  BY <1>4 DEF Status
<1>7. Contract!Take(batch)
  BY <1>0, <1>1, <1>oldest, <1>2, <1>5, <1>6 DEF Contract!Take, Contract!All, Contract!Become
<1> QED BY <1>0, <1>1, <1>7 DEF Contract!Next

\* What a worker goes through is held.
LEMMA CurrentIsHeld ==
  ASSUME IInv, NEW w \in Workers, NEW i \in Ids, i \in todo[w]
  PROVE  Status[i] = "held" /\ i \in given /\ Pending(i)
<1>1. Name(w) \in Names /\ i \in pel[Name(w)]
  BY NameIsName DEF IInv, Holding, OwnPending
<1>2. i \in given /\ Pending(i)
  BY <1>1 DEF IInv, Holding, PendingOnce, Pending
<1> QED BY <1>2, StatusOf DEF IInv

LEMMA SettleContract ==
  ASSUME IInv, NEW w \in Workers, NEW i \in Ids, i \in todo[w], pel' = Acked(i),
         kind[i] = "event" => done[i] > 0,
         UNCHANGED <<streamVars, groupVars, logVars>>
  PROVE  Contract!Next
<1>1. Status[i] = "held" /\ i \in given
  BY CurrentIsHeld
<1>2. \A j \in Ids : Pending(j)' <=> (j # i /\ Pending(j))
  BY DEF Pending, Acked
<1>3. Status' = [Status EXCEPT ![i] = "settled"]
  <2>1. \A j \in Ids : Status'[j] = IF j = i THEN "settled" ELSE Status[j]
    BY <1>1, <1>2, StatusOf DEF Status, IInv
  <2> QED BY <2>1 DEF Status
<1>4. Contract!Settle(i)
  BY <1>1, <1>3 DEF Contract!Settle
<1> QED BY <1>4 DEF Contract!Next

LEMMA StepContract ==
  ASSUME IInv, [Next]_vars
  PROVE  [Contract!Next]_Contract!vars
<1> USE DEF Contract!vars
<1>1. ASSUME NEW k \in Kinds, Publish(k) PROVE Contract!Next
  BY <1>1, PublishContract
<1>2. CASE Boot
  BY <1>2, BootContract
<1>3. ASSUME NEW w \in Workers, ReadNew(w) PROVE Contract!Next
  BY <1>3, ReadContract
<1>4. ASSUME NEW w \in Workers, NEW i \in Ids, CallbackReturns(w, i) PROVE Contract!Next
  <2>1. Status[i] = "held" /\ kind[i] = "event" /\ done' = [done EXCEPT ![i] = @ + 1] /\ kind' = kind
    BY <1>4, CurrentIsHeld DEF CallbackReturns, Facing, Current
  <2>2. Status' = Status
    BY <1>4, StatusStays DEF CallbackReturns
  <2> QED BY <2>1, <2>2 DEF Contract!Complete, Contract!Next
<1>5. ASSUME NEW w \in Workers, NEW i \in Ids, Ack(w, i) PROVE Contract!Next \/ UNCHANGED Contract!vars
  <2>1. i \in todo[w] /\ done[i] > 0
    BY <1>5 DEF Ack, Current, IInv, Counting, AckAfterDone
  <2>2. CASE pel' = Acked(i)
    BY <1>5, <2>1, <2>2, SettleContract DEF Ack
  <2>3. CASE pel' = pel
    BY <1>5, <2>3, StatusStays DEF Ack
  <2> QED BY <1>5, <2>2, <2>3 DEF Ack
<1>6. ASSUME NEW w \in Workers, NEW i \in Ids, DiscardMalformed(w, i)
      PROVE  Contract!Next \/ UNCHANGED Contract!vars
  <2>1. i \in todo[w] /\ kind[i] # "event"
    BY <1>6 DEF DiscardMalformed, Facing, Current
  <2>2. CASE pel' = Acked(i)
    BY <1>6, <2>1, <2>2, SettleContract DEF DiscardMalformed
  <2>3. CASE pel' = pel
    BY <1>6, <2>3, StatusStays DEF DiscardMalformed
  <2> QED BY <1>6, <2>2, <2>3 DEF DiscardMalformed
<1>7. ASSUME \/ Crash
             \/ \E w \in Workers : ClaimPending(w) \/ RetryDone(w)
             \/ \E w \in Workers, i \in Ids : CallbackRaises(w, i) \/ SkipReclaimed(w, i)
             \/ UNCHANGED vars
      PROVE  UNCHANGED Contract!vars
  BY <1>7, StatusStays DEF Crash, ClaimPending, RetryDone, CallbackRaises, SkipReclaimed, vars
<1> QED BY <1>1, <1>2, <1>3, <1>4, <1>5, <1>6, <1>7 DEF Next, Work, Handle

\* Every behaviour of the stream, the group and its workers is one the contract
\* allows: entries are handed out once and in order, settled only after their
\* callback returned or unread, and a settled entry never comes back.
THEOREM BusKeepsContract == Spec => DeliveryContract
<1>1. Init => Contract!Init
  BY BusAssumption DEF Init, Contract!Init, Status
<1>2. IInv /\ [Next]_vars => [Contract!Next]_Contract!vars
  BY StepContract
<1> QED BY <1>1, <1>2, InvAlways, PTL DEF Spec, DeliveryContract, Contract!Spec
=============================================================================
