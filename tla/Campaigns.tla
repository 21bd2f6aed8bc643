----------------------------- MODULE Campaigns -----------------------------
(***************************************************************************)
(* The campaign aggregator of one engine process                           *)
(* (backend/engine/correlation/campaign_aggregator.py): the campaigns      *)
(* table in PostgreSQL, the Redis cache of open campaigns in front of it,  *)
(* the incident thread that holds the aggregator's lock, the sweeper       *)
(* thread and the notification threads that record a Discord message; the  *)
(* last two take no lock.  Every call to a store is a step of its own; a   *)
(* lookup (cache, then table) is one step.  A call to either store may     *)
(* fail: the code logs the error and goes on.  The process may die between *)
(* any two steps and is started again.                                     *)
(***************************************************************************)
EXTENDS CampaignMerge

CONSTANTS
  Incidents,     \* incident records, ids distinct
  IdleTimeout,   \* CAMPAIGN_IDLE_TIMEOUT, in ticks
  Attachers,     \* notification threads
  NoCampaign,    \* no row, no cached entry, no loaded copy
  MaxTime,       \* bound: clock ticks
  MaxArrivals,   \* bound: incidents handed to the aggregator
  MaxMishaps,    \* bound: deaths of the process and failed cache writes
  Faults         \* what may go wrong, of the four below

ASSUME CampaignAssumption ==
  /\ IdleTimeout \in Nat /\ MaxTime \in Nat
  /\ MaxArrivals \in Nat /\ MaxMishaps \in Nat
  /\ Faults \subseteq {"postgres", "redis", "eviction", "crash"}

IsSequence(s) == s \in Seq(ToSet(s))

StepsOf(some) == UNION {ToSet(inc.steps) : inc \in some}

\* What the engine hands over: the reconstruction (KillChain) orders the steps by
\* time, leaves a service out of the path where the attack stays on it, and makes
\* the same step of an event in every incident; rules of the rule language match
\* events in time order and list a service once.
ASSUME IncidentAssumption ==
  /\ \A inc \in Incidents :
       /\ inc.severity \in 0..3 /\ inc.confidence \in Nat
       /\ IsSequence(inc.path) /\ \A n \in 2..Len(inc.path) : inc.path[n] # inc.path[n - 1]
       /\ IsSequence(inc.steps) /\ \A s \in ToSet(inc.steps) : s.time \in Nat
       /\ \A m, n \in DOMAIN inc.steps : m < n => inc.steps[m].time <= inc.steps[n].time
  /\ \A i, j \in Incidents : i.id = j.id => i = j
  /\ \A s, t \in StepsOf(Incidents) : s.event = t.event /\ s.event # None => s = t

Cids == 1..MaxArrivals   \* one new campaign per arrival at most
Actors == {ResolveActor(inc) : inc \in Incidents}

VARIABLES
  clock,
  rows,      \* the campaigns table, by campaign id
  created,   \* campaign ids used
  linked,    \* correlated_incidents.campaign_id, by incident id
  cache,     \* campaign:active:<actor>
  index,     \* campaign:active:index
  arrivals,  \* incidents handed in so far
  mishaps,   \* deaths of the process and failed cache writes so far
  ing,       \* the incident thread, holding _lock unless idle
  swp,       \* the sweeper thread
  att        \* the notification threads inside attach_discord_message

tableVars == <<rows, created, linked>>
cacheVars == <<cache, index, mishaps>>
threadVars == <<ing, swp, att>>
aggVars == <<clock, tableVars, cacheVars, arrivals, threadVars>>

-----------------------------------------------------------------------------
(* The stores *)

IncidentIds == {inc.id : inc \in Incidents}

IsActive(c) == c # NoCampaign /\ c.status = "active"

ActiveOf(a) == {c \in Cids : IsActive(rows[c]) /\ rows[c].actor = a}

IsIdle(c) == c # NoCampaign /\ clock - c.last > IdleTimeout

\* SELECT ... WHERE actor_id = a AND status = 'active'
ActiveRow(a) ==
  IF ActiveOf(a) = {} THEN NoCampaign
  ELSE rows[CHOOSE c \in ActiveOf(a) : \A d \in ActiveOf(a) : rows[d].last <= rows[c].last]

PgFaults == "postgres" \in Faults
RedisFaults == "redis" \in Faults

\* SELECT; a failing lookup looks like no campaign.
RowReplies(a) == {ActiveRow(a)} \cup (IF PgFaults THEN {NoCampaign} ELSE {})

\* _load_active_campaign: the cached entry; the active row when nothing is
\* cached or the cache does not answer.
Loads(a) ==
  IF cache[a] = NoCampaign THEN RowReplies(a)
  ELSE {cache[a]} \cup (IF RedisFaults THEN RowReplies(a) ELSE {})

\* UPDATE campaigns SET ... WHERE campaign_id: no status, no message id.
UpdatedRows(c) ==
  IF rows[c.cid] = NoCampaign THEN rows
  ELSE [rows EXCEPT ![c.cid] =
         [@ EXCEPT !.ids = c.ids, !.path = c.path, !.steps = c.steps,
                   !.techniques = c.techniques, !.stages = c.stages,
                   !.severity = c.severity, !.confidence = c.confidence,
                   !.last = c.last]]

\* _backlink: the campaign is stamped on every incident it lists.
Backlinked(c) == [i \in IncidentIds |-> IF Lists(c, i) THEN c.cid ELSE linked[i]]

ClosedRows(c) ==
  IF rows[c.cid] = NoCampaign THEN rows
  ELSE [rows EXCEPT ![c.cid].status = "closed"]

\* Two calls on the cache, the entry and then the index; the second is not
\* made when the first fails.
CacheCalls(entry, idx) ==
  \/ cache' = entry /\ index' = idx /\ UNCHANGED mishaps
  \/ /\ RedisFaults /\ mishaps < MaxMishaps /\ mishaps' = mishaps + 1
     /\ cache' \in {cache, entry} /\ UNCHANGED index

\* Mutant: the index holds the bare value of the actor.
CacheSetBare(c) == CacheCalls([cache EXCEPT ![c.actor] = c], index \cup {c.actor[2]})

CacheSet(c) == CacheCalls([cache EXCEPT ![c.actor] = c], index \cup {c.actor})

CacheDelete(a) == CacheCalls([cache EXCEPT ![a] = NoCampaign], index \ {a})

NoIngest == [pc |-> "idle", inc |-> None, copy |-> NoCampaign, kind |-> "none"]
NoSweep  == [pc |-> "idle", left |-> {}, copy |-> NoCampaign]
NoAttach == [pc |-> "idle", cid |-> 0, message |-> None, copy |-> NoCampaign]

-----------------------------------------------------------------------------
Init ==
  /\ clock = 0
  /\ rows = [c \in Cids |-> NoCampaign]
  /\ created = 0
  /\ linked = [i \in IncidentIds |-> 0]
  /\ cache = [a \in Actors |-> NoCampaign]
  /\ index = {}
  /\ arrivals = 0 /\ mishaps = 0
  /\ ing = NoIngest
  /\ swp = NoSweep
  /\ att = [t \in Attachers |-> NoAttach]

Tick == /\ clock < MaxTime
        /\ clock' = clock + 1
        /\ UNCHANGED <<tableVars, cacheVars, arrivals, threadVars>>

\* A cached entry expires or is evicted; the index is a key of its own.
Evict(a) ==
  /\ "eviction" \in Faults
  /\ cache[a] # NoCampaign
  /\ cache' = [cache EXCEPT ![a] = NoCampaign]
  /\ UNCHANGED <<clock, tableVars, index, mishaps, arrivals, threadVars>>

\* The process dies: its threads are gone, the stores stay.
Crash ==
  /\ "crash" \in Faults /\ mishaps < MaxMishaps
  /\ mishaps' = mishaps + 1
  /\ ing' = NoIngest /\ swp' = NoSweep
  /\ att' = [t \in Attachers |-> NoAttach]
  /\ UNCHANGED <<clock, tableVars, cache, index, arrivals>>

-----------------------------------------------------------------------------
(* _create_or_update, under _lock *)

ingUnchanged == <<clock, arrivals, swp, att>>

IngestStart(inc) ==
  /\ ing.pc = "idle" /\ arrivals < MaxArrivals
  /\ ResolveActor(inc) # NoActor
  /\ arrivals' = arrivals + 1
  /\ ing' = [NoIngest EXCEPT !.pc = "load", !.inc = inc]
  /\ UNCHANGED <<clock, tableVars, cacheVars, swp, att>>

\* The incident is merged into copy c, still in memory.
MergeInto(c) ==
  ing' = [ing EXCEPT !.pc = "update", !.copy = Merged(c, ing.inc, clock),
                     !.kind = ChangeKind(c, ing.inc)]

IngestLoad ==
  /\ ing.pc = "load"
  /\ \E c \in Loads(ResolveActor(ing.inc)) :
       \/ c = NoCampaign /\ ing' = [ing EXCEPT !.pc = "insert"]
       \/ /\ IsIdle(c)
          /\ ing' = [ing EXCEPT !.pc = "close", !.copy = c]
       \/ /\ c # NoCampaign /\ ~IsIdle(c) /\ Lists(c, ing.inc.id)
          /\ ing' = [ing EXCEPT !.pc = "return", !.copy = c, !.kind = "duplicate"]
       \/ /\ c # NoCampaign /\ ~IsIdle(c) /\ ~Lists(c, ing.inc.id)
          /\ MergeInto(c)
  /\ UNCHANGED <<tableVars, cacheVars, ingUnchanged>>

\* _close_campaign for the idle copy: the row, then the cached entry; when the
\* update fails the entry stays.
IngestClose ==
  /\ ing.pc = "close"
  /\ \/ /\ rows' = ClosedRows(ing.copy)
        /\ ing' = [ing EXCEPT !.pc = "uncache"]
     \/ /\ PgFaults
        /\ ing' = [ing EXCEPT !.pc = "insert"]
        /\ UNCHANGED rows
  /\ UNCHANGED <<created, linked, cacheVars, ingUnchanged>>

IngestUncache ==
  /\ ing.pc = "uncache"
  /\ CacheDelete(ing.copy.actor)
  /\ ing' = [ing EXCEPT !.pc = "insert"]
  /\ UNCHANGED <<tableVars, ingUnchanged>>

InsertRow(c) == rows' = [rows EXCEPT ![c.cid] = c] /\ linked' = Backlinked(c)

\* Mutant: without the unique index.
IngestInsertAnyway ==
  /\ ing.pc = "insert"
  /\ LET c == NewCampaign(created + 1, ing.inc, clock)
     IN  /\ InsertRow(c) /\ created' = created + 1
         /\ ing' = [ing EXCEPT !.pc = "cache", !.copy = c, !.kind = "created"]
  /\ UNCHANGED <<cacheVars, ingUnchanged>>

\* INSERT: done; or refused by the unique index on active actors; or rolled
\* back unseen because a swallowed error of _backlink aborted the transaction;
\* or raised, which ends the call with no campaign.
IngestInsert ==
  /\ ing.pc = "insert"
  /\ LET c == NewCampaign(created + 1, ing.inc, clock)
         opened == ing' = [ing EXCEPT !.pc = "cache", !.copy = c, !.kind = "created"]
     IN  \/ /\ ActiveOf(c.actor) = {}
            /\ InsertRow(c) /\ opened /\ created' = created + 1
         \/ /\ ActiveOf(c.actor) # {}
            /\ ing' = [ing EXCEPT !.pc = "reload"]
            /\ UNCHANGED tableVars
         \/ /\ PgFaults /\ ActiveOf(c.actor) = {}
            /\ opened /\ created' = created + 1
            /\ UNCHANGED <<rows, linked>>
         \/ /\ PgFaults
            /\ ing' = NoIngest
            /\ UNCHANGED tableVars
  /\ UNCHANGED <<cacheVars, ingUnchanged>>

\* After the refusal: merge into the open campaign, without asking whether it
\* lists the incident; nothing is done when it cannot be found.
IngestReload ==
  /\ ing.pc = "reload"
  /\ \E c \in Loads(ResolveActor(ing.inc)) :
       \/ c = NoCampaign /\ ing' = NoIngest
       \/ c # NoCampaign /\ MergeInto(c)
  /\ UNCHANGED <<tableVars, cacheVars, ingUnchanged>>

\* Mutants: the cached entry is not refreshed; the back links are committed on
\* their own.
IngestUpdateUncached ==
  /\ ing.pc = "update"
  /\ rows' = UpdatedRows(ing.copy) /\ linked' = Backlinked(ing.copy)
  /\ ing' = [ing EXCEPT !.pc = "return"]
  /\ UNCHANGED <<created, cacheVars, ingUnchanged>>

IngestUpdateLinksApart ==
  /\ ing.pc = "update"
  /\ \/ rows' = UpdatedRows(ing.copy)
     \/ PgFaults /\ UNCHANGED rows
  /\ linked' = Backlinked(ing.copy)
  /\ ing' = [ing EXCEPT !.pc = "cache"]
  /\ UNCHANGED <<created, cacheVars, ingUnchanged>>

\* UPDATE and back links in one transaction; a failure is only logged.
IngestUpdate ==
  /\ ing.pc = "update"
  /\ \/ rows' = UpdatedRows(ing.copy) /\ linked' = Backlinked(ing.copy)
     \/ PgFaults /\ UNCHANGED <<rows, linked>>
  /\ ing' = [ing EXCEPT !.pc = "cache"]
  /\ UNCHANGED <<created, cacheVars, ingUnchanged>>

IngestCache ==
  /\ ing.pc = "cache"
  /\ CacheSet(ing.copy)
  /\ ing' = [ing EXCEPT !.pc = "return"]
  /\ UNCHANGED <<tableVars, ingUnchanged>>

IngestReturn ==
  /\ ing.pc = "return"
  /\ ing' = NoIngest
  /\ UNCHANGED <<tableVars, cacheVars, ingUnchanged>>

IngestStep == IngestLoad \/ IngestClose \/ IngestUncache \/ IngestInsert
              \/ IngestReload \/ IngestUpdate \/ IngestCache

-----------------------------------------------------------------------------
(* sweep_idle, every 60 seconds, without the lock *)

swpUnchanged == <<clock, arrivals, ing, att>>

\* Mutant: the sweep covers the index only.
SweepStartOfIndex(pgFails) ==
  /\ swp.pc = "idle"
  /\ swp' = [NoSweep EXCEPT !.pc = "scan", !.left = index]
  /\ UNCHANGED <<tableVars, cacheVars, swpUnchanged>>

\* The actors of the index and of idle active rows; either query may fail.
SweepStart(pgFails) ==
  /\ swp.pc = "idle"
  /\ LET stale == IF pgFails THEN {}
                  ELSE {a \in Actors : \E c \in ActiveOf(a) : IsIdle(rows[c])}
     IN  \E listed \in {index} \cup (IF RedisFaults THEN {{}} ELSE {}) :
           swp' = [NoSweep EXCEPT !.pc = "scan", !.left = listed \cup stale]
  /\ UNCHANGED <<tableVars, cacheVars, swpUnchanged>>

SweepLoad(a) ==
  /\ swp.pc = "scan" /\ a \in swp.left
  /\ \E c \in Loads(a) :
       \/ /\ IsIdle(c)
          /\ swp' = [pc |-> "close", left |-> swp.left \ {a}, copy |-> c]
       \/ /\ ~IsIdle(c)
          /\ swp' = [swp EXCEPT !.left = @ \ {a}]
  /\ UNCHANGED <<tableVars, cacheVars, swpUnchanged>>

SweepClose(pgFails) ==
  /\ swp.pc = "close"
  /\ rows' = IF pgFails THEN rows ELSE ClosedRows(swp.copy)
  /\ swp' = IF pgFails THEN [swp EXCEPT !.pc = "scan", !.copy = NoCampaign]
            ELSE [swp EXCEPT !.pc = "uncache"]
  /\ UNCHANGED <<created, linked, cacheVars, swpUnchanged>>

SweepUncache ==
  /\ swp.pc = "uncache"
  /\ CacheDelete(swp.copy.actor)
  /\ swp' = [swp EXCEPT !.pc = "scan", !.copy = NoCampaign]
  /\ UNCHANGED <<tableVars, swpUnchanged>>

SweepEnd ==
  /\ swp.pc = "scan" /\ swp.left = {}
  /\ swp' = NoSweep
  /\ UNCHANGED <<tableVars, cacheVars, swpUnchanged>>

SweepStep ==
  \/ \E pgFails \in {FALSE, PgFaults} : SweepStart(pgFails) \/ SweepClose(pgFails)
  \/ \E a \in Actors : SweepLoad(a)
  \/ SweepUncache \/ SweepEnd

-----------------------------------------------------------------------------
(* attach_discord_message, in a notification thread, without the lock *)

attUnchanged == <<clock, created, linked, arrivals, ing, swp>>

AttachStart(t, cid, message) ==
  /\ att[t].pc = "idle"
  /\ att' = [att EXCEPT ![t] = [NoAttach EXCEPT !.pc = "row", !.cid = cid, !.message = message]]

AttachEnd(t) == att' = [att EXCEPT ![t] = NoAttach]

\* Mutant: the message is recorded on the open campaign of the actor.
AttachRowOfActor(t) ==
  /\ att[t].pc = "row"
  /\ LET open == IF rows[att[t].cid] = NoCampaign THEN {} ELSE ActiveOf(rows[att[t].cid].actor)
     IN  rows' = [c \in Cids |-> IF c \in open THEN [rows[c] EXCEPT !.message = att[t].message]
                                ELSE rows[c]]
  /\ att' = [att EXCEPT ![t].pc = "load"]
  /\ UNCHANGED <<cacheVars, attUnchanged>>

AttachRow(t) ==
  /\ att[t].pc = "row"
  /\ \/ /\ rows' = IF rows[att[t].cid] = NoCampaign THEN rows
                   ELSE [rows EXCEPT ![att[t].cid].message = att[t].message]
        /\ att' = [att EXCEPT ![t].pc = "load"]
     \/ /\ PgFaults
        /\ AttachEnd(t)
        /\ UNCHANGED rows
  /\ UNCHANGED <<cacheVars, attUnchanged>>

\* The actor of the row, and then whatever campaign that actor has open.
AttachLoad(t) ==
  /\ att[t].pc = "load"
  /\ LET row == rows[att[t].cid]
     IN  \/ (row = NoCampaign \/ PgFaults) /\ AttachEnd(t)
         \/ /\ row # NoCampaign
            /\ \E c \in Loads(row.actor) :
                 \/ c = NoCampaign /\ AttachEnd(t)
                 \/ /\ c # NoCampaign
                    /\ att' = [att EXCEPT ![t].pc = "cache", ![t].copy = c]
  /\ UNCHANGED <<rows, cacheVars, attUnchanged>>

AttachCache(t) ==
  /\ att[t].pc = "cache"
  /\ CacheSet([att[t].copy EXCEPT !.message = att[t].message])
  /\ AttachEnd(t)
  /\ UNCHANGED <<rows, attUnchanged>>

AttachStep(t) == AttachRow(t) \/ AttachLoad(t) \/ AttachCache(t)

-----------------------------------------------------------------------------
(* The aggregator on its own: no notification is sent.  CampaignAlerts adds  *)
(* the notification threads.                                                 *)

Next ==
  \/ Tick \/ Crash
  \/ \E a \in Actors : Evict(a)
  \/ \E inc \in Incidents : IngestStart(inc)
  \/ IngestStep
  \/ IngestReturn
  \/ SweepStep

Spec == Init /\ [][Next]_aggVars

\* The sweeper thread never stops; no store fails it for ever.
SweeperFairness ==
  /\ WF_aggVars(SweepStep)
  /\ SF_aggVars(SweepStart(FALSE)) /\ SF_aggVars(SweepClose(FALSE))
  /\ \A a \in Actors : SF_aggVars(SweepLoad(a) /\ swp'.pc = "close")

FairSpec == Spec /\ SweeperFairness

-----------------------------------------------------------------------------
(* Properties *)

Severities == 0..3

IsCampaign(c) ==
  /\ c.cid \in Cids /\ c.actor \in Actors
  /\ c.severity \in Severities /\ c.last \in 0..MaxTime
  /\ c.status \in {"active", "closed"}

IsCampaignOrNone(c) == c = NoCampaign \/ IsCampaign(c)

TypeOK ==
  /\ clock \in 0..MaxTime /\ arrivals \in 0..MaxArrivals /\ mishaps \in 0..MaxMishaps
  /\ created \in 0..arrivals
  /\ DOMAIN rows = Cids /\ \A c \in Cids : IsCampaignOrNone(rows[c])
  /\ linked \in [IncidentIds -> {0} \cup Cids]
  /\ DOMAIN cache = Actors /\ \A a \in Actors : IsCampaignOrNone(cache[a])
  /\ index \subseteq Actors
  /\ ing.pc \in {"idle", "load", "close", "uncache", "insert", "reload", "update",
                 "cache", "return"}
  /\ ing.pc # "idle" => ing.inc \in Incidents
  /\ ing.pc \in {"close", "uncache", "update", "cache", "return"} => IsCampaign(ing.copy)
  /\ swp.pc \in {"idle", "scan", "close", "uncache"} /\ swp.left \subseteq Actors
  /\ swp.pc \in {"close", "uncache"} => IsCampaign(swp.copy)

\* "Guarantees at most one open campaign per actor": not two active rows,
\* whatever fails.
OneActiveRowPerActor ==
  \A c, d \in Cids :
    IsActive(rows[c]) /\ IsActive(rows[d]) /\ rows[c].actor = rows[d].actor => c = d

\* The merge, defined over all the incidents of a campaign at once.
IncidentOf(i) == CHOOSE inc \in Incidents : inc.id = i

\* p is s without immediate repeats: the k-th of s is found in p after as many
\* changes as s has up to k.
ChangesUpTo(s, k) == {j \in 1..k : j = 1 \/ s[j] # s[j - 1]}

WithoutRepeats(p, s) ==
  /\ Len(p) = Cardinality(ChangesUpTo(s, Len(s)))
  /\ \A k \in DOMAIN s : p[Cardinality(ChangesUpTo(s, k))] = s[k]

Members(ids) == [n \in DOMAIN ids |-> IncidentOf(ids[n])]

PathsOf(ids) == FlattenSeq([n \in DOMAIN ids |-> Members(ids)[n].path])

Repeats(steps, event) == \E m, n \in DOMAIN steps : m < n /\ steps[m].event = event /\ steps[n].event = event

InTimeOnce(steps, first) ==
  \A m, n \in DOMAIN steps :
    m < n => /\ steps[m].time <= steps[n].time
             /\ steps[m].event = None \/ steps[m].event # steps[n].event \/ Repeats(first, steps[m].event)

MergesWhatItLists(c) ==
  LET incs == ToSet(Members(c.ids))
  IN  /\ \A inc \in incs : ResolveActor(inc) = c.actor
      /\ c.severity = Max({inc.severity : inc \in incs})
      /\ c.confidence = Max({inc.confidence : inc \in incs})
      /\ c.stages = UNION {StagesOf(inc) : inc \in incs}
      /\ c.techniques = UNION {inc.techniques : inc \in incs}
      /\ WithoutRepeats(c.path, PathsOf(c.ids))
      /\ ToSet(c.steps) = StepsOf(incs)
      /\ InTimeOnce(c.steps, Members(c.ids)[1].steps)

\* A campaign row is the merge of exactly the incidents it lists: one actor's,
\* severity and confidence the greatest, stages and techniques united, paths
\* joined without repeats, steps in time order and once per event, but for an
\* event that the incident it was opened with repeats.
RowIsMergeOfItsIncidents ==
  \A c \in Cids : rows[c] # NoCampaign => MergesWhatItLists(rows[c])

\* The cached copy of a campaign is not behind its row, except while the
\* incident thread is on its way from the one to the other, until the process
\* dies on that way or a cache write fails.
CacheNotBehind ==
  \A a \in Actors :
    mishaps = 0 /\ cache[a] # NoCampaign =>
      LET row == rows[cache[a].cid]
      IN  \/ row = NoCampaign
          \/ IsPrefix(row.ids, cache[a].ids)
          \/ ing.pc = "cache" /\ ing.copy.ids = row.ids

\* The row of the campaign an incident is stamped with lists the incident.  (The
\* row may be missing: a campaign whose INSERT was rolled back unseen lives on
\* in the cache, and its next update stamps its incidents all the same.)
LinkedIsListed ==
  \A i \in IncidentIds :
    mishaps = 0 /\ linked[i] # 0 /\ rows[linked[i]] # NoCampaign => Lists(rows[linked[i]], i)

\* Campaign rows only grow: no update drops an incident or lowers the severity,
\* until the process dies or a cache write fails.
RowsOnlyGrow ==
  [][\A c \in Cids : mishaps = 0 /\ rows[c] # NoCampaign =>
       /\ IsPrefix(rows[c].ids, rows'[c].ids)
       /\ rows[c].severity <= rows'[c].severity]_rows

\* "A campaign auto-closes": a row that has been idle too long is closed or gets
\* an incident, unless a younger cached copy stands in front of it.
Overdue(c) ==
  /\ IsActive(rows[c]) /\ IsIdle(rows[c])
  /\ cache[rows[c].actor] = NoCampaign \/ IsIdle(cache[rows[c].actor])

IdleIsSwept == \A c \in Cids : Overdue(c) ~> ~Overdue(c)
=============================================================================
