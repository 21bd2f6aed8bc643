--------------------------- MODULE CampaignTables ---------------------------
(***************************************************************************)
(* The tables of campaigns and incidents, and the three programs that      *)
(* write them without knowing of each other: the engine's aggregator       *)
(* (modelled in Campaigns with its times and columns; here only with what  *)
(* a campaign lists), the simulator of the attack console                  *)
(* (api/attack_simulator.py, _persist_postgres) and the script that groups *)
(* the incidents of the time before there were campaigns                   *)
(* (scripts/backfill_campaigns.py).                                        *)
(*                                                                         *)
(* The aggregator writes back the copy it has in Redis or in a thread.     *)
(* The copy falls behind the row when the process dies, or Redis fails,    *)
(* between the row and the cache, when a notification thread puts back     *)
(* what it read before, and when the simulator adds to the row; it is      *)
(* ahead of the row when a transaction was rolled back unseen.             *)
(***************************************************************************)
EXTENDS Integers, FiniteSets, FiniteSetsExt, Sequences

CONSTANTS
  Incidents,      \* numbers
  Old,            \* in the database from the start
  Simulated,      \* incidents the console's simulator fires; the engine detects the rest
  ActorOf,        \* incident -> address or user name, or Null
  EngineActorOf,  \* incident -> actor for the engine, which prefers the service
  FirstAt,        \* incident -> time of its kill chain, or Null without one
  Null,
  IdleTime,       \* --idle-timeout
  MaxScripts,     \* bound: times the script is run
  MaxMisfortunes     \* bound: calls of the engine that fail, its ends, and attached messages

ASSUME TablesAssumption ==
  /\ IsFiniteSet(Incidents) /\ Incidents \subseteq Nat /\ Old \subseteq Incidents /\ Null \notin Int
  /\ \A i \in Incidents : FirstAt[i] \in Int \cup {Null}

VARIABLES
  linked,         \* correlated_incidents: incident -> campaign_id, or Null
  chained,        \* the same of kill_chains
  campaigns,      \* table campaigns, by number: [actor, incidents, count, active, stored]
  cached,         \* the engine's cache of active campaigns: actor -> copy
  underWay,       \* incidents the engine has stored and not yet handed to the aggregator
  adding,         \* the thread that holds the aggregator's lock: [at, inc, copy]
  attaching,      \* a notification thread: [actor, copy] it read, or Idle
  failures,       \* bound
  filing,         \* simulated incident -> the campaign found for it, or Null
  script,         \* [at: "off" or "insert", groups: still to insert]
  scripts,        \* history: times the script was run
  missed,         \* history: incidents of groups that were not inserted
  raced,          \* history: incidents a run of the script read while only the engine knew
                  \* of their campaign
  missing         \* history: incidents of a row that a copy of the engine was without

tableVars == <<linked, chained, campaigns>>
engineVars == <<cached, underWay, adding, attaching, failures>>
scriptVars == <<script, scripts, missed, raced>>
campTableVars == <<tableVars, engineVars, filing, scriptVars, missing>>

\* A copy of a campaign: its number, 0 for one that has no row yet, and its list.
NoCopy == [id |-> 0, incidents |-> {}]
Idle == [at |-> "idle", actor |-> Null, inc |-> Null, copy |-> NoCopy]
Off == [at |-> "off", groups |-> {}]

CampTableInit ==
  /\ linked = [i \in Old |-> Null] /\ chained = linked
  /\ campaigns = <<>> /\ cached = <<>> /\ underWay = {} /\ filing = <<>>
  /\ adding = Idle /\ attaching = Idle /\ failures = 0
  /\ script = Off /\ scripts = 0 /\ missed = {} /\ raced = {} /\ missing = {}

ActiveOf(a) == {c \in DOMAIN campaigns : campaigns[c].active /\ campaigns[c].actor = a}

Without(f, x) == [y \in DOMAIN f \ {x} |-> f[y]]
With(f, x, v) == [y \in DOMAIN f \cup {x} |-> IF y = x THEN v ELSE f[y]]
Put(links, some, c) == [j \in DOMAIN links |-> IF j \in some THEN c ELSE links[j]]

RowOf(a, some) ==
  [actor |-> a, incidents |-> some, count |-> Cardinality(some), active |-> TRUE, stored |-> TRUE]

\* A number whose INSERT was rolled back: the engine goes on with it, the table does not
\* know it.
Unstored(a) == [actor |-> a, incidents |-> {}, count |-> 0, active |-> FALSE, stored |-> FALSE]

-----------------------------------------------------------------------------
(* The engine *)

\* The copies the engine may write back.
Copies == {cached[a] : a \in DOMAIN cached} \cup {adding.copy, attaching.copy}

InCopies == UNION {copy.incidents : copy \in Copies}

\* What a call that fails leaves of the bound.
Trouble(fails) ==
  /\ fails => failures < MaxMisfortunes
  /\ failures' = IF fails THEN failures + 1 ELSE failures

\* publish_incident stores the incident and its kill chain.
Detect(i) ==
  /\ i \notin DOMAIN linked \cup Simulated
  /\ linked' = With(linked, i, Null) /\ chained' = With(chained, i, Null)
  /\ underWay' = underWay \cup {i}
  /\ UNCHANGED <<campaigns, cached, adding, attaching, failures, filing, scriptVars>>

RowCopy(a) ==
  IF ActiveOf(a) = {} THEN NoCopy
  ELSE LET c == CHOOSE c \in ActiveOf(a) : TRUE IN [id |-> c, incidents |-> campaigns[c].incidents]

\* _load_active_campaign: from the cache, else from the table; Redis may fail, or both.
Loads(a, fails) ==
  IF fails THEN {RowCopy(a), NoCopy}
  ELSE IF a \in DOMAIN cached THEN {cached[a]}
  ELSE {RowCopy(a)}

Merging(i, copy) ==
  [at |-> "write", actor |-> EngineActorOf[i], inc |-> i, copy |-> [copy EXCEPT !.incidents = @ \cup {i}]]

\* _create_or_update takes the lock, loads and merges.  An incident of nobody is left
\* alone.
AggregateLoad(i, fails) ==
  /\ i \in underWay /\ adding = Idle /\ underWay' = underWay \ {i}
  /\ Trouble(fails)
  /\ IF EngineActorOf[i] = Null THEN adding' = Idle
     ELSE \E copy \in Loads(EngineActorOf[i], fails) : adding' = Merging(i, copy)
  /\ UNCHANGED <<tableVars, cached, attaching, filing, scriptVars>>

\* _persist_update and _backlink, one transaction: the row is overwritten with the
\* copy, and the links of all it lists.  It may be rolled back, which is logged or not
\* seen at all.  A number without a row gets links all the same, where the column is
\* not a foreign key.
AggregateUpdate(fails) ==
  /\ adding.at = "write" /\ adding.copy.id # 0
  /\ LET c == adding.copy.id
         all == adding.copy.incidents
         row == [campaigns[c] EXCEPT !.incidents = all, !.count = Cardinality(all)]
     IN  IF fails THEN UNCHANGED tableVars
         ELSE /\ campaigns' = IF campaigns[c].stored THEN [campaigns EXCEPT ![c] = row] ELSE campaigns
              /\ linked' = Put(linked, all, c) /\ chained' = Put(chained, all, c)
  /\ Trouble(fails) /\ adding' = [adding EXCEPT !.at = "cache"]
  /\ UNCHANGED <<cached, underWay, attaching, filing, scriptVars>>

\* _persist_insert.  When _backlink swallows an error the transaction is rolled back
\* and nobody notices.
AggregateInsert(fails) ==
  /\ adding.at = "write" /\ adding.copy.id = 0 /\ ActiveOf(adding.actor) = {}
  /\ LET c == Len(campaigns) + 1
         all == adding.copy.incidents
     IN  /\ campaigns' = Append(campaigns, IF fails THEN Unstored(adding.actor) ELSE RowOf(adding.actor, all))
         /\ linked' = IF fails THEN linked ELSE Put(linked, all, c)
         /\ chained' = IF fails THEN chained ELSE Put(chained, all, c)
         /\ adding' = [adding EXCEPT !.at = "cache", !.copy.id = c]
  /\ Trouble(fails)
  /\ UNCHANGED <<cached, underWay, attaching, filing, scriptVars>>

\* The index refuses a second active campaign of the actor: the one there is is loaded.
AggregateRefused(fails) ==
  /\ adding.at = "write" /\ adding.copy.id = 0 /\ ActiveOf(adding.actor) # {}
  /\ \E copy \in Loads(adding.actor, fails) :
       adding' = IF copy = NoCopy THEN Idle ELSE Merging(adding.inc, copy)
  /\ Trouble(fails)
  /\ UNCHANGED <<tableVars, cached, underWay, attaching, filing, scriptVars>>

\* Any other error of the INSERT ends the call.
AggregateRaises ==
  /\ adding.at = "write" /\ adding.copy.id = 0 /\ adding' = Idle
  /\ Trouble(TRUE)
  /\ UNCHANGED <<tableVars, cached, underWay, attaching, filing, scriptVars>>

\* SETEX; when it fails the entry stays what it was.
AggregateCache(fails) ==
  /\ adding.at = "cache" /\ adding' = Idle
  /\ cached' = IF fails THEN cached ELSE With(cached, adding.actor, adding.copy)
  /\ Trouble(fails)
  /\ UNCHANGED <<tableVars, underWay, attaching, filing, scriptVars>>

\* attach_discord_message, without the lock: the copy that was read is cached with the
\* number of the message, whatever became of the campaign in between.
AttachLoad(a) ==
  /\ attaching = Idle /\ Trouble(TRUE)
  /\ \E copy \in Loads(a, FALSE) \ {NoCopy} : attaching' = [Idle EXCEPT !.at = "cache", !.actor = a, !.copy = copy]
  /\ UNCHANGED <<tableVars, cached, underWay, adding, filing, scriptVars>>

AttachCache ==
  /\ attaching # Idle /\ attaching' = Idle
  /\ cached' = With(cached, attaching.actor, attaching.copy)
  /\ UNCHANGED <<tableVars, underWay, adding, failures, filing, scriptVars>>

\* sweep_idle and _create_or_update close what they loaded before, which need not be
\* what is cached; that the cached entry goes is Evict.
Sweep(c) ==
  /\ c \in DOMAIN campaigns /\ campaigns[c].active
  /\ campaigns' = [campaigns EXCEPT ![c].active = FALSE]
  /\ UNCHANGED <<linked, chained, engineVars, filing, scriptVars>>

\* The entry is deleted by who closed a campaign, expires or is evicted.
Evict(a) ==
  /\ a \in DOMAIN cached /\ cached' = Without(cached, a)
  /\ UNCHANGED <<tableVars, underWay, adding, attaching, failures, filing, scriptVars>>

\* The engine stops: its threads are gone, tables and cache stay.
EngineStops ==
  /\ underWay # {} \/ adding # Idle \/ attaching # Idle
  /\ underWay' = {} /\ adding' = Idle /\ attaching' = Idle /\ Trouble(TRUE)
  /\ UNCHANGED <<tableVars, cached, filing, scriptVars>>

-----------------------------------------------------------------------------
(* The console's simulator: one transaction, at READ COMMITTED *)

\* SELECT: the actor's active campaign.
LookUp(i) ==
  /\ i \in Simulated \ (DOMAIN linked \cup DOMAIN filing)
  /\ \E c \in IF ActiveOf(ActorOf[i]) = {} THEN {Null} ELSE ActiveOf(ActorOf[i]) : filing' = With(filing, i, c)
  /\ UNCHANGED <<tableVars, engineVars, scriptVars>>

\* UPDATE campaigns: one more, whatever became of the campaign.
Appended(c, i) == [campaigns EXCEPT ![c].incidents = @ \cup {i}, ![c].count = @ + 1]

\* The campaign that was found is added to, or one is made; then both rows of the
\* incident.  A second active campaign of the actor is refused by the index
\* uq_campaign_active_actor, and the whole transaction with it: the incident, which
\* the dashboard was sent before, is not in the database.
FileSimulated(i) ==
  /\ i \in DOMAIN filing /\ filing' = Without(filing, i)
  /\ LET c == IF filing[i] = Null THEN Len(campaigns) + 1 ELSE filing[i]
     IN  IF filing[i] = Null /\ ActiveOf(ActorOf[i]) # {} THEN UNCHANGED tableVars
         ELSE /\ campaigns' = IF filing[i] = Null THEN Append(campaigns, RowOf(ActorOf[i], {i})) ELSE Appended(c, i)
              /\ linked' = With(linked, i, c) /\ chained' = With(chained, i, c)
  /\ UNCHANGED <<engineVars, scriptVars>>

-----------------------------------------------------------------------------
(* The script *)

\* fetch_incidents orders by time; incidents without a kill chain come last.
Earlier(i, j) ==
  IF FirstAt[i] = Null \/ FirstAt[j] = Null THEN FirstAt[j] = Null /\ (FirstAt[i] # Null \/ i < j)
  ELSE FirstAt[i] < FirstAt[j] \/ (FirstAt[i] = FirstAt[j] /\ i < j)

\* Mutant: incidents that have a campaign are grouped again.
GroupableAgain(i) == ActorOf[i] # Null

Groupable(i) == linked[i] = Null /\ ActorOf[i] # Null

LongAfter(j, i) == FirstAt[i] # Null /\ FirstAt[j] # Null /\ FirstAt[j] - FirstAt[i] > IdleTime

\* group_by_actor_window, for the incidents of one actor: a group begins with the first
\* of them and with each that comes long after the one before it.
LastBefore(some, i) == {j \in some : Earlier(j, i) /\ \A k \in some : Earlier(k, i) => ~Earlier(j, k)}
Beginnings(some) == {i \in some : \A j \in LastBefore(some, i) : LongAfter(i, j)}
Group(some, first) ==
  {i \in some : ~Earlier(i, first) /\ ~\E b \in Beginnings(some) : Earlier(first, b) /\ ~Earlier(i, b)}

GroupsOf(some) ==
  UNION {LET his == {i \in some : ActorOf[i] = a} IN {Group(his, first) : first \in Beginnings(his)}
         : a \in {ActorOf[i] : i \in some}}

Fetch ==
  /\ script = Off /\ scripts < MaxScripts /\ scripts' = scripts + 1
  /\ LET groups == GroupsOf({i \in DOMAIN linked : Groupable(i)})
     IN  script' = IF groups = {} THEN Off ELSE [at |-> "insert", groups |-> groups]
  /\ missed' = {} /\ raced' = raced \cup underWay \cup {i \in InCopies : linked[i] = Null}
  /\ UNCHANGED <<tableVars, engineVars, filing>>

After(group) == IF script.groups = {group} THEN Off ELSE [script EXCEPT !.groups = @ \ {group}]

\* build_campaign: it is born closed and lists the whole group.
BuildCampaign(group) ==
  [RowOf(ActorOf[Min(group)], group) EXCEPT !.active = FALSE]

\* insert_campaign: links that came into being since are kept.
InsertGroup(group) ==
  /\ campaigns' = Append(campaigns, BuildCampaign(group))
  /\ linked' = Put(linked, {i \in group : linked[i] = Null}, Len(campaigns'))
  /\ chained' = Put(chained, {i \in group : chained[i] = Null}, Len(campaigns'))
  /\ script' = After(group)
  /\ UNCHANGED <<engineVars, filing, scripts, missed, raced>>

\* The transaction is rolled back and the script goes on with the next group.
InsertFails(group) ==
  /\ script' = After(group) /\ missed' = missed \cup group
  /\ UNCHANGED <<tableVars, engineVars, filing, scripts, raced>>

ScriptStops ==
  /\ script # Off /\ script' = Off /\ missed' = missed \cup UNION script.groups
  /\ UNCHANGED <<tableVars, engineVars, filing, scripts, raced>>

TableStep ==
  \/ \E i \in Incidents : Detect(i) \/ LookUp(i) \/ FileSimulated(i)
  \/ \E fails \in BOOLEAN :
       \/ \E i \in Incidents : AggregateLoad(i, fails)
       \/ AggregateUpdate(fails) \/ AggregateInsert(fails) \/ AggregateRefused(fails) \/ AggregateCache(fails)
  \/ AggregateRaises \/ AttachCache \/ EngineStops
  \/ \E a \in {EngineActorOf[i] : i \in Incidents} : AttachLoad(a) \/ Evict(a)
  \/ \E c \in DOMAIN campaigns : Sweep(c)
  \/ Fetch \/ ScriptStops
  \/ \E group \in script.groups : InsertGroup(group) \/ InsertFails(group)

\* What a copy of the engine has not of the row it would be written to.
Behind == UNION {campaigns[copy.id].incidents \ copy.incidents : copy \in {k \in Copies : k.id # 0}}

CampTableNext == TableStep /\ missing' = missing \cup Behind'

CampTableSpec == CampTableInit /\ [][CampTableNext]_campTableVars

-----------------------------------------------------------------------------
(* Properties *)

ListedBy(i) == {c \in DOMAIN campaigns : i \in campaigns[c].incidents}

\* The campaign a link names lists the incident, or was never stored, or the incident
\* was missing from a copy the engine may have written back.
Sound(link, i) == link \in ListedBy(i) \/ ~campaigns[link].stored \/ i \in missing

\* "Idempotent: incidents that already carry a campaign_id are skipped."  However
\* often the script is run, stopped, or fails half way, whatever the engine and the
\* simulator file meanwhile, and whichever calls of the engine fail: an incident is
\* counted by one campaign, unless the script read it while only the engine knew of
\* its campaign; links and lists agree in both tables, but for the campaigns that were
\* rolled back unseen and the incidents that a stale copy was without, which the next
\* update drops from the list; a count is that of the list; and a finished run leaves
\* no old incident of an actor without a campaign.
EachIsCountedOnce ==
  /\ \A i \in DOMAIN linked :
       /\ Cardinality(ListedBy(i)) <= 1 \/ i \in raced
       /\ linked[i] # Null => Sound(linked[i], i)
       /\ chained[i] # Null => Sound(chained[i], i)
  /\ \A c \in DOMAIN campaigns : campaigns[c].count = Cardinality(campaigns[c].incidents)
  /\ script = Off /\ scripts > 0 => \A i \in Old \ missed : ActorOf[i] # Null => linked[i] # Null
=============================================================================
