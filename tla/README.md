# SecuriSphere in TLA+

SecuriSphere watches a set of services. Monitors turn what they see into
events, a correlation engine turns events into incidents, a campaign layer
turns the incidents of one actor into a campaign, and a dispatcher tells people
about it through one Discord message per campaign. Around this path stand an API
with accounts, an attack console and analysts' requests, a topology collector,
and services that are watched. This directory models the path of an event from
the monitor to the message, and the parts around it that keep state of their own.
The modules are checked with TLC on small instances; the most important
invariants of the stream and of the campaigns are proved with TLAPS for all
instances.

## 1. Inventory

Paths are relative to `src/backend` unless they start with `src`.

| Component | State it keeps | Operations | Hard behaviour | What makes it correct |
|---|---|---|---|---|
| Event bus `engine/correlation/event_bus.py` | Redis stream, consumer group, pending entries per consumer name | `publish_event`, `consume`, `_reclaim_pending` | crashes between callback and XACK, lost replies, trimming, names that change | an entry is handed out once and in order, settled only after processing, retried after a restart |
| Event buffers `engine/correlation/correlation_engine.py` | partitions by correlation key, merged view, one lock | `process_event`, summary and commentary loops, `/engine/clear-buffer`, `/engine/reset` | many threads on one lock, exceptions while pruning | every event reaches the rules; nobody waits for ever |
| Rules and cooldowns (same file) | cooldown times, recent incidents | 19 rules, incident assembly, publication, clear and reset | check-then-set by several workers, exceptions in the middle | a complete attack is reported, and as often per cooldown as there are workers at most |
| Risk scores (same file) | score, peak and level per service | add points, decay, reset | loops that iterate what workers change, lost updates | nobody has more points than were added, scores fade |
| Fallback alerts and narration (same file, `engine/narration`) | time of the last alert per type | narrate, poll, post | two threads per incident, a limit noted before sending | an incident is silent only behind another of its type |
| Campaign aggregator `engine/correlation/campaign_aggregator.py` | `campaigns` table, Redis cache and index, one lock | create or merge, close, sweep, record a message id | two stores written in steps, unlocked sweeper and attach, silent rollback | one open campaign per actor, a row is the merge of its incidents, idle ones close |
| Notification dispatcher `engine/correlation/notification_dispatcher.py` | time of the last `extended` update | POST, PATCH, retry, repost after 404 | threads that overtake each other, lost replies | one message per campaign, alerts only past the gate, high campaigns announced |
| Kill chain, severity, event schema, rule language (`engine/kill_chain`, `engine/severity.py`, `engine/shared`, `engine/rules`) | none | pure functions | greedy matching, ordering, clock formats | agree with their definitions |
| Fingerprinting `engine/anomaly` | a window and a history per service | observe | what is counted before an exception | an anomalous window is reported |
| Threat feed `engine/threat_intel` | an address set | load, pull, look up | a set replaced while it is read, feeds that fail | known addresses stay known |
| Monitors `monitors/*` | windows per address, user or account | detect, publish, reset | windows that a burst straddles, rests, resets during an alert | every burst of a given size is reported |
| Channel `security_events` | nothing | publish, bridge, listen | three modes, reconnections | handed over once and in order, or lost in a known way |
| Topology `topology/*` | services, edges, observed edges, baseline | collect, observe, expire, compare, reset | edges that decay, restarts, a baseline kept after a critical change | a clean graph; the baseline does not creep after changes |
| Accounts `api/auth.py`, `users_bp.py`, `rbac.py` | users, refresh tokens, block list per process | login, refresh, logout, administer | check-then-act across transactions and processes | a token has one successor, changes reach every token |
| Attack console, simulator `api/app.py`, `api/attack_simulator.py` | one record of what runs | start, stop, watch, file | two locks, watchers that end late | one simulation, a console that can be used again |
| Triage, settings, captures `api/*_routes.py`, `api/pcap_handler.py` | decisions, a settings file, jobs | decide, save, upload | two stores, read-modify-write, failures half way | what was acknowledged is kept |
| Live feed `api/app.py`, `frontend` | the dashboard's list | push, poll | late answers, lost pushes | a missed push is caught |
| Campaign and severity backfill `scripts/*` | none of its own | group, insert, relabel | tables others write, stops half way | an incident is counted once, a label is kept |
| Ingestion, indexer `ingestion/`, `search/` | positions in the stream | append, index in bulk | failed batches | an entry is indexed once, or stays pending |
| auth-service `targets/auth-service` | failed attempts, locks | log in, reset | stale writes | no lock is invented |
| Simulation, evaluation drivers, frontend, CLI, WAF | demonstration and presentation | | | |

How they interact:

    monitors --PUBLISH--> security_events --bridge (mode "dual") or the engine
                                            itself (mode "pubsub")-->
    ingestion --XADD--> securisphere:events --XREADGROUP--> workers
                                            --XREADGROUP--> search indexer
      worker: process_event -> buffers -> rules -> publish_incident
        publish_incident -> CampaignAggregator (PostgreSQL, Redis)
                         -> thread: NotificationDispatcher -> Discord
                              -> CampaignAggregator.attach_discord_message
      sweeper thread (60 s) -> CampaignAggregator.sweep_idle
      decay, summary, commentary threads and HTTP requests share the buffers
      and scores with the workers
      where no campaign takes an incident: narration thread, alert thread
    engine, simulator --PUBLISH--> API --web socket--> dashboard --polls--> API
    topology collector --service graph--> rules, monitors

`PROJECT.json` lists every component with its status, and every hazard with its
line and the properties that watch it.

## 2. Modules

| Module | Models | Uses |
|---|---|---|
| `Delivery` | abstract: what a consumer group promises of each entry | |
| `EventBus` | the stream, the group, the workers of `consume` and `_reclaim_pending`, crash and start of the engine | refines `Delivery` |
| `EngineBuffer` | `buffer_lock`, the partitions and everybody who takes the lock | |
| `CampaignMerge` | the pure part of the aggregator: identity, stages, creation, merge, kind of change | |
| `Campaigns` | the aggregator of one engine process: table, cache, index, incident thread, sweeper, message ids | `CampaignMerge` |
| `CampaignAlerts` | the aggregator composed with the notification threads and the Discord channel | `Campaigns` |
| `EventKeys` | correlation key, normalisation and actor filter of an event | |
| `EngineRules` | the 19 rules as operators on a buffer, severity, the account of an incident | |
| `RuleLanguage` | the YAML rules: matching, windows, loading | |
| `Engine` | `process_event` in several workers, cooldowns, publication, requests | `EngineRules`, `RuleLanguage` |
| `KillChain` | the reconstruction of a chain and its row in `kill_chains` | |
| `IncidentAlerts` | the narration and alert threads of an incident without campaign | `KillChain` |
| `Completeness` | how much of an attack a chain tells | |
| `RiskScores` | scores, the decay loop, reset | |
| `Fingerprint` | windows and anomalies of a service | |
| `Bursts` | the windows and rests all monitors share, and their promise | |
| `AuthMonitor`, `ApiMonitor`, `NetworkMonitor` | the detections of each monitor | `Bursts` |
| `Monitors` | the three of them side by side, and what they promise together | `AuthMonitor`, `ApiMonitor`, `NetworkMonitor` |
| `PubSubBridge` | the channel and the three ways from it to the engine | |
| `Ingress` | ingestion, browser and proxy monitors, the indexer | |
| `Topology` | services, edges, rounds | `Drift` |
| `Drift` | the baseline and what is reported against it | |
| `Accounts`, `LoginService` | accounts and tokens of the API; logins of auth-service | |
| `AttackConsole` | console, simulations, watchers | |
| `CampaignTables` | three writers of the campaign tables | |
| `PcapJobs`, `Triage`, `WafConfig`, `ThreatFeed`, `LiveFeed` | one component each | |
| `MC...` | the values TLC uses | |
| `EventBusProofs` | theorems about the bus and its contract | `EventBus` |
| `Induction` | induction and recursion for sets and functions: the lemmas other proofs use for what is folded or counted | |
| `CampaignProofs`, `CampaignAlertProofs` | lemmas about the merge and theorems about rows and their copies; about threads and messages, on top of them | `CampaignAlerts`, `Induction` |
| `MonitorProofs` | the theorem about bursts | `Monitors` |
| `EngineProofs` | theorems about risk scores, kill chains, what comes in, what the rules report and how severe it is, YAML rules, alerts and cooldowns | `RiskScores`, `Engine`, `RuleLanguage`, `IncidentAlerts`, `PubSubBridge`, `Ingress`, `Induction` |
| `ApiProofs` | theorems about campaigns in the tables, captures, settings, decisions, feeds, simulations, accounts, tokens, logins, edges and the baseline | `CampaignTables`, `PcapJobs`, `Topology`, `WafConfig`, `Triage`, `ThreatFeed`, `AttackConsole`, `Accounts`, `LoginService`, `Induction` |

### EventBus

`added`, `kind` and `trimmed` are the stream; `group`, `delivered` and `pel` are
what Redis keeps for the group; `given` is a history variable, the entries ever
handed out; `pc`, `todo` and `ackDue` are the local state of the worker threads;
`done` and `raised` record how callbacks ended. One action is one Redis call or
one callback. `Name` is the heart of the matter: worker 0 uses the bus made in
the engine's constructor, whose consumer name ends in a random suffix, the others
use `engine-<pid>-<i>`, and the pid is 1 in the container. A name that is stable
is modelled as the same name in every incarnation.

`RedisFaults` lets any call of a worker raise, each with the effect the code
gives it: an error of XPENDING gives up the reclaim, a lost reply of XREADGROUP
leaves the batch pending, an error of XACK after a callback leaves one entry
pending, an error of XACK on a malformed entry ends the thread. `ReclaimLimit` is the
count of `xpending_range`, 64 in the code: one start retries that many of a name, the
oldest first, and what lies behind as many that keep raising is never retried
(`Crowded`). The stream itself survives; a restart or eviction of Redis is not modelled. `publish_event` that
fails publishes nothing and is not a step.

### EngineBuffer

Each thread is at a label of its code. `Merge` is the last line of
`_prune_buffers`, a call to `_merged_buffer`, which takes `buffer_lock` while the
caller holds it. The commentary loop's early `continue` releases the lock and
has no other effect on the buffers, so both loops are the same action here.

### Campaigns and CampaignMerge

`ing` is the thread inside `_create_or_update`; `_lock` admits one, so one
program counter is enough for all workers, and the next incident starts when the
last one has returned. `swp` is the sweeper and `att[t]` is notification thread
`t` inside `attach_discord_message`; neither takes the lock. Every statement to
PostgreSQL or Redis is a step: loading (cache, then table) is one, because
nothing is written in between; the row update with its back links is one
transaction; the cached entry and the index are written one after the other and
the second write is missing when the first fails.

`Faults` chooses what goes wrong. `postgres`: a query raises where the code
catches it, and a transaction is rolled back silently because `_backlink`
swallowed the error that aborted it. `redis`: a cache call raises. `eviction`:
the server runs with `allkeys-lru` and entries have a TTL, so a cached entry may
vanish while the index stays. `crash`: the process dies between two steps.
Deaths and failed cache writes are counted in `mishaps`, and three properties
are promised only while that count is zero: after a mishap the code itself lets
the cache fall behind its row.

The statements hand a `list[str]` to columns of type `UUID[]` and compare a `uuid` with
it (`= ANY(%s)`), without the cast `attack_simulator.py` writes
(`campaign_aggregator.py` 377-386, 409, 427). Where the driver's array is not accepted,
every insert and update is the failing one (`postgres`), which the safety properties
include; the branches that succeed assume the conversion. The same holds of
`CampaignTables` and `backfill_campaigns.py` 267-289.

Merged as plain unions, techniques stand for layers and user names too.
Severities are ranks 0..3 and confidences are compared, never computed with.

### CampaignAlerts

`Notify` is the end of `publish_incident`: over the threshold a daemon thread is
started with a copy of the campaign. `Gate` is `dispatch` up to the choice
between POST and PATCH and takes the throttle; the rest of the actions are the
requests, their replies and the calls back into the aggregator. A POST may fail,
or be carried out and lose its reply, which the code cannot tell apart, or answer
without an id. `Delete` is somebody removing a message of the channel. `of` is a
history of the campaigns a message has shown: an id that is recorded after its campaign
closed is written on the cached copy of the actor's next campaign
(`campaign_aggregator.py` 506-512), whose thread then edits the old message. The
e-mail and the `campaign_escalated` publication that follow are left out: they
change nothing the system reads.

### Engine, EngineRules, RuleLanguage, EventKeys

Each event is buffered in one step (what the code does under `buffer_lock`); then
the rules that concern it are looked at one after the other (`RulesOn`, in the
order of `process_event`). A rule that finds evidence and does not rest is fired
in a step of its own, because `_check_cooldown` and `_set_cooldown` are separate
calls: whatever the other workers and `/engine/clear-buffer` or `/engine/reset` do
comes in between. What a rule finds is an operator on the buffer (`Evidence`), so
the rules are also judged by their promises: an attack in two steps by one actor
(`SequenceIsReported`), an account tried from many addresses (`SpreadIsReported`).
Both promises are for what lies between two requests to clear or reset. The target of a
browser's event is a word where the others have a record: a rule that looks into it
raises, which `process_event` catches, and finds nothing. `DistributedAttack` looks into
the target of every event in its window (1448), `ServiceLateral` into those of the actor
(1240), the other rules into the event at hand or the newest they select; so
`SpreadIsReported` asks that no such event be in the window (`Worded`).
`EngineBuffer` shows that no worker gets past the lock as it is; `Engine` describes
what the code behind it does. The risk score an incident is made with is any score.

An event is a record of what rules read, with `bare` for a severity that is a word:
`update_risk_score` cannot read it and the processing ends there (`raised`). A YAML
rule's incident has no title and publishing it raises after it was stored
(`PublishYaml`). `EventKeys` and `RuleLanguage` are operators without state.
A service graph is asked for by one rule and may be unavailable.

### KillChain and IncidentAlerts

`Reconstruct` sorts, drops what has no time or place and builds path, edges and
times. `PersistChain` is the upsert of a row, whose narrative, label and account
other writers fill. `IncidentAlerts` has two threads per incident: the narrator, and
the sender, which looks at the limit, notes the time, polls the narrative and posts.
Looking and noting are separate steps, but no time passes between them, as in the
code, where only other threads come in between.

### RiskScores and Fingerprint

Records are numbered, and the dictionary points to them: a worker that fetched a
record goes on adding to it after the loop has dropped it. Reading, storing and
publishing a score are separate steps of both. The points ever added to a record
are a history variable. In `Fingerprint` one event closes the window, scores it and
opens the next; how `observe` ends is part of the step.

### The monitors

`Bursts` keeps the clock, what was heard and what was reported (both histories).
A window is opened by the first event and replaced by the first event after its
end, so the promise is about bursts of almost twice the threshold that fall into
any span. In `AuthMonitor` publishing an alert is a step of its own, in which Redis
may fail and a reset may come; the rest that follows begins all the same. The check
for credential stuffing comes after that step and reads the clock again: a window
that is by then older than the rest is let go, with as many names as there may be in
it (`auth_monitor.py`, 235-262). The history notes it as "too_late", and the promise
says a burst of names is reported, rests, or was let go in this way. `Monitors`
joins the three; they share nothing but the clock and the two histories.

### PubSubBridge and Ingress

The mode is chosen at the start. Messages on the channel are numbered in order
of publication; a connection has its own queue and loses it when it breaks. In
`Ingress` the stream is a sequence, the indexer asks for new entries only, and its
bulk request, its acknowledgement and its failures are separate steps. A browser's batch
is judged in its order, and an event whose severity is a record ends it (`Weighed`).

### Topology and Drift

One asyncio loop runs the collector and its endpoints and none awaits in the middle
of a change, so each is one step; Docker and Redis may fail in any. The edges of
`_graph_edges` keep an observed edge after it has expired, as the code does. The
graph that is shown is a set of edges: its readers make nothing of their order. A
signature is kept as what it hashes.

### Accounts, LoginService, AttackConsole

In `Accounts` a request is a series of transactions, and between two of them the
other workers go on. A worker's memory (its block list) ends with it. Access tokens
are sets of permissions with an expiry. `LoginService` reads the account, decides and
writes back in separate steps of each request thread; a lock is announced in a step after
its commit, which Redis may refuse, and the process may die in any state (`LoginDies`),
between the two as well. What was wrong with an account before it was cleared with no
login under way is forgotten (`Forgotten`), so tries are counted since then. In `AttackConsole` a request
asks whether something runs under the lock and starts its own run later; simulations
run in the process or beside it, each with a watcher that takes the record back.

### The smaller stores

`CampaignTables` has the engine, the simulator and the backfill script on one pair
of tables, each transaction a step; columns that follow from the incidents are left
to `CampaignMerge`. The engine's thread loads a copy, writes row and links in one
transaction and then the cache, each of which may fail: an insert or update is rolled
back unseen, SETEX keeps the old entry. A notification thread reads a copy and caches it
again later (`AttachLoad`, `AttachCache`), copies are evicted, the engine ends between
any two steps. `missing` is a history of the incidents a copy was without while its row
listed them: the next update from that copy drops them from the row and leaves their
links. `campaign_id` is a foreign key in `scripts/migrations/004_campaigns.sql` (59-67)
and a plain column in `_ensure_schema` (570-576): with the key a link to a row that was
rolled back is refused, without it it stays; the model has both.

`Triage` writes a decision to Redis and then to the table, either of which may refuse;
readers ask Redis, which may fail, and the list never gets a row, because its query
compares a `uuid` with an array of texts (`incidents_routes.py` 91, swallowed at 99). In
`WafConfig` a request that cannot read the file, for whatever reason, goes on with the
defaults (`Read`). In `ThreatFeed` the file is a source like the feeds: one that cannot be
read is passed over. `PcapJobs` models the requests of one component and what may fail or
stop half way. `LiveFeed` follows an
incident from the publication through the relay and the polls to the dashboard, with
two polls that may overtake each other and an API that answers with an empty list when
Redis fails it (`ListsNothing`).

## 3. Runs

| Run | Shows | Bounds |
|---|---|---|
| `bus_safety` | types; only processed entries are settled; one worker per entry; a second processing takes a restart; `Delivery` is implemented | 2 workers, 3 entries, 2 starts, stream of 2, batches of 2, faults |
| `bus_recovery` | what is pending under a stable name is retried, unless hidden behind as many older entries as one start reclaims; what is queued is taken | same, reclaim limit 1, no Redis faults |
| `bus_restart_loss` | violated: "restarts do not lose in-flight events" | 2 entries, 2 starts |
| `campaigns` | one active row per actor; a row is the merge of its incidents; cache, back links and rows move forward only; idle campaigns are swept | 2 incidents of one service, 3 arrivals, clock 0..2, one mishap, every fault |
| `campaign_alerts` | a row's message is its own; every message passed the gate | 3 incidents, 2 arrivals, 2 threads, idle timeout 0, one failed request or deletion, one mishap: a crash or a failing or evicted cache |
| `alerts_live` | a high campaign is announced | 2 incidents, 3 arrivals, 3 threads, idle timeout 0, one failed request or deletion |
| `one_message` | violated: "ONE Discord message per campaign" | 2 arrivals, nothing fails |
| `severity_monotonic` | violated: "severity is monotonic max" | 3 arrivals, nothing fails |
| `engine_lock` | violated: an event that is buffered reaches the rules | 2 workers, 2 keys, 2 events |
| `detection` | the path of an event from monitors to tables, in scenarios (below) | per scenario |
| `services` | the parts around the engine (below) | per part |
| `anomaly_lost` | violated: a report for every anomalous window | 1 service, 2 events per window |

The models that `detection` and `services` run share no state, so a behaviour
chooses one scenario or part and leaves the rest as it is: the states add up.

| Scenario of `detection` | Module | Watched by |
|---|---|---|
| guesses, lockouts | `AuthMonitor`: 5 messages, clock 0..4, thresholds of 1 and 2, 3 names, a rest of 1 for names | `BurstsAreReported` |
| requests | `ApiMonitor`: 5 requests of 3 kinds | `BurstsAreReported` |
| packets | `NetworkMonitor`: 3 ports, 4 connections or 3 packets of any kind | `BurstsAreReported` |
| stream, browsers | `Ingress`: 3 entries, 5 kinds of batches, six kinds of events, taken by two | `EventsComeIn` |
| channel | `PubSubBridge`: 4 messages, every mode, good and malformed ones | `EventsComeIn` |
| wide | `Engine`: 1 worker, 3 events of 15 kinds, up to 900 s before the last | `FiringsBounded`, `AttacksAreReported`, `SeverityHolds` |
| deep | `Engine`: 2 workers, 3 events of one attack, one request, one tick, late events | the same |
| rows | `KillChain`: 2 incidents, 4 chains | `WritingsStay` |
| alerts | `IncidentAlerts`: 2 incidents of 2 types, 2 tries, clock 0..2 | `AttacksAreReported`, `WritingsStay` |
| rules | `RuleLanguage`: 6 rule files, buffers of 3 events | `InputsAreJudgedRightly` |
| chains | `KillChain`: up to 3 events with and without time, trace and place | the same |
| labels | severity and backfill: 5 rules, scores around each threshold | the same |
| keys, names, scores | `EventKeys`, the account of an incident, `Completeness` | the same |

`SeverityHolds` is a floor under the severity of every incident the engine makes, and
`InputsAreJudgedRightly` says of the backfill that it never raises what the engine said;
`AttacksAreReported` joins the promises of the rules to the one of the alerts.

| Part of `services` | Module and bounds | Watched by |
|---|---|---|
| risk | `RiskScores`: 2 workers, 2 services, 2 events of 3 points, decay 2 | `NoPointsFromNothing`, `ScoresFade` |
| topology | `Topology`, `Drift`: 3 services, one redeployed, 1 outage, clock 0..3 | `GraphIsClean`, `BaselineDoesNotCreep` |
| rotation, accounts, sessions | `Accounts`: 2 users, 2 processes, 3 refresh tokens, clock 0..3 | `RotationIsFinal`, `AccessCatchesUp` |
| logins | `LoginService`: 1 account, 3 threads, 4 tries, locked after 2, with and without Redis, deaths | `LocksAreHonest` |
| console | `AttackConsole`: 2 callers, 3 runs, in the process or beside it | `OneSimulation`, `ConsoleReopens` |
| tables | `CampaignTables`: 6 incidents, of which 2 old and 1 simulated, 3 campaigns, 2 runs of the script and failing calls together | `EachIsCountedOnce` |
| captures | `PcapJobs`: 3 captures of scans and tunnels, 2 jobs | `CapturesAreRead` |
| triage, firewall, feeds | 2 requests at a time, 2 decisions, 2 settings, a file and 2 feeds, each of which may fail | `DecisionsAreShown`, `SettingsAreKept`, `IndicatorsStay` |
| live | `LiveFeed`: 2 incidents, a page and a list shorter than all of them, 2 polls | `MissedPushesAreCaught` |

Why the bounds are enough. On the bus, three entries with batches of two give a
batch, a second batch that another worker takes, and an entry trimmed while
pending; two starts give a reclaim of what the first left, under the same name
and under a new one. For campaigns, three arrivals of two incidents give a
creation, a merge and a repeat, or a second campaign after the first is closed
by either of the two closers; the refusal by the unique index happens when the
cache or a failing lookup hides the active row. On the bus's recovery run one start
reclaims a single entry, so that the second of two pending ones is behind the limit. The second incident is older than
the first, repeats one of its steps and one hop of its path, and has a step
without event id, so that every branch of the merge is taken. For alerts, two
threads are enough for one to overtake the other, and with an idle timeout of 0
the actor's second campaign opens while the first one's message id is on its way.
`alerts_live` needs three: one whose late id lands on the second campaign's cached copy,
one that keeps quiet about that campaign because it is below the threshold, and one for
the update that takes it over the threshold and edits the first campaign's message. It
leaves the sweeper out, because loading closes a campaign just as well; with the sweeper
and nothing failing (`Sweeping = TRUE`, `MaxTroubles = 0`) the property holds too.
`alerts_live` has 221,306 distinct states, `campaign_alerts` 1,218,215, `detection`
1,528,894, `services` 398,729.

In `detection` the thresholds are small and the spans are those of the code divided
by 300 s (engine) or shrunk in proportion: what matters is which window an event
falls into, before, at or after its end, and each is reached. A tick of 300 s and a
clock of 0..3 let an event leave the 900 s buffer, a cooldown end, and every rule's
window be met and missed. One worker needs all 15 kinds of events, and two workers
only the few of one attack, because what they share is a partition and a cooldown.
Every rule, every branch of the rules' definitions and every exception is reached.
In `services` two threads or processes are the fewest that race, three where a third
must meet the state two have left (logins, refresh tokens, captures' sources); every
counter is over its limit once. The tables are bounded further (`FewEvents`): the engine's
incidents come one after the other, there are three campaigns, a run of the script more is
a misfortune less, and with a script there are at most five incidents less the runs. When
requests to save settings have met, no new one begins (`LastOnes`): nothing is promised then.

Five things the runs show that the code does not say (each the `finding` of a run):

- After a restart nothing ever retries what the first worker had in hand
  (`bus_restart_loss`). With `CORRELATION_WORKERS` at its default of 1, that is
  the only worker.
- Two incidents of one actor close together give two messages (`one_message`).
- Recording a message id may undo a merge (`severity_monotonic`): the attach
  caches a snapshot it read before the merge, and the next merge starts from it.
- An anomaly is lost when the event that closes its window names its severity in
  a record, as every monitor but the browser's does (`anomaly_lost`).
- `process_event` waits for itself on the first event (`engine_lock`). The
  modules downstream of it describe what the rest of the code does when it is
  called, as its tests do.

Disagreements of the code with its own text that the models contain, without a run that
exhibits them:

- `docs/CORRELATION_ENGINE.md` 56 says mode "dual" matches "if correlation_key OR ip
  agrees". `filter_buffer_by_actor` takes the events with the key, and those of the address only
  when there are none: what has the address and another key is left out. `KeysAgree` asks
  of "dual" only that it finds something whenever there is something.
- `_extract_username` (`correlation_engine.py` 659-660) "never raises; bad events simply
  contribute no candidate". A browser's event, whose target is a word, ends the search
  with no account at all (676-684). `AccountsAreNamed` says when it costs the account.
- One event of a browser in the last 900 s makes `rule_distributed_attack` raise (1448),
  whoever is attacked; the exception is logged as a rule's error and the attack is not
  reported. The rule for lateral movement has the same flaw within an actor's events (1240).
- `/engine/clear-buffer` is there "so leftover events from a prior run don't trigger rules
  in the next scenario" (2311-2316). It empties the merged list, not the partitions, which
  is what most rules read: an attack half before and half after it is reported, without a
  cooldown. `SequenceIsReported` promises nothing of such a pair.
- `topology_collector.py` 118-119 and 615-618 say observed edges decay and are pruned.
  `_prune_stale_observed_edges` prunes the table of when they were seen; their copies in
  `_graph_edges` (147 and after) stay.
- `threat_intel/feed.py` 9-10 says lookup "survives restarts". The addresses of the feeds do
  not: a start replaces the set with those of the file. Nor do a source's addresses survive
  a refresh in which it alone cannot be read (103-107): the set is replaced without them.
- The list of incidents is to show the decision of the row when Redis has none
  (`incidents_routes.py` 83-100); its query compares a `uuid` with an array of texts, which
  PostgreSQL refuses, and the error is swallowed. It shows "active" instead, and the view of
  a single incident "open".
- An error while the firewall's settings are read gives the defaults, and the next save,
  though it names one setting and is answered "success", writes them over all others
  (`config_routes.py` 114-116).
- `backfill_severity.py` 51-54 counts the events of an incident, but the driver returns a
  `UUID[]` as a string unless `register_uuid` is called: it counts 0, and a severity that
  is computed again from an incident's row may be lower than the engine's floor of "high"
  for several events. `LabelsAgree` promises the floor for kill chains only.
- The completeness score pairs steps greedily. Steps of built-in rules name their service,
  those of YAML rules their stage, and a chain merged of both may be scored below what the
  best pairing finds, though never below half of it (`ScoreIsFair`).

What the models contain and the properties therefore do not promise (each is a
behaviour of the code met while modelling):

- 64 pending entries that keep raising hide every later one of their name for good.
- After a crash or a failing SETEX between row and cache, or when a message thread puts an
  old copy back, the next merge drops an incident from the row, whose link stays; an
  unseen rollback (436) leaves a campaign without a row that incidents may be linked to.
- A message id recorded late is written on the actor's next campaign, which then never
  gets a message of its own: its updates edit the message of the one before.
- A campaign of less than high severity that crosses the threshold by an "extended"
  change is held back by the severity gate, until a change of another kind or severity.
- A lock of auth-service is silent when Redis does not take its announcement, when the
  service found no Redis at its start, or when it dies after the commit.
- A decision that Redis did not take is lost to both readers, though it was answered.
- An event of a browser raises in `update_risk_score` (469-474) for its severity, after it
  was buffered; one whose target is a word and that names no service ends in
  `normalize_event` (`event_schema.py` 76-79), before.
- In mode "streams", the default of `EVENT_BUS_MODE` (the comment above it calls
  "dual" the default), nobody forwards the monitors' channel to the stream: the
  engine hears what is ingested and its own anomalies. In "pubsub", a malformed
  message costs every message that waited behind it.
- A YAML rule has no cooldown; its incident has no title, so it never reaches a
  campaign or an alert. A greedy match may miss an instance of a rule that limits
  gaps.
- A fallback alert whose tries all fail silences its type for a minute. A record of
  risk that the decay loop drops while a worker holds it loses the worker's points.
- A restart of the collector reloads the baseline without the observed edges and drifts until a reset.
- Two refreshes of one token at once both succeed and leave a pair that nobody
  replaces; logging out is forgotten when the worker process restarts.
- A late write may unlock an account of auth-service, or leave one locked that has
  just logged in.
- The backfill script may list an incident that the engine is still handling, so
  that two campaigns count it; the engine writes its cached list over an incident
  the simulator filed.
- What the indexer took and did not acknowledge stays pending for good: one event
  with a word for a severity does that to its whole batch.
- An event that the browser monitor published is counted as skipped if the list
  behind it fails; one that the proxy monitor took and could not publish is lost.
- A burst of requests followed by silence is never reported; suspicious failures
  before a login never age.
- Pushes the API's relay misses, and pushes a late poll takes off the screen, come
  back with a later poll if the incident is among the newest 50.

## 4. Fairness

`EventBus!FairSpec`: a worker that can step does (threads of a running process,
callbacks that end), and the container runtime starts a dead engine again
(`restart: unless-stopped`). Weak fairness is enough because a worker's steps are
disabled by nobody but a crash.

`Campaigns!FairSpec`: the sweeper keeps stepping, and no store fails it for ever:
strong fairness of starting with an answering table, of closing, and of a load
that sees an idle campaign. The incident thread needs no fairness for the sweep.

`CampaignAlerts!AlertFairSpec`: the incident thread and every notification thread
run on. No fairness is asked of Discord: the liveness run allows fewer troubles
than a thread has tries, and the property excuses a death of the process, which
loses the thread.

`EngineBuffer!FairSpec`: strong fairness for whoever wants the lock, the strongest
scheduler one could ask for; the violation holds even so.

`MCServices!Services`: the decay loop sleeps and goes on, the console's threads and
processes end, the dashboard polls (weak fairness of each, as one formula because a
behaviour has one part); each worker that adds points goes on where it was (weak
fairness per worker), and a poll that was asked ends, answered or failed (weak fairness). Strong
fairness of the dashboard's listing and of an answer with a list: neither the API nor
Redis fails it every time. `ScoresFade`, `ConsoleReopens` and
`MissedPushesAreCaught` rest on these. `detection` checks safety only and states no
fairness.

## 5. Proofs

`EventBusProofs` proves, for any set of workers and of stable names, any limits and
with or without Redis faults, that `Spec` implies always `TypeOK`,
`OneWorkerPerEntry`, `SettledWasProcessed` and `RedeliveryNeedsRestart`. The
assumption used is `BusAssumption`. None of the last three is inductive. The
strengthening is

    IInv == TypeOK /\ Holding /\ Counting

`Holding` says what a worker goes through is pending under its own name in this
incarnation, that pending sets of different names are disjoint, that what is
pending was handed out, and that entries handed out lie at or below `delivered`:
this is why a new batch cannot overlap anything pending. `Counting` relates how
often a callback returned to the incarnation and to who still has the entry in
hand: an entry in the list a worker is retrying has returned in earlier
incarnations only, and an entry whose acknowledgement is due has returned. TLC
checked `IInv` on the instance of `bus_safety` before it was proved.

The refinement, `BusKeepsContract`: in any state that satisfies `IInv`, a step of the
bus is a step of `Delivery` under the mapping `Status`, or leaves it alone. Only
`XREADGROUP` needs an argument of its own, that the entries it takes are the oldest
ones nobody was given (`FirstNClosed`); a crash and a start map to stutters.

`CampaignProofs` proves `OneActiveRowPerActor` for `Spec` and for `AlertSpec`,
for any incidents, arrivals and threads and any choice of faults. The
invariant is `RowsOK`: the table is a function on campaign ids, a row has an
actor and a status, and no two active rows share an actor. Only the INSERT can
open a campaign and it is guarded by the unique index; every other writer keeps
actors and keeps or closes a status (`KeepingRows`). So it does not matter how
stale a cached copy is.

The next part of `CampaignProofs` is about the copies. `CopiesOK` adds to `RowsOK` that every
copy of a campaign, in the table, in the cache or held by a thread, is complete and
names a campaign that an incident opened; it gives `TypeOK`. `CacheNotBehind`,
`LinkedIsListed` and the action property `RowsOnlyGrow` need one another, and two
facts more:

- `OneOwner`: all copies of a campaign name one actor. The cache is written under
  the actor of the copy; only for this reason does a write after a merge replace the
  entry that was read and leave no older one of the same campaign elsewhere.
- `NoneBehind`: the merged copy on its way to the table lists what the row lists,
  in the same order, and ranks as high (`MergedContinues`); so does each cached copy,
  unless the row has just been written and the cache comes next (`CachedContinues`).
  The update writes the whole row, so a row only grows if no writer holds an older
  copy: the sweeper and the message threads write single columns, and the thread
  that merges is the only one.

All three hold until the process dies or a cache write fails (`mishaps = 0`), as the
properties say. That lists continue each other is a statement about prefixes, proved
from their elements (`PrefixIs` to `PrefixLists`).

Then the merge itself: `RowsAreMerges`, that a row is what its incidents give when they
are merged in their order, one after the other (`RowIsMergeOfItsIncidents`). The loops
of the merge (visits of a path, steps, the sort by time, the incidents of a row) are
recursive functions in `CampaignMerge`. `Induction` has what is needed to reason about
such a function without an operator as a parameter: the step is a function `F` from
numbers to functions on a set `T`, there is a run of it (`Recursion`), only one
(`OneRun`), and what holds at 0 and is kept by each step holds up to `k` because the
numbers it holds for are a set (`InductionUpTo`). `CampaignProofs` shows each loop
to be such a run, and what it gives: a path extended by another is what both are without
repeats (`ExtendPathIs`), merged steps are both lists in time order, each event once but
for those the opening incident repeats (`MergeStepsIs`). A campaign that is the merge of
what it lists is so again after one more incident (`MergedMerges`). On this rests
`MergeOK`, inductive together with the growth of the rows: a row, a cached copy and the
copy in the incident thread's hand are each the merge of what they list themselves. So a
stale copy that is merged into may cost a row an incident, which the property does not
deny, but never leaves a row that says something else than its list.
`IncidentAssumption` is about the incidents the engine publishes: their path has no hop
from a place to itself and their steps are in time order, as the reconstruction in
`KillChain` leaves them (`ChainIsRight`, checked by `detection`).

`CampaignAlertProofs` carries `CopiesOK` over to `AlertSpec` and adds the threads
and the channel (`AlertsOK`). Past its gate a thread holds a copy that passed it,
which gives `AlertsPassTheGate` although the row may have changed since. For
`RowMessageIsOwn`, a call of `attach_discord_message` names a message of its own
campaign, while the copy it loads and caches may be stale (`CallsOK`); a thread is only
started for the incident that was just returned (`InTurn`), so no two share a slot.

`ApiProofs` ends with the topology: that edges appear once needs the list to be in `Seq` with no
repetition, and the static edges to come first in what is rebuilt (`AppendingKeeps`).
`BaselineDoesNotCreep` is inductive with `AnchorsOK`, that the services of the
baseline are the anchored ones and have the neighbours they were anchored with, and
`RewiredAreNamed`, its second half without an outage.

`MonitorProofs`: `MonitorsSpec` implies `BurstsAreReported`, whatever is heard in
whatever order, with alerts that get lost and resets while one is on its way. The reason
is counting. A burst within a span meets at most two windows, because the second one is
only opened when the first is over; so of almost twice the threshold one of the two sees
a threshold (`PartsFit`: between two places there is at most what lies before the start
of the open window and what lies from there on). The invariant is `MonitorsInv`. For each
address and kind the window counts, or lists, what was heard since some place `b` of the
history (`Fits`), and `Kept` says of that place: every burst is due; so is what was heard
from a place before `b` on, near enough to be in one burst with the window, as soon as it
shows a threshold without the window; and so is the window as soon as it shows one. "Due"
is a set of times closed downwards (`IsDown`), those before an alert or before the end of
the rest after it, and it only grows (`Grown`): it is enough that the first message of a
burst is due. The API monitor judges a window only when a later request replaces it, hence its
promise is about bursts that something came after, and its `Closed` leaves the open
window out. In the authentication monitor what is not due yet is due to the alert in hand
(`GuessOK`, `HandlingOK`); a rest that began with an alert that was lost still has its
entry in the history of what was raised (`RestsOK`). Tunnels have no window: `QueryOK`
says what is remembered is all of the last span that no report covers.

`EngineProofs`, first the scores: the decay loop stores a score it computed before
others added points or dropped the record. `HeldIsBacked` bounds the score it holds by
what was added to the record it will store to; `RecordsExist` says that this record is
never another one.

`WritingsAlwaysStay`: an action property of the table of kill chains; a row that is
stored again keeps what others wrote, because the upsert names its columns (`Restored`).

`EventsAlwaysComeIn`: on the stream's side, what the indexer has in its round was not
indexed yet, or all of it was and only the acknowledgement is left (`RoundIsHonest`);
on the channel's, what was handed in and what waits are two rising lists, one before the
other, and a message is in one of them or known to be lost (`BridgeInv`).

`AttacksAlwaysReported` is about `process_event` in any number of workers, with its
alerts. A rule counts over a buffer that others fill and prune while the worker goes
through its rules, so the invariant says what is left in time: a partition holds the events of its
key in the order of the log, and all that are younger than the window (`EventsKept`), so
that a word for a target is only in a merged buffer if the log has such an event within
the window; a
worker has the buffer its event needs, and each watched rule has told what it was to
tell of this event or is still on the worker's list (`WorkersWork`); a cooldown is there
because of an incident (`CooldownsAreDue`); and of a finished event every watched rule
has told (`FinishedAreTold`). What is told stays told while the log and the incidents
grow (`ToldStays`). The rules' counts are about places in the log, `Chosen` gives the
events at some places, and `Sifting` of `Induction` says in which order. `HighAlwaysAnnounced`, which
it includes: between looking at the limit and noting the time no time passes, so one that
was passed over has another of its type close before it (`LimitsKept`),
a text that was read is the row's and stays (`TextsAreRead`), and a thread that gave up
has tried as often as it may (`TriesCounted`).

`SeverityAlwaysHolds` builds on the same invariant: a worker has a list of events to
look through, so what any of the nineteen rules finds is a list (`FindsAList`), and so is
what a YAML rule of any stages finds (`YamlFindsAList`, by induction on the stages). A
list has at least as many entries as it tells of events, so several events are several
steps, and the floor does not lower what either the steps or the rule ask for
(`FloorHolds`), for any score and for any word a YAML file has as its severity.

`YamlRulesAreRight` is about the rule language itself, for every rule and every buffer:
what a rule's search finds is an instance of it (`IsMatch`, by induction on the stages),
and of a buffer in time order a rule that limits no gap misses no instance. The search
takes the first event that fits and never goes back, which is enough because by induction
it is at no stage later than any given instance (`SearchIsEarly`). It assumes a window
that is a natural number and an event that names its service.

Then the cooldowns. A worker looks at a cooldown and sets it later, so others fire the
same rule in between, and the time in the table says little about who fired when. But
one worker does not fire twice within a cooldown: since the last reset the table is no
older than any firing (`RestsSince`), so a worker that finds the rule rested has no
recent firing of its own, and what it has can only get older until it fires (`OwnRest`).
Hence the firings within one cooldown have distinct workers (`OnceEach`), and the
pigeonhole principle gives `FiringsBounded`. Only rules that rest are counted: YAML
rules fire without a cooldown.

`ApiProofs` has the requests and the stores behind them. A token carries a role that was read when its request began.
`RequestOK` and `TokenOK` follow it from there: since when it is known, and that the
account was changed at or after that moment if it says otherwise now (`Known`). With
the bounds on a request's length and a token's life this gives `AccessCatchesUp`.
`RotationIsFinal` is an action property from the same invariant (`RowsInv`: the row
that replaced another is later and of the same account). The module also has the
logins of the auth-service: the stored count may fall behind the tries since the account
was last cleared in peace, never ahead of them, and neither may the count a login has read
and will write (`CountsAreTried`); a lock whose announcement is neither sent nor under way
is one of those noted as lost.

A request to the API takes several steps, and its invariants say what each
that is still on its way has done. `SettingsAreKept`: while no two requests have
overlapped, a single one writes, its text is the wanted settings with its own changes,
and the temporary file is torn or that text (`SaveOK`); the move makes the file what is
wanted (`FileIsWanted`), or, of a request that misread it, the defaults but for its own
changes, which is what `LastSaved` says of the settings in `dropped`. When requests do
overlap, settings are lost, and neither the property nor the theorem says otherwise.
`DecisionsAreShown`: what Redis has is a decision in the making or one that stands, and
for a request under way it is none of those it replaces (`TriageInv`), so an answer never
takes away what is shown. `IndicatorsStay`: what a refresh has collected contains every
source it read, and a source that is held was read or has not been tried (`FeedInv`), so
replacing the set loses nothing that is held. `OneSimulation` needs that what a run of everything has
not shown yet is still to come (`SimOK`); that all the layers occur in it follows from
the scenarios by lemmas about concatenation, for repetitions of any length.

`EachAlwaysCountedOnce` is about three writers of one pair of tables. `TablesInv` says
that what a row lists is linked, and in no other row unless the script raced for it
(`RowsAgree`); that a link names a row of which it is sound (`LinksAgree`); that every copy
of the engine, cached, in the hand of its thread or of a notification thread, lists what
its row lists but for what is `missing`, and shares nothing with another row or a copy of
it (`CopiesAgree`, with `EngineOK` for the copy that has no number yet); that
nobody lists what the engine, the simulator or the script is still going to list, unless
the script read it while the engine had it in hand (`NoneIsListed`); and that what the
script has not linked yet is in a group it still has to insert (`ScriptSees`). That the script's groups
are disjoint and leave nobody out follows from the order of an actor's incidents: each
has a last group that began before it (`Topmost`, for any finite ordered set).

`CapturesAlwaysRead`: `KeptOf` is what the analysis remembers of a source, a recursive
function over the packets. By induction a source was either found already or everything
it sent so far is remembered and harmless (`FoundOrKept`), and what is remembered is
everything since some packet (`KeptIsRecent`). Hence a scan is found exactly if all the
source's packets make one, and a tunnel exactly if some window of its queries does, in
spite of the state that is cleared after each event (`ScansAreFound`,
`TunnelsAreFound`). A job then shows or still has to show, together, what its capture
shows (`JobHolds`).

Assumptions about the constants, each next to the constants and evaluated by TLC:
`BusAssumption`, `CampaignAssumption`, `IncidentAssumption` (severities are ranks
0 to 3, paths and steps as above), `AlertAssumption` of `CampaignAlerts` and of
`IncidentAlerts`, `TopologyAssumption` (edges are between nodes, finitely
many are static), `RiskAssumption`, `LoginAssumption`, `AccountsAssumption` (bounds are
natural numbers), `EngineAssumption` (finitely many workers, a cooldown is a natural
number), `ArrivalsAssumption` (an event comes without what the engine stamps on it;
finitely many keys; a target that is a word comes with a destination), `MonitorsAssumption` (thresholds are positive, those of the API
monitor natural numbers since it asks for more; spans and rests are natural numbers),
`LabelsAssumption` (scores are numbers, the YAML rules and their stages are sequences),
`ChainAssumption` (the mark of a missing value is none),
`IngressAssumption`, `TablesAssumption` (finitely many incidents, whose times are
numbers), `CapturesAssumption` (a capture is a sequence, thresholds are positive), `WafAssumption` (a torn or missing file is no contents), `TriageAssumption` (no decision is
none of them), `FeedAssumption` (no feed is called the file), `ConsoleAssumption`
(loops run a fixed number of times, requests name a scenario). The bounds on clocks, arrivals and faults are constants, so the
theorems hold for every value of them. TLC checked the invariants of the bus, of the
copies and of the threads on the instances of their runs before they were proved.

Model-checked only:

- Liveness (`StableNamesRecover`, `QueuedIsTaken`, `IdleIsSwept`, `ScoresFade`,
  `ConsoleReopens`, `MissedPushesAreCaught`, `HighCampaignIsAnnounced`): fairness
  is out of the prover's reach.
- `InputsAreJudgedRightly`: it is about an input that a run draws for pure functions (YAML
  rules, reconstruction, keys, labels, scores), several of them folds over sequences. Its
  part about YAML rules, `RuleIsRight`, is what `YamlRulesAreRight` proves for every input.

## 6. Plan

Done: the stream, the buffers, campaigns and alerts; the engine's rules, scores and
tables, the monitors and the channel, ingestion and indexer, topology, accounts,
console, and the smaller stores of the API; the proofs above. Left, in this order:

1. An abstract specification of the monitors (a burst is reported within a span) with
   `Bursts` as its refinement mapping.
2. Capture files of the network monitor; the replay recorder.

## 7. Not modelled

Listed with reasons in `PROJECT.json`:

- Real-valued scoring: Bayesian confidence, prediction, Brier and other metrics, the
  isolation forest; the comparison of texts. TLC has no reals, and nothing discrete
  depends on them.
- Static tables (MITRE mapping), generated text (prompts, commentary, narratives),
  presentation, drivers, measurements, demonstration targets.
- Requests that only read the stores: campaigns, kill chains, risk, topology checks,
  evaluation report, the proxies to the engine and to the backend for frontends; the
  audit log, which is appended to and whose failures are passed over.
- Replay: frames are derived once from a stored incident and read back.
- In the modelled components: the wording of messages, the parsing of packets, lines
  and patterns, schema creation (taken as done, so the unique index exists), several
  engine processes on one database, and a loss of the stream by Redis itself.
