----------------------------- MODULE ThreatFeed -----------------------------
(***************************************************************************)
(* engine/threat_intel/feed.py: addresses of ill repute, from a file and   *)
(* from feeds, in a Redis set that every event is looked up in.            *)
(*                                                                         *)
(* One thread of the engine reads the file, pulls the feeds and replaces   *)
(* the set in one transaction.  A source that cannot be read is passed     *)
(* over: its addresses are missing from what replaces the set.  At the     *)
(* start the set is first replaced with what is in the file alone, and     *)
(* what the feeds had said is unknown until they answer again.             *)
(***************************************************************************)
EXTENDS FiniteSets

CONSTANTS
  Feeds,         \* feed -> its addresses
  StaticFile,    \* addresses in static_indicators.txt
  NotPulling

ASSUME FeedAssumption == "file" \notin DOMAIN Feeds

Sources == DOMAIN Feeds \cup {"file"}

Addresses(source) == IF source = "file" THEN StaticFile ELSE Feeds[source]

VARIABLES
  indicators,    \* threat_intel:ips
  pulled,        \* the refresh: feeds tried, what was read and from where, or NotPulling
  feedRunning,   \* the thread has been started
  held           \* history: the sources that were loaded and have been readable since

feedVars == <<indicators, pulled, feedRunning, held>>

FeedInit == indicators = {} /\ pulled = NotPulling /\ feedRunning = FALSE /\ held = {}

\* _bulk_load: one transaction.  When Redis fails, the set stays.
BulkLoad(ips) == indicators' = ips

\* _loop: _seed_static replaces the set, unless the file or Redis cannot be read; a
\* refresh that was under way died with the process.
StartFeed(fileRead, redisUp) ==
  /\ feedRunning' = TRUE /\ pulled' = NotPulling
  /\ IF fileRead /\ redisUp /\ StaticFile # {}
       THEN BulkLoad(StaticFile) /\ held' = {"file"}
       ELSE UNCHANGED indicators /\ held' = IF fileRead THEN held ELSE held \ {"file"}

\* Mutant: the file is only read at the start.
BeginRefreshWithoutFile(fileRead) ==
  /\ feedRunning /\ pulled = NotPulling /\ DOMAIN Feeds # {}
  /\ pulled' = [tried |-> {}, ips |-> {}, from |-> {}]
  /\ UNCHANGED <<indicators, feedRunning, held>>

\* _read_static: a file that is missing or cannot be read has no addresses.
BeginRefreshFeeds(fileRead) ==
  /\ feedRunning /\ pulled = NotPulling /\ DOMAIN Feeds # {}
  /\ pulled' = [tried |-> {},
                ips |-> IF fileRead THEN StaticFile ELSE {},
                from |-> IF fileRead THEN {"file"} ELSE {}]
  /\ held' = IF fileRead THEN held ELSE held \ {"file"}
  /\ UNCHANGED <<indicators, feedRunning>>

\* One feed; one that does not answer is passed over.
PullFeed(f, up) ==
  /\ pulled # NotPulling /\ f \notin pulled.tried
  /\ pulled' = [tried |-> pulled.tried \cup {f},
                ips |-> IF up THEN pulled.ips \cup Feeds[f] ELSE pulled.ips,
                from |-> IF up THEN pulled.from \cup {f} ELSE pulled.from]
  /\ held' = IF up THEN held ELSE held \ {f}
  /\ UNCHANGED <<indicators, feedRunning>>

\* When nothing was read, or Redis fails, the set stays as it is.
EndRefreshFeeds(redisUp) ==
  /\ pulled # NotPulling /\ pulled.tried = DOMAIN Feeds /\ pulled' = NotPulling
  /\ IF redisUp /\ pulled.ips # {} THEN BulkLoad(pulled.ips) /\ held' = held \cup pulled.from
     ELSE UNCHANGED <<indicators, held>>
  /\ UNCHANGED feedRunning

\* lookup
KnownBad(ip) == ip \in indicators

FeedNext ==
  \/ \E read \in BOOLEAN : BeginRefreshFeeds(read) \/ \E up \in BOOLEAN : StartFeed(read, up)
  \/ \E up \in BOOLEAN : EndRefreshFeeds(up) \/ \E f \in DOMAIN Feeds : PullFeed(f, up)

FeedSpec == FeedInit /\ [][FeedNext]_feedVars

-----------------------------------------------------------------------------
(* Property *)

\* refresh_now replaces the whole set, whichever sources failed: an address that was
\* loaded stays known as long as its own source can be read, whatever becomes of the
\* others, of Redis and of refreshes that are cut short.  A source that fails may lose
\* its addresses at the next replacement, though they are still in the set, and so do
\* all feeds when a start loads the file.
IndicatorsStay == \A source \in held : \A ip \in Addresses(source) : KnownBad(ip)
=============================================================================
