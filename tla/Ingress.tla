------------------------------- MODULE Ingress -------------------------------
(***************************************************************************)
(* How events come in and where they are kept for search:                  *)
(* ingestion/main.py appends them to the event stream, the browser and     *)
(* proxy monitors publish them, search/indexer.py copies the stream to     *)
(* Elasticsearch as one consumer of a group of its own.                    *)
(*                                                                         *)
(* The indexer asks for new entries only (">"): what it took and did not   *)
(* acknowledge, because it failed or stopped in between, it never asks for *)
(* again.                                                                  *)
(***************************************************************************)
EXTENDS Naturals, Sequences, FiniteSets

CONSTANTS
  Batches,         \* lists of events clients send: sequences of kinds
  Take,            \* 50 entries at a time
  MaxEntries       \* bound: entries and publications

\* Kinds of event: "plain"; "blank" (no payload, or not JSON); "bare" (its severity
\* is a word, which the indexer takes for a record and fails); "odd" (Elasticsearch
\* refuses it, for its date); "unknown" (a browser event of no registered site, or
\* one that is not valid); "nested" (a browser event whose severity is a record).
Kinds == {"plain", "blank", "bare", "odd", "unknown", "nested"}

ASSUME IngressAssumption == {Take, MaxEntries} \subseteq Nat /\ Batches \subseteq Seq(Kinds)

VARIABLES
  stream,          \* entries, in order
  sending,         \* POST /ingest/events: what is left of the list
  taken,           \* how many entries the group has delivered
  pending,         \* delivered and not acknowledged
  batch,           \* the indexer: entries it took and has not indexed
  toAck,           \* and those it will acknowledge
  indexed,         \* entry -> times Elasticsearch was given it
  channel,         \* browser and proxy events published
  proxyList        \* events:proxy, which the web server fills

ingressVars == <<stream, sending, taken, pending, batch, toAck, indexed, channel, proxyList>>
indexerVars == <<taken, pending, batch, toAck, indexed>>

IngressInit ==
  /\ stream = <<>> /\ sending = <<>>
  /\ taken = 0 /\ pending = {} /\ batch = {} /\ toAck = {}
  /\ indexed = [n \in 1..MaxEntries |-> 0]
  /\ channel = <<>> /\ proxyList = <<>>

-----------------------------------------------------------------------------
(* Ingestion: one XADD per event *)

Ingest(list) ==
  /\ sending = <<>> /\ sending' = list
  /\ UNCHANGED <<stream, indexerVars, channel, proxyList>>

Xadd ==
  /\ sending # <<>> /\ Len(stream) < MaxEntries
  /\ stream' = Append(stream, Head(sending)) /\ sending' = Tail(sending)
  /\ UNCHANGED <<indexerVars, channel, proxyList>>

\* POST /ingest/syslog and /ingest/docker-events make one event, of a form that
\* every reader knows.
IngestOne ==
  /\ sending = <<>> /\ sending' = <<"plain">>
  /\ UNCHANGED <<stream, indexerVars, channel, proxyList>>

\* Redis fails: the answer is an error, and what was appended stays.
XaddFails ==
  /\ sending # <<>> /\ sending' = <<>>
  /\ UNCHANGED <<stream, indexerVars, channel, proxyList>>

-----------------------------------------------------------------------------
(* Browser and proxy monitors *)

\* validate_event and site_is_registered
Valid(kind) == kind # "unknown"

\* enrich
Enriched(kind) == [from |-> "browser", kind |-> kind]

\* A severity that is a record cannot be looked up in the set of those allowed: the
\* request fails there, and the rest of the list is not judged.
Weighed(list) == {k \in DOMAIN list : \A j \in 1..k : list[j] # "nested"}

\* ingest: each event is judged on its own; one Redis does not take is skipped.
BrowserIngest(list) ==
  /\ Len(channel) + Len(list) <= MaxEntries
  /\ \E lost \in SUBSET DOMAIN list :
       LET sound == SelectSeq([k \in DOMAIN list |-> k], LAMBDA k : Valid(list[k]) /\ k \in Weighed(list) \ lost)
       IN  channel' = channel \o [n \in DOMAIN sound |-> Enriched(list[sound[n]])]
  /\ UNCHANGED <<stream, sending, indexerVars, proxyList>>

WafWrites(kind) ==
  /\ Len(proxyList) < 1
  /\ proxyList' = Append(proxyList, kind)
  /\ UNCHANGED <<stream, sending, indexerVars, channel>>

\* build_event
ProxyEvent(kind) == [from |-> "proxy", kind |-> kind]

\* run: an item is taken off the list before it is published.
ProxyForward ==
  /\ proxyList # <<>> /\ Len(channel) < MaxEntries
  /\ proxyList' = Tail(proxyList)
  /\ \/ Head(proxyList) # "blank" /\ channel' = Append(channel, ProxyEvent(Head(proxyList)))
     \/ channel' = channel
  /\ UNCHANGED <<stream, sending, indexerVars>>

-----------------------------------------------------------------------------
(* The indexer *)

Upto(n) == {k \in taken+1..Len(stream) : k <= taken + n}

\* Mutant: entries are acknowledged when they are taken.
TakeAcknowledged ==
  /\ batch = {} /\ toAck = {} /\ taken < Len(stream)
  /\ taken' = taken + Cardinality(Upto(Take))
  /\ batch' = {k \in Upto(Take) : stream[k] # "blank"} /\ toAck' = Upto(Take)
  /\ UNCHANGED <<stream, sending, pending, indexed, channel, proxyList>>

\* XREADGROUP and the reading of what came; a "bare" event ends the round.
TakeEntries ==
  /\ batch = {} /\ toAck = {} /\ taken < Len(stream)
  /\ LET new == Upto(Take)
         fails == \E k \in new : stream[k] = "bare"
     IN  /\ taken' = taken + Cardinality(new)
         /\ pending' = pending \cup new
         /\ batch' = IF fails THEN {} ELSE {k \in new : stream[k] # "blank"}
         /\ toAck' = IF fails THEN {} ELSE new
  /\ UNCHANGED <<stream, sending, indexed, channel, proxyList>>

\* bulk_index: errors of single items are not looked at.
BulkIndex ==
  /\ batch # {}
  /\ indexed' = [k \in DOMAIN indexed |-> IF k \in batch /\ stream[k] # "odd" THEN indexed[k] + 1 ELSE indexed[k]]
  /\ batch' = {}
  /\ UNCHANGED <<stream, sending, taken, pending, toAck, channel, proxyList>>

Acknowledge ==
  /\ batch = {} /\ toAck # {}
  /\ pending' = pending \ toAck /\ toAck' = {}
  /\ UNCHANGED <<stream, sending, taken, batch, indexed, channel, proxyList>>

\* Elasticsearch or Redis fails, before or after doing its part, or the indexer is restarted.
IndexerFails ==
  /\ toAck # {}
  /\ batch' = {} /\ toAck' = {}
  /\ \/ UNCHANGED <<indexed, pending>>
     \/ batch # {} /\ UNCHANGED pending
        /\ indexed' = [k \in DOMAIN indexed |-> IF k \in batch /\ stream[k] # "odd" THEN indexed[k] + 1 ELSE indexed[k]]
     \/ batch = {} /\ pending' = pending \ toAck /\ UNCHANGED indexed
  /\ UNCHANGED <<stream, sending, taken, channel, proxyList>>

IngressNext ==
  \/ \E list \in Batches : Ingest(list) \/ BrowserIngest(list)
  \/ IngestOne \/ Xadd \/ XaddFails
  \/ (\E kind \in {"plain", "blank"} : WafWrites(kind)) \/ ProxyForward
  \/ TakeEntries \/ BulkIndex \/ Acknowledge \/ IndexerFails

-----------------------------------------------------------------------------
(* Properties *)

\* An entry is acknowledged only after Elasticsearch had it (or it could not be
\* kept at all), and no failure or restart of the indexer indexes one twice: the
\* price is that entries of a failed round stay pending for good.
IndexIsHonest ==
  \A k \in 1..Len(stream) :
    /\ indexed[k] <= 1
    /\ stream[k] = "plain" /\ k <= taken /\ k \notin pending => indexed[k] = 1
=============================================================================
