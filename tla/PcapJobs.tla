------------------------------ MODULE PcapJobs ------------------------------
(***************************************************************************)
(* api/pcap_handler.py: captures that users upload are analysed by a       *)
(* thread each.  The jobs live in the memory of the API process.  Packet   *)
(* statistics are left out, but for the error reading them may raise; the  *)
(* entropy of a query is a number, its threshold a sum over a window.      *)
(***************************************************************************)
EXTENDS Naturals, Sequences, FiniteSets, Folds

CONSTANTS
  Captures,      \* packet sequences: [src, kind: "syn", "query" or "other", value]
  Broken,        \* a file no packets can be read from
  ScanPorts,     \* 15 distinct ports
  TunnelSpan,    \* 10 queries
  TunnelSum,     \* 10 times an entropy of 4.0
  MaxJobs        \* bound: jobs started

ASSUME CapturesAssumption ==
  /\ ScanPorts \in Nat \ {0} /\ TunnelSpan \in Nat \ {0}
  /\ \A packets \in Captures : packets \in Seq({packets[n] : n \in DOMAIN packets})

VARIABLES
  jobs,          \* processing_jobs, by number: [file, status, found, results]
  restarts,      \* jobs of processes that ended
  alerts         \* history: job -> events that reached security_events, in order

pcapVars == <<jobs, restarts, alerts>>

PcapInit == jobs = <<>> /\ restarts = 0 /\ alerts = <<>>

-----------------------------------------------------------------------------
(* What a capture shows *)

\* Where the packets of a kind and source are.
From(packets, src, kind) == {n \in DOMAIN packets : packets[n].src = src /\ packets[n].kind = kind}

SumOfValues(packets, places) ==
  MapThenFoldSet(LAMBDA x, y : x + y, 0, LAMBDA n : packets[n].value, LAMBDA d : CHOOSE n \in d : TRUE, places)

\* SYNs to enough ports; queries of which the last ones are too random together.
IsScan(packets, syns) == Cardinality({packets[n].value : n \in syns}) >= ScanPorts
IsTunnel(packets, queries) ==
  \E m \in DOMAIN packets : LET last == {n \in queries : n >= m}
                            IN  Cardinality(last) = TunnelSpan /\ SumOfValues(packets, last) > TunnelSum
Suspicious(packets, kind, kept) == IF kind = "syn" THEN IsScan(packets, kept) ELSE IsTunnel(packets, kept)

\* port_scan_state and dns_queries of a source after n packets: its SYNs or queries since
\* the last scan or tunnel.
KeptOf(packets, src, kind) ==
  LET kept[n \in 0..Len(packets)] ==
        IF n = 0 THEN {}
        ELSE IF n \notin From(packets, src, kind) THEN kept[n - 1]
        ELSE IF Suspicious(packets, kind, kept[n - 1]) THEN {n} ELSE kept[n - 1] \cup {n}
  IN  kept

FoundAt(packets, n) ==
  LET p == packets[n]
  IN  p.kind \in {"syn", "query"} /\ Suspicious(packets, p.kind, KeptOf(packets, p.src, p.kind)[n])

\* create_event, for each packet that completes a scan or a tunnel.
EventOf(packets, n) == [type |-> IF packets[n].kind = "syn" THEN "port_scan" ELSE "dns_tunneling",
                        src |-> packets[n].src]

Detected(packets) ==
  LET f[n \in 0..Len(packets)] ==
        IF n = 0 THEN <<>>
        ELSE IF FoundAt(packets, n) THEN Append(f[n - 1], EventOf(packets, n))
        ELSE f[n - 1]
  IN  f[Len(packets)]

-----------------------------------------------------------------------------

StartJob(file) ==
  /\ Len(jobs) < MaxJobs
  /\ jobs' = Append(jobs, [file |-> file, status |-> "queued", found |-> <<>>, results |-> <<>>])
  /\ alerts' = Append(alerts, <<>>)
  /\ UNCHANGED restarts

Alive(j) == j \in DOMAIN jobs /\ j > restarts

BeginJob(j) ==
  /\ Alive(j) /\ jobs[j].status = "queued" /\ jobs' = [jobs EXCEPT ![j].status = "processing"]
  /\ UNCHANGED <<restarts, alerts>>

\* Nothing is published before all packets are judged and counted; users see
\* "publishing" as "processing".
AnalyseJob(j) ==
  /\ Alive(j) /\ jobs[j].status = "processing"
  /\ jobs' = IF jobs[j].file = Broken THEN [jobs EXCEPT ![j].status = "error"]
             ELSE [jobs EXCEPT ![j].status = "publishing", ![j].found = Detected(jobs[j].file)]
  /\ UNCHANGED <<restarts, alerts>>

\* Mutant: one event of a kind.
SeenKind(results, e) == \E k \in DOMAIN results : results[k].type = e.type

Seen(results, e) == \E k \in DOMAIN results : results[k] = e

\* One event of a kind for a source.  What Redis does not take is in the results
\* all the same.
PublishFound(j, redisUp) ==
  /\ Alive(j) /\ jobs[j].status = "publishing" /\ jobs[j].found # <<>>
  /\ LET shown == jobs[j].results
         e == Head(jobs[j].found)
         new == ~Seen(shown, e)
     IN  /\ jobs' = [jobs EXCEPT ![j] = [jobs[j] EXCEPT !.found = Tail(jobs[j].found),
                                                       !.results = IF new THEN Append(shown, e) ELSE shown]]
         /\ alerts' = IF new /\ redisUp THEN [alerts EXCEPT ![j] = Append(alerts[j], e)] ELSE alerts
  /\ UNCHANGED restarts

FinishJob(j) ==
  /\ Alive(j) /\ jobs[j].status = "publishing" /\ jobs[j].found = <<>>
  /\ jobs' = [jobs EXCEPT ![j].status = "complete"]
  /\ UNCHANGED <<restarts, alerts>>

\* The threads end with the process, and nobody remembers the jobs.
ProcessRestarts == restarts < Len(jobs) /\ restarts' = Len(jobs) /\ UNCHANGED <<jobs, alerts>>

PcapNext ==
  \/ \E file \in Captures \cup {Broken} : StartJob(file)
  \/ \E j \in DOMAIN jobs : BeginJob(j) \/ AnalyseJob(j) \/ (\E up \in BOOLEAN : PublishFound(j, up)) \/ FinishJob(j)
  \/ ProcessRestarts

PcapSpec == PcapInit /\ [][PcapNext]_pcapVars

-----------------------------------------------------------------------------
(* Property *)

Scanned(packets, src) == Cardinality({packets[n].value : n \in From(packets, src, "syn")}) >= ScanPorts

Tunnelled(packets, src) ==
  \E m, n \in DOMAIN packets :
    LET some == {k \in From(packets, src, "query") : m <= k /\ k <= n}
    IN  Cardinality(some) = TunnelSpan /\ SumOfValues(packets, some) > TunnelSum

\* A finished analysis names each source that scanned and each that tunnelled, and
\* no other, once: the state that is cleared after an event, and the events that
\* are left out as known, hide nobody.  What reached the engine is what the user
\* is shown, or part of it.
CapturesAreRead ==
  \A j \in DOMAIN jobs : jobs[j].status = "complete" =>
    LET shown == jobs[j].results
        packets == jobs[j].file
        sources == {packets[n].src : n \in DOMAIN packets}
    IN  /\ {shown[k] : k \in DOMAIN shown} =
             {[type |-> "port_scan", src |-> s] : s \in {x \in sources : Scanned(packets, x)}}
             \cup {[type |-> "dns_tunneling", src |-> s] : s \in {x \in sources : Tunnelled(packets, x)}}
        /\ \A k, m \in DOMAIN shown : shown[k] = shown[m] => k = m
        /\ \A k \in DOMAIN alerts[j] : Seen(shown, alerts[j][k])
=============================================================================
