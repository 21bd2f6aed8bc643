--------------------------- MODULE NetworkMonitor ---------------------------
(***************************************************************************)
(* monitors/network/network_monitor.py: detections on captured packets.    *)
(* One thread handles one packet at a time.  The statistics of a traffic   *)
(* window are compared without rounding, in whole numbers.                 *)
(***************************************************************************)
EXTENDS Bursts

CONSTANTS
  Ports,
  ManyPorts,      \* 15 ports
  ScanSpan,       \* within 30 seconds
  ScanRest,       \* one report every 60 seconds
  TrafficSpan,    \* windows of 10 seconds
  LearnSpan,      \* 5 minutes of learning
  KeptWindows,    \* 30 windows make the baseline
  FewWindows,     \* and at least 5
  FewPackets,     \* a threshold is above 10 packets
  ManyQueries,    \* 10 queries
  QuerySpan       \* within 300 seconds

VARIABLES
  syns,           \* syn_tracker: address -> window; its kinds are ports
  lastScan,       \* last_scan_alert
  traffic,        \* traffic_counter of the window, and when it began
  trafficPast,    \* traffic_baseline: address -> counts of the windows it was seen in
  learning,       \* baseline_learning
  queries         \* dns_queries: address -> when, and whether of high entropy; with numbers, to tell them apart

netMonVars == <<watchVars, syns, lastScan, traffic, trafficPast, learning, queries>>

NoTraffic(t) == [start |-> t, count |-> [ip \in Addresses |-> 0]]

NetMonInit ==
  /\ WatchInit
  /\ syns = [ip \in Addresses |-> Empty] /\ lastScan = [ip \in Addresses |-> Never]
  /\ traffic = NoTraffic(0) /\ trafficPast = [ip \in Addresses |-> <<>>] /\ learning = TRUE
  /\ queries = [ip \in Addresses |-> {}]

NetMonTick == Tick /\ UNCHANGED <<syns, lastScan, traffic, trafficPast, learning, queries>>

-----------------------------------------------------------------------------

\* detect_port_scan: after a report the window starts again.
ScanFound(ip, port) ==
  LET w == InWindow(syns[ip], port, now, ScanSpan)
  IN  Cardinality(w.kinds) >= ManyPorts /\ Rested(lastScan[ip], now, ScanRest)

DetectScan(ip, port) ==
  LET w == InWindow(syns[ip], port, now, ScanSpan)
      found == ScanFound(ip, port)
  IN  /\ syns' = [syns EXCEPT ![ip] = IF found THEN [Empty EXCEPT !.first = now] ELSE w]
      /\ lastScan' = [lastScan EXCEPT ![ip] = IF found THEN now ELSE @]

SumOf(s) == LET sum[n \in 0..Len(s)] == IF n = 0 THEN 0 ELSE sum[n-1] + s[n] IN sum[Len(s)]
Square(x) == x * x

\* count > mean + 3 * stdev, and that threshold above FewPackets.
Exceeds(count, s) ==
  LET n == Len(s)
      sum == SumOf(s)
      spread == n * SumOf([k \in DOMAIN s |-> Square(s[k])]) - Square(sum)   \* n * (n-1) * stdev^2
      Above(x) == n * x > sum /\ (n - 1) * Square(n * x - sum) > 9 * n * spread
  IN  Above(count) /\ (n * FewPackets < sum \/ (n - 1) * Square(n * FewPackets - sum) < 9 * n * spread)

LastOf(s, n) == IF Len(s) > n THEN SubSeq(s, Len(s) - n + 1, Len(s)) ELSE s

\* detect_traffic_anomaly: the packet that ends a window is counted in it, and
\* judges it for everybody who was seen in it.
CountsNow(ip) == [traffic.count EXCEPT ![ip] = @ + 1]
WindowEnds == now - traffic.start >= TrafficSpan
PastNow(ip) ==
  [a \in Addresses |-> IF CountsNow(ip)[a] = 0 THEN trafficPast[a]
                       ELSE LastOf(Append(trafficPast[a], CountsNow(ip)[a]), KeptWindows)]

Spikes(ip) ==
  If(WindowEnds /\ ~learning,
     {a \in Addresses : LET s == PastNow(ip)[a]
                        IN  /\ CountsNow(ip)[a] > 0 /\ Len(s) >= FewWindows
                            /\ Exceeds(s[Len(s)], SubSeq(s, 1, Len(s) - 1))})

DetectSpike(ip) ==
  /\ traffic' = IF WindowEnds THEN NoTraffic(now) ELSE [traffic EXCEPT !.count = CountsNow(ip)]
  /\ trafficPast' = IF WindowEnds THEN PastNow(ip) ELSE trafficPast
  /\ learning' = (learning /\ ~(WindowEnds /\ now > LearnSpan))

\* detect_dns_tunneling: the average entropy is above the limit exactly when
\* most of the queries are (entropies are "low" or "high" here).
QueriesNow(ip, high) ==
  {q \in queries[ip] \cup {[no |-> Len(heard) + 1, at |-> now, high |-> high]} : now - q.at < QuerySpan}
Tunnels(ip, high) ==
  LET s == QueriesNow(ip, high)
  IN  Cardinality(s) >= ManyQueries /\ 2 * Cardinality({q \in s : q.high}) > Cardinality(s)

DetectTunnel(ip, high) ==
  queries' = [queries EXCEPT ![ip] = IF Tunnels(ip, high) THEN {} ELSE QueriesNow(ip, high)]

-----------------------------------------------------------------------------

RaiseFor(ip, alerts) == Raise({Alert("traffic_spike", a, now) : a \in Spikes(ip)} \cup alerts)

\* process_packet
HearSyn(ip, port) ==
  /\ Hear("syn", ip, port)
  /\ DetectScan(ip, port) /\ DetectSpike(ip)
  /\ RaiseFor(ip, If(ScanFound(ip, port), {Alert("port_scan", ip, now)}))
  /\ UNCHANGED <<now, queries>>

HearQuery(ip, high) ==
  /\ Hear("query", ip, high)
  /\ DetectSpike(ip) /\ DetectTunnel(ip, high)
  /\ RaiseFor(ip, If(Tunnels(ip, high), {Alert("dns_tunneling", ip, now)}))
  /\ UNCHANGED <<now, syns, lastScan>>

HearPacket(ip) ==
  /\ Hear("packet", ip, 0)
  /\ DetectSpike(ip) /\ RaiseFor(ip, {})
  /\ UNCHANGED <<now, syns, lastScan, queries>>

NetMonNext ==
  \/ NetMonTick
  \/ \E ip \in Addresses :
       \/ \E p \in Ports : HearSyn(ip, p)
       \/ \E high \in BOOLEAN : HearQuery(ip, high)
       \/ HearPacket(ip)

-----------------------------------------------------------------------------
(* Properties *)

\* Whoever tries 29 ports in half a minute is reported, or was less than a minute
\* before; and 10 queries of high entropy in five minutes are, if nothing but such
\* queries came from the address.
ScansAreReported ==
  \A ip \in Addresses :
    /\ BurstsReported(Whats(Of("syn", ip)), 2 * ManyPorts - 1, ScanSpan, ScanRest, 0, {"port_scan"}, ip)
    /\ LET s == Of("query", ip)
       IN  (\A n \in s : heard[n].what) => BurstsReported(Each(s), ManyQueries, QuerySpan - 1, 1, 0, {"dns_tunneling"}, ip)
=============================================================================
