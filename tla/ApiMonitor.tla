----------------------------- MODULE ApiMonitor -----------------------------
(***************************************************************************)
(* monitors/api/api_monitor.py: detections on the requests that api-server *)
(* publishes.  One thread handles one request at a time; what the patterns *)
(* find in a request is given with it.  A window is only judged by the     *)
(* first request after its end: a burst followed by silence is not         *)
(* reported.                                                               *)
(***************************************************************************)
EXTENDS Bursts

CONSTANTS
  ApiRequests,    \* [endpoint, params: what the patterns find in each of them]
  Sensitive,      \* endpoints
  ManyRequests,   \* more than 100
  ManyEndpoints,  \* more than 20
  RateSpan        \* in 60 seconds

VARIABLE requestWindow   \* address -> window; its kinds are endpoints

apiMonVars == <<watchVars, requestWindow>>

ApiMonInit == WatchInit /\ requestWindow = [ip \in Addresses |-> Empty]

ApiMonTick == Tick /\ UNCHANGED requestWindow

\* check_sql_injection looks at parameters only, check_path_traversal at the
\* endpoint too; each reports at most one finding of a request.
Found(r) == If("sqli" \in r.params, {"sql_injection"})
            \cup If("traversal" \in r.params \cup r.marks, {"path_traversal"})

\* check_rate_abuse: a window too full is not searched for enumeration.
Judged(w) ==
  IF w.count > ManyRequests THEN {"rate_abuse"}
  ELSE If(Cardinality(w.kinds) > ManyEndpoints, {"endpoint_enumeration"})

\* create_event and publish_event, for each finding.
Report(kinds, ip) == Raise({Alert(kind, ip, now) : kind \in kinds})

\* process_api_log
HearRequest(ip, r) ==
  LET w == requestWindow[ip]
      closed == Over(w, now, RateSpan)
      found == Found(r) \cup If(closed, Judged(w)) \cup If(r.endpoint \in Sensitive, {"sensitive_access"})
  IN  /\ Hear("request", ip, r.endpoint)
      /\ requestWindow' = [requestWindow EXCEPT ![ip] = InWindow(w, r.endpoint, now, RateSpan)]
      /\ Report(found, ip)
      /\ UNCHANGED now

ApiMonNext == ApiMonTick \/ \E ip \in Addresses, r \in ApiRequests : HearRequest(ip, r)

-----------------------------------------------------------------------------
(* Properties *)

\* More than 200 requests in a minute, or requests for more than 40 endpoints,
\* are reported by the first request later than a minute after them.
FloodsAreReported ==
  \A ip \in Addresses :
    LET s == Of("request", ip)
    IN  /\ BurstsReported(Each(s), 2 * ManyRequests + 1, RateSpan, 0, RateSpan + 1, {"rate_abuse"}, ip)
        /\ BurstsReported(Whats(s), 2 * ManyEndpoints + 1, RateSpan, 0, RateSpan + 1,
                          {"rate_abuse", "endpoint_enumeration"}, ip)
=============================================================================
