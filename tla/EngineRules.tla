---------------------------- MODULE EngineRules ----------------------------
(***************************************************************************)
(* The rules of the correlation engine (methods rule_... in                *)
(* correlation_engine.py) and the incident they make: which buffered       *)
(* events a new event completes, under which key the rule then rests, and  *)
(* how severe the incident is (severity.py).                               *)
(*                                                                         *)
(* A rule is a name; what it correlates is a sequence of events, empty     *)
(* when the rule does not fire.  An event is a record of what the rules    *)
(* read: id, time, type, layer, key (correlation_key), ip, src, dst and at *)
(* (services: source, destination, target_entity.service), user, level     *)
(* (severity), site, target and tags (browser events), container and exec  *)
(* (container events).                                                     *)
(*                                                                         *)
(* The target of an event is a record, which at, user and container come   *)
(* from, or, of a browser event, a bare word, which is target.             *)
(***************************************************************************)
EXTENDS Integers, Sequences, FiniteSets, SequencesExt
Pairs == INSTANCE Relation

CONSTANTS
  Absent,        \* a field that is missing or empty
  Unknown,       \* the correlation key of an event nobody can be blamed for
  Unavailable,   \* the service graph when the topology collector does not answer
  Ticks,         \* Ticks[n]: n seconds, in ticks of the clock
  ManyFailures,  \* 5 failed logins of a site
  ManyTargets,   \* 10 targets probed on a site
  ManyAddresses  \* 3 addresses attacking one account

\* SEVERITY_ORDER.  Words are compared without regard to case, and kept as they are:
\* one rule says it in capitals.
SeverityOrder == [low |-> 1, medium |-> 2, high |-> 3, critical |-> 4, CRITICAL |-> 4]

\* Any other word ranks below all.
Rank(level) == IF level \in DOMAIN SeverityOrder THEN SeverityOrder[level] ELSE 0

-----------------------------------------------------------------------------
(* Looking into the buffer *)

\* A rule that looks into such a target raises, and finds nothing.
Worded(e) == e.target # Absent

\* The elements of s at those of the places, in their order.
Chosen(s, places) ==
  LET upTo[n \in 0..Len(s)] ==
        IF n = 0 THEN <<>> ELSE IF n \in places THEN Append(upTo[n - 1], s[n]) ELSE upTo[n - 1]
  IN  upTo[Len(s)]

Types(S, buf) == Chosen(buf, {n \in DOMAIN buf : buf[n].type \in S})

\* Events of the actor: in service mode those with the event's key, unless it
\* is unknown.
OfActor(buf, new) == Chosen(buf, {n \in DOMAIN buf : buf[n].key = new.key /\ new.key # Unknown})

Layers(buf) == {buf[n].layer : n \in DOMAIN buf} \ {Absent}

LastWith(new, buf) == IF buf = <<>> THEN <<>> ELSE <<buf[Len(buf)], new>>

\* Events of the site's browser agent that are no older than so many seconds.
BrowserWindow(buf, site, now, seconds) ==
  Chosen(buf, {n \in DOMAIN buf : /\ buf[n].site = site /\ buf[n].layer = "browser-agent"
                                  /\ now - buf[n].time <= Ticks[seconds]})

TargetsOf(buf) == {buf[n].target : n \in DOMAIN buf} \ {Absent}

\* A walk over the edges the topology collector reports; without an answer
\* everything is taken to be reachable.
GraphReachable(src, dst, graph) ==
  /\ src # Absent /\ dst # Absent /\ src # dst
  /\ \/ graph = Unavailable
     \/ LET nodes == {edge[1] : edge \in graph} \cup {edge[2] : edge \in graph}
            R == [pair \in nodes \X nodes |-> pair \in graph]
        IN  src \in nodes /\ dst \in nodes /\ Pairs!TransitiveClosure(R, nodes)[src, dst]

-----------------------------------------------------------------------------
(* What each rule correlates with the new event *)

FirstOf(names) == IF SelectSeq(names, LAMBDA n : n # Absent) = <<>> THEN Absent
                  ELSE Head(SelectSeq(names, LAMBDA n : n # Absent))

\* The newest event that names another place decides, or one that cannot be looked
\* into for the place.
ServiceLateral(new, buf, graph) ==
  LET place(e) == FirstOf(<<e.src, e.at>>)
      decisive == SelectSeq(OfActor(buf, new), LAMBDA e :
                    e # new /\ (place(e) \notin {Absent, new.dst} \/ (e.src = Absent /\ Worded(e))))
      last == Last(decisive)
      from == FirstOf(<<last.dst, last.at, last.src>>)
  IN  IF decisive # <<>> /\ place(last) # Absent /\ GraphReachable(from, new.dst, graph)
      THEN <<last, new>> ELSE <<>>

\* The last scan to arrive decides, whatever its age.
ReconToExploit(new, buf) ==
  LET scans == Types({"port_scan"}, OfActor(buf, new))
  IN  IF scans # <<>> /\ new.time - Last(scans).time <= Ticks[600]
      THEN <<Last(scans), new>> ELSE <<>>

CredentialCompromise(new, buf) ==
  IF Worded(new) THEN <<>>
  ELSE LastWith(new, Types({"brute_force", "credential_stuffing"}, OfActor(buf, new)))

AccountPivot(new, buf) ==
  LET logins == SelectSeq(OfActor(buf, new), LAMBDA e :
                  /\ e.layer = "auth" /\ e.type = "login_success"
                  /\ new.time - e.time \in 0..Ticks[300])
  IN  IF logins # <<>> /\ Worded(Last(logins)) THEN <<>> ELSE LastWith(new, logins)

FullKillChain(new, buf) ==
  IF {"network", "api", "auth"} \subseteq Layers(OfActor(buf, new)) THEN OfActor(buf, new) ELSE <<>>

ApiAuthCombined(new, buf) ==
  IF {"api", "auth"} \subseteq Layers(OfActor(buf, new)) THEN OfActor(buf, new) ELSE <<>>

\* Mutant: events of the actor only.
DistributedAttackOfActor(new, merged) ==
  LET targeting == SelectSeq(OfActor(merged, new), LAMBDA e : e.user = new.user)
      addresses == {targeting[n].ip : n \in DOMAIN targeting} \ {Absent}
  IN  IF Cardinality(addresses) >= ManyAddresses THEN targeting ELSE <<>>

\* The one rule that sees every partition.  It looks into the target of every event:
\* while one of a browser is in the window, wherever it is from, it raises.
DistributedAttack(new, merged) ==
  LET targeting == Chosen(merged, {n \in DOMAIN merged : merged[n].user = new.user})
      addresses == {targeting[n].ip : n \in DOMAIN targeting} \ {Absent}
      readable == \A n \in DOMAIN merged : ~Worded(merged[n])
  IN  IF readable /\ Cardinality(addresses) >= ManyAddresses THEN targeting ELSE <<>>

DataExfiltration(new, buf) ==
  LastWith(new, Types({"sql_injection", "path_traversal"}, OfActor(buf, new)))

PersistentThreat(new, buf) ==
  IF Len(OfActor(buf, new)) >= 2 THEN OfActor(buf, new) ELSE <<>>

CriticalExploitAttempt(new, buf) ==
  LET same == Types({new.type}, OfActor(buf, new)) IN IF Len(same) >= 2 THEN same ELSE <<>>

\* The most recent exploit of the container that is recent enough, unless one that
\* cannot be looked into came after it.
ContainerExec(new, buf, now) ==
  LET exploits == SelectSeq(Types({"sql_injection", "xss_attack"}, buf), LAMBDA e :
                    Worded(e) \/ (e.container = new.container /\ now - e.time <= Ticks[300]))
  IN  IF exploits # <<>> /\ Worded(Last(exploits)) THEN <<>> ELSE LastWith(new, exploits)

BrowserBruteForce(new, buf, now, seconds) ==
  LET failures == Types({"auth_failure"}, BrowserWindow(buf, new.site, now, seconds))
  IN  IF Len(failures) >= ManyFailures THEN failures ELSE <<>>

BrowserProbes(new, buf, now, seconds, enough) ==
  LET recent == BrowserWindow(buf, new.site, now, seconds)
  IN  IF Cardinality(TargetsOf(recent)) >= enough THEN recent ELSE <<>>

-----------------------------------------------------------------------------
(* The rules *)

\* self.rules, in the order in which they run.
RuleOrder ==
  << "service_lateral", "recon_to_exploit", "credential_compromise", "account_pivot",
     "full_kill_chain", "api_auth_combined", "distributed_attack", "data_exfiltration",
     "persistent_threat", "brute_force_attempt", "critical_exploit",
     "container_exec_after_exploit", "browser_sqli", "browser_path_traversal",
     "browser_brute_force", "browser_recon_scan", "browser_bf_to_exfil",
     "browser_recon_to_privesc", "browser_multi_hop" >>

Guessing == {"brute_force", "credential_stuffing"}

\* What the new event alone must be for a rule to go on.
Trigger(r, e) ==
  CASE r = "recon_to_exploit"      -> e.type \in {"sql_injection", "path_traversal"}
    [] r = "credential_compromise" -> e.type = "suspicious_login"
    [] r = "account_pivot"         -> /\ e.type \in {"sql_injection", "path_traversal", "rate_abuse", "data_export"}
                                     /\ e.layer = "api" /\ e.ip # Absent
    [] r = "api_auth_combined"     -> e.type \in {"rate_abuse", "sql_injection"} \cup Guessing
    [] r \in {"distributed_attack", "brute_force_attempt"} -> e.type \in Guessing
    [] r = "data_exfiltration"     -> e.type = "sensitive_access"
    [] r = "critical_exploit"      -> e.level = "critical" \/ e.type \in {"sql_injection", "xss", "path_traversal"}
    [] r = "container_exec_after_exploit" -> e.type = "docker_container_event" /\ e.exec /\ e.container # Absent
    [] r = "browser_sqli"          -> e.layer = "browser-agent" /\ e.tags \cap {"sql-injection", "sqli"} # {}
    [] r = "browser_path_traversal" -> e.layer = "browser-agent" /\ "path-traversal" \in e.tags
    [] r = "browser_brute_force"   -> e.layer = "browser-agent" /\ e.type = "auth_failure"
    [] r = "browser_bf_to_exfil"   -> e.layer = "browser-agent" /\ e.type = "data_access"
    [] r = "browser_recon_to_privesc" -> e.layer = "browser-agent" /\ e.type = "privilege_change"
    [] r \in {"browser_recon_scan", "browser_multi_hop"} -> e.layer = "browser-agent"
    [] r = "service_lateral"       -> e.dst # Absent
    [] r \in {"full_kill_chain", "persistent_threat"} -> TRUE

OnSite(r) == r \in {"browser_sqli", "browser_path_traversal", "browser_brute_force", "browser_recon_scan",
                    "browser_bf_to_exfil", "browser_recon_to_privesc", "browser_multi_hop"}

\* A rule needs somebody to rest on: a site, an account, or an actor.
Concerns(r, e) ==
  /\ Trigger(r, e)
  /\ OnSite(r) => e.site # Absent
  /\ r = "distributed_attack" => e.user # Absent

\* The events an incident of rule r is made of; none if it does not fire.
Evidence(r, new, buf, merged, now, graph) ==
  CASE r = "service_lateral"       -> ServiceLateral(new, buf, graph)
    [] r = "recon_to_exploit"      -> ReconToExploit(new, buf)
    [] r = "credential_compromise" -> CredentialCompromise(new, buf)
    [] r = "account_pivot"         -> AccountPivot(new, buf)
    [] r = "full_kill_chain"       -> FullKillChain(new, buf)
    [] r = "api_auth_combined"     -> ApiAuthCombined(new, buf)
    [] r = "distributed_attack"    -> DistributedAttack(new, merged)
    [] r = "data_exfiltration"     -> DataExfiltration(new, buf)
    [] r = "persistent_threat"     -> PersistentThreat(new, buf)
    [] r = "critical_exploit"      -> CriticalExploitAttempt(new, buf)
    [] r = "container_exec_after_exploit" -> ContainerExec(new, buf, now)
    [] r = "browser_brute_force"   -> BrowserBruteForce(new, buf, now, 60)
    [] r = "browser_bf_to_exfil"   ->
         LET failures == BrowserBruteForce(new, buf, now, 300)
         IN  IF failures = <<>> THEN <<>> ELSE Append(failures, new)
    [] r = "browser_recon_scan"    -> BrowserProbes(new, buf, now, 30, ManyTargets)
    [] r = "browser_recon_to_privesc" ->
         LET recent == BrowserProbes(new, buf, now, 180, ManyTargets)
         IN  IF recent = <<>> THEN <<>> ELSE Append(recent, new)
    [] r = "browser_multi_hop"     -> BrowserProbes(new, buf, now, 120, 3)
    [] r \in {"brute_force_attempt", "browser_sqli", "browser_path_traversal"} -> <<new>>

\* What a rule rests on after it fired: the account, the container, the site, or
\* the actor; for a pivot the address and the account that logged in.
RestsOn(r, new, evidence) ==
  CASE r = "distributed_attack" -> <<new.user>>
    [] r = "container_exec_after_exploit" -> <<new.container>>
    [] r = "account_pivot" -> <<new.ip, Head(evidence).user>>
    [] OnSite(r) -> <<new.site>>
    [] OTHER -> <<new.key>>

-----------------------------------------------------------------------------
(* Severity *)

RuleSeverity(r) ==
  CASE r = "container_exec_after_exploit" -> "CRITICAL"
    [] r \in {"recon_to_exploit", "credential_compromise", "account_pivot", "full_kill_chain",
              "distributed_attack", "browser_sqli", "browser_bf_to_exfil"} -> "critical"
    [] r \in {"brute_force_attempt", "browser_recon_scan"} -> "medium"
    [] OTHER -> "high"

\* Rules whose techniques include one of CRITICAL_TECHNIQUES.
CriticalTechniques ==
  {"credential_compromise", "account_pivot", "api_auth_combined", "distributed_attack",
   "data_exfiltration", "critical_exploit", "browser_bf_to_exfil", "browser_recon_to_privesc"}

\* resolve_incident_severity
Resolved(risk, steps, critical) ==
  CASE critical \/ risk > 150 -> "critical"
    [] ~critical /\ risk <= 150 /\ (risk > 70 \/ steps >= 2) -> "high"
    [] ~critical /\ risk \in 31..70 /\ steps < 2 -> "medium"
    [] OTHER -> "low"

\* Mutant: a ceiling.
FloorReversed(current, minimum) == IF Rank(current) <= Rank(minimum) THEN current ELSE minimum

\* floor_severity
Floor(current, minimum) == IF Rank(current) >= Rank(minimum) THEN current ELSE minimum

SeverityOf(r, risk, steps) == Floor(RuleSeverity(r), Resolved(risk, steps, r \in CriticalTechniques))

\* scripts/backfill_severity.py gives the rows that lost their severity one again.
\* The steps of a kill chain are counted.  An incident has none, and its events are a
\* UUID[], which the driver returns as a string: not a list, it counts for 0.
StepCount(row) == IF row.steps # Absent THEN row.steps ELSE 0

Relabel(row, risk) ==
  IF row.severity \in {Absent, ""} THEN [row EXCEPT !.severity = Resolved(risk, StepCount(row), row.critical)] ELSE row

BackfillCorrelatedIncidents(table) == [i \in DOMAIN table |-> Relabel(table[i], table[i].risk)]
BackfillKillChains(table) == [i \in DOMAIN table |-> Relabel(table[i], 0)]
=============================================================================
