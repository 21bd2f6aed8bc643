------------------------------- MODULE Engine -------------------------------
(***************************************************************************)
(* process_event of the correlation engine: worker threads that buffer an  *)
(* event, run the rules over a copy of its partition, and publish the      *)
(* incidents, with the requests that clear or reset the engine meanwhile   *)
(* (correlation_engine.py).                                                *)
(*                                                                         *)
(* Buffering is one step here: what the code does from append to copy      *)
(* under buffer_lock.  EngineBuffer shows that a plain Lock never lets a   *)
(* worker finish that step; this module is about the code behind it.       *)
(* Between a rule's look at its cooldown and the moment it sets it,        *)
(* anybody may run.  The score an incident is made with is any score:      *)
(* RiskScores says which there are.                                        *)
(***************************************************************************)
EXTENDS EngineRules
Yaml == INSTANCE RuleLanguage WITH NoLimit <- Absent

CONSTANTS
  Workers,      \* CORRELATION_WORKERS threads
  Arrivals,     \* events a monitor may send: records without id and time
  Keys,         \* their correlation keys
  Graphs,       \* answers of the topology collector
  Scores,       \* risk scores an incident may meet
  YamlRules,    \* the rules in rules/builtin and of operators, with name and severity
  MaxRecent,    \* recent_incidents keeps the last 50
  MaxLate,      \* how old an event may be on arrival: it may be a retried one
  Requests,     \* what operators may ask: "clear", "reset"
  MaxClock,     \* bound: clock ticks
  MaxEvents,    \* bound: events processed
  MaxRequests   \* bound: requests answered

ASSUME EngineAssumption == IsFiniteSet(Workers) /\ {Ticks[300], MaxLate, MaxClock, MaxRequests} \subseteq Nat

\* An event comes without what the engine adds to it.  normalize_event looks into the
\* target of an event that names no destination: one whose target is a word ends
\* there.  A browser's target is a word, as the agent sends it, or missing.
ASSUME ArrivalsAssumption ==
  /\ \A a \in Arrivals : /\ {"key", "type", "user", "ip", "target"} \subseteq DOMAIN a /\ a.key \in Keys
                         /\ {"id", "time", "seen", "after"} \cap DOMAIN a = {}
                         /\ a.target # Absent => a.dst # Absent
                         /\ a.target # Absent \/ a.layer = "browser-agent" => {a.at, a.user} = {Absent}
  /\ IsFiniteSet(Keys) /\ ManyAddresses \in Nat \ {0}
  /\ Ticks[300] # 0 /\ {Ticks[600], Ticks[900]} \subseteq Nat

\* The YAML rules, and the stages of each, are sequences.
ASSUME LabelsAssumption ==
  /\ Scores \subseteq Int
  /\ YamlRules \in Seq(ToSet(YamlRules))
  /\ \A n \in DOMAIN YamlRules : YamlRules[n].sequence \in Seq(ToSet(YamlRules[n].sequence))

VARIABLES
  engClock,
  partitions,   \* event_buffers, by correlation key
  worker,       \* what each worker is doing
  cooldowns,    \* incident_cooldowns
  recent,       \* recent_incidents
  asked,        \* requests answered so far
  log,          \* history: events in the order in which they were buffered
  finished,     \* history: events that went through every rule
  raised,       \* history: events whose processing ended in an exception
  fired         \* history: every incident ever made

engVars == <<engClock, partitions, worker, cooldowns, recent, asked, log, finished, raised, fired>>

Idle == [at |-> "idle", event |-> Absent, buf |-> <<>>, rules |-> <<>>, evidence |-> <<>>]

EngineInit ==
  /\ engClock = 0
  /\ partitions = [k \in Keys |-> <<>>]
  /\ worker = [w \in Workers |-> Idle]
  /\ cooldowns = <<>>
  /\ recent = <<>>
  /\ asked = 0
  /\ log = <<>> /\ finished = {} /\ raised = {} /\ fired = {}

Merged == FlattenSeq(SetToSeq({partitions[k] : k \in Keys}))

EngineTick ==
  /\ engClock < MaxClock /\ engClock' = engClock + 1
  /\ UNCHANGED <<partitions, worker, cooldowns, recent, asked, log, finished, raised, fired>>

-----------------------------------------------------------------------------
(* process_event *)

Taken == Len(log) + Cardinality({w \in Workers : worker[w].at = "buffer"})

\* An event with what is added to it.
Stamped(e, stamp) ==
  [field \in DOMAIN e \cup DOMAIN stamp |-> IF field \in DOMAIN e THEN e[field] ELSE stamp[field]]

\* An event read from the bus, enriched and normalised.
TakeEvent(w) ==
  /\ worker[w].at = "idle" /\ Taken < MaxEvents
  /\ \E a \in Arrivals, late \in 0..MaxLate :
       /\ late <= engClock
       /\ worker' = [worker EXCEPT ![w] =
            [Idle EXCEPT !.at = "buffer", !.event = Stamped(a, [time |-> engClock - late])]]
  /\ UNCHANGED <<engClock, partitions, cooldowns, recent, asked, log, finished, raised, fired>>

\* _prune_buffers: 15 minutes.
Fresh(buf) == Chosen(buf, {n \in DOMAIN buf : buf[n].time > engClock - Ticks[900]})

\* The built-in rules that concern the event, in the order of process_event.
RulesOn(e) == Chosen(RuleOrder, {n \in DOMAIN RuleOrder : Concerns(RuleOrder[n], e)})

\* with self.buffer_lock: append, prune every partition, copy this one.  Then the
\* risk score; it cannot read a severity that is a bare string, and the exception
\* ends the processing of the event.
BufferEvent(w) ==
  /\ worker[w].at = "buffer"
  /\ LET e == Stamped(worker[w].event, [id |-> Len(log) + 1])
         kept == [k \in Keys |-> Fresh(IF k = e.key THEN Append(partitions[k], e) ELSE partitions[k])]
         fails == e.bare /\ FirstOf(<<e.src, e.ip>>) # Absent
     IN  /\ partitions' = kept
         /\ log' = Append(log, Stamped(e, [seen |-> engClock, after |-> asked]))
         /\ raised' = IF fails THEN raised \cup {e.id} ELSE raised
         /\ worker' = [worker EXCEPT ![w] =
              IF fails THEN Idle
              ELSE [at |-> "check", event |-> e, buf |-> kept[e.key],
                    rules |-> RulesOn(e), evidence |-> <<>>]]
  /\ UNCHANGED <<engClock, cooldowns, recent, asked, finished, fired>>

\* Mutant: the cooldown is a minute.
RestsBriefly(r, key) ==
  /\ <<r, key>> \in DOMAIN cooldowns
  /\ engClock < cooldowns[<<r, key>>] + Ticks[60]

\* _check_cooldown
Rests(r, key) ==
  /\ <<r, key>> \in DOMAIN cooldowns
  /\ engClock < cooldowns[<<r, key>>] + Ticks[300]

\* A rule looks at its evidence and at its cooldown; one rule asks for the graph.
CheckRule(w) ==
  /\ worker[w].at = "check" /\ worker[w].rules # <<>>
  /\ \E graph \in IF Head(worker[w].rules) = "service_lateral" THEN Graphs ELSE {Unavailable} :
       LET r == Head(worker[w].rules)
           e == worker[w].event
           found == Evidence(r, e, worker[w].buf, Merged, engClock, graph)
           fires == found # <<>> /\ ~Rests(r, RestsOn(r, e, found))
       IN  worker' = [worker EXCEPT ![w] =
             IF fires THEN [@ EXCEPT !.at = "fire", !.evidence = found]
                      ELSE [@ EXCEPT !.rules = Tail(worker[w].rules)]]
  /\ UNCHANGED <<engClock, partitions, cooldowns, recent, asked, log, finished, raised, fired>>

LastOnes(s) == IF Len(s) > MaxRecent THEN Tail(s) ELSE s

\* publish_incident.  What stores the incident is the same for every one; its
\* banner reads the title, and a campaign takes the incident after that.
Publish(w, incident) ==
  /\ recent' = LastOnes(Append(recent, incident))
  /\ fired' = fired \cup {[rule |-> incident.rule, key |-> incident.key, events |-> incident.events,
                           severity |-> incident.severity, filed |-> incident.titled,
                           at |-> engClock, by |-> w, after |-> asked]}

EventsOf(evidence) == {evidence[n].id : n \in DOMAIN evidence}

\* _set_cooldown
Resting(r, key) ==
  [c \in DOMAIN cooldowns \cup {<<r, key>>} |-> IF c = <<r, key>> THEN engClock ELSE cooldowns[c]]

\* _set_cooldown, create_incident and publish_incident
FireRule(w) ==
  /\ worker[w].at = "fire"
  /\ \E score \in Scores :
       LET r == Head(worker[w].rules)
           key == RestsOn(r, worker[w].event, worker[w].evidence)
       IN  /\ cooldowns' = Resting(r, key)
           /\ Publish(w, [rule |-> r, key |-> key, events |-> EventsOf(worker[w].evidence), titled |-> TRUE,
                          severity |-> SeverityOf(r, score, Len(worker[w].evidence))])
           /\ worker' = [worker EXCEPT ![w] =
                [@ EXCEPT !.at = "check", !.rules = Tail(worker[w].rules), !.evidence = <<>>]]
  /\ UNCHANGED <<engClock, partitions, asked, log, finished, raised>>

\* The YAML rules that the event completes; they know no cooldown.
Completed(w) ==
  Chosen(YamlRules, {n \in DOMAIN YamlRules : Yaml!Evaluate(YamlRules[n], worker[w].event, worker[w].buf) # <<>>})

\* Such an incident has no title: after storing it publish_incident raises, the
\* other completed rules are dropped and so is the rest of process_event.
PublishYaml(w) ==
  /\ worker[w].at = "check" /\ worker[w].rules = <<>> /\ Completed(w) # <<>>
  /\ LET rule == Head(Completed(w))
         evidence == Yaml!Evaluate(rule, worker[w].event, worker[w].buf)
     IN  Publish(w, [rule |-> rule.name, key |-> <<worker[w].event.src>>, events |-> EventsOf(evidence),
                     titled |-> FALSE, severity |-> Floor(rule.severity, Resolved(0, Len(evidence), FALSE))])
  /\ raised' = raised \cup {worker[w].event.id}
  /\ worker' = [worker EXCEPT ![w] = Idle]
  /\ UNCHANGED <<engClock, partitions, cooldowns, asked, log, finished>>

FinishEvent(w) ==
  /\ worker[w].at = "check" /\ worker[w].rules = <<>> /\ Completed(w) = <<>>
  /\ finished' = finished \cup {worker[w].event.id}
  /\ worker' = [worker EXCEPT ![w] = Idle]
  /\ UNCHANGED <<engClock, partitions, cooldowns, recent, asked, log, raised, fired>>

-----------------------------------------------------------------------------
(* Requests *)

\* /engine/clear-buffer and /engine/reset empty the merged view, which nobody
\* correlates over, and drop the cooldowns; the partitions stay.
Request(kind) ==
  /\ kind \in Requests /\ asked < MaxRequests
  /\ asked' = asked + 1
  /\ cooldowns' = <<>>
  /\ recent' = IF kind = "reset" THEN <<>> ELSE recent
  /\ UNCHANGED <<engClock, partitions, worker, log, finished, raised, fired>>

EngineNext ==
  \/ EngineTick
  \/ \E w \in Workers :
       TakeEvent(w) \/ BufferEvent(w) \/ CheckRule(w) \/ FireRule(w) \/ PublishYaml(w) \/ FinishEvent(w)
  \/ \E kind \in {"clear", "reset"} : Request(kind)

EngineSpec == EngineInit /\ [][EngineNext]_engVars

-----------------------------------------------------------------------------
(* Properties *)

\* The incidents of the rules that rest, whatever YAML rules are called.
OfBuiltIns == {f \in fired : f.filed}

\* Workers look at a cooldown and set it in separate calls, so they may fire a
\* built-in rule for one actor side by side; but one cooldown, between two resets, sees
\* no more incidents than there are workers.
FiringsBounded ==
  \A f \in OfBuiltIns :
    Cardinality({g \in OfBuiltIns : /\ g.rule = f.rule /\ g.key = f.key /\ g.after = f.after
                                    /\ g.at \in f.at..(f.at + Ticks[300] - 1)}) <= Cardinality(Workers)

\* Two steps of an attack by one actor, and the rule that joins them.
Sequences ==
  { [rule |-> "recon_to_exploit", first |-> {"port_scan"},
     second |-> {"sql_injection", "path_traversal"}, within |-> 600],
    [rule |-> "credential_compromise", first |-> Guessing, second |-> {"suspicious_login"}, within |-> 900],
    [rule |-> "data_exfiltration", first |-> {"sql_injection", "path_traversal"},
     second |-> {"sensitive_access"}, within |-> 900] }

Covers(f, rule, key, time) == f.rule = rule /\ f.key = key /\ time - f.at < Ticks[300]

\* While events arrive in the order of their times, whoever the worker and
\* whatever the other workers and operators do meanwhile: once the second step of
\* an attack went through the rules within the window of the first, an incident
\* of that actor tells of it, this one or one no older than a cooldown.  Nothing is
\* said of steps with a request to clear or reset between them, which is to keep
\* the first from counting, nor of a step whose target the rules cannot look into.
SequenceIsReported ==
  \A i, j \in DOMAIN log, s \in Sequences :
    LET first == log[i]
        second == log[j]
    IN  (/\ i < j /\ j \in finished
         /\ first.key = second.key /\ first.key # Unknown
         /\ first.after = second.after /\ ~Worded(second)
         /\ first.type \in s.first /\ second.type \in s.second
         /\ second.time - first.time <= Ticks[s.within]
         /\ first.time > second.seen - Ticks[900]
         /\ \A m, n \in 1..j : m < n => log[m].time <= log[n].time)
        => \E f \in fired : Covers(f, s.rule, <<second.key>>, second.time)

\* An account attacked from many addresses between two requests is reported, in
\* whichever partitions the attacks are, unless a browser's event is as young as the
\* rule's window: that silences the rule, whoever sent it.
SpreadIsReported ==
  \A j \in finished :
    LET e == log[j]
        same == {n \in 1..j : /\ log[n].user = e.user /\ log[n].type \in Guessing
                              /\ log[n].after = e.after /\ log[n].time > engClock - Ticks[900]}
    IN  (/\ e.type \in Guessing /\ e.user # Absent
         /\ Cardinality({log[n].ip : n \in same} \ {Absent}) >= ManyAddresses
         /\ \A n \in DOMAIN log : Worded(log[n]) => log[n].time <= e.seen - Ticks[900])
        => \E f \in fired : Covers(f, "distributed_attack", <<e.user>>, e.time)

\* What several events tell of is never a minor incident, and a built-in rule
\* that calls its finding critical is not overruled by a low score.
SeverityHolds ==
  \A f \in fired :
    /\ Cardinality(f.events) >= 2 => Rank(f.severity) >= 3
    /\ f \in OfBuiltIns => Rank(f.severity) >= Rank(RuleSeverity(f.rule))

=============================================================================
