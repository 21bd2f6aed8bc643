----------------------------- MODULE MCDetection ----------------------------
(***************************************************************************)
(* How attacks are detected, for TLC: the monitors, the event stream, the  *)
(* engine and the table of kill chains.  The models share no state, so     *)
(* each behaviour runs one "scenario": their states add up instead of      *)
(* multiplying.                                                            *)
(*                                                                         *)
(* For the engine one tick is 300 seconds.  In "wide" one worker meets     *)
(* every kind of event; in "deep" two workers share the few events of one  *)
(* attack; "rows" is the table of kill chains, "alerts" the alerts of the  *)
(* incidents that no campaign takes, "channel" the pub/sub channel.  In    *)
(* "rules", "chains", "keys", "scores", "labels" and "names" an input is   *)
(* drawn for pure functions.                                               *)
(***************************************************************************)
EXTENDS Engine, IncidentAlerts, Monitors, Ingress, PubSubBridge, EventKeys, Completeness

CONSTANTS w1, w2

VARIABLES scenario, input

storeVars == <<chainRows, incAlertVars>>
inVars == <<ingressVars, bridgeVars>>

MCTicks == [n \in {30, 60, 120, 180, 300, 600, 900} |-> n \div 300]

Plain == [type |-> "scan", layer |-> "network", key |-> "k1", ip |-> "ip1", src |-> Absent, dst |-> Absent,
          at |-> Absent, user |-> Absent, level |-> "medium", site |-> Absent, target |-> Absent,
          tags |-> {}, container |-> Absent, exec |-> FALSE, bare |-> FALSE]

Scan == [Plain EXCEPT !.type = "port_scan"]
SqlInjection == [Plain EXCEPT !.type = "sql_injection", !.layer = "api", !.level = "high", !.container = "c1"]
Guess(k, ip) == [Plain EXCEPT !.type = "brute_force", !.layer = "auth", !.key = k, !.ip = ip, !.user = "u1"]
Login(type) == [Plain EXCEPT !.type = type, !.layer = "auth", !.user = "u1"]
Access == [Plain EXCEPT !.type = "sensitive_access", !.layer = "api"]
Shell == [Plain EXCEPT !.type = "docker_container_event", !.key = "k2", !.container = "c1", !.exec = TRUE]
Hop(target) == [Plain EXCEPT !.dst = target, !.at = target, !.key = "k2"]
Call == [Plain EXCEPT !.src = "a", !.dst = "b", !.key = "k3"]
Browser(type, target, bare) ==
  [Plain EXCEPT !.type = type, !.layer = "browser-agent", !.dst = "w", !.site = "s1", !.target = target,
                !.bare = bare, !.key = "k4", !.tags = {"sqli", "path-traversal"}]

Attack == {Scan, SqlInjection}

MCArrivals == Attack \cup
  {Guess("k1", "ip1"), Guess("k2", "ip2"), Guess(Unknown, Absent), Login("login_success"),
   Login("suspicious_login"), Access, Shell, Hop("a"), Hop("b"), Call, Browser("auth_failure", "t1", FALSE),
   Browser("data_access", "t2", FALSE), Browser("privilege_change", "t1", TRUE)}

MCGraphs == {Unavailable, {<<"a", "b">>, <<"b", "a">>}, {<<"a", "b">>, <<"b", "c">>}}

Stage(types, within) == [match |-> {[type |-> types]}, within |-> within]

MCYamlRules ==
  << [name |-> "hops", severity |-> "low", window |-> 2, sequence |-> <<Stage({"scan"}, Absent), Stage({"scan"}, 1)>>] >>

Active(s) == IF s = "wide" THEN {w1} ELSE {w1, w2}
Sent(s) == IF s = "wide" THEN MCArrivals ELSE Attack

MCRequests ==
  [endpoint : {"/x", "/admin"}, params : {{}}, marks : {{}}]
  \cup {[endpoint |-> "/x", params |-> {"sqli"}, marks |-> {"traversal"}]}

MCBatches == {<<"plain", "plain">>, <<"blank", "plain">>, <<"plain", "bare">>, <<"unknown", "plain">>,
              <<"odd", "nested", "plain">>}

-----------------------------------------------------------------------------
(* Inputs of the pure functions *)

RuleEvents == [type : {"a", "b"}, src : {"s", "t"}, time : 0..2, id : {0}]
SomeFiles ==
  {[name |-> "r", window |-> 2, sequence |-> <<Stage({"a"}, Absent), Stage({"a", "b"}, gap), Stage({"b"}, gap)>>] :
     gap \in {0, 1, Absent}}
  \cup {[name |-> "r", window |-> Absent, sequence |-> <<Stage({"a"}, 1), [match |-> Absent, within |-> 1]>>],
        [name |-> "r", window |-> 1, sequence |-> <<Stage({"a"}, 1), Stage({"b"}, 1)>>],
        [name |-> "r", window |-> 2, sequence |-> <<>>]}
NoRule(place) == [name |-> IF place = "first" THEN Absent ELSE "r", window |-> Unavailable, sequence |-> <<>>]

WithIds(s) == [n \in DOMAIN s |-> [s[n] EXCEPT !.id = n]]

RuleInputs == [file : SomeFiles, buf : {<<>>} \cup [1..3 -> RuleEvents]]

ChainEvents == [time : {Missing, 0, 1}, place : {"a", "b"}, trace : {Missing, "t"}, bare : {FALSE}]
               \cup [time : {1}, place : {"a"}, trace : {Missing}, bare : {TRUE}]
ChainInputs == [events : UNION {[1..n -> ChainEvents] : n \in 0..3}, detected : {0, 2}]

QuietChain == [user |-> Missing, path |-> <<"a">>]
MCChains == [user : {Missing, "u"}, path : {<<"a">>, <<"a", "b">>}]

NobodyEvent == [src |-> Blank, dst |-> Blank, targetService |-> Blank, workload |-> Blank, container |-> Blank,
                ip |-> Blank, entityIp |-> Blank, session |-> Blank, trace |-> Blank]

KeyEvents == [src : {Blank, "s"}, dst : {Blank, "d"}, targetService : {Blank, "d", "e"}, workload : {Blank, "w"},
              container : {Blank, "w"}, ip : {Blank, "i"}, entityIp : {Blank, "i", "none"},
              session : {Blank, "t"}, trace : {Blank, "t"}]

\* What the engine writes, of its own rules and of YAML rules, and what the ground
\* truth says.
YamlSteps == {[type |-> "x", source |-> Unsaid, destination |-> Unsaid, stage |-> stage, time |-> 0] : stage \in {"g", "h"}}
ChainSteps == YamlSteps \cup
  [type : {"x", "y"}, source : {"s", "t"}, destination : {Unsaid}, stage : {Unsaid}, time : {0}]
TruthSteps == [type : {"x"}, source : {"s", "t"}, destination : {"d"}, stage : {"g", "h"}, time : {Unsaid}]
  \cup [type : {"y"}, source : {"s"}, destination : {"d"}, stage : {"g"}, time : {Unsaid}]
Tellings == UNION {[1..n -> ChainSteps] : n \in 0..3}
Truths == UNION {[1..n -> TruthSteps] : n \in 0..2}

NamedEvents ==
  [type : {"login_success", "suspicious_login", "login_failure", "port_scan"}, user : {Blank, "u", "v"}, worded : {FALSE}]
  \cup [type : {"login_success", "page_load"}, user : {Blank}, worded : {TRUE}]

Findings == [rule : {"full_kill_chain", "credential_compromise", "brute_force_attempt", "critical_exploit", "data_exfiltration"},
             risk : {0, 30, 31, 70, 71, 150, 151}, steps : 1..3, lost : {Absent, ""}]

-----------------------------------------------------------------------------

Scenarios == {"guesses", "lockouts", "requests", "packets", "stream", "browsers", "channel", "wide", "deep", "rows", "alerts",
              "rules", "chains", "keys", "scores", "labels", "names"}

MCInit ==
  /\ scenario \in Scenarios /\ input = <<>>
  /\ EngineInit /\ ChainInit /\ IncAlertInit /\ MonitorsInit /\ IngressInit /\ BridgeInit
  /\ scenario # "channel" => mode = "dual"

\* In "wide" events are on time, time passes before the last one and operators ask
\* nothing; in "deep" the clock moves once and operators ask once, between events, w1
\* takes the first event and the last one is on time.
RunEngine ==
  /\ scenario \in {"wide", "deep"} /\ EngineNext
  /\ scenario = "deep" => engClock' <= 1
  /\ <<engClock, asked>>' # <<engClock, asked>> => Taken \in 1..MaxEvents - 1
  /\ scenario = "wide" => asked' = asked /\ (engClock' # engClock => Taken = MaxEvents - 1)
  /\ \A w \in Workers :
       /\ worker[w].at = "idle" /\ worker'[w].at = "buffer" =>
            /\ w \in Active(scenario) /\ (Taken = 0 => w = w1)
            /\ \E a \in Sent(scenario) : \A f \in DOMAIN a : worker'[w].event[f] = a[f]
            /\ scenario = "wide" \/ Taken = MaxEvents - 1 => worker'[w].event.time = engClock
       /\ scenario = "wide" /\ worker[w].at # "idle" => worker' # worker
  /\ UNCHANGED <<storeVars, monitorVars, inVars, input>>

\* Failures, and the lock-outs of names, are counted apart from each other; the
\* monitor is reset once.
WasReset == \E n \in DOMAIN heard : heard[n].kind = "forgotten"
Resets == \E n \in DOMAIN heard : heard[n].kind # "forgotten" /\ heard'[n].kind = "forgotten"

\* Names are as good as each other: they come up in this order.
InOrder(p) == (p["u3"] > 0 => p["u2"] > 0) /\ (p["u2"] > 0 => p["u1"] > 0)

GuessPasswords ==
  /\ WatchLogins
  /\ ~(WasReset /\ Resets)
  /\ scenario = "guesses" => UNCHANGED lockouts /\ \A u \in Usernames : priorFailures'[u] >= priorFailures[u]
                         /\ InOrder(priorFailures')
  /\ scenario = "lockouts" => (ipFailures' = ipFailures \/ heard = <<>>) /\ Len(heard') < MaxHeard

\* More connections than packets of other kinds.
FewHeard == Len(heard') < IF \A n \in DOMAIN heard' : heard'[n].kind = "syn" THEN MaxHeard ELSE MaxHeard - 1

Watch ==
  /\ \/ scenario \in {"guesses", "lockouts"} /\ GuessPasswords
     \/ scenario = "requests" /\ WatchRequests
     \/ scenario = "packets" /\ WatchPackets /\ FewHeard
  /\ UNCHANGED <<engVars, storeVars, inVars, input>>

ComeIn ==
  /\ \/ scenario = "stream" /\ IngressNext /\ UNCHANGED <<channel, proxyList, bridgeVars>>
     \/ scenario = "browsers" /\ IngressNext /\ UNCHANGED <<stream, sending, indexerVars, bridgeVars>>
     \/ scenario = "channel" /\ BridgeNext /\ UNCHANGED ingressVars
  /\ UNCHANGED <<engVars, storeVars, monitorVars, input>>

\* Without the campaigns, incidents come in the order of their numbers.
KeepRows ==
  /\ \/ scenario = "rows" /\ ChainNext /\ UNCHANGED incAlertVars
     \/ /\ scenario = "alerts" /\ IncAlertNext /\ webhook' \in {webhook, FALSE}
        /\ \A i, j \in ChainIds : j < i /\ alert[i].at = "none" /\ alert'[i].at # "none" => alert[j].at # "none"
        /\ \A i \in ChainIds : chainRows'[i] # Missing => chainRows'[i].chain = QuietChain
  /\ UNCHANGED <<engVars, monitorVars, inVars, input>>

Draw ==
  /\ input = <<>> /\ UNCHANGED <<engVars, storeVars, monitorVars, inVars>>
  /\ \/ scenario = "rules" /\ \E i \in RuleInputs : input' = <<i>>
     \/ scenario = "chains" /\ \E i \in ChainInputs : input' = <<i>>
     \/ scenario = "keys" /\ \E e \in KeyEvents : input' = <<e>>
     \/ scenario = "names" /\ \E events \in UNION {[1..n -> NamedEvents] : n \in 1..3} : input' = <<events>>
     \/ scenario = "labels" /\ \E f \in Findings : input' = <<f>>
     \/ scenario = "scores" /\ \E actual \in Tellings, expected \in Truths : input' = <<actual, expected>>

MCNext == (RunEngine \/ Watch \/ ComeIn \/ KeepRows \/ Draw) /\ UNCHANGED scenario

-----------------------------------------------------------------------------
(* Properties of several parts, and of the drawn inputs *)

\* What the tables keep of a finding, with its severity or without.
Rows(f, severity) ==
  LET row == [severity |-> severity, risk |-> f.risk, critical |-> f.rule \in CriticalTechniques, steps |-> Absent]
  IN  [incident |-> row, chain |-> [row EXCEPT !.steps = f.steps]]

\* A severity that is computed again from a table, of an incident or of its kill
\* chain, never says more than the engine said, nor less than "high" of a kill chain
\* of several steps.  Rows that have one keep it.  (Of an incident's row it may say
\* less than "high": its events are not counted.)
LabelsAgree ==
  scenario = "labels" => \A n \in DOMAIN input :
    LET f == input[n]
        said == SeverityOf(f.rule, f.risk, f.steps)
        lost == Rows(f, f.lost)
        kept == Rows(f, said)
        incident == BackfillCorrelatedIncidents(<<lost.incident, kept.incident>>)
        chain == BackfillKillChains(<<lost.chain, kept.chain>>)
    IN  /\ incident[2] = kept.incident /\ chain[2] = kept.chain
        /\ Rank(chain[1].severity) <= Rank(said) /\ Rank(incident[1].severity) <= Rank(said)
        /\ f.steps >= 2 => Rank(chain[1].severity) >= 3

\* On every drawn rule and buffer the rule language is judged right, and a file that
\* is no rule, wherever it stands in the directory, loses none of the others.
RulesAreRight ==
  scenario = "rules" => \A n \in DOMAIN input : input[n].buf # <<>> =>
    LET buf == WithIds(input[n].buf)
        rules == Yaml!LoadRules(<<NoRule("first"), input[n].file, NoRule("last")>>)
    IN  Len(rules) = 1 /\ Yaml!RuleIsRight(rules[1], buf[Len(buf)], buf)

\* The reconstruction of a kill chain tells the truth on every drawn one.
ChainsAreRight ==
  scenario = "chains" => \A n \in DOMAIN input : ChainIsRight(input[n].events, input[n].detected)

Crowd == <<[NobodyEvent EXCEPT !.src = "s"], [NobodyEvent EXCEPT !.ip = "i"],
           [NobodyEvent EXCEPT !.workload = "w"], [NobodyEvent EXCEPT !.src = "s", !.dst = "d", !.ip = "i"],
           [NobodyEvent EXCEPT !.trace = "t"], NobodyEvent>>

\* An event has one key wherever it is computed, and the rules find the events of
\* its actor and of nobody else among those of many: all of them by key alone or by
\* address alone.  In dual mode they find some whenever there is one; all, which is
\* what docs/CORRELATION_ENGINE.md:56 promises (key OR address), they do not.
KeysAgree ==
  scenario = "keys" => \A n \in DOMAIN input :
    LET e == input[n]
        found == FilterByActor(Crowd, e, "dual")
    IN  /\ KeyIsStable(e)
        /\ PartitionSuffices(Crowd, e)
        /\ FindsTheActor(Crowd, e, "legacy") /\ FindsTheActor(Crowd, e, "service")
        /\ \A k \in DOMAIN found : SameActor(found[k], e, "dual")
        /\ (\E k \in DOMAIN Crowd : SameActor(Crowd[k], e, "dual")) => found # <<>>

\* An incident names an account whenever one of its events does, and if somebody got
\* in, one that somebody got in with.  A browser's event, whose target cannot be looked
\* into, costs it the account only where no event of a login names one.
AccountsAreNamed ==
  scenario = "names" => \A n \in DOMAIN input :
    LET events == input[n]
        name == ExtractUsername(events)
        users(types) == {events[k].user : k \in {j \in DOMAIN events : events[j].type \in types}} \ {Blank}
        intruders == users({"login_success", "suspicious_login"})
        worded == {events[k].type : k \in {j \in DOMAIN events : events[j].worded}}
    IN  /\ worded \cap ToSet(NamingTypes) = {} /\ users(ToSet(NamingTypes)) # {} =>
             name \in IF intruders # {} THEN intruders ELSE users({"login_failure"})
        /\ name \in users(ToSet(NamingTypes) \cup {"port_scan"}) \cup {Blank}
        /\ worded = {} /\ users({"port_scan"}) # {} => name # Blank

\* The score of a kill chain is fair to it.
ScoresAreFair == scenario = "scores" /\ input # <<>> => ScoreIsFair(input[1], input[2])

\* The functions that judge events, rules and kill chains agree with what they stand
\* for, on every input.
InputsAreJudgedRightly ==
  RulesAreRight /\ ChainsAreRight /\ KeysAgree /\ AccountsAreNamed /\ ScoresAreFair /\ LabelsAgree
=============================================================================
