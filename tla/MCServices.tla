----------------------------- MODULE MCServices -----------------------------
(***************************************************************************)
(* The services around the engine for TLC.  They share no state in the     *)
(* models, so each behaviour chooses one "part" and runs it alone: the     *)
(* states of the parts add up instead of multiplying.                      *)
(***************************************************************************)
EXTENDS RiskScores, Topology, Accounts, LoginService,
        AttackConsole, CampaignTables, PcapJobs, Triage, WafConfig,
        ThreatFeed, LiveFeed

VARIABLE part

filedVars == <<campTableVars, pcapVars, triageVars, wafVars, feedVars, liveVars>>

Parts == {"risk", "topology", "rotation", "accounts", "sessions",
          "logins", "console",
          "tables", "captures", "triage", "firewall", "feeds", "live"}

-----------------------------------------------------------------------------
(* Inputs *)

MCStaticEdges == {<<"a", "c">>}
MCTraffic == {<<"a", "b">>, <<"b", "c">>, <<"b", "b">>}

\* Incident 2 is of nobody; between 1 and the engine's the actor was idle.
MCActorOf == <<"a", Null, "a", "a", "a", "a">>
MCFirstAt == <<0, 3, 3, 3, 3, 3>>

Syn(s, port) == [src |-> s, kind |-> "syn", value |-> port]
Query(s, entropy) == [src |-> s, kind |-> "query", value |-> entropy]

\* Scans that meet, one that repeats a port, tunnels beside an innocent source.
MCCaptures ==
  {<<Syn("s", 1), Syn("t", 1), Syn("s", 2), Syn("t", 2), Syn("s", 1), Syn("s", 3)>>,
   <<Syn("s", 1), [src |-> "s", kind |-> "other", value |-> 0], Syn("t", 2), Syn("s", 1),
     Query("s", 9), Query("t", 9), Query("s", 0), Query("s", 7)>>,
   <<Query("s", 5), Query("s", 5), Syn("s", 1), Query("s", 9), Query("s", 0), Syn("s", 2)>>}

MCDecisions == {[status |-> "resolved", note |-> "x"], [status |-> "suppressed", note |-> NoNote]}

MCBodies == {"s1" :> 1, "s2" :> 1, [s1 |-> 0, s2 |-> 0]}

MCFeeds == [f1 |-> {"i1"}, f2 |-> {"i1", "i2"}]

-----------------------------------------------------------------------------

ServicesInit ==
  /\ part \in Parts
  /\ RiskInit /\ TopoInit /\ AccountsInit /\ LoginInit
  /\ ConsoleInit /\ (part # "console" => inProcess) /\ (part # "logins" => redis_available)
  /\ CampTableInit /\ PcapInit /\ TriageInit /\ WafInit /\ FeedInit /\ LiveInit

Rest1 == <<part, topoVars, accountVars, loginVars, consoleVars, filedVars>>

\* Workers, and services, are as good as each other: the first event is scored by
\* the first for the first.
InTurn == ratings = 0 /\ ratings' = 1 => rater'["r1"].at = "add" /\ scores'[1].service = "s1"

Rate == part = "risk" /\ RiskNext /\ InTurn /\ UNCHANGED Rest1

Map == /\ part = "topology" /\ TopoNext
       /\ UNCHANGED <<part, riskVars, accountVars, loginVars, consoleVars, filedVars>>

OneWorks == \E w \in Workers : serving'[w] = Waiting /\ sessions'[w] = {}

\* "rotation": workers refresh the tokens of one account at once; "accounts": one
\* works while administrators change accounts; "sessions": wrong passwords,
\* revocations and restarts.
Account ==
  /\ part \in {"rotation", "accounts", "sessions"} /\ AccountsNext
  /\ part = "rotation" => users' = users /\ blocklist' = blocklist /\ accNow' = accNow
  /\ part \in {"rotation", "accounts"} => \A w \in Workers : sessions[w] \subseteq sessions'[w]
  /\ part # "rotation" => Cardinality(DOMAIN rows') < MaxRows
  /\ part = "accounts" => blocklist' = blocklist /\ OneWorks /\ \A w \in Workers : serving'[w].step # "failure"
  /\ part = "sessions" =>
       /\ accNow' < MaxAccClock
       /\ \A u \in Users : users'[u].role = users[u].role /\ users'[u].state = users[u].state
       /\ OneWorks /\ \E w \in Workers : blocklist'[w] = {}
  /\ UNCHANGED <<part, riskVars, topoVars, loginVars, consoleVars, filedVars>>

LogIn == /\ part = "logins" /\ LoginNext
         /\ UNCHANGED <<part, riskVars, topoVars, accountVars, consoleVars, filedVars>>

Rest2 == <<part, riskVars, topoVars, accountVars, loginVars, filedVars>>
Simulate == part = "console" /\ ConsoleNext /\ UNCHANGED Rest2

\* The engine's incidents come one after the other; a run of the script more is a
\* misfortune and an incident less.
FewEvents ==
  /\ \A i \in DOMAIN linked' \ DOMAIN linked :
       i \in Simulated \/ (underWay = {} /\ adding = Idle /\ \A j \in 3..(i - 1) : j \in DOMAIN linked)
  /\ scripts' + failures' <= 2 /\ Len(campaigns') <= 3
  /\ scripts' > 0 => Cardinality(DOMAIN linked') + scripts' <= 5

\* After requests have met nothing is promised: those under way end.
LastOnes == met => \A r \in Savers : saver[r] = NotSaving => saver'[r] = NotSaving

\* Who writes the tables, analyses captures and keeps what it was told.
File ==
  /\ \/ part = "tables" /\ CampTableNext /\ FewEvents /\ UNCHANGED <<pcapVars, triageVars, wafVars, feedVars>>
     \/ part = "captures" /\ PcapNext /\ UNCHANGED <<campTableVars, triageVars, wafVars, feedVars>>
     \/ part = "triage" /\ TriageNext /\ UNCHANGED <<campTableVars, pcapVars, wafVars, feedVars>>
     \/ part = "firewall" /\ WafNext /\ LastOnes /\ UNCHANGED <<campTableVars, pcapVars, triageVars, feedVars>>
     \/ part = "feeds" /\ FeedNext /\ UNCHANGED <<campTableVars, pcapVars, triageVars, wafVars>>
  /\ UNCHANGED <<part, riskVars, topoVars, accountVars, loginVars, consoleVars, liveVars>>

Rest3 == <<part, riskVars, topoVars, accountVars, loginVars, consoleVars,
           campTableVars, pcapVars, triageVars, wafVars, feedVars>>
ShowLive == part = "live" /\ LiveNext /\ UNCHANGED Rest3

ServicesNext == Rate \/ Map \/ Account \/ LogIn \/ Simulate \/ File \/ ShowLive

servicesVars == <<part, riskVars, topoVars, accountVars, loginVars, consoleVars, filedVars>>

\* The loop sleeps a minute between rounds; the threads and processes of the console
\* end; the dashboard asks every 15 s.  As a behaviour has one part, one formula
\* states the fairness of all three.
Regular ==
  \/ part = "risk" /\ DecayStep /\ UNCHANGED Rest1
  \/ part = "console" /\ ConsoleProgress /\ UNCHANGED Rest2
  \/ part = "live" /\ (\E f \in Fetchers : FetchIncidents(f)) /\ UNCHANGED Rest3

\* A worker goes on where it was; polls end, and neither the API nor Redis behind it
\* fails the dashboard each time.
Services ==
  /\ ServicesInit /\ [][ServicesNext]_servicesVars
  /\ WF_servicesVars(Regular)
  /\ \A w \in Raters :
       WF_servicesVars(part = "risk" /\ (AddPoints(w) \/ ReadScore(w) \/ ShowScore(w)) /\ UNCHANGED Rest1)
  /\ SF_servicesVars(part = "live" /\ (\E f \in Fetchers : ListIncidents(f)) /\ UNCHANGED Rest3)
  /\ SF_servicesVars(part = "live" /\ (\E f \in Fetchers : fetch[f].at = "read" /\ FetchAnswers(f))
                     /\ UNCHANGED Rest3)
  /\ WF_servicesVars(part = "live" /\ (\E f \in Fetchers : FetchAnswers(f) \/ FetchFails(f)) /\ UNCHANGED Rest3)

=============================================================================
