--------------------------- MODULE IncidentAlerts ---------------------------
(***************************************************************************)
(* What follows the publishing of an incident that no campaign took: a     *)
(* thread that has a narrative written into its row of kill_chains, and a  *)
(* thread that sends an alert to Discord, with the narrative if it is      *)
(* there in time (correlation_engine.py, the end of publish_incident,      *)
(* _narrate_and_save, _send_discord_alert, _poll_narrative).               *)
(*                                                                         *)
(* All threads run side by side.  An alert of the type of an incident      *)
(* rests after one was begun; looking that up and noting it are two steps, *)
(* but no time passes between them.                                        *)
(***************************************************************************)
EXTENDS KillChain, Engine

CONSTANTS
  AlertTypes,      \* incident_type
  RateLimit,       \* DISCORD_RATE_LIMIT: 60 s
  PollTime,        \* the narrative is waited for during 8 s
  PostTries,       \* DISCORD_MAX_RETRIES: 3
  MaxAlertClock    \* bound: the clock

ASSUME AlertAssumption == RateLimit \in Nat /\ PostTries \in Nat \ {0}

VARIABLES
  alertNow,
  webhook,         \* is config:discord_webhook set?
  narrating,       \* incidents with a narration thread
  alert,           \* incident -> its alert thread
  lastSent,        \* _discord_last_sent: incident_type -> when
  inbox            \* messages in the Discord channel

incAlertVars == <<alertNow, webhook, narrating, alert, lastSent, inbox>>

NoAlert == [at |-> "none", type |-> Missing, now |-> 0, text |-> Missing, tries |-> 0]

IncAlertInit ==
  /\ alertNow = 0 /\ webhook \in BOOLEAN
  /\ narrating = {} /\ alert = [i \in ChainIds |-> NoAlert]
  /\ lastSent = [t \in {} |-> 0] /\ inbox = {}

AlertTick ==
  /\ alertNow < MaxAlertClock /\ alertNow' = alertNow + 1
  /\ \A i \in ChainIds : alert[i].at # "mark"
  /\ UNCHANGED <<webhook, narrating, alert, lastSent, inbox, chainRows>>

\* set_discord_config
SetWebhook(on) ==
  /\ webhook' = on
  /\ UNCHANGED <<alertNow, narrating, alert, lastSent, inbox, chainRows>>

\* The end of publish_incident; storing the chain may fail and is passed over.
PublishHigh(i, type, chain, stored) ==
  /\ alert[i].at = "none"
  /\ IF stored THEN PersistChain(i, chain) ELSE UNCHANGED chainRows
  /\ narrating' = narrating \cup {i}
  /\ alert' = [alert EXCEPT ![i] = [NoAlert EXCEPT !.at = "read", !.type = type]]
  /\ UNCHANGED <<alertNow, webhook, lastSent, inbox>>

-----------------------------------------------------------------------------
(* The narration thread *)

\* What the language model answers is a narrative if it is JSON; a model that fails
\* or says nothing gives none.
GenerateNarrative(reply) == IF reply \in Writings THEN reply ELSE Missing

\* A database that fails ends the thread as well.
NarrateAndSave(i, reply) ==
  /\ i \in narrating /\ narrating' = narrating \ {i}
  /\ LET text == GenerateNarrative(reply)
     IN  IF text = Missing THEN UNCHANGED chainRows ELSE Narrate(i, text)
  /\ UNCHANGED <<alertNow, webhook, alert, lastSent, inbox>>

-----------------------------------------------------------------------------
(* The alert thread *)

Goes(i, to) == alert' = [alert EXCEPT ![i] = to]

ReadWebhook(i, redisUp) ==
  /\ alert[i].at = "read"
  /\ Goes(i, [alert[i] EXCEPT !.at = IF redisUp /\ webhook THEN "limit" ELSE "muted", !.now = alertNow])
  /\ UNCHANGED <<alertNow, webhook, narrating, lastSent, inbox, chainRows>>

AlertRests(type, now) == type \in DOMAIN lastSent /\ now - lastSent[type] < RateLimit

LookAtLimit(i) ==
  /\ alert[i].at = "limit"
  /\ LET next == IF AlertRests(alert[i].type, alertNow) THEN "limited" ELSE "mark"
     IN  Goes(i, [alert[i] EXCEPT !.at = next, !.now = alertNow])
  /\ UNCHANGED <<alertNow, webhook, narrating, lastSent, inbox, chainRows>>

\* Noted before anything is sent.
MarkSent(i) ==
  /\ alert[i].at = "mark" /\ Goes(i, [alert[i] EXCEPT !.at = "poll"])
  /\ lastSent' = [t \in DOMAIN lastSent \cup {alert[i].type} |->
                    IF t = alert[i].type THEN alert[i].now ELSE lastSent[t]]
  /\ UNCHANGED <<alertNow, webhook, narrating, inbox, chainRows>>

\* _poll_narrative: no longer than PollTime; a look that fails is repeated.
PollNarrative(i) ==
  /\ alert[i].at = "poll"
  /\ \/ alertNow - alert[i].now >= PollTime /\ Goes(i, [alert[i] EXCEPT !.at = "post"])
     \/ /\ alertNow - alert[i].now < PollTime
        /\ chainRows[i] # Missing /\ chainRows[i].narrative # Missing
        /\ Goes(i, [alert[i] EXCEPT !.at = "post", !.text = chainRows[i].narrative])
  /\ UNCHANGED <<alertNow, webhook, narrating, lastSent, inbox, chainRows>>

Message(i) == [of |-> i, type |-> alert[i].type, text |-> alert[i].text, begun |-> alert[i].now]

\* requests.post: Discord shows the message or not, and says so or not.  The url
\* is the one that was read when the thread began.
PostAlert(i, shown, told) ==
  /\ alert[i].at = "post" /\ (told => shown)
  /\ inbox' = IF shown THEN inbox \cup {Message(i)} ELSE inbox
  /\ LET tries == alert[i].tries + 1
     IN  Goes(i, [alert[i] EXCEPT !.tries = tries,
                                  !.at = IF told THEN "sent" ELSE IF tries < PostTries THEN "post" ELSE "gave up"])
  /\ UNCHANGED <<alertNow, webhook, narrating, lastSent, chainRows>>

IncAlertNext ==
  \/ AlertTick
  \/ \E on \in BOOLEAN : SetWebhook(on)
  \/ \E i \in ChainIds :
       \/ \E type \in AlertTypes, chain \in Chains, stored \in BOOLEAN : PublishHigh(i, type, chain, stored)
       \/ \E reply \in Writings \cup {"prose", Missing} : NarrateAndSave(i, reply)
       \/ \E up \in BOOLEAN : ReadWebhook(i, up)
       \/ LookAtLimit(i) \/ MarkSent(i) \/ PollNarrative(i)
       \/ \E shown, told \in BOOLEAN : PostAlert(i, shown, told)

IncAlertSpec == ChainInit /\ IncAlertInit /\ [][IncAlertNext]_<<chainRows, incAlertVars>>

-----------------------------------------------------------------------------
(* Property *)

Begun == {i \in ChainIds : alert[i].at \in {"poll", "post", "sent", "gave up"}}

\* An incident is passed over in silence only for another of its type whose alert
\* was begun less than a minute before, and by now has been shown or has been tried
\* as often as the code tries; of one type, no two alerts are begun within a
\* minute but at once; and a message tells the narrative of its own incident.
HighIsAnnounced ==
  /\ \A i \in ChainIds : alert[i].at = "limited" =>
       \E j \in Begun : /\ alert[j].type = alert[i].type /\ alert[i].now - alert[j].now \in 0..(RateLimit - 1)
                        /\ alert[j].at = "sent" => \E m \in inbox : m.of = j
                        /\ alert[j].at = "gave up" => alert[j].tries = PostTries
  /\ \A i, j \in Begun : alert[i].type = alert[j].type /\ alert[i].now < alert[j].now =>
       alert[j].now - alert[i].now >= RateLimit
  /\ \A m \in inbox : m.text # Missing => chainRows[m.of] # Missing /\ m.text = chainRows[m.of].narrative
-----------------------------------------------------------------------------
(* The engine with these threads *)

ReportingInit == EngineInit /\ ChainInit /\ IncAlertInit

ReportingNext ==
  \/ EngineNext /\ UNCHANGED <<chainRows, incAlertVars>>
  \/ IncAlertNext /\ UNCHANGED engVars

ReportingSpec == ReportingInit /\ [][ReportingNext]_<<engVars, chainRows, incAlertVars>>

\* Attacks that the engine was told of completely are reported: the steps of one
\* actor that follow each other, and the addresses that try one account; and where no
\* campaign takes an incident, it is announced by itself.
AttacksAreReported == SequenceIsReported /\ SpreadIsReported /\ HighIsAnnounced
=============================================================================
