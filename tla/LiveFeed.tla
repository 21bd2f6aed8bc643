------------------------------ MODULE LiveFeed ------------------------------
(***************************************************************************)
(* How an incident gets to a dashboard: published by the engine and by the *)
(* simulator of the attack console, passed on by the API's Redis           *)
(* subscriber to the web sockets (api/app.py, redis_subscriber), and       *)
(* polled from the list incidents every 15 s                               *)
(* (frontend/src/hooks/use-realtime.js).                                   *)
(*                                                                         *)
(* Publishing reaches who has subscribed at that moment.  What is pushed   *)
(* is put before what is shown; what is polled takes its place, also when  *)
(* the answer was read before the push.  What the API sends a socket when  *)
(* it connects, the dashboard does not use.  One dashboard.                *)
(***************************************************************************)
EXTENDS Naturals, Sequences, SequencesExt

CONSTANTS
  EngineFinds,   \* incidents of the engine
  ConsoleFires,  \* incidents of the simulator
  Page,          \* 50 incidents a poll asks for
  ScreenSize,    \* MAX_INCIDENTS, 100
  Fetchers       \* bound: polls under way at once

VARIABLES
  announcing,    \* incident -> what its author does next, or "done"
  listed,        \* incidents, newest first
  relay,         \* the subscriber: [up, inbox]
  socket,        \* the dashboard's: [up, wire]
  screen,        \* the incidents it shows
  fetch          \* polls: [at: "idle", "asked", "read" or "empty", list]

liveVars == <<announcing, listed, relay, socket, screen, fetch>>

IdleFetch == [at |-> "idle", list |-> <<>>]

LiveInit ==
  /\ announcing = [i \in EngineFinds \cup ConsoleFires |-> IF i \in EngineFinds THEN "publish" ELSE "list"]
  /\ listed = <<>> /\ screen = <<>>
  /\ relay = [up |-> FALSE, inbox |-> <<>>] /\ socket = [up |-> FALSE, wire |-> <<>>]
  /\ fetch = [f \in Fetchers |-> IdleFetch]

First(n, s) == SubSeq(s, 1, IF Len(s) < n THEN Len(s) ELSE n)

-----------------------------------------------------------------------------
(* The authors.  Without Redis the engine gives up, and the simulator goes  *)
(* on with the sockets.                                                     *)

PublishIncident(i) ==
  /\ announcing[i] = "publish"
  /\ relay' = IF relay.up THEN [relay EXCEPT !.inbox = Append(@, i)] ELSE relay
  /\ announcing' = [announcing EXCEPT ![i] = IF i \in EngineFinds THEN "list" ELSE "emit"]
  /\ UNCHANGED <<listed, socket, screen, fetch>>

ListIncident(i) ==
  /\ announcing[i] = "list" /\ listed' = <<i>> \o listed
  /\ announcing' = [announcing EXCEPT ![i] = IF i \in EngineFinds THEN "done" ELSE "publish"]
  /\ UNCHANGED <<relay, socket, screen, fetch>>

RedisFails(i) ==
  /\ announcing[i] \in {"publish", "list"}
  /\ announcing' = [announcing EXCEPT ![i] = IF i \in EngineFinds THEN "done" ELSE "emit"]
  /\ UNCHANGED <<listed, relay, socket, screen, fetch>>

\* socketio.emit: to who is connected.
Pushed(i) == IF socket.up THEN [socket EXCEPT !.wire = Append(@, i)] ELSE socket

EmitIncident(i) ==
  /\ announcing[i] = "emit" /\ socket' = Pushed(i)
  /\ announcing' = [announcing EXCEPT ![i] = "done"]
  /\ UNCHANGED <<listed, relay, screen, fetch>>

-----------------------------------------------------------------------------
(* The subscriber *)

RelayMessage ==
  /\ relay.inbox # <<>> /\ socket' = Pushed(Head(relay.inbox))
  /\ relay' = [relay EXCEPT !.inbox = Tail(@)]
  /\ UNCHANGED <<announcing, listed, screen, fetch>>

\* An error ends the subscription and what was buffered; a new one is made 5 s later.
RelayFails ==
  /\ relay.up /\ relay' = [up |-> FALSE, inbox |-> <<>>]
  /\ UNCHANGED <<announcing, listed, socket, screen, fetch>>

Subscribe ==
  /\ ~relay.up /\ relay' = [relay EXCEPT !.up = TRUE]
  /\ UNCHANGED <<announcing, listed, socket, screen, fetch>>

-----------------------------------------------------------------------------
(* The dashboard *)

Connect ==
  /\ ~socket.up /\ socket' = [up |-> TRUE, wire |-> <<>>]
  /\ UNCHANGED <<announcing, listed, relay, screen, fetch>>

\* The API restarts, or the connection breaks.
Disconnect ==
  /\ socket.up /\ socket' = [up |-> FALSE, wire |-> <<>>]
  /\ UNCHANGED <<announcing, listed, relay, screen, fetch>>

\* onIncident: what is shown already is left where it is.
OnIncident ==
  /\ socket.wire # <<>> /\ socket' = [socket EXCEPT !.wire = Tail(@)]
  /\ LET i == Head(socket.wire)
     IN  screen' = IF Contains(screen, i) THEN screen ELSE First(ScreenSize, <<i>> \o screen)
  /\ UNCHANGED <<announcing, listed, relay, fetch>>

\* Mutant: polls are for the time without a socket.
FetchIncidentsAlone(f) ==
  /\ fetch[f].at = "idle" /\ ~socket.up /\ fetch' = [fetch EXCEPT ![f].at = "asked"]
  /\ UNCHANGED <<announcing, listed, relay, socket, screen>>

\* Every 15 s, every 5 s more without a socket, whether others are answered or not.
FetchIncidents(f) ==
  /\ fetch[f].at = "idle" /\ fetch' = [fetch EXCEPT ![f].at = "asked"]
  /\ UNCHANGED <<announcing, listed, relay, socket, screen>>

\* GET /api/incidents
ListIncidents(f) ==
  /\ fetch[f].at = "asked" /\ fetch' = [fetch EXCEPT ![f] = [at |-> "read", list |-> First(Page, listed)]]
  /\ UNCHANGED <<announcing, listed, relay, socket, screen>>

\* When Redis fails at the list, the API answers with an empty one.
ListsNothing(f) ==
  /\ fetch[f].at = "asked" /\ fetch' = [fetch EXCEPT ![f].at = "empty"]
  /\ UNCHANGED <<announcing, listed, relay, socket, screen>>

FetchAnswers(f) ==
  /\ fetch[f].at \in {"read", "empty"} /\ fetch' = [fetch EXCEPT ![f] = IdleFetch]
  /\ screen' = fetch[f].list
  /\ UNCHANGED <<announcing, listed, relay, socket>>

FetchFails(f) ==
  /\ fetch[f].at # "idle" /\ fetch' = [fetch EXCEPT ![f] = IdleFetch]
  /\ UNCHANGED <<announcing, listed, relay, socket, screen>>

SpreadWord == \E i \in DOMAIN announcing : PublishIncident(i) \/ ListIncident(i) \/ RedisFails(i) \/ EmitIncident(i)

LiveNext ==
  \/ SpreadWord
  \/ RelayMessage \/ RelayFails \/ Subscribe
  \/ Connect \/ Disconnect \/ OnIncident
  \/ \E f \in Fetchers :
       FetchIncidents(f) \/ ListIncidents(f) \/ ListsNothing(f) \/ FetchAnswers(f) \/ FetchFails(f)

-----------------------------------------------------------------------------
(* Property *)

Recent == {First(Page, listed)[n] : n \in DOMAIN First(Page, listed)}

\* "WS push is primary but this catches missed pushes": an incident of the list is
\* shown, for good or again and again, as long as it is among the newest, whoever
\* missed its publication and whatever late or empty answers took it off the screen;
\* and none is ever shown twice, though the simulator's are pushed on two ways.
MissedPushesAreCaught ==
  /\ \A i \in EngineFinds \cup ConsoleFires : []<>(i \in Recent => Contains(screen, i))
  /\ [](\A m, n \in DOMAIN screen : screen[m] = screen[n] => m = n)
=============================================================================
