---------------------------- MODULE PubSubBridge ----------------------------
(***************************************************************************)
(* How what the monitors publish gets to the engine.  Every monitor        *)
(* publishes on the Redis channel "security_events", the engine reads a    *)
(* stream.  What joins them depends on EVENT_BUS_MODE, a setting: in       *)
(* "dual" a bridge appends each message to the stream (event_bus.py,       *)
(* PubSubBridge); in "pubsub" the engine listens itself                    *)
(* (correlation_engine.py, _consume_pubsub_loop); in "streams", the        *)
(* default, nobody listens.                                                *)
(*                                                                         *)
(* A channel keeps nothing: Redis hands a message to those connected then, *)
(* and what a listener has not read is lost with its connection.           *)
(***************************************************************************)
EXTENDS Ingress

CONSTANTS
  Messages,        \* kinds: see below
  MaxPublished     \* bound: messages

\* Kinds of message: "event"; "word" (an event whose severity is a word); "list" (JSON,
\* but no object); "garbage" (not JSON).
Objects == {"event", "word"}

VARIABLES
  mode,            \* EVENT_BUS_MODE
  published,       \* messages, in order
  listener,        \* "none", "down" or "listening"
  line,            \* numbers of the messages on the listener's connection
  handed,          \* numbers of those handed to the engine, in order
  gone             \* history: those published while nobody listened, lost with a
                   \* connection or refused by Redis

bridgeVars == <<mode, published, listener, line, handed, gone>>

BridgeInit ==
  /\ mode \in {"streams", "pubsub", "dual"}
  /\ published = <<>> /\ line = <<>> /\ handed = <<>> /\ gone = {}
  /\ listener = IF mode = "streams" THEN "none" ELSE "down"

\* A monitor's publish_event.
PublishOnChannel(m) ==
  /\ Len(published) < MaxPublished
  /\ published' = Append(published, m)
  /\ LET n == Len(published')
     IN  IF listener = "listening" THEN line' = Append(line, n) /\ UNCHANGED gone
         ELSE gone' = gone \cup {n} /\ UNCHANGED line
  /\ UNCHANGED <<mode, listener, handed>>

\* The first subscription, and one after the connection was lost; the engine's own
\* goes through connect_redis.
Subscribe ==
  /\ listener = "down" /\ listener' = "listening"
  /\ UNCHANGED <<mode, published, line, handed, gone>>

Waiting(messages) == {messages[k] : k \in DOMAIN messages}

\* listen raises: the loop sleeps, with backoff or for a second.
LoseConnection ==
  /\ listener = "listening" /\ listener' = "down"
  /\ gone' = gone \cup Waiting(line) /\ line' = <<>>
  /\ UNCHANGED <<mode, published, handed>>

\* The bridge's part for one message: XADD, which Redis may refuse.
BridgeMessage(kept) ==
  /\ mode = "dual" /\ line # <<>> /\ line' = Tail(line)
  /\ LET n == Head(line)
         event == published[n] \in Objects
     IN  /\ handed' = IF event /\ kept THEN Append(handed, n) ELSE handed
         /\ gone' = IF event /\ ~kept THEN gone \cup {n} ELSE gone
  /\ UNCHANGED <<mode, published, listener>>

\* The engine's own loop: process_event.  It raises on a list, and on a severity
\* that is a word once the event is buffered; the loop takes that for an error of
\* Redis and connects anew.
ProcessMessage ==
  /\ mode = "pubsub" /\ line # <<>>
  /\ LET n == Head(line)
         raises == published[n] \in {"word", "list"}
     IN  /\ handed' = IF published[n] \in Objects THEN Append(handed, n) ELSE handed
         /\ line' = IF raises THEN <<>> ELSE Tail(line)
         /\ gone' = IF raises THEN gone \cup Waiting(Tail(line)) ELSE gone
         /\ listener' = IF raises THEN "down" ELSE listener
  /\ UNCHANGED <<mode, published>>

BridgeNext ==
  \/ \E m \in Messages : PublishOnChannel(m)
  \/ Subscribe \/ LoseConnection \/ ProcessMessage
  \/ \E kept \in BOOLEAN : BridgeMessage(kept)

-----------------------------------------------------------------------------
(* Property *)

\* Where message n is.
Places(n) ==
  {<<"handed", k>> : k \in {j \in DOMAIN handed : handed[j] = n}}
  \cup {<<"line", k>> : k \in {j \in DOMAIN line : line[j] = n}}
  \cup {<<"gone", m>> : m \in gone \cap {n}}

\* The engine is handed published events, in their order and never twice, across all
\* reconnections; and one that it was not handed is on its way or was lost in a way
\* that is known.
HandedInOrder ==
  /\ \A j, k \in DOMAIN handed : j < k => handed[j] < handed[k]
  /\ \A n \in DOMAIN published : published[n] \in Objects => Cardinality(Places(n)) = 1
-----------------------------------------------------------------------------
(* All that comes in: by the stream and by the channel *)

InInit == IngressInit /\ BridgeInit

InNext ==
  \/ IngressNext /\ UNCHANGED bridgeVars
  \/ BridgeNext /\ UNCHANGED ingressVars

InSpec == InInit /\ [][InNext]_<<ingressVars, bridgeVars>>

\* Events get where they are wanted once, in order, or are lost in a known way: into
\* the index and from the channel to the engine.
EventsComeIn == IndexIsHonest /\ HandedInOrder
=============================================================================
