----------------------------- MODULE EventKeys -----------------------------
(***************************************************************************)
(* Who an event belongs to: engine/shared/event_schema.py, the functions   *)
(* every monitor, the ingestion service and the engine share.              *)
(*                                                                         *)
(* An event carries each identity up to twice, under the name monitors use *)
(* inside target_entity or source_entity and under the flat name that      *)
(* normalize_event fills in.  A key is a tuple whose head says which rule  *)
(* made it; the strings of the code differ exactly when the tuples do.     *)
(***************************************************************************)
EXTENDS Naturals, Sequences

CONSTANTS Blank,      \* a field that is missing or empty
          NoAddresses  \* addresses that identify nobody, Blank among them

Modes == {"service", "legacy", "dual"}   \* CORRELATION_MODE

Either(a, b) == IF a # Blank THEN a ELSE b

\* An address of no use hides the other one: only an empty one is replaced.
AddressOf(e) ==
  LET ip == Either(e.entityIp, e.ip) IN IF ip \in NoAddresses THEN Blank ELSE ip

DestinationOf(e) == Either(e.dst, e.targetService)
WorkloadOf(e) == Either(e.workload, e.container)
SessionOf(e) == Either(e.session, e.trace)

Nobody == <<"unknown">>

\* Service first, address last.
KeyOf(e) ==
  LET service == <<"svc", e.src>> \o IF DestinationOf(e) # Blank THEN <<DestinationOf(e)>> ELSE <<>>
  IN  CASE e.src # Blank ->
             service \o IF SessionOf(e) # Blank THEN <<"in", SessionOf(e)>> ELSE <<>>
        [] e.src = Blank /\ WorkloadOf(e) # Blank -> <<"wl", WorkloadOf(e)>>
        [] e.src = Blank /\ WorkloadOf(e) = Blank /\ AddressOf(e) # Blank ->
             <<"ip", AddressOf(e)>> \o IF DestinationOf(e) # Blank THEN <<DestinationOf(e)>> ELSE <<>>
        [] OTHER -> IF SessionOf(e) # Blank THEN <<"trace", SessionOf(e)>> ELSE Nobody

\* Mutant: the nested names overwrite the flat ones.
NormalizeOver(e) ==
  [e EXCEPT !.dst = Either(e.targetService, @), !.workload = Either(e.container, @), !.ip = Either(e.entityIp, @)]

\* The flat names are filled in from the nested ones; the key itself is stored
\* on the event and is what everybody reads from then on.
Normalize(e) ==
  [e EXCEPT !.dst = Either(@, e.targetService),
            !.workload = Either(@, e.container),
            !.ip = Either(@, e.entityIp)]

SameAddress(a, b) == AddressOf(a) # Blank /\ AddressOf(a) = AddressOf(b)

SameKey(a, b) == KeyOf(a) # Nobody /\ KeyOf(a) = KeyOf(b)

SameActor(a, b, mode) ==
  CASE mode = "legacy"  -> SameAddress(a, b)
    [] mode = "service" -> SameKey(a, b)
    [] mode = "dual"    -> SameKey(a, b) \/ SameAddress(a, b)

\* In dual mode addresses are compared only when no event has the key.
FilterByActor(buffer, e, mode) ==
  LET sameKey == SelectSeq(buffer, LAMBDA b : SameKey(b, e))
      sameAddress == SelectSeq(buffer, LAMBDA b : SameAddress(b, e))
  IN  CASE mode = "legacy"  -> sameAddress
        [] mode = "service" -> sameKey
        [] mode = "dual"    -> IF sameKey # <<>> THEN sameKey ELSE sameAddress

\* The account of an incident: that of the first event of the weightiest type that
\* names one, else the first that is named at all.  An event whose target is a bare
\* word ("worded"), which names none, ends the search where it is met.
NamingTypes == <<"suspicious_login", "login_success", "credential_stuffing", "login_failure">>

ExtractUsername(events) ==
  LET Deciding(types) == SelectSeq(events, LAMBDA e : (e.user # Blank \/ e.worded) /\ e.type \in types)
      anyType == {events[n].type : n \in DOMAIN events}
      rounds == SelectSeq(Append([n \in DOMAIN NamingTypes |-> {NamingTypes[n]}], anyType),
                          LAMBDA types : Deciding(types) # <<>>)
  IN  IF rounds = <<>> THEN Blank ELSE Head(Deciding(Head(rounds))).user

-----------------------------------------------------------------------------
(* What the rest of the system counts on *)

\* A monitor computes the key before normalising, the engine after it, the
\* indexer on what it reads: all get the same one.
KeyIsStable(e) == KeyOf(Normalize(e)) = KeyOf(e) /\ Normalize(Normalize(e)) = Normalize(e)

\* The engine hands a rule the partition of the event's key instead of the whole
\* window.  In service mode the rule finds the same events either way.
PartitionSuffices(buffer, e) ==
  FilterByActor(SelectSeq(buffer, LAMBDA b : KeyOf(b) = KeyOf(e)), e, "service")
    = FilterByActor(buffer, e, "service")

\* Every event of the actor, and no other, is found.  docs/CORRELATION_ENGINE.md says
\* this of each mode: service "correlation_key only", legacy "source_ip only", dual
\* "if correlation_key OR ip agrees".  Of dual mode it is not so: FilterByActor
\* leaves those of the address out as soon as one has the key.
FindsTheActor(buffer, e, mode) ==
  FilterByActor(buffer, e, mode) = SelectSeq(buffer, LAMBDA b : SameActor(b, e, mode))
=============================================================================
