------------------------------- MODULE Bursts -------------------------------
(***************************************************************************)
(* What the monitors have in common: windows that open with the first      *)
(* event and give way to the first event after their end, alerts that rest *)
(* for a while, and the promise both are meant to keep.                    *)
(*                                                                         *)
(* The monitors never compare a burst with the last minutes, only with the *)
(* window it falls in.  A burst may lie across two windows, so what they   *)
(* promise is about bursts of almost twice the threshold.                  *)
(***************************************************************************)
EXTENDS Integers, Sequences, FiniteSets

CONSTANTS
  Addresses,   \* source addresses
  MaxNow,      \* bound: the clock
  MaxHeard     \* bound: messages heard

VARIABLES
  now,         \* the clock
  heard,       \* history: what the monitor heard since it lost its memory
  reports      \* history: the last alert of each kind it raised, or let go, for each address

watchVars == <<now, heard, reports>>

Never == -1

WatchInit == now = 0 /\ heard = <<>> /\ reports = {}

Tick == now < MaxNow /\ now' = now + 1 /\ UNCHANGED <<heard, reports>>

Hear(kind, ip, what) ==
  /\ Len(heard) < MaxHeard
  /\ heard' = Append(heard, [kind |-> kind, ip |-> ip, what |-> what, at |-> now])

Alert(kind, ip, at) == [kind |-> kind, ip |-> ip, at |-> at]

Raise(alerts) ==
  reports' = {r \in reports : \A a \in alerts : <<r.kind, r.ip>> # <<a.kind, a.ip>>} \cup alerts

If(cond, set) == IF cond THEN set ELSE {}

-----------------------------------------------------------------------------
(* Windows and rests *)

Empty == [first |-> Never, count |-> 0, kinds |-> {}]

Over(w, t, span) == w.first = Never \/ t - w.first > span

Counted(w, what) == [first |-> w.first, count |-> w.count + 1, kinds |-> w.kinds \cup {what}]

\* The window of an event at time t.
InWindow(w, what, t, span) ==
  Counted(IF Over(w, t, span) THEN [Empty EXCEPT !.first = t] ELSE w, what)

Rested(last, t, rest) == last = Never \/ t - last >= rest

-----------------------------------------------------------------------------
(* The promise *)

\* Where messages of a kind from an address stand in the history; and what is to be
\* told apart in them: each message, or what it says.
Of(kind, ip) == {n \in DOMAIN heard : heard[n].kind = kind /\ heard[n].ip = ip}
Each(places) == [n \in places |-> n]
Whats(places) == [n \in places |-> heard[n].what]

\* From m to n they fit into a span and show at least "many" different things.
IsBurst(things, m, n, many, span) ==
  /\ m <= n /\ heard[n].at - heard[m].at <= span
  /\ Cardinality({things[k] : k \in DOMAIN things \cap (m..n)}) >= many

AlertSince(kinds, ip, t) == \E r \in reports : r.kind \in kinds /\ r.ip = ip /\ r.at > t

\* Every burst that something came "late" after was reported, or came less than
\* "rest" after a report.
BurstsReported(things, many, span, rest, late, kinds, ip) ==
  \A m, n \in DOMAIN things :
    IsBurst(things, m, n, many, span) /\ (\E l \in DOMAIN things : heard[l].at - heard[n].at >= late)
      => AlertSince(kinds, ip, heard[m].at - rest)
=============================================================================
