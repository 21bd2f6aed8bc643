---------------------------- MODULE AttackConsole ----------------------------
(***************************************************************************)
(* api/app.py, the attack console, with api/attack_simulator.py: requests  *)
(* to run a scenario, the simulation they start in the process or beside   *)
(* it, and the small correlator that watches the simulated events.         *)
(*                                                                         *)
(* A request first asks, under a lock, whether something runs; it starts   *)
(* and records its own run later, and other requests come in between.  A   *)
(* watcher thread (or the reader of a subprocess) takes the record back.   *)
(***************************************************************************)
EXTENDS Integers, Sequences, FiniteSets

CONSTANTS
  Callers,         \* requests
  Requested,       \* scenarios asked for: "a", "b", "c" or "all"
  Guesses,         \* 51 attempts to log in
  Probes,          \* 5 ports
  Payloads,        \* 4 attacks on the API
  Hops,            \* 3 hops between services
  QuietTime,       \* _COOLDOWN_SECS
  MaxRuns,         \* bound: runs
  MaxConsoleClock  \* bound: the clock

\* Loops of the scenarios run a fixed number of times, and a request names a scenario.
ASSUME ConsoleAssumption == {Guesses, Probes, Payloads, Hops} \subseteq Nat /\ Requested \subseteq {"a", "b", "c", "all"}

VARIABLES
  inProcess,       \* detect_target_services_unreachable: a setting of the deployment, never changed
  clock, runs,
  caller,          \* request -> [step, scenario, run]
  console,         \* _attack_state: [running, run]; run 0 has no pid
  sim,             \* SimulatorRuntime: [running, scenario, todo]
  watchers,        \* in-process watchers that wait, and those that saw the end
  children,        \* subprocesses alive
  readers,         \* the runs whose subprocess has a reader
  seen,            \* layers in the correlator's buffer
  quietUntil,      \* its cooldown
  fired            \* history: [at, forced, layers] of the incidents it built

consoleVars == <<inProcess, clock, runs, caller, console, sim, watchers, children, readers, seen, quietUntil, fired>>

Required == {"network", "api", "auth"}   \* _REQUIRED_LAYERS

-----------------------------------------------------------------------------
(* The scenarios: the layers of the events they emit, in order *)

Times(n, layer) == [k \in 1..n |-> layer]

\* Brute force, stolen credentials, exfiltration.
ScenarioA == <<"network">> \o Times(Guesses, "auth") \o <<"api", "network">>
\* Reconnaissance, injection and privilege escalation, lateral movement.
ScenarioB == Times(Probes, "network") \o Times(Payloads, "api") \o <<"network">>
\* A leaked key, lateral movement, discovery and collection, exfiltration.
ScenarioC == <<"auth">> \o Times(Hops, "network") \o <<"api", "api", "network">>

Scenarios == [a |-> ScenarioA, b |-> ScenarioB, c |-> ScenarioC, all |-> ScenarioA \o ScenarioB \o ScenarioC]

-----------------------------------------------------------------------------

IdleSim == [running |-> FALSE, scenario |-> "", todo |-> <<>>]
NoCall == [step |-> "none", scenario |-> "", run |-> 0]

\* detect_target_services_unreachable: what ATTACK_MODE and ATTACK_TARGETS_AVAILABLE say.
TargetsUnreachable(attackMode, available) == attackMode = "inprocess" \/ (attackMode # "subprocess" /\ ~available)

ConsoleInit ==
  /\ inProcess \in {TargetsUnreachable(m, up) : m \in {"auto", "inprocess", "subprocess"}, up \in BOOLEAN}
  /\ clock = 0 /\ runs = 0
  /\ caller = [c \in Callers |-> NoCall]
  /\ console = [running |-> FALSE, run |-> 0]
  /\ sim = IdleSim /\ watchers = [waiting |-> 0, leaving |-> 0]
  /\ children = {} /\ readers = {}
  /\ seen = {} /\ quietUntil = 0 /\ fired = <<>>

ConsoleTick ==
  /\ clock < MaxConsoleClock /\ clock' = clock + 1
  /\ UNCHANGED <<inProcess, runs, caller, console, sim, watchers, children, readers, seen, quietUntil, fired>>

-----------------------------------------------------------------------------
(* POST /api/attack/run *)

AskToRun(c, s) ==
  /\ caller[c].step = "none" /\ runs < MaxRuns
  /\ ~console.running /\ ~sim.running
  /\ runs' = runs + 1
  /\ caller' = [caller EXCEPT ![c] = [step |-> "start", scenario |-> s, run |-> runs + 1]]
  /\ UNCHANGED <<inProcess, clock, console, sim, watchers, children, readers, seen, quietUntil, fired>>

\* Mutant: the simulation that runs is replaced.
StartSimAnyway(c) ==
  /\ inProcess /\ caller[c].step = "start"
  /\ caller' = [caller EXCEPT ![c].step = "record"]
  /\ sim' = [running |-> TRUE, scenario |-> caller[c].scenario, todo |-> Scenarios[caller[c].scenario]]
  /\ UNCHANGED <<inProcess, clock, runs, console, watchers, children, readers, seen, quietUntil, fired>>

\* SimulatorRuntime.start refuses a second simulation.
StartSim(c) ==
  /\ inProcess /\ caller[c].step = "start"
  /\ IF sim.running THEN caller' = [caller EXCEPT ![c] = NoCall] /\ UNCHANGED sim
     ELSE /\ caller' = [caller EXCEPT ![c].step = "record"]
          /\ sim' = [running |-> TRUE, scenario |-> caller[c].scenario, todo |-> Scenarios[caller[c].scenario]]
  /\ UNCHANGED <<inProcess, clock, runs, console, watchers, children, readers, seen, quietUntil, fired>>

\* Popen, which may fail.
Spawn(c) ==
  /\ ~inProcess /\ caller[c].step = "start"
  /\ \/ /\ caller' = [caller EXCEPT ![c].step = "record"] /\ children' = children \cup {caller[c].run}
     \/ caller' = [caller EXCEPT ![c] = NoCall] /\ UNCHANGED children
  /\ UNCHANGED <<inProcess, clock, runs, console, sim, watchers, readers, seen, quietUntil, fired>>

\* The record, and the thread that will take it back.
Record(c) ==
  /\ caller[c].step = "record"
  /\ caller' = [caller EXCEPT ![c] = NoCall]
  /\ console' = [running |-> TRUE, run |-> IF inProcess THEN 0 ELSE caller[c].run]
  /\ watchers' = IF inProcess THEN [watchers EXCEPT !.waiting = @ + 1] ELSE watchers
  /\ readers' = IF inProcess THEN readers ELSE readers \cup {caller[c].run}
  /\ UNCHANGED <<inProcess, clock, runs, sim, children, seen, quietUntil, fired>>

\* _watch_inprocess: sees that no simulation runs, then takes the record back.
SeeTheEnd ==
  /\ watchers.waiting > 0 /\ ~sim.running
  /\ watchers' = [waiting |-> watchers.waiting - 1, leaving |-> watchers.leaving + 1]
  /\ UNCHANGED <<inProcess, clock, runs, caller, console, sim, children, readers, seen, quietUntil, fired>>

CloseRecord ==
  /\ watchers.leaving > 0
  /\ watchers' = [watchers EXCEPT !.leaving = @ - 1]
  /\ console' = [console EXCEPT !.running = FALSE]
  /\ UNCHANGED <<inProcess, clock, runs, caller, sim, children, readers, seen, quietUntil, fired>>

ChildEnds ==
  /\ \E r \in children : children' = children \ {r}
  /\ UNCHANGED <<inProcess, clock, runs, caller, console, sim, watchers, readers, seen, quietUntil, fired>>

\* Mutant: the record stays.
ReaderEndsOnly(r) ==
  /\ r \in readers \ children
  /\ readers' = readers \ {r}
  /\ UNCHANGED <<inProcess, clock, runs, caller, console, sim, watchers, children, seen, quietUntil, fired>>

\* _attack_reader: only the run on record is taken back.
ReaderEnds(r) ==
  /\ r \in readers \ children
  /\ readers' = readers \ {r}
  /\ console' = IF console.run = r THEN [console EXCEPT !.running = FALSE] ELSE console
  /\ UNCHANGED <<inProcess, clock, runs, caller, sim, watchers, children, seen, quietUntil, fired>>

-----------------------------------------------------------------------------
(* The simulation and its correlator; one source address, and a run takes less *)
(* time than the correlator keeps events                                       *)

Incident(forced, layers) == [at |-> clock, forced |-> forced, layers |-> layers]

\* _publish: Redis, the dashboards and the database may each refuse it, the run goes on.
Published(layers) == Append(fired, Incident(FALSE, layers))

\* observe, under the correlator's lock.
Correlate(layers) ==
  /\ seen' = seen \cup layers
  /\ IF clock >= quietUntil /\ Required \subseteq seen \cup layers
     THEN quietUntil' = clock + QuietTime /\ fired' = Published(seen \cup layers)
     ELSE UNCHANGED <<quietUntil, fired>>

Emit ==
  /\ sim.running /\ sim.todo # <<>>
  /\ sim' = [sim EXCEPT !.todo = Tail(@)]
  /\ Correlate({Head(sim.todo)})
  /\ UNCHANGED <<inProcess, clock, runs, caller, console, watchers, children, readers>>

\* force_fire: whatever was seen, and although the correlator is quiet.
ForceFire(before, layers) ==
  IF layers = {} THEN fired' = before /\ UNCHANGED quietUntil
  ELSE fired' = Append(before, Incident(TRUE, layers)) /\ quietUntil' = clock + QuietTime

\* The end of a run.
EndSim ==
  /\ sim.running /\ sim.todo = <<>>
  /\ sim' = IdleSim
  /\ IF sim.scenario = "all" THEN ForceFire(fired, seen) ELSE UNCHANGED <<fired, quietUntil>>
  /\ UNCHANGED <<inProcess, clock, runs, caller, console, watchers, children, readers, seen>>

\* GET /api/dev/fire-kill-chain: one event of each layer, then force_fire;
\* what the simulation emits in between changes nothing.
FireKillChain ==
  /\ runs < MaxRuns /\ runs' = runs + 1
  /\ seen' = seen \cup Required
  /\ ForceFire(IF clock >= quietUntil THEN Published(seen') ELSE fired, seen')
  /\ UNCHANGED <<inProcess, clock, caller, console, sim, watchers, children, readers>>

ConsoleNext ==
  \/ ConsoleTick
  \/ \E c \in Callers : (\E s \in Requested : AskToRun(c, s)) \/ StartSim(c) \/ Spawn(c) \/ Record(c)
  \/ SeeTheEnd \/ CloseRecord \/ ChildEnds \/ (\E r \in readers : ReaderEnds(r))
  \/ Emit \/ EndSim \/ FireKillChain

ConsoleSpec == ConsoleInit /\ [][ConsoleNext]_consoleVars

\* Simulations and scenarios are finite, and threads and processes go on.
ConsoleProgress ==
  \/ \E c \in Callers : StartSim(c) \/ Spawn(c) \/ Record(c)
  \/ SeeTheEnd \/ CloseRecord \/ ChildEnds \/ (\E r \in readers : ReaderEnds(r))
  \/ Emit \/ EndSim

-----------------------------------------------------------------------------
(* Properties *)

\* SimulatorRuntime "owns a single concurrent simulation": a run that was let in
\* is never replaced by another before its last event, however many requests pass
\* the check together; and a run of everything ends in an incident of all layers.
OneSimulation ==
  [][/\ sim.running /\ sim'.running => sim'.scenario = sim.scenario /\ Len(sim'.todo) <= Len(sim.todo)
     /\ sim.running /\ ~sim'.running /\ sim.scenario = "all" =>
          fired' # fired /\ Required \subseteq fired'[Len(fired')].layers]_<<sim, fired>>

\* Whatever ends in whatever order, the console can be used again: it does not
\* stay "running" once the last request has come.
ConsoleReopens == []<>(~console.running)
=============================================================================
