----------------------------- MODULE Fingerprint -----------------------------
(***************************************************************************)
(* engine/anomaly/fingerprinter.py: per service, the events of each window *)
(* are counted and compared with the windows before.                       *)
(*                                                                         *)
(* Workers call observe under one lock, and report after it.  The hour of  *)
(* the day (two features, the same for all windows of an hour) and the     *)
(* isolation forest (scikit-learn is not installed in the engine's image)  *)
(* are left out; the error rate is taken in thousandths.                   *)
(***************************************************************************)
EXTENDS Integers, Sequences, FiniteSets

CONSTANTS
  Services,        \* source_service_name
  Events,          \* [severity: a word or "record", error, peer, layer], of events that name their service
  WindowTime,      \* WINDOW_SECONDS
  KeptHistory,     \* HISTORY_WINDOWS: 20
  FewSamples,      \* MIN_BASELINE_SAMPLES: 5
  MaxTime,         \* bound: the clock
  MaxEvents        \* bound: events of a window

VARIABLES
  time,
  window,          \* service -> _current: [start, count, errors, peers, layers], or NoWindow
  history,         \* service -> feature vectors of the windows before
  published,       \* events of anomalies: in the dashboard's list, and on the event stream
  anomalous,       \* history variable: windows judged anomalous
  told             \* history variable: reports returned

fingerVars == <<time, window, history, published, anomalous, told>>

NoWindow == [start |-> -1, count |-> 0, errors |-> 0, peers |-> {}, layers |-> {}]

FingerInit ==
  /\ time = 0
  /\ window = [s \in Services |-> NoWindow] /\ history = [s \in Services |-> <<>>]
  /\ published = <<>> /\ anomalous = 0 /\ told = 0

FingerTick == time < MaxTime /\ time' = time + 1 /\ UNCHANGED <<window, history, published, anomalous, told>>

-----------------------------------------------------------------------------
(* Scoring *)

\* feature_vector
Features(w) == <<w.count, Cardinality(w.peers), (1000 * w.errors) \div w.count, Cardinality(w.layers)>>

Rank(s, n) == {k \in DOMAIN s : s[k] < s[n] \/ (s[k] = s[n] /\ k <= n)}
Nth(s, k) == s[CHOOSE n \in DOMAIN s : Cardinality(Rank(s, n)) = k]

\* Twice the median.
Median2(s) == Nth(s, (Len(s) + 1) \div 2) + Nth(s, (Len(s) + 2) \div 2)

Distance(x, y) == IF x < y THEN y - x ELSE x - y

\* |x - median| >= z * 1.4826 * MAD, and any distance at all where MAD is 0; limit is
\* 14826 * z.
Deviates(s, x, limit) ==
  LET m2 == Median2(s)
      mad4 == Median2([n \in DOMAIN s |-> Distance(2 * s[n], m2)])
  IN  Distance(2 * x, m2) > 0 /\ 20000 * Distance(2 * x, m2) >= limit * mad4

Beyond(past, f, limit) == \E i \in DOMAIN f : Deviates([n \in DOMAIN past |-> past[n][i]], f[i], limit)

\* ANOMALY_Z_THRESHOLD: 3.5
IsAnomalous(past, f) == Len(past) >= FewSamples /\ Beyond(past, f, 51891)

\* as_event: of a peak of 5 and more it is critical.
AsEvent(s, past, f) ==
  [type |-> "behavior_anomaly", service |-> s, severity |-> IF Beyond(past, f, 74130) THEN "critical" ELSE "high"]

\* _emit: to the dashboard's list and to the stream, each if Redis answers.
Emit(event, redisUp) == published' = IF redisUp THEN Append(published, event) ELSE published

\* _close_window: the history learns the window, anomalous or not.
Learn(past, f) == LET all == Append(past, f)
                  IN  IF Len(all) > KeptHistory THEN Tail(all) ELSE all

-----------------------------------------------------------------------------

\* What observe adds once the event is counted.
WithDetails(w, e) ==
  [w EXCEPT !.errors = IF e.error THEN @ + 1 ELSE @, !.peers = @ \cup e.peer, !.layers = @ \cup {e.layer}]

\* observe.  A severity that is a record ends the call with an error, which the
\* engine logs and passes over (correlation_engine.process_event): after the
\* window was closed and the event counted, before the rest and the report.
ObserveEvent(s, e, redisUp) ==
  LET w == window[s]
      over == w = NoWindow \/ time - w.start >= WindowTime
      closes == over /\ w # NoWindow
      anomaly == closes /\ IsAnomalous(history[s], Features(w))
      current == [(IF over THEN [NoWindow EXCEPT !.start = time] ELSE w) EXCEPT !.count = @ + 1]
      raises == e.severity = "record"
  IN  /\ current.count <= MaxEvents
      /\ window' = [window EXCEPT ![s] = IF raises THEN current ELSE WithDetails(current, e)]
      /\ history' = IF closes THEN [history EXCEPT ![s] = Learn(@, Features(w))] ELSE history
      /\ anomalous' = anomalous + (IF anomaly THEN 1 ELSE 0)
      /\ told' = told + (IF anomaly /\ ~raises THEN 1 ELSE 0)
      /\ IF anomaly /\ ~raises THEN Emit(AsEvent(s, history[s], Features(w)), redisUp) ELSE UNCHANGED published
      /\ UNCHANGED time

FingerNext == FingerTick \/ \E s \in Services, e \in Events, redisUp \in BOOLEAN : ObserveEvent(s, e, redisUp)

-----------------------------------------------------------------------------
(* Property *)

\* fingerprinter.py, observe: "Returns an AnomalyReport iff the closed window was anomalous."
AnomaliesAreReported == told = anomalous
=============================================================================
