------------------------------- MODULE Triage -------------------------------
(***************************************************************************)
(* api/incidents_routes.py: what analysts decide about an incident.  It is *)
(* kept twice, in a Redis hash and in the incident's row of kill_chains;   *)
(* each may fail to take it and the request succeeds all the same.  Other  *)
(* requests come between the two.  One incident, with a row.               *)
(***************************************************************************)
EXTENDS Naturals

CONSTANTS
  Analysts,      \* requests under way at once
  Decisions,     \* [status, note]: VALID_INCIDENT_STATUSES and a text, or NoNote
  NoNote,        \* the empty text
  NoDecision

ASSUME TriageAssumption == NoDecision \notin Decisions

VARIABLES
  inRedis,       \* incident_status:<id>, or NoDecision
  inTable,       \* status and analyst_note of kill_chains; status "active" by default
  deciding,      \* analyst -> [step, decision, and two histories: Redis took it;
                 \* the decisions that stood when the request began and still do]
  suppressed,    \* suppressed:<source_ip>
  audited,       \* decisions in audit_log
  standing       \* history: the decisions that were answered and that no request
                 \* begun after their answer has replaced

triageVars == <<inRedis, inTable, deciding, suppressed, audited, standing>>

Undecided == [status |-> "active", note |-> NoNote]
NoRequest == [step |-> "none", decision |-> NoDecision, taken |-> FALSE, before |-> {}]

TriageInit ==
  /\ inRedis = NoDecision /\ inTable = Undecided
  /\ deciding = [a \in Analysts |-> NoRequest]
  /\ suppressed = FALSE /\ audited = {} /\ standing = {NoDecision}

\* _write_incident_status_redis: both fields at once.
DecideInRedis(a, d, taken) ==
  /\ deciding[a] = NoRequest
  /\ deciding' = [deciding EXCEPT ![a] =
                    [step |-> "table", decision |-> d, taken |-> taken, before |-> standing]]
  /\ inRedis' = IF taken THEN d ELSE inRedis
  /\ UNCHANGED <<inTable, suppressed, audited, standing>>

\* UPDATE kill_chains and the mark on the address, in one transaction: it is rolled
\* back when Redis fails at the mark, and goes without the mark when Redis was never
\* there.
DecideInTable(a, taken, marked) ==
  /\ deciding[a].step = "table"
  /\ deciding' = [deciding EXCEPT ![a].step = "answer"]
  /\ inTable' = IF taken THEN deciding[a].decision ELSE inTable
  /\ suppressed' = (suppressed \/ (taken /\ marked /\ deciding[a].decision.status = "suppressed"))
  /\ UNCHANGED <<inRedis, audited, standing>>

\* The dashboards are told, log_audit writes or fails in silence, and the analyst
\* is told that it worked, also when no store took it.
AnswerDecision(a, written) ==
  /\ deciding[a].step = "answer"
  /\ LET d == deciding[a].decision
     IN  /\ audited' = IF written THEN audited \cup {d.status} ELSE audited
         /\ standing' = IF deciding[a].taken THEN (standing \ deciding[a].before) \cup {d} ELSE standing
         /\ deciding' = [b \in Analysts |->
                          IF b = a THEN NoRequest
                          ELSE IF deciding[a].taken THEN [deciding[b] EXCEPT !.before = @ \ {d}]
                          ELSE deciding[b]]
  /\ UNCHANGED <<inRedis, inTable, suppressed>>

MarkExpires == suppressed /\ suppressed' = FALSE
               /\ UNCHANGED <<inRedis, inTable, deciding, audited, standing>>

TriageNext ==
  \/ \E a \in Analysts, taken \in BOOLEAN :
       \/ \E d \in Decisions : DecideInRedis(a, d, taken)
       \/ \E marked \in BOOLEAN : DecideInTable(a, taken, marked)
       \/ AnswerDecision(a, taken)
  \/ MarkExpires

TriageSpec == TriageInit /\ [][TriageNext]_triageVars

\* _read_incident_status_redis: a Redis that fails has nothing.
ReadStatus(readable) == IF readable THEN inRedis ELSE NoDecision

\* Mutant: the row is read, and preferred.
ListedRow(readable) == inTable

\* list_incidents: from Redis, or "active".  The SELECT that would have read the row
\* compares a uuid with an array of texts, which PostgreSQL refuses; the exception is
\* swallowed.
Listed(readable) == IF ReadStatus(readable) = NoDecision THEN Undecided ELSE ReadStatus(readable)

\* get_incident_status: from Redis, or "open".
Single(readable) ==
  IF ReadStatus(readable) = NoDecision THEN [status |-> "open", note |-> NoNote] ELSE ReadStatus(readable)

-----------------------------------------------------------------------------
(* Property *)

InTheMaking == {deciding[a].decision : a \in {b \in Analysts : deciding[b].taken}}

\* Requests meet, and the two stores take what they like: whenever Redis can be read,
\* both readers show one decision, which is on its way or was answered and has not
\* been replaced by a request that began after its answer.  A decision that Redis
\* did not take is lost to both of them, though it was answered; without Redis, an
\* incident that was decided shows as if it never had been.
DecisionsAreShown ==
  \E d \in standing \cup InTheMaking :
    IF d = NoDecision THEN Listed(TRUE) = Undecided /\ Single(TRUE).status = "open"
    ELSE Listed(TRUE) = d /\ Single(TRUE) = d
=============================================================================
