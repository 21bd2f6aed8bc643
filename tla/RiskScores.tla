----------------------------- MODULE RiskScores -----------------------------
(***************************************************************************)
(* The risk scores of services (correlation_engine.py: update_risk_score,  *)
(* decay_risk_scores_loop, _publish_risk, /engine/reset).  Workers add     *)
(* points, one loop takes them away, and no lock orders them.              *)
(*                                                                         *)
(* A thread may lose the processor wherever it calls a function: after it  *)
(* fetched the record of a service, between reading a score and storing    *)
(* what the decay leaves of it, and before what it read reaches Redis.  A  *)
(* record goes on being written by who holds it after the dictionary has   *)
(* dropped it.                                                             *)
(***************************************************************************)
EXTENDS Integers, Sequences, FiniteSets, SequencesExt

CONSTANTS
  Raters,       \* worker threads
  Rated,        \* services (or addresses)
  Points,       \* points an event may be worth
  DecayRate,    \* taken from each score every minute
  QuietRounds,  \* rounds without an event after which a record is dropped (30 minutes)
  MaxRated      \* bound: events scored

ASSUME RiskAssumption == Points \subseteq Nat /\ DecayRate \in Nat /\ QuietRounds \in Nat

VARIABLES
  scores,       \* every record ever made: service, score, peak, rounds since its last event, points added
  dict,         \* risk_scores: services in the order of insertion, with the position of their record
  shown,        \* risk_scores_current in Redis: service -> score
  rater,        \* what each worker is doing
  decay,        \* what the loop is doing
  ratings       \* events scored so far

riskVars == <<scores, dict, shown, rater, decay, ratings>>

Free == [at |-> "free", rec |-> 0, points |-> 0, read |-> 0]
Asleep == [at |-> "sleep", n |-> 1, size |-> 0, rec |-> 0, read |-> 0, old |-> <<>>]

RiskInit ==
  /\ scores = <<>> /\ dict = <<>> /\ shown = <<>>
  /\ rater = [w \in Raters |-> Free]
  /\ decay = Asleep /\ ratings = 0

Show(s, score) == [t \in DOMAIN shown \cup {s} |-> IF t = s THEN score ELSE shown[t]]
Hide(s) == [t \in DOMAIN shown \ {s} |-> shown[t]]

-----------------------------------------------------------------------------
(* update_risk_score *)

\* self.risk_scores[service_key]
FetchRecord(w, s, p) ==
  /\ rater[w].at = "free" /\ ratings < MaxRated
  /\ ratings' = ratings + 1
  /\ LET known == {n \in DOMAIN dict : scores[dict[n]].service = s}
         new == Len(scores) + 1
     IN  /\ IF known # {} THEN UNCHANGED <<scores, dict>>
            ELSE /\ scores' = Append(scores, [service |-> s, score |-> 0, quiet |-> QuietRounds + 1, added |-> 0])
                 /\ dict' = Append(dict, new)
         /\ rater' = [rater EXCEPT ![w] =
              [Free EXCEPT !.at = "add", !.points = p,
                           !.rec = IF known # {} THEN dict[CHOOSE n \in known : TRUE] ELSE new]]
  /\ UNCHANGED <<shown, decay>>

\* data["score"] += points, which no thread interrupts.
AddPoints(w) ==
  /\ rater[w].at = "add"
  /\ LET data == scores[rater[w].rec]
         p == rater[w].points
     IN  scores' = [scores EXCEPT ![rater[w].rec] =
           [service |-> data.service, score |-> data.score + p, quiet |-> 0, added |-> data.added + p]]
  /\ rater' = [rater EXCEPT ![w].at = "read"]
  /\ UNCHANGED <<dict, shown, decay, ratings>>

\* _publish_risk: the payload, and later the hash.
ReadScore(w) ==
  /\ rater[w].at = "read"
  /\ rater' = [rater EXCEPT ![w].at = "show", ![w].read = scores[rater[w].rec].score]
  /\ UNCHANGED <<scores, dict, shown, decay, ratings>>

ShowScore(w) ==
  /\ rater[w].at = "show"
  /\ shown' = Show(scores[rater[w].rec].service, rater[w].read)
  /\ rater' = [rater EXCEPT ![w] = Free]
  /\ UNCHANGED <<scores, dict, decay, ratings>>

-----------------------------------------------------------------------------
(* decay_risk_scores_loop *)

\* A minute has passed for every record.
StartRound ==
  /\ decay.at = "sleep"
  /\ decay' = [Asleep EXCEPT !.at = "next", !.size = Len(dict)]
  /\ scores' = [n \in DOMAIN scores |->
       [scores[n] EXCEPT !.quiet = IF @ > QuietRounds THEN @ ELSE @ + 1]]
  /\ UNCHANGED <<dict, shown, rater, ratings>>

\* Mutant: the error ends the loop.
NextRecordOrNever ==
  /\ decay.at = "next"
  /\ decay' = IF Len(dict) # decay.size THEN [Asleep EXCEPT !.at = "dead"]
              ELSE IF decay.n > Len(dict) THEN [decay EXCEPT !.at = "drop"]
              ELSE LET rec == dict[decay.n]
                   IN  [decay EXCEPT !.at = IF scores[rec].score > 0 THEN "store" ELSE "judge",
                                     !.n = @ + 1, !.rec = rec, !.read = scores[rec].score]
  /\ UNCHANGED <<scores, dict, shown, rater, ratings>>

\* A dictionary that changed its size under the loop ends the round, and nothing
\* is dropped in it.
NextRecord ==
  /\ decay.at = "next"
  /\ decay' = IF Len(dict) # decay.size THEN Asleep
              ELSE IF decay.n > Len(dict) THEN [decay EXCEPT !.at = "drop"]
              ELSE LET rec == dict[decay.n]
                   IN  [decay EXCEPT !.at = IF scores[rec].score > 0 THEN "store" ELSE "judge",
                                     !.n = @ + 1, !.rec = rec, !.read = scores[rec].score]
  /\ UNCHANGED <<scores, dict, shown, rater, ratings>>

\* Mutant: stored by name, in the record the service has by now.
StoreDecayedByName ==
  /\ decay.at = "store"
  /\ LET left == IF decay.read > DecayRate THEN decay.read - DecayRate ELSE 0
         s == scores[decay.rec].service
     IN  /\ scores' = [n \in DOMAIN scores |->
              IF \E k \in DOMAIN dict : dict[k] = n /\ scores[n].service = s
              THEN [scores[n] EXCEPT !.score = left] ELSE scores[n]]
         /\ shown' = Show(s, left)
  /\ decay' = [decay EXCEPT !.at = "judge"]
  /\ UNCHANGED <<dict, rater, ratings>>

\* max(0, score - RISK_DECAY_RATE) of the score it read, published at once.
StoreDecayed ==
  /\ decay.at = "store"
  /\ LET left == IF decay.read > DecayRate THEN decay.read - DecayRate ELSE 0
     IN  /\ scores' = [scores EXCEPT ![decay.rec].score = left]
         /\ shown' = Show(scores[decay.rec].service, left)
  /\ decay' = [decay EXCEPT !.at = "judge"]
  /\ UNCHANGED <<dict, rater, ratings>>

JudgeRecord ==
  /\ decay.at = "judge"
  /\ LET rec == scores[decay.rec]
         old == rec.score = 0 /\ rec.quiet > QuietRounds
     IN  decay' = [decay EXCEPT !.at = "next", !.old = IF old THEN Append(@, rec.service) ELSE @]
  /\ UNCHANGED <<scores, dict, shown, rater, ratings>>

\* del and hdel; a key that reset() took away raises and ends the round.
DropRecord ==
  /\ decay.at = "drop"
  /\ IF decay.old = <<>> THEN decay' = Asleep /\ UNCHANGED <<dict, shown>>
     ELSE LET s == Head(decay.old)
              known == {n \in DOMAIN dict : scores[dict[n]].service = s}
          IN  IF known = {} THEN decay' = Asleep /\ UNCHANGED <<dict, shown>>
              ELSE /\ dict' = RemoveAt(dict, CHOOSE n \in known : TRUE)
                   /\ shown' = Hide(s)
                   /\ decay' = [decay EXCEPT !.old = Tail(@)]
  /\ UNCHANGED <<scores, rater, ratings>>

\* /engine/reset, as far as scores go; risk_scores_by_service is left alone.
ResetScores ==
  /\ dict # <<>> /\ dict' = <<>> /\ shown' = <<>>
  /\ UNCHANGED <<scores, rater, decay, ratings>>

DecayStep == StartRound \/ NextRecord \/ StoreDecayed \/ JudgeRecord \/ DropRecord

RiskNext ==
  \/ \E w \in Raters :
       \/ \E s \in Rated, p \in Points : FetchRecord(w, s, p)
       \/ AddPoints(w) \/ ReadScore(w) \/ ShowScore(w)
  \/ DecayStep
  \/ ResetScores

RiskSpec == RiskInit /\ [][RiskNext]_riskVars

-----------------------------------------------------------------------------
(* Properties *)

\* Nobody is blamed for more than was added to his record: neither a stale store
\* of the loop nor a record dropped and made anew brings points back.
NoPointsFromNothing == \A n \in DOMAIN scores : scores[n].score <= scores[n].added

\* Once no more events come, every score fades and its record goes, whatever a
\* worker did to the dictionary in the middle of a round.
ScoresFade == <>[](dict = <<>>)
=============================================================================
