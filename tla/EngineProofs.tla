----------------------------- MODULE EngineProofs -----------------------------
(***************************************************************************)
(* Proofs about the correlation engine and what is around it: the risk     *)
(* scores, the rows of kill chains, the stream and the channel events come *)
(* in by, what the rules report, the YAML rules, how severe an incident    *)
(* is, the alerts that follow, and the cooldowns.  For any services,       *)
(* rules, workers, points, events and messages, and any interleaving of    *)
(* workers, threads, decay, clears and resets.                             *)
(*                                                                         *)
(* The decay loop stores what is left of a score it read before others     *)
(* added to it or dropped its record, so a bound on the stored score alone *)
(* is not inductive: the score the loop holds must be bounded too, by what *)
(* was added to the very record it will store to (HeldIsBacked).           *)
(*                                                                         *)
(* A rule counts over a buffer that others fill and prune, so what a rule  *)
(* will find is only certain of the events younger than the window; and    *)
(* until the rule was looked at, what it is to tell is owed (AttacksInv).  *)
(*                                                                         *)
(* A worker sets a cooldown after it looked at it, so others may fire the  *)
(* same rule in between.  But no worker does so twice: when it looks, its  *)
(* own firings are in the cooldown, and until it fires they can only get   *)
(* older (OwnRest).                                                        *)
(***************************************************************************)
EXTENDS RiskScores, IncidentAlerts, PubSubBridge, Induction, SequenceTheorems, FiniteSetTheorems, TLAPS

-------------------------------------------------------------------------------
(* Risk scores *)

Record == [service : Rated, score : Nat, quiet : Int, added : Nat]
Rater == [at : {"free", "add", "read", "show"}, rec : Nat, points : Nat, read : Nat]
Lists == Seq(Rated)
Decay == [at : {"sleep", "next", "store", "judge", "drop"}, n : Nat \ {0}, size : Nat,
          rec : Nat, read : Nat, old : Lists]

RiskTypeOK ==
  /\ scores \in Seq(Record)
  /\ dict \in Seq(DOMAIN scores)
  /\ rater \in [Raters -> Rater]
  /\ decay \in Decay

\* Whoever is in the middle of something holds a record that was made.
RecordsExist ==
  /\ \A w \in Raters : rater[w].at # "free" => rater[w].rec \in DOMAIN scores
  /\ decay.at \in {"store", "judge"} => decay.rec \in DOMAIN scores

HeldIsBacked == decay.at = "store" => decay.read <= scores[decay.rec].added

RiskInv == RiskTypeOK /\ RecordsExist /\ NoPointsFromNothing /\ HeldIsBacked


-----------------------------------------------------------------------------

LEMMA AsleepIsDecay ==
  /\ Asleep \in Decay /\ Asleep.at = "sleep"
  /\ \A n \in Nat : [Asleep EXCEPT !.at = "next", !.size = n] \in Decay
<1>1. <<>> \in Lists
  BY DEF Lists
<1>2. Asleep \in Decay /\ Asleep.at = "sleep"
  BY <1>1 DEF Asleep, Decay
<1> QED BY <1>2 DEF Decay

LEMMA InitRisk == RiskInit => RiskInv
<1> SUFFICES ASSUME RiskInit PROVE RiskInv
  OBVIOUS
<1>1. Free \in Rater /\ Free.at = "free"
  BY DEF Free, Rater
<1>2. RiskTypeOK
  <2>1. scores \in Seq(Record) /\ dict \in Seq(DOMAIN scores)
    BY EmptySeq DEF RiskInit
  <2>2. rater \in [Raters -> Rater] /\ decay \in Decay
    BY <1>1, AsleepIsDecay DEF RiskInit
  <2> QED BY <2>1, <2>2 DEF RiskTypeOK
<1>3. RecordsExist /\ HeldIsBacked
  BY <1>1, AsleepIsDecay DEF RiskInit, RecordsExist, HeldIsBacked
<1>4. NoPointsFromNothing
  BY DEF RiskInit, NoPointsFromNothing
<1> QED BY <1>2, <1>3, <1>4 DEF RiskInv

LEMMA RecordFields ==
  ASSUME RiskTypeOK, NEW n \in DOMAIN scores
  PROVE  /\ scores[n] \in Record /\ n \in Nat
         /\ scores[n].service \in Rated /\ scores[n].score \in Nat
         /\ scores[n].quiet \in Int /\ scores[n].added \in Nat
<1>1. scores \in Seq(Record) /\ n \in 1..Len(scores)
  BY LenProperties DEF RiskTypeOK
<1>2. scores[n] \in Record
  BY <1>1, ElementOfSeq
<1> QED BY <1>1, <1>2, LenProperties DEF Record

LEMMA EntryIsRecord ==
  ASSUME RiskTypeOK, NEW n \in DOMAIN dict
  PROVE  dict[n] \in DOMAIN scores
  BY ElementOfSeq, LenProperties DEF RiskTypeOK

\* Records that are kept, or gain points, leave everything as it was for those
\* who hold one.
LEMMA RecordsGrow ==
  ASSUME RiskInv, scores' \in Seq(Record), DOMAIN scores \subseteq DOMAIN scores',
         \A n \in DOMAIN scores : scores'[n].added >= scores[n].added,
         \A n \in DOMAIN scores' : scores'[n].score <= scores'[n].added,
         dict' = dict, rater' \in [Raters -> Rater],
         \A w \in Raters : rater'[w].at # "free" => rater'[w].rec \in DOMAIN scores,
         decay' = decay \/ (decay' \in Decay /\ decay'.rec = decay.rec /\ decay'.read = decay.read
                            /\ decay'.at \notin {"store", "judge"})
                        \/ (decay' \in Decay /\ decay'.rec = decay.rec /\ decay.at = "store" /\ decay'.at = "judge")
  PROVE  RiskInv'
<1>1. RiskTypeOK'
  BY SeqMonotonic DEF RiskInv, RiskTypeOK
<1>2. RecordsExist'
  BY DEF RiskInv, RecordsExist
<1>3. NoPointsFromNothing'
  BY DEF NoPointsFromNothing
<1>4. HeldIsBacked'
  <2> SUFFICES ASSUME decay'.at = "store" PROVE decay'.read <= scores'[decay'.rec].added
    BY DEF HeldIsBacked
  <2>1. decay' = decay /\ decay.rec \in DOMAIN scores /\ decay.read <= scores[decay.rec].added
    BY DEF RiskInv, RecordsExist, HeldIsBacked
  <2>2. scores[decay.rec].added \in Nat /\ scores'[decay.rec].added \in Nat /\ decay.read \in Nat
    <3>1. scores'[decay.rec] \in Record
      BY <2>1, ElementOfSeq, LenProperties
    <3> QED BY <2>1, <3>1, RecordFields DEF RiskInv, RiskTypeOK, Record, Decay
  <2> QED BY <2>1, <2>2
<1> QED BY <1>1, <1>2, <1>3, <1>4 DEF RiskInv

LEMMA SameRecords ==
  ASSUME RiskInv, scores' = scores, dict' \in Seq(DOMAIN scores), rater' = rater, decay' = decay
  PROVE  RiskInv'
  BY DEF RiskInv, RiskTypeOK, RecordsExist, NoPointsFromNothing, HeldIsBacked

-----------------------------------------------------------------------------
(* Workers *)

LEMMA FetchKeeps ==
  ASSUME RiskInv, NEW w \in Raters, NEW s \in Rated, NEW p \in Points, FetchRecord(w, s, p)
  PROVE  RiskInv'
<1> DEFINE known == {n \in DOMAIN dict : scores[dict[n]].service = s}
           new == Len(scores) + 1
           made == [service |-> s, score |-> 0, quiet |-> QuietRounds + 1, added |-> 0]
           rec == IF known # {} THEN dict[CHOOSE n \in known : TRUE] ELSE new
<1>1. /\ rater' = [rater EXCEPT ![w] = [Free EXCEPT !.at = "add", !.points = p, !.rec = rec]]
      /\ decay' = decay
      /\ \/ known # {} /\ scores' = scores /\ dict' = dict
         \/ known = {} /\ scores' = Append(scores, made) /\ dict' = Append(dict, new)
  BY DEF FetchRecord
<1>2. made \in Record
  BY RiskAssumption DEF Record
<1>3. /\ scores' \in Seq(Record) /\ DOMAIN scores \subseteq DOMAIN scores'
      /\ \A n \in DOMAIN scores : scores'[n] = scores[n]
      /\ \A n \in DOMAIN scores' : n \notin DOMAIN scores => n = new /\ scores'[n] = made
      /\ dict' \in Seq(DOMAIN scores') /\ rec \in DOMAIN scores'
  <2>1. CASE known # {}
    <3>1. (CHOOSE n \in known : TRUE) \in DOMAIN dict
      BY <2>1
    <3>2. rec \in DOMAIN scores
      BY <2>1, <3>1, EntryIsRecord DEF RiskInv
    <3> QED BY <1>1, <2>1, <3>2 DEF RiskInv, RiskTypeOK
  <2>2. CASE known = {}
    <3>0. scores \in Seq(Record) /\ dict \in Seq(DOMAIN scores)
      BY DEF RiskInv, RiskTypeOK
    <3> HIDE DEF made, known
    <3>a. scores' = Append(scores, made) /\ dict' = Append(dict, new) /\ new \in Nat
      BY <1>1, <2>2, <3>0, LenProperties
    <3>1. scores' \in Seq(Record) /\ Len(scores') = new /\ DOMAIN scores' = 1..new
      BY <1>2, <3>0, <3>a, AppendProperties
    <3>2. \A n \in DOMAIN scores : scores'[n] = scores[n]
      <4>1. \A n \in 1..Len(scores) : scores'[n] = scores[n]
        BY <1>2, <3>0, <3>a, AppendProperties
      <4> QED BY <3>0, <4>1, LenProperties
    <3>3. scores'[new] = made
      BY <1>2, <3>0, <3>a, AppendProperties
    <3>4. DOMAIN scores \subseteq DOMAIN scores' /\ new \in DOMAIN scores'
      BY <3>0, <3>1
    <3>5. dict \in Seq(DOMAIN scores')
      BY <3>0, <3>4, SeqMonotonic
    <3>6. dict' \in Seq(DOMAIN scores')
      <4> HIDE DEF new
      <4> QED BY <3>4, <3>5, <3>a, AppendProperties
    <3> QED BY <2>2, <3>0, <3>1, <3>2, <3>3, <3>4, <3>6
  <2> QED BY <2>1, <2>2
<1>4. rec \in Nat
  <2>1. DOMAIN scores' \subseteq Nat
    BY <1>3
  <2> QED BY <1>3, <2>1
<1> HIDE DEF rec, made, known, new
<1>5. RiskTypeOK'
  BY <1>1, <1>3, <1>4, RiskAssumption DEF RiskInv, RiskTypeOK, Rater, Free
<1>6. RecordsExist'
  BY <1>1, <1>3 DEF RiskInv, RiskTypeOK, RecordsExist, Free
<1>7. NoPointsFromNothing'
  BY <1>3 DEF RiskInv, NoPointsFromNothing, made
<1>8. HeldIsBacked'
  BY <1>1, <1>3 DEF RiskInv, RecordsExist, HeldIsBacked
<1> QED BY <1>5, <1>6, <1>7, <1>8 DEF RiskInv

LEMMA AddKeeps ==
  ASSUME RiskInv, NEW w \in Raters, AddPoints(w)
  PROVE  RiskInv'
<1> DEFINE r == rater[w].rec
           p == rater[w].points
           grown == [service |-> scores[r].service, score |-> scores[r].score + p,
                     quiet |-> 0, added |-> scores[r].added + p]
<1>1. /\ r \in DOMAIN scores /\ scores[r] \in Record /\ rater[w].points \in Nat
      /\ scores[r].score <= scores[r].added
  BY RecordFields DEF AddPoints, RiskInv, RiskTypeOK, RecordsExist, NoPointsFromNothing, Rater
<1>2. /\ grown \in Record /\ grown.added >= scores[r].added /\ grown.score <= grown.added
  <2>1. /\ scores[r].service \in Rated /\ scores[r].score \in Nat /\ scores[r].added \in Nat
        /\ p \in Nat
    BY <1>1 DEF Record
  <2> HIDE DEF p
  <2>2. /\ scores[r].score + p \in Nat /\ scores[r].added + p \in Nat
        /\ scores[r].added + p >= scores[r].added /\ scores[r].score + p <= scores[r].added + p
    BY <1>1, <2>1
  <2>3. grown.score = scores[r].score + p /\ grown.added = scores[r].added + p
    BY <1>1 DEF Record
  <2>4. grown \in Record
    BY <2>1, <2>2 DEF Record
  <2> QED BY <2>2, <2>3, <2>4
<1>3. scores' = [scores EXCEPT ![r] = grown]
  BY DEF AddPoints
<1> HIDE DEF grown
<1>4. /\ scores' \in Seq(Record) /\ DOMAIN scores' = DOMAIN scores
      /\ \A n \in DOMAIN scores : scores'[n] = IF n = r THEN grown ELSE scores[n]
  BY <1>1, <1>2, <1>3 DEF RiskInv, RiskTypeOK
<1>5. \A n \in DOMAIN scores : scores'[n].added >= scores[n].added
  BY <1>2, <1>4, RecordFields DEF RiskInv
<1>6. \A n \in DOMAIN scores' : scores'[n].score <= scores'[n].added
  BY <1>2, <1>4 DEF RiskInv, NoPointsFromNothing
<1>7. /\ rater' \in [Raters -> Rater]
      /\ \A v \in Raters : rater'[v].at # "free" => rater'[v].rec \in DOMAIN scores
  <2>1. rater' = [rater EXCEPT ![w] = [rater[w] EXCEPT !.at = "read"]]
    BY DEF AddPoints, RiskInv, RiskTypeOK
  <2>5. rater \in [Raters -> Rater]
    BY DEF RiskInv, RiskTypeOK
  <2>6. rater[w] \in Rater
    BY <2>5
  <2>2. rater \in [Raters -> Rater] /\ [rater[w] EXCEPT !.at = "read"] \in Rater
    BY <2>5, <2>6 DEF Rater
  <2>3. rater' \in [Raters -> Rater]
    BY <2>1, <2>2
  <2>4. \A v \in Raters : rater'[v].at # "free" => rater'[v].rec \in DOMAIN scores
    BY <1>1, <2>1, <2>2 DEF RiskInv, RecordsExist, Rater
  <2> QED BY <2>3, <2>4
<1> QED BY <1>4, <1>5, <1>6, <1>7, RecordsGrow DEF AddPoints

LEMMA ReadKeeps ==
  ASSUME RiskInv, NEW w \in Raters, ReadScore(w) \/ ShowScore(w)
  PROVE  RiskInv'
<1>1. /\ rater' \in [Raters -> Rater]
      /\ \A v \in Raters : rater'[v].at # "free" => rater'[v].rec \in DOMAIN scores
  <2>1. CASE ReadScore(w)
    <3>1. scores[rater[w].rec].score \in Nat
      BY <2>1, RecordFields DEF ReadScore, RiskInv, RecordsExist
    <3> DEFINE x == scores[rater[w].rec].score
               r == [rater[w] EXCEPT !.at = "show", !.read = x]
    <3>2. rater \in [Raters -> Rater] /\ rater' = [rater EXCEPT ![w] = r]
      BY <2>1 DEF ReadScore, RiskInv, RiskTypeOK
    <3> HIDE DEF x
    <3>3. r \in Rater /\ r.at # "free" /\ r.rec = rater[w].rec
      BY <3>1, <3>2 DEF Rater, x
    <3>4. rater[w].rec \in DOMAIN scores
      BY <2>1 DEF ReadScore, RiskInv, RecordsExist
    <3> HIDE DEF r
    <3> QED BY <3>2, <3>3, <3>4 DEF RiskInv, RecordsExist
  <2>2. CASE ShowScore(w)
    BY <2>2 DEF ShowScore, RiskInv, RiskTypeOK, RecordsExist, Rater, Free
  <2> QED BY <2>1, <2>2
<1>2. scores' = scores /\ dict' = dict /\ decay' = decay
  BY DEF ReadScore, ShowScore
<1>3. \A n \in DOMAIN scores : scores[n].added \in Nat /\ scores[n].score <= scores[n].added
  BY RecordFields DEF RiskInv, NoPointsFromNothing
<1>4. scores' \in Seq(Record) /\ DOMAIN scores \subseteq DOMAIN scores'
  BY <1>2 DEF RiskInv, RiskTypeOK
<1> QED BY <1>1, <1>2, <1>3, <1>4, RecordsGrow

-----------------------------------------------------------------------------
(* The decay loop *)

LEMMA StartKeeps ==
  ASSUME RiskInv, StartRound
  PROVE  RiskInv'
<1>1. DOMAIN scores' = DOMAIN scores /\ Len(scores) \in Nat /\ DOMAIN scores = 1..Len(scores)
  BY DEF StartRound, RiskInv, RiskTypeOK
<1>2. \A n \in DOMAIN scores : /\ scores'[n] \in Record /\ scores'[n].score = scores[n].score
                               /\ scores'[n].added = scores[n].added
  <2> SUFFICES ASSUME NEW n \in DOMAIN scores
               PROVE  /\ scores'[n] \in Record /\ scores'[n].score = scores[n].score
                      /\ scores'[n].added = scores[n].added
    OBVIOUS
  <2>1. PICK q \in Int : scores'[n] = [scores[n] EXCEPT !.quiet = q]
    <3>1. scores[n].quiet \in Int
      BY RecordFields DEF RiskInv
    <3>2. scores[n].quiet + 1 \in Int
      BY <3>1
    <3> QED BY <3>1, <3>2 DEF StartRound
  <2> QED BY <2>1, RecordFields DEF RiskInv, Record
<1>3. scores' \in Seq(Record)
  <2>1. scores' \in [1..Len(scores) -> Record]
    BY <1>1, <1>2 DEF StartRound
  <2> QED BY <1>1, <2>1
<1>4. \A n \in DOMAIN scores : scores[n].added \in Nat /\ scores[n].score <= scores[n].added
  BY RecordFields DEF RiskInv, NoPointsFromNothing
<1>5. decay' \in Decay /\ decay'.at = "next"
  <2>1. Len(dict) \in Nat
    BY LenProperties DEF RiskInv, RiskTypeOK
  <2> QED BY <2>1, AsleepIsDecay DEF StartRound, Asleep
<1>6. RiskTypeOK'
  BY <1>1, <1>3, <1>5 DEF StartRound, RiskInv, RiskTypeOK
<1> QED BY <1>1, <1>2, <1>4, <1>5, <1>6
        DEF StartRound, RiskInv, RecordsExist, NoPointsFromNothing, HeldIsBacked

LEMMA NextKeeps ==
  ASSUME RiskInv, NextRecord
  PROVE  RiskInv'
<1> DEFINE rec == dict[decay.n]
<1>1. CASE decay.n <= Len(dict) /\ Len(dict) = decay.size
  <2>1. decay.n \in Nat \ {0} /\ rec \in DOMAIN scores
    <3>1. decay.n \in DOMAIN dict
      BY <1>1, LenProperties DEF RiskInv, RiskTypeOK, Decay
    <3> QED BY <3>1, EntryIsRecord DEF RiskInv, RiskTypeOK, Decay
  <2>2. /\ scores[rec].score \in Nat /\ rec \in Nat
        /\ scores[rec].score <= scores[rec].added
    BY <2>1, RecordFields DEF RiskInv, NoPointsFromNothing
  <2>3. decay' = [decay EXCEPT !.at = IF scores[rec].score > 0 THEN "store" ELSE "judge",
                               !.n = @ + 1, !.rec = rec, !.read = scores[rec].score]
    BY <1>1, <2>1 DEF NextRecord, RiskInv, RiskTypeOK
  <2>4. decay' \in Decay /\ decay'.rec = rec /\ decay'.read = scores[rec].score
    <3>1. PICK a \in {"store", "judge"}, k \in Nat \ {0}, x \in Nat :
            /\ decay' = [decay EXCEPT !.at = a, !.n = k, !.rec = rec, !.read = x]
            /\ x = scores[rec].score
      <4>1. decay.n + 1 \in Nat \ {0}
        BY <2>1
      <4> QED BY <2>2, <2>3, <4>1
    <3> HIDE DEF rec
    <3> QED BY <2>2, <3>1 DEF RiskInv, RiskTypeOK, Decay
  <2> QED BY <2>1, <2>2, <2>4
          DEF NextRecord, RiskInv, RiskTypeOK, RecordsExist, NoPointsFromNothing, HeldIsBacked
<1>2. CASE ~(decay.n <= Len(dict) /\ Len(dict) = decay.size)
  <2>1. decay' \in Decay /\ decay'.at \in {"sleep", "drop"}
    <3>1. decay' = Asleep \/ decay' = [decay EXCEPT !.at = "drop"]
      BY <1>2, LenProperties DEF NextRecord, RiskInv, RiskTypeOK, Decay
    <3>2. CASE decay' = Asleep
      BY <3>2, AsleepIsDecay
    <3>3. CASE decay' = [decay EXCEPT !.at = "drop"]
      BY <3>3 DEF RiskInv, RiskTypeOK, Decay
    <3> QED BY <3>1, <3>2, <3>3
  <2> QED BY <2>1
          DEF NextRecord, RiskInv, RiskTypeOK, RecordsExist, NoPointsFromNothing, HeldIsBacked
<1> QED BY <1>1, <1>2

\* What the loop stores is less than what it read, and so backed.
LEMMA StoreKeeps ==
  ASSUME RiskInv, StoreDecayed
  PROVE  RiskInv'
<1> DEFINE left == IF decay.read > DecayRate THEN decay.read - DecayRate ELSE 0
           r == decay.rec
<1>1. /\ r \in DOMAIN scores /\ scores[r] \in Record /\ decay.read \in Nat
      /\ decay.read <= scores[r].added
  BY RecordFields DEF StoreDecayed, RiskInv, RiskTypeOK, RecordsExist, HeldIsBacked, Decay
<1>2. left \in Nat /\ left <= scores[r].added
  BY <1>1, RiskAssumption DEF Record
<1>3. scores' = [scores EXCEPT ![r] = [scores[r] EXCEPT !.score = left]]
  BY DEF StoreDecayed
<1>4. decay' = [decay EXCEPT !.at = "judge"] /\ decay.at = "store" /\ dict' = dict /\ rater' = rater
  BY DEF StoreDecayed
<1> HIDE DEF left
<1>5. [scores[r] EXCEPT !.score = left] \in Record
  BY <1>1, <1>2 DEF Record
<1>6. /\ scores' \in Seq(Record) /\ DOMAIN scores' = DOMAIN scores
      /\ \A n \in DOMAIN scores : scores'[n] = IF n = r THEN [scores[r] EXCEPT !.score = left] ELSE scores[n]
  BY <1>1, <1>3, <1>5 DEF RiskInv, RiskTypeOK
<1>7. \A n \in DOMAIN scores : scores'[n].added = scores[n].added /\ scores[n].added \in Nat
  BY <1>1, <1>6, RecordFields DEF RiskInv, Record
<1>8. \A n \in DOMAIN scores' : scores'[n].score <= scores'[n].added
  BY <1>1, <1>2, <1>6, <1>7 DEF RiskInv, NoPointsFromNothing, Record
<1>9. decay' \in Decay /\ decay'.rec = decay.rec /\ decay'.at = "judge"
  BY <1>4 DEF RiskInv, RiskTypeOK, Decay
<1>10. \A n \in DOMAIN scores : scores'[n].added >= scores[n].added
  BY <1>7
<1>11. /\ rater' \in [Raters -> Rater]
       /\ \A v \in Raters : rater'[v].at # "free" => rater'[v].rec \in DOMAIN scores
  BY <1>4 DEF RiskInv, RiskTypeOK, RecordsExist
<1> QED BY <1>4, <1>6, <1>8, <1>9, <1>10, <1>11, RecordsGrow

LEMMA JudgeKeeps ==
  ASSUME RiskInv, JudgeRecord
  PROVE  RiskInv'
<1>1. scores[decay.rec].service \in Rated
  BY RecordFields DEF JudgeRecord, RiskInv, RecordsExist
<1>2. decay' \in Decay /\ decay'.at = "next"
  <2>1. decay.old \in Lists /\ Append(decay.old, scores[decay.rec].service) \in Lists
    BY <1>1, AppendProperties DEF RiskInv, RiskTypeOK, Decay, Lists
  <2>2. PICK o \in Lists : decay' = [decay EXCEPT !.at = "next", !.old = o]
    BY <2>1 DEF JudgeRecord
  <2> QED BY <2>2 DEF RiskInv, RiskTypeOK, Decay
<1> QED BY <1>2 DEF JudgeRecord, RiskInv, RiskTypeOK, RecordsExist, NoPointsFromNothing, HeldIsBacked

LEMMA RemoveKeeps ==
  ASSUME NEW S, NEW s \in Seq(S), NEW n \in DOMAIN s
  PROVE  RemoveAt(s, n) \in Seq(S)
<1>1. n \in 1..Len(s) /\ Len(s) \in Nat
  OBVIOUS
<1>2. SubSeq(s, 1, n - 1) \in Seq(S)
  BY <1>1, SubSeqProperties, \A i \in 1..(n - 1) : s[i] \in S
<1>3. SubSeq(s, n + 1, Len(s)) \in Seq(S)
  BY <1>1, SubSeqProperties, \A i \in (n + 1)..Len(s) : s[i] \in S
<1> QED BY <1>2, <1>3, ConcatProperties DEF RemoveAt

LEMMA DropKeeps ==
  ASSUME RiskInv, DropRecord
  PROVE  RiskInv'
<1> DEFINE known == {n \in DOMAIN dict : scores[dict[n]].service = Head(decay.old)}
<1>1. dict' \in Seq(DOMAIN scores)
  <2>1. CASE dict' = dict
    BY <2>1 DEF RiskInv, RiskTypeOK
  <2>2. CASE known # {} /\ dict' = RemoveAt(dict, CHOOSE n \in known : TRUE)
    <3>1. (CHOOSE n \in known : TRUE) \in DOMAIN dict
      BY <2>2
    <3> QED BY <2>2, <3>1, RemoveKeeps DEF RiskInv, RiskTypeOK
  <2> QED BY <2>1, <2>2 DEF DropRecord
<1>2. decay' \in Decay /\ decay'.at \in {"sleep", "drop"}
  <2>1. CASE decay' = Asleep
    BY <2>1, AsleepIsDecay
  <2>2. CASE decay.old # <<>> /\ decay' = [decay EXCEPT !.old = Tail(@)]
    <3>1. decay.old \in Seq(Rated)
      BY DEF RiskInv, RiskTypeOK, Decay, Lists
    <3>2. Tail(decay.old) \in Lists
      BY <2>2, <3>1, HeadTailProperties DEF Lists
    <3> QED BY <2>2, <3>2 DEF DropRecord, RiskInv, RiskTypeOK, Decay
  <2> QED BY <2>1, <2>2 DEF DropRecord
<1> QED BY <1>1, <1>2
        DEF DropRecord, RiskInv, RiskTypeOK, RecordsExist, NoPointsFromNothing, HeldIsBacked

\* Nobody is blamed for more points than were added to his record, for any number
\* of workers and however the decay loop and resets fall between their steps.
THEOREM NoPointsFromNothingAlways == RiskSpec => []NoPointsFromNothing
<1>1. RiskInit => RiskInv
  BY InitRisk
<1>2. RiskInv /\ [RiskNext]_riskVars => RiskInv'
  <2> SUFFICES ASSUME RiskInv, [RiskNext]_riskVars PROVE RiskInv'
    OBVIOUS
  <2>1. CASE \E w \in Raters : \/ \E s \in Rated, p \in Points : FetchRecord(w, s, p)
                               \/ AddPoints(w) \/ ReadScore(w) \/ ShowScore(w)
    BY <2>1, FetchKeeps, AddKeeps, ReadKeeps
  <2>2. CASE DecayStep
    BY <2>2, StartKeeps, NextKeeps, StoreKeeps, JudgeKeeps, DropKeeps DEF DecayStep
  <2>3. CASE ResetScores
    BY <2>3, SameRecords DEF ResetScores
  <2>4. CASE UNCHANGED riskVars
    BY <2>4, SameRecords DEF riskVars, RiskInv, RiskTypeOK
  <2> QED BY <2>1, <2>2, <2>3, <2>4 DEF RiskNext
<1>3. RiskInv => NoPointsFromNothing
  BY DEF RiskInv
<1> QED BY <1>1, <1>2, <1>3, PTL DEF RiskSpec

-------------------------------------------------------------------------------
(* The rows of incidents and their alerts *)

RowsOK == chainRows \in [ChainIds -> Row \cup {Missing}]

LEMMA MissingIsNoRow ==
  /\ Missing \notin Writings
  /\ \A row \in Row : /\ row # Missing /\ DOMAIN row = {"chain", "user", "narrative", "label", "status"}
                      /\ row.narrative \in Writings \cup {Missing}
  BY ChainAssumption DEF Row

LEMMA NewRowIsRow == \A chain \in Chains : NewRow(chain) \in Row /\ NewRow(chain).narrative = Missing
  BY DEF NewRow, Row

\* Storing a chain again, narrating and labelling keep the rows, and what is in them.
LEMMA RowsChange ==
  ASSUME RowsOK, NEW i \in ChainIds,
         \/ \E chain \in Chains : PersistChain(i, chain)
         \/ \E text \in Writings : Narrate(i, text) \/ TagChain(i, text)
  PROVE  RowsOK' /\ WritingsSurvive
<1>1. CASE \E chain \in Chains : PersistChain(i, chain)
  <2>1. PICK chain \in Chains : PersistChain(i, chain)
    BY <1>1
  <2>2. CASE chainRows[i] = Missing
    BY <2>1, <2>2, MissingIsNoRow, NewRowIsRow DEF PersistChain, RowsOK, WritingsSurvive
  <2>3. CASE chainRows[i] # Missing
    <3> DEFINE row == Restored(chainRows[i], chain)
    <3>1. chainRows[i] \in Row
      BY <2>3 DEF RowsOK
    <3>2. row \in Row
      BY <3>1 DEF Row, Restored
    <3>3. row.narrative = chainRows[i].narrative /\ row.label = chainRows[i].label
          /\ (chainRows[i].user # Missing => row.user # Missing)
      BY <3>1 DEF Row, Restored
    <3>4. chainRows' = [chainRows EXCEPT ![i] = row]
      BY <2>1, <2>3 DEF PersistChain
    <3> HIDE DEF row
    <3> QED BY <3>2, <3>3, <3>4, MissingIsNoRow DEF RowsOK, WritingsSurvive
  <2> QED BY <2>2, <2>3
<1>2. CASE \E text \in Writings : Narrate(i, text) \/ TagChain(i, text)
  <2>1. PICK text \in Writings : Narrate(i, text) \/ TagChain(i, text)
    BY <1>2
  <2>2. CASE chainRows[i] = Missing
    <3>1. chainRows' = [chainRows EXCEPT ![i] = Missing]
      BY <2>1, <2>2 DEF Narrate, TagChain
    <3>2. chainRows' = chainRows
      BY <2>2, <3>1 DEF RowsOK
    <3> QED BY <3>2 DEF RowsOK, WritingsSurvive
  <2>3. CASE chainRows[i] # Missing
    <3>1. chainRows[i] \in Row
      BY <2>3 DEF RowsOK
    <3>2. PICK row \in {[chainRows[i] EXCEPT !.narrative = text], [chainRows[i] EXCEPT !.label = text]} :
            chainRows' = [chainRows EXCEPT ![i] = row]
      BY <2>1, <2>3 DEF Narrate, TagChain
    <3>3. row \in Row /\ row.user = chainRows[i].user
          /\ (chainRows[i].narrative # Missing => row.narrative # Missing)
          /\ (chainRows[i].label # Missing => row.label # Missing)
      BY <3>1, <3>2, MissingIsNoRow DEF Row
    <3> QED BY <3>2, <3>3, MissingIsNoRow DEF RowsOK, WritingsSurvive
  <2> QED BY <2>2, <2>3
<1> QED BY <1>1, <1>2

\* Whoever stores, narrates or labels an incident, and in whatever order: what was
\* written into its row stays there.
THEOREM WritingsAlwaysStay == ChainSpec => WritingsStay
<1>1. ChainInit => RowsOK
  BY DEF ChainInit, RowsOK
<1>2. RowsOK /\ [ChainNext]_chainRows => RowsOK' /\ [WritingsSurvive]_chainRows
  <2> SUFFICES ASSUME RowsOK, [ChainNext]_chainRows PROVE RowsOK' /\ [WritingsSurvive]_chainRows
    OBVIOUS
  <2>1. CASE ChainNext
    BY <2>1, RowsChange DEF ChainNext
  <2>2. CASE UNCHANGED chainRows
    BY <2>2 DEF RowsOK
  <2> QED BY <2>1, <2>2
<1> QED BY <1>1, <1>2, PTL DEF ChainSpec, WritingsStay

-------------------------------------------------------------------------------
(* The index *)

IngressTypeOK ==
  /\ stream \in Seq(Kinds) /\ Len(stream) <= MaxEntries /\ sending \in Seq(Kinds)
  /\ taken \in 0..Len(stream) /\ pending \subseteq 1..taken /\ toAck \subseteq pending /\ batch \subseteq toAck
  /\ indexed \in [1..MaxEntries -> Nat]

\* What is in the round was not indexed yet, or was if nothing but the acknowledgement is left.
RoundIsHonest ==
  /\ \A k \in 1..MaxEntries : indexed[k] <= 1 /\ (k \in batch \/ k > taken => indexed[k] = 0)
  /\ \A k \in 1..taken : stream[k] = "plain" /\ (k \notin pending \/ k \in toAck \ batch) => indexed[k] = 1

IndexInv == IngressTypeOK /\ RoundIsHonest

LEMMA InitIndex == IngressInit => IndexInv
  BY IngressAssumption DEF IngressInit, IndexInv, IngressTypeOK, RoundIsHonest

LEMMA IndexInvIsHonest == IndexInv => IndexIsHonest
  BY IngressAssumption DEF IndexInv, IngressTypeOK, RoundIsHonest, IndexIsHonest

\* Steps of others: the stream may grow.
LEMMA StreamGrows ==
  ASSUME IndexInv, UNCHANGED indexerVars, sending' \in Seq(Kinds),
         \/ stream' = stream
         \/ Len(stream) < MaxEntries /\ \E kind \in Kinds : stream' = Append(stream, kind)
  PROVE  IndexInv'
<1>0. Len(stream) \in Nat /\ stream \in Seq(Kinds) /\ taken \in 0..Len(stream) /\ MaxEntries \in Nat
  BY IngressAssumption DEF IndexInv, IngressTypeOK
<1>1. /\ stream' \in Seq(Kinds) /\ Len(stream') <= MaxEntries /\ Len(stream) <= Len(stream') /\ Len(stream') \in Nat
      /\ \A k \in 1..Len(stream) : stream'[k] = stream[k]
  <2>1. CASE stream' = stream
    BY <2>1, <1>0 DEF IndexInv, IngressTypeOK
  <2>2. CASE Len(stream) < MaxEntries /\ \E kind \in Kinds : stream' = Append(stream, kind)
    BY <2>2, <1>0
  <2> QED BY <2>1, <2>2
<1>2. UNCHANGED <<taken, pending, batch, toAck, indexed>>
  BY DEF indexerVars
<1>3. IngressTypeOK'
  BY <1>0, <1>1, <1>2 DEF IndexInv, IngressTypeOK
<1>4. \A k \in 1..taken : stream'[k] = stream[k]
  BY <1>0, <1>1
<1> QED BY <1>2, <1>3, <1>4 DEF IndexInv, RoundIsHonest

LEMMA NewEntries ==
  ASSUME IndexInv
  PROVE  /\ Upto(Take) \subseteq (taken + 1)..Len(stream)
         /\ taken + Cardinality(Upto(Take)) \in taken..Len(stream)
         /\ Upto(Take) = (taken + 1)..(taken + Cardinality(Upto(Take)))
<1> DEFINE n == IF taken + Take <= Len(stream) THEN Take ELSE Len(stream) - taken
<1>1. Len(stream) \in Nat /\ taken \in Nat /\ taken <= Len(stream) /\ Take \in Nat
  BY IngressAssumption DEF IndexInv, IngressTypeOK
<1>2. n \in Nat /\ taken + n <= Len(stream)
  BY <1>1
<1>3. Upto(Take) = (taken + 1)..(taken + n)
  BY <1>1 DEF Upto
<1> HIDE DEF n
<1>4. Cardinality((taken + 1)..(taken + n)) = n
  BY <1>1, <1>2, FS_Interval
<1> QED BY <1>1, <1>2, <1>3, <1>4

LEMMA TakingEntries ==
  ASSUME IndexInv, TakeEntries
  PROVE  IndexInv'
<1> DEFINE new == Upto(Take)
           to == taken + Cardinality(new)
<1>1. /\ new = (taken + 1)..to /\ to \in taken..Len(stream) /\ Len(stream) \in Nat /\ taken \in Nat
      /\ Len(stream) <= MaxEntries /\ MaxEntries \in Nat
  BY NewEntries, IngressAssumption DEF IndexInv, IngressTypeOK
<1>2. /\ batch = {} /\ toAck = {} /\ taken' = to /\ pending' = pending \cup new
      /\ UNCHANGED <<stream, sending, indexed>>
      /\ batch' \subseteq toAck' /\ toAck' \subseteq new
      /\ \A k \in toAck' \ batch' : stream[k] = "blank"
  BY DEF TakeEntries
<1> HIDE DEF new, to
<1>3. pending \subseteq 1..taken /\ taken <= to /\ to <= Len(stream) /\ to \in Nat
  BY <1>1 DEF IndexInv, IngressTypeOK
<1>4. pending' \subseteq 1..taken'
  BY <1>1, <1>2, <1>3
<1>5. IngressTypeOK'
  BY <1>1, <1>2, <1>3, <1>4 DEF IndexInv, IngressTypeOK
<1>6. \A k \in 1..MaxEntries : indexed'[k] <= 1 /\ (k \in batch' \/ k > taken' => indexed'[k] = 0)
  <2> SUFFICES ASSUME NEW k \in 1..MaxEntries
               PROVE  indexed[k] <= 1 /\ (k \in batch' \/ k > taken' => indexed[k] = 0)
    BY <1>2
  <2>1. indexed[k] <= 1 /\ (k > taken => indexed[k] = 0)
    BY DEF IndexInv, RoundIsHonest
  <2>2. k \in batch' \/ k > taken' => k > taken
    BY <1>1, <1>2, <1>3
  <2> QED BY <2>1, <2>2
<1>7. \A k \in 1..taken' : stream'[k] = "plain" /\ (k \notin pending' \/ k \in toAck' \ batch') => indexed'[k] = 1
  <2> SUFFICES ASSUME NEW k \in 1..taken', stream[k] = "plain", k \notin pending' \/ k \in toAck' \ batch'
               PROVE  indexed[k] = 1
    BY <1>2
  <2>1. k \notin pending'
    BY <1>2
  <2>2. k \in 1..taken /\ k \notin pending
    BY <2>1, <1>1, <1>2, <1>3
  <2> QED BY <2>2 DEF IndexInv, RoundIsHonest
<1> QED BY <1>5, <1>6, <1>7 DEF IndexInv, RoundIsHonest

\* Indexing, and what it leaves of the round.
LEMMA IndexingKeeps ==
  ASSUME IndexInv, UNCHANGED <<stream, sending, taken, pending>>, batch' = {}, toAck' \subseteq toAck,
         indexed' = [k \in DOMAIN indexed |-> IF k \in batch /\ stream[k] # "odd" THEN indexed[k] + 1 ELSE indexed[k]]
  PROVE  IndexInv'
<1>1. /\ indexed \in [1..MaxEntries -> Nat] /\ batch \subseteq toAck /\ toAck \subseteq pending /\ pending \subseteq 1..taken
      /\ taken \in 0..Len(stream) /\ Len(stream) \in Nat /\ Len(stream) <= MaxEntries /\ MaxEntries \in Nat
  BY IngressAssumption DEF IndexInv, IngressTypeOK
<1>2. \A k \in 1..MaxEntries : indexed'[k] = IF k \in batch /\ stream[k] # "odd" THEN indexed[k] + 1 ELSE indexed[k]
  BY <1>1
<1>3. indexed' \in [1..MaxEntries -> Nat]
  BY <1>1
<1>4. IngressTypeOK'
  BY <1>1, <1>3 DEF IndexInv, IngressTypeOK
<1>5. \A k \in 1..MaxEntries : indexed'[k] <= 1 /\ (k \in batch' \/ k > taken' => indexed'[k] = 0)
  BY <1>1, <1>2 DEF IndexInv, RoundIsHonest
<1>6. \A k \in 1..taken' : stream'[k] = "plain" /\ (k \notin pending' \/ k \in toAck' \ batch') => indexed'[k] = 1
  <2> SUFFICES ASSUME NEW k \in 1..taken, stream[k] = "plain", k \notin pending \/ k \in toAck'
               PROVE  indexed'[k] = 1
    OBVIOUS
  <2>1. k \in 1..MaxEntries
    BY <1>1
  <2>2. CASE k \in batch
    <3>1. indexed[k] = 0
      BY <2>1, <2>2 DEF IndexInv, RoundIsHonest
    <3> QED BY <3>1, <2>1, <2>2, <1>2
  <2>3. CASE k \notin batch
    <3>1. indexed[k] = 1
      BY <2>3 DEF IndexInv, RoundIsHonest
    <3> QED BY <3>1, <2>1, <2>3, <1>2
  <2> QED BY <2>2, <2>3
<1> QED BY <1>4, <1>5, <1>6 DEF IndexInv, RoundIsHonest

LEMMA AcknowledgingKeeps ==
  ASSUME IndexInv, UNCHANGED <<stream, sending, taken, indexed>>, batch' = {}, toAck' = {},
         pending' = pending \/ (batch = {} /\ pending' = pending \ toAck)
  PROVE  IndexInv'
<1>1. IngressTypeOK'
  BY DEF IndexInv, IngressTypeOK
<1> QED BY <1>1 DEF IndexInv, RoundIsHonest

LEMMA IndexStep == IndexInv /\ [IngressNext]_ingressVars => IndexInv'
<1> SUFFICES ASSUME IndexInv, [IngressNext]_ingressVars PROVE IndexInv'
  OBVIOUS
<1>0. stream \in Seq(Kinds) /\ sending \in Seq(Kinds)
  BY DEF IndexInv, IngressTypeOK
<1>1. CASE UNCHANGED ingressVars
  BY <1>0, <1>1, StreamGrows DEF ingressVars, indexerVars
<1>2. ASSUME NEW list \in Batches, Ingest(list) PROVE IndexInv'
  BY <1>2, StreamGrows, IngressAssumption DEF Ingest
<1>3. ASSUME NEW list \in Batches, BrowserIngest(list) PROVE IndexInv'
  BY <1>0, <1>3, StreamGrows DEF BrowserIngest
<1>4. CASE IngestOne
  BY <1>4, StreamGrows DEF IngestOne, Kinds
<1>5. CASE Xadd
  <2>1. Head(sending) \in Kinds /\ Tail(sending) \in Seq(Kinds)
    BY <1>0, <1>5 DEF Xadd
  <2> QED BY <1>5, <2>1, StreamGrows DEF Xadd
<1>6. CASE XaddFails
  BY <1>6, StreamGrows DEF XaddFails
<1>7. ASSUME NEW kind, WafWrites(kind) PROVE IndexInv'
  BY <1>0, <1>7, StreamGrows DEF WafWrites
<1>8. CASE ProxyForward
  BY <1>0, <1>8, StreamGrows DEF ProxyForward
<1>9. CASE TakeEntries
  BY <1>9, TakingEntries
<1>10. CASE BulkIndex
  BY <1>10, IndexingKeeps DEF BulkIndex
<1>11. CASE Acknowledge
  BY <1>11, AcknowledgingKeeps DEF Acknowledge
<1>12. CASE IndexerFails
  <2>1. CASE UNCHANGED <<indexed, pending>>
    BY <1>12, <2>1, AcknowledgingKeeps DEF IndexerFails
  <2>2. CASE batch = {} /\ pending' = pending \ toAck /\ UNCHANGED indexed
    BY <1>12, <2>2, AcknowledgingKeeps DEF IndexerFails
  <2>3. CASE /\ UNCHANGED pending
             /\ indexed' = [k \in DOMAIN indexed |-> IF k \in batch /\ stream[k] # "odd" THEN indexed[k] + 1 ELSE indexed[k]]
    BY <1>12, <2>3, IndexingKeeps DEF IndexerFails
  <2> QED BY <1>12, <2>1, <2>2, <2>3 DEF IndexerFails
<1> QED BY <1>1, <1>2, <1>3, <1>4, <1>5, <1>6, <1>7, <1>8, <1>9, <1>10, <1>11, <1>12 DEF IngressNext

-------------------------------------------------------------------------------
(* From the channel to the engine *)

Rises(s) == \A j, k \in DOMAIN s : j < k => s[j] < s[k]

\* Two lists, each in order, and the second after the first.
InOrder(s, t) ==
  /\ s \in Seq(Nat) /\ t \in Seq(Nat) /\ Rises(s) /\ Rises(t)
  /\ \A j \in DOMAIN s, k \in DOMAIN t : s[j] < t[k]

BridgeInv ==
  /\ published \in Seq(Messages)
  /\ InOrder(handed, line)
  /\ Waiting(handed) \cup Waiting(line) \cup gone \subseteq 1..Len(published)
  /\ gone \cap (Waiting(handed) \cup Waiting(line)) = {}
  /\ \A n \in 1..Len(published) : published[n] \in Objects => n \in Waiting(handed) \cup Waiting(line) \cup gone

\* The first of what waits.
LEMMA FirstWaiting ==
  ASSUME NEW s, NEW t, InOrder(s, t), t # <<>>
  PROVE  /\ Waiting(t) = {Head(t)} \cup Waiting(Tail(t)) /\ Head(t) \notin Waiting(Tail(t))
         /\ Head(t) \notin Waiting(s) /\ Waiting(s) \cap Waiting(t) = {}
         /\ InOrder(s, Tail(t))
<1>1. /\ s \in Seq(Nat) /\ t \in Seq(Nat) /\ Len(t) \in Nat /\ DOMAIN t = 1..Len(t) /\ DOMAIN s = 1..Len(s)
      /\ Len(t) > 0 /\ Head(t) = t[1] /\ Tail(t) \in Seq(Nat)
      /\ DOMAIN Tail(t) = 1..(Len(t) - 1) /\ \A k \in 1..(Len(t) - 1) : Tail(t)[k] = t[k + 1]
      /\ \A k \in DOMAIN t : t[k] \in Nat
      /\ \A k \in DOMAIN s : s[k] \in Nat
  BY EmptySeq, LenProperties, HeadTailProperties, ElementOfSeq DEF InOrder
<1>2. Waiting(t) = {Head(t)} \cup Waiting(Tail(t))
  <2>1. ASSUME NEW k \in DOMAIN t PROVE t[k] \in {Head(t)} \cup Waiting(Tail(t))
    <3>1. CASE k = 1
      BY <3>1, <1>1
    <3>2. CASE k # 1
      <4>1. k - 1 \in 1..(Len(t) - 1) /\ (k - 1) + 1 = k
        BY <3>2, <1>1
      <4>2. t[k] = Tail(t)[k - 1] /\ k - 1 \in DOMAIN Tail(t)
        BY <4>1, <1>1
      <4> QED BY <4>2 DEF Waiting
    <3> QED BY <3>1, <3>2
  <2>2. Head(t) \in Waiting(t)
    <3>1. 1 \in DOMAIN t /\ Head(t) = t[1]
      BY <1>1
    <3> QED BY <3>1 DEF Waiting
  <2>3. ASSUME NEW k \in DOMAIN Tail(t) PROVE Tail(t)[k] \in Waiting(t)
    <3>1. k + 1 \in DOMAIN t /\ Tail(t)[k] = t[k + 1]
      BY <1>1
    <3> QED BY <3>1 DEF Waiting
  <2> QED BY <2>1, <2>2, <2>3 DEF Waiting
<1>3. Head(t) \notin Waiting(Tail(t))
  <2>1. \A k \in 1..(Len(t) - 1) : t[1] < t[k + 1]
    BY <1>1, SMTT(30) DEF InOrder, Rises
  <2> QED BY <1>1, <2>1 DEF Waiting
<1>4. Waiting(s) \cap Waiting(t) = {}
  <2>1. \A j \in DOMAIN s, k \in DOMAIN t : s[j] # t[k]
    BY <1>1 DEF InOrder
  <2> QED BY <2>1 DEF Waiting
<1>5. InOrder(s, Tail(t))
  <2>1. Rises(Tail(t))
    BY <1>1, SMTT(30) DEF InOrder, Rises
  <2>2. ASSUME NEW j \in DOMAIN s, NEW k \in DOMAIN Tail(t) PROVE s[j] < Tail(t)[k]
    <3>1. k + 1 \in DOMAIN t /\ Tail(t)[k] = t[k + 1]
      BY <1>1
    <3> QED BY <3>1 DEF InOrder
  <2> QED BY <1>1, <2>1, <2>2 DEF InOrder
<1> QED BY <1>2, <1>3, <1>4, <1>5

\* One more number, larger than those in the list.
LEMMA OneMoreRises ==
  ASSUME NEW s \in Seq(Nat), Rises(s), NEW n \in Nat, \A k \in DOMAIN s : s[k] < n
  PROVE  /\ Append(s, n) \in Seq(Nat) /\ Rises(Append(s, n)) /\ Waiting(Append(s, n)) = Waiting(s) \cup {n}
         /\ \A k \in DOMAIN Append(s, n) : (k \in DOMAIN s /\ Append(s, n)[k] = s[k]) \/ Append(s, n)[k] = n
<1>1. /\ Len(s) \in Nat /\ DOMAIN s = 1..Len(s) /\ DOMAIN Append(s, n) = 1..(Len(s) + 1)
      /\ Append(s, n) \in Seq(Nat) /\ Append(s, n)[Len(s) + 1] = n
      /\ \A k \in 1..Len(s) : Append(s, n)[k] = s[k]
  BY LenProperties, AppendProperties
<1>2. \A k \in DOMAIN Append(s, n) : k \in DOMAIN s \/ k = Len(s) + 1
  BY <1>1
<1>3. Rises(Append(s, n))
  BY <1>1 DEF Rises
<1>4. Waiting(Append(s, n)) = Waiting(s) \cup {n}
  BY <1>1, <1>2 DEF Waiting
<1> QED BY <1>1, <1>2, <1>3, <1>4

\* The first of what waits is handed over.
LEMMA HandedOver ==
  ASSUME NEW s, NEW t, InOrder(s, t), t # <<>>
  PROVE  InOrder(Append(s, Head(t)), Tail(t)) /\ Waiting(Append(s, Head(t))) = Waiting(s) \cup {Head(t)}
<1>1. /\ s \in Seq(Nat) /\ t \in Seq(Nat) /\ Len(t) \in Nat /\ DOMAIN t = 1..Len(t) /\ Len(t) > 0 /\ Head(t) = t[1]
      /\ DOMAIN Tail(t) = 1..(Len(t) - 1) /\ \A k \in 1..(Len(t) - 1) : Tail(t)[k] = t[k + 1]
      /\ Head(t) \in Nat
  BY EmptySeq, LenProperties, HeadTailProperties, ElementOfSeq DEF InOrder
<1>2. Rises(s) /\ \A k \in DOMAIN s : s[k] < Head(t)
  BY <1>1 DEF InOrder
<1>3. /\ Append(s, Head(t)) \in Seq(Nat) /\ Rises(Append(s, Head(t)))
      /\ Waiting(Append(s, Head(t))) = Waiting(s) \cup {Head(t)}
      /\ \A k \in DOMAIN Append(s, Head(t)) :
           (k \in DOMAIN s /\ Append(s, Head(t))[k] = s[k]) \/ Append(s, Head(t))[k] = Head(t)
  BY <1>1, <1>2, OneMoreRises
<1>4. InOrder(s, Tail(t))
  BY FirstWaiting
<1>5. \A k \in 1..(Len(t) - 1) : t[1] < t[k + 1]
  BY <1>1 DEF InOrder, Rises
<1>6. \A j \in DOMAIN Append(s, Head(t)), k \in DOMAIN Tail(t) : Append(s, Head(t))[j] < Tail(t)[k]
  BY <1>1, <1>3, <1>4, <1>5 DEF InOrder
<1> QED BY <1>3, <1>4, <1>6 DEF InOrder

LEMMA NothingWaits ==
  ASSUME NEW s, NEW t, InOrder(s, t)
  PROVE  InOrder(s, <<>>) /\ Waiting(<<>>) = {}
  BY EmptySeq DEF InOrder, Rises, Waiting

LEMMA InitBridge == BridgeInit => BridgeInv
  BY EmptySeq DEF BridgeInit, BridgeInv, InOrder, Rises, Waiting

LEMMA WaitingApart == \A s, t : InOrder(s, t) => Waiting(s) \cap Waiting(t) = {}
<1> SUFFICES ASSUME NEW s, NEW t, InOrder(s, t) PROVE Waiting(s) \cap Waiting(t) = {}
  OBVIOUS
<1>1. \A j \in DOMAIN s, k \in DOMAIN t : s[j] \in Nat /\ t[k] \in Nat /\ s[j] < t[k]
  BY ElementOfSeq, LenProperties DEF InOrder
<1>2. \A j \in DOMAIN s, k \in DOMAIN t : s[j] # t[k]
  BY <1>1
<1> QED BY <1>2 DEF Waiting

\* In a list that rises a number has one place.
LEMMA OnePlace ==
  ASSUME NEW s \in Seq(Nat), Rises(s), NEW n \in Waiting(s)
  PROVE  \E k \in DOMAIN s : {j \in DOMAIN s : s[j] = n} = {k}
<1>1. PICK k \in DOMAIN s : s[k] = n
  BY DEF Waiting
<1>2. ASSUME NEW j \in DOMAIN s, s[j] = n PROVE j = k
  <2>1. j \in Nat /\ k \in Nat /\ s[j] \in Nat /\ ~(s[j] < s[k]) /\ ~(s[k] < s[j])
    BY <1>1, <1>2, ElementOfSeq, LenProperties
  <2> QED BY <2>1 DEF Rises
<1> QED BY <1>1, <1>2

LEMMA BridgeInvInOrder == BridgeInv => HandedInOrder
<1> SUFFICES ASSUME BridgeInv PROVE HandedInOrder
  OBVIOUS
<1>1. \A j, k \in DOMAIN handed : j < k => handed[j] < handed[k]
  BY DEF BridgeInv, InOrder, Rises
<1>2. ASSUME NEW n \in DOMAIN published, published[n] \in Objects
      PROVE  Cardinality(Places(n)) = 1
  <2>1. /\ n \in Waiting(handed) \cup Waiting(line) \cup gone
        /\ Waiting(handed) \cap Waiting(line) = {} /\ gone \cap (Waiting(handed) \cup Waiting(line)) = {}
    BY <1>2, WaitingApart, LenProperties DEF BridgeInv
  <2>2. handed \in Seq(Nat) /\ line \in Seq(Nat) /\ Rises(handed) /\ Rises(line)
    BY DEF BridgeInv, InOrder
  <2> DEFINE H == {j \in DOMAIN handed : handed[j] = n}
             L == {j \in DOMAIN line : line[j] = n}
  <2>3. n \notin Waiting(handed) => H = {}
    BY DEF Waiting
  <2>4. n \notin Waiting(line) => L = {}
    BY DEF Waiting
  <2>5. Places(n) = {<<"handed", k>> : k \in H} \cup {<<"line", k>> : k \in L} \cup {<<"gone", m>> : m \in gone \cap {n}}
    BY DEF Places
  <2>6. n \in Waiting(handed) => \E k : H = {k}
    BY <2>2, OnePlace
  <2>7. n \in Waiting(line) => \E k : L = {k}
    BY <2>2, OnePlace
  <2> HIDE DEF H, L
  <2>8. \E p : Places(n) = {p}
    <3>1. CASE n \in Waiting(handed)
      <4>1. PICK k : H = {k}
        BY <3>1, <2>6
      <4>2. L = {} /\ gone \cap {n} = {}
        BY <3>1, <2>1, <2>4
      <4>3. Places(n) = {<<"handed", k>>}
        BY <2>5, <4>1, <4>2
      <4> QED BY <4>3
    <3>2. CASE n \in Waiting(line)
      <4>1. PICK k : L = {k}
        BY <3>2, <2>7
      <4>2. H = {} /\ gone \cap {n} = {}
        BY <3>2, <2>1, <2>3
      <4>3. Places(n) = {<<"line", k>>}
        BY <2>5, <4>1, <4>2
      <4> QED BY <4>3
    <3>3. CASE n \in gone
      <4>1. H = {} /\ L = {} /\ gone \cap {n} = {n}
        BY <3>3, <2>1, <2>3, <2>4
      <4>2. Places(n) = {<<"gone", n>>}
        BY <2>5, <4>1
      <4> QED BY <4>2
    <3> QED BY <2>1, <3>1, <3>2, <3>3
  <2> QED BY <2>8, FS_Singleton
<1> QED BY <1>1, <1>2 DEF HandedInOrder

LEMMA PublishingOnChannel ==
  ASSUME BridgeInv, NEW m \in Messages, PublishOnChannel(m)
  PROVE  BridgeInv'
<1> DEFINE n == Len(published) + 1
<1>1. /\ published \in Seq(Messages) /\ Len(published) \in Nat /\ published' \in Seq(Messages)
      /\ Len(published') = n /\ \A k \in 1..Len(published) : published'[k] = published[k]
  BY LenProperties, AppendProperties DEF BridgeInv, PublishOnChannel
<1>2. handed' = handed /\ ((line' = Append(line, n) /\ gone' = gone) \/ (line' = line /\ gone' = gone \cup {n}))
  <2>1. Len(published') = n /\ PublishOnChannel(m)
    BY <1>1
  <2> HIDE DEF n
  <2> QED BY <2>1 DEF PublishOnChannel
<1>3. \A k \in Waiting(handed) \cup Waiting(line) \cup gone : k \in Nat /\ k < n
  BY <1>1 DEF BridgeInv
<1>4. n \in Nat /\ 1..n = 1..Len(published) \cup {n}
  BY <1>1
<1> HIDE DEF n
<1>5. InOrder(handed', line') /\ Waiting(handed') = Waiting(handed)
      /\ ((Waiting(line') = Waiting(line) \cup {n} /\ gone' = gone) \/ (Waiting(line') = Waiting(line) /\ gone' = gone \cup {n}))
  <2>1. CASE line' = line /\ gone' = gone \cup {n}
    BY <1>2, <2>1 DEF BridgeInv
  <2>2. CASE line' = Append(line, n) /\ gone' = gone
    <3>1. line \in Seq(Nat) /\ Rises(line) /\ handed \in Seq(Nat) /\ Rises(handed)
      BY DEF BridgeInv, InOrder
    <3>2. (\A k \in DOMAIN line : line[k] < n) /\ (\A k \in DOMAIN handed : handed[k] < n)
      BY <1>3 DEF Waiting
    <3>3. /\ Append(line, n) \in Seq(Nat) /\ Rises(Append(line, n)) /\ Waiting(Append(line, n)) = Waiting(line) \cup {n}
          /\ \A k \in DOMAIN Append(line, n) :
               (k \in DOMAIN line /\ Append(line, n)[k] = line[k]) \/ Append(line, n)[k] = n
      BY <1>4, <3>1, <3>2, OneMoreRises
    <3>4. \A j \in DOMAIN handed, k \in DOMAIN Append(line, n) : handed[j] < Append(line, n)[k]
      BY <3>2, <3>3 DEF BridgeInv, InOrder
    <3> QED BY <1>2, <2>2, <3>1, <3>3, <3>4 DEF InOrder
  <2> QED BY <1>2, <2>1, <2>2
<1>6. n \notin Waiting(handed) \cup Waiting(line) \cup gone
  BY <1>3
<1>7. \A k \in 1..n : published'[k] \in Objects => k \in Waiting(handed) \cup Waiting(line) \cup gone \cup {n}
  BY <1>1, <1>4 DEF BridgeInv
<1> QED BY <1>1, <1>4, <1>5, <1>6, <1>7 DEF BridgeInv

\* A message moves on, or all that waited is lost.
LEMMA MovingOn ==
  ASSUME BridgeInv, UNCHANGED published, InOrder(handed', line'),
         Waiting(handed') \cup Waiting(line') \cup gone' \subseteq Waiting(handed) \cup Waiting(line) \cup gone,
         gone' \cap (Waiting(handed') \cup Waiting(line')) = {},
         \A n \in Waiting(handed) \cup Waiting(line) \cup gone :
           (n \in Waiting(handed') \cup Waiting(line') \cup gone') \/ published[n] \notin Objects
  PROVE  BridgeInv'
  BY DEF BridgeInv

LEMMA LosingConnection ==
  ASSUME BridgeInv, LoseConnection
  PROVE  BridgeInv'
<1>1. InOrder(handed, <<>>) /\ Waiting(<<>>) = {} /\ Waiting(handed) \cap Waiting(line) = {}
  BY NothingWaits, WaitingApart DEF BridgeInv
<1>2. gone' = gone \cup Waiting(line) /\ line' = <<>> /\ UNCHANGED <<published, handed>>
  BY DEF LoseConnection
<1> QED BY <1>1, <1>2, MovingOn DEF BridgeInv

LEMMA Bridging ==
  ASSUME BridgeInv, NEW kept \in BOOLEAN, BridgeMessage(kept)
  PROVE  BridgeInv'
<1> DEFINE n == Head(line)
           event == published[n] \in Objects
<1>1. /\ line # <<>> /\ line' = Tail(line) /\ published' = published
      /\ handed' = (IF event /\ kept THEN Append(handed, n) ELSE handed)
      /\ gone' = (IF event /\ ~kept THEN gone \cup {n} ELSE gone)
  BY DEF BridgeMessage
<1>2. /\ Waiting(line) = {n} \cup Waiting(Tail(line)) /\ n \notin Waiting(Tail(line)) /\ n \notin Waiting(handed)
      /\ Waiting(handed) \cap Waiting(line) = {} /\ InOrder(handed, Tail(line))
      /\ InOrder(Append(handed, n), Tail(line)) /\ Waiting(Append(handed, n)) = Waiting(handed) \cup {n}
  BY <1>1, FirstWaiting, HandedOver DEF BridgeInv
<1>3. gone \cap (Waiting(handed) \cup Waiting(line)) = {}
  BY DEF BridgeInv
<1> HIDE DEF n
<1>4. CASE event /\ kept
  BY <1>1, <1>2, <1>3, <1>4, MovingOn
<1>5. CASE event /\ ~kept
  BY <1>1, <1>2, <1>3, <1>5, MovingOn
<1>6. CASE ~event
  BY <1>1, <1>2, <1>3, <1>6, MovingOn
<1> QED BY <1>4, <1>5, <1>6

LEMMA Processing ==
  ASSUME BridgeInv, ProcessMessage
  PROVE  BridgeInv'
<1> DEFINE n == Head(line)
           event == published[n] \in Objects
           raises == published[n] \in {"word", "list"}
<1>1. /\ line # <<>> /\ published' = published
      /\ handed' = (IF event THEN Append(handed, n) ELSE handed)
      /\ line' = (IF raises THEN <<>> ELSE Tail(line))
      /\ gone' = (IF raises THEN gone \cup Waiting(Tail(line)) ELSE gone)
  BY DEF ProcessMessage
<1>2. /\ Waiting(line) = {n} \cup Waiting(Tail(line)) /\ n \notin Waiting(Tail(line)) /\ n \notin Waiting(handed)
      /\ Waiting(handed) \cap Waiting(line) = {} /\ InOrder(handed, Tail(line))
      /\ InOrder(Append(handed, n), Tail(line)) /\ Waiting(Append(handed, n)) = Waiting(handed) \cup {n}
  BY <1>1, FirstWaiting, HandedOver DEF BridgeInv
<1>3. gone \cap (Waiting(handed) \cup Waiting(line)) = {}
  BY DEF BridgeInv
<1>4. InOrder(handed, <<>>) /\ InOrder(Append(handed, n), <<>>) /\ Waiting(<<>>) = {}
  BY <1>2, NothingWaits
<1> HIDE DEF n, raises
<1>5. CASE event /\ raises
  BY <1>1, <1>2, <1>3, <1>4, <1>5, MovingOn
<1>6. CASE event /\ ~raises
  BY <1>1, <1>2, <1>3, <1>6, MovingOn
<1>7. CASE ~event /\ raises
  BY <1>1, <1>2, <1>3, <1>4, <1>7, MovingOn
<1>8. CASE ~event /\ ~raises
  BY <1>1, <1>2, <1>3, <1>8, MovingOn
<1> QED BY <1>5, <1>6, <1>7, <1>8

LEMMA BridgeStep == BridgeInv /\ [BridgeNext]_bridgeVars => BridgeInv'
<1> SUFFICES ASSUME BridgeInv, [BridgeNext]_bridgeVars PROVE BridgeInv'
  OBVIOUS
<1>1. CASE UNCHANGED bridgeVars \/ Subscribe
  BY <1>1 DEF bridgeVars, Subscribe, BridgeInv
<1>2. ASSUME NEW m \in Messages, PublishOnChannel(m) PROVE BridgeInv'
  BY <1>2, PublishingOnChannel
<1>3. CASE LoseConnection
  BY <1>3, LosingConnection
<1>4. ASSUME NEW kept \in BOOLEAN, BridgeMessage(kept) PROVE BridgeInv'
  BY <1>4, Bridging
<1>5. CASE ProcessMessage
  BY <1>5, Processing
<1> QED BY <1>1, <1>2, <1>3, <1>4, <1>5 DEF BridgeNext

\* Of all batches, messages and bounds: what comes in by the stream is indexed before it is
\* acknowledged and never twice (RoundIsHonest), and what is published is handed to the
\* engine once and in order, on its way, or known to be lost (BridgeInv), whatever fails.
THEOREM EventsAlwaysComeIn == InSpec => []EventsComeIn
<1>1. InInit => IndexInv /\ BridgeInv
  BY InitIndex, InitBridge DEF InInit
<1>2. (IndexInv /\ BridgeInv) /\ [InNext]_<<ingressVars, bridgeVars>> => (IndexInv /\ BridgeInv)'
  <2> SUFFICES ASSUME IndexInv, BridgeInv, [InNext]_<<ingressVars, bridgeVars>> PROVE IndexInv' /\ BridgeInv'
    OBVIOUS
  <2>1. [IngressNext]_ingressVars /\ [BridgeNext]_bridgeVars
    BY DEF InNext
  <2> QED BY <2>1, IndexStep, BridgeStep
<1>3. IndexInv /\ BridgeInv => EventsComeIn
  BY IndexInvIsHonest, BridgeInvInOrder DEF EventsComeIn
<1> QED BY <1>1, <1>2, <1>3, PTL DEF InSpec

-------------------------------------------------------------------------------
(* What a worker sees of the events *)

\* A list of anything.
IsList(s) == \E U : s \in Seq(U)

\* A copy of an event has what the rules below read.
Attributes == {"key", "type", "user", "ip", "target", "time"}
Alike(e, f) == \A a \in Attributes : e[a] = f[a]

\* Some of the first events of lg, by their place in it: those of the actor, in
\* order, and at least those younger than from.
Keeps(buf, key, lg, last, from) ==
  /\ IsList(buf)
  /\ \A p \in DOMAIN buf : buf[p].id \in 1..last /\ Alike(buf[p], lg[buf[p].id]) /\ buf[p].key = key
  /\ \A p, q \in DOMAIN buf : p < q => buf[p].id < buf[q].id
  /\ \A m \in 1..last : lg[m].key = key /\ lg[m].time > from => \E p \in DOMAIN buf : buf[p].id = m

LEMMA ChosenOnes ==
  ASSUME NEW s, IsList(s), NEW places, places \subseteq DOMAIN s
  PROVE  /\ IsList(Chosen(s, places))
         /\ \A q \in DOMAIN Chosen(s, places) : \E n \in places : Chosen(s, places)[q] = s[n]
         /\ \A n \in places : \E q \in DOMAIN Chosen(s, places) : Chosen(s, places)[q] = s[n]
<1> PICK U : s \in Seq(U)
  BY DEF IsList
<1> DEFINE t == Chosen(s, places)
<1>1. SiftedUpTo(t, U, s, places, Len(s))
  BY Sifting, ZenonT(30) DEF Chosen, Sifted
<1> HIDE DEF t
<1>2. t \in Seq(U) /\ DOMAIN t = 1..Len(t) /\ places \cap 1..Len(s) = places
  BY <1>1 DEF SiftedUpTo
<1>3. PICK at : IsSifted(t, s, places, at)
  BY <1>1, <1>2 DEF SiftedUpTo
<1>4. IsList(t)
  BY <1>2 DEF IsList
<1>5. \A q \in DOMAIN t : \E n \in places : t[q] = s[n]
  BY <1>2, <1>3 DEF IsSifted
<1>6. \A n \in places : \E q \in DOMAIN t : t[q] = s[n]
  BY <1>2, <1>3 DEF IsSifted
<1> QED BY <1>4, <1>5, <1>6 DEF t

\* The same, with their order.
LEMMA ChosenInOrder ==
  ASSUME NEW s, IsList(s), NEW places, places \subseteq DOMAIN s
  PROVE  \A p, q \in DOMAIN Chosen(s, places) : p < q =>
           \E m, n \in places : m < n /\ Chosen(s, places)[p] = s[m] /\ Chosen(s, places)[q] = s[n]
<1> PICK U : s \in Seq(U)
  BY DEF IsList
<1> DEFINE t == Chosen(s, places)
<1>1. SiftedUpTo(t, U, s, places, Len(s))
  BY Sifting, ZenonT(30) DEF Chosen, Sifted
<1> HIDE DEF t
<1>2. t \in Seq(U) /\ DOMAIN t = 1..Len(t) /\ places \cap 1..Len(s) = places
  BY <1>1 DEF SiftedUpTo
<1>3. PICK at : IsSifted(t, s, places, at)
  BY <1>1, <1>2 DEF SiftedUpTo
<1>4. ASSUME NEW p \in DOMAIN t, NEW q \in DOMAIN t, p < q
      PROVE  \E m, n \in places : m < n /\ t[p] = s[m] /\ t[q] = s[n]
  <2>1. at[p] \in places /\ at[q] \in places /\ at[p] < at[q] /\ t[p] = s[at[p]] /\ t[q] = s[at[q]]
    BY <1>2, <1>3, <1>4 DEF IsSifted
  <2> QED BY <2>1
<1> QED BY <1>4 DEF t

LEMMA ListFacts ==
  ASSUME NEW s, IsList(s)
  PROVE  /\ Len(s) \in Nat /\ DOMAIN s = 1..Len(s)
         /\ (s = <<>> <=> Len(s) = 0)
         /\ \A e : /\ IsList(Append(s, e)) /\ Len(Append(s, e)) = Len(s) + 1
                   /\ Append(s, e)[Len(s) + 1] = e
                   /\ \A n \in 1..Len(s) : Append(s, e)[n] = s[n]
<1> PICK U : s \in Seq(U)
  BY DEF IsList
<1>1. Len(s) \in Nat /\ DOMAIN s = 1..Len(s) /\ (s = <<>> <=> Len(s) = 0)
  OBVIOUS
<1>2. ASSUME NEW e
      PROVE  /\ IsList(Append(s, e)) /\ Len(Append(s, e)) = Len(s) + 1
             /\ Append(s, e)[Len(s) + 1] = e
             /\ \A n \in 1..Len(s) : Append(s, e)[n] = s[n]
  <2>1. s \in Seq(U \cup {e})
    OBVIOUS
  <2>2. Append(s, e) \in Seq(U \cup {e})
    BY <2>1
  <2>3. IsList(Append(s, e))
    BY <2>2 DEF IsList
  <2> QED BY <2>1, <2>3
<1> QED BY <1>1, <1>2

-----------------------------------------------------------------------------
(* What the rules find *)

Watched == {"recon_to_exploit", "credential_compromise", "data_exfiltration", "distributed_attack"}

LEMMA EvidenceOfWatched ==
  ASSUME NEW e, NEW buf, NEW all, NEW now, NEW graph
  PROVE  /\ Evidence("recon_to_exploit", e, buf, all, now, graph) = ReconToExploit(e, buf)
         /\ Evidence("credential_compromise", e, buf, all, now, graph) = CredentialCompromise(e, buf)
         /\ Evidence("data_exfiltration", e, buf, all, now, graph) = DataExfiltration(e, buf)
         /\ Evidence("distributed_attack", e, buf, all, now, graph) = DistributedAttack(e, all)
  BY DEF Evidence

LEMMA RestsOfWatched ==
  ASSUME NEW e, NEW found
  PROVE  /\ \A r \in Watched \ {"distributed_attack"} : RestsOn(r, e, found) = <<e.key>>
         /\ RestsOn("distributed_attack", e, found) = <<e.user>>
  BY DEF RestsOn, Watched, OnSite

LEMMA WatchedConcern ==
  ASSUME NEW e
  PROVE  /\ Concerns("recon_to_exploit", e) <=> e.type \in {"sql_injection", "path_traversal"}
         /\ Concerns("credential_compromise", e) <=> e.type = "suspicious_login"
         /\ Concerns("data_exfiltration", e) <=> e.type = "sensitive_access"
         /\ Concerns("distributed_attack", e) <=> e.type \in Guessing /\ e.user # Absent
<1>1. /\ Trigger("recon_to_exploit", e) <=> e.type \in {"sql_injection", "path_traversal"}
      /\ Trigger("credential_compromise", e) <=> e.type = "suspicious_login"
      /\ Trigger("data_exfiltration", e) <=> e.type = "sensitive_access"
      /\ Trigger("distributed_attack", e) <=> e.type \in Guessing
  BY DEF Trigger
<1>2. \A r \in Watched : ~OnSite(r)
  BY DEF OnSite, Watched
<1> QED BY <1>1, <1>2 DEF Concerns, Watched

\* Every watched rule that concerns an event will look at it.
LEMMA WatchedIsListed ==
  ASSUME NEW e, NEW r \in Watched, Concerns(r, e)
  PROVE  r \in {RulesOn(e)[n] : n \in DOMAIN RulesOn(e)} /\ IsList(RulesOn(e))
<1> DEFINE places == {n \in DOMAIN RuleOrder : Concerns(RuleOrder[n], e)}
<1>1. IsList(RuleOrder) /\ \E n \in DOMAIN RuleOrder : RuleOrder[n] = r
  <2>1. DOMAIN RuleOrder = 1..19 /\ RuleOrder[2] = "recon_to_exploit" /\ RuleOrder[3] = "credential_compromise"
        /\ RuleOrder[7] = "distributed_attack" /\ RuleOrder[8] = "data_exfiltration"
    BY DEF RuleOrder
  <2>2. RuleOrder \in Seq({RuleOrder[n] : n \in 1..19})
    BY DEF RuleOrder
  <2> QED BY <2>1, <2>2 DEF IsList, Watched
<1>2. PICK n \in places : RuleOrder[n] = r
  BY <1>1
<1>3. places \subseteq DOMAIN RuleOrder
  OBVIOUS
<1> HIDE DEF places
<1>4. IsList(Chosen(RuleOrder, places)) /\ \E q \in DOMAIN Chosen(RuleOrder, places) : Chosen(RuleOrder, places)[q] = r
  BY <1>1, <1>2, <1>3, ChosenOnes
<1> QED BY <1>4 DEF RulesOn, places

-----------------------------------------------------------------------------
(* Two steps of an attack *)

\* What buf has of the actor of e, of these types.
LEMMA EventsOfActor ==
  ASSUME NEW lg, NEW key, NEW last, NEW from, NEW buf, Keeps(buf, key, lg, last, from), last \in Nat,
         NEW e, e.key = key, key # Unknown, NEW S
  PROVE  /\ IsList(Types(S, OfActor(buf, e)))
         /\ \A q \in DOMAIN Types(S, OfActor(buf, e)) :
              \E p \in DOMAIN buf : Types(S, OfActor(buf, e))[q] = buf[p] /\ buf[p].type \in S
         /\ \A p \in DOMAIN buf : buf[p].type \in S =>
              \E q \in DOMAIN Types(S, OfActor(buf, e)) : Types(S, OfActor(buf, e))[q] = buf[p]
         /\ \A p, q \in DOMAIN Types(S, OfActor(buf, e)) : p < q =>
              Types(S, OfActor(buf, e))[p].id < Types(S, OfActor(buf, e))[q].id
<1> DEFINE mine == {n \in DOMAIN buf : buf[n].key = e.key /\ e.key # Unknown}
           t == Chosen(buf, mine)
           those == {n \in DOMAIN t : t[n].type \in S}
           u == Chosen(t, those)
<1>1. OfActor(buf, e) = t /\ Types(S, t) = u
  BY DEF OfActor, Types
<1>2. IsList(buf) /\ mine = DOMAIN buf /\ DOMAIN buf = 1..Len(buf) /\ Len(buf) \in Nat
  BY ListFacts DEF Keeps
<1>3. \A p, q \in DOMAIN buf : p < q => buf[p].id < buf[q].id
  BY DEF Keeps
<1> HIDE DEF mine
<1>4. /\ IsList(t)
      /\ \A q \in DOMAIN t : \E n \in mine : t[q] = buf[n]
      /\ \A n \in mine : \E q \in DOMAIN t : t[q] = buf[n]
  BY <1>2, ChosenOnes
<1>5. \A p, q \in DOMAIN t : p < q => \E m, n \in mine : m < n /\ t[p] = buf[m] /\ t[q] = buf[n]
  BY <1>2, ChosenInOrder
<1>6. \A p, q \in DOMAIN t : p < q => t[p].id < t[q].id
  BY <1>2, <1>3, <1>5
<1> HIDE DEF t
<1>7. those \subseteq DOMAIN t
  OBVIOUS
<1>8. \A n \in those : t[n].type \in S
  OBVIOUS
<1>9. \A n \in DOMAIN t : t[n].type \in S => n \in those
  OBVIOUS
<1> HIDE DEF those
<1>10. /\ IsList(u)
       /\ \A q \in DOMAIN u : \E n \in those : u[q] = t[n]
       /\ \A n \in those : \E q \in DOMAIN u : u[q] = t[n]
  BY <1>4, <1>7, ChosenOnes
<1>11. \A p, q \in DOMAIN u : p < q => \E m, n \in those : m < n /\ u[p] = t[m] /\ u[q] = t[n]
  BY <1>4, <1>7, ChosenInOrder
<1> HIDE DEF u
<1>12. \A q \in DOMAIN u : \E p \in DOMAIN buf : u[q] = buf[p] /\ buf[p].type \in S
  <2> SUFFICES ASSUME NEW q \in DOMAIN u PROVE \E p \in DOMAIN buf : u[q] = buf[p] /\ buf[p].type \in S
    OBVIOUS
  <2>1. PICK n \in those : u[q] = t[n]
    BY <1>10
  <2>2. PICK p \in mine : t[n] = buf[p]
    BY <1>4, <1>7
  <2> QED BY <2>1, <2>2, <1>2, <1>8
<1>13. \A p \in DOMAIN buf : buf[p].type \in S => \E q \in DOMAIN u : u[q] = buf[p]
  <2> SUFFICES ASSUME NEW p \in DOMAIN buf, buf[p].type \in S PROVE \E q \in DOMAIN u : u[q] = buf[p]
    OBVIOUS
  <2>1. PICK n \in DOMAIN t : t[n] = buf[p]
    BY <1>2, <1>4
  <2>2. n \in those
    BY <2>1, <1>9
  <2> QED BY <2>1, <2>2, <1>10
<1>14. \A p, q \in DOMAIN u : p < q => u[p].id < u[q].id
  BY <1>6, <1>7, <1>11
<1> QED BY <1>1, <1>10, <1>12, <1>13, <1>14

\* The j-th event is the second step after the i-th.
Follows(s, i, j, lg) ==
  /\ i < j
  /\ lg[i].key = lg[j].key /\ lg[i].key # Unknown
  /\ lg[i].after = lg[j].after /\ ~Worded(lg[j])
  /\ lg[i].type \in s.first /\ lg[j].type \in s.second
  /\ lg[j].time - lg[i].time <= Ticks[s.within]
  /\ lg[i].time > lg[j].seen - Ticks[900]
  /\ \A m, n \in 1..j : m < n => lg[m].time <= lg[n].time

\* A log of events with their times.
IsLog(lg, now) ==
  /\ IsList(lg) /\ now \in Nat
  /\ \A n \in DOMAIN lg : /\ lg[n].key \in Keys /\ lg[n].time \in Int /\ lg[n].seen \in Nat
                          /\ lg[n].time <= lg[n].seen /\ lg[n].seen <= now

\* The first step is found: the last of its kind is no older.
LEMMA FirstStepIsFound ==
  ASSUME NEW lg, NEW now, IsLog(lg, now), NEW j \in DOMAIN lg, NEW i \in 1..(j - 1), NEW s \in Sequences,
         Follows(s, i, j, lg), s.first \cap s.second = {},
         NEW e, e.id = j, Alike(e, lg[j]), NEW buf, Keeps(buf, e.key, lg, j, lg[j].seen - Ticks[900])
  PROVE  /\ Types(s.first, OfActor(buf, e)) # <<>>
         /\ Last(Types(s.first, OfActor(buf, e))).time \in Int
         /\ e.time \in Int
         /\ e.time - Last(Types(s.first, OfActor(buf, e))).time <= Ticks[s.within]
<1> DEFINE t == Types(s.first, OfActor(buf, e))
<1>0. j \in Nat /\ i \in Nat /\ i \in 1..j /\ i \in DOMAIN lg /\ i < j /\ DOMAIN lg = 1..Len(lg) /\ Len(lg) \in Nat
  BY ListFacts DEF IsLog
<1>1. e.key = lg[j].key /\ e.time = lg[j].time /\ e.key # Unknown /\ lg[i].key = e.key
  BY DEF Alike, Attributes, Follows
<1>2. /\ IsList(t)
      /\ \A q \in DOMAIN t : \E p \in DOMAIN buf : t[q] = buf[p] /\ buf[p].type \in s.first
      /\ \A p \in DOMAIN buf : buf[p].type \in s.first => \E q \in DOMAIN t : t[q] = buf[p]
      /\ \A p, q \in DOMAIN t : p < q => t[p].id < t[q].id
  <2> DEFINE from == lg[j].seen - Ticks[900]
             key == e.key
             S == s.first
  <2>1. Keeps(buf, key, lg, j, from) /\ e.key = key /\ key # Unknown /\ j \in Nat
    BY <1>0, <1>1
  <2> HIDE DEF from, key, S
  <2>2. /\ IsList(Types(S, OfActor(buf, e)))
        /\ \A q \in DOMAIN Types(S, OfActor(buf, e)) :
              \E p \in DOMAIN buf : Types(S, OfActor(buf, e))[q] = buf[p] /\ buf[p].type \in S
        /\ \A p \in DOMAIN buf : buf[p].type \in S =>
              \E q \in DOMAIN Types(S, OfActor(buf, e)) : Types(S, OfActor(buf, e))[q] = buf[p]
        /\ \A p, q \in DOMAIN Types(S, OfActor(buf, e)) : p < q =>
              Types(S, OfActor(buf, e))[p].id < Types(S, OfActor(buf, e))[q].id
    BY <2>1, EventsOfActor
  <2> QED BY <2>2 DEF S
<1> HIDE DEF t
<1>3. PICK p \in DOMAIN buf : buf[p].id = i
  BY <1>0, <1>1 DEF Keeps, Follows
<1>4. buf[p].type \in s.first
  BY <1>3 DEF Keeps, Alike, Attributes, Follows
<1>5. PICK q \in DOMAIN t : t[q] = buf[p]
  BY <1>2, <1>4
<1>6. Len(t) \in Nat /\ DOMAIN t = 1..Len(t) /\ t # <<>> /\ Len(t) \in DOMAIN t
  BY <1>2, <1>5, ListFacts
<1>7. PICK l \in DOMAIN buf : t[Len(t)] = buf[l]
  BY <1>2, <1>6
<1>8. buf[l].id \in 1..j /\ buf[l].time = lg[buf[l].id].time
  BY DEF Keeps, Alike, Attributes
<1>9. i <= buf[l].id
  <2>1. CASE q = Len(t)
    BY <2>1, <1>3, <1>5, <1>7, <1>0
  <2>2. CASE q # Len(t)
    <3>1. q < Len(t)
      BY <2>2, <1>6
    <3>2. t[q].id < t[Len(t)].id
      BY <3>1, <1>2, <1>6
    <3> QED BY <3>2, <1>3, <1>5, <1>7, <1>8, <1>0
  <2> QED BY <2>1, <2>2
<1>10. lg[i].time <= lg[buf[l].id].time
  <2>1. CASE i = buf[l].id
    BY <2>1, <1>0 DEF IsLog
  <2>2. CASE i # buf[l].id
    <3>1. i < buf[l].id
      BY <2>2, <1>0, <1>8, <1>9
    <3> QED BY <3>1, <1>0, <1>8 DEF Follows
  <2> QED BY <2>1, <2>2
<1>11. /\ lg[i].time \in Int /\ lg[j].time \in Int /\ lg[buf[l].id].time \in Int
       /\ lg[j].time - lg[i].time <= Ticks[s.within] /\ Ticks[s.within] \in Int
  <2>1. Ticks[s.within] \in Nat
    BY ArrivalsAssumption DEF Sequences
  <2> QED BY <2>1, <1>0, <1>8 DEF IsLog, Follows
<1>12. lg[j].time - lg[buf[l].id].time <= Ticks[s.within]
  BY <1>10, <1>11
<1> QED BY <1>1, <1>6, <1>7, <1>8, <1>11, <1>12 DEF t, Last

LEMMA SequencesAreEvident ==
  ASSUME NEW lg, NEW now, IsLog(lg, now), NEW e, e.id \in DOMAIN lg, Alike(e, lg[e.id]),
         NEW buf, Keeps(buf, e.key, lg, e.id, lg[e.id].seen - Ticks[900])
  PROVE  \A s \in Sequences, i \in 1..(e.id - 1) :
           Follows(s, i, e.id, lg) => \A all, clock, graph : Evidence(s.rule, e, buf, all, clock, graph) # <<>>
<1> SUFFICES ASSUME NEW s \in Sequences, NEW i \in 1..(e.id - 1), Follows(s, i, e.id, lg)
             PROVE  \A all, clock, graph : Evidence(s.rule, e, buf, all, clock, graph) # <<>>
  OBVIOUS
<1> TAKE all, clock, graph
<1>1. PICK j \in DOMAIN lg : j = e.id
  OBVIOUS
<1>2. /\ i \in 1..(j - 1) /\ Follows(s, i, j, lg) /\ e.id = j
      /\ Alike(e, lg[j]) /\ Keeps(buf, e.key, lg, j, lg[j].seen - Ticks[900])
  BY <1>1
<1>3. s.first \cap s.second = {} /\ s.rule \in {"recon_to_exploit", "credential_compromise", "data_exfiltration"}
  BY DEF Sequences, Guessing
<1>4. /\ Types(s.first, OfActor(buf, e)) # <<>>
      /\ e.time - Last(Types(s.first, OfActor(buf, e))).time <= Ticks[s.within]
  BY <1>2, <1>3, FirstStepIsFound
<1>5. CASE s.rule = "recon_to_exploit"
  <2>1. s.first = {"port_scan"} /\ s.within = 600
    BY <1>5 DEF Sequences
  <2>2. ReconToExploit(e, buf) # <<>>
    BY <2>1, <1>4 DEF ReconToExploit
  <2> QED BY <1>5, <2>2, EvidenceOfWatched
<1>6. CASE s.rule = "credential_compromise"
  <2>1. s.first = {"brute_force", "credential_stuffing"}
    BY <1>6 DEF Sequences, Guessing
  <2>2. ~Worded(e)
    BY <1>2 DEF Follows, Worded, Alike, Attributes
  <2>3. CredentialCompromise(e, buf) # <<>>
    BY <2>1, <2>2, <1>4 DEF CredentialCompromise, LastWith
  <2> QED BY <1>6, <2>3, EvidenceOfWatched
<1>7. CASE s.rule = "data_exfiltration"
  <2>1. s.first = {"sql_injection", "path_traversal"}
    BY <1>7 DEF Sequences
  <2>2. DataExfiltration(e, buf) # <<>>
    BY <2>1, <1>4 DEF DataExfiltration, LastWith
  <2> QED BY <1>7, <2>2, EvidenceOfWatched
<1> QED BY <1>3, <1>5, <1>6, <1>7

-----------------------------------------------------------------------------
(* Every partition at once *)

LEMMA FiniteImage ==
  ASSUME NEW S, IsFiniteSet(S), NEW f, S \subseteq DOMAIN f
  PROVE  IsFiniteSet({f[x] : x \in S})
<1> DEFINE T == {f[x] : x \in S}
           g == [x \in S |-> f[x]]
<1>1. g \in Surjection(S, T)
  BY DEF Surjection
<1> HIDE DEF g
<1>2. IsFiniteSet(T)
  BY <1>1, FS_Surjection
<1> QED BY <1>2

\* A finite set is listed by each of its elements.
LEMMA Listing ==
  ASSUME NEW S, IsFiniteSet(S)
  PROVE  /\ SetToSeq(S) \in Seq(S)
         /\ \A x \in S : \E n \in DOMAIN SetToSeq(S) : SetToSeq(S)[n] = x
<1> DEFINE k == Cardinality(S)
           f == SetToSeq(S)
<1>1. k \in Nat /\ ExistsBijection(1..k, S)
  BY FS_CardinalityType
<1>2. PICK g : g \in Bijection(1..k, S)
  BY <1>1 DEF ExistsBijection
<1>3. g \in [1..k -> S] /\ IsInjective(g)
  BY <1>2 DEF Bijection, Injection
<1>4. f \in [1..k -> S] /\ IsInjective(f)
  BY <1>3 DEF SetToSeq
<1> HIDE DEF f
<1>5. f \in Injection(1..k, S)
  BY <1>4 DEF Injection
<1>6. IsFiniteSet(1..k) /\ Cardinality(1..k) = Cardinality(S)
  BY <1>1, FS_Interval
<1> HIDE DEF k
<1>7. f \in Surjection(1..k, S)
  BY <1>5, <1>6, FS_Injection
<1>8. f \in Seq(S)
  BY <1>1, <1>4
<1>9. \A x \in S : \E n \in DOMAIN f : f[n] = x
  BY <1>4, <1>7 DEF Surjection
<1> QED BY <1>8, <1>9 DEF f

\* A list of lists, flattened, has what they have.
HasAll(t, seqs, n) == \A m \in 1..n : \A p \in DOMAIN seqs[m] : \E q \in DOMAIN t : t[q] = seqs[m][p]

LEMMA Flattening ==
  ASSUME NEW U, NEW seqs \in Seq(Seq(U))
  PROVE  FlattenSeq(seqs) \in Seq(U) /\ HasAll(FlattenSeq(seqs), seqs, Len(seqs))
<1> DEFINE k == Len(seqs)
<1>0. k \in Nat /\ \A n \in 1..k : seqs[n] \in Seq(U)
  OBVIOUS
<1>1. CASE k = 0
  BY <1>1, <1>0 DEF FlattenSeq, HasAll
<1>2. CASE k # 0
  <2> DEFINE F == [n \in 1..k |-> [p \in Seq(U) |-> p \o seqs[n]]]
             body(h) == [n \in 1..k |-> IF n = 1 THEN seqs[n] ELSE h[n - 1] \o seqs[n]]
             g == CHOOSE h : h = body(h)
  <2>1. F \in [1..k -> [Seq(U) -> Seq(U)]] /\ \A n \in 1..k, p \in Seq(U) : F[n][p] = p \o seqs[n]
    BY <1>0
  <2>2. PICK f : IsRun(f, Seq(U), k, <<>>, F)
    <3>1. <<>> \in Seq(U)
      OBVIOUS
    <3> HIDE DEF F, k
    <3> QED BY <3>1, <1>0, <2>1, Recursion
  <2>3. /\ \A n \in 1..k : f[n] = f[n - 1] \o seqs[n] /\ f[n] \in Seq(U) /\ f[n - 1] \in Seq(U)
        /\ f[0] = <<>>
    <3> HIDE DEF F, k
    <3>1. f \in [0..k -> Seq(U)] /\ f[0] = <<>> /\ \A n \in 1..k : f[n] = F[n][f[n - 1]]
      BY <2>2 DEF IsRun
    <3>2. \A n \in 1..k : n \in 0..k /\ n - 1 \in 0..k
      BY <1>0
    <3>3. \A n \in 1..k : f[n] \in Seq(U) /\ f[n - 1] \in Seq(U)
      BY <3>1, <3>2
    <3>4. \A n \in 1..k : f[n] = f[n - 1] \o seqs[n]
      BY <3>1, <3>3, <2>1
    <3> QED BY <3>1, <3>3, <3>4
  <2> DEFINE h0 == [n \in 1..k |-> f[n]]
  <2>4. h0 = body(h0)
    <3>1. \A n \in 1..k : f[n] = IF n = 1 THEN seqs[n] ELSE h0[n - 1] \o seqs[n]
      <4> SUFFICES ASSUME NEW n \in 1..k PROVE f[n] = IF n = 1 THEN seqs[n] ELSE h0[n - 1] \o seqs[n]
        OBVIOUS
      <4>1. CASE n = 1
        <5>1. 1 \in 1..k /\ 1 - 1 = 0
          BY <4>1
        <5>2. f[1] = f[0] \o seqs[1] /\ f[0] = <<>> /\ seqs[1] \in Seq(U)
          BY <5>1, <2>3, <1>0
        <5>3. f[1] = seqs[1]
          BY <5>2
        <5> QED BY <4>1, <5>3
      <4>2. CASE n # 1
        <5>1. n - 1 \in 1..k
          BY <4>2, <1>0
        <5> QED BY <5>1, <4>2, <2>3
      <4> QED BY <4>1, <4>2
    <3> QED BY <3>1
  <2>5. g = body(g)
    <3> HIDE DEF body
    <3> QED BY <2>4
  <2>6. FlattenSeq(seqs) = g[k]
    BY <1>2 DEF FlattenSeq
  <2>7. \A n \in 1..k : g[n] = IF n = 1 THEN seqs[n] ELSE g[n - 1] \o seqs[n]
    <3>1. \A h : h = body(h) => \A n \in 1..k : h[n] = IF n = 1 THEN seqs[n] ELSE h[n - 1] \o seqs[n]
      OBVIOUS
    <3> HIDE DEF g, body
    <3> QED BY <3>1, <2>5
  <2> HIDE DEF g
  <2> DEFINE S == {n \in 0..k : n = 0 \/ (g[n] \in Seq(U) /\ HasAll(g[n], seqs, n))}
  <2>8. ASSUME NEW n \in 1..k, n - 1 \in S PROVE n \in S
    <3>1. CASE n = 1
      <4>1. g[1] = seqs[1]
        BY <3>1, <2>7
      <4> QED BY <3>1, <4>1, <1>0 DEF HasAll
    <3>2. CASE n # 1
      <4> DEFINE a == g[n - 1]
                 b == seqs[n]
      <4>1. a \in Seq(U) /\ HasAll(a, seqs, n - 1) /\ b \in Seq(U) /\ g[n] = a \o b
        <5>1. n - 1 # 0 /\ n - 1 \in S
          BY <2>8, <3>2, <1>0
        <5>2. a \in Seq(U) /\ HasAll(a, seqs, n - 1)
          BY <5>1
        <5>3. b \in Seq(U) /\ g[n] = a \o b
          BY <3>2, <2>7, <1>0
        <5> QED BY <5>2, <5>3
      <4> HIDE DEF a, b
      <4>2. /\ a \o b \in Seq(U) /\ DOMAIN a = 1..Len(a) /\ DOMAIN b = 1..Len(b)
            /\ Len(a) \in Nat /\ Len(b) \in Nat /\ DOMAIN (a \o b) = 1..(Len(a) + Len(b))
            /\ \A p \in 1..Len(a) : (a \o b)[p] = a[p]
            /\ \A p \in 1..Len(b) : (a \o b)[Len(a) + p] = b[p]
        BY <4>1
      <4>3. ASSUME NEW m \in 1..n, NEW p \in DOMAIN seqs[m]
            PROVE  \E q \in DOMAIN (a \o b) : (a \o b)[q] = seqs[m][p]
        <5>1. CASE m = n
          <6>1. p \in 1..Len(b) /\ seqs[m][p] = b[p] /\ Len(a) + p \in 1..(Len(a) + Len(b))
            BY <5>1, <4>2, <4>3 DEF b
          <6> QED BY <6>1, <4>2
        <5>2. CASE m # n
          <6>1. m \in 1..(n - 1)
            BY <5>2, <1>0
          <6>2. PICK q \in DOMAIN a : a[q] = seqs[m][p]
            BY <6>1, <4>1, <4>3 DEF HasAll
          <6>3. q \in DOMAIN (a \o b) /\ (a \o b)[q] = a[q]
            BY <4>2
          <6> QED BY <6>2, <6>3
        <5> QED BY <5>1, <5>2
      <4>5. HasAll(a \o b, seqs, n)
        BY <4>3 DEF HasAll
      <4>4. HasAll(g[n], seqs, n)
        BY <4>1, <4>5
      <4>6. g[n] \in Seq(U)
        BY <4>1, <4>2
      <4>7. n \in 0..k
        BY <1>0
      <4> QED BY <4>4, <4>6, <4>7
    <3> QED BY <3>1, <3>2
  <2>9. 0 \in S
    BY <1>0
  <2>10. \A n \in 0..k : n \in S
    <3> HIDE DEF S
    <3> QED BY <1>0, <2>8, <2>9, InductionUpTo
  <2> QED BY <1>0, <1>2, <2>6, <2>10
<1> QED BY <1>1, <1>2

MergedOf(parts) == FlattenSeq(SetToSeq({parts[k] : k \in Keys}))

LEMMA MergedHasAll ==
  ASSUME NEW parts, DOMAIN parts = Keys, \A k \in Keys : IsList(parts[k])
  PROVE  /\ IsList(MergedOf(parts))
         /\ \A k \in Keys : \A p \in DOMAIN parts[k] :
              \E q \in DOMAIN MergedOf(parts) : MergedOf(parts)[q] = parts[k][p]
         /\ \A q \in DOMAIN MergedOf(parts) :
              \E k \in Keys : \E p \in DOMAIN parts[k] : MergedOf(parts)[q] = parts[k][p]
<1> DEFINE S == {parts[k] : k \in Keys}
           U == UNION {{parts[k][p] : p \in DOMAIN parts[k]} : k \in Keys}
           seqs == SetToSeq(S)
<1>1. IsFiniteSet(S)
  BY FiniteImage, ArrivalsAssumption
<1>2. \A k \in Keys : parts[k] \in Seq(U)
  <2> SUFFICES ASSUME NEW k \in Keys PROVE parts[k] \in Seq(U)
    OBVIOUS
  <2>1. PICK V : parts[k] \in Seq(V)
    BY DEF IsList
  <2> DEFINE s == parts[k]
  <2>2. Len(s) \in Nat /\ s \in [1..Len(s) -> V]
    BY <2>1
  <2>3. \A p \in 1..Len(s) : s[p] \in U
    BY <2>2
  <2> HIDE DEF U, s
  <2>4. s \in [1..Len(s) -> U]
    BY <2>2, <2>3
  <2>5. s \in Seq(U)
    BY <2>2, <2>4
  <2> QED BY <2>5 DEF s
<1>9. \A b \in U : \E k \in Keys : \E p \in DOMAIN parts[k] : b = parts[k][p]
  OBVIOUS
<1> HIDE DEF U
<1>3. S \subseteq Seq(U)
  BY <1>2
<1>4. /\ seqs \in Seq(S)
      /\ \A x \in S : \E n \in DOMAIN seqs : seqs[n] = x
  <2> HIDE DEF S
  <2> QED BY <1>1, Listing
<1> HIDE DEF seqs
<1>5. seqs \in Seq(Seq(U)) /\ DOMAIN seqs = 1..Len(seqs)
  <2> HIDE DEF S
  <2> QED BY <1>3, <1>4
<1>6. FlattenSeq(seqs) \in Seq(U) /\ HasAll(FlattenSeq(seqs), seqs, Len(seqs))
  BY <1>5, Flattening
<1>7. MergedOf(parts) = FlattenSeq(seqs)
  BY DEF MergedOf, seqs
<1>8. ASSUME NEW k \in Keys, NEW p \in DOMAIN parts[k]
      PROVE  \E q \in DOMAIN FlattenSeq(seqs) : FlattenSeq(seqs)[q] = parts[k][p]
  <2>1. PICK n \in 1..Len(seqs) : seqs[n] = parts[k]
    BY <1>4, <1>5
  <2> QED BY <2>1, <1>6, <1>8 DEF HasAll
<1>10. \A q \in DOMAIN FlattenSeq(seqs) : FlattenSeq(seqs)[q] \in U
  BY <1>6
<1>11. \A q \in DOMAIN FlattenSeq(seqs) : \E k \in Keys : \E p \in DOMAIN parts[k] : FlattenSeq(seqs)[q] = parts[k][p]
  BY <1>9, <1>10
<1> QED BY <1>6, <1>7, <1>8, <1>11 DEF IsList

\* From which addresses the account of the j-th event was attacked so far.
AttackedFrom(j, lg, now) ==
  {lg[n].ip : n \in {n \in 1..j : /\ lg[n].user = lg[j].user /\ lg[n].type \in Guessing
                                 /\ lg[n].after = lg[j].after /\ lg[n].time > now - Ticks[900]}} \ {Absent}

\* None of a browser is in the window of the j-th event.
NoneIsWorded(j, lg) == \A n \in DOMAIN lg : Worded(lg[n]) => lg[n].time <= lg[j].seen - Ticks[900]

IsSpread(j, lg, now) ==
  /\ lg[j].type \in Guessing /\ lg[j].user # Absent /\ NoneIsWorded(j, lg)
  /\ Cardinality(AttackedFrom(j, lg, now)) >= ManyAddresses

LEMMA AddressesAreFinite ==
  ASSUME NEW j \in Nat, NEW lg, IsList(lg), j \in DOMAIN lg, NEW now
  PROVE  IsFiniteSet(AttackedFrom(j, lg, now)) /\ Cardinality(AttackedFrom(j, lg, now)) \in Nat
<1> DEFINE S == {n \in 1..j : /\ lg[n].user = lg[j].user /\ lg[n].type \in Guessing
                              /\ lg[n].after = lg[j].after /\ lg[n].time > now - Ticks[900]}
           f == [n \in 1..j |-> lg[n].ip]
           T == {f[n] : n \in S}
<1>1. IsFiniteSet(1..j)
  BY FS_Interval
<1>2. S \subseteq 1..j /\ IsFiniteSet(S) /\ DOMAIN f = 1..j
  BY <1>1, FS_Subset
<1>3. AttackedFrom(j, lg, now) \subseteq T
  BY DEF AttackedFrom
<1> HIDE DEF S, f
<1>4. IsFiniteSet(T)
  BY <1>2, FiniteImage
<1> HIDE DEF T
<1> QED BY <1>3, <1>4, FS_Subset, FS_CardinalityType

\* What is in the partitions was in the window when the last event came.
Recent(parts, lg) ==
  \A k \in Keys : \A p \in DOMAIN parts[k] : \A i \in DOMAIN lg : parts[k][p].time > lg[i].seen - Ticks[900]

LEMMA SpreadIsEvident ==
  ASSUME NEW lg, NEW now, IsLog(lg, now), NEW j \in DOMAIN lg, IsSpread(j, lg, now),
         NEW e, e.id = j, Alike(e, lg[j]), NEW buf, NEW graph, NEW clock,
         NEW parts, DOMAIN parts = Keys, Recent(parts, lg),
         \A k \in Keys : Keeps(parts[k], k, lg, Len(lg), now - Ticks[900])
  PROVE  Evidence("distributed_attack", e, buf, MergedOf(parts), clock, graph) # <<>>
<1> DEFINE all == MergedOf(parts)
           places == {n \in DOMAIN all : all[n].user = e.user}
           targeting == Chosen(all, places)
           addresses == {targeting[n].ip : n \in DOMAIN targeting} \ {Absent}
<1>1. j \in Nat /\ DOMAIN lg = 1..Len(lg) /\ Len(lg) \in Nat /\ IsList(lg) /\ \A n \in 1..j : n \in DOMAIN lg
  BY ListFacts DEF IsLog
<1>2. e.user = lg[j].user
  BY DEF Alike, Attributes
<1>3. /\ IsList(all)
      /\ \A k \in Keys : \A p \in DOMAIN parts[k] : \E q \in DOMAIN all : all[q] = parts[k][p]
  BY MergedHasAll DEF Keeps
<1>14. \A q \in DOMAIN all : \E k \in Keys : \E p \in DOMAIN parts[k] : all[q] = parts[k][p]
  BY MergedHasAll DEF Keeps
<1> HIDE DEF all
<1>4. places \subseteq DOMAIN all /\ \A n \in DOMAIN all : all[n].user = e.user => n \in places
  OBVIOUS
<1> HIDE DEF places
<1>5. /\ IsList(targeting)
      /\ \A n \in places : \E q \in DOMAIN targeting : targeting[q] = all[n]
  BY <1>3, <1>4, ChosenOnes
<1> HIDE DEF targeting
<1>6. ASSUME NEW n \in 1..j, lg[n].user = lg[j].user, lg[n].time > now - Ticks[900]
      PROVE  \E q \in DOMAIN targeting : targeting[q].ip = lg[n].ip
  <2>1. n \in DOMAIN lg /\ n \in 1..Len(lg) /\ lg[n].key \in Keys
    BY <1>1 DEF IsLog
  <2> DEFINE k == lg[n].key
  <2>2. PICK p \in DOMAIN parts[k] : parts[k][p].id = n
    BY <2>1, <1>6 DEF Keeps
  <2>3. parts[k][p].user = lg[n].user /\ parts[k][p].ip = lg[n].ip
    BY <2>1, <2>2 DEF Keeps, Alike, Attributes
  <2>4. PICK m \in DOMAIN all : all[m] = parts[k][p]
    BY <1>3, <2>1
  <2>5. m \in places
    BY <1>2, <1>4, <1>6, <2>3, <2>4
  <2>6. PICK q \in DOMAIN targeting : targeting[q] = all[m]
    BY <1>5, <2>5
  <2> QED BY <2>3, <2>4, <2>6
<1>7. AttackedFrom(j, lg, now) \subseteq addresses
  <2> SUFFICES ASSUME NEW n \in 1..j, lg[n].user = lg[j].user, lg[n].time > now - Ticks[900], lg[n].ip # Absent
               PROVE  lg[n].ip \in addresses
    BY DEF AttackedFrom
  <2>1. PICK q \in DOMAIN targeting : targeting[q].ip = lg[n].ip
    BY <1>6
  <2> QED BY <2>1
<1>8. IsFiniteSet(addresses)
  <2> DEFINE f == [q \in DOMAIN targeting |-> targeting[q].ip]
             T == {f[q] : q \in DOMAIN targeting}
  <2>1. IsFiniteSet(DOMAIN targeting) /\ DOMAIN f = DOMAIN targeting
    BY <1>5, ListFacts, FS_Interval
  <2>2. addresses \subseteq T
    OBVIOUS
  <2> HIDE DEF f, addresses
  <2>3. IsFiniteSet(T)
    BY <2>1, FiniteImage
  <2> HIDE DEF T
  <2> QED BY <2>2, <2>3, FS_Subset
<1>9. Cardinality(addresses) \in Nat /\ Cardinality(addresses) >= ManyAddresses
  <2> DEFINE A == AttackedFrom(j, lg, now)
  <2> HIDE DEF addresses
  <2>1. Cardinality(A) <= Cardinality(addresses) /\ Cardinality(addresses) \in Nat
    <3> HIDE DEF A
    <3>1. A \in SUBSET addresses
      BY <1>7 DEF A
    <3> QED BY <3>1, <1>8, FS_Subset, FS_CardinalityType
  <2>2. Cardinality(A) >= ManyAddresses /\ Cardinality(A) \in Nat /\ ManyAddresses \in Nat
    <3>1. Cardinality(A) \in Nat
      BY <1>1, AddressesAreFinite
    <3>2. Cardinality(A) >= ManyAddresses
      BY <1>1 DEF IsSpread
    <3> QED BY <3>1, <3>2, ArrivalsAssumption
  <2> HIDE DEF A
  <2> QED BY <2>1, <2>2
<1>10. targeting # <<>>
  <2>1. addresses # {}
    <3> HIDE DEF addresses
    <3>1. ManyAddresses \in Nat /\ ManyAddresses # 0
      BY ArrivalsAssumption
    <3>2. Cardinality(addresses) # 0
      BY <3>1, <1>9
    <3> QED BY <3>2, FS_EmptySet
  <2>2. \E q : q \in DOMAIN targeting
    BY <2>1
  <2> QED BY <2>2, <1>5, ListFacts
<1>13. ASSUME NEW q \in DOMAIN all PROVE ~Worded(all[q])
  <2>1. PICK k \in Keys : \E p \in DOMAIN parts[k] : all[q] = parts[k][p]
    BY <1>14
  <2>2. PICK p \in DOMAIN parts[k] : all[q] = parts[k][p]
    BY <2>1
  <2> DEFINE i == parts[k][p].id
  <2>3. i \in DOMAIN lg /\ parts[k][p].target = lg[i].target /\ parts[k][p].time = lg[i].time
    BY <1>1 DEF Keeps, Alike, Attributes
  <2>4. lg[i].time > lg[j].seen - Ticks[900]
    BY <2>3 DEF Recent
  <2>5. lg[i].time \in Int /\ lg[j].seen \in Int /\ Ticks[900] \in Int
    BY <2>3, ArrivalsAssumption DEF IsLog
  <2>6. ~(lg[i].time <= lg[j].seen - Ticks[900])
    BY <2>4, <2>5
  <2>7. ~Worded(lg[i])
    BY <2>3, <2>6 DEF IsSpread, NoneIsWorded
  <2> QED BY <2>2, <2>3, <2>7 DEF Worded
<1>11. DistributedAttack(e, all) = targeting
  BY <1>9, <1>13 DEF DistributedAttack, targeting, places
<1>12. Evidence("distributed_attack", e, buf, all, clock, graph) = DistributedAttack(e, all)
  BY EvidenceOfWatched
<1> QED BY <1>10, <1>11, <1>12 DEF all

-----------------------------------------------------------------------------
(* What is reported stays reported *)

\* Of the j-th event, rule r reported what it is to report.
Told(r, j, lg, fd, now) ==
  /\ \A s \in Sequences, i \in 1..(j - 1) :
       s.rule = r /\ Follows(s, i, j, lg) => \E f \in fd : Covers(f, r, <<lg[j].key>>, lg[j].time)
  /\ r = "distributed_attack" /\ IsSpread(j, lg, now) =>
       \E f \in fd : Covers(f, r, <<lg[j].user>>, lg[j].time)

Grown(lg, lg2) ==
  /\ IsList(lg) /\ IsList(lg2) /\ Len(lg) <= Len(lg2)
  /\ \A n \in 1..Len(lg) : lg2[n] = lg[n]

LEMMA GrownItself == \A lg : IsList(lg) => Grown(lg, lg)
  BY ListFacts DEF Grown

LEMMA ToldStays ==
  ASSUME NEW r, NEW lg, NEW lg2, Grown(lg, lg2), NEW fd, NEW fd2, fd \subseteq fd2,
         NEW now, NEW now2, now \in Nat, now2 \in Nat, now <= now2, IsLog(lg, now),
         NEW j \in DOMAIN lg, Told(r, j, lg, fd, now)
  PROVE  Told(r, j, lg2, fd2, now2)
<1>1. /\ j \in Nat /\ \A n \in 1..j : lg2[n] = lg[n] /\ n \in DOMAIN lg
      /\ IsList(lg) /\ j \in 1..j
  BY ListFacts DEF Grown
<1>2. ASSUME NEW s \in Sequences, NEW i \in 1..(j - 1), s.rule = r, Follows(s, i, j, lg2)
      PROVE  \E f \in fd2 : Covers(f, r, <<lg2[j].key>>, lg2[j].time)
  <2>1. i \in 1..j
    BY <1>1
  <2>2. Follows(s, i, j, lg)
    <3>1. lg2[i] = lg[i] /\ lg2[j] = lg[j]
      BY <1>1, <2>1
    <3>2. \A m, n \in 1..j : m < n => lg[m].time <= lg[n].time
      BY <1>1, <1>2 DEF Follows
    <3> QED BY <1>2, <3>1, <3>2 DEF Follows
  <2>3. \E f \in fd : Covers(f, r, <<lg[j].key>>, lg[j].time)
    BY <1>2, <2>2 DEF Told
  <2> QED BY <1>1, <2>3
<1>3. ASSUME r = "distributed_attack", IsSpread(j, lg2, now2)
      PROVE  \E f \in fd2 : Covers(f, r, <<lg2[j].user>>, lg2[j].time)
  <2>1. AttackedFrom(j, lg2, now2) \subseteq AttackedFrom(j, lg, now)
    <3>1. \A n \in 1..j : lg2[n].time > now2 - Ticks[900] => lg[n].time > now - Ticks[900]
      <4>1. Ticks[900] \in Nat
        BY ArrivalsAssumption
      <4>2. \A n \in 1..j : lg[n].time \in Int
        BY <1>1 DEF IsLog
      <4> QED BY <1>1, <4>1, <4>2
    <3>2. \A n \in 1..j : lg2[n] = lg[n]
      BY <1>1
    <3> QED BY <1>1, <3>1, <3>2 DEF AttackedFrom
  <2> DEFINE A == AttackedFrom(j, lg, now)
             B == AttackedFrom(j, lg2, now2)
  <2>2. IsFiniteSet(A) /\ Cardinality(A) \in Nat
    BY <1>1, AddressesAreFinite
  <2>3. B \in SUBSET A /\ Cardinality(B) >= ManyAddresses /\ ManyAddresses \in Nat
    BY <2>1, <1>3, ArrivalsAssumption DEF IsSpread
  <2> HIDE DEF A, B
  <2>4. Cardinality(B) <= Cardinality(A) /\ Cardinality(B) \in Nat
    BY <2>2, <2>3, FS_Subset, FS_CardinalityType
  <2>5. Cardinality(A) >= ManyAddresses
    BY <2>2, <2>3, <2>4
  <2>8. NoneIsWorded(j, lg)
    <3>1. NoneIsWorded(j, lg2)
      BY <1>3 DEF IsSpread
    <3>2. \A n \in DOMAIN lg : n \in DOMAIN lg2 /\ lg2[n] = lg[n]
      BY ListFacts DEF Grown
    <3> QED BY <1>1, <3>1, <3>2 DEF NoneIsWorded
  <2>6. IsSpread(j, lg, now)
    BY <1>1, <1>3, <2>5, <2>8 DEF IsSpread, A
  <2>7. \E f \in fd : Covers(f, r, <<lg[j].user>>, lg[j].time)
    BY <1>3, <2>6 DEF Told
  <2> QED BY <1>1, <2>7
<1> QED BY <1>2, <1>3 DEF Told

LEMMA KeepsStays ==
  ASSUME NEW lg, NEW lg2, Grown(lg, lg2), NEW buf, NEW key, NEW last \in 0..Len(lg),
         NEW from \in Int, NEW from2 \in Int, from <= from2, Keeps(buf, key, lg, last, from),
         \A n \in DOMAIN lg : lg[n].time \in Int
  PROVE  Keeps(buf, key, lg2, last, from2)
<1>1. Len(lg) \in Nat /\ DOMAIN lg = 1..Len(lg)
  BY ListFacts DEF Grown
<1>2. \A m \in 1..last : m \in 1..Len(lg) /\ lg2[m] = lg[m]
  BY <1>1 DEF Grown
<1>3. \A p \in DOMAIN buf : buf[p].id \in 1..last /\ Alike(buf[p], lg2[buf[p].id]) /\ buf[p].key = key
  BY <1>2 DEF Keeps
<1>4. \A m \in 1..last : lg2[m].key = key /\ lg2[m].time > from2 => lg[m].key = key /\ lg[m].time > from
  BY <1>1, <1>2
<1>5. \A m \in 1..last : lg2[m].key = key /\ lg2[m].time > from2 => \E p \in DOMAIN buf : buf[p].id = m
  BY <1>4 DEF Keeps
<1> QED BY <1>3, <1>5 DEF Keeps

\* Throwing away what is older.
LEMMA FreshOnesKeep ==
  ASSUME NEW buf, NEW key, NEW lg, NEW last, NEW from, Keeps(buf, key, lg, last, from)
  PROVE  Keeps(Chosen(buf, {n \in DOMAIN buf : buf[n].time > from}), key, lg, last, from)
<1> DEFINE places == {n \in DOMAIN buf : buf[n].time > from}
           t == Chosen(buf, places)
<1>1. IsList(buf) /\ places \subseteq DOMAIN buf
  BY DEF Keeps
<1>2. \A n \in DOMAIN buf : buf[n].time > from => n \in places
  OBVIOUS
<1> HIDE DEF places
<1>3. /\ IsList(t)
      /\ \A q \in DOMAIN t : \E n \in places : t[q] = buf[n]
      /\ \A n \in places : \E q \in DOMAIN t : t[q] = buf[n]
  BY <1>1, ChosenOnes
<1>4. \A p, q \in DOMAIN t : p < q => \E m, n \in places : m < n /\ t[p] = buf[m] /\ t[q] = buf[n]
  BY <1>1, ChosenInOrder
<1> HIDE DEF t
<1>5. \A p \in DOMAIN t : t[p].id \in 1..last /\ Alike(t[p], lg[t[p].id]) /\ t[p].key = key
  BY <1>1, <1>3 DEF Keeps
<1>6. \A p, q \in DOMAIN t : p < q => t[p].id < t[q].id
  BY <1>1, <1>4 DEF Keeps
<1>7. ASSUME NEW m \in 1..last, lg[m].key = key, lg[m].time > from
      PROVE  \E q \in DOMAIN t : t[q].id = m
  <2>1. PICK p \in DOMAIN buf : buf[p].id = m
    BY <1>7 DEF Keeps
  <2>2. buf[p].time = lg[m].time
    BY <2>1 DEF Keeps, Alike, Attributes
  <2>3. p \in places
    BY <2>2, <1>2, <1>7
  <2> QED BY <2>1, <2>3, <1>3
<1> QED BY <1>3, <1>5, <1>6, <1>7 DEF Keeps, t, places

\* Appending the newest event, in its partition and to the log.
LEMMA NewestKeeps ==
  ASSUME NEW buf, NEW key, NEW lg, NEW from, IsList(lg), Keeps(buf, key, lg, Len(lg), from),
         NEW e, NEW x, e.id = Len(lg) + 1, Alike(e, x)
  PROVE  Keeps(IF key = e.key THEN Append(buf, e) ELSE buf, key, Append(lg, x), Len(lg) + 1, from)
<1> DEFINE k == Len(lg)
           lg2 == Append(lg, x)
<1>1. k \in Nat /\ lg2[k + 1] = x /\ \A n \in 1..k : lg2[n] = lg[n]
  BY ListFacts
<1>2. x.key = e.key
  BY DEF Alike, Attributes
<1>3. IsList(buf) /\ Len(buf) \in Nat /\ DOMAIN buf = 1..Len(buf)
  BY ListFacts DEF Keeps
<1>4. \A p \in DOMAIN buf : buf[p].id \in 1..(k + 1) /\ Alike(buf[p], lg2[buf[p].id]) /\ buf[p].key = key
                            /\ buf[p].id \in 1..k
  BY <1>1 DEF Keeps
<1>5. \A m \in 1..k : lg2[m].key = key /\ lg2[m].time > from => \E p \in DOMAIN buf : buf[p].id = m
  BY <1>1 DEF Keeps
<1>6. \A p, q \in DOMAIN buf : p < q => buf[p].id < buf[q].id
  BY DEF Keeps
<1> HIDE DEF lg2, k
<1>7. \A m \in 1..(k + 1) : m = k + 1 \/ m \in 1..k
  BY <1>1
<1>8. CASE key # e.key
  <2>1. \A m \in 1..(k + 1) : lg2[m].key = key /\ lg2[m].time > from => \E p \in DOMAIN buf : buf[p].id = m
    BY <1>1, <1>2, <1>5, <1>7, <1>8
  <2> QED BY <2>1, <1>3, <1>4, <1>6, <1>8 DEF Keeps, lg2, k
<1>9. CASE key = e.key
  <2> DEFINE b == Append(buf, e)
  <2>1. /\ IsList(b) /\ DOMAIN b = 1..(Len(buf) + 1) /\ b[Len(buf) + 1] = e
        /\ \A n \in 1..Len(buf) : b[n] = buf[n]
    <3>1. IsList(b) /\ Len(b) = Len(buf) + 1 /\ b[Len(buf) + 1] = e /\ \A n \in 1..Len(buf) : b[n] = buf[n]
      BY <1>3, ListFacts
    <3> HIDE DEF b
    <3> QED BY <3>1, ListFacts
  <2> HIDE DEF b
  <2>2. \A p \in DOMAIN b : p = Len(buf) + 1 \/ p \in DOMAIN buf
    BY <1>3, <2>1
  <2>3. e.id = k + 1 /\ e.id \in 1..(k + 1) /\ Alike(e, lg2[e.id])
    BY <1>1 DEF k
  <2>4. \A p \in DOMAIN b : b[p].id \in 1..(k + 1) /\ Alike(b[p], lg2[b[p].id]) /\ b[p].key = key
    <3> SUFFICES ASSUME NEW p \in DOMAIN b
                 PROVE  b[p].id \in 1..(k + 1) /\ Alike(b[p], lg2[b[p].id]) /\ b[p].key = key
      OBVIOUS
    <3>1. CASE p = Len(buf) + 1
      BY <3>1, <2>1, <2>3, <1>9
    <3>2. CASE p \in DOMAIN buf
      BY <3>2, <2>1, <1>3, <1>4
    <3> QED BY <2>2, <3>1, <3>2
  <2>5. \A p, q \in DOMAIN b : p < q => b[p].id < b[q].id
    <3> SUFFICES ASSUME NEW p \in DOMAIN b, NEW q \in DOMAIN b, p < q PROVE b[p].id < b[q].id
      OBVIOUS
    <3>1. p \in 1..Len(buf) /\ b[p] = buf[p] /\ b[p].id \in 1..k
      BY <1>3, <2>1, <1>4
    <3>2. CASE q = Len(buf) + 1
      BY <3>1, <3>2, <2>1, <2>3, <1>1
    <3>3. CASE q \in DOMAIN buf
      BY <3>1, <3>3, <1>3, <1>6, <2>1
    <3> QED BY <2>2, <3>2, <3>3
  <2>6. ASSUME NEW m \in 1..(k + 1), lg2[m].key = key, lg2[m].time > from
        PROVE  \E p \in DOMAIN b : b[p].id = m
    <3>1. CASE m = k + 1
      <4>1. Len(buf) + 1 \in DOMAIN b
        BY <1>3, <2>1
      <4> QED BY <3>1, <4>1, <2>1, <2>3
    <3>2. CASE m \in 1..k
      <4>1. PICK p \in DOMAIN buf : buf[p].id = m
        BY <3>2, <2>6, <1>5
      <4>2. p \in DOMAIN b /\ b[p] = buf[p]
        BY <1>3, <2>1
      <4> QED BY <4>1, <4>2
    <3> QED BY <1>7, <3>1, <3>2
  <2>7. Keeps(b, key, lg2, k + 1, from)
    BY <2>1, <2>4, <2>5, <2>6 DEF Keeps
  <2> QED BY <2>7, <1>9 DEF b, lg2, k
<1> QED BY <1>8, <1>9

-----------------------------------------------------------------------------
(* The workers *)

\* An event as it is taken.
Arrived(e, now) ==
  /\ Attributes \subseteq DOMAIN e /\ {"id", "seen", "after"} \cap DOMAIN e = {}
  /\ e.key \in Keys /\ e.time \in Int /\ e.time <= now

Listed(r, rules) == \E n \in DOMAIN rules : rules[n] = r

\* A worker has what the event needs, and what a watched rule was to report is
\* reported or still to come.
Examines(e, buf, rules, lg, fd, now) ==
  /\ e.id \in DOMAIN lg /\ Alike(e, lg[e.id])
  /\ Keeps(buf, e.key, lg, e.id, lg[e.id].seen - Ticks[900])
  /\ IsList(rules) /\ \A r \in Watched : Listed(r, rules) \/ Told(r, e.id, lg, fd, now)

Works(x, lg, fd, now) ==
  /\ DOMAIN x = {"at", "event", "buf", "rules", "evidence"}
  /\ x.at \in {"idle", "buffer", "check", "fire"}
  /\ x.at = "buffer" => Arrived(x.event, now)
  /\ x.at \in {"check", "fire"} => Examines(x.event, x.buf, x.rules, lg, fd, now)
  /\ x.at = "fire" => x.rules # <<>>

LEMMA IdleWorks == \A lg, fd, now : Works(Idle, lg, fd, now)
  BY DEF Works, Idle

LEMMA WorksOn ==
  ASSUME NEW lg, NEW lg2, Grown(lg, lg2), NEW fd, NEW fd2, fd \subseteq fd2,
         NEW now, NEW now2, now2 \in Nat, now <= now2, IsLog(lg, now),
         NEW x, Works(x, lg, fd, now)
  PROVE  Works(x, lg2, fd2, now2)
<1>0. now \in Nat /\ IsList(lg) /\ \A n \in DOMAIN lg : lg[n].time \in Int /\ lg[n].seen \in Nat
  BY DEF IsLog
<1>1. x.at = "buffer" => Arrived(x.event, now2)
  <2>1. Arrived(x.event, now) => Arrived(x.event, now2)
    BY <1>0 DEF Arrived
  <2> QED BY <2>1 DEF Works
<1>2. ASSUME x.at \in {"check", "fire"} PROVE Examines(x.event, x.buf, x.rules, lg2, fd2, now2)
  <2> DEFINE e == x.event
             j == e.id
  <2>1. Examines(e, x.buf, x.rules, lg, fd, now)
    BY <1>2 DEF Works
  <2> HIDE DEF e
  <2>2. /\ j \in DOMAIN lg /\ Alike(e, lg[j]) /\ Keeps(x.buf, e.key, lg, j, lg[j].seen - Ticks[900])
        /\ IsList(x.rules) /\ \A r \in Watched : Listed(r, x.rules) \/ Told(r, j, lg, fd, now)
    BY <2>1 DEF Examines
  <2>3. /\ DOMAIN lg = 1..Len(lg) /\ Len(lg) \in Nat /\ DOMAIN lg2 = 1..Len(lg2) /\ Len(lg2) \in Nat
        /\ Len(lg) <= Len(lg2) /\ lg2[j] = lg[j]
    BY <2>2, ListFacts DEF Grown
  <2>4. j \in DOMAIN lg2 /\ j \in 0..Len(lg)
    BY <2>2, <2>3
  <2>5. lg[j].seen - Ticks[900] \in Int
    BY <1>0, <2>2, ArrivalsAssumption
  <2> DEFINE from == lg[j].seen - Ticks[900]
  <2>6. from <= from
    BY <2>5
  <2> HIDE DEF j
  <2>7. Keeps(x.buf, e.key, lg2, j, from)
    <3> HIDE DEF from
    <3> QED BY <1>0, <2>2, <2>4, <2>5, <2>6, KeepsStays DEF from
  <2>8. \A r \in Watched : Told(r, j, lg, fd, now) => Told(r, j, lg2, fd2, now2)
    BY <1>0, <2>2, ToldStays
  <2> QED BY <2>2, <2>3, <2>4, <2>7, <2>8 DEF Examines, j, e
<1> QED BY <1>1, <1>2 DEF Works

EventsKept ==
  /\ IsLog(log, engClock)
  /\ DOMAIN partitions = Keys
  /\ \A k \in Keys : Keeps(partitions[k], k, log, Len(log), engClock - Ticks[900])
  /\ Recent(partitions, log)

WorkersWork == DOMAIN worker = Workers /\ \A w \in Workers : Works(worker[w], log, fired, engClock)

\* A cooldown is there because of an incident.
CooldownsAreDue ==
  \A r, key : <<r, key>> \in DOMAIN cooldowns =>
    /\ cooldowns[<<r, key>>] \in Nat
    /\ \E f \in fired : f.rule = r /\ f.key = key /\ f.at = cooldowns[<<r, key>>]

FinishedAreTold == \A j \in finished : j \in DOMAIN log /\ \A r \in Watched : Told(r, j, log, fired, engClock)

AttacksInv == EventsKept /\ WorkersWork /\ CooldownsAreDue /\ FinishedAreTold

LEMMA InitAttacks == EngineInit => AttacksInv
<1> SUFFICES ASSUME EngineInit PROVE AttacksInv
  OBVIOUS
<1>1. IsList(<<>>) /\ Len(<<>>) = 0
  <2>1. <<>> \in Seq({})
    OBVIOUS
  <2> QED BY <2>1 DEF IsList
<1>2. IsLog(log, engClock)
  BY <1>1 DEF EngineInit, IsLog
<1>3. \A k \in Keys : Keeps(partitions[k], k, log, Len(log), engClock - Ticks[900])
  <2>1. \A k, from : Keeps(<<>>, k, <<>>, 0, from)
    BY <1>1 DEF Keeps
  <2> QED BY <1>1, <2>1 DEF EngineInit
<1>4. \A w \in Workers : Works(worker[w], log, fired, engClock)
  BY IdleWorks DEF EngineInit
<1>5. Recent(partitions, log)
  BY DEF EngineInit, Recent
<1> QED BY <1>2, <1>3, <1>4, <1>5 DEF EngineInit, AttacksInv, EventsKept, WorkersWork, CooldownsAreDue, FinishedAreTold

\* A rule that finds nothing, or rests, has reported what it was to report.
LEMMA PassedIsTold ==
  ASSUME NEW lg, NEW now, IsLog(lg, now), NEW fd, NEW e, NEW buf, NEW rules, Examines(e, buf, rules, lg, fd, now),
         NEW parts, DOMAIN parts = Keys, Recent(parts, lg),
         \A k \in Keys : Keeps(parts[k], k, lg, Len(lg), now - Ticks[900]),
         NEW r \in Watched, NEW graph,
         \/ Evidence(r, e, buf, MergedOf(parts), now, graph) = <<>>
         \/ \E f \in fd : /\ f.rule = r /\ f.at \in Nat /\ now < f.at + Ticks[300]
                          /\ f.key = RestsOn(r, e, Evidence(r, e, buf, MergedOf(parts), now, graph))
  PROVE  Told(r, e.id, lg, fd, now)
<1> DEFINE j == e.id
           found == Evidence(r, e, buf, MergedOf(parts), now, graph)
<1>1. /\ j \in DOMAIN lg /\ Alike(e, lg[j]) /\ Keeps(buf, e.key, lg, j, lg[j].seen - Ticks[900])
      /\ e.key = lg[j].key /\ e.user = lg[j].user
  BY DEF Examines, Alike, Attributes
<1>2. ASSUME found # <<>> PROVE \E f \in fd : Covers(f, r, RestsOn(r, e, found), lg[j].time)
  <2>1. PICK f \in fd : f.rule = r /\ f.at \in Nat /\ now < f.at + Ticks[300] /\ f.key = RestsOn(r, e, found)
    BY <1>2
  <2>2. lg[j].time \in Int /\ lg[j].time <= now /\ now \in Nat /\ Ticks[300] \in Nat
    BY <1>1, EngineAssumption DEF IsLog
  <2>3. lg[j].time - f.at < Ticks[300]
    BY <2>1, <2>2
  <2> QED BY <2>1, <2>3 DEF Covers
<1> HIDE DEF found
<1>3. ASSUME NEW s \in Sequences, NEW i \in 1..(j - 1), s.rule = r, Follows(s, i, j, lg)
      PROVE  \E f \in fd : Covers(f, r, <<lg[j].key>>, lg[j].time)
  <2>1. found # <<>>
    <3>1. \A t \in Sequences, m \in 1..(e.id - 1) :
            Follows(t, m, e.id, lg) => \A a, c, g : Evidence(t.rule, e, buf, a, c, g) # <<>>
      BY <1>1, SequencesAreEvident, ZenonT(30)
    <3>2. Evidence(s.rule, e, buf, MergedOf(parts), now, graph) # <<>>
      BY <3>1, <1>3
    <3> QED BY <3>2, <1>3 DEF found
  <2>2. r # "distributed_attack"
    BY <1>3 DEF Sequences
  <2>3. RestsOn(r, e, found) = <<lg[j].key>>
    <3>1. r \in Watched \ {"distributed_attack"}
      BY <2>2
    <3>2. RestsOn(r, e, found) = <<e.key>>
      BY <3>1, RestsOfWatched, ZenonT(30)
    <3> QED BY <1>1, <3>2
  <2> QED BY <1>2, <2>1, <2>3
<1>4. ASSUME r = "distributed_attack", IsSpread(j, lg, now)
      PROVE  \E f \in fd : Covers(f, r, <<lg[j].user>>, lg[j].time)
  <2>1. found # <<>>
    BY <1>1, <1>4, SpreadIsEvident DEF found
  <2>2. RestsOn(r, e, found) = <<lg[j].user>>
    BY <1>1, <1>4, RestsOfWatched
  <2> QED BY <1>2, <2>1, <2>2
<1> QED BY <1>3, <1>4 DEF Told

\* So has a rule that fires.
LEMMA FiredIsTold ==
  ASSUME NEW lg, NEW now, IsLog(lg, now), NEW fd, NEW e, e.id \in DOMAIN lg, Alike(e, lg[e.id]),
         NEW r \in Watched, NEW found,
         NEW f \in fd, f.rule = r, f.key = RestsOn(r, e, found), f.at = now
  PROVE  Told(r, e.id, lg, fd, now)
<1> DEFINE j == e.id
<1>1. e.key = lg[j].key /\ e.user = lg[j].user
  BY DEF Alike, Attributes
<1>2. lg[j].time - f.at < Ticks[300]
  <2>1. lg[j].time \in Int /\ lg[j].time <= now /\ now \in Nat
    BY DEF IsLog
  <2>2. Ticks[300] \in Nat /\ Ticks[300] # 0
    BY EngineAssumption, ArrivalsAssumption
  <2> QED BY <2>1, <2>2
<1>3. r # "distributed_attack" => f.key = <<lg[j].key>>
  BY <1>1, RestsOfWatched
<1>4. r = "distributed_attack" => f.key = <<lg[j].user>>
  BY <1>1, RestsOfWatched
<1>5. \A s \in Sequences : s.rule # "distributed_attack"
  BY DEF Sequences
<1> QED BY <1>2, <1>3, <1>4, <1>5 DEF Told, Covers

\* So has a rule that an event does not concern.
LEMMA OthersAreTold ==
  ASSUME NEW lg, NEW e, Alike(e, lg[e.id]), NEW fd, NEW now, NEW r \in Watched, ~Concerns(r, e)
  PROVE  Told(r, e.id, lg, fd, now)
<1> DEFINE j == e.id
<1>1. e.type = lg[j].type /\ e.user = lg[j].user
  BY DEF Alike, Attributes
<1>2. \A s \in Sequences : s.rule = r => \A i : ~Follows(s, i, j, lg)
  BY <1>1, WatchedConcern DEF Sequences, Follows
<1>3. r = "distributed_attack" => ~IsSpread(j, lg, now)
  BY <1>1, WatchedConcern DEF IsSpread
<1> QED BY <1>2, <1>3 DEF Told

-----------------------------------------------------------------------------
(* The steps *)

LEMMA SameEventsKept ==
  ASSUME EventsKept, log' = log, partitions' = partitions, engClock' \in Nat, engClock <= engClock'
  PROVE  EventsKept' /\ Grown(log, log')
<1>1. IsLog(log, engClock)'
  BY DEF EventsKept, IsLog
<1>2. Grown(log, log) /\ Len(log) \in 0..Len(log) /\ \A n \in DOMAIN log : log[n].time \in Int
  BY GrownItself, ListFacts DEF EventsKept, IsLog
<1>3. /\ engClock - Ticks[900] \in Int /\ engClock' - Ticks[900] \in Int
      /\ engClock - Ticks[900] <= engClock' - Ticks[900]
  BY ArrivalsAssumption DEF EventsKept, IsLog
<1>4. ASSUME NEW k \in Keys PROVE Keeps(partitions[k], k, log, Len(log), engClock' - Ticks[900])
  BY <1>2, <1>3, KeepsStays DEF EventsKept
<1>5. Recent(partitions, log)'
  BY DEF EventsKept, Recent
<1> QED BY <1>1, <1>2, <1>4, <1>5 DEF EventsKept

\* What another worker does leaves a worker with what it has.
LEMMA OthersWork ==
  ASSUME AttacksInv, NEW w \in Workers, Grown(log, log'), fired \subseteq fired',
         engClock' \in Nat, engClock <= engClock', DOMAIN worker' = Workers,
         \A v \in Workers \ {w} : worker'[v] = worker[v], Works(worker'[w], log', fired', engClock')
  PROVE  WorkersWork'
<1>1. ASSUME NEW v \in Workers PROVE Works(worker'[v], log', fired', engClock')
  <2>1. CASE v = w
    BY <2>1
  <2>2. CASE v # w
    <3>1. IsLog(log, engClock) /\ Works(worker[v], log, fired, engClock) /\ worker'[v] = worker[v]
      BY <2>2 DEF AttacksInv, EventsKept, WorkersWork
    <3> QED BY <3>1, WorksOn
  <2> QED BY <2>1, <2>2
<1> QED BY <1>1 DEF WorkersWork

LEMMA FinishedStayTold ==
  ASSUME AttacksInv, Grown(log, log'), fired \subseteq fired',
         engClock' \in Nat, engClock <= engClock', NEW j \in finished
  PROVE  j \in DOMAIN log' /\ \A r \in Watched : Told(r, j, log', fired', engClock')
<1>1. IsLog(log, engClock) /\ j \in DOMAIN log /\ engClock \in Nat
  BY DEF AttacksInv, EventsKept, FinishedAreTold, IsLog
<1>2. j \in DOMAIN log'
  BY <1>1, ListFacts DEF Grown
<1>3. ASSUME NEW r \in Watched PROVE Told(r, j, log', fired', engClock')
  <2>1. Told(r, j, log, fired, engClock)
    BY DEF AttacksInv, FinishedAreTold
  <2> QED BY <1>1, <2>1, ToldStays
<1> QED BY <1>2, <1>3

\* A step in which nothing arrives.
LEMMA CooldownsStayDue ==
  ASSUME CooldownsAreDue, cooldowns' = cooldowns, fired \subseteq fired'
  PROVE  CooldownsAreDue'
  BY ZenonT(30) DEF CooldownsAreDue

LEMMA ClockKeeps ==
  ASSUME AttacksInv, EngineTick
  PROVE  AttacksInv'
<1>0. engClock \in Nat
  BY DEF AttacksInv, EventsKept, IsLog
<1>1. /\ engClock' \in Nat /\ engClock <= engClock' /\ fired \subseteq fired'
      /\ UNCHANGED <<partitions, worker, cooldowns, log, finished, fired>>
  BY <1>0 DEF EngineTick
<1>2. EventsKept' /\ Grown(log, log')
  BY <1>1, SameEventsKept DEF AttacksInv
<1>3. ASSUME NEW v \in Workers PROVE Works(worker'[v], log', fired', engClock')
  <2>1. IsLog(log, engClock) /\ Works(worker[v], log, fired, engClock) /\ worker'[v] = worker[v]
    BY <1>1 DEF AttacksInv, EventsKept, WorkersWork
  <2> QED BY <2>1, <1>1, <1>2, WorksOn
<1>4. WorkersWork'
  BY <1>1, <1>3 DEF AttacksInv, WorkersWork
<1>5. CooldownsAreDue'
  BY <1>1, CooldownsStayDue DEF AttacksInv
<1>6. FinishedAreTold'
  BY <1>1, <1>2, FinishedStayTold DEF FinishedAreTold
<1> QED BY <1>2, <1>4, <1>5, <1>6 DEF AttacksInv

LEMMA RequestsKeep ==
  ASSUME AttacksInv, NEW kind, Request(kind)
  PROVE  AttacksInv'
<1>1. UNCHANGED <<engClock, partitions, worker, log, finished, fired>> /\ cooldowns' = <<>>
  BY DEF Request
<1>2. CooldownsAreDue'
  BY <1>1 DEF CooldownsAreDue
<1> QED BY <1>1, <1>2 DEF AttacksInv, EventsKept, WorkersWork, FinishedAreTold

\* A step of a worker that neither buffers nor reports.
LEMMA WorkerStepKeeps ==
  ASSUME AttacksInv, NEW w \in Workers, UNCHANGED <<engClock, partitions, log>>, fired \subseteq fired',
         DOMAIN worker' = Workers, \A v \in Workers \ {w} : worker'[v] = worker[v],
         Works(worker'[w], log, fired', engClock), CooldownsAreDue',
         \A j \in finished' : j \in finished \/ (j \in DOMAIN log /\ \A r \in Watched : Told(r, j, log, fired', engClock))
  PROVE  AttacksInv'
<1>0. engClock \in Nat
  BY DEF AttacksInv, EventsKept, IsLog
<1>1. engClock' \in Nat /\ engClock <= engClock'
  BY <1>0
<1>2. EventsKept' /\ Grown(log, log')
  BY <1>1, SameEventsKept DEF AttacksInv
<1>3. WorkersWork'
  BY <1>1, <1>2, OthersWork
<1>4. FinishedAreTold'
  <2>1. \A j \in finished : j \in DOMAIN log' /\ \A r \in Watched : Told(r, j, log', fired', engClock')
    BY <1>1, <1>2, FinishedStayTold
  <2> QED BY <2>1 DEF FinishedAreTold
<1> QED BY <1>2, <1>3, <1>4 DEF AttacksInv

LEMMA TailFacts ==
  ASSUME NEW s, IsList(s), s # <<>>
  PROVE  /\ IsList(Tail(s))
         /\ \A r : Listed(r, s) => r = Head(s) \/ Listed(r, Tail(s))
<1> PICK U : s \in Seq(U)
  BY DEF IsList
<1> DEFINE t == Tail(s)
<1>1. /\ t \in Seq(U) /\ Len(t) = Len(s) - 1 /\ Len(s) \in Nat /\ DOMAIN t = 1..Len(t) /\ DOMAIN s = 1..Len(s)
      /\ Head(s) = s[1] /\ \A n \in 1..Len(t) : t[n] = s[n + 1]
  OBVIOUS
<1> HIDE DEF t
<1>2. ASSUME NEW n \in DOMAIN s PROVE s[n] = Head(s) \/ \E m \in DOMAIN t : t[m] = s[n]
  <2>1. CASE n = 1
    BY <2>1, <1>1
  <2>2. CASE n # 1
    <3>1. n - 1 \in 1..Len(t) /\ (n - 1) + 1 = n
      BY <2>2, <1>1
    <3>2. t[n - 1] = s[n] /\ n - 1 \in DOMAIN t
      BY <3>1, <1>1
    <3> QED BY <3>2
  <2> QED BY <2>1, <2>2
<1> QED BY <1>1, <1>2 DEF IsList, Listed, t

\* The next rule: the others are still to come.
LEMMA RulesGoOn ==
  ASSUME NEW e, NEW buf, NEW rules, NEW lg, NEW fd, NEW fd2, fd \subseteq fd2, NEW now, IsLog(lg, now),
         Examines(e, buf, rules, lg, fd, now), rules # <<>>,
         Head(rules) \in Watched => Told(Head(rules), e.id, lg, fd2, now)
  PROVE  Examines(e, buf, Tail(rules), lg, fd2, now)
<1>1. /\ e.id \in DOMAIN lg /\ Alike(e, lg[e.id]) /\ Keeps(buf, e.key, lg, e.id, lg[e.id].seen - Ticks[900])
      /\ IsList(rules) /\ \A r \in Watched : Listed(r, rules) \/ Told(r, e.id, lg, fd, now)
  BY DEF Examines
<1>2. IsList(Tail(rules)) /\ \A r : Listed(r, rules) => r = Head(rules) \/ Listed(r, Tail(rules))
  BY <1>1, TailFacts
<1>3. ASSUME NEW r \in Watched, Told(r, e.id, lg, fd, now) PROVE Told(r, e.id, lg, fd2, now)
  <2>1. Grown(lg, lg) /\ now \in Nat /\ now <= now
    BY GrownItself DEF IsLog
  <2> QED BY <1>1, <1>3, <2>1, ToldStays
<1>4. \A r \in Watched : Listed(r, Tail(rules)) \/ Told(r, e.id, lg, fd2, now)
  BY <1>1, <1>2, <1>3
<1> QED BY <1>1, <1>2, <1>4 DEF Examines

LEMMA CheckingKeeps ==
  ASSUME AttacksInv, NEW w \in Workers, CheckRule(w)
  PROVE  AttacksInv'
<1> DEFINE x == worker[w]
           r == Head(x.rules)
<1>1. /\ IsLog(log, engClock) /\ Works(x, log, fired, engClock) /\ DOMAIN worker = Workers
      /\ CooldownsAreDue
      /\ DOMAIN partitions = Keys
      /\ \A k \in Keys : Keeps(partitions[k], k, log, Len(log), engClock - Ticks[900])
      /\ Recent(partitions, log)
  BY DEF AttacksInv, EventsKept, WorkersWork
<1>2. /\ x.at = "check" /\ x.rules # <<>> /\ Examines(x.event, x.buf, x.rules, log, fired, engClock)
      /\ DOMAIN x = {"at", "event", "buf", "rules", "evidence"}
      /\ UNCHANGED <<engClock, partitions, cooldowns, log, finished, fired>>
  BY <1>1 DEF CheckRule, Works
<1>3. PICK graph :
        LET found == Evidence(r, x.event, x.buf, Merged, engClock, graph)
            fires == found # <<>> /\ ~Rests(r, RestsOn(r, x.event, found))
        IN  worker' = [worker EXCEPT ![w] =
              IF fires THEN [@ EXCEPT !.at = "fire", !.evidence = found]
                       ELSE [@ EXCEPT !.rules = Tail(worker[w].rules)]]
  BY DEF CheckRule
<1> DEFINE found == Evidence(r, x.event, x.buf, Merged, engClock, graph)
           fires == found # <<>> /\ ~Rests(r, RestsOn(r, x.event, found))
           y == IF fires THEN [x EXCEPT !.at = "fire", !.evidence = found] ELSE [x EXCEPT !.rules = Tail(x.rules)]
<1>4. worker' = [worker EXCEPT ![w] = y]
  BY <1>3
<1>5. Works(y, log, fired, engClock)
  <2>1. CASE fires
    <3> HIDE DEF found
    <3>1. /\ y.at = "fire" /\ y.event = x.event /\ y.buf = x.buf /\ y.rules = x.rules
          /\ DOMAIN y = {"at", "event", "buf", "rules", "evidence"}
      BY <2>1, <1>2
    <3> HIDE DEF y, x
    <3> QED BY <3>1, <1>2 DEF Works
  <2>2. CASE ~fires
    <3>1. /\ y.at = "check" /\ y.event = x.event /\ y.buf = x.buf /\ y.rules = Tail(x.rules)
          /\ DOMAIN y = {"at", "event", "buf", "rules", "evidence"}
      <4> HIDE DEF fires
      <4> QED BY <2>2, <1>2
    <3>2. ASSUME r \in Watched PROVE Told(r, x.event.id, log, fired, engClock)
      <4>1. Merged = MergedOf(partitions)
        BY DEF Merged, MergedOf
      <4> DEFINE key == RestsOn(r, x.event, found)
      <4>2. found = <<>> \/ Rests(r, key)
        BY <2>2
      <4>3. ASSUME Rests(r, key)
            PROVE  \E f \in fired : f.rule = r /\ f.at \in Nat /\ engClock < f.at + Ticks[300] /\ f.key = key
        <5> HIDE DEF key, r, x
        <5> QED BY <4>3, <1>1 DEF Rests, CooldownsAreDue
      <4>4. \/ Evidence(r, x.event, x.buf, MergedOf(partitions), engClock, graph) = <<>>
            \/ \E f \in fired : /\ f.rule = r /\ f.at \in Nat /\ engClock < f.at + Ticks[300]
                                /\ f.key = RestsOn(r, x.event, Evidence(r, x.event, x.buf, MergedOf(partitions), engClock, graph))
        BY <4>1, <4>2, <4>3
      <4> HIDE DEF r, x, found, key, y
      <4> QED BY <1>1, <1>2, <3>2, <4>4, PassedIsTold
    <3> HIDE DEF x, y, found, fires
    <3>3. Examines(x.event, x.buf, Tail(x.rules), log, fired, engClock)
      BY <1>1, <1>2, <3>2, RulesGoOn
    <3> QED BY <3>1, <3>3 DEF Works
  <2> QED BY <2>1, <2>2
<1>6. DOMAIN worker' = Workers /\ (\A v \in Workers \ {w} : worker'[v] = worker[v]) /\ worker'[w] = y
  <2> HIDE DEF y
  <2> QED BY <1>1, <1>4
<1>7. CooldownsAreDue'
  BY <1>1, <1>2, CooldownsStayDue
<1>8. Works(worker'[w], log, fired', engClock) /\ fired \subseteq fired' /\ finished' = finished
  BY <1>2, <1>5, <1>6
<1> HIDE DEF x, y
<1> QED BY <1>2, <1>6, <1>7, <1>8, WorkerStepKeeps

LEMMA TakingKeeps ==
  ASSUME AttacksInv, NEW w \in Workers, TakeEvent(w)
  PROVE  AttacksInv'
<1>1. PICK a \in Arrivals, late \in 0..MaxLate :
        /\ late <= engClock
        /\ worker' = [worker EXCEPT ![w] = [Idle EXCEPT !.at = "buffer", !.event = Stamped(a, [time |-> engClock - late])]]
  BY DEF TakeEvent
<1> DEFINE e == Stamped(a, [time |-> engClock - late])
           y == [Idle EXCEPT !.at = "buffer", !.event = e]
<1>2. engClock \in Nat /\ DOMAIN worker = Workers
  BY DEF AttacksInv, EventsKept, WorkersWork, IsLog
<1>3. Arrived(e, engClock)
  <2>1. late \in Nat /\ engClock - late \in Int /\ engClock - late <= engClock
    BY <1>2, EngineAssumption
  <2>2. /\ {"key", "type", "user", "ip", "target"} \subseteq DOMAIN a /\ a.key \in Keys
        /\ {"id", "time", "seen", "after"} \cap DOMAIN a = {}
    BY ArrivalsAssumption
  <2>3. DOMAIN e = DOMAIN a \cup {"time"} /\ e.time = engClock - late /\ e.key = a.key
    BY <2>2 DEF Stamped
  <2> HIDE DEF e
  <2> QED BY <2>1, <2>2, <2>3 DEF Arrived, Attributes
<1> HIDE DEF e
<1>4. y.at = "buffer" /\ y.event = e /\ DOMAIN y = {"at", "event", "buf", "rules", "evidence"}
  BY DEF Idle
<1>5. worker' = [worker EXCEPT ![w] = y]
  BY <1>1 DEF e
<1> HIDE DEF y
<1>6. Works(y, log, fired, engClock)
  BY <1>3, <1>4 DEF Works
<1>7. DOMAIN worker' = Workers /\ (\A v \in Workers \ {w} : worker'[v] = worker[v]) /\ worker'[w] = y
  BY <1>2, <1>5
<1>8. /\ UNCHANGED <<engClock, partitions, cooldowns, log, finished, fired>> /\ fired \subseteq fired'
      /\ finished' = finished
  BY DEF TakeEvent
<1>9. CooldownsAreDue'
  BY <1>8, CooldownsStayDue DEF AttacksInv
<1>10. Works(worker'[w], log, fired', engClock)
  BY <1>6, <1>7, <1>8
<1> QED BY <1>7, <1>8, <1>9, <1>10, WorkerStepKeeps

LEMMA RulesAreListed ==
  ASSUME NEW e
  PROVE  IsList(RulesOn(e)) /\ \A r \in Watched : Concerns(r, e) => Listed(r, RulesOn(e))
<1>1. IsList(RuleOrder)
  <2>1. RuleOrder \in Seq({RuleOrder[n] : n \in 1..19})
    BY DEF RuleOrder
  <2> QED BY <2>1 DEF IsList
<1> DEFINE places == {n \in DOMAIN RuleOrder : Concerns(RuleOrder[n], e)}
<1>2. places \subseteq DOMAIN RuleOrder
  OBVIOUS
<1> HIDE DEF places
<1>3. IsList(Chosen(RuleOrder, places))
  BY <1>1, <1>2, ChosenOnes
<1>4. \A r \in Watched : Concerns(r, e) => Listed(r, RulesOn(e))
  BY WatchedIsListed DEF Listed
<1> QED BY <1>3, <1>4 DEF RulesOn, places

\* What the buffer becomes.
LEMMA BufferedEvents ==
  ASSUME EventsKept, NEW e, Arrived(e, engClock), NEW n, n = Stamped(e, [id |-> Len(log) + 1]),
         NEW x, x = Stamped(n, [seen |-> engClock, after |-> asked]),
         NEW kept, kept = [k \in Keys |-> Fresh(IF k = n.key THEN Append(partitions[k], n) ELSE partitions[k])]
  PROVE  /\ IsLog(Append(log, x), engClock) /\ Grown(log, Append(log, x))
         /\ \A k \in Keys : Keeps(kept[k], k, Append(log, x), Len(log) + 1, engClock - Ticks[900])
         /\ n.key \in Keys /\ n.id = Len(log) + 1 /\ Len(Append(log, x)) = Len(log) + 1
         /\ n.id \in DOMAIN Append(log, x) /\ Alike(n, Append(log, x)[n.id])
         /\ Append(log, x)[n.id].seen = engClock
         /\ Recent(kept, Append(log, x))
<1> DEFINE k1 == Len(log) + 1
           lg == Append(log, x)
<1>1. /\ IsLog(log, engClock) /\ IsList(log) /\ Len(log) \in Nat /\ engClock \in Nat /\ DOMAIN log = 1..Len(log)
      /\ \A k \in Keys : Keeps(partitions[k], k, log, Len(log), engClock - Ticks[900])
  BY ListFacts DEF EventsKept, IsLog
<1>2. /\ \A a \in Attributes : a \in DOMAIN e /\ a # "id" /\ a # "seen"
      /\ "id" \notin DOMAIN e /\ "seen" \notin DOMAIN e
      /\ e.key \in Keys /\ e.time \in Int /\ e.time <= engClock
  BY DEF Arrived, Attributes
<1>3. /\ n.id = k1 /\ \A a \in Attributes : a \in DOMAIN n /\ n[a] = e[a]
      /\ "seen" \notin DOMAIN n
  BY <1>2 DEF Stamped
<1>4. x.seen = engClock /\ \A a \in Attributes : x[a] = n[a]
  BY <1>3 DEF Stamped
<1>5. Alike(n, x)
  BY <1>4 DEF Alike
<1>6. n.key = e.key /\ x.key = e.key /\ x.time = e.time
  BY <1>3, <1>4 DEF Attributes
<1>7. /\ IsList(lg) /\ Len(lg) = k1 /\ lg[k1] = x /\ \A m \in 1..Len(log) : lg[m] = log[m]
      /\ DOMAIN lg = 1..k1
  <2>1. IsList(lg) /\ Len(lg) = k1 /\ lg[k1] = x /\ \A m \in 1..Len(log) : lg[m] = log[m]
    BY <1>1, ListFacts
  <2> HIDE DEF lg
  <2> QED BY <2>1, ListFacts
<1>8. Grown(log, lg)
  <2> HIDE DEF lg
  <2> QED BY <1>1, <1>7 DEF Grown
<1>9. IsLog(lg, engClock)
  <2> HIDE DEF lg
  <2>1. ASSUME NEW m \in DOMAIN lg
        PROVE  /\ lg[m].key \in Keys /\ lg[m].time \in Int /\ lg[m].seen \in Nat
               /\ lg[m].time <= lg[m].seen /\ lg[m].seen <= engClock
    <3>1. CASE m = k1
      BY <3>1, <1>1, <1>2, <1>4, <1>6, <1>7
    <3>2. CASE m # k1
      <4>1. m \in DOMAIN log /\ lg[m] = log[m]
        BY <3>2, <1>1, <1>7
      <4> QED BY <4>1, <1>1 DEF IsLog
    <3> QED BY <3>1, <3>2
  <2> QED BY <2>1, <1>1, <1>7 DEF IsLog
<1>10. ASSUME NEW k \in Keys PROVE Keeps(kept[k], k, lg, k1, engClock - Ticks[900])
  <2> DEFINE b == IF k = n.key THEN Append(partitions[k], n) ELSE partitions[k]
             from == engClock - Ticks[900]
  <2>1. Keeps(b, k, lg, k1, from)
    BY <1>1, <1>3, <1>5, NewestKeeps
  <2> HIDE DEF b, lg, k1
  <2>2. Keeps(Chosen(b, {m \in DOMAIN b : b[m].time > from}), k, lg, k1, from)
    BY <2>1, FreshOnesKeep
  <2>3. kept[k] = Fresh(b)
    BY DEF b
  <2>4. Fresh(b) = Chosen(b, {m \in DOMAIN b : b[m].time > from})
    BY DEF Fresh
  <2> QED BY <2>2, <2>3, <2>4
<1>11. n.id \in DOMAIN lg /\ Alike(n, lg[n.id]) /\ lg[n.id].seen = engClock
  <2> HIDE DEF lg
  <2> QED BY <1>1, <1>3, <1>4, <1>5, <1>7
<1>12. Recent(kept, lg)
  <2> HIDE DEF lg
  <2> SUFFICES ASSUME NEW k \in Keys, NEW p \in DOMAIN kept[k], NEW i \in DOMAIN lg
               PROVE  kept[k][p].time > lg[i].seen - Ticks[900]
    BY DEF Recent
  <2> DEFINE b == IF k = n.key THEN Append(partitions[k], n) ELSE partitions[k]
             places == {m \in DOMAIN b : b[m].time > engClock - Ticks[900]}
  <2>1. IsList(b)
    BY <1>1, ListFacts DEF Keeps
  <2>2. kept[k] = Chosen(b, places)
    BY DEF Fresh
  <2>3. places \subseteq DOMAIN b /\ \A m \in places : b[m].time > engClock - Ticks[900]
    OBVIOUS
  <2> HIDE DEF b, places
  <2>4. PICK m \in places : kept[k][p] = b[m]
    BY <2>1, <2>2, <2>3, ChosenOnes
  <2>5. kept[k][p].time > engClock - Ticks[900]
    BY <2>3, <2>4
  <2>6. kept[k][p].time \in Int
    <3>1. kept[k][p].id \in 1..k1 /\ Alike(kept[k][p], lg[kept[k][p].id])
      BY <1>10 DEF Keeps
    <3>2. kept[k][p].id \in DOMAIN lg
      BY <3>1, <1>7
    <3> QED BY <3>1, <3>2, <1>9 DEF IsLog, Alike, Attributes
  <2>7. lg[i].seen \in Nat /\ lg[i].seen <= engClock /\ Ticks[900] \in Nat
    BY <1>9, ArrivalsAssumption DEF IsLog
  <2> QED BY <2>5, <2>6, <2>7, <1>1
<1> QED BY <1>2, <1>3, <1>6, <1>7, <1>8, <1>9, <1>10, <1>11, <1>12

LEMMA BufferingKeeps ==
  ASSUME AttacksInv, NEW w \in Workers, BufferEvent(w)
  PROVE  AttacksInv'
<1>1. PICK n, x, kept :
        /\ n = Stamped(worker[w].event, [id |-> Len(log) + 1])
        /\ x = Stamped(n, [seen |-> engClock, after |-> asked])
        /\ kept = [k \in Keys |-> Fresh(IF k = n.key THEN Append(partitions[k], n) ELSE partitions[k])]
        /\ partitions' = kept /\ log' = Append(log, x)
        /\ \E y : /\ worker' = [worker EXCEPT ![w] = y]
                  /\ \/ y = Idle
                     \/ y = [at |-> "check", event |-> n, buf |-> kept[n.key], rules |-> RulesOn(n), evidence |-> <<>>]
  BY DEF BufferEvent
<1>2. PICK y : /\ worker' = [worker EXCEPT ![w] = y]
               /\ \/ y = Idle
                  \/ y = [at |-> "check", event |-> n, buf |-> kept[n.key], rules |-> RulesOn(n), evidence |-> <<>>]
  BY <1>1
<1>3. EventsKept /\ Arrived(worker[w].event, engClock) /\ DOMAIN worker = Workers /\ engClock \in Nat
  BY DEF AttacksInv, EventsKept, WorkersWork, Works, BufferEvent, IsLog
<1>4. /\ IsLog(log', engClock) /\ Grown(log, log')
      /\ \A k \in Keys : Keeps(kept[k], k, log', Len(log) + 1, engClock - Ticks[900])
      /\ n.key \in Keys /\ n.id = Len(log) + 1 /\ Len(log') = Len(log) + 1
      /\ n.id \in DOMAIN log' /\ Alike(n, log'[n.id])
      /\ log'[n.id].seen = engClock /\ Recent(kept, log')
  BY <1>1, <1>3, BufferedEvents
<1>5. UNCHANGED <<engClock, cooldowns, finished, fired>> /\ fired \subseteq fired' /\ engClock' \in Nat /\ engClock <= engClock'
  BY <1>3 DEF BufferEvent
<1>6. EventsKept'
  <2>1. partitions' = kept /\ DOMAIN kept = Keys
    BY <1>1
  <2>2. DOMAIN partitions' = Keys
    BY <2>1
  <2>3. \A k \in Keys : Keeps(partitions'[k], k, log', Len(log'), engClock' - Ticks[900])
    BY <2>1, <1>4, <1>5
  <2>4. IsLog(log', engClock')
    BY <1>4, <1>5
  <2>5. Recent(partitions, log)'
    BY <2>1, <1>4 DEF Recent
  <2> QED BY <2>2, <2>3, <2>4, <2>5 DEF EventsKept
<1>7. Works(y, log', fired', engClock')
  <2>1. CASE y = Idle
    BY <2>1, IdleWorks
  <2>2. CASE y = [at |-> "check", event |-> n, buf |-> kept[n.key], rules |-> RulesOn(n), evidence |-> <<>>]
    <3>1. \A r \in Watched : Listed(r, RulesOn(n)) \/ Told(r, n.id, log', fired', engClock')
      BY <1>4, RulesAreListed, OthersAreTold
    <3>2. Keeps(kept[n.key], n.key, log', n.id, log'[n.id].seen - Ticks[900])
      BY <1>4
    <3>3. IsList(RulesOn(n))
      BY RulesAreListed
    <3>4. Examines(n, kept[n.key], RulesOn(n), log', fired', engClock')
      BY <3>1, <3>2, <3>3, <1>4 DEF Examines
    <3>5. /\ y.at = "check" /\ y.event = n /\ y.buf = kept[n.key] /\ y.rules = RulesOn(n)
          /\ DOMAIN y = {"at", "event", "buf", "rules", "evidence"}
      BY <2>2
    <3> QED BY <3>4, <3>5 DEF Works
  <2> QED BY <1>2, <2>1, <2>2
<1>8. DOMAIN worker' = Workers /\ (\A v \in Workers \ {w} : worker'[v] = worker[v]) /\ worker'[w] = y
  BY <1>2, <1>3
<1>9. WorkersWork'
  BY <1>4, <1>5, <1>7, <1>8, OthersWork
<1>10. CooldownsAreDue'
  BY <1>5, CooldownsStayDue DEF AttacksInv
<1>11. FinishedAreTold'
  <2>1. \A j \in finished : j \in DOMAIN log' /\ \A r \in Watched : Told(r, j, log', fired', engClock')
    BY <1>4, <1>5, FinishedStayTold
  <2> QED BY <2>1, <1>5 DEF FinishedAreTold
<1> QED BY <1>6, <1>9, <1>10, <1>11 DEF AttacksInv

LEMMA FiringKeeps ==
  ASSUME AttacksInv, NEW w \in Workers, FireRule(w)
  PROVE  AttacksInv'
<1> DEFINE x == worker[w]
           r == Head(x.rules)
           key == RestsOn(r, x.event, x.evidence)
           y == [x EXCEPT !.at = "check", !.rules = Tail(x.rules), !.evidence = <<>>]
<1>1. PICK f : /\ fired' = fired \cup {f} /\ f.rule = r /\ f.key = key /\ f.at = engClock
               /\ cooldowns' = Resting(r, key)
               /\ worker' = [worker EXCEPT ![w] = y]
  <2>1. PICK sev :
          /\ cooldowns' = Resting(r, key)
          /\ Publish(w, [rule |-> r, key |-> key, events |-> EventsOf(x.evidence), titled |-> TRUE, severity |-> sev])
          /\ worker' = [worker EXCEPT ![w] = y]
    BY DEF FireRule
  <2> DEFINE g == [rule |-> r, key |-> key, events |-> EventsOf(x.evidence), severity |-> sev, filed |-> TRUE,
                   at |-> engClock, by |-> w, after |-> asked]
  <2>2. fired' = fired \cup {g}
    <3> HIDE DEF r, key, x, y
    <3> QED BY <2>1 DEF Publish
  <2>3. g.rule = r /\ g.key = key /\ g.at = engClock
    OBVIOUS
  <2> HIDE DEF g, r, key, x, y
  <2> QED BY <2>1, <2>2, <2>3
<1>2. /\ IsLog(log, engClock) /\ Works(x, log, fired, engClock) /\ DOMAIN worker = Workers /\ CooldownsAreDue
      /\ engClock \in Nat
  BY DEF AttacksInv, EventsKept, WorkersWork, IsLog
<1>3. /\ x.at = "fire" /\ x.rules # <<>> /\ Examines(x.event, x.buf, x.rules, log, fired, engClock)
      /\ DOMAIN x = {"at", "event", "buf", "rules", "evidence"}
      /\ UNCHANGED <<engClock, partitions, log, finished>>
  BY <1>2 DEF FireRule, Works
<1>4. /\ y.at = "check" /\ y.event = x.event /\ y.buf = x.buf /\ y.rules = Tail(x.rules)
      /\ DOMAIN y = {"at", "event", "buf", "rules", "evidence"}
  BY <1>3
<1> HIDE DEF y
<1>5. f \in fired' /\ fired \subseteq fired'
  BY <1>1
<1>6. r \in Watched => Told(r, x.event.id, log, fired', engClock)
  <2>1. x.event.id \in DOMAIN log /\ Alike(x.event, log[x.event.id])
    BY <1>3 DEF Examines
  <2>2. f.key = RestsOn(r, x.event, x.evidence) /\ f.rule = r /\ f.at = engClock
    BY <1>1
  <2> HIDE DEF r, x, key
  <2> QED BY <1>2, <1>5, <2>1, <2>2, FiredIsTold
<1>7. Works(y, log, fired', engClock)
  <2> HIDE DEF x
  <2>1. Examines(x.event, x.buf, Tail(x.rules), log, fired', engClock)
    BY <1>2, <1>3, <1>5, <1>6, RulesGoOn
  <2> QED BY <2>1, <1>4 DEF Works
<1>8. CooldownsAreDue'
  <2> HIDE DEF r, key, x
  <2>1. DOMAIN cooldowns' = DOMAIN cooldowns \cup {<<r, key>>}
    BY <1>1 DEF Resting
  <2>2. \A c \in DOMAIN cooldowns' : cooldowns'[c] = IF c = <<r, key>> THEN engClock ELSE cooldowns[c]
    BY <1>1, <2>1 DEF Resting
  <2>3. ASSUME NEW q, NEW k, <<q, k>> \in DOMAIN cooldowns'
        PROVE  /\ cooldowns'[<<q, k>>] \in Nat
               /\ \E g \in fired' : g.rule = q /\ g.key = k /\ g.at = cooldowns'[<<q, k>>]
    <3>1. CASE <<q, k>> = <<r, key>>
      <4>1. q = r /\ k = key /\ cooldowns'[<<q, k>>] = engClock
        BY <2>2, <2>3, <3>1
      <4> QED BY <4>1, <1>1, <1>2, <1>5
    <3>2. CASE <<q, k>> # <<r, key>>
      <4>1. <<q, k>> \in DOMAIN cooldowns /\ cooldowns'[<<q, k>>] = cooldowns[<<q, k>>]
        BY <2>1, <2>2, <2>3, <3>2
      <4> QED BY <4>1, <1>2, <1>5 DEF CooldownsAreDue
    <3> QED BY <3>1, <3>2
  <2> QED BY <2>3 DEF CooldownsAreDue
<1>9. DOMAIN worker' = Workers /\ (\A v \in Workers \ {w} : worker'[v] = worker[v]) /\ worker'[w] = y
  BY <1>1, <1>2
<1>10. Works(worker'[w], log, fired', engClock) /\ finished' = finished
  BY <1>3, <1>7, <1>9
<1> QED BY <1>3, <1>5, <1>8, <1>9, <1>10, WorkerStepKeeps

LEMMA YamlEventKeeps ==
  ASSUME AttacksInv, NEW w \in Workers, PublishYaml(w)
  PROVE  AttacksInv'
<1>1. /\ fired \subseteq fired' /\ UNCHANGED <<engClock, partitions, log, cooldowns>> /\ finished' = finished
      /\ worker' = [worker EXCEPT ![w] = Idle] /\ DOMAIN worker = Workers
  BY DEF PublishYaml, Publish, AttacksInv, WorkersWork
<1>2. DOMAIN worker' = Workers /\ (\A v \in Workers \ {w} : worker'[v] = worker[v]) /\ worker'[w] = Idle
  BY <1>1
<1>3. Works(worker'[w], log, fired', engClock)
  BY <1>2, IdleWorks
<1>4. CooldownsAreDue'
  BY <1>1, CooldownsStayDue DEF AttacksInv
<1> QED BY <1>1, <1>2, <1>3, <1>4, WorkerStepKeeps

LEMMA FinishingKeeps ==
  ASSUME AttacksInv, NEW w \in Workers, FinishEvent(w)
  PROVE  AttacksInv'
<1> DEFINE x == worker[w]
<1>1. /\ fired' = fired /\ fired \subseteq fired' /\ UNCHANGED <<engClock, partitions, log, cooldowns>>
      /\ finished' = finished \cup {x.event.id} /\ x.at = "check" /\ x.rules = <<>>
      /\ worker' = [worker EXCEPT ![w] = Idle] /\ DOMAIN worker = Workers
  BY DEF FinishEvent, AttacksInv, WorkersWork
<1>2. DOMAIN worker' = Workers /\ (\A v \in Workers \ {w} : worker'[v] = worker[v]) /\ worker'[w] = Idle
  BY <1>1
<1>3. Works(worker'[w], log, fired', engClock)
  BY <1>2, IdleWorks
<1>4. CooldownsAreDue'
  BY <1>1, CooldownsStayDue DEF AttacksInv
<1>5. x.event.id \in DOMAIN log /\ \A r \in Watched : Told(r, x.event.id, log, fired', engClock)
  <2>1. Works(x, log, fired, engClock)
    BY DEF AttacksInv, WorkersWork
  <2> HIDE DEF x
  <2>2. Examines(x.event, x.buf, x.rules, log, fired, engClock)
    BY <1>1, <2>1 DEF Works
  <2>3. \A r : ~Listed(r, x.rules)
    BY <1>1 DEF Listed
  <2> QED BY <1>1, <2>2, <2>3 DEF Examines
<1>6. \A j \in finished' : j \in finished \/ (j \in DOMAIN log /\ \A r \in Watched : Told(r, j, log, fired', engClock))
  BY <1>1, <1>5
<1> HIDE DEF x
<1> QED BY <1>1, <1>2, <1>3, <1>4, <1>6, WorkerStepKeeps

LEMMA AttacksStep == AttacksInv /\ [EngineNext]_engVars => AttacksInv'
<1> SUFFICES ASSUME AttacksInv, [EngineNext]_engVars PROVE AttacksInv'
  OBVIOUS
<1>1. CASE UNCHANGED engVars
  BY <1>1 DEF engVars, AttacksInv, EventsKept, WorkersWork, CooldownsAreDue, FinishedAreTold
<1>2. CASE EngineTick
  BY <1>2, ClockKeeps
<1>3. ASSUME NEW w \in Workers,
             TakeEvent(w) \/ BufferEvent(w) \/ CheckRule(w) \/ FireRule(w) \/ PublishYaml(w) \/ FinishEvent(w)
      PROVE  AttacksInv'
  BY <1>3, TakingKeeps, BufferingKeeps, CheckingKeeps, FiringKeeps, YamlEventKeeps, FinishingKeeps
<1>4. ASSUME NEW kind, Request(kind) PROVE AttacksInv'
  BY <1>4, RequestsKeep
<1> QED BY <1>1, <1>2, <1>3, <1>4 DEF EngineNext

LEMMA FinishedAreReported == AttacksInv => SequenceIsReported /\ SpreadIsReported
<1> SUFFICES ASSUME AttacksInv PROVE SequenceIsReported /\ SpreadIsReported
  OBVIOUS
<1>1. /\ \A j \in finished : j \in DOMAIN log /\ \A r \in Watched : Told(r, j, log, fired, engClock)
      /\ DOMAIN log = 1..Len(log) /\ Len(log) \in Nat
  BY ListFacts DEF AttacksInv, FinishedAreTold, EventsKept, IsLog
<1>2. SequenceIsReported
  <2> SUFFICES ASSUME NEW i \in DOMAIN log, NEW j \in DOMAIN log, NEW s \in Sequences, j \in finished,
                      Follows(s, i, j, log)
               PROVE  \E f \in fired : Covers(f, s.rule, <<log[j].key>>, log[j].time)
    BY DEF SequenceIsReported, Follows
  <2>1. s.rule \in Watched /\ i \in 1..(j - 1)
    BY <1>1 DEF Sequences, Watched, Follows
  <2>2. Told(s.rule, j, log, fired, engClock)
    BY <1>1, <2>1
  <2> QED BY <2>1, <2>2 DEF Told
<1>3. SpreadIsReported
  <2> SUFFICES ASSUME NEW j \in finished, IsSpread(j, log, engClock)
               PROVE  \E f \in fired : Covers(f, "distributed_attack", <<log[j].user>>, log[j].time)
    BY DEF SpreadIsReported, IsSpread, AttackedFrom, NoneIsWorded
  <2>1. Told("distributed_attack", j, log, fired, engClock)
    BY <1>1 DEF Watched
  <2> QED BY <2>1 DEF Told
<1> QED BY <1>2, <1>3

-------------------------------------------------------------------------------
(* YAML rules *)

\* The search through the stages of a YAML rule.
Found(U) == [ok : BOOLEAN, found : Seq(U)]
IsSearch(h, U, rule, e, buf) ==
  /\ h[0] = [ok |-> TRUE, found |-> <<>>]
  /\ \A n \in 0..Len(rule.sequence) : h[n] \in Found(U)
  /\ \A n \in 1..Len(rule.sequence) : h[n] = Yaml!MatchStage(h[n - 1], rule.sequence[n], e, buf, rule.window)

LEMMA OneStage ==
  ASSUME NEW U, NEW buf \in Seq(U), NEW acc \in Found(U), NEW stage, NEW e, NEW window
  PROVE  LET next == Yaml!MatchStage(acc, stage, e, buf, window)
             Fits(p) == Yaml!FitsStage(buf[p], stage, acc.found, e, window)
         IN  /\ next \in Found(U)
             /\ next.ok => /\ acc.ok
                           /\ \E p \in DOMAIN buf : /\ Fits(p) /\ \A q \in DOMAIN buf : Fits(q) => p <= q
                                                    /\ next.found = Append(acc.found, buf[p])
             /\ acc.ok /\ (\E p \in DOMAIN buf : Fits(p)) => next.ok
<1> DEFINE Fits(p) == Yaml!FitsStage(buf[p], stage, acc.found, e, window)
           fit == {m \in DOMAIN buf : Fits(m)}
           first == CHOOSE m \in fit : \A l \in fit : m <= l
           stopped == [acc EXCEPT !.ok = FALSE]
           longer == [acc EXCEPT !.found = Append(acc.found, buf[first])]
           next == Yaml!MatchStage(acc, stage, e, buf, window)
<1>1. next = IF ~acc.ok \/ fit = {} THEN stopped ELSE longer
  BY Zenon DEF Yaml!MatchStage
<1>2. stopped \in Found(U) /\ stopped.ok = FALSE
  BY DEF Found
<1>3. ASSUME fit # {} PROVE first \in fit /\ \A l \in fit : first <= l
  <2>1. fit \in SUBSET Nat
    OBVIOUS
  <2> HIDE DEF fit
  <2> QED BY <1>3, <2>1, Least
<1>4. ASSUME fit # {} PROVE longer \in Found(U) /\ longer.ok = acc.ok /\ longer.found = Append(acc.found, buf[first])
  <2>1. first \in DOMAIN buf
    <3> HIDE DEF first, Fits
    <3> QED BY <1>3, <1>4
  <2> HIDE DEF first
  <2>2. buf[first] \in U
    BY <2>1
  <2>3. acc.found \in Seq(U) /\ Append(acc.found, buf[first]) \in Seq(U)
    BY <2>2 DEF Found
  <2> QED BY <2>3 DEF Found
<1> HIDE DEF next, stopped, longer, first
<1>5. next \in Found(U)
  BY <1>1, <1>2, <1>4
<1>6. ASSUME next.ok
      PROVE  /\ acc.ok
             /\ \E p \in DOMAIN buf : /\ Fits(p) /\ \A q \in DOMAIN buf : Fits(q) => p <= q
                                      /\ next.found = Append(acc.found, buf[p])
  <2>1. acc.ok /\ fit # {} /\ next = longer
    BY <1>1, <1>2, <1>6
  <2>2. first \in fit /\ (\A l \in fit : first <= l) /\ next.found = Append(acc.found, buf[first])
    BY <1>3, <1>4, <2>1
  <2> HIDE DEF Fits
  <2> QED BY <2>1, <2>2
<1>7. ASSUME acc.ok, NEW p \in DOMAIN buf, Fits(p) PROVE next.ok
  <2>1. p \in fit
    BY <1>7
  <2>2. next = longer
    BY <1>1, <1>7, <2>1
  <2> QED BY <1>4, <1>7, <2>1, <2>2
<1> QED BY <1>5, <1>6, <1>7 DEF next

LEMMA Searching ==
  ASSUME NEW rule, IsList(rule.sequence), NEW e, NEW U, NEW buf \in Seq(U)
  PROVE  \E h : /\ IsSearch(h, U, rule, e, buf)
                /\ Yaml!EarlierStages(rule, e, buf) = h[Len(rule.sequence) - 1]
<1> DEFINE T == Found(U)
           k == Len(rule.sequence)
           base == [ok |-> TRUE, found |-> <<>>]
           next(acc, n) == Yaml!MatchStage(acc, rule.sequence[n], e, buf, rule.window)
           F == [n \in 1..k |-> [acc \in T |-> next(acc, n)]]
           body(h) == [n \in 0..k |-> IF n = 0 THEN base ELSE next(h[n - 1], n)]
           g == CHOOSE h : h = body(h)
<1>1. k \in Nat
  BY ListFacts
<1>2. ASSUME NEW acc \in T, NEW n \in 1..k PROVE next(acc, n) \in T
  BY OneStage
<1>3. F \in [1..k -> [T -> T]]
  <2> HIDE DEF next, T, k
  <2> QED BY <1>2
<1>4. \A n \in 1..k, acc \in T : F[n][acc] = next(acc, n)
  <2> HIDE DEF next, T, k
  <2> QED OBVIOUS
<1>5. base \in T
  <2>1. <<>> \in Seq(U)
    OBVIOUS
  <2> QED BY <2>1 DEF Found
<1>6. PICK f : IsRun(f, T, k, base, F)
  <2> HIDE DEF F, k, T, base
  <2> QED BY <1>1, <1>3, <1>5, Recursion
<1>7. f \in [0..k -> T] /\ f[0] = base /\ \A n \in 1..k : f[n] = next(f[n - 1], n)
  <2> HIDE DEF F, next, T, base, k
  <2>1. f \in [0..k -> T] /\ f[0] = base /\ \A n \in 1..k : f[n] = F[n][f[n - 1]]
    BY <1>6 DEF IsRun
  <2>2. \A n \in 1..k : n - 1 \in 0..k
    BY <1>1
  <2> QED BY <1>4, <2>1, <2>2
<1>8. f = body(f)
  <2> HIDE DEF next, T, base, k
  <2> QED BY <1>1, <1>7
<1>9. g = body(g)
  <2> HIDE DEF body
  <2> QED BY <1>8
<1>10. g[0] = base /\ \A n \in 1..k : g[n] = next(g[n - 1], n)
  <2>1. \A h : h = body(h) => h[0] = base /\ \A n \in 1..k : h[n] = next(h[n - 1], n)
    <3> HIDE DEF next, base, k
    <3> QED BY <1>1
  <2> HIDE DEF g, body, next, base, k
  <2> QED BY <2>1, <1>9
<1>11. Obeys(g, T, k, base, F)
  <2> HIDE DEF g, next, base, k, T, F
  <2> QED BY <1>4, <1>10 DEF Obeys
<1>12. \A n \in 0..k : g[n] \in T
  <2>1. \A n \in 0..k : g[n] = f[n]
    <3> HIDE DEF g, F, T, base, k
    <3> QED BY <1>1, <1>6, <1>11, OneRun
  <2> HIDE DEF g, T, k, base, next
  <2> QED BY <1>7, <2>1
<1>13. Yaml!EarlierStages(rule, e, buf) = g[k - 1]
  BY DEF Yaml!EarlierStages
<1>14. IsSearch(g, U, rule, e, buf)
  <2> HIDE DEF g
  <2> QED BY <1>10, <1>12 DEF IsSearch
<1> HIDE DEF g
<1> QED BY <1>13, <1>14

\* What was matched of the first stages.
IsMatch(t, n, rule, e, buf) ==
  /\ Len(t) = n
  /\ \A m \in 1..n :
       /\ \E p \in DOMAIN buf : t[m] = buf[p]
       /\ t[m] # e /\ t[m].src = e.src /\ e.time - t[m].time \in 0..rule.window
       /\ Yaml!Matches(t[m], rule.sequence[m].match)
       /\ m > 1 => /\ t[m].time >= t[m - 1].time
                   /\ Yaml!Limited(rule.sequence[m]) => t[m].time - t[m - 1].time <= rule.sequence[m].within

LEMMA MatchGrows ==
  ASSUME NEW U, NEW buf \in Seq(U), NEW rule, NEW e, NEW n \in Nat, NEW t \in Seq(U), IsMatch(t, n, rule, e, buf),
         NEW p \in DOMAIN buf, Yaml!FitsStage(buf[p], rule.sequence[n + 1], t, e, rule.window)
  PROVE  IsMatch(Append(t, buf[p]), n + 1, rule, e, buf)
<1> DEFINE u == Append(t, buf[p])
<1>1. Len(t) = n /\ Len(u) = n + 1 /\ u[n + 1] = buf[p] /\ \A m \in 1..n : u[m] = t[m]
  BY DEF IsMatch
<1>2. /\ buf[p] # e /\ buf[p].src = e.src /\ e.time - buf[p].time \in 0..rule.window
      /\ Yaml!Matches(buf[p], rule.sequence[n + 1].match)
      /\ t # <<>> =>
           /\ buf[p].time >= t[Len(t)].time
           /\ Yaml!Limited(rule.sequence[n + 1]) => buf[p].time - t[Len(t)].time <= rule.sequence[n + 1].within
  BY DEF Yaml!FitsStage, Yaml!Last
<1> HIDE DEF u
<1>3. ASSUME NEW m \in 1..n
      PROVE  /\ \E q \in DOMAIN buf : u[m] = buf[q]
             /\ u[m] # e /\ u[m].src = e.src /\ e.time - u[m].time \in 0..rule.window
             /\ Yaml!Matches(u[m], rule.sequence[m].match)
             /\ m > 1 => /\ u[m].time >= u[m - 1].time
                         /\ Yaml!Limited(rule.sequence[m]) => u[m].time - u[m - 1].time <= rule.sequence[m].within
  <2>1. u[m] = t[m] /\ (m > 1 => u[m - 1] = t[m - 1])
    BY <1>1
  <2> QED BY <2>1 DEF IsMatch
<1>4. n + 1 > 1 => t # <<>> /\ u[(n + 1) - 1] = t[Len(t)]
  BY <1>1
<1>5. ASSUME NEW m \in 1..(n + 1) PROVE m \in 1..n \/ m = n + 1
  OBVIOUS
<1>6. n + 1 > 1 => /\ u[n + 1].time >= u[(n + 1) - 1].time
                   /\ Yaml!Limited(rule.sequence[n + 1]) => u[n + 1].time - u[(n + 1) - 1].time <= rule.sequence[n + 1].within
  BY <1>1, <1>2, <1>4
<1>7. \E q \in DOMAIN buf : u[n + 1] = buf[q]
  BY <1>1
<1>8. u[n + 1] # e /\ u[n + 1].src = e.src /\ e.time - u[n + 1].time \in 0..rule.window
      /\ Yaml!Matches(u[n + 1], rule.sequence[n + 1].match)
  BY <1>1, <1>2
<1>9. IsMatch(u, n + 1, rule, e, buf)
  BY <1>1, <1>3, <1>5, <1>6, <1>7, <1>8 DEF IsMatch
<1> QED BY <1>9 DEF u

LEMMA SearchMatches ==
  ASSUME NEW U, NEW buf \in Seq(U), NEW rule, IsList(rule.sequence), NEW e, NEW h, IsSearch(h, U, rule, e, buf)
  PROVE  \A n \in 0..Len(rule.sequence) : h[n].ok => IsMatch(h[n].found, n, rule, e, buf)
<1> DEFINE k == Len(rule.sequence)
           S == {n \in 0..k : h[n].ok => IsMatch(h[n].found, n, rule, e, buf)}
<1>1. k \in Nat
  BY ListFacts
<1>2. 0 \in S
  <2>1. h[0].found = <<>>
    BY DEF IsSearch
  <2>2. IsMatch(h[0].found, 0, rule, e, buf)
    BY <2>1 DEF IsMatch
  <2> QED BY <1>1, <2>2
<1>3. ASSUME NEW n \in 1..k, n - 1 \in S PROVE n \in S
  <2> SUFFICES ASSUME h[n].ok PROVE IsMatch(h[n].found, n, rule, e, buf)
    OBVIOUS
  <2> DEFINE acc == h[n - 1]
  <2>0. n - 1 \in 0..k
    BY <1>1
  <2>1. acc \in Found(U) /\ h[n] = Yaml!MatchStage(acc, rule.sequence[n], e, buf, rule.window)
    BY <2>0 DEF IsSearch
  <2>2. acc.found \in Seq(U) /\ n - 1 \in Nat /\ (n - 1) + 1 = n
    BY <2>1, <1>1 DEF Found
  <2>3. (acc.ok => IsMatch(acc.found, n - 1, rule, e, buf))
    BY <1>3
  <2> HIDE DEF acc
  <2>4. /\ acc.ok
        /\ \E p \in DOMAIN buf : /\ Yaml!FitsStage(buf[p], rule.sequence[n], acc.found, e, rule.window)
                                 /\ h[n].found = Append(acc.found, buf[p])
    BY <2>1, OneStage
  <2> QED BY <2>2, <2>3, <2>4, MatchGrows
<1>4. \A n \in 0..k : n \in S
  <2> HIDE DEF S, k
  <2> QED BY <1>1, <1>2, <1>3, InductionUpTo
<1> QED BY <1>4

\* The search misses nothing when events are in order and no gap is limited: it is
\* never later than the events of an instance.
IsFree(rule, buf) ==
  /\ \A m, n \in DOMAIN buf : m < n => buf[m].time <= buf[n].time
  /\ \A n \in DOMAIN rule.sequence : ~Yaml!Limited(rule.sequence[n])

Precedes(some, k, rule, e, buf) ==
  \A n \in 1..k : /\ \E p \in DOMAIN buf : some[n] = buf[p]
                  /\ some[n] # e /\ some[n].src = e.src /\ e.time - some[n].time \in 0..rule.window
                  /\ Yaml!Matches(some[n], rule.sequence[n].match)
                  /\ n > 1 => some[n].time - some[n - 1].time >= 0

LEMMA SearchIsEarly ==
  ASSUME NEW U, NEW buf \in Seq(U), NEW rule, IsList(rule.sequence), NEW e, NEW h, IsSearch(h, U, rule, e, buf),
         IsFree(rule, buf), \A p \in DOMAIN buf : buf[p].time \in Int,
         NEW k \in Nat, k <= Len(rule.sequence), NEW some, Precedes(some, k, rule, e, buf)
  PROVE  h[k].ok
<1> DEFINE S == {n \in 0..k : /\ h[n].ok
                              /\ n > 0 => h[n].found[n].time <= some[n].time}
<1>1. Len(rule.sequence) \in Nat /\ DOMAIN rule.sequence = 1..Len(rule.sequence)
  BY ListFacts
<1>2. 0 \in S
  BY DEF IsSearch
<1>3. ASSUME NEW n \in 1..k, n - 1 \in S PROVE n \in S
  <2> DEFINE acc == h[n - 1]
  <2>0. n \in 1..Len(rule.sequence) /\ n - 1 \in 0..Len(rule.sequence) /\ ~Yaml!Limited(rule.sequence[n])
    <3>1. n \in 1..Len(rule.sequence) /\ n - 1 \in 0..Len(rule.sequence)
      BY <1>1
    <3>2. n \in DOMAIN rule.sequence
      BY <1>1, <3>1
    <3> QED BY <3>1, <3>2 DEF IsFree
  <2>1. acc \in Found(U) /\ h[n] = Yaml!MatchStage(acc, rule.sequence[n], e, buf, rule.window)
    BY <2>0 DEF IsSearch
  <2>2. acc.ok /\ (n > 1 => acc.found[n - 1].time <= some[n - 1].time)
    BY <1>3
  <2>3. IsMatch(acc.found, n - 1, rule, e, buf) /\ acc.found \in Seq(U)
    BY <2>0, <2>1, <2>2, SearchMatches DEF Found
  <2>4. PICK p \in DOMAIN buf : some[n] = buf[p]
    BY DEF Precedes
  <2>5. some[n].time \in Int
    BY <2>4
  <2>6. ASSUME n > 1 PROVE acc.found[n - 1].time \in Int /\ acc.found[n - 1].time <= some[n].time
    <3>1. n - 1 \in 1..k /\ n - 1 \in 1..(n - 1)
      BY <2>6
    <3>2. \E q \in DOMAIN buf : acc.found[n - 1] = buf[q]
      BY <2>3, <3>1 DEF IsMatch
    <3>3. \E q \in DOMAIN buf : some[n - 1] = buf[q]
      BY <3>1 DEF Precedes
    <3>4. acc.found[n - 1].time \in Int /\ some[n - 1].time \in Int
      BY <3>2, <3>3
    <3>5. some[n].time - some[n - 1].time >= 0
      BY <2>6 DEF Precedes
    <3>6. acc.found[n - 1].time <= some[n - 1].time
      BY <2>2, <2>6
    <3> HIDE DEF acc
    <3> QED BY <2>5, <3>4, <3>5, <3>6
  <2>7. Len(acc.found) = n - 1 /\ (acc.found # <<>> => n > 1)
    BY <2>3 DEF IsMatch
  <2> HIDE DEF acc
  <2>8. Yaml!FitsStage(buf[p], rule.sequence[n], acc.found, e, rule.window)
    <3>1. /\ buf[p] # e /\ buf[p].src = e.src /\ e.time - buf[p].time \in 0..rule.window
          /\ Yaml!Matches(buf[p], rule.sequence[n].match)
      BY <2>4 DEF Precedes
    <3>2. acc.found # <<>> => buf[p].time >= acc.found[Len(acc.found)].time
      BY <2>4, <2>5, <2>6, <2>7
    <3> QED BY <2>0, <3>1, <3>2 DEF Yaml!FitsStage, Yaml!Last
  <2>9. h[n].ok
    BY <2>1, <2>2, <2>8, OneStage
  <2>10. PICK q \in DOMAIN buf : q <= p /\ h[n].found = Append(acc.found, buf[q])
    <3>1. \E q \in DOMAIN buf :
            /\ \A r \in DOMAIN buf : Yaml!FitsStage(buf[r], rule.sequence[n], acc.found, e, rule.window) => q <= r
            /\ h[n].found = Append(acc.found, buf[q])
      BY <2>1, <2>9, OneStage
    <3> QED BY <2>8, <3>1
  <2>11. buf[q].time <= buf[p].time
    <3>1. q \in Nat /\ p \in Nat
      OBVIOUS
    <3>2. q < p \/ q = p
      BY <2>10, <3>1
    <3>3. buf[p].time \in Int
      OBVIOUS
    <3> QED BY <3>2, <3>3 DEF IsFree
  <2>12. h[n].found[n] = buf[q]
    BY <2>3, <2>7, <2>10
  <2>13. h[n].found[n].time <= some[n].time
    BY <2>4, <2>11, <2>12
  <2> QED BY <2>9, <2>13
<1>4. \A n \in 0..k : n \in S
  <2> HIDE DEF S
  <2> QED BY <1>2, <1>3, InductionUpTo
<1> QED BY <1>4

\* Events of one service have a path of one service.
IsOfOne(t, s) == IsList(t) /\ t # <<>> /\ \A n \in DOMAIN t : t[n].src = s

LEMMA PathOfOne ==
  ASSUME NEW rule, NEW t, NEW s, IsOfOne(t, s)
  PROVE  Yaml!BuildIncident(rule, t).path = <<s>>
<1> DEFINE T == Seq({s})
           k == Len(t)
           next(path, n) == IF \E m \in 1..(n - 1) : t[m].src = t[n].src THEN path ELSE Append(path, t[n].src)
           F == [n \in 1..k |-> [path \in T |-> next(path, n)]]
           body(h) == [n \in 0..k |-> IF n = 0 THEN <<>> ELSE next(h[n - 1], n)]
           g == CHOOSE h : h = body(h)
<1>0. IsList(t) /\ t # <<>> /\ \A n \in DOMAIN t : t[n].src = s
  BY DEF IsOfOne
<1>1. k \in Nat /\ k # 0 /\ DOMAIN t = 1..k
  BY <1>0, ListFacts
<1>2. ASSUME NEW path \in T, NEW n \in 1..k PROVE next(path, n) \in T
  <2>1. t[n].src = s
    BY <1>0, <1>1
  <2> QED BY <2>1
<1>3. F \in [1..k -> [T -> T]]
  <2> HIDE DEF next, T, k
  <2> QED BY <1>2
<1>4. \A n \in 1..k, path \in T : F[n][path] = next(path, n)
  <2> HIDE DEF next, T, k
  <2> QED OBVIOUS
<1>5. PICK f : IsRun(f, T, k, <<>>, F)
  <2>1. <<>> \in T
    OBVIOUS
  <2> HIDE DEF F, k, T
  <2> QED BY <1>1, <1>3, <2>1, Recursion
<1>6. f \in [0..k -> T] /\ f[0] = <<>> /\ \A n \in 1..k : f[n] = next(f[n - 1], n)
  <2> HIDE DEF F, next, T, k
  <2>1. f \in [0..k -> T] /\ f[0] = <<>> /\ \A n \in 1..k : f[n] = F[n][f[n - 1]]
    BY <1>5 DEF IsRun
  <2>2. \A n \in 1..k : n - 1 \in 0..k
    BY <1>1
  <2> QED BY <1>4, <2>1, <2>2
<1>7. f = body(f)
  <2> HIDE DEF next, T, k
  <2> QED BY <1>1, <1>6
<1>8. g = body(g)
  <2> HIDE DEF body
  <2> QED BY <1>7
<1>9. g[0] = <<>> /\ \A n \in 1..k : g[n] = next(g[n - 1], n)
  <2>1. \A h : h = body(h) => h[0] = <<>> /\ \A n \in 1..k : h[n] = next(h[n - 1], n)
    <3> HIDE DEF next, k
    <3> QED BY <1>1
  <2> HIDE DEF g, body, next, k
  <2> QED BY <2>1, <1>8
<1>10. next(<<>>, 1) = <<s>> /\ \A n \in 2..k : next(<<s>>, n) = <<s>>
  <2>1. \A n \in 2..k : 1 \in 1..(n - 1) /\ t[1].src = t[n].src
    BY <1>0, <1>1
  <2>2. t[1].src = s
    BY <1>0, <1>1
  <2> QED BY <2>1, <2>2
<1> DEFINE S == {n \in 0..k : n > 0 => g[n] = <<s>>}
<1>11. 0 \in S
  BY <1>1
<1>12. ASSUME NEW n \in 1..k, n - 1 \in S PROVE n \in S
  <2> HIDE DEF g, next
  <2>1. CASE n = 1
    <3>1. g[n] = next(g[0], n)
      BY <1>9, <2>1, <1>1
    <3> QED BY <1>9, <1>10, <2>1, <3>1
  <2>2. CASE n # 1
    <3>1. n \in 2..k /\ g[n - 1] = <<s>>
      BY <1>12, <2>2, <1>1
    <3> QED BY <1>9, <1>10, <3>1
  <2> QED BY <2>1, <2>2
<1>13. \A n \in 0..k : n \in S
  <2> HIDE DEF S, k
  <2> QED BY <1>1, <1>11, <1>12, InductionUpTo
<1>14. g[k] = <<s>>
  <2> HIDE DEF g
  <2> QED BY <1>1, <1>13
<1>15. Yaml!BuildIncident(rule, t).path = g[k]
  BY DEF Yaml!BuildIncident
<1> HIDE DEF g
<1> QED BY <1>14, <1>15

\* What the last stage adds.
LEMMA Evaluated ==
  ASSUME NEW rule, IsList(rule.sequence), NEW e, NEW buf
  PROVE  LET k == Len(rule.sequence)
             earlier == Yaml!EarlierStages(rule, e, buf)
             inTime == Yaml!Limited(rule.sequence[k]) /\ earlier.found # <<>> =>
                         e.time - earlier.found[Len(earlier.found)].time <= rule.sequence[k].within
         IN  Yaml!Evaluate(rule, e, buf) =
               IF /\ rule.sequence # <<>> /\ e.src # Absent /\ Yaml!Matches(e, rule.sequence[k].match)
                  /\ earlier.ok /\ inTime
               THEN Append(earlier.found, e) ELSE <<>>
  BY Zenon DEF Yaml!Evaluate, Yaml!Last

LEMMA IncidentsAreInstances ==
  ASSUME NEW rule, IsList(rule.sequence), rule.window \in Nat, NEW e, e.time \in Int,
         NEW buf, IsList(buf), \A p \in DOMAIN buf : buf[p].time \in Int,
         Yaml!Evaluate(rule, e, buf) # <<>>
  PROVE  IsList(Yaml!Evaluate(rule, e, buf)) /\ Yaml!Instance(rule, Yaml!Evaluate(rule, e, buf), e)
<1> DEFINE found == Yaml!Evaluate(rule, e, buf)
           k == Len(rule.sequence)
           earlier == Yaml!EarlierStages(rule, e, buf)
           t == earlier.found
<1> PICK U : buf \in Seq(U)
  BY DEF IsList
<1>1. PICK h : IsSearch(h, U, rule, e, buf) /\ earlier = h[k - 1]
  BY Searching
<1>2. /\ rule.sequence # <<>> /\ Yaml!Matches(e, rule.sequence[k].match) /\ earlier.ok
      /\ Yaml!Limited(rule.sequence[k]) /\ t # <<>> => e.time - t[Len(t)].time <= rule.sequence[k].within
      /\ found = Append(t, e)
  BY Evaluated, Zenon
<1> HIDE DEF found, earlier
<1>3. k \in Nat /\ k # 0 /\ k - 1 \in 0..k /\ DOMAIN rule.sequence = 1..k
  BY <1>2, ListFacts
<1>4. IsMatch(t, k - 1, rule, e, buf)
  BY <1>1, <1>2, <1>3, SearchMatches
<1>5. t \in Seq(U)
  <2>1. earlier \in Found(U)
    BY <1>1, <1>3 DEF IsSearch
  <2> QED BY <2>1 DEF Found
<1>6. Len(t) = k - 1
  BY <1>4 DEF IsMatch
<1>7. IsList(found) /\ Len(found) = k /\ found # <<>> /\ found[k] = e /\ DOMAIN found = 1..k /\ \A n \in 1..(k - 1) : found[n] = t[n]
  <2>1. IsList(t)
    BY <1>5 DEF IsList
  <2> HIDE DEF t, k
  <2>2. IsList(found) /\ Len(found) = k /\ found[k] = e /\ \A n \in 1..(k - 1) : found[n] = t[n]
    BY <1>2, <1>3, <1>6, <2>1, ListFacts
  <2> QED BY <2>2, <1>3, ListFacts
<1> HIDE DEF t, k
<1>8. ASSUME NEW n \in 1..(k - 1)
      PROVE  /\ Yaml!Matches(found[n], rule.sequence[n].match)
             /\ found[n].src = e.src /\ e.time - found[n].time \in 0..rule.window /\ found[n] # e
             /\ found[n].time \in Int
             /\ n > 1 => /\ found[n].time >= found[n - 1].time
                         /\ Yaml!Limited(rule.sequence[n]) => found[n].time - found[n - 1].time <= rule.sequence[n].within
  <2>1. found[n] = t[n] /\ (n > 1 => found[n - 1] = t[n - 1])
    BY <1>3, <1>7
  <2>2. \E p \in DOMAIN buf : t[n] = buf[p]
    BY <1>4 DEF IsMatch
  <2> QED BY <1>4, <2>1, <2>2 DEF IsMatch
<1>9. ASSUME NEW n \in DOMAIN found
      PROVE  /\ Yaml!Matches(found[n], rule.sequence[n].match)
             /\ found[n].src = e.src /\ e.time - found[n].time \in 0..rule.window
             /\ n < Len(found) => found[n] # e
             /\ n > 1 => /\ found[n].time - found[n - 1].time >= 0
                         /\ Yaml!Limited(rule.sequence[n]) => found[n].time - found[n - 1].time <= rule.sequence[n].within
  <2>1. CASE n = k
    <3>1. found[n] = e /\ ~(n < Len(found)) /\ e.time - e.time \in 0..rule.window
      BY <1>7, <1>3, <2>1
    <3>2. ASSUME n > 1
          PROVE  /\ e.time - found[n - 1].time >= 0
                 /\ Yaml!Limited(rule.sequence[n]) => e.time - found[n - 1].time <= rule.sequence[n].within
      <4>1. n - 1 \in 1..(k - 1) /\ n - 1 = Len(t)
        BY <1>3, <1>6, <2>1, <3>2
      <4>2. found[n - 1] = t[Len(t)] /\ t # <<>>
        BY <1>5, <1>7, <4>1
      <4>3. e.time - found[n - 1].time \in 0..rule.window
        BY <1>8, <4>1
      <4> QED BY <1>2, <2>1, <4>2, <4>3
    <3> QED BY <1>2, <2>1, <3>1, <3>2
  <2>2. CASE n # k
    <3>1. n \in 1..(k - 1)
      BY <1>3, <1>7, <2>2
    <3>2. n > 1 => n - 1 \in 1..(k - 1)
      BY <3>1, <1>3
    <3>3. found[n].time \in Int /\ (n > 1 => found[n - 1].time \in Int /\ found[n].time >= found[n - 1].time)
      BY <1>8, <3>1, <3>2
    <3>4. n > 1 => found[n].time - found[n - 1].time >= 0
      BY <3>3
    <3> QED BY <1>8, <3>1, <3>4
  <2> QED BY <2>1, <2>2
<1>10. found # <<>> /\ Len(found) = Len(rule.sequence) /\ Yaml!Last(found) = e
  BY <1>7 DEF Yaml!Last, k
<1>11. Yaml!Instance(rule, found, e)
  BY <1>9, <1>10 DEF Yaml!Instance
<1> QED BY <1>7, <1>11 DEF found

LEMMA NoInstanceIsMissed ==
  ASSUME NEW rule, IsList(rule.sequence), NEW e, e.src # Absent,
         NEW buf, IsList(buf), \A p \in DOMAIN buf : buf[p].time \in Int, IsFree(rule, buf),
         NEW some \in [DOMAIN rule.sequence -> {buf[p] : p \in DOMAIN buf} \cup {e}], Yaml!Instance(rule, some, e)
  PROVE  Yaml!Evaluate(rule, e, buf) # <<>>
<1> DEFINE k == Len(rule.sequence)
           earlier == Yaml!EarlierStages(rule, e, buf)
<1> PICK U : buf \in Seq(U)
  BY DEF IsList
<1>1. PICK h : IsSearch(h, U, rule, e, buf) /\ earlier = h[k - 1]
  BY Searching
<1>2. /\ some # <<>> /\ Len(some) = k /\ some[k] = e
      /\ \A n \in DOMAIN some :
           /\ Yaml!Matches(some[n], rule.sequence[n].match)
           /\ some[n].src = e.src /\ e.time - some[n].time \in 0..rule.window
           /\ n < k => some[n] # e
           /\ n > 1 => some[n].time - some[n - 1].time >= 0
  BY DEF Yaml!Instance, Yaml!Last
<1>3. k \in Nat /\ DOMAIN rule.sequence = 1..k /\ DOMAIN some = 1..k /\ (rule.sequence = <<>> <=> k = 0)
  BY ListFacts
<1>4. k # 0
  <2>1. CASE k = 0
    <3>1. DOMAIN some = {}
      BY <1>3, <2>1
    <3>2. some = <<>>
      BY <3>1
    <3> QED BY <1>2, <3>2
  <2> QED BY <2>1
<1>5. k - 1 \in Nat /\ k - 1 <= k /\ k \in 1..k /\ k - 1 \in 0..k
  BY <1>3, <1>4
<1>6. Precedes(some, k - 1, rule, e, buf)
  <2> SUFFICES ASSUME NEW n \in 1..(k - 1)
               PROVE  /\ \E p \in DOMAIN buf : some[n] = buf[p]
                      /\ some[n] # e /\ some[n].src = e.src /\ e.time - some[n].time \in 0..rule.window
                      /\ Yaml!Matches(some[n], rule.sequence[n].match)
                      /\ n > 1 => some[n].time - some[n - 1].time >= 0
    BY DEF Precedes
  <2>1. n \in DOMAIN some /\ n < k
    BY <1>3
  <2>2. some[n] \in {buf[p] : p \in DOMAIN buf} \cup {e}
    BY <1>3, <2>1
  <2> HIDE DEF k
  <2> QED BY <1>2, <2>1, <2>2
<1>7. earlier.ok
  <2> HIDE DEF earlier
  <2>1. h[k - 1].ok
    <3> DEFINE last == k - 1
    <3>1. last \in Nat /\ last <= Len(rule.sequence) /\ Precedes(some, last, rule, e, buf)
      BY <1>5, <1>6
    <3> HIDE DEF last
    <3>2. h[last].ok
      BY <1>1, <3>1, SearchIsEarly
    <3> QED BY <3>2 DEF last
  <2> QED BY <1>1, <2>1
<1>8. ~Yaml!Limited(rule.sequence[k]) /\ Yaml!Matches(e, rule.sequence[k].match)
  BY <1>2, <1>3, <1>5 DEF IsFree
<1>9. Yaml!Evaluate(rule, e, buf) = Append(earlier.found, e)
  <2> HIDE DEF earlier
  <2> QED BY <1>3, <1>4, <1>7, <1>8, Evaluated, Zenon DEF earlier
<1>10. IsList(earlier.found)
  <2>1. earlier \in Found(U)
    BY <1>1, <1>5 DEF IsSearch
  <2> QED BY <2>1 DEF Found, IsList
<1>11. Len(Append(earlier.found, e)) # 0
  <2> HIDE DEF earlier
  <2> QED BY <1>10, ListFacts
<1>12. Len(<<>>) = 0
  OBVIOUS
<1> HIDE DEF earlier
<1> QED BY <1>9, <1>11, <1>12

\* For any YAML rule and any buffer: an incident of the rule is an instance of it, in one
\* service and within the window; and of a buffer in time order, a rule that limits no
\* gap misses no instance.
THEOREM YamlRulesAreRight ==
  ASSUME NEW rule, IsList(rule.sequence), rule.window \in Nat,
         NEW e, e.time \in Int, e.src # Absent,
         NEW buf, IsList(buf), \A p \in DOMAIN buf : buf[p].time \in Int
  PROVE  Yaml!RuleIsRight(rule, e, buf)
<1> DEFINE found == Yaml!Evaluate(rule, e, buf)
           incident == Yaml!BuildIncident(rule, found)
<1>1. ASSUME found # <<>>
      PROVE  /\ Yaml!Instance(rule, found, e)
             /\ incident.mttd <= rule.window /\ incident.path = <<e.src>>
             /\ \A n \in DOMAIN incident.stages : Yaml!Matches(incident.stages[n][2], incident.stages[n][1].match)
  <2>1. IsList(found) /\ Yaml!Instance(rule, found, e)
    BY <1>1, IncidentsAreInstances
  <2> HIDE DEF found
  <2>2. /\ DOMAIN found = 1..Len(found) /\ Len(found) \in Nat /\ Len(found) # 0 /\ found[Len(found)] = e
        /\ \A n \in DOMAIN found : /\ Yaml!Matches(found[n], rule.sequence[n].match)
                                   /\ found[n].src = e.src /\ e.time - found[n].time \in 0..rule.window
    BY <1>1, <2>1, ListFacts DEF Yaml!Instance, Yaml!Last
  <2>3. incident.path = <<e.src>>
    <3>1. IsOfOne(found, e.src)
      BY <1>1, <2>1, <2>2 DEF IsOfOne
    <3>2. Yaml!BuildIncident(rule, found).path = <<e.src>>
      BY <3>1, PathOfOne
    <3> QED BY <3>2
  <2>4. \A n \in DOMAIN incident.stages : Yaml!Matches(incident.stages[n][2], incident.stages[n][1].match)
    <3>1. incident.stages = [n \in DOMAIN found |-> <<rule.sequence[n], found[n]>>]
      BY DEF Yaml!BuildIncident
    <3> HIDE DEF incident
    <3> QED BY <2>2, <3>1
  <2>5. incident.mttd <= rule.window
    <3> DEFINE lasted == e.time - found[1].time
    <3>1. lasted \in 0..rule.window
      BY <2>2
    <3>2. Yaml!Last(found) = e /\ Head(found) = found[1]
      <4>1. Yaml!Last(found) = e
        BY <2>2 DEF Yaml!Last
      <4> QED BY <2>1, <4>1 DEF IsList
    <3>3. incident.mttd = IF Yaml!Last(found).time - Head(found).time > 0 THEN Yaml!Last(found).time - Head(found).time ELSE 0
      BY DEF Yaml!BuildIncident
    <3> HIDE DEF incident
    <3> QED BY <3>1, <3>2, <3>3
  <2> QED BY <2>1, <2>3, <2>4, <2>5
<1>2. ASSUME \A m, n \in DOMAIN buf : m < n => buf[m].time <= buf[n].time,
             \A n \in DOMAIN rule.sequence : ~Yaml!Limited(rule.sequence[n]), found = <<>>
      PROVE  ~\E some \in [DOMAIN rule.sequence -> {buf[p] : p \in DOMAIN buf} \cup {e}] : Yaml!Instance(rule, some, e)
  <2>1. IsFree(rule, buf)
    BY <1>2 DEF IsFree
  <2> QED BY <1>2, <2>1, NoInstanceIsMissed
<1>3. Yaml!ToSet(buf) = {buf[p] : p \in DOMAIN buf}
  BY DEF Yaml!ToSet
<1> HIDE DEF found
<1> QED BY <1>1, <1>2, <1>3 DEF Yaml!RuleIsRight, found

-------------------------------------------------------------------------------
(* Severities *)

LEMMA Ranks ==
  /\ Rank("low") = 1 /\ Rank("medium") = 2 /\ Rank("high") = 3 /\ Rank("critical") = 4
  /\ Rank("CRITICAL") = 4
  BY DEF Rank, SeverityOrder

\* The labels that are computed can be compared, and several steps are at least "high".
LEMMA Severities ==
  ASSUME NEW r, NEW risk \in Int, NEW steps \in Nat, NEW critical \in BOOLEAN
  PROVE  /\ Rank(RuleSeverity(r)) \in 1..4 /\ Rank(Resolved(risk, steps, critical)) \in 1..4
         /\ steps >= 2 => Rank(Resolved(risk, steps, critical)) >= 3
<1>1. RuleSeverity(r) \in {"medium", "high", "critical", "CRITICAL"}
  BY DEF RuleSeverity
<1>2. Rank(RuleSeverity(r)) \in 1..4
  BY <1>1, Ranks
<1>3. CASE critical \/ risk > 150
  <2>1. Resolved(risk, steps, critical) = "critical"
    BY <1>3 DEF Resolved
  <2> QED BY <1>2, <2>1, Ranks
<1>4. CASE ~(critical \/ risk > 150) /\ (risk > 70 \/ steps >= 2)
  <2>1. Resolved(risk, steps, critical) = "high"
    BY <1>4 DEF Resolved
  <2> QED BY <1>2, <2>1, Ranks
<1>5. CASE ~(critical \/ risk > 150) /\ ~(risk > 70 \/ steps >= 2)
  <2>1. Resolved(risk, steps, critical) \in {"medium", "low"}
    BY <1>5 DEF Resolved
  <2> QED BY <1>2, <1>5, <2>1, Ranks
<1> QED BY <1>3, <1>4, <1>5

\* The severity of an incident of several events, and of a built-in rule.
LEMMA FloorHolds ==
  ASSUME NEW r, NEW risk \in Int, NEW steps \in Nat, NEW severity
  PROVE  /\ Rank(SeverityOf(r, risk, steps)) >= Rank(RuleSeverity(r))
         /\ steps >= 2 => /\ Rank(SeverityOf(r, risk, steps)) >= 3
                          /\ Rank(Floor(severity, Resolved(0, steps, FALSE))) >= 3
<1> DEFINE s == Resolved(risk, steps, r \in CriticalTechniques)
           t == Resolved(0, steps, FALSE)
<1>1. /\ Rank(RuleSeverity(r)) \in 1..4 /\ Rank(s) \in 1..4
      /\ steps >= 2 => Rank(s) >= 3
  <2>1. (r \in CriticalTechniques) \in BOOLEAN
    OBVIOUS
  <2> QED BY <2>1, Severities
<1>2. steps >= 2 => t = "high"
  BY DEF Resolved
<1>3. SeverityOf(r, risk, steps) = IF Rank(RuleSeverity(r)) >= Rank(s) THEN RuleSeverity(r) ELSE s
  BY DEF SeverityOf, Floor
<1>4. Floor(severity, t) = IF Rank(severity) >= Rank(t) THEN severity ELSE t
  BY DEF Floor
<1> HIDE DEF s, t
<1>5. Rank(SeverityOf(r, risk, steps)) >= Rank(RuleSeverity(r))
  BY <1>1, <1>3
<1>6. steps >= 2 => Rank(SeverityOf(r, risk, steps)) >= 3
  BY <1>1, <1>3
<1>7. steps >= 2 => Rank(Floor(severity, t)) >= 3
  BY <1>2, <1>4, Ranks
<1> QED BY <1>5, <1>6, <1>7 DEF t

RuleNames == {RuleOrder[n] : n \in DOMAIN RuleOrder}

LEMMA ShortLists ==
  ASSUME NEW x, NEW y
  PROVE  IsList(<<>>) /\ IsList(<<x>>) /\ IsList(<<x, y>>)
<1>1. <<>> \in Seq({x, y}) /\ <<x>> \in Seq({x, y}) /\ <<x, y>> \in Seq({x, y})
  OBVIOUS
<1> QED BY <1>1 DEF IsList

LEMMA RulesNamed ==
  RuleNames = {"service_lateral", "recon_to_exploit", "credential_compromise", "account_pivot",
     "full_kill_chain", "api_auth_combined", "distributed_attack", "data_exfiltration",
     "persistent_threat", "brute_force_attempt", "critical_exploit",
     "container_exec_after_exploit", "browser_sqli", "browser_path_traversal",
     "browser_brute_force", "browser_recon_scan", "browser_bf_to_exfil",
     "browser_recon_to_privesc", "browser_multi_hop"}
  BY DEF RuleNames, RuleOrder

\* Whatever a rule finds is a list of events.
LEMMA FindsAList ==
  ASSUME NEW r \in RuleNames, NEW e, NEW buf, IsList(buf), NEW all, IsList(all), NEW now, NEW graph
  PROVE  IsList(Evidence(r, e, buf, all, now, graph))
<1> DEFINE found == Evidence(r, e, buf, all, now, graph)
<1> SUFFICES IsList(found)
  OBVIOUS
<1>1. IsList(<<>>) /\ \A x, y : IsList(<<x>>) /\ IsList(<<x, y>>)
  BY ShortLists
<1>2. \A s : IsList(LastWith(e, s))
  BY <1>1 DEF LastWith
<1>3. ASSUME NEW s, IsList(s), NEW S PROVE IsList(Types(S, s))
  <2>1. {n \in DOMAIN s : s[n].type \in S} \subseteq DOMAIN s
    OBVIOUS
  <2> QED BY <1>3, <2>1, ChosenOnes DEF Types
<1>4. IsList(OfActor(buf, e))
  <2>1. {n \in DOMAIN buf : buf[n].key = e.key /\ e.key # Unknown} \subseteq DOMAIN buf
    OBVIOUS
  <2> QED BY <2>1, ChosenOnes DEF OfActor
<1>5. ASSUME NEW site, NEW seconds PROVE IsList(BrowserWindow(buf, site, now, seconds))
  <2>1. {n \in DOMAIN buf : /\ buf[n].site = site /\ buf[n].layer = "browser-agent"
                            /\ now - buf[n].time <= Ticks[seconds]} \subseteq DOMAIN buf
    OBVIOUS
  <2> QED BY <2>1, ChosenOnes DEF BrowserWindow
<1>6. ASSUME NEW s, IsList(s), NEW x PROVE IsList(Append(s, x))
  BY <1>6, ListFacts
<1>7. \A seconds : IsList(BrowserBruteForce(e, buf, now, seconds))
  BY <1>1, <1>3, <1>5 DEF BrowserBruteForce
<1>8. \A seconds, enough : IsList(BrowserProbes(e, buf, now, seconds, enough))
  BY <1>1, <1>5 DEF BrowserProbes
<1>9. IsList(DistributedAttack(e, all))
  <2>1. {n \in DOMAIN all : all[n].user = e.user} \subseteq DOMAIN all
    OBVIOUS
  <2> QED BY <1>1, <2>1, ChosenOnes DEF DistributedAttack
<1>10. CASE r \in {"service_lateral", "recon_to_exploit"}
  <2>1. found \in {ServiceLateral(e, buf, graph), ReconToExploit(e, buf)}
    BY <1>10 DEF Evidence
  <2>2. IsList(ServiceLateral(e, buf, graph))
    BY <1>1 DEF ServiceLateral
  <2>3. IsList(ReconToExploit(e, buf))
    BY <1>1 DEF ReconToExploit
  <2> HIDE DEF found
  <2> QED BY <2>1, <2>2, <2>3
<1>11. CASE r \in {"credential_compromise", "account_pivot", "data_exfiltration", "container_exec_after_exploit"}
  <2>1. found \in {CredentialCompromise(e, buf), AccountPivot(e, buf), DataExfiltration(e, buf), ContainerExec(e, buf, now)}
    BY <1>11 DEF Evidence
  <2>2. /\ IsList(CredentialCompromise(e, buf)) /\ IsList(AccountPivot(e, buf))
        /\ IsList(DataExfiltration(e, buf)) /\ IsList(ContainerExec(e, buf, now))
    BY <1>1, <1>2 DEF CredentialCompromise, AccountPivot, DataExfiltration, ContainerExec
  <2> HIDE DEF found
  <2> QED BY <2>1, <2>2
<1>12. CASE r \in {"full_kill_chain", "api_auth_combined", "persistent_threat", "critical_exploit"}
  <2>1. found \in {FullKillChain(e, buf), ApiAuthCombined(e, buf), PersistentThreat(e, buf), CriticalExploitAttempt(e, buf)}
    BY <1>12 DEF Evidence
  <2>2. /\ IsList(FullKillChain(e, buf)) /\ IsList(ApiAuthCombined(e, buf)) /\ IsList(PersistentThreat(e, buf))
    BY <1>1, <1>4 DEF FullKillChain, ApiAuthCombined, PersistentThreat
  <2>3. IsList(CriticalExploitAttempt(e, buf))
    BY <1>1, <1>3, <1>4 DEF CriticalExploitAttempt
  <2> HIDE DEF found
  <2> QED BY <2>1, <2>2, <2>3
<1>13. CASE r \in {"distributed_attack", "brute_force_attempt", "browser_sqli", "browser_path_traversal"}
  <2>1. found \in {DistributedAttack(e, all), <<e>>}
    BY <1>13 DEF Evidence
  <2> HIDE DEF found
  <2> QED BY <2>1, <1>1, <1>9
<1>14. CASE r \in {"browser_brute_force", "browser_recon_scan", "browser_multi_hop"}
  <2>1. \/ found = BrowserBruteForce(e, buf, now, 60)
        \/ found = BrowserProbes(e, buf, now, 30, ManyTargets) \/ found = BrowserProbes(e, buf, now, 120, 3)
    BY <1>14 DEF Evidence
  <2> HIDE DEF found
  <2> QED BY <2>1, <1>7, <1>8
<1>15. CASE r \in {"browser_bf_to_exfil", "browser_recon_to_privesc"}
  <2> DEFINE failures == BrowserBruteForce(e, buf, now, 300)
             probes == BrowserProbes(e, buf, now, 180, ManyTargets)
  <2>1. found \in {<<>>, Append(failures, e), Append(probes, e)}
    BY <1>15 DEF Evidence
  <2>2. IsList(failures) /\ IsList(probes)
    BY <1>7, <1>8
  <2>3. IsList(Append(failures, e)) /\ IsList(Append(probes, e))
    <3> HIDE DEF failures, probes
    <3> QED BY <2>2, <1>6
  <2> HIDE DEF found, failures, probes
  <2> QED BY <2>1, <2>3, <1>1
<1> HIDE DEF found
<1> QED BY <1>10, <1>11, <1>12, <1>13, <1>14, <1>15, RulesNamed

\* What the earlier stages of a YAML rule match is a list, too.
LEMMA StagesFindAList ==
  ASSUME NEW rule, IsList(rule.sequence), rule.sequence # <<>>, NEW e, NEW buf, IsList(buf)
  PROVE  IsList(Yaml!EarlierStages(rule, e, buf).found)
<1> PICK U : buf \in Seq(U)
  BY DEF IsList
<1>1. PICK h : IsSearch(h, U, rule, e, buf) /\ Yaml!EarlierStages(rule, e, buf) = h[Len(rule.sequence) - 1]
  BY Searching
<1>2. Len(rule.sequence) - 1 \in 0..Len(rule.sequence)
  BY ListFacts
<1>3. h[Len(rule.sequence) - 1].found \in Seq(U)
  BY <1>1, <1>2 DEF IsSearch, Found
<1> QED BY <1>1, <1>3 DEF IsList

LEMMA YamlFindsAList ==
  ASSUME NEW rule, IsList(rule.sequence), NEW e, NEW buf, IsList(buf)
  PROVE  IsList(Yaml!Evaluate(rule, e, buf))
<1> DEFINE earlier == Yaml!EarlierStages(rule, e, buf)
<1>1. Yaml!Evaluate(rule, e, buf) # <<>> => rule.sequence # <<>> /\ Yaml!Evaluate(rule, e, buf) = Append(earlier.found, e)
  BY DEF Yaml!Evaluate
<1>2. IsList(<<>>)
  BY ShortLists
<1>3. CASE rule.sequence # <<>>
  <2>1. IsList(earlier.found)
    BY <1>3, StagesFindAList
  <2>2. IsList(Append(earlier.found, e))
    <3> HIDE DEF earlier
    <3> QED BY <2>1, ListFacts
  <2> HIDE DEF earlier
  <2> QED BY <1>1, <1>2, <2>2
<1>4. CASE rule.sequence = <<>>
  BY <1>1, <1>2, <1>4
<1> QED BY <1>3, <1>4

LEMMA EventsAreFew ==
  ASSUME NEW s, IsList(s)
  PROVE  Len(s) \in Nat /\ (Cardinality(EventsOf(s)) >= 2 => Len(s) >= 2)
<1>1. Len(s) \in Nat /\ DOMAIN s = 1..Len(s)
  BY ListFacts
<1>2. CASE Len(s) = 0
  <2>1. EventsOf(s) = {}
    BY <1>1, <1>2 DEF EventsOf
  <2> QED BY <1>1, <2>1, FS_EmptySet
<1>3. CASE Len(s) = 1
  <2>1. EventsOf(s) = {s[1].id}
    BY <1>1, <1>3 DEF EventsOf
  <2>2. Cardinality({s[1].id}) = 1
    BY FS_Singleton
  <2> QED BY <1>1, <2>1, <2>2
<1> QED BY <1>1, <1>2, <1>3

-------------------------------------------------------------------------------

\* What a worker holds: rules of the engine, and the list of what it found.
Holds(x) ==
  /\ x.at \in {"check", "fire"} => \A n \in DOMAIN x.rules : x.rules[n] \in RuleNames
  /\ x.at = "fire" => IsList(x.evidence)

\* The incident is as severe as it must be.
IsSevere(f) ==
  /\ Cardinality(f.events) >= 2 => Rank(f.severity) >= 3
  /\ f.filed => Rank(f.severity) >= Rank(RuleSeverity(f.rule))

AllSevere == \A f \in fired : IsSevere(f)

SeverityInv == AllSevere /\ \A w \in Workers : Holds(worker[w])

LEMMA InitSeverity == EngineInit => SeverityInv
  BY DEF EngineInit, SeverityInv, AllSevere, Holds, Idle

LEMMA SeverityInvHolds == SeverityInv => SeverityHolds
  BY DEF SeverityInv, AllSevere, IsSevere, SeverityHolds, OfBuiltIns

\* A step of one worker that makes no incident, or one.
LEMMA OneWorker ==
  ASSUME SeverityInv, NEW w \in Workers, NEW y, worker' = [worker EXCEPT ![w] = y], DOMAIN worker = Workers,
         Holds(y), \A f \in fired' : f \in fired \/ IsSevere(f)
  PROVE  SeverityInv'
<1>1. \A v \in Workers : worker'[v] = IF v = w THEN y ELSE worker[v]
  OBVIOUS
<1>2. \A v \in Workers : Holds(worker'[v])
  BY <1>1 DEF SeverityInv
<1>3. AllSevere'
  BY DEF SeverityInv, AllSevere
<1> QED BY <1>2, <1>3 DEF SeverityInv

LEMMA IdleHolds == Holds(Idle)
  BY DEF Holds, Idle

LEMMA TakingLabels ==
  ASSUME SeverityInv, DOMAIN worker = Workers, NEW w \in Workers, TakeEvent(w)
  PROVE  SeverityInv'
<1>1. PICK e : worker' = [worker EXCEPT ![w] = [Idle EXCEPT !.at = "buffer", !.event = e]]
  BY DEF TakeEvent
<1>2. Holds([Idle EXCEPT !.at = "buffer", !.event = e])
  BY DEF Holds, Idle
<1>3. fired' = fired
  BY DEF TakeEvent
<1> QED BY <1>1, <1>2, <1>3, OneWorker

LEMMA RulesOnNamed == \A e : \A n \in DOMAIN RulesOn(e) : RulesOn(e)[n] \in RuleNames
<1> SUFFICES ASSUME NEW e PROVE \A n \in DOMAIN RulesOn(e) : RulesOn(e)[n] \in RuleNames
  OBVIOUS
<1> DEFINE places == {n \in DOMAIN RuleOrder : Concerns(RuleOrder[n], e)}
<1>1. places \subseteq DOMAIN RuleOrder
  OBVIOUS
<1>2. IsList(RuleOrder)
  <2>1. RuleOrder \in Seq({RuleOrder[n] : n \in 1..19})
    BY DEF RuleOrder
  <2> QED BY <2>1 DEF IsList
<1>3. RulesOn(e) = Chosen(RuleOrder, places)
  BY DEF RulesOn
<1> HIDE DEF places
<1> QED BY <1>1, <1>2, <1>3, ChosenOnes DEF RuleNames

LEMMA BufferingLabels ==
  ASSUME SeverityInv, DOMAIN worker = Workers, NEW w \in Workers, BufferEvent(w)
  PROVE  SeverityInv'
<1>1. PICK y : /\ worker' = [worker EXCEPT ![w] = y]
               /\ \/ y = Idle
                  \/ \E e, b : y = [at |-> "check", event |-> e, buf |-> b, rules |-> RulesOn(e), evidence |-> <<>>]
  BY Zenon DEF BufferEvent
<1>2. Holds(y)
  <2>1. CASE y = Idle
    BY <2>1, IdleHolds
  <2>2. ASSUME NEW e, NEW b, y = [at |-> "check", event |-> e, buf |-> b, rules |-> RulesOn(e), evidence |-> <<>>]
        PROVE  Holds(y)
    <3>1. y.at = "check" /\ y.rules = RulesOn(e)
      BY <2>2
    <3> QED BY <3>1, RulesOnNamed DEF Holds
  <2> QED BY <1>1, <2>1, <2>2
<1>3. fired' = fired
  BY DEF BufferEvent
<1> QED BY <1>1, <1>2, <1>3, OneWorker

\* The rules that are left.
LEMMA TailNamed ==
  ASSUME NEW s, IsList(s), s # <<>>, \A n \in DOMAIN s : s[n] \in RuleNames
  PROVE  Head(s) \in RuleNames /\ \A n \in DOMAIN Tail(s) : Tail(s)[n] \in RuleNames
<1> PICK U : s \in Seq(U)
  BY DEF IsList
<1>1. /\ Len(s) \in Nat /\ Len(s) # 0 /\ DOMAIN s = 1..Len(s) /\ Head(s) = s[1]
      /\ DOMAIN Tail(s) = 1..(Len(s) - 1) /\ \A n \in DOMAIN Tail(s) : Tail(s)[n] = s[n + 1]
  OBVIOUS
<1> QED BY <1>1

\* What a worker that examines an event has.
LEMMA Examining ==
  ASSUME AttacksInv, NEW w \in Workers, worker[w].at \in {"check", "fire"}
  PROVE  /\ DOMAIN worker[w] = {"at", "event", "buf", "rules", "evidence"}
         /\ IsList(worker[w].buf) /\ IsList(worker[w].rules) /\ IsList(Merged)
<1>1. Works(worker[w], log, fired, engClock)
  BY DEF AttacksInv, WorkersWork
<1>2. IsList(worker[w].buf) /\ IsList(worker[w].rules) /\ DOMAIN worker[w] = {"at", "event", "buf", "rules", "evidence"}
  BY <1>1 DEF Works, Examines, Keeps
<1>3. DOMAIN partitions = Keys /\ \A k \in Keys : IsList(partitions[k])
  BY DEF AttacksInv, EventsKept, Keeps
<1>4. Merged = MergedOf(partitions)
  BY DEF Merged, MergedOf
<1> QED BY <1>2, <1>3, <1>4, MergedHasAll

LEMMA CheckingLabels ==
  ASSUME AttacksInv, SeverityInv, DOMAIN worker = Workers, NEW w \in Workers, CheckRule(w)
  PROVE  SeverityInv'
<1> DEFINE x == worker[w]
           r == Head(x.rules)
<1>1. x.at = "check" /\ x.rules # <<>> /\ fired' = fired
  BY DEF CheckRule
<1>2. PICK graph :
        LET found == Evidence(r, x.event, x.buf, Merged, engClock, graph)
            fires == found # <<>> /\ ~Rests(r, RestsOn(r, x.event, found))
        IN  worker' = [worker EXCEPT ![w] =
              IF fires THEN [@ EXCEPT !.at = "fire", !.evidence = found]
                       ELSE [@ EXCEPT !.rules = Tail(worker[w].rules)]]
  BY DEF CheckRule
<1> DEFINE found == Evidence(r, x.event, x.buf, Merged, engClock, graph)
           fire == [x EXCEPT !.at = "fire", !.evidence = found]
           skip == [x EXCEPT !.rules = Tail(x.rules)]
<1>3. PICK y \in {fire, skip} : worker' = [worker EXCEPT ![w] = y]
  BY <1>2
<1>4. /\ DOMAIN x = {"at", "event", "buf", "rules", "evidence"}
      /\ IsList(x.buf) /\ IsList(x.rules) /\ IsList(Merged)
  BY <1>1, Examining
<1>5. \A n \in DOMAIN x.rules : x.rules[n] \in RuleNames
  BY <1>1 DEF SeverityInv, Holds
<1>6. r \in RuleNames /\ \A n \in DOMAIN Tail(x.rules) : Tail(x.rules)[n] \in RuleNames
  <2> HIDE DEF x
  <2> QED BY <1>1, <1>4, <1>5, TailNamed
<1>7. IsList(found)
  <2> HIDE DEF x, r
  <2> QED BY <1>4, <1>6, FindsAList
<1>8. Holds(fire)
  <2>1. fire.at = "fire" /\ fire.rules = x.rules /\ fire.evidence = found
    <3> HIDE DEF found
    <3> QED BY <1>4
  <2> HIDE DEF fire, found, x
  <2> QED BY <2>1, <1>5, <1>7 DEF Holds
<1>9. Holds(skip)
  <2>1. skip.at = "check" /\ skip.rules = Tail(x.rules)
    BY <1>1, <1>4
  <2> HIDE DEF skip, x
  <2> QED BY <2>1, <1>6 DEF Holds
<1> HIDE DEF fire, skip
<1> QED BY <1>1, <1>3, <1>8, <1>9, OneWorker

LEMMA FiringLabels ==
  ASSUME AttacksInv, SeverityInv, DOMAIN worker = Workers, NEW w \in Workers, FireRule(w)
  PROVE  SeverityInv'
<1> DEFINE x == worker[w]
           r == Head(x.rules)
           y == [x EXCEPT !.at = "check", !.rules = Tail(x.rules), !.evidence = <<>>]
<1>1. PICK score \in Scores :
        /\ Publish(w, [rule |-> r, key |-> RestsOn(r, x.event, x.evidence), events |-> EventsOf(x.evidence),
                       titled |-> TRUE, severity |-> SeverityOf(r, score, Len(x.evidence))])
        /\ worker' = [worker EXCEPT ![w] = y]
  BY DEF FireRule
<1>2. /\ x.at = "fire" /\ IsList(x.evidence) /\ \A n \in DOMAIN x.rules : x.rules[n] \in RuleNames
      /\ DOMAIN x = {"at", "event", "buf", "rules", "evidence"} /\ IsList(x.rules)
  BY Examining DEF FireRule, SeverityInv, Holds
<1>3. x.rules # <<>>
  BY <1>2 DEF AttacksInv, WorkersWork, Works
<1>4. Holds(y)
  <2>1. y.at = "check" /\ y.rules = Tail(x.rules)
    BY <1>2
  <2> HIDE DEF y, x
  <2> QED BY <2>1, <1>2, <1>3, TailNamed DEF Holds
<1>5. PICK f : /\ fired' = fired \cup {f} /\ f.rule = r /\ f.events = EventsOf(x.evidence)
               /\ f.severity = SeverityOf(r, score, Len(x.evidence))
  <2> DEFINE key == RestsOn(r, x.event, x.evidence)
             sev == SeverityOf(r, score, Len(x.evidence))
             events == EventsOf(x.evidence)
             g == [rule |-> r, key |-> key, events |-> events, severity |-> sev, filed |-> TRUE,
                   at |-> engClock, by |-> w, after |-> asked]
  <2>1. fired' = fired \cup {g}
    <3> HIDE DEF r, key, x, y, sev, events
    <3> QED BY <1>1 DEF Publish, key, sev, events
  <2>2. g.rule = r /\ g.events = events /\ g.severity = sev
    OBVIOUS
  <2> HIDE DEF g
  <2> QED BY <2>1, <2>2
<1>6. IsSevere(f)
  <2> HIDE DEF x, r
  <2>1. Len(x.evidence) \in Nat /\ (Cardinality(EventsOf(x.evidence)) >= 2 => Len(x.evidence) >= 2)
    BY <1>2, EventsAreFew
  <2>2. score \in Int
    BY LabelsAssumption
  <2>3. /\ Rank(SeverityOf(r, score, Len(x.evidence))) >= Rank(RuleSeverity(r))
        /\ Len(x.evidence) >= 2 => Rank(SeverityOf(r, score, Len(x.evidence))) >= 3
    BY <2>1, <2>2, FloorHolds
  <2> QED BY <1>5, <2>1, <2>3 DEF IsSevere
<1>7. worker' = [worker EXCEPT ![w] = y] /\ \A g \in fired' : g \in fired \/ IsSevere(g)
  BY <1>1, <1>5, <1>6
<1> HIDE DEF y
<1> QED BY <1>4, <1>7, OneWorker

LEMMA YamlLabels ==
  ASSUME AttacksInv, SeverityInv, DOMAIN worker = Workers, NEW w \in Workers, PublishYaml(w)
  PROVE  SeverityInv'
<1> DEFINE x == worker[w]
           rule == Head(Completed(w))
           found == Yaml!Evaluate(rule, x.event, x.buf)
           sev == Floor(rule.severity, Resolved(0, Len(found), FALSE))
<1>1. /\ x.at = "check" /\ Completed(w) # <<>> /\ worker' = [worker EXCEPT ![w] = Idle]
      /\ Publish(w, [rule |-> rule.name, key |-> <<x.event.src>>, events |-> EventsOf(found),
                     titled |-> FALSE, severity |-> sev])
  BY DEF PublishYaml
<1>2. IsList(x.buf)
  BY <1>1, Examining
<1>3. PICK n \in DOMAIN YamlRules : rule = YamlRules[n]
  <2> DEFINE places == {n \in DOMAIN YamlRules : Yaml!Evaluate(YamlRules[n], x.event, x.buf) # <<>>}
  <2>1. Completed(w) = Chosen(YamlRules, places) /\ places \subseteq DOMAIN YamlRules
    BY DEF Completed
  <2>2. IsList(YamlRules)
    BY LabelsAssumption DEF IsList
  <2> HIDE DEF places
  <2>3. /\ IsList(Completed(w))
        /\ \A q \in DOMAIN Completed(w) : \E n \in places : Completed(w)[q] = YamlRules[n]
    BY <2>1, <2>2, ChosenOnes
  <2>4. 1 \in DOMAIN Completed(w) /\ rule = Completed(w)[1]
    <3>1. PICK U : Completed(w) \in Seq(U)
      BY <2>3 DEF IsList
    <3> QED BY <3>1, <1>1
  <2> QED BY <2>1, <2>3, <2>4
<1>4. IsList(found)
  <2>1. IsList(rule.sequence)
    BY <1>3, LabelsAssumption DEF IsList
  <2> HIDE DEF rule, x
  <2> QED BY <1>2, <2>1, YamlFindsAList
<1>5. PICK f : fired' = fired \cup {f} /\ ~f.filed /\ f.events = EventsOf(found) /\ f.severity = sev
  <2> DEFINE events == EventsOf(found)
             g == [rule |-> rule.name, key |-> <<x.event.src>>, events |-> events, severity |-> sev, filed |-> FALSE,
                   at |-> engClock, by |-> w, after |-> asked]
  <2>1. fired' = fired \cup {g}
    <3> HIDE DEF rule, x, sev, events
    <3> QED BY <1>1 DEF Publish, events
  <2>2. ~g.filed /\ g.events = events /\ g.severity = sev
    OBVIOUS
  <2> HIDE DEF g
  <2> QED BY <2>1, <2>2
<1>6. IsSevere(f)
  <2>1. Len(found) \in Nat /\ (Cardinality(EventsOf(found)) >= 2 => Len(found) >= 2)
    <3> HIDE DEF found
    <3> QED BY <1>4, EventsAreFew
  <2>2. Len(found) >= 2 => Rank(sev) >= 3
    <3> HIDE DEF found, rule
    <3>1. 0 \in Int
      OBVIOUS
    <3> QED BY <2>1, <3>1, FloorHolds
  <2> HIDE DEF found, sev, rule
  <2> QED BY <1>5, <2>1, <2>2 DEF IsSevere
<1>7. \A g \in fired' : g \in fired \/ IsSevere(g)
  BY <1>5, <1>6
<1> QED BY <1>1, <1>7, IdleHolds, OneWorker

LEMMA SeverityStep == AttacksInv /\ SeverityInv /\ [EngineNext]_engVars => SeverityInv'
<1> SUFFICES ASSUME AttacksInv, SeverityInv, [EngineNext]_engVars PROVE SeverityInv'
  OBVIOUS
<1>0. DOMAIN worker = Workers
  BY DEF AttacksInv, WorkersWork
<1>1. ASSUME UNCHANGED <<worker, fired>> PROVE SeverityInv'
  BY <1>1 DEF SeverityInv, AllSevere
<1>2. CASE EngineTick \/ UNCHANGED engVars \/ \E kind \in {"clear", "reset"} : Request(kind)
  BY <1>1, <1>2 DEF EngineTick, Request, engVars
<1>3. ASSUME NEW w \in Workers, TakeEvent(w) \/ BufferEvent(w) \/ CheckRule(w) \/ FireRule(w) \/ PublishYaml(w)
      PROVE  SeverityInv'
  BY <1>0, <1>3, TakingLabels, BufferingLabels, CheckingLabels, FiringLabels, YamlLabels
<1>4. ASSUME NEW w \in Workers, FinishEvent(w) PROVE SeverityInv'
  <2>1. worker' = [worker EXCEPT ![w] = Idle] /\ fired' = fired
    BY <1>4 DEF FinishEvent
  <2> QED BY <1>0, <2>1, IdleHolds, OneWorker
<1> QED BY <1>2, <1>3, <1>4 DEF EngineNext

\* Whatever the score an incident is made with, and whichever rules operators wrote:
\* an incident of several events is at least high, and a built-in rule that calls its
\* finding critical is not overruled.
THEOREM SeverityAlwaysHolds == EngineSpec => []SeverityHolds
<1>1. EngineInit => AttacksInv /\ SeverityInv
  BY InitAttacks, InitSeverity
<1>2. (AttacksInv /\ SeverityInv) /\ [EngineNext]_engVars => (AttacksInv /\ SeverityInv)'
  BY AttacksStep, SeverityStep
<1> QED BY <1>1, <1>2, SeverityInvHolds, PTL DEF EngineSpec

-------------------------------------------------------------------------------
(* Alerts of single incidents *)

USE AlertAssumption

AlertThread == [at : {"none", "read", "muted", "limit", "limited", "mark", "poll", "post", "sent", "gave up"},
                type : AlertTypes \cup {Missing}, now : Nat, text : Writings \cup {Missing}, tries : Nat]

AlertsTyped ==
  /\ RowsOK /\ alertNow \in Nat /\ alert \in [ChainIds -> AlertThread]
  /\ \A t \in DOMAIN lastSent : lastSent[t] \in Nat
  /\ \A i \in ChainIds : alert[i].now <= alertNow

\* A narrative is written once, and what was read of it is what is there.
TextsAreRead ==
  /\ \A i \in ChainIds :
       /\ alert[i].at = "none" => chainRows[i] = Missing /\ i \notin narrating /\ alert[i].text = Missing
       /\ i \in narrating /\ chainRows[i] # Missing => chainRows[i].narrative = Missing
       /\ alert[i].text # Missing => chainRows[i] # Missing /\ chainRows[i].narrative = alert[i].text
  /\ \A m \in inbox : /\ m.of \in ChainIds /\ alert[m.of].at # "none"
                      /\ m.text # Missing => chainRows[m.of] # Missing /\ m.text = chainRows[m.of].narrative

\* How often an alert was tried, and what became of it.
TriesCounted ==
  \A i \in ChainIds :
    /\ alert[i].at \in {"read", "limit", "mark", "poll"} => alert[i].tries = 0
    /\ alert[i].at = "post" => alert[i].tries < PostTries
    /\ alert[i].at = "gave up" => alert[i].tries = PostTries
    /\ alert[i].at = "sent" => \E m \in inbox : m.of = i

\* What is noted of a type is the last alert that was begun, and who will begin one
\* has looked in this very instant.
LimitsKept ==
  /\ \A j \in Begun : alert[j].type \in DOMAIN lastSent /\ alert[j].now <= lastSent[alert[j].type]
  /\ \A t \in DOMAIN lastSent : \E j \in Begun : alert[j].type = t /\ alert[j].now = lastSent[t]
  /\ \A i \in ChainIds : alert[i].at = "mark" =>
       /\ alert[i].now = alertNow
       /\ \A j \in Begun : alert[j].type = alert[i].type =>
            alert[j].now = alertNow \/ alertNow - alert[j].now >= RateLimit
  /\ \A i \in ChainIds : alert[i].at = "limited" =>
       \E j \in Begun : alert[j].type = alert[i].type /\ alert[i].now - alert[j].now \in 0..(RateLimit - 1)
  /\ \A i, j \in Begun : alert[i].type = alert[j].type /\ alert[i].now < alert[j].now =>
       alert[j].now - alert[i].now >= RateLimit

AlertsInv == AlertsTyped /\ TextsAreRead /\ TriesCounted /\ LimitsKept

LEMMA NoAlertIsThread == NoAlert \in AlertThread
  BY DEF NoAlert, AlertThread

LEMMA InitAlerts == ChainInit /\ IncAlertInit => AlertsInv
<1> SUFFICES ASSUME ChainInit, IncAlertInit PROVE AlertsInv
  OBVIOUS
<1>1. /\ alert = [i \in ChainIds |-> NoAlert] /\ chainRows = [i \in ChainIds |-> Missing]
      /\ alertNow = 0 /\ narrating = {} /\ inbox = {} /\ DOMAIN lastSent = {}
  BY DEF ChainInit, IncAlertInit
<1>2. NoAlert.at = "none" /\ NoAlert.now = 0 /\ NoAlert.text = Missing
  BY DEF NoAlert
<1>3. Begun = {}
  BY <1>1, <1>2 DEF Begun
<1>4. AlertsTyped
  BY <1>1, <1>2, NoAlertIsThread DEF AlertsTyped, RowsOK
<1>5. TextsAreRead /\ TriesCounted
  BY <1>1, <1>2 DEF TextsAreRead, TriesCounted
<1>6. LimitsKept
  BY <1>1, <1>2, <1>3 DEF LimitsKept
<1> QED BY <1>4, <1>5, <1>6 DEF AlertsInv

LEMMA AlertsAnnounce == AlertsInv => HighIsAnnounced
<1> SUFFICES ASSUME AlertsInv PROVE HighIsAnnounced
  OBVIOUS
<1>1. \A j \in Begun : /\ j \in ChainIds
                       /\ alert[j].at = "sent" => \E m \in inbox : m.of = j
                       /\ alert[j].at = "gave up" => alert[j].tries = PostTries
  BY DEF AlertsInv, TriesCounted, Begun
<1>2. /\ \A i \in ChainIds : alert[i].at = "limited" =>
            \E j \in Begun : alert[j].type = alert[i].type /\ alert[i].now - alert[j].now \in 0..(RateLimit - 1)
      /\ \A i, j \in Begun : alert[i].type = alert[j].type /\ alert[i].now < alert[j].now =>
            alert[j].now - alert[i].now >= RateLimit
  BY DEF AlertsInv, LimitsKept
<1>3. \A m \in inbox : m.text # Missing => chainRows[m.of] # Missing /\ m.text = chainRows[m.of].narrative
  BY DEF AlertsInv, TextsAreRead
<1> QED BY <1>1, <1>2, <1>3 DEF HighIsAnnounced

LEMMA SameLimits ==
  ASSUME LimitsKept, NEW i \in ChainIds, alertNow \in Nat, alertNow' = alertNow, lastSent' = lastSent, Begun' = Begun,
         \A j \in Begun : alert'[j].type = alert[j].type /\ alert'[j].now = alert[j].now /\ alert[j].now \in Nat,
         \A t \in DOMAIN lastSent : lastSent[t] \in Nat /\ lastSent[t] <= alertNow,
         \A j \in ChainIds \ {i} : alert'[j] = alert[j],
         alert'[i].at = "mark" => alert'[i].now = alertNow /\ ~AlertRests(alert'[i].type, alertNow),
         alert'[i].at = "limited" => alert'[i].now = alertNow /\ AlertRests(alert'[i].type, alertNow)
  PROVE  LimitsKept'
<1>1. /\ \A j \in Begun : alert[j].type \in DOMAIN lastSent /\ alert[j].now <= lastSent[alert[j].type]
      /\ \A t \in DOMAIN lastSent : \E j \in Begun : alert[j].type = t /\ alert[j].now = lastSent[t]
      /\ \A k, j \in Begun : alert[k].type = alert[j].type /\ alert[k].now < alert[j].now =>
           alert[j].now - alert[k].now >= RateLimit
      /\ Begun \subseteq ChainIds
  BY DEF LimitsKept, Begun
<1>2. ASSUME NEW k \in ChainIds, alert'[k].at = "mark"
      PROVE  /\ alert'[k].now = alertNow
             /\ \A j \in Begun : alert'[j].type = alert'[k].type =>
                  alert'[j].now = alertNow \/ alertNow - alert'[j].now >= RateLimit
  <2>1. CASE k # i
    BY <1>2, <2>1 DEF LimitsKept
  <2>2. CASE k = i
    <3>1. alert'[i].now = alertNow /\ ~AlertRests(alert'[i].type, alertNow)
      BY <1>2, <2>2
    <3>2. ASSUME NEW j \in Begun, alert[j].type = alert'[i].type PROVE alertNow - alert[j].now >= RateLimit
      <4>1. alert[j].type \in DOMAIN lastSent /\ alert[j].now <= lastSent[alert[j].type]
        BY <1>1
      <4> QED BY <3>1, <3>2, <4>1 DEF AlertRests
    <3> QED BY <2>2, <3>1, <3>2
  <2> QED BY <2>1, <2>2
<1>3. ASSUME NEW k \in ChainIds, alert'[k].at = "limited"
      PROVE  \E j \in Begun : alert'[j].type = alert'[k].type /\ alert'[k].now - alert'[j].now \in 0..(RateLimit - 1)
  <2>1. CASE k # i
    <3>1. alert'[k] = alert[k]
      BY <2>1
    <3>2. PICK j \in Begun : alert[j].type = alert[k].type /\ alert[k].now - alert[j].now \in 0..(RateLimit - 1)
      BY <3>1, <1>3 DEF LimitsKept
    <3> QED BY <3>1, <3>2
  <2>2. CASE k = i
    <3>1. /\ alert'[i].now = alertNow /\ alert'[i].type \in DOMAIN lastSent
          /\ alertNow - lastSent[alert'[i].type] < RateLimit
      BY <1>3, <2>2 DEF AlertRests
    <3>2. PICK j \in Begun : alert[j].type = alert'[i].type /\ alert[j].now = lastSent[alert'[i].type]
      BY <3>1, <1>1
    <3>3. alertNow - alert[j].now \in 0..(RateLimit - 1)
      <4>1. alert[j].now \in Nat /\ alert[j].now <= alertNow
        BY <3>1, <3>2
      <4>2. alertNow - alert[j].now < RateLimit
        BY <3>1, <3>2
      <4> QED BY <4>1, <4>2
    <3> QED BY <2>2, <3>1, <3>2, <3>3
  <2> QED BY <2>1, <2>2
<1>4. \A j \in Begun : alert'[j].type \in DOMAIN lastSent' /\ alert'[j].now <= lastSent'[alert'[j].type]
  BY <1>1
<1>5. \A t \in DOMAIN lastSent' : \E j \in Begun : alert'[j].type = t /\ alert'[j].now = lastSent'[t]
  <2> SUFFICES ASSUME NEW t \in DOMAIN lastSent PROVE \E j \in Begun : alert'[j].type = t /\ alert'[j].now = lastSent[t]
    OBVIOUS
  <2> QED BY <1>1
<1>6. \A k, j \in Begun : alert'[k].type = alert'[j].type /\ alert'[k].now < alert'[j].now =>
        alert'[j].now - alert'[k].now >= RateLimit
  BY <1>1
<1> QED BY <1>2, <1>3, <1>4, <1>5, <1>6 DEF LimitsKept

\* No time has passed since anything that is noted was.
LEMMA Noted ==
  ASSUME AlertsInv
  PROVE  /\ alertNow \in Nat /\ alert \in [ChainIds -> AlertThread] /\ Begun \subseteq ChainIds
         /\ \A i \in ChainIds : alert[i] \in AlertThread /\ alert[i].now \in Nat /\ alert[i].now <= alertNow
         /\ \A t \in DOMAIN lastSent : lastSent[t] \in Nat /\ lastSent[t] <= alertNow
<1>1. /\ alertNow \in Nat /\ alert \in [ChainIds -> AlertThread] /\ Begun \subseteq ChainIds
      /\ \A t \in DOMAIN lastSent : lastSent[t] \in Nat
  BY DEF AlertsInv, AlertsTyped, Begun
<1>2. \A i \in ChainIds : alert[i] \in AlertThread /\ alert[i].now \in Nat /\ alert[i].now <= alertNow
  BY <1>1 DEF AlertsInv, AlertsTyped, AlertThread
<1>3. ASSUME NEW t \in DOMAIN lastSent PROVE lastSent[t] <= alertNow
  <2>1. PICK j \in Begun : alert[j].type = t /\ alert[j].now = lastSent[t]
    BY DEF AlertsInv, LimitsKept
  <2> QED BY <2>1, <1>1, <1>2
<1> QED BY <1>1, <1>2, <1>3

\* An alert thread takes a step that begins no alert.
LEMMA ThreadKeeps ==
  ASSUME AlertsInv, NEW i \in ChainIds, NEW to \in AlertThread, Goes(i, to), to.now <= alertNow,
         UNCHANGED <<alertNow, lastSent, chainRows>>, narrating' = narrating,
         alert[i].at # "none", to.at # "none", inbox \subseteq inbox',
         to.type = alert[i].type,
         \A m \in inbox' \ inbox : m.of = i /\ m.text = to.text,
         to.text # Missing => chainRows[i] # Missing /\ chainRows[i].narrative = to.text,
         to.at \in {"read", "limit", "mark", "poll"} => to.tries = 0,
         to.at = "post" => to.tries < PostTries,
         to.at = "gave up" => to.tries = PostTries,
         to.at = "sent" => \E m \in inbox' : m.of = i,
         i \in Begun <=> to.at \in {"poll", "post", "sent", "gave up"},
         i \in Begun => to.now = alert[i].now,
         to.at = "mark" => to.now = alertNow /\ ~AlertRests(to.type, alertNow),
         to.at = "limited" => to.now = alertNow /\ AlertRests(to.type, alertNow)
  PROVE  AlertsInv'
<1>1. alert' = [alert EXCEPT ![i] = to] /\ alert \in [ChainIds -> AlertThread]
  BY DEF Goes, AlertsInv, AlertsTyped
<1>2. AlertsTyped'
  BY <1>1 DEF AlertsInv, AlertsTyped, RowsOK
<1>3. TextsAreRead'
  BY <1>1 DEF AlertsInv, TextsAreRead
<1>4. TriesCounted'
  BY <1>1 DEF AlertsInv, TriesCounted
<1>5. /\ Begun' = Begun /\ \A j \in Begun : alert'[j].type = alert[j].type /\ alert'[j].now = alert[j].now
      /\ \A j \in ChainIds \ {i} : alert'[j] = alert[j]
      /\ alert'[i] = to
  BY <1>1 DEF Begun
<1>6. LimitsKept /\ alertNow' = alertNow /\ lastSent' = lastSent
  BY DEF AlertsInv
<1>7. \A j \in Begun : alert'[j].type = alert[j].type /\ alert'[j].now = alert[j].now /\ alert[j].now \in Nat
  BY <1>5, Noted
<1>8. LimitsKept'
  BY <1>5, <1>6, <1>7, Noted, SameLimits
<1> QED BY <1>2, <1>3, <1>4, <1>8 DEF AlertsInv

LEMMA MarkKeeps ==
  ASSUME AlertsInv, NEW i \in ChainIds, MarkSent(i)
  PROVE  AlertsInv'
<1> DEFINE to == [alert[i] EXCEPT !.at = "poll"]
<1>1. /\ alert' = [alert EXCEPT ![i] = to] /\ alert \in [ChainIds -> AlertThread]
      /\ UNCHANGED <<alertNow, webhook, narrating, inbox, chainRows>> /\ alert[i].at = "mark"
  BY DEF MarkSent, Goes, AlertsInv, AlertsTyped
<1>2. to \in AlertThread /\ to.at = "poll" /\ to.type = alert[i].type /\ to.now = alertNow /\ to.tries = 0 /\ to.text = alert[i].text
  <2>1. alert[i] \in AlertThread /\ alert[i].now = alertNow /\ alert[i].tries = 0
    BY <1>1 DEF AlertsInv, LimitsKept, TriesCounted
  <2> QED BY <2>1 DEF AlertThread
<1> HIDE DEF to
<1>3. alertNow \in Nat /\ \A t \in DOMAIN lastSent : lastSent[t] \in Nat /\ lastSent[t] <= alertNow
  BY Noted
<1>4. /\ DOMAIN lastSent' = DOMAIN lastSent \cup {to.type}
      /\ \A t \in DOMAIN lastSent' : lastSent'[t] = IF t = to.type THEN alertNow ELSE lastSent[t]
  BY <1>2 DEF MarkSent, AlertsInv, LimitsKept
<1>5. AlertsTyped'
  BY <1>1, <1>2, <1>3, <1>4 DEF AlertsInv, AlertsTyped, RowsOK
<1>6. TextsAreRead'
  BY <1>1, <1>2 DEF AlertsInv, TextsAreRead
<1>7. TriesCounted'
  BY <1>1, <1>2 DEF AlertsInv, TriesCounted
<1>8. Begun' = Begun \cup {i} /\ i \notin Begun /\ \A j \in ChainIds \ {i} : alert'[j] = alert[j]
  BY <1>1, <1>2 DEF Begun
<1>9. \A j \in Begun : /\ j \in ChainIds /\ j # i /\ alert[j].now \in Nat
                       /\ alert[j].type = to.type => alert[j].now = alertNow \/ alertNow - alert[j].now >= RateLimit
  <2>1. \A j \in Begun : alert[j].now \in Nat /\ j \in ChainIds
    BY <1>1 DEF Begun, AlertThread
  <2> QED BY <2>1, <1>1, <1>2, <1>8 DEF AlertsInv, LimitsKept
<1>10. LimitsKept'
  <2>1. \A j \in Begun' : alert'[j].type \in DOMAIN lastSent' /\ alert'[j].now <= lastSent'[alert'[j].type]
    BY <1>1, <1>2, <1>3, <1>4, <1>8, <1>9 DEF AlertsInv, LimitsKept, AlertsTyped
  <2>2. \A t \in DOMAIN lastSent' : \E j \in Begun' : alert'[j].type = t /\ alert'[j].now = lastSent'[t]
    BY <1>1, <1>2, <1>4, <1>8, <1>9 DEF AlertsInv, LimitsKept
  <2>3. ASSUME NEW k \in ChainIds, alert'[k].at = "mark"
        PROVE  /\ alert'[k].now = alertNow'
               /\ \A j \in Begun' : alert'[j].type = alert'[k].type =>
                    alert'[j].now = alertNow' \/ alertNow' - alert'[j].now >= RateLimit
    BY <2>3, <1>1, <1>2, <1>8, <1>9 DEF AlertsInv, LimitsKept
  <2>4. ASSUME NEW k \in ChainIds, alert'[k].at = "limited"
        PROVE  \E j \in Begun' : alert'[j].type = alert'[k].type /\ alert'[k].now - alert'[j].now \in 0..(RateLimit - 1)
    BY <2>4, <1>1, <1>2, <1>8, <1>9 DEF AlertsInv, LimitsKept
  <2>5. \A k, j \in Begun' : alert'[k].type = alert'[j].type /\ alert'[k].now < alert'[j].now =>
       alert'[j].now - alert'[k].now >= RateLimit
    BY <1>1, <1>2, <1>3, <1>8, <1>9 DEF AlertsInv, LimitsKept, AlertsTyped
  <2> QED BY <2>1, <2>2, <2>3, <2>4, <2>5 DEF LimitsKept
<1> QED BY <1>5, <1>6, <1>7, <1>10 DEF AlertsInv

\* The steps of an alert thread.
LEMMA ReadingKeeps ==
  ASSUME AlertsInv, NEW i \in ChainIds, (\E up \in BOOLEAN : ReadWebhook(i, up)) \/ LookAtLimit(i) \/ PollNarrative(i)
  PROVE  AlertsInv'
<1>1. alert[i] \in AlertThread /\ alertNow \in Nat /\ alert[i].now \in Nat /\ alert[i].now <= alertNow
  BY Noted
<1>2. alert[i].at \in {"read", "limit", "mark", "poll"} => alert[i].tries = 0
  BY DEF AlertsInv, TriesCounted
<1>3. alert[i].text # Missing => chainRows[i] # Missing /\ chainRows[i].narrative = alert[i].text
  BY DEF AlertsInv, TextsAreRead
<1>4. CASE \E up \in BOOLEAN : ReadWebhook(i, up)
  <2>1. PICK at \in {"limit", "muted"} : Goes(i, [alert[i] EXCEPT !.at = at, !.now = alertNow])
    BY <1>4 DEF ReadWebhook
  <2> DEFINE to == [alert[i] EXCEPT !.at = at, !.now = alertNow]
  <2>2. /\ to \in AlertThread /\ to.at = at /\ to.now = alertNow /\ to.type = alert[i].type
        /\ to.text = alert[i].text /\ to.tries = alert[i].tries
    BY <1>1, <2>1 DEF AlertThread
  <2>3. /\ UNCHANGED <<alertNow, lastSent, chainRows>> /\ narrating' = narrating /\ inbox' = inbox
        /\ alert[i].at = "read" /\ i \notin Begun
    BY <1>4 DEF ReadWebhook, Begun
  <2>4. Goes(i, to)
    BY <2>1
  <2> HIDE DEF to
  <2>8. /\ inbox \subseteq inbox' /\ (\A m \in inbox' \ inbox : m.of = i /\ m.text = to.text)
        /\ alert[i].at # "none" /\ to.at # "none" /\ to.now <= alertNow /\ to.at # "sent"
        /\ (i \in Begun <=> to.at \in {"poll", "post", "sent", "gave up"})
        /\ (i \in Begun => to.now = alert[i].now)
    <3>1. to.now <= alertNow /\ i \notin Begun
      BY <1>1, <2>2, <2>3
    <3>2. to.at # "none" /\ to.at # "sent" /\ to.at \notin {"poll", "post", "sent", "gave up"}
      BY <2>1, <2>2, <2>3
    <3>3. alert[i].at # "none" /\ inbox \subseteq inbox' /\ \A m \in inbox' \ inbox : m.of = i /\ m.text = to.text
      BY <2>3
    <3> QED BY <3>1, <3>2, <3>3
  <2>9. /\ to.text # Missing => chainRows[i] # Missing /\ chainRows[i].narrative = to.text
        /\ to.at \in {"read", "limit", "mark", "poll"} => to.tries = 0
        /\ to.at = "post" => to.tries < PostTries
        /\ to.at # "gave up"
        /\ to.at = "mark" => to.now = alertNow /\ ~AlertRests(to.type, alertNow)
        /\ to.at = "limited" => to.now = alertNow /\ AlertRests(to.type, alertNow)
    BY <1>1, <1>2, <1>3, <2>1, <2>2, <2>3
  <2> QED BY <2>2, <2>3, <2>4, <2>8, <2>9, ThreadKeeps
<1>5. CASE LookAtLimit(i)
  <2> DEFINE at == IF AlertRests(alert[i].type, alertNow) THEN "limited" ELSE "mark"
             to == [alert[i] EXCEPT !.at = at, !.now = alertNow]
  <2>1. Goes(i, to)
    BY <1>5 DEF LookAtLimit
  <2>2. /\ to \in AlertThread /\ to.at = at /\ to.now = alertNow /\ to.type = alert[i].type
        /\ to.text = alert[i].text /\ to.tries = alert[i].tries
    BY <1>1, <2>1 DEF AlertThread
  <2>3. /\ UNCHANGED <<alertNow, lastSent, chainRows>> /\ narrating' = narrating /\ inbox' = inbox
        /\ alert[i].at = "limit" /\ i \notin Begun
    BY <1>5 DEF LookAtLimit, Begun
  <2>4. at = "limited" <=> AlertRests(alert[i].type, alertNow)
    OBVIOUS
  <2>5. at \in {"limited", "mark"}
    OBVIOUS
  <2> HIDE DEF to, at
  <2>8. /\ inbox \subseteq inbox' /\ (\A m \in inbox' \ inbox : m.of = i /\ m.text = to.text)
        /\ alert[i].at # "none" /\ to.at # "none" /\ to.now <= alertNow /\ to.at # "sent"
        /\ (i \in Begun <=> to.at \in {"poll", "post", "sent", "gave up"})
        /\ (i \in Begun => to.now = alert[i].now)
    <3>1. to.now <= alertNow /\ i \notin Begun
      BY <1>1, <2>2, <2>3
    <3>2. to.at # "none" /\ to.at # "sent" /\ to.at \notin {"poll", "post", "sent", "gave up"}
      BY <2>2, <2>3, <2>5
    <3>3. alert[i].at # "none" /\ inbox \subseteq inbox' /\ \A m \in inbox' \ inbox : m.of = i /\ m.text = to.text
      BY <2>3
    <3> QED BY <3>1, <3>2, <3>3
  <2>9. /\ to.text # Missing => chainRows[i] # Missing /\ chainRows[i].narrative = to.text
        /\ to.at \in {"read", "limit", "mark", "poll"} => to.tries = 0
        /\ to.at = "post" => to.tries < PostTries
        /\ to.at # "gave up"
        /\ to.at = "mark" => to.now = alertNow /\ ~AlertRests(to.type, alertNow)
        /\ to.at = "limited" => to.now = alertNow /\ AlertRests(to.type, alertNow)
    BY <1>1, <1>2, <1>3, <2>2, <2>3, <2>4, <2>5
  <2> QED BY <2>1, <2>2, <2>3, <2>8, <2>9, ThreadKeeps
<1>6. CASE PollNarrative(i)
  <2>1. PICK text \in Writings \cup {Missing} :
          /\ Goes(i, [alert[i] EXCEPT !.at = "post", !.text = text])
          /\ text # Missing => chainRows[i] # Missing /\ chainRows[i].narrative = text
    <3>1. CASE Goes(i, [alert[i] EXCEPT !.at = "post"])
      <4>1. alert[i].text \in Writings \cup {Missing}
        BY <1>1 DEF AlertThread
      <4>2. [alert[i] EXCEPT !.at = "post", !.text = alert[i].text] = [alert[i] EXCEPT !.at = "post"]
        BY <1>1 DEF AlertThread
      <4> QED BY <3>1, <4>1, <4>2, <1>3
    <3>2. CASE /\ chainRows[i] # Missing /\ chainRows[i].narrative # Missing
               /\ Goes(i, [alert[i] EXCEPT !.at = "post", !.text = chainRows[i].narrative])
      <4>1. chainRows[i].narrative \in Writings \cup {Missing}
        BY <3>2, MissingIsNoRow DEF AlertsInv, AlertsTyped, RowsOK
      <4> QED BY <3>2, <4>1
    <3> QED BY <1>6, <3>1, <3>2 DEF PollNarrative
  <2> DEFINE to == [alert[i] EXCEPT !.at = "post", !.text = text]
  <2>2. /\ to \in AlertThread /\ to.at = "post" /\ to.now = alert[i].now /\ to.type = alert[i].type
        /\ to.text = text /\ to.tries = alert[i].tries
    BY <1>1, <2>1 DEF AlertThread
  <2>3. /\ UNCHANGED <<alertNow, lastSent, chainRows>> /\ narrating' = narrating /\ inbox' = inbox
        /\ alert[i].at = "poll" /\ i \in Begun
    BY <1>6 DEF PollNarrative, Begun
  <2>4. Goes(i, to)
    BY <2>1
  <2> HIDE DEF to
  <2>8. /\ inbox \subseteq inbox' /\ (\A m \in inbox' \ inbox : m.of = i /\ m.text = to.text)
        /\ alert[i].at # "none" /\ to.at # "none" /\ to.now <= alertNow /\ to.at # "sent"
        /\ (i \in Begun <=> to.at \in {"poll", "post", "sent", "gave up"})
        /\ (i \in Begun => to.now = alert[i].now)
    BY <1>1, <2>1, <2>2, <2>3
  <2>9. /\ to.text # Missing => chainRows[i] # Missing /\ chainRows[i].narrative = to.text
        /\ to.at \in {"read", "limit", "mark", "poll"} => to.tries = 0
        /\ to.at = "post" => to.tries < PostTries
        /\ to.at # "gave up"
        /\ to.at = "mark" => to.now = alertNow /\ ~AlertRests(to.type, alertNow)
        /\ to.at = "limited" => to.now = alertNow /\ AlertRests(to.type, alertNow)
    BY <1>1, <1>2, <1>3, <2>1, <2>2, <2>3
  <2> QED BY <2>2, <2>3, <2>4, <2>8, <2>9, ThreadKeeps
<1> QED BY <1>4, <1>5, <1>6

LEMMA PostKeeps ==
  ASSUME AlertsInv, NEW i \in ChainIds, NEW visible \in BOOLEAN, NEW told \in BOOLEAN, PostAlert(i, visible, told)
  PROVE  AlertsInv'
<1>1. alert[i] \in AlertThread /\ alertNow \in Nat /\ alert[i].now \in Nat /\ alert[i].now <= alertNow
  BY Noted
<1>2. alert[i].text # Missing => chainRows[i] # Missing /\ chainRows[i].narrative = alert[i].text
  BY DEF AlertsInv, TextsAreRead
<1>3. alert[i].at = "post" /\ alert[i].tries < PostTries /\ alert[i].tries \in Nat /\ i \in Begun
  BY <1>1 DEF PostAlert, AlertsInv, TriesCounted, AlertThread, Begun
<1> DEFINE tries == alert[i].tries + 1
           at == IF told THEN "sent" ELSE IF tries < PostTries THEN "post" ELSE "gave up"
           to == [alert[i] EXCEPT !.tries = tries, !.at = at]
<1>4. Goes(i, to) /\ UNCHANGED <<alertNow, lastSent, chainRows>> /\ narrating' = narrating
  BY DEF PostAlert
<1>5. /\ to \in AlertThread /\ to.at = at /\ to.now = alert[i].now /\ to.type = alert[i].type
      /\ to.text = alert[i].text /\ to.tries = tries
  <2>1. tries \in Nat /\ at \in {"sent", "post", "gave up"}
    BY <1>3
  <2> HIDE DEF tries, at
  <2> QED BY <1>1, <2>1 DEF AlertThread
<1>6. /\ at \in {"sent", "post", "gave up"} /\ (at = "sent" <=> told)
      /\ at = "post" => tries < PostTries
      /\ at = "gave up" => tries = PostTries
  BY <1>3
<1>7. inbox' = IF visible THEN inbox \cup {Message(i)} ELSE inbox
  BY DEF PostAlert
<1>8. Message(i).of = i /\ Message(i).text = alert[i].text /\ (told => visible)
  BY DEF Message, PostAlert
<1> HIDE DEF to, at, tries
<1>9. inbox \subseteq inbox' /\ (\A m \in inbox' \ inbox : m.of = i /\ m.text = to.text)
      /\ (told => \E m \in inbox' : m.of = i)
  BY <1>5, <1>7, <1>8
<1> QED BY <1>1, <1>2, <1>3, <1>4, <1>5, <1>6, <1>9, ThreadKeeps

LEMMA PublishKeeps ==
  ASSUME AlertsInv, NEW i \in ChainIds, NEW type \in AlertTypes, NEW chain \in Chains, NEW stored \in BOOLEAN,
         PublishHigh(i, type, chain, stored)
  PROVE  AlertsInv'
<1> DEFINE to == [NoAlert EXCEPT !.at = "read", !.type = type]
<1>1. /\ alert' = [alert EXCEPT ![i] = to] /\ alert \in [ChainIds -> AlertThread] /\ alert[i].at = "none"
      /\ narrating' = narrating \cup {i} /\ UNCHANGED <<alertNow, lastSent, inbox>> /\ chainRows[i] = Missing
      /\ (stored => PersistChain(i, chain)) /\ (~stored => chainRows' = chainRows)
  BY Noted DEF PublishHigh, AlertsInv, TextsAreRead
<1>2. to \in AlertThread /\ to.at = "read" /\ to.text = Missing /\ to.tries = 0 /\ to.now = 0
  BY DEF NoAlert, AlertThread
<1> HIDE DEF to
<1>3. /\ RowsOK' /\ \A j \in ChainIds \ {i} : chainRows'[j] = chainRows[j] /\ alert'[j] = alert[j]
      /\ chainRows'[i] # Missing => chainRows'[i].narrative = Missing
      /\ alert'[i] = to
  <2>1. RowsOK
    BY DEF AlertsInv, AlertsTyped
  <2>2. CASE stored
    <3>1. RowsOK'
      BY <1>1, <2>1, <2>2, RowsChange
    <3>2. chainRows' = [chainRows EXCEPT ![i] = NewRow(chain)]
      BY <1>1, <2>2 DEF PersistChain
    <3> QED BY <3>1, <3>2, <1>1, <2>1, NewRowIsRow DEF RowsOK
  <2>3. CASE ~stored
    BY <2>1, <2>3, <1>1 DEF RowsOK
  <2> QED BY <2>2, <2>3
<1>4. AlertsTyped'
  BY <1>1, <1>2, <1>3 DEF AlertsInv, AlertsTyped
<1>5. TextsAreRead'
  BY <1>1, <1>2, <1>3 DEF AlertsInv, TextsAreRead
<1>6. TriesCounted'
  BY <1>1, <1>2, <1>3 DEF AlertsInv, TriesCounted
<1>7. Begun' = Begun /\ i \notin Begun
  BY <1>1, <1>2, <1>3 DEF Begun
<1>8. \A j \in Begun : alert'[j].type = alert[j].type /\ alert'[j].now = alert[j].now /\ alert[j].now \in Nat
  BY <1>3, <1>7, Noted
<1>9. LimitsKept /\ alertNow' = alertNow /\ lastSent' = lastSent
  BY <1>1 DEF AlertsInv
<1>10. LimitsKept'
  BY <1>2, <1>3, <1>7, <1>8, <1>9, Noted, SameLimits
<1> QED BY <1>4, <1>5, <1>6, <1>10 DEF AlertsInv

LEMMA NarratingKeeps ==
  ASSUME AlertsInv, NEW i \in ChainIds, NEW reply, NarrateAndSave(i, reply)
  PROVE  AlertsInv'
<1>1. /\ narrating' = narrating \ {i} /\ UNCHANGED <<alertNow, alert, lastSent, inbox>> /\ i \in narrating
      /\ chainRows' = chainRows \/ \E text \in Writings : Narrate(i, text)
  BY DEF NarrateAndSave, GenerateNarrative
<1>2. RowsOK'
  BY <1>1, RowsChange DEF AlertsInv, AlertsTyped, RowsOK
<1>3. /\ \A j \in ChainIds \ {i} : chainRows'[j] = chainRows[j]
      /\ chainRows[i] = Missing => chainRows'[i] = Missing
      /\ alert[i].text = Missing /\ \A m \in inbox : m.of = i => m.text = Missing
  <2>1. RowsOK
    BY DEF AlertsInv, AlertsTyped
  <2>2. chainRows[i] # Missing => chainRows[i].narrative = Missing
    BY <1>1 DEF AlertsInv, TextsAreRead
  <2>3. alert[i].text = Missing
    BY <2>2 DEF AlertsInv, TextsAreRead
  <2>4. \A m \in inbox : m.of = i => m.text = Missing
    BY <2>2 DEF AlertsInv, TextsAreRead
  <2> QED BY <2>1, <2>3, <2>4, <1>1 DEF Narrate, RowsOK
<1>4. AlertsTyped'
  BY <1>1, <1>2 DEF AlertsInv, AlertsTyped
<1>5. TextsAreRead'
  BY <1>1, <1>3 DEF AlertsInv, TextsAreRead
<1>6. TriesCounted'
  BY <1>1 DEF AlertsInv, TriesCounted
<1>7. Begun' = Begun
  BY <1>1 DEF Begun
<1>8. LimitsKept'
  BY <1>1, <1>7 DEF AlertsInv, LimitsKept
<1> QED BY <1>4, <1>5, <1>6, <1>8 DEF AlertsInv

\* Time passes only while nobody is between looking at a limit and noting an alert.
LEMMA AlertTickKeeps == ASSUME AlertsInv, AlertTick PROVE AlertsInv'
<1>1. /\ alertNow' = alertNow + 1 /\ UNCHANGED <<narrating, alert, lastSent, inbox, chainRows>>
      /\ \A i \in ChainIds : alert[i].at # "mark"
  BY DEF AlertTick
<1>2. AlertsTyped'
  BY <1>1, Noted DEF AlertsInv, AlertsTyped, RowsOK
<1>3. TextsAreRead'
  BY <1>1 DEF AlertsInv, TextsAreRead
<1>4. TriesCounted'
  BY <1>1 DEF AlertsInv, TriesCounted
<1>5. Begun' = Begun
  BY <1>1 DEF Begun
<1>6. LimitsKept'
  BY <1>1, <1>5 DEF AlertsInv, LimitsKept
<1> QED BY <1>2, <1>3, <1>4, <1>6 DEF AlertsInv

LEMMA AlertsStep == AlertsInv /\ [IncAlertNext]_<<chainRows, incAlertVars>> => AlertsInv'
<1> SUFFICES ASSUME AlertsInv, [IncAlertNext]_<<chainRows, incAlertVars>> PROVE AlertsInv'
  OBVIOUS
<1>1. CASE AlertTick
  BY <1>1, AlertTickKeeps
<1>2. CASE (\E on \in BOOLEAN : SetWebhook(on)) \/ UNCHANGED <<chainRows, incAlertVars>>
  <2>1. UNCHANGED <<alertNow, narrating, alert, lastSent, inbox, chainRows>>
    BY <1>2 DEF SetWebhook, incAlertVars
  <2>2. AlertsTyped' /\ TextsAreRead' /\ TriesCounted'
    BY <2>1 DEF AlertsInv, AlertsTyped, RowsOK, TextsAreRead, TriesCounted
  <2>3. Begun' = Begun
    BY <2>1 DEF Begun
  <2>4. LimitsKept'
    BY <2>1, <2>3 DEF AlertsInv, LimitsKept
  <2> QED BY <2>2, <2>4 DEF AlertsInv
<1>3. ASSUME NEW i \in ChainIds,
             \/ \E type \in AlertTypes, chain \in Chains, stored \in BOOLEAN : PublishHigh(i, type, chain, stored)
             \/ \E reply \in Writings \cup {"prose", Missing} : NarrateAndSave(i, reply)
             \/ \E up \in BOOLEAN : ReadWebhook(i, up)
             \/ LookAtLimit(i) \/ MarkSent(i) \/ PollNarrative(i)
             \/ \E visible, told \in BOOLEAN : PostAlert(i, visible, told)
      PROVE  AlertsInv'
  BY <1>3, PublishKeeps, NarratingKeeps, ReadingKeeps, MarkKeeps, PostKeeps
<1> QED BY <1>1, <1>2, <1>3 DEF IncAlertNext

\* However many threads look at the limit, wait for narratives and post side by side,
\* an incident is passed over only for another of its type that was announced just
\* before, or tried as often as the code tries.
THEOREM HighAlwaysAnnounced == IncAlertSpec => []HighIsAnnounced
<1>1. AlertsInv /\ [IncAlertNext]_<<chainRows, incAlertVars>> => AlertsInv'
  BY AlertsStep
<1> QED BY <1>1, InitAlerts, AlertsAnnounce, PTL DEF IncAlertSpec

\* The engine with the alert threads of its incidents, any number of workers and any
\* interleaving: between two requests, an attack in two steps and an account tried from
\* many addresses while no browser's event is in the window become an incident or fall
\* into a cooldown, and high incidents are announced.
THEOREM AttacksAlwaysReported == ReportingSpec => []AttacksAreReported
<1> DEFINE vars == <<engVars, chainRows, incAlertVars>>
<1>1. ReportingInit => AttacksInv /\ AlertsInv
  BY InitAttacks, InitAlerts DEF ReportingInit
<1>2. AttacksInv /\ AlertsInv /\ [ReportingNext]_vars => AttacksInv' /\ AlertsInv'
  <2> SUFFICES ASSUME AttacksInv, AlertsInv, [ReportingNext]_vars PROVE AttacksInv' /\ AlertsInv'
    OBVIOUS
  <2>1. [EngineNext]_engVars /\ [IncAlertNext]_<<chainRows, incAlertVars>>
    BY DEF ReportingNext
  <2> QED BY <2>1, AttacksStep, AlertsStep
<1>3. AttacksInv /\ AlertsInv => AttacksAreReported
  BY FinishedAreReported, AlertsAnnounce DEF AttacksAreReported
<1> HIDE DEF vars
<1>4. ReportingSpec => ReportingInit /\ [][ReportingNext]_vars
  BY DEF ReportingSpec, vars
<1> QED BY <1>1, <1>2, <1>3, <1>4, PTL

-------------------------------------------------------------------------------
(* Cooldowns *)

USE EngineAssumption

\* What each worker is doing, and when.
WorkersOK ==
  /\ engClock \in Nat /\ asked \in Nat
  /\ DOMAIN worker = Workers
  /\ \A w \in Workers : DOMAIN worker[w] = {"at", "event", "buf", "rules", "evidence"}

FiredOK ==
  IsFiniteSet(fired) /\ \A f \in fired : f.at \in 0..engClock /\ f.after \in 0..asked /\ f.by \in Workers

SameRest(f, g) == f.rule = g.rule /\ f.key = g.key /\ f.after = g.after

\* A rule has rested since it last fired, unless somebody dropped the cooldowns.
RestsSince ==
  /\ \A c \in DOMAIN cooldowns : cooldowns[c] \in Nat
  /\ \A f \in OfBuiltIns : f.after = asked =>
       <<f.rule, f.key>> \in DOMAIN cooldowns /\ cooldowns[<<f.rule, f.key>>] >= f.at

\* What a worker found rested when it looked may have been fired since, but not by it.
OwnRest ==
  \A w \in Workers : worker[w].at = "fire" =>
    LET r == Head(worker[w].rules)
        key == RestsOn(r, worker[w].event, worker[w].evidence)
    IN  \A f \in OfBuiltIns :
          f.by = w /\ f.after = asked /\ f.rule = r /\ f.key = key => f.at + Ticks[300] <= engClock

\* One worker fires once in a cooldown.
OnceEach ==
  \A f, g \in OfBuiltIns :
    SameRest(f, g) /\ f.by = g.by /\ f # g =>
      f.at + Ticks[300] <= g.at \/ g.at + Ticks[300] <= f.at

EngineInv == WorkersOK /\ FiredOK /\ RestsSince /\ OwnRest /\ OnceEach

LEMMA InitEngine == EngineInit => EngineInv
  BY FS_EmptySet DEF EngineInit, EngineInv, WorkersOK, FiredOK, RestsSince, OwnRest, OnceEach, OfBuiltIns, Idle

\* At most one firing of each worker lies within a cooldown.
LEMMA OnceEachBounds == EngineInv => FiringsBounded
<1> SUFFICES ASSUME EngineInv, NEW f \in OfBuiltIns
             PROVE  Cardinality({g \in OfBuiltIns : /\ g.rule = f.rule /\ g.key = f.key /\ g.after = f.after
                                                    /\ g.at \in f.at..(f.at + Ticks[300] - 1)})
                      <= Cardinality(Workers)
  BY DEF FiringsBounded
<1> DEFINE S == {g \in OfBuiltIns : /\ g.rule = f.rule /\ g.key = f.key /\ g.after = f.after
                                    /\ g.at \in f.at..(f.at + Ticks[300] - 1)}
           by == [g \in S |-> g.by]
<1>1. \A g \in S : g.by \in Workers /\ g.at \in Nat
  BY DEF EngineInv, FiredOK, OfBuiltIns
<1>2. ASSUME NEW g \in S, NEW h \in S, g.by = h.by PROVE g = h
  <2>1. SameRest(g, h) /\ f.at \in Nat
    BY DEF SameRest, EngineInv, FiredOK, OfBuiltIns
  <2>2. g # h => g.at + Ticks[300] <= h.at \/ h.at + Ticks[300] <= g.at
    BY <1>2, <2>1 DEF EngineInv, OnceEach
  <2> QED BY <2>1, <2>2, <1>1
<1>3. by \in [S -> Workers] /\ \A g, h \in S : by[g] = by[h] => g = h
  BY <1>1, <1>2
<1>4. IsFiniteSet(Workers) /\ IsFiniteSet(S)
  BY FS_Subset, EngineAssumption DEF EngineInv, FiredOK, OfBuiltIns
<1> HIDE DEF S, by
<1>5. ~(Cardinality(Workers) < Cardinality(S))
  BY <1>3, <1>4, FS_PigeonHole
<1>6. Cardinality(S) \in Nat /\ Cardinality(Workers) \in Nat
  BY <1>4, FS_CardinalityType
<1> QED BY <1>5, <1>6 DEF S

-----------------------------------------------------------------------------

\* A step that fires nothing and leaves the cooldowns.
LEMMA NoneFires ==
  ASSUME EngineInv, engClock' \in Nat, engClock' >= engClock, UNCHANGED <<fired, cooldowns, asked>>,
         DOMAIN worker' = Workers,
         \A w \in Workers : DOMAIN worker'[w] = {"at", "event", "buf", "rules", "evidence"},
         OwnRest'
  PROVE  EngineInv'
  BY DEF EngineInv, WorkersOK, FiredOK, RestsSince, OnceEach, OfBuiltIns, SameRest

\* Only a look at a cooldown begins a firing.
LEMMA NobodyLooks ==
  ASSUME EngineInv, engClock' \in Nat, engClock' >= engClock, fired' = fired, asked' = asked,
         NEW w \in Workers, \A v \in Workers \ {w} : worker'[v] = worker[v], worker'[w].at # "fire"
  PROVE  OwnRest'
<1> SUFFICES ASSUME NEW v \in Workers, worker'[v].at = "fire", NEW f \in OfBuiltIns,
                    f.by = v, f.after = asked, f.rule = Head(worker[v].rules),
                    f.key = RestsOn(f.rule, worker[v].event, worker[v].evidence), v # w,
                    worker'[v] = worker[v]
             PROVE  f.at + Ticks[300] <= engClock'
  BY DEF OwnRest, OfBuiltIns
<1>1. f.at + Ticks[300] <= engClock
  BY DEF EngineInv, OwnRest
<1>2. f.at \in Nat /\ engClock \in Nat
  BY DEF EngineInv, FiredOK, WorkersOK, OfBuiltIns
<1> QED BY <1>1, <1>2

LEMMA CheckKeeps ==
  ASSUME EngineInv, NEW w \in Workers, CheckRule(w)
  PROVE  EngineInv'
<1>1. /\ UNCHANGED <<engClock, cooldowns, asked, fired>>
      /\ DOMAIN worker' = Workers /\ \A v \in Workers \ {w} : worker'[v] = worker[v]
      /\ DOMAIN worker'[w] = {"at", "event", "buf", "rules", "evidence"}
  BY DEF CheckRule, EngineInv, WorkersOK
<1>2. worker'[w].at = "fire" =>
        /\ worker'[w].rules = worker[w].rules /\ worker'[w].event = worker[w].event
        /\ ~Rests(Head(worker[w].rules), RestsOn(Head(worker[w].rules), worker[w].event, worker'[w].evidence))
  BY DEF CheckRule, EngineInv, WorkersOK
<1>3. OwnRest'
  <2> SUFFICES ASSUME NEW f \in OfBuiltIns, worker'[w].at = "fire", f.after = asked,
                      f.rule = Head(worker'[w].rules),
                      f.key = RestsOn(f.rule, worker'[w].event, worker'[w].evidence)
               PROVE  f.at + Ticks[300] <= engClock
    BY <1>1 DEF OwnRest, OfBuiltIns, EngineInv
  <2>1. ~Rests(f.rule, f.key)
    BY <1>2
  <2>2. /\ <<f.rule, f.key>> \in DOMAIN cooldowns /\ cooldowns[<<f.rule, f.key>>] >= f.at
        /\ cooldowns[<<f.rule, f.key>>] \in Nat /\ f.at \in Nat /\ engClock \in Nat
    BY DEF EngineInv, RestsSince, FiredOK, WorkersOK, OfBuiltIns
  <2> QED BY <2>1, <2>2 DEF Rests
<1> QED BY <1>1, <1>3, NoneFires DEF EngineInv, WorkersOK

LEMMA FireKeeps ==
  ASSUME EngineInv, NEW w \in Workers, FireRule(w)
  PROVE  EngineInv'
<1> DEFINE r == Head(worker[w].rules)
           key == RestsOn(r, worker[w].event, worker[w].evidence)
<1>1. /\ worker[w].at = "fire" /\ cooldowns' = Resting(r, key) /\ UNCHANGED <<engClock, asked>>
      /\ DOMAIN worker' = Workers /\ \A v \in Workers \ {w} : worker'[v] = worker[v]
      /\ DOMAIN worker'[w] = {"at", "event", "buf", "rules", "evidence"} /\ worker'[w].at = "check"
  BY DEF FireRule, EngineInv, WorkersOK
<1>2. PICK new : /\ fired' = fired \cup {new} /\ new.filed /\ new.rule = r /\ new.key = key
                 /\ new.at = engClock /\ new.by = w /\ new.after = asked
  <2>1. PICK evs, sev :
          fired' = fired \cup {[rule |-> r, key |-> key, events |-> evs, severity |-> sev, filed |-> TRUE,
                                at |-> engClock, by |-> w, after |-> asked]}
    <3>1. PICK score \in Scores :
            Publish(w, [rule |-> r, key |-> key, events |-> EventsOf(worker[w].evidence), titled |-> TRUE,
                        severity |-> SeverityOf(r, score, Len(worker[w].evidence))])
      BY Zenon DEF FireRule
    <3> QED BY <3>1 DEF Publish
  <2> WITNESS [rule |-> r, key |-> key, events |-> evs, severity |-> sev, filed |-> TRUE,
               at |-> engClock, by |-> w, after |-> asked]
  <2> QED BY <2>1
<1>3. OfBuiltIns' = OfBuiltIns \cup {new}
  BY <1>2 DEF OfBuiltIns
<1>4. engClock \in Nat /\ asked \in Nat /\ \A f \in OfBuiltIns : f.at \in 0..engClock /\ f.after \in 0..asked
  BY DEF EngineInv, WorkersOK, FiredOK, OfBuiltIns
<1> HIDE DEF r, key
<1>5. WorkersOK' /\ FiredOK'
  BY <1>1, <1>2, <1>4, FS_AddElement DEF EngineInv, WorkersOK, FiredOK
<1>6. RestsSince'
  BY <1>1, <1>2, <1>3, <1>4 DEF EngineInv, RestsSince, Resting
<1>7. OwnRest'
  BY <1>1, <1>2, <1>3 DEF EngineInv, OwnRest
<1>8. OnceEach'
  <2>1. \A f \in OfBuiltIns : SameRest(f, new) /\ f.by = new.by => f.at + Ticks[300] <= new.at
    BY <1>1, <1>2 DEF EngineInv, OwnRest, SameRest, r, key
  <2>2. \A f, g : SameRest(f, g) <=> SameRest(g, f)
    BY DEF SameRest
  <2> QED BY <1>3, <2>1, <2>2 DEF EngineInv, OnceEach
<1> QED BY <1>5, <1>6, <1>7, <1>8 DEF EngineInv

\* What a YAML rule makes is nobody's rest.
LEMMA YamlKeeps ==
  ASSUME EngineInv, NEW w \in Workers, PublishYaml(w)
  PROVE  EngineInv'
<1>1. /\ UNCHANGED <<engClock, asked, cooldowns>>
      /\ DOMAIN worker' = Workers /\ \A v \in Workers \ {w} : worker'[v] = worker[v]
      /\ worker'[w] = Idle
  BY DEF PublishYaml, EngineInv, WorkersOK
<1>2. PICK new : /\ fired' = fired \cup {new} /\ ~new.filed
                 /\ new.at = engClock /\ new.by = w /\ new.after = asked
  <2>1. PICK rule, key, evs, sev :
          fired' = fired \cup {[rule |-> rule, key |-> key, events |-> evs, severity |-> sev, filed |-> FALSE,
                                at |-> engClock, by |-> w, after |-> asked]}
    <3>1. PICK rule, key, evs, sev :
            Publish(w, [rule |-> rule, key |-> key, events |-> evs, titled |-> FALSE, severity |-> sev])
      BY Zenon DEF PublishYaml
    <3> QED BY <3>1 DEF Publish
  <2> WITNESS [rule |-> rule, key |-> key, events |-> evs, severity |-> sev, filed |-> FALSE,
               at |-> engClock, by |-> w, after |-> asked]
  <2> QED BY <2>1
<1>3. OfBuiltIns' = OfBuiltIns
  BY <1>2 DEF OfBuiltIns
<1>4. WorkersOK'
  BY <1>1 DEF EngineInv, WorkersOK, Idle
<1>6. FiredOK'
  BY <1>1, <1>2, FS_AddElement DEF EngineInv, WorkersOK, FiredOK
<1>5. RestsSince' /\ OwnRest' /\ OnceEach'
  BY <1>1, <1>3 DEF EngineInv, RestsSince, OwnRest, OnceEach, Idle
<1> QED BY <1>4, <1>5, <1>6 DEF EngineInv

LEMMA OthersKeep ==
  ASSUME EngineInv, NEW w \in Workers, TakeEvent(w) \/ BufferEvent(w) \/ FinishEvent(w)
  PROVE  EngineInv'
<1>1. /\ UNCHANGED <<engClock, asked, cooldowns, fired>>
      /\ DOMAIN worker' = Workers /\ \A v \in Workers \ {w} : worker'[v] = worker[v]
  BY DEF TakeEvent, BufferEvent, FinishEvent, EngineInv, WorkersOK
<1>2. DOMAIN worker'[w] = {"at", "event", "buf", "rules", "evidence"} /\ worker'[w].at # "fire"
  <2>1. CASE TakeEvent(w)
    <3>1. PICK event : worker' = [worker EXCEPT ![w] = [Idle EXCEPT !.at = "buffer", !.event = event]]
      BY <2>1 DEF TakeEvent
    <3> QED BY <3>1 DEF EngineInv, WorkersOK, Idle
  <2>2. CASE BufferEvent(w)
    <3>1. \/ worker' = [worker EXCEPT ![w] = Idle]
          \/ \E e, b, rs : worker' = [worker EXCEPT ![w] =
                              [at |-> "check", event |-> e, buf |-> b, rules |-> rs, evidence |-> <<>>]]
      BY <2>2, Zenon DEF BufferEvent
    <3> QED BY <3>1 DEF EngineInv, WorkersOK, Idle
  <2>3. CASE FinishEvent(w)
    BY <2>3 DEF FinishEvent, EngineInv, WorkersOK, Idle
  <2> QED BY <2>1, <2>2, <2>3
<1> QED BY <1>1, <1>2, NobodyLooks, NoneFires DEF EngineInv, WorkersOK

LEMMA RequestKeeps ==
  ASSUME EngineInv, NEW kind, Request(kind)
  PROVE  EngineInv'
<1>1. /\ asked' = asked + 1 /\ cooldowns' = <<>> /\ UNCHANGED <<engClock, worker, fired>>
      /\ asked \in Nat /\ OfBuiltIns' = OfBuiltIns /\ \A f \in fired : f.after \in 0..asked
  BY DEF Request, EngineInv, WorkersOK, FiredOK, OfBuiltIns
<1>2. \A f \in OfBuiltIns : f.after # asked'
  BY <1>1 DEF OfBuiltIns
<1>3. WorkersOK' /\ FiredOK' /\ OnceEach'
  BY <1>1 DEF EngineInv, WorkersOK, FiredOK, OnceEach, SameRest
<1>4. RestsSince' /\ OwnRest'
  BY <1>1, <1>2 DEF RestsSince, OwnRest
<1> QED BY <1>3, <1>4 DEF EngineInv

LEMMA TickKeeps ==
  ASSUME EngineInv, EngineTick
  PROVE  EngineInv'
<1>1. /\ engClock' = engClock + 1 /\ UNCHANGED <<worker, asked, cooldowns, fired>>
      /\ engClock \in Nat
  BY DEF EngineTick, EngineInv, WorkersOK
<1>2. OwnRest'
  BY <1>1 DEF EngineInv, OwnRest, OfBuiltIns, FiredOK
<1> QED BY <1>1, <1>2, NoneFires DEF EngineInv, WorkersOK

\* However many workers check and set a cooldown side by side, each of them fires
\* a built-in rule for one actor at most once while it rests.
THEOREM FiringsAreBounded == EngineSpec => []FiringsBounded
<1>1. EngineInv /\ [EngineNext]_engVars => EngineInv'
  <2> SUFFICES ASSUME EngineInv, [EngineNext]_engVars PROVE EngineInv'
    OBVIOUS
  <2>1. CASE EngineTick
    BY <2>1, TickKeeps
  <2>2. ASSUME NEW w \in Workers,
               TakeEvent(w) \/ BufferEvent(w) \/ CheckRule(w) \/ FireRule(w) \/ PublishYaml(w) \/ FinishEvent(w)
        PROVE  EngineInv'
    BY <2>2, CheckKeeps, FireKeeps, YamlKeeps, OthersKeep
  <2>3. ASSUME NEW kind, Request(kind) PROVE EngineInv'
    BY <2>3, RequestKeeps
  <2>4. CASE UNCHANGED engVars
    BY <2>4, NoneFires DEF engVars, EngineInv, WorkersOK, OwnRest, OfBuiltIns
  <2> QED BY <2>1, <2>2, <2>3, <2>4 DEF EngineNext
<1> QED BY <1>1, InitEngine, OnceEachBounds, PTL DEF EngineSpec
===============================================================================
